------------------------- MODULE MCInboundPipeline -------------------------
(***************************************************************************)
(* Instances of InboundPipeline for TLC: one sender, and either two       *)
(* payloads, the first with two messages in it, or one payload with a      *)
(* message of each of three kinds.                                         *)
(***************************************************************************)
EXTENDS InboundPipeline, TLC

CONSTANTS w1, w2, m1, m2, m3, p1, p2, ana

MCBatch == (p1 :> <<m1, m2>>) @@ (p2 :> <<m3>>)
MCOneBatch == p1 :> <<m1, m2, m3>>
MCOneKind == (m1 :> "text") @@ (m2 :> "flow") @@ (m3 :> "empty")
MCSender == [m \in {m1, m2, m3} |-> ana]

\* Only a text runs the agents and the state machine: a fixed reply and a
\* flow leave the state as it is, an empty message is skipped.
AllText == [m \in {m1, m2, m3} |-> "text"]
FixedThenText == (m1 :> "fixed") @@ (m2 :> "text") @@ (m3 :> "text")

\* Handlers are interchangeable: for the runs without liveness properties.
HandlerSymmetry == Permutations({w1, w2})

On(backend, mode, faults) ==
    [backend |-> backend, mode |-> mode, faults |-> faults]

\* Production: everything the environment can do to the Redis stores.
RedisProduction ==
    {On("redis", "async", Faults \ {"session_expiry"}),
     On("redis", "inline", {"redelivery", "handler_error", "store_error", "session_expiry"})}

\* Deployments in which deduplication is exact: one process, or a Meta that
\* waits for the end of an attempt before it sends the payload again.
SerialDeployments ==
    {On("memory", "inline", {"redelivery", "handler_error"}),
     On("redis", "inline", {"handler_error"}),
     On("memory", "inline", {"handler_error", "crash"})}

\* Healthy stores and no fault but a Meta that sends again.
RedisRedelivery == {On("redis", "async", {"redelivery"})}
RedisInlineRetry == {On("redis", "inline", {"redelivery", "handler_error"})}
RedisSameSender == {On("redis", "async", {"same_sender"})}
=============================================================================

SPECIFICATION Spec
CONSTANTS
    w1 = w1  w2 = w2
    m1 = m1  m2 = m2  m3 = m3
    p1 = p1  p2 = p2
    ana = ana
    NoPayload = NoPayload
    NoSession = NoSession
    NoMessage = NoMessage
    Workers = {w1, w2}
    Messages = {m1, m2, m3}
    Payloads = {p1}
    Senders = {ana}
    Batch <- MCOneBatch
    Sender <- MCSender
    Kind <- MCOneKind
    Decisions = {"TRIAGE"}
    MaxDeliveries = 2
    Deployments <- RedisRedelivery
INVARIANT NoDuplicateReply
CHECK_DEADLOCK FALSE

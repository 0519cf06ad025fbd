--------------------------- MODULE MCContactCard ---------------------------
(***************************************************************************)
(* Two turns of one sender, a field of each kind, two items for a list of  *)
(* one.  The third value is one the ContactCard model refuses as e-mail    *)
(* address.  A patch brings one thing, or an e-mail address and the flag.  *)
(***************************************************************************)
EXTENDS ContactCard, TLC

CONSTANTS w1, w2

Nothing == [f \in Fields |-> None]
Only(f, v) == [Nothing EXCEPT ![f] = v]

MCPatches ==
    {[scalar |-> Only("email", v), items |-> {}, flag |-> flag] :
        v \in {"v1", "v2", "v3"}, flag \in BOOLEAN}
    \cup {[scalar |-> Only("urgency", v), items |-> {}, flag |-> FALSE] : v \in {"v1", "v2"}}
    \cup {[scalar |-> Nothing, items |-> {"i", "j"}, flag |-> FALSE]}

MCRefused == {<<"email", "v3">>}
MCCounted == {<<"email", "v1">>, <<"email", "v2">>, <<"email", "v3">>, <<"urgency", "v2">>}

TurnSymmetry == Permutations({w1, w2})

On(backend, faults) == [backend |-> backend, faults |-> faults]
AllDeployments ==
    {On("firestore", Faults), On("firestore", {"write"}), On("redis", {"write"})}
SerialRefusals == {On("firestore", {"refused"})}
=============================================================================

----------------------------- MODULE KeyRegistry -----------------------------
(***************************************************************************)
(* What the API keys promise to whoever hands one out: a key has one owner *)
(* for ever, no two keys of an owner share a name, a key is revoked once   *)
(* and for good, the success of its revocation is told to one caller, and  *)
(* nobody starts to act with a key that is revoked.  A request that began  *)
(* before the revocation goes on.                                          *)
(***************************************************************************)
CONSTANTS None, Admins, Names, Keys

VARIABLES record,   \* the owner and the name of a key
          dead,     \* revoked keys
          told,     \* keys whose revocation somebody was told of
          acting    \* keys that authenticated a request still running

vars == <<record, dead, told, acting>>

Init ==
    /\ record = [k \in Keys |-> None]
    /\ dead = {}
    /\ told = {}
    /\ acting = {}

Register(k, a, n) ==
    /\ record[k] = None
    /\ \A other \in Keys : record[other] # [admin |-> a, name |-> n]
    /\ record' = [record EXCEPT ![k] = [admin |-> a, name |-> n]]
    /\ UNCHANGED <<dead, told, acting>>

Begin(k) ==
    /\ record[k] # None /\ k \notin dead
    /\ acting' = acting \union {k}
    /\ UNCHANGED <<record, dead, told>>

End(k) ==
    /\ acting' = acting \ {k}
    /\ UNCHANGED <<record, dead, told>>

\* The caller may or may not learn that it was its request that did it.
Revoke(k) ==
    /\ record[k] # None /\ k \notin dead
    /\ dead' = dead \union {k}
    /\ told' \in {told, told \union {k}}
    /\ UNCHANGED <<record, acting>>

Next ==
    \E k \in Keys :
        \/ \E a \in Admins, n \in Names : Register(k, a, n)
        \/ Begin(k)
        \/ End(k)
        \/ Revoke(k)

Spec == Init /\ [][Next]_vars
=============================================================================

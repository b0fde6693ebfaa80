--------------------------- MODULE AccountRegistry ---------------------------
(***************************************************************************)
(* What the backend promises about the accounts it manages, whatever its   *)
(* processes do at the same time and wherever they stop: the claims of an  *)
(* account only ever change by a new limit or by one more revoked user of  *)
(* its own; a credential counts as revoked only once that is recorded in   *)
(* claims of its account; the resolver serves nothing but recorded claims. *)
(* It does not promise that they are the latest.                           *)
(***************************************************************************)
EXTENDS AccountClaims

CONSTANT Tenants

VARIABLES recorded,  \* every claims record an account has had
          owner,     \* the account a credential was issued by
          revoked,   \* credentials known to be revoked
          served     \* what the resolver answers for an account

vars == <<recorded, owner, revoked, served>>

Init ==
    /\ recorded = [t \in Tenants |-> {}]
    /\ owner = [u \in Users |-> None]
    /\ revoked = {}
    /\ served = [t \in Tenants |-> None]

Record(t, claims) ==
    /\ recorded' = [recorded EXCEPT ![t] = @ \union {claims}]
    /\ UNCHANGED <<owner, revoked, served>>

\* An account begins with nobody revoked.
Register(t) ==
    /\ recorded[t] = {}
    /\ \E n \in LimitValues : Record(t, [limit |-> n, revoked |-> {}])

Relimit(t) ==
    \E claims \in recorded[t], n \in LimitValues :
        Record(t, [limit |-> n, revoked |-> claims.revoked])

Exclude(t, u) ==
    /\ owner[u] = t
    /\ \E claims \in recorded[t] :
           Record(t, [limit |-> claims.limit, revoked |-> claims.revoked \union {u}])

Issue(t, u) ==
    /\ owner[u] = None
    /\ recorded[t] # {}
    /\ owner' = [owner EXCEPT ![u] = t]
    /\ UNCHANGED <<recorded, revoked, served>>

Revoke(u) ==
    /\ owner[u] # None
    /\ \E claims \in recorded[owner[u]] : u \in claims.revoked
    /\ revoked' = revoked \union {u}
    /\ UNCHANGED <<recorded, owner, served>>

Serve(t) ==
    /\ \E claims \in recorded[t] : served' = [served EXCEPT ![t] = claims]
    /\ UNCHANGED <<recorded, owner, revoked>>

\* One account is withdrawn, or the resolver loses them all.
Withdraw ==
    /\ \E gone \in {Tenants} \union {{t} : t \in Tenants} :
           served' = [t \in Tenants |-> IF t \in gone THEN None ELSE served[t]]
    /\ UNCHANGED <<recorded, owner, revoked>>

Next ==
    \/ \E t \in Tenants : Register(t) \/ Relimit(t) \/ Serve(t)
    \/ \E t \in Tenants, u \in Users : Exclude(t, u) \/ Issue(t, u)
    \/ \E u \in Users : Revoke(u)
    \/ Withdraw

Spec == Init /\ [][Next]_vars
=============================================================================

---------------------------- MODULE AccountClaims ----------------------------
(***************************************************************************)
(* The account JWT of a tenant, kept as the claims it carries.  Signing    *)
(* and decoding preserve the claims, so a JWT and its claims are one       *)
(* value here.  Of the claims, the model keeps the two the services        *)
(* change: a limit (Limits.Conn, standing for the limits that are          *)
(* rewritten together) and the revocation list.                            *)
(***************************************************************************)
EXTENDS Integers

CONSTANTS Users,    \* public keys of user credentials
          Limits,   \* max_connections values that requests carry
          None      \* "no value": a NULL column, an empty resolver entry

NoLimit == -1

LimitValues == Limits \union {NoLimit}

Claims == [limit : LimitValues, revoked : SUBSET Users]

ASSUME LimitsAssumption == Limits \subseteq Int

ASSUME NoneAssumption == None \notin Users /\ None \notin Claims /\ None \notin LimitValues

\* Faulty variant: a new account starts from the zero value of its limits.
NewAccountClaims_Unset(n) == [limit |-> IF n > 0 THEN n ELSE None, revoked |-> {}]

\* Faulty variant: the requested limit is stored in the row only.
NewAccountClaims_Default(n) == [limit |-> NoLimit, revoked |-> {}]

\* Create copies a connection limit into the claims only when it is positive;
\* otherwise the library's default, "no limit", stays.
NewAccountClaims(n) == [limit |-> IF n > 0 THEN n ELSE NoLimit, revoked |-> {}]

\* Faulty variant: UpdateLimits builds new claims instead of editing the
\* decoded ones, and loses the revocation list.
WithLimits_Rebuilt(claims, n) == NewAccountClaims(n)

\* UpdateLimits writes the requested limit into the decoded claims verbatim.
WithLimits(claims, n) == [claims EXCEPT !.limit = n]

\* Faulty variant: the revocation replaces the earlier ones.
WithRevocation_Only(claims, u) == [claims EXCEPT !.revoked = {u}]

\* Revoke adds the user to the revocation list of the decoded claims.
WithRevocation(claims, u) == [claims EXCEPT !.revoked = @ \union {u}]
=============================================================================

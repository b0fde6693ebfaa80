------------------------------- MODULE ApiKeys -------------------------------
(***************************************************************************)
(* apikey.PgRepository: the api_keys table and what each of its statements *)
(* reads or writes.  A key stands for its raw string, its hash and its id: *)
(* generate draws 32 random characters, so that no two are alike.          *)
(***************************************************************************)
EXTENDS Naturals

CONSTANTS None, Admins, Names, Keys

ASSUME KeysAssumption == None \notin Admins \union Names \union Keys

VARIABLES keys,   \* the api_keys table
          used,   \* keys with a last_used_at
          known   \* keys whose raw string was given to a client

keyVars == <<keys, used, known>>

Key == [admin : Admins, name : Names, revoked : BOOLEAN]

ASSUME KeyRowAssumption == None \notin Key \union [admin : Admins, name : Names]

KeysTypeOK ==
    /\ keys \in [Keys -> Key \union {None}]
    /\ used \subseteq Keys
    /\ known \subseteq Keys

KeysInit ==
    /\ keys = [k \in Keys |-> None]
    /\ used = {}
    /\ known = {}

\* UNIQUE (admin_id, name), which looks at revoked rows like at any other.
NameTaken(a, n) ==
    \E k \in Keys : keys[k] # None /\ keys[k].admin = a /\ keys[k].name = n

Insert(k, a, n) ==
    keys' = [keys EXCEPT ![k] = [admin |-> a, name |-> n, revoked |-> FALSE]]

\* Faulty variant: the lookup does not look at revoked_at.
LookupByHash_Any(k) == keys[k] # None

LookupByHash(k) == keys[k] # None /\ ~keys[k].revoked

\* Faulty variant: AND admin_id = $2 is missing.
Get_AnyAdmin(k, a) == keys[k] # None

Get(k, a) == keys[k] # None /\ keys[k].admin = a

\* Faulty variant: AND revoked_at IS NULL is missing.
Revocable_Again(k) == keys[k] # None

\* The rows the UPDATE of Revoke matches.
Revocable(k) == keys[k] # None /\ ~keys[k].revoked

SetRevoked(k) == keys' = [keys EXCEPT ![k].revoked = TRUE]

TouchLastUsed(k) == used' = used \union {k}
=============================================================================

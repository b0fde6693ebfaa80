-------------------------- MODULE CredentialService --------------------------
(***************************************************************************)
(* credential.Service: issuing user credentials of a tenant, and revoking  *)
(* them by re-signing the tenant's account JWT with a longer revocation    *)
(* list.                                                                   *)
(***************************************************************************)
EXTENDS TenantService

VARIABLES creds,   \* the user_credentials table, by user public key
          acked    \* history: the users whose revocation was answered with success

credVars == <<creds, acked>>

Credential == [tenant : Tenants, revoked : BOOLEAN]

ASSUME CredentialAssumption == None \notin Credential

CredentialTypeOK ==
    /\ creds \in [Users -> Credential \union {None}]
    /\ acked \subseteq Users

CredentialInit ==
    /\ creds = [u \in Users |-> None]
    /\ acked = {}

\* A user key is generated once.
Fresh(u) == creds[u] = None /\ \A p \in Procs : frame[p].user # u

-----------------------------------------------------------------------------
\* POST /tenants/:id/credentials: read the tenant, read its seed, insert.

IssueGet(h) ==
    /\ Accepting(h, "Issue")
    /\ \E t \in Tenants, u \in Users :
           /\ Visible(t)
           /\ Fresh(u)
           /\ Enter(h, [Opened("Issue", "loadSeed", t) EXCEPT !.user = u])
    /\ UNCHANGED <<dbVars, credVars, netVars, hostVars>>

IssueLoadSeed(h) ==
    /\ At(h, "Issue", "loadSeed")
    /\ \/ frame[h].tenant \in seeds /\ Goto(h, "insert")
       \/ (frame[h].tenant \notin seeds \/ DbReadFails) /\ Return(h)
    /\ UNCHANGED <<dbVars, credVars, netVars, hostVars>>

IssueInsert(h) ==
    /\ At(h, "Issue", "insert")
    /\ \E r \in DbOutcomes :
           creds' = IF r.applied
                        THEN [creds EXCEPT ![frame[h].user] =
                                  [tenant |-> frame[h].tenant, revoked |-> FALSE]]
                        ELSE creds
    /\ Return(h)
    /\ UNCHANGED <<dbVars, acked, netVars, hostVars>>

-----------------------------------------------------------------------------
\* DELETE /tenants/:id/credentials/:cid: read the credential, the tenant and
\* its JWT; write the re-signed JWT, mark the credential, push.

\* A credential already marked is answered with success at once.
RevokeGet(h) ==
    /\ Accepting(h, "Revoke")
    /\ \E u \in Users :
           /\ creds[u] # None
           /\ \/ /\ creds[u].revoked
                 /\ acked' = acked \union {u}
                 /\ UNCHANGED frame
              \/ /\ ~creds[u].revoked
                 /\ Enter(h, [Opened("Revoke", "getTenant", creds[u].tenant) EXCEPT !.user = u])
                 /\ UNCHANGED acked
    /\ UNCHANGED <<dbVars, creds, netVars, hostVars>>

\* Faulty variant: the tenant is not looked at.
RevokeGetTenant_Unchecked(h) ==
    /\ At(h, "Revoke", "getTenant")
    /\ Goto(h, "select")
    /\ UNCHANGED <<dbVars, credVars, netVars, hostVars>>

RevokeGetTenant(h) ==
    /\ At(h, "Revoke", "getTenant")
    /\ \/ Visible(frame[h].tenant) /\ Goto(h, "select")
       \/ (~Visible(frame[h].tenant) \/ DbReadFails) /\ Return(h)
    /\ UNCHANGED <<dbVars, credVars, netVars, hostVars>>

\* Faulty variant: the credential is marked without storing the re-signed JWT.
RevokeSelect_MarkOnly(h) ==
    /\ At(h, "Revoke", "select")
    /\ LET f == frame[h]
           jwt == WithRevocation(tenants[f.tenant].jwt, f.user)
       IN \/ Enter(h, [f EXCEPT !.pc = "mark", !.jwt = jwt])
          \/ DbReadFails /\ Return(h)
    /\ UNCHANGED <<dbVars, credVars, netVars, hostVars>>

\* The JWT is read again, by a query that does not look at the status.
RevokeSelect(h) ==
    /\ At(h, "Revoke", "select")
    /\ LET f == frame[h]
           jwt == WithRevocation(tenants[f.tenant].jwt, f.user)
       IN \/ Enter(h, [f EXCEPT !.pc = "write", !.jwt = jwt])
          \/ DbReadFails /\ Return(h)
    /\ UNCHANGED <<dbVars, credVars, netVars, hostVars>>

\* UpdateAccountJWT writes the column alone.
RevokeWrite(h) ==
    /\ At(h, "Revoke", "write")
    /\ LET f == frame[h]
       IN \E r \in DbOutcomes :
              /\ IF r.applied
                     THEN WriteJWT(f.tenant, [tenants[f.tenant] EXCEPT !.jwt = f.jwt])
                     ELSE UNCHANGED dbVars
              /\ IF r.err THEN Return(h) ELSE Goto(h, "mark")
    /\ UNCHANGED <<credVars, netVars, hostVars>>

RevokeMark(h) ==
    /\ At(h, "Revoke", "mark")
    /\ \E r \in DbOutcomes :
           /\ creds' = IF r.applied THEN [creds EXCEPT ![frame[h].user].revoked = TRUE]
                                    ELSE creds
           /\ IF r.err THEN Return(h) ELSE Goto(h, "push")
    /\ UNCHANGED <<dbVars, acked, netVars, hostVars>>

\* Without a resolver, PushAccountJWT fails.
RevokePush(h) ==
    /\ At(h, "Revoke", "push")
    /\ PushOrSkip(h, Return(h))
    /\ UNCHANGED <<dbVars, credVars, hostVars>>

RevokeAnswer(h) ==
    /\ At(h, "Revoke", "answer")
    /\ \/ Accepted(h) /\ acked' = acked \union {frame[h].user}
       \/ Refused(h) /\ UNCHANGED acked
    /\ Return(h)
    /\ UNCHANGED <<dbVars, creds, hostVars>>

-----------------------------------------------------------------------------
IssueStep(h) == IssueGet(h) \/ IssueLoadSeed(h) \/ IssueInsert(h)

RevokeStep(h) ==
    \/ RevokeGet(h)
    \/ RevokeGetTenant(h)
    \/ RevokeSelect(h)
    \/ RevokeWrite(h)
    \/ RevokeMark(h)
    \/ RevokePush(h)
    \/ RevokeAnswer(h)

CredentialStep(h) == IssueStep(h) \/ RevokeStep(h)
=============================================================================

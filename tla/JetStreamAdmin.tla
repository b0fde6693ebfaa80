--------------------------- MODULE JetStreamAdmin ----------------------------
(***************************************************************************)
(* jetstream.Admin.js: every JetStream handler first connects as the       *)
(* tenant; when the server answers "authorization violation", the account  *)
(* is taken to be missing from the resolver and its JWT is pushed again.   *)
(***************************************************************************)
EXTENDS TenantService

\* The account's key pair is read without a look at the tenant's status.
JetStreamGet(h) ==
    /\ Accepting(h, "JetStream")
    /\ \E t \in seeds : Enter(h, Opened("JetStream", "connect", t))
    /\ UNCHANGED <<dbVars, netVars, hostVars>>

\* A pooled connection is still up, or a new one is accepted, or the call
\* fails for another reason; an account without a JWT cannot authenticate.
JetStreamConnect(h) ==
    /\ At(h, "JetStream", "connect")
    /\ \/ Return(h)
       \/ store[frame[h].tenant] = None /\ Goto(h, "reseed")
    /\ UNCHANGED <<dbVars, netVars, hostVars>>

JetStreamReseed(h) ==
    /\ At(h, "JetStream", "reseed")
    /\ LET f == frame[h]
       IN \/ /\ Visible(f.tenant)
             /\ Enter(h, [f EXCEPT !.pc = "push", !.jwt = tenants[f.tenant].jwt])
          \/ /\ ~Visible(f.tenant) \/ DbReadFails
             /\ Return(h)
    /\ UNCHANGED <<dbVars, netVars, hostVars>>

JetStreamPush(h) ==
    /\ At(h, "JetStream", "push")
    /\ PushOrSkip(h, Return(h))
    /\ UNCHANGED <<dbVars, hostVars>>

JetStreamAnswer(h) ==
    /\ At(h, "JetStream", "answer")
    /\ Accepted(h) \/ Refused(h)
    /\ Return(h)
    /\ UNCHANGED <<dbVars, hostVars>>

JetStreamStep(h) ==
    \/ JetStreamGet(h)
    \/ JetStreamConnect(h)
    \/ JetStreamReseed(h)
    \/ JetStreamPush(h)
    \/ JetStreamAnswer(h)
=============================================================================

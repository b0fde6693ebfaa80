---------------------------- MODULE ReauthProofs ----------------------------
(***************************************************************************)
(* Proofs about Reauth for any number of requests and tokens.              *)
(***************************************************************************)
EXTENDS Reauth, TLAPS

\* Every token in use was issued: the next one is newer than all of them.
TokensIssued ==
    /\ token # None => token <= issued
    /\ \A r \in Requests : req[r].token <= issued

\* Requests are sent while somebody is signed in.
SignedIn == page = "app" => token # None

Inv == TypeOK /\ ModalServes /\ TokensIssued /\ SignedIn

\* The invariant holds initially: nobody waits, and token 1 is stored.
LEMMA InitInv == Init => Inv
<1> SUFFICES ASSUME Init
             PROVE  Inv
    OBVIOUS
<1> USE ReauthAssumption DEF Init
<1>1. NoRequest \in Request /\ Hidden \in Modal
    BY DEF NoRequest, Request, Hidden, Modal, MAX_ATTEMPTS
<1>2. TypeOK
    <2>1. req \in [Requests -> Request] /\ modal \in Modal
        BY <1>1
    <2>2. token \in Nat \union {None} /\ issued \in Nat /\ expired \subseteq 1 .. issued
        OBVIOUS
    <2>3. inFlight \in BOOLEAN /\ page \in {"app", "login"}
        OBVIOUS
    <2> QED
        BY <2>1, <2>2, <2>3 DEF TypeOK
<1>3. ModalServes
    BY DEF ModalServes, Waiting, At, NoRequest, Hidden
<1>4. TokensIssued /\ SignedIn
    BY DEF TokensIssued, SignedIn, NoRequest
<1> QED
    BY <1>2, <1>3, <1>4 DEF Inv

\* Sending, answering and delivering keep the invariant.
LEMMA RequestStep ==
    ASSUME Inv, NEW r \in Requests, Send(r) \/ Evaluate(r) \/ Deliver(r) \/ DeliverExpired(r)
    PROVE  Inv'
<1> USE ReauthAssumption DEF Inv, TypeOK, TokensIssued, SignedIn, Request, At, MAX_ATTEMPTS
<1>1. CASE Send(r)
    <2>1. TypeOK'
        <3>1. token \in Nat
            BY <1>1 DEF Send
        <3>2. Sent(token) \in Request
            BY <3>1 DEF Sent
        <3> QED
            BY <1>1, <3>2 DEF Send
    <2>2. ModalServes'
        BY <1>1 DEF Send, Sent, ModalServes, Waiting
    <2>3. TokensIssued' /\ SignedIn'
        BY <1>1 DEF Send, Sent
    <2> QED
        BY <2>1, <2>2, <2>3
<1>2. CASE Evaluate(r)
    <2>1. TypeOK'
        <3> DEFINE gone == req[r].token \in expired
        <3>1. gone \in BOOLEAN
            OBVIOUS
        <3>2. req' = [req EXCEPT ![r].pc = "answered", ![r].expired = gone]
            BY <1>2 DEF Evaluate
        <3> HIDE DEF gone
        <3>3. req' \in [Requests -> Request]
            BY <3>1, <3>2
        <3> QED
            BY <1>2, <3>3 DEF Evaluate
    <2>2. ModalServes'
        BY <1>2 DEF Evaluate, ModalServes, Waiting
    <2>3. TokensIssued' /\ SignedIn'
        BY <1>2 DEF Evaluate
    <2> QED
        BY <2>1, <2>2, <2>3
<1>3. CASE Deliver(r)
    <2>1. TypeOK'
        BY <1>3 DEF Deliver, NoRequest
    <2>2. ModalServes'
        BY <1>3 DEF Deliver, NoRequest, ModalServes, Waiting
    <2>3. TokensIssued' /\ SignedIn'
        BY <1>3 DEF Deliver, NoRequest
    <2> QED
        BY <2>1, <2>2, <2>3
<1>4. CASE DeliverExpired(r)
    <2>1. TypeOK'
        BY <1>4 DEF DeliverExpired, RequestReauth, Modal
    <2>2. modal'.open
        BY <1>4 DEF DeliverExpired, RequestReauth, Modal, ModalServes
    <2>3. r \in Waiting'
        BY <1>4 DEF DeliverExpired, Waiting
    <2>4. ModalServes'
        BY <1>4, <2>2, <2>3 DEF DeliverExpired, ModalServes, Modal
    <2>5. TokensIssued' /\ SignedIn'
        BY <1>4 DEF DeliverExpired
    <2> QED
        BY <2>1, <2>4, <2>5
<1> QED
    BY <1>1, <1>2, <1>3, <1>4

\* Steps that leave the requests, the promise and the tokens alone.
LEMMA ModalStep ==
    ASSUME Inv, Render \/ Submit
    PROVE  Inv'
<1>1. UNCHANGED <<req, token, issued, expired, inFlight, page>>
    BY DEF Render, Submit
<1>2. modal' \in Modal /\ modal'.open = modal.open
    <2> USE DEF Inv, TypeOK, Modal, MAX_ATTEMPTS
    <2>1. CASE Render /\ modal.open
        <3>1. modal.open = TRUE
            BY <2>1
        <3>2. modal' = [open |-> TRUE, shown |-> TRUE, submitting |-> FALSE,
                        login |-> FALSE, attempts |-> 0]
            BY <2>1 DEF Render, Hidden
        <3>3. modal' \in Modal
            BY <3>2
        <3>4. modal'.open = TRUE
            BY <3>2
        <3> QED
            BY <3>1, <3>3, <3>4, Zenon
    <2>2. CASE Render /\ ~modal.open
        BY <2>2 DEF Render
    <2>3. CASE Submit
        BY <2>3 DEF Submit
    <2> QED
        BY <2>1, <2>2, <2>3
<1> QED
    BY <1>1, <1>2 DEF Inv, TypeOK, ModalServes, TokensIssued, SignedIn, Waiting, At

\* A successful login resolves the promise and sends everybody again.
LEMMA LoginSucceedsStep ==
    ASSUME Inv, LoginSucceeds
    PROVE  Inv'
<1> USE ReauthAssumption DEF Inv, TypeOK, LoginSucceeds, At
<1>1. TypeOK'
    <2>1. token' \in Nat /\ issued' \in Nat /\ expired' \subseteq 1 .. issued'
        OBVIOUS
    <2>2. Sent(token') \in Request
        BY <2>1 DEF Sent, Request
    <2>3. req' \in [Requests -> Request]
        BY <2>2 DEF Retried
    <2>4. modal' \in Modal
        BY DEF Modal
    <2>5. inFlight' \in BOOLEAN
        OBVIOUS
    <2> QED
        BY <2>1, <2>3, <2>4, <2>5
<1>2. Waiting' = {}
    BY DEF Retried, Sent, Waiting
<1>3. ModalServes'
    BY <1>2 DEF ModalServes, Modal
<1>4. TokensIssued' /\ SignedIn'
    BY DEF TokensIssued, SignedIn, Retried, Sent, Request
<1> QED
    BY <1>1, <1>3, <1>4

\* A failed login changes the form only, or leaves nothing of the page.
LEMMA LoginFailsStep ==
    ASSUME Inv, LoginFails
    PROVE  Inv'
<1> USE ReauthAssumption DEF Inv, TypeOK, MAX_ATTEMPTS
<1>1. CASE Redirect /\ UNCHANGED <<issued, expired>>
    <2>1. NoRequest \in Request /\ Hidden \in Modal
        BY DEF NoRequest, Request, Hidden, Modal
    <2>2. TypeOK'
        <3>1. req' \in [Requests -> Request] /\ modal' \in Modal
            BY <1>1, <2>1 DEF Redirect
        <3>2. inFlight' \in BOOLEAN
            BY <1>1 DEF Redirect
        <3>3. token' \in Nat \union {None} /\ page' \in {"app", "login"}
            BY <1>1 DEF Redirect
        <3> QED
            BY <1>1, <3>1, <3>2, <3>3
    <2>3. ModalServes'
        BY <1>1 DEF Redirect, ModalServes, Waiting, At, NoRequest, Hidden
    <2>4. TokensIssued' /\ SignedIn'
        BY <1>1 DEF Redirect, TokensIssued, SignedIn, NoRequest
    <2> QED
        BY <2>2, <2>3, <2>4
<1>2. CASE /\ modal.attempts + 1 < MAX_ATTEMPTS
           /\ modal' = [modal EXCEPT !.login = FALSE, !.submitting = FALSE,
                                     !.attempts = modal.attempts + 1]
           /\ UNCHANGED <<req, token, inFlight, page>>
           /\ UNCHANGED <<issued, expired>>
    <2>1. modal' \in Modal /\ modal'.open = modal.open
        <3> DEFINE next == modal.attempts + 1
        <3>1. next \in 0 .. (MAX_ATTEMPTS - 1)
            BY <1>2 DEF Modal
        <3>2. modal' = [modal EXCEPT !.login = FALSE, !.submitting = FALSE, !.attempts = next]
            BY <1>2
        <3> HIDE DEF next
        <3> QED
            BY <3>1, <3>2 DEF Modal
    <2> QED
        BY <1>2, <2>1 DEF ModalServes, TokensIssued, SignedIn, Waiting, At
<1> QED
    BY <1>1, <1>2 DEF LoginFails

\* A cancellation rejects the promise, and nobody waits any more.
LEMMA CancelStep ==
    ASSUME Inv, Cancel
    PROVE  Inv'
<1> USE ReauthAssumption DEF Inv, TypeOK, Cancel, At
<1>1. TypeOK'
    <2>1. NoRequest \in Request
        BY DEF NoRequest, Request
    <2>2. req' \in [Requests -> Request]
        BY <2>1
    <2>3. modal' \in Modal
        BY DEF Modal
    <2> QED
        BY <2>2, <2>3
<1>2. Waiting' = {}
    BY DEF NoRequest, Waiting
<1>3. ModalServes'
    BY <1>2 DEF ModalServes, Modal
<1>4. TokensIssued' /\ SignedIn'
    BY DEF TokensIssued, SignedIn, NoRequest
<1> QED
    BY <1>1, <1>3, <1>4

\* Expiry and the login page touch neither the modal nor the requests.
LEMMA OutsideStep ==
    ASSUME Inv, Expire \/ Logout \/ SignIn
    PROVE  Inv'
<1>1. UNCHANGED <<req, inFlight, modal>>
    BY DEF Expire, Logout, SignIn
<1>2. TypeOK'
    <2> USE <1>1, ReauthAssumption DEF Inv, TypeOK, MAX_ATTEMPTS
    <2>1. CASE Expire
        BY <2>1 DEF Expire
    <2>2. CASE Logout
        BY <2>2 DEF Logout
    <2>3. CASE SignIn
        BY <2>3 DEF SignIn
    <2> QED
        BY <2>1, <2>2, <2>3
<1>3. ModalServes'
    BY <1>1 DEF Inv, ModalServes, Waiting, At
<1>4. TokensIssued' /\ SignedIn'
    BY <1>1, ReauthAssumption
       DEF Inv, TypeOK, TokensIssued, SignedIn, Expire, Logout, SignIn, Request
<1> QED
    BY <1>2, <1>3, <1>4 DEF Inv

\* Every step keeps the invariant.
LEMMA NextInv == Inv /\ [Next]_vars => Inv'
<1> SUFFICES ASSUME Inv, [Next]_vars
             PROVE  Inv'
    OBVIOUS
<1>1. CASE UNCHANGED vars
    BY <1>1 DEF vars, Inv, TypeOK, ModalServes, TokensIssued, SignedIn, Waiting, At
<1>2. CASE Next
    BY <1>2, RequestStep, ModalStep, LoginSucceedsStep, LoginFailsStep, CancelStep,
       OutsideStep DEF Next
<1> QED
    BY <1>1, <1>2

\* The inductive invariant: types, the promise and the modal, and the tokens.
THEOREM Invariance == Spec => []Inv
BY InitInv, NextInv, PTL DEF Spec

\* Requests, modal and tokens are well formed; only issued tokens expire.
THEOREM TypeCorrect == Spec => []TypeOK
<1>1. Inv => TypeOK
    BY DEF Inv
<1> QED
    BY <1>1, Invariance, PTL

\* The promise, the modal and the waiting requests go together, for any
\* number of requests and however late their answers come.
THEOREM WaitersHaveTheirModal == Spec => []ModalServes
<1>1. Inv => ModalServes
    BY DEF Inv
<1> QED
    BY <1>1, Invariance, PTL

\* Only a login sends a waiting request again, with the token it brought.
LEMMA RetryStep ==
    ASSUME Inv, [Next]_vars, NEW r \in Requests, At(r, "waiting"), req'[r].pc = "sent"
    PROVE  req'[r].token > req[r].token
<1>1. CASE LoginSucceeds
    BY <1>1, ReauthAssumption
       DEF LoginSucceeds, Retried, Sent, Inv, TypeOK, TokensIssued, Request, At
<1>2. CASE LoginFails
    <2>1. CASE Redirect
        BY <2>1 DEF Redirect, NoRequest
    <2>2. CASE UNCHANGED req
        BY <2>2 DEF At
    <2> QED
        BY <1>2, <2>1, <2>2 DEF LoginFails
<1>3. CASE \E q \in Requests : Send(q) \/ Evaluate(q) \/ Deliver(q) \/ DeliverExpired(q)
    BY <1>3 DEF Send, Evaluate, Deliver, DeliverExpired, At, Inv, TypeOK
<1>4. CASE Cancel
    BY <1>4 DEF Cancel, NoRequest, At, Inv, TypeOK
<1>5. CASE UNCHANGED req
    BY <1>5 DEF At
<1> QED
    BY <1>1, <1>2, <1>3, <1>4, <1>5
       DEF Next, vars, Expire, Render, Submit, Logout, SignIn

\* A request is only ever repeated with a token newer than the one it failed with.
THEOREM RetriesFollowALogin == Spec => RetriesAreNewer
<1>1. Inv /\ [Next]_vars => [\A r \in Requests : At(r, "waiting") /\ req'[r].pc = "sent"
                                 => req'[r].token > req[r].token]_vars
    BY RetryStep
<1> QED
    BY <1>1, Invariance, PTL DEF Spec, RetriesAreNewer

-----------------------------------------------------------------------------
\* How the modal comes to be stuck.

\* Rendering an opening, submitting and every end of a login leave a modal that
\* is closed, enabled or has a login under way; what is left is a first report.
LEMMA StuckStep ==
    ASSUME Inv, [Next]_vars, ~Stuck, Stuck'
    PROVE  ~inFlight /\ inFlight' /\ ~Rendered
<1> USE DEF Inv, TypeOK, Modal, Stuck
<1>1. CASE UNCHANGED modal
    BY <1>1
<1>2. ASSUME NEW r \in Requests, DeliverExpired(r)
      PROVE  ~inFlight /\ inFlight' /\ ~Rendered
    BY <1>2 DEF DeliverExpired, RequestReauth, Rendered, ModalServes
<1>3. CASE Render
    <2>1. CASE modal.open
        <3>1. modal' = [open |-> TRUE, shown |-> TRUE, submitting |-> FALSE,
                        login |-> FALSE, attempts |-> 0]
            BY <1>3, <2>1 DEF Render, Hidden
        <3> QED
            BY <3>1
    <2>2. CASE ~modal.open
        <3>1. modal' = [modal EXCEPT !.shown = FALSE]
            BY <1>3, <2>2 DEF Render
        <3> QED
            BY <3>1
    <2> QED
        BY <2>1, <2>2
<1>4. CASE Submit
    BY <1>4 DEF Submit
<1>5. CASE LoginSucceeds
    BY <1>5 DEF LoginSucceeds
<1>6. CASE LoginFails
    <2>1. CASE Redirect
        BY <2>1 DEF Redirect, Hidden
    <2>2. CASE modal' = [modal EXCEPT !.login = FALSE, !.submitting = FALSE,
                                      !.attempts = modal.attempts + 1]
        BY <2>2
    <2> QED
        BY <1>6, <2>1, <2>2 DEF LoginFails
<1>7. CASE Cancel
    BY <1>7 DEF Cancel
<1> QED
    BY <1>1, <1>2, <1>3, <1>4, <1>5, <1>6, <1>7
       DEF Next, vars, Send, Evaluate, Deliver, Expire, Logout, SignIn

\* The modal gets stuck only by the first report of an expired session between
\* the end of a login and its render, for any number of requests.
THEOREM BlockedByLateAnswersOnly == Spec => OnlyLateAnswersBlock
<1>1. Inv /\ [Next]_vars => [~Stuck /\ Stuck' => ~inFlight /\ inFlight' /\ ~Rendered]_vars
    BY StuckStep
<1> QED
    BY <1>1, Invariance, PTL DEF Spec, OnlyLateAnswersBlock
=============================================================================

------------------------------- MODULE Reauth -------------------------------
(***************************************************************************)
(* The frontend when the session has expired: requests that were answered  *)
(* 401 SessionExpired share one promise of auth-events, ReauthProvider     *)
(* shows the modal, and its login settles the promise.  An action is what  *)
(* the browser runs between two turns of its event loop.  What React shows *)
(* follows what was set in a later turn, except after a click, and nothing *)
(* keeps an answer from coming in before that turn.                        *)
(***************************************************************************)
EXTENDS Naturals

CONSTANTS None,
          Requests,   \* calls of the axios client
          MaxTokens,  \* bound on the tokens that are issued
          Logouts     \* whether the user logs out

ASSUME ReauthAssumption ==
    /\ None \notin Nat
    /\ MaxTokens \in Nat \ {0}
    /\ Logouts \in BOOLEAN

VARIABLES req,       \* the requests
          token,     \* admin_token in localStorage
          issued,    \* the tokens the server has issued are 1 .. issued
          expired,   \* those of them that have expired
          inFlight,  \* whether auth-events has a promise that is not settled
          modal,     \* state of ReauthProvider and ReauthModal
          page       \* the route

vars == <<req, token, issued, expired, inFlight, modal, page>>

MAX_ATTEMPTS == 3

Request == [pc : {"idle", "sent", "answered", "waiting"}, token : Nat, expired : BOOLEAN]

\* "open" is what was set, "shown" what is rendered, "login" a POST under way.
Modal == [open : BOOLEAN, shown : BOOLEAN, submitting : BOOLEAN, login : BOOLEAN,
          attempts : 0 .. (MAX_ATTEMPTS - 1)]

NoRequest == [pc |-> "idle", token |-> 0, expired |-> FALSE]

Hidden == [open |-> FALSE, shown |-> FALSE, submitting |-> FALSE, login |-> FALSE, attempts |-> 0]

TypeOK ==
    /\ req \in [Requests -> Request]
    /\ token \in Nat \union {None}
    /\ issued \in Nat
    /\ expired \subseteq 1 .. issued
    /\ inFlight \in BOOLEAN
    /\ modal \in Modal
    /\ page \in {"app", "login"}

Init ==
    /\ req = [r \in Requests |-> NoRequest]
    /\ token = 1
    /\ issued = 1
    /\ expired = {}
    /\ inFlight = FALSE
    /\ modal = Hidden
    /\ page = "app"

-----------------------------------------------------------------------------
\* Requests, and the interceptors of the client.

At(r, pc) == req[r].pc = pc

Waiting == {r \in Requests : At(r, "waiting")}

\* The request interceptor reads the token when the request is sent.
Sent(t) == [pc |-> "sent", token |-> t, expired |-> FALSE]

Send(r) ==
    /\ At(r, "idle")
    /\ page = "app"
    /\ req' = [req EXCEPT ![r] = Sent(token)]
    /\ UNCHANGED <<token, issued, expired, inFlight, modal, page>>

\* The server looks at the token; its answer travels.
Evaluate(r) ==
    /\ At(r, "sent")
    /\ req' = [req EXCEPT ![r].pc = "answered", ![r].expired = req[r].token \in expired]
    /\ UNCHANGED <<token, issued, expired, inFlight, modal, page>>

\* Any answer but an expired session goes to the caller.
Deliver(r) ==
    /\ At(r, "answered")
    /\ ~req[r].expired
    /\ req' = [req EXCEPT ![r] = NoRequest]
    /\ UNCHANGED <<token, issued, expired, inFlight, modal, page>>

\* requestReauth: the first one dispatches reauth-request, on which the
\* provider sets open; the others get the promise there is.
RequestReauth == modal' = IF inFlight THEN modal ELSE [modal EXCEPT !.open = TRUE]

DeliverExpired(r) ==
    /\ At(r, "answered")
    /\ req[r].expired
    /\ req' = [req EXCEPT ![r].pc = "waiting"]
    /\ RequestReauth
    /\ inFlight' = TRUE
    /\ UNCHANGED <<token, issued, expired, page>>

Expire ==
    /\ expired' = 1 .. issued
    /\ expired' # expired
    /\ UNCHANGED <<req, token, issued, inFlight, modal, page>>

-----------------------------------------------------------------------------
\* The modal.

\* The render that setOpen asked for has taken place.
Rendered == modal.shown = modal.open

\* Faulty variant: the effect does not reset submitting.
Render_KeepsState ==
    /\ ~Rendered
    /\ modal' = [modal EXCEPT !.shown = modal.open]
    /\ UNCHANGED <<req, token, issued, expired, inFlight, page>>

\* The effect of the modal runs when "open" has changed to true.
Render ==
    /\ ~Rendered
    /\ modal' = IF modal.open THEN [Hidden EXCEPT !.open = TRUE, !.shown = TRUE]
                              ELSE [modal EXCEPT !.shown = FALSE]
    /\ UNCHANGED <<req, token, issued, expired, inFlight, page>>

\* The buttons and the enter key.
Enabled == modal.shown /\ ~modal.submitting

Submit ==
    /\ Enabled
    /\ modal' = [modal EXCEPT !.submitting = TRUE, !.login = TRUE]
    /\ UNCHANGED <<req, token, issued, expired, inFlight, page>>

\* Faulty variant: the token is not stored, and the retry, whose header the
\* request interceptor sets again, has the old one.
Retried_Stale == [r \in Requests |-> IF At(r, "waiting") THEN Sent(token) ELSE req[r]]

\* The promise is resolved: its continuations send the requests once more.
Retried == [r \in Requests |-> IF At(r, "waiting") THEN Sent(token') ELSE req[r]]

LoginSucceeds ==
    /\ modal.login
    /\ issued < MaxTokens
    /\ issued' = issued + 1
    /\ token' = issued + 1
    /\ modal' = [modal EXCEPT !.login = FALSE, !.open = FALSE]
    /\ inFlight' = FALSE
    /\ req' = Retried
    /\ UNCHANGED <<expired, page>>

\* window.location.href: nothing of the page is left.
Redirect ==
    /\ token' = None
    /\ page' = "login"
    /\ req' = [r \in Requests |-> NoRequest]
    /\ inFlight' = FALSE
    /\ modal' = Hidden

\* Faulty variant: one attempt too many.
LoginFails_Late ==
    /\ modal.login
    /\ LET next == modal.attempts + 1
       IN \/ /\ next > MAX_ATTEMPTS
             /\ Redirect
          \/ /\ next <= MAX_ATTEMPTS
             /\ modal' = [modal EXCEPT !.login = FALSE, !.submitting = FALSE, !.attempts = next]
             /\ UNCHANGED <<req, token, inFlight, page>>
    /\ UNCHANGED <<issued, expired>>

\* Whatever went wrong, a 401 or anything else, counts as an attempt.
LoginFails ==
    /\ modal.login
    /\ LET next == modal.attempts + 1
       IN \/ /\ next >= MAX_ATTEMPTS
             /\ Redirect
          \/ /\ next < MAX_ATTEMPTS
             /\ modal' = [modal EXCEPT !.login = FALSE, !.submitting = FALSE, !.attempts = next]
             /\ UNCHANGED <<req, token, inFlight, page>>
    /\ UNCHANGED <<issued, expired>>

\* Faulty variant: auth-events keeps the promise it has rejected.
Cancel_KeepsPromise ==
    /\ Enabled
    /\ modal' = [modal EXCEPT !.open = FALSE, !.shown = FALSE]
    /\ req' = [r \in Requests |-> IF At(r, "waiting") THEN NoRequest ELSE req[r]]
    /\ UNCHANGED <<token, issued, expired, inFlight, page>>

\* A click is rendered in the same turn; the callers get their 401.
Cancel ==
    /\ Enabled
    /\ modal' = [modal EXCEPT !.open = FALSE, !.shown = FALSE]
    /\ inFlight' = FALSE
    /\ req' = [r \in Requests |-> IF At(r, "waiting") THEN NoRequest ELSE req[r]]
    /\ UNCHANGED <<token, issued, expired, page>>

-----------------------------------------------------------------------------
\* The login page.  The modal lies over every page.

Logout ==
    /\ Logouts
    /\ page = "app"
    /\ ~modal.shown
    /\ token' = None
    /\ page' = "login"
    /\ UNCHANGED <<req, issued, expired, inFlight, modal>>

SignIn ==
    /\ page = "login"
    /\ ~modal.shown
    /\ issued < MaxTokens
    /\ issued' = issued + 1
    /\ token' = issued + 1
    /\ page' = "app"
    /\ UNCHANGED <<req, expired, inFlight, modal>>

Next ==
    \/ \E r \in Requests : Send(r) \/ Evaluate(r) \/ Deliver(r) \/ DeliverExpired(r)
    \/ Expire
    \/ Render
    \/ Submit
    \/ LoginSucceeds
    \/ LoginFails
    \/ Cancel
    \/ Logout
    \/ SignIn

Spec == Init /\ [][Next]_vars

\* The server answers and React renders; the user need not do anything.
Fairness ==
    /\ \A r \in Requests : WF_vars(Evaluate(r) \/ Deliver(r) \/ DeliverExpired(r))
    /\ WF_vars(Render)
    /\ WF_vars(LoginSucceeds \/ LoginFails)

FairSpec == Spec /\ Fairness

-----------------------------------------------------------------------------
(***************************************************************************)
(* The promise of auth-events, the modal and the waiting requests go       *)
(* together: nobody waits without a modal to settle it, no modal is open   *)
(* for nobody, and after a cancellation the next expired request finds     *)
(* neither a promise that is settled already nor a modal.                  *)
(***************************************************************************)
ModalServes == (modal.open <=> inFlight) /\ (inFlight <=> Waiting # {})

(***************************************************************************)
(* A request is sent again only with a token that was issued after the one *)
(* it failed with, so that every retry belongs to a login of its own: what *)
(* the response interceptor puts in the header is overwritten by the       *)
(* request interceptor, and the stored token has to be the new one by      *)
(* then.                                                                   *)
(***************************************************************************)
RetriesAreNewer ==
    [][\A r \in Requests : At(r, "waiting") /\ req'[r].pc = "sent"
           => req'[r].token > req[r].token]_vars

\* The modal is there to stay, with its buttons disabled and nothing under way
\* that would enable them.
Stuck == modal.open /\ modal.shown /\ modal.submitting /\ ~modal.login

(***************************************************************************)
(* The modal gets stuck in one way only: an expired session is reported    *)
(* after a login has set open to false and before React has rendered it,   *)
(* so that open is true again by then and the effect that enables the      *)
(* buttons, which depends on a change of open, does not run.  No failed    *)
(* login, cancellation, logout or second opening leads there.              *)
(***************************************************************************)
OnlyLateAnswersBlock == [][~Stuck /\ Stuck' => ~inFlight /\ inFlight' /\ ~Rendered]_vars

(***************************************************************************)
(* Whoever waits comes to a modal the user can answer, or stops waiting,   *)
(* unless the modal gets stuck: no promise is left that nobody settles.    *)
(***************************************************************************)
WaitersProceed == inFlight ~> Enabled \/ ~inFlight \/ Stuck

-----------------------------------------------------------------------------
\* What the documentation says and the code does not do.

(***************************************************************************)
(* docs/superpowers/specs/2026-06-08-session-expired-modal-design.md: the  *)
(* cancel button "rejects the pending promise, original 401 surfaces to    *)
(* caller".  So whoever waits comes to a modal whose buttons work, or      *)
(* stops waiting.                                                          *)
(***************************************************************************)
Answerable == inFlight ~> Enabled \/ ~inFlight
=============================================================================

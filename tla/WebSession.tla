----------------------------- MODULE WebSession -----------------------------
(***************************************************************************)
(* Who the page thinks is signed in, against the session the server keeps: *)
(* the login page, the account page, and the change stream that is open    *)
(* while somebody is signed in.  Every request is a call that the server   *)
(* answers later, and any call fails while the server is away.             *)
(***************************************************************************)
EXTENDS Naturals, FiniteSets

CONSTANTS Users,     \* user names
          Mfa,       \* those with a second factor
          Setup,     \* those who must still set one up
          None,      \* nobody, nothing
          BackoffSteps, \* doublings of the retry delay until its cap
          MaxMe,     \* refreshes under way at once (bound)
          MaxCalls   \* other requests under way at once (bound)

ASSUME SessionAssumption ==
  /\ Mfa \subseteq Users /\ Setup \subseteq Users \ Mfa /\ None \notin Users
  /\ BackoffSteps \in Nat \ {0} /\ MaxMe \in Nat \ {0} /\ MaxCalls \in Nat \ {0}

VARIABLES server,  \* whose session the cookie names, and whether it can be reached
          auth,    \* AuthProvider's user and loading
          form,    \* the login page's state
          account, \* the account page's state
          stream,  \* the EventSource, its retry timer and delay
          calls,   \* requests waiting for an answer
          route    \* "/login", "/account" or any other page

sessionVars == <<server, auth, form, account, stream, calls, route>>

Closed == [state |-> "none", backoff |-> 0]
EmptyForm == [challenge |-> None, submitting |-> FALSE]
EmptyAccount == [dialog |-> None, enrollment |-> FALSE, busy |-> FALSE]

SessionInit ==
  /\ \E u \in Users \cup {None} : server = [session |-> u, up |-> TRUE]
  /\ auth = [user |-> None, loading |-> TRUE]
  /\ form = EmptyForm
  /\ account = EmptyAccount
  /\ stream = Closed
  /\ calls = {[op |-> "me", got |-> "sent"]}
  /\ route = "/dashboard"

---------------------------------------------------------------------------
(* Routing *)

\* Seeded fault: a setup that is due is forgotten.
RedirectedToLogin(user, loading, at) ==
  IF loading THEN at
  ELSE IF user = None THEN "/login"
  ELSE IF at = "/login" THEN "/dashboard" ELSE at

\* AuthenticatedLayout and LoginPage redirect as soon as they are rendered.
Redirected(user, loading, at) ==
  IF loading THEN at
  ELSE IF user = None THEN "/login"
  ELSE IF user \in Setup THEN "/account"
  ELSE IF at = "/login" THEN "/dashboard" ELSE at

\* Seeded fault: signing out does not close it.
StreamKept(user) ==
  IF user \in {auth.user, None} THEN stream ELSE [state |-> "connecting", backoff |-> 0]

\* The effect of RealtimeProvider runs anew only when the user name changes.
StreamFor(user) ==
  IF user = auth.user THEN stream
  ELSE IF user = None THEN Closed ELSE [state |-> "connecting", backoff |-> 0]

\* setUser: the stream and the route follow; the login page and the account
\* page forget their state when they are left.
setUser(user) ==
  /\ auth' = [user |-> user, loading |-> FALSE]
  /\ stream' = StreamFor(user)
  /\ route' = Redirected(user, FALSE, route)
  /\ form' = IF route' = "/login" THEN form ELSE EmptyForm
  /\ account' = IF route' = "/account" THEN account ELSE EmptyAccount

Navigate ==
  /\ auth.user \in Users \ Setup
  /\ route' \in {"/dashboard", "/account"} \ {route}
  /\ account' = EmptyAccount
  /\ UNCHANGED <<server, auth, form, stream, calls>>

---------------------------------------------------------------------------
(* The server *)

\* A session ends: it expires, is revoked, or its user is changed.
SessionEnds ==
  /\ server.session # None
  /\ server' = [server EXCEPT !.session = None]
  /\ UNCHANGED <<auth, form, account, stream, calls, route>>

ServerStops ==
  /\ server.up
  /\ server' = [server EXCEPT !.up = FALSE]
  /\ UNCHANGED <<auth, form, account, stream, calls, route>>

ServerReturns ==
  /\ ~server.up
  /\ server' = [server EXCEPT !.up = TRUE]
  /\ UNCHANGED <<auth, form, account, stream, calls, route>>

\* What a request changes and is answered with.  Every change of the account
\* ends the sessions of the user, except the start of an enrolment.
Outcomes(c) ==
  CASE c.op = "me" -> {[session |-> server.session, got |-> server.session]}
    [] c.op = "login" ->
         {[session |-> server.session, got |-> "refused"]} \cup
         {[session |-> u, got |-> u] : u \in Users \ Mfa} \cup
         {[session |-> server.session, got |-> "mfaRequired"] : u \in Mfa}
    [] c.op = "verify" ->
         {[session |-> server.session, got |-> "refused"]} \cup
         {[session |-> u, got |-> u] : u \in Mfa}
    [] c.op = "logout" -> {[session |-> None, got |-> None]}
    [] c.op = "change" ->
         {[session |-> server.session, got |-> "refused"]} \cup
         (IF server.session = None THEN {} ELSE {[session |-> None, got |-> "ok"]})
    [] c.op = "enroll" ->
         {[session |-> server.session, got |-> IF server.session = None THEN "refused" ELSE "ok"]}

Served(c) ==
  /\ c.got = "sent" /\ server.up
  /\ \E o \in Outcomes(c) :
       /\ server' = [server EXCEPT !.session = o.session]
       /\ calls' = (calls \ {c}) \cup {[c EXCEPT !.got = o.got]}
  /\ UNCHANGED <<auth, form, account, stream, route>>

\* The request or its answer is lost.
Lost(c) ==
  /\ ~server.up /\ c.got # "failed"
  /\ calls' = (calls \ {c}) \cup {[c EXCEPT !.got = "failed"]}
  /\ UNCHANGED <<server, auth, form, account, stream, route>>

---------------------------------------------------------------------------
(* AuthContext *)

Waiting(op) == \E c \in calls : c.op = op
Refreshes == {c \in calls : c.op = "me"}

Send(op) ==
  /\ IF op = "me" THEN Cardinality(Refreshes) < MaxMe
                  ELSE Cardinality(calls \ Refreshes) < MaxCalls
  /\ calls' = calls \cup {[op |-> op, got |-> "sent"]}

\* refresh: whatever goes wrong, nobody is signed in.
MeAnswered(c) ==
  /\ c.op = "me" /\ c.got # "sent"
  /\ calls' = calls \ {c}
  /\ setUser(IF c.got = "failed" THEN None ELSE c.got)
  /\ UNCHANGED server

\* onSubmit, and the single sign-on that needs no second factor.
Login ==
  /\ route = "/login" /\ form.challenge = None /\ ~form.submitting
  /\ Send("login")
  /\ form' = [form EXCEPT !.submitting = TRUE]
  /\ UNCHANGED <<server, auth, account, stream, route>>

\* onVerifyMfa
VerifyMfa ==
  /\ route = "/login" /\ form.challenge # None /\ ~form.submitting
  /\ Send("verify")
  /\ form' = [form EXCEPT !.submitting = TRUE]
  /\ UNCHANGED <<server, auth, account, stream, route>>

\* Back to sign in: also while the code is being verified.
BackToSignIn ==
  /\ route = "/login" /\ form.challenge # None
  /\ form' = [form EXCEPT !.challenge = None]
  /\ UNCHANGED <<server, auth, account, stream, calls, route>>

LoginAnswered(c) ==
  /\ c.op \in {"login", "verify"} /\ c.got # "sent"
  /\ calls' = calls \ {c}
  /\ \/ /\ c.got \in Users
        /\ setUser(c.got)
     \/ /\ c.got = "mfaRequired"
        /\ form' = [form EXCEPT !.challenge = "token", !.submitting = FALSE]
        /\ UNCHANGED <<auth, account, stream, route>>
     \/ /\ c.got \in {"refused", "failed"}
        /\ form' = [form EXCEPT !.submitting = FALSE]
        /\ UNCHANGED <<auth, account, stream, route>>
  /\ UNCHANGED server

\* The user menu and the command palette.
Logout ==
  /\ auth.user # None /\ ~Waiting("logout")
  /\ Send("logout")
  /\ UNCHANGED <<server, auth, form, account, stream, route>>

\* An answered logout signs out; one that failed leaves the user signed in.
LogoutAnswered(c) ==
  /\ c.op = "logout" /\ c.got # "sent"
  /\ calls' = calls \ {c}
  /\ IF c.got = "failed"
       THEN /\ account' = IF account.busy THEN [account EXCEPT !.busy = FALSE]
                                         ELSE account
            /\ UNCHANGED <<auth, form, stream, route>>
       ELSE setUser(None)
  /\ UNCHANGED server

---------------------------------------------------------------------------
(* AccountPage *)

OpenDialog ==
  /\ route = "/account" /\ account.dialog = None
  /\ \E d \in {"password", "enroll"} : account' = [account EXCEPT !.dialog = d]
  /\ UNCHANGED <<server, auth, form, stream, calls, route>>

\* close: also while a request is on its way.
CloseDialog ==
  /\ account.dialog # None
  /\ account' = [EmptyAccount EXCEPT !.busy = account.busy]
  /\ UNCHANGED <<server, auth, form, stream, calls, route>>

\* run and beginEnrollment
SubmitAccount ==
  /\ account.dialog # None /\ ~account.busy
  /\ IF account.dialog = "enroll"
       THEN Send(IF account.enrollment THEN "change" ELSE "enroll")
       ELSE Send("change")
  /\ account' = [account EXCEPT !.busy = TRUE]
  /\ UNCHANGED <<server, auth, form, stream, route>>

\* A change that was made is followed by a logout; the enrolment that is
\* answered is shown, in the dialog that is open by then or the next one.
AccountAnswered(c) ==
  /\ c.op \in {"change", "enroll"} /\ c.got # "sent"
  /\ \/ /\ c.got # "ok"
        /\ account' = IF route = "/account" THEN [account EXCEPT !.busy = FALSE]
                                            ELSE account
        /\ calls' = calls \ {c}
     \/ /\ c.got = "ok" /\ c.op = "enroll"
        /\ account' = IF route = "/account" THEN [account EXCEPT !.busy = FALSE, !.enrollment = TRUE]
                                            ELSE account
        /\ calls' = calls \ {c}
     \/ /\ c.got = "ok" /\ c.op = "change"
        /\ calls' = (calls \ {c}) \cup {[op |-> "logout", got |-> "sent"]}
        /\ UNCHANGED account
  /\ UNCHANGED <<server, auth, form, stream, route>>

---------------------------------------------------------------------------
(* RealtimeProvider *)

StreamOpens ==
  /\ stream.state = "connecting" /\ server.up /\ server.session # None
  /\ stream' = [state |-> "open", backoff |-> 0]
  /\ UNCHANGED <<server, auth, form, account, calls, route>>

\* A lost connection is opened again by the browser itself.
StreamErrs ==
  /\ stream.state = "open"
  /\ stream' = [stream EXCEPT !.state = "connecting"]
  /\ UNCHANGED <<server, auth, form, account, calls, route>>

\* Seeded fault: who is signed in is not checked.
ClosesUnasked ==
  /\ stream.state = "connecting"
  /\ ~server.up \/ server.session = None
  /\ stream' = [state |-> "waiting",
                backoff |-> IF stream.backoff < BackoffSteps THEN stream.backoff + 1
                                                             ELSE stream.backoff]
  /\ UNCHANGED <<server, auth, form, account, calls, route>>

\* A refused one is not: who is signed in is checked again, and a timer opens
\* the next one, later each time.
StreamCloses ==
  /\ stream.state = "connecting"
  /\ ~server.up \/ server.session = None
  /\ Send("me")
  /\ stream' = [state |-> "waiting",
                backoff |-> IF stream.backoff < BackoffSteps THEN stream.backoff + 1
                                                             ELSE stream.backoff]
  /\ UNCHANGED <<server, auth, form, account, route>>

\* Seeded fault: it gives up at the cap.
RetriesUntilCap ==
  /\ stream.state = "waiting" /\ stream.backoff < BackoffSteps
  /\ stream' = [stream EXCEPT !.state = "connecting"]
  /\ UNCHANGED <<server, auth, form, account, calls, route>>

RetryTimer ==
  /\ stream.state = "waiting"
  /\ stream' = [stream EXCEPT !.state = "connecting"]
  /\ UNCHANGED <<server, auth, form, account, calls, route>>

---------------------------------------------------------------------------
SessionNext ==
  \/ Navigate \/ SessionEnds \/ ServerStops \/ ServerReturns
  \/ \E c \in calls : Served(c)
  \/ \E c \in calls : Lost(c)
  \/ \E c \in calls : MeAnswered(c)
  \/ Login
  \/ VerifyMfa
  \/ BackToSignIn
  \/ \E c \in calls : LoginAnswered(c)
  \/ Logout
  \/ \E c \in calls : LogoutAnswered(c)
  \/ OpenDialog
  \/ CloseDialog
  \/ SubmitAccount
  \/ \E c \in calls : AccountAnswered(c)
  \/ StreamOpens
  \/ StreamErrs
  \/ StreamCloses
  \/ RetryTimer

\* The browser keeps trying, and a refresh is served while the server is there
\* and fails while it is not.  Nothing is assumed of the server, its sessions,
\* the user, or the other requests.
SessionFairness ==
  /\ WF_sessionVars(StreamOpens) /\ WF_sessionVars(StreamCloses) /\ WF_sessionVars(RetryTimer)
  /\ WF_sessionVars(\E c \in Refreshes : Served(c) \/ Lost(c))
  /\ WF_sessionVars(\E c \in Refreshes : MeAnswered(c))

SessionSpec == SessionInit /\ [][SessionNext]_sessionVars /\ SessionFairness

---------------------------------------------------------------------------
TypeOK ==
  /\ server \in [session : Users \cup {None}, up : BOOLEAN]
  /\ auth \in [user : Users \cup {None}, loading : BOOLEAN]
  /\ form.challenge \in {None, "token"}
  /\ account.dialog \in {None, "password", "enroll"}
  /\ stream \in [state : {"none", "connecting", "open", "waiting"}, backoff : 0 .. BackoffSteps]
  /\ \A c \in calls : c.op \in {"me", "login", "verify", "logout", "change", "enroll"}
  /\ route \in {"/login", "/account", "/dashboard"}

\* While nothing is being loaded, nobody without a user sees more than the
\* login page and nobody who must set up a second factor more than the account
\* page, whatever answers come late and in whichever order.
RouteFitsUser ==
  ~auth.loading =>
    /\ route = "/login" <=> auth.user = None
    /\ auth.user \in Setup => route = "/account"

\* One stream per signed-in user, and none without: a stream is open, being
\* opened or waiting to be opened exactly while somebody is signed in.
StreamFollowsUser == stream.state = "none" <=> auth.user = None

\* "reconnect with capped backoff so a valid session recovers": if the server
\* stays reachable and the session valid, the stream of a signed-in user is
\* opened again and again after every error.
StreamRecovers ==
  <>[](server.up /\ server.session # None) =>
    []<>(stream.state = "open" \/ auth.user = None)

\* A session that ended is noticed: the page that cannot open its stream asks
\* who is signed in, and ends up at the login page.
EndedSessionNoticed ==
  <>[](server.session = None /\ stream.state # "open") => <>[](auth.user = None)

\* "a genuine expiry flips user=null and unmounts us": a user whose session is
\* valid is signed out only by the answer to a logout.  It does not hold: a
\* refresh that fails because the server is away signs out too.
ValidSessionKept ==
  [][auth.user # None /\ auth'.user = None /\ server.session = auth.user
       => \E c \in calls : c.op = "logout" /\ c.got = None]_sessionVars
============================================================================

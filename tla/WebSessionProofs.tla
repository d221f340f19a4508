-------------------------- MODULE WebSessionProofs --------------------------
(***************************************************************************)
(* Machine-checked proofs about WebSession, for any users, with or without *)
(* a second factor, any number of calls under way and any retry limit.     *)
(***************************************************************************)
EXTENDS WebSession, TLAPS

-----------------------------------------------------------------------------
(* Types.  An answer is meant for the call it belongs to: only a refresh, a  *)
(* sign-in and a second factor are ever answered with a user.                *)

People == Users \cup {None}

\* What the server may answer to each call, or what becomes of it.
Answered(op) ==
  {"sent", "failed"} \cup
  CASE op = "me"                   -> People
    [] op \in {"login", "verify"}  -> Users \cup {"refused", "mfaRequired"}
    [] op = "logout"               -> {None}
    [] op \in {"change", "enroll"} -> {"refused", "ok"}

Ops == {"me", "login", "verify", "logout", "change", "enroll"}

\* Every call is one that the page makes, with an answer of its kind.
CallOK(c) == \E op \in Ops : \E got \in Answered(op) : c = [op |-> op, got |-> got]
CallsOK == \A c \in calls : CallOK(c)

FormType == [challenge : {None, "token"}, submitting : BOOLEAN]
AccountType == [dialog : {None, "password", "enroll"}, enrollment : BOOLEAN, busy : BOOLEAN]
StreamType == [state : {"none", "connecting", "open", "waiting"}, backoff : 0 .. BackoffSteps]

TypeInv ==
  /\ server \in [session : People, up : BOOLEAN]
  /\ auth \in [user : People, loading : BOOLEAN]
  /\ form \in FormType /\ account \in AccountType /\ stream \in StreamType
  /\ CallsOK
  /\ route \in {"/login", "/account", "/dashboard"}

PageType ==
  /\ auth \in [user : People, loading : BOOLEAN]
  /\ form \in FormType /\ account \in AccountType /\ stream \in StreamType
  /\ route \in {"/login", "/account", "/dashboard"}

LEMMA EmptyTyped ==
  /\ Closed \in StreamType /\ [state |-> "connecting", backoff |-> 0] \in StreamType
  /\ EmptyForm \in FormType /\ EmptyAccount \in AccountType
BY SessionAssumption DEF Closed, StreamType, EmptyForm, FormType, EmptyAccount, AccountType

\* Whoever is signed in or out, the page keeps its types.
LEMMA SetUserTyped ==
  ASSUME PageType, NEW user \in People, setUser(user)
  PROVE  PageType'
<1>1. auth' \in [user : People, loading : BOOLEAN]
  BY DEF setUser
<1>2. stream' \in StreamType
  BY EmptyTyped DEF setUser, StreamFor, PageType
<1>3. route' \in {"/login", "/account", "/dashboard"}
  BY DEF setUser, Redirected, PageType
<1>4. form' \in FormType /\ account' \in AccountType
  BY EmptyTyped DEF setUser, PageType
<1>5. QED BY <1>1, <1>2, <1>3, <1>4 DEF PageType

\* A call that was sent or answered is one more of its kind.
LEMMA CallTyped ==
  ASSUME NEW op \in Ops, NEW got \in Answered(op)
  PROVE  CallOK([op |-> op, got |-> got])
BY DEF CallOK

LEMMA AnswerTyped ==
  ASSUME NEW c, CallOK(c), NEW got \in Answered(c.op)
  PROVE  CallOK([c EXCEPT !.got = got])
<1>1. PICK op \in Ops : \E g \in Answered(op) : c = [op |-> op, got |-> g]
  BY DEF CallOK
<1>2. [c EXCEPT !.got = got] = [op |-> op, got |-> got] /\ c.op = op
  BY <1>1
<1>3. QED BY <1>1, <1>2, CallTyped

LEMMA SendTyped ==
  ASSUME CallsOK, NEW op \in Ops, Send(op)
  PROVE  CallsOK'
<1>1. calls' = calls \cup {[op |-> op, got |-> "sent"]} /\ "sent" \in Answered(op)
  BY DEF Send, Answered
<1>2. CallOK([op |-> op, got |-> "sent"])
  BY <1>1, CallTyped
<1>3. QED BY <1>1, <1>2 DEF CallsOK, CallOK

\* What the server answers, and whose session it keeps.
LEMMA OutcomeTyped ==
  ASSUME server \in [session : People, up : BOOLEAN], NEW c, CallOK(c), NEW o \in Outcomes(c)
  PROVE  o.session \in People /\ o.got \in Answered(c.op)
<1>1. c.op \in Ops
  BY DEF CallOK
<1>2. CASE c.op = "me"
  BY <1>2 DEF Outcomes, Answered
<1>3. CASE c.op = "login"
  BY <1>3 DEF Outcomes, Answered, People
<1>4. CASE c.op = "verify"
  BY <1>4, SessionAssumption DEF Outcomes, Answered, People
<1>5. CASE c.op = "logout"
  BY <1>5 DEF Outcomes, Answered, People
<1>6. CASE c.op = "change"
  BY <1>6 DEF Outcomes, Answered, People
<1>7. CASE c.op = "enroll"
  BY <1>7 DEF Outcomes, Answered, People
<1>8. QED BY <1>1, <1>2, <1>3, <1>4, <1>5, <1>6, <1>7 DEF Ops

\* The calls that are left once one was answered, sent or served.
LEMMA CallsTyped ==
  ASSUME CallsOK, NEW d, CallOK(d), calls' \subseteq calls \cup {d}
  PROVE  CallsOK'
BY DEF CallsOK, CallOK

\* Steps of the page that send no call, and of the server.
LEMMA QuietTyped ==
  ASSUME TypeInv,
         \/ Navigate \/ SessionEnds \/ ServerStops \/ ServerReturns \/ BackToSignIn
         \/ OpenDialog \/ CloseDialog \/ StreamOpens \/ StreamErrs \/ RetryTimer
         \/ UNCHANGED sessionVars
  PROVE  TypeInv'
<1>1. CallsOK'
  BY DEF TypeInv, CallsOK, CallOK, Navigate, SessionEnds, ServerStops, ServerReturns, BackToSignIn,
         OpenDialog, CloseDialog, StreamOpens, StreamErrs, RetryTimer, sessionVars
<1>2. CASE Navigate
  BY <1>1, <1>2, EmptyTyped DEF Navigate, TypeInv
<1>3. CASE SessionEnds \/ ServerStops \/ ServerReturns
  BY <1>1, <1>3 DEF SessionEnds, ServerStops, ServerReturns, TypeInv, People
<1>4. CASE BackToSignIn
  BY <1>1, <1>4 DEF BackToSignIn, TypeInv, FormType
<1>5. CASE OpenDialog
  BY <1>1, <1>5 DEF OpenDialog, TypeInv, AccountType
<1>6. CASE CloseDialog
  BY <1>1, <1>6, EmptyTyped DEF CloseDialog, TypeInv, AccountType
<1>7. CASE StreamOpens \/ StreamErrs \/ RetryTimer
  BY <1>1, <1>7, SessionAssumption DEF StreamOpens, StreamErrs, RetryTimer, TypeInv, StreamType
<1>8. CASE UNCHANGED sessionVars
  BY <1>1, <1>8 DEF sessionVars, TypeInv
<1>9. QED BY <1>2, <1>3, <1>4, <1>5, <1>6, <1>7, <1>8

\* Steps that send a call.
LEMMA SendingTyped ==
  ASSUME TypeInv, Login \/ VerifyMfa \/ Logout \/ SubmitAccount \/ StreamCloses
  PROVE  TypeInv'
<1>1. \E op \in Ops : Send(op)
  BY DEF Login, VerifyMfa, Logout, SubmitAccount, StreamCloses, Ops
<1>2. CallsOK'
  BY <1>1, SendTyped DEF TypeInv
<1>3. CASE Login \/ VerifyMfa
  BY <1>2, <1>3 DEF Login, VerifyMfa, TypeInv, FormType
<1>4. CASE Logout
  BY <1>2, <1>4 DEF Logout, TypeInv
<1>5. CASE SubmitAccount
  BY <1>2, <1>5 DEF SubmitAccount, TypeInv, AccountType
<1>6. CASE StreamCloses
  BY <1>2, <1>6, SessionAssumption DEF StreamCloses, TypeInv, StreamType
<1>7. QED BY <1>3, <1>4, <1>5, <1>6

\* What becomes of a call on its way.
LEMMA ServedTyped ==
  ASSUME TypeInv, NEW c \in calls, Served(c) \/ Lost(c)
  PROVE  TypeInv'
<1>1. CallOK(c) /\ CallsOK
  BY DEF TypeInv, CallsOK
<1>2. CASE Served(c)
  <2>1. PICK o \in Outcomes(c) :
          /\ server' = [server EXCEPT !.session = o.session]
          /\ calls' = (calls \ {c}) \cup {[c EXCEPT !.got = o.got]}
    BY <1>2 DEF Served
  <2>2. o.session \in People /\ o.got \in Answered(c.op)
    BY <1>1, OutcomeTyped DEF TypeInv
  <2> DEFINE d == [c EXCEPT !.got = o.got]
  <2>3. CallOK(d)
    BY <1>1, <2>2, AnswerTyped
  <2>4. calls' \subseteq calls \cup {d}
    BY <2>1
  <2> HIDE DEF d
  <2>8. CallsOK'
    BY <1>1, <2>3, <2>4, CallsTyped
  <2>5. server' \in [session : People, up : BOOLEAN]
    BY <2>1, <2>2 DEF TypeInv
  <2>6. QED BY <1>2, <2>8, <2>5 DEF Served, TypeInv
<1>3. CASE Lost(c)
  <2>1. "failed" \in Answered(c.op)
    BY DEF Answered
  <2> DEFINE d == [c EXCEPT !.got = "failed"]
  <2>2. CallOK(d)
    BY <1>1, <2>1, AnswerTyped
  <2>3. calls' \subseteq calls \cup {d}
    BY <1>3 DEF Lost
  <2> HIDE DEF d
  <2>4. CallsOK'
    BY <1>1, <2>2, <2>3, CallsTyped
  <2>5. QED BY <1>3, <2>4 DEF Lost, TypeInv
<1>4. QED BY <1>2, <1>3

\* Answers that are taken by the page.
LEMMA AnsweredTyped ==
  ASSUME TypeInv, NEW c \in calls,
         MeAnswered(c) \/ LoginAnswered(c) \/ LogoutAnswered(c) \/ AccountAnswered(c)
  PROVE  TypeInv'
<1>1. CallOK(c) /\ CallsOK /\ PageType /\ server \in [session : People, up : BOOLEAN]
  BY DEF TypeInv, CallsOK, PageType
<1>2. None \in People /\ Users \subseteq People
  BY DEF People
<1>3. PageType' /\ UNCHANGED server /\ CallsOK' => TypeInv'
  BY <1>1 DEF TypeInv, PageType
<1>4. calls' = calls \ {c} => CallsOK'
  BY <1>1 DEF CallsOK, CallOK
<1>5. CASE MeAnswered(c)
  <2>1. c.got \in People \cup {"failed"}
    BY <1>1, <1>5 DEF MeAnswered, CallOK, Answered
  <2>2. PageType'
    BY <1>1, <1>2, <1>5, <2>1, SetUserTyped DEF MeAnswered
  <2>3. QED BY <1>3, <1>4, <1>5, <2>2 DEF MeAnswered
<1>6. CASE LoginAnswered(c)
  <2>1. PageType'
    <3>1. CASE c.got \in Users /\ setUser(c.got)
      BY <1>1, <1>2, <3>1, SetUserTyped
    <3>2. CASE /\ UNCHANGED <<auth, account, stream, route>>
               /\ \/ form' = [form EXCEPT !.challenge = "token", !.submitting = FALSE]
                  \/ form' = [form EXCEPT !.submitting = FALSE]
      BY <1>1, <3>2 DEF PageType, FormType
    <3>3. QED BY <1>6, <3>1, <3>2 DEF LoginAnswered
  <2>2. QED BY <1>3, <1>4, <1>6, <2>1 DEF LoginAnswered
<1>7. CASE LogoutAnswered(c)
  <2>1. PageType'
    <3>1. CASE c.got = "failed"
      BY <1>1, <1>7, <3>1 DEF LogoutAnswered, PageType, AccountType
    <3>2. CASE c.got # "failed"
      BY <1>1, <1>2, <1>7, <3>2, SetUserTyped DEF LogoutAnswered
    <3>3. QED BY <3>1, <3>2
  <2>2. QED BY <1>3, <1>4, <1>7, <2>1 DEF LogoutAnswered
<1>8. CASE AccountAnswered(c)
  <2>1. PageType' /\ UNCHANGED server
    BY <1>1, <1>8 DEF AccountAnswered, PageType, AccountType
  <2>2. calls' \subseteq calls \cup {[op |-> "logout", got |-> "sent"]}
    BY <1>8 DEF AccountAnswered
  <2>3. CallOK([op |-> "logout", got |-> "sent"])
    <3>1. "logout" \in Ops /\ "sent" \in Answered("logout")
      BY DEF Ops, Answered
    <3>2. QED BY <3>1, CallTyped
  <2>4. CallsOK'
    BY <1>1, <2>2, <2>3, CallsTyped
  <2>5. QED BY <1>3, <2>1, <2>4
<1>9. QED BY <1>5, <1>6, <1>7, <1>8

LEMMA InitTyped == SessionInit => TypeInv
<1> SUFFICES ASSUME SessionInit PROVE TypeInv
  OBVIOUS
<1>1. CallOK([op |-> "me", got |-> "sent"])
  <2>1. "me" \in Ops /\ "sent" \in Answered("me")
    BY DEF Ops, Answered
  <2>2. QED BY <2>1, CallTyped
<1>2. CallsOK
  BY <1>1 DEF SessionInit, CallsOK
<1>3. QED BY <1>2, EmptyTyped DEF SessionInit, TypeInv, People

LEMMA StepTyped == TypeInv /\ [SessionNext]_sessionVars => TypeInv'
BY QuietTyped, SendingTyped, ServedTyped, AnsweredTyped DEF SessionNext

\* Every state of page, server and calls is of its type: in particular the page
\* never takes the answer to one call for a user, whatever became of the call.
THEOREM TypeCorrect == SessionSpec => []TypeOK
<1>1. TypeInv => TypeOK
  BY DEF TypeInv, TypeOK, CallsOK, CallOK, Ops, FormType, AccountType, StreamType, People
<1>2. QED BY <1>1, InitTyped, StepTyped, PTL DEF SessionSpec

-----------------------------------------------------------------------------
(* The route and the stream follow the user *)

\* Only an answer changes who is signed in, and then all at once.
Quiet ==
  \/ SessionEnds \/ ServerStops \/ ServerReturns \/ Login \/ VerifyMfa \/ BackToSignIn
  \/ Logout \/ OpenDialog \/ CloseDialog \/ SubmitAccount
  \/ \E c \in calls : Served(c) \/ Lost(c) \/ AccountAnswered(c)
  \/ UNCHANGED sessionVars

Streams == StreamOpens \/ StreamErrs \/ StreamCloses \/ RetryTimer

LEMMA QuietKeeps ==
  ASSUME Quiet
  PROVE  UNCHANGED <<auth, stream, route>>
BY DEF Quiet, SessionEnds, ServerStops, ServerReturns, Login, VerifyMfa, BackToSignIn, Logout,
       OpenDialog, CloseDialog, SubmitAccount, Served, Lost, AccountAnswered, sessionVars

LEMMA StreamsKeep ==
  ASSUME Streams, stream \in StreamType
  PROVE  UNCHANGED <<auth, route>> /\ stream.state # "none" /\ stream'.state # "none"
<1>1. UNCHANGED <<auth, route>>
  BY DEF Streams, StreamOpens, StreamErrs, StreamCloses, RetryTimer
<1>2. stream.state # "none" /\ stream'.state # "none"
  BY DEF Streams, StreamOpens, StreamErrs, StreamCloses, RetryTimer, StreamType
<1>3. QED BY <1>1, <1>2

\* The answers that leave auth alone, and those that set it, to a user or to nobody.
LEMMA AnswersSet ==
  ASSUME TypeInv, NEW c \in calls, MeAnswered(c) \/ LoginAnswered(c) \/ LogoutAnswered(c)
  PROVE  UNCHANGED <<auth, stream, route>> \/ \E user \in People : setUser(user)
<1>1. CallOK(c) /\ None \in People /\ Users \subseteq People
  BY DEF TypeInv, CallsOK, People
<1>2. CASE MeAnswered(c)
  <2>1. c.got \in People \cup {"failed"}
    BY <1>1, <1>2 DEF MeAnswered, CallOK, Answered
  <2>2. CASE c.got = "failed"
    BY <1>1, <1>2, <2>2 DEF MeAnswered
  <2>3. CASE c.got # "failed" /\ c.got \in People
    BY <1>2, <2>3 DEF MeAnswered
  <2>4. QED BY <2>1, <2>2, <2>3
<1>3. CASE LoginAnswered(c)
  BY <1>1, <1>3 DEF LoginAnswered
<1>4. CASE LogoutAnswered(c)
  BY <1>1, <1>4 DEF LogoutAnswered
<1>5. QED BY <1>2, <1>3, <1>4

LEMMA Steps ==
  ASSUME [SessionNext]_sessionVars
  PROVE  \/ Quiet \/ Streams \/ Navigate
         \/ \E c \in calls : MeAnswered(c) \/ LoginAnswered(c) \/ LogoutAnswered(c)
BY DEF SessionNext, Quiet, Streams

\* The inductive invariant behind both properties needs no more than the types:
\* an answer that is late by any number of other answers sets all three anew.
Follows == StreamFollowsUser /\ RouteFitsUser

LEMMA FollowsStep ==
  ASSUME TypeInv, Follows, [SessionNext]_sessionVars
  PROVE  Follows'
<1>1. CASE UNCHANGED <<auth, stream, route>>
  BY <1>1 DEF Follows, StreamFollowsUser, RouteFitsUser
<1>2. CASE Streams
  BY <1>2, StreamsKeep DEF TypeInv, Follows, StreamFollowsUser, RouteFitsUser
<1>3. CASE Navigate
  BY <1>3, SessionAssumption DEF Navigate, Follows, StreamFollowsUser, RouteFitsUser
<1>4. ASSUME NEW user \in People, setUser(user) PROVE Follows'
  <2>1. auth'.user = user /\ stream' = StreamFor(user) /\ route' = Redirected(user, FALSE, route)
    BY <1>4 DEF setUser
  <2>2. StreamFollowsUser'
    BY <2>1 DEF StreamFor, Closed, Follows, StreamFollowsUser
  <2>3. RouteFitsUser'
    BY <2>1, SessionAssumption DEF Redirected, RouteFitsUser
  <2>4. QED BY <2>2, <2>3 DEF Follows
<1>5. QED BY <1>1, <1>2, <1>3, <1>4, Steps, QuietKeeps, AnswersSet

\* While somebody is signed in there is one stream, open, being opened or waiting
\* to be opened, and there is none once nobody is.
THEOREM StreamFollows == SessionSpec => []StreamFollowsUser
<1>1. SessionInit => TypeInv /\ Follows
  <2>1. SessionInit => TypeInv
    BY InitTyped
  <2>2. SessionInit => Follows
    BY DEF SessionInit, Closed, Follows, StreamFollowsUser, RouteFitsUser
  <2>3. QED BY <2>1, <2>2
<1>2. TypeInv /\ Follows /\ [SessionNext]_sessionVars => (TypeInv /\ Follows)'
  BY FollowsStep, StepTyped
<1>3. QED BY <1>1, <1>2, PTL DEF SessionSpec, Follows

\* Nobody without a user sees more than the login page, and nobody who must set
\* up a second factor more than the account page.
THEOREM RouteFits == SessionSpec => []RouteFitsUser
<1>1. SessionInit => TypeInv /\ Follows
  <2>1. SessionInit => TypeInv
    BY InitTyped
  <2>2. SessionInit => Follows
    BY DEF SessionInit, Closed, Follows, StreamFollowsUser, RouteFitsUser
  <2>3. QED BY <2>1, <2>2
<1>2. TypeInv /\ Follows /\ [SessionNext]_sessionVars => (TypeInv /\ Follows)'
  BY FollowsStep, StepTyped
<1>3. QED BY <1>1, <1>2, PTL DEF SessionSpec, Follows
=============================================================================

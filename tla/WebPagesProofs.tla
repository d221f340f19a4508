--------------------------- MODULE WebPagesProofs ---------------------------
(***************************************************************************)
(* Machine-checked proofs about the pages, for any rows, lists, answers    *)
(* and numbers of requests.  Each page has an inductive invariant of its   *)
(* own; a visit stays on its page.  The types of the states of the list    *)
(* pages and of the forms come last; the other pages' are in               *)
(* WebReachProofs, with the theorem of all of them.                        *)
(***************************************************************************)
EXTENDS WebPages, Integers, FiniteSetTheorems, SequenceTheorems, TLAPS

-----------------------------------------------------------------------------
(* StorageOperationsPage: an acknowledgement belongs to the plan on show     *)

Acked ==
  ui.view = "action" =>
    /\ {"view", "plan", "ack"} \subseteq DOMAIN ui
    /\ ui.plan # None => ui.ack \in {0, ui.plan.nr}

AckInv == Acked /\ operations!WarningsReviewed

LEMMA AckStep ==
  ASSUME AckInv, operations!OperationNext
  PROVE  AckInv'
<1> USE DEF AckInv, Acked, operations!WarningsReviewed, operations!Show
<1>1. ASSUME NEW scope, operations!SetFilter(scope)
      PROVE  AckInv'
  BY <1>1 DEF operations!SetFilter, operations!Catalogue
<1>2. ASSUME NEW available, operations!ActionsAnswered(available)
      PROVE  AckInv'
  BY <1>2 DEF operations!ActionsAnswered
<1>3. ASSUME NEW a, operations!OpenAction(a)
      PROVE  AckInv'
  BY <1>3 DEF operations!OpenAction, operations!Fresh
<1>4. ASSUME NEW a, operations!SwitchAction(a)
      PROVE  AckInv'
  BY <1>4 DEF operations!SwitchAction, operations!Fresh
<1>5. CASE operations!Leave
  BY <1>5 DEF operations!Leave, operations!Catalogue
<1>6. ASSUME NEW form, operations!Edit(form)
      PROVE  AckInv'
  BY <1>6 DEF operations!Edit, operations!FormShown
<1>7. CASE operations!createPlan
  <2>1. ui' = [[ui EXCEPT !.plan = None] EXCEPT !.plans = ui.plans + 1] /\ ui.view = "action"
    BY <1>7 DEF operations!createPlan, operations!FormShown
  <2>2. DOMAIN ui' = DOMAIN ui /\ ui'.plan = None
    BY <2>1
  <2>3. PICK c : c.op = "plan" /\ calls' = calls \cup {c}
    BY <1>7, Zenon DEF operations!createPlan
  <2> QED
    BY <2>1, <2>2, <2>3
<1>8. ASSUME NEW c \in calls, operations!PlanAnswered(c)
      PROVE  AckInv'
  BY <1>8 DEF operations!PlanAnswered, operations!setPlan
<1>9. CASE operations!RequestConfirmation
  BY <1>9 DEF operations!RequestConfirmation, operations!FormShown
<1>10. CASE operations!CancelConfirmation
  BY <1>10 DEF operations!CancelConfirmation, operations!DialogShown
<1>11. CASE operations!Acknowledge
  BY <1>11 DEF operations!Acknowledge, operations!DialogShown
<1>12. ASSUME NEW n, operations!TypeName(n)
       PROVE  AckInv'
  BY <1>12 DEF operations!TypeName, operations!DialogShown
<1>13. CASE operations!submit
  BY <1>13 DEF operations!submit, operations!DialogShown, operations!CanConfirm
<1>14. ASSUME NEW c \in calls, operations!SubmitAnswered(c)
       PROVE  AckInv'
  BY <1>14 DEF operations!SubmitAnswered
<1>15. ASSUME NEW phase, operations!OperationPolled(phase)
       PROVE  AckInv'
  BY <1>15 DEF operations!OperationPolled
<1> QED
  BY <1>1, <1>2, <1>3, <1>4, <1>5, <1>6, <1>7, <1>8, <1>9, <1>10, <1>11, <1>12, <1>13, <1>14, <1>15
     DEF operations!OperationNext, operations!EditName, operations!EditParameter

LEMMA ReviewedInductive ==
  /\ (operations!OperationInit => AckInv)
  /\ (AckInv /\ [operations!OperationNext]_(operations!operationVars) => AckInv')
  /\ (AckInv => operations!WarningsReviewed)
<1>1. operations!OperationInit => AckInv
  BY DEF operations!OperationInit, operations!Catalogue, AckInv, Acked, operations!WarningsReviewed
<1>2. AckInv /\ [operations!OperationNext]_(operations!operationVars) => AckInv'
  <2>1. CASE operations!OperationNext
    BY <2>1, AckStep
  <2>2. CASE UNCHANGED operations!operationVars
    BY <2>2 DEF operations!operationVars, AckInv, Acked, operations!WarningsReviewed
  <2> QED
    BY <2>1, <2>2
<1>3. AckInv => operations!WarningsReviewed
  BY DEF AckInv
<1> QED
  BY <1>1, <1>2, <1>3

\* However often a form is edited, an action switched or a plan made again, and
\* whenever its answer comes: no plan with warnings is submitted on an
\* acknowledgement that was given to another one.
THEOREM Reviewed == operations!OperationSpec => []operations!WarningsReviewed
BY ReviewedInductive, PTL DEF operations!OperationSpec

-----------------------------------------------------------------------------
(* StorageQueries: every key in use is answered, failed or under way         *)

Keys == [scope : ScopesOffered, page : Offsets]

\* Only the page in the URL is asked for, and it is, until something came of it.
UnderWay ==
  /\ \A c \in calls : {"key", "paused"} \subseteq DOMAIN c /\ c.key = queries!Current
  /\ query.cache[queries!Current] = None /\ ~queries!error /\ queries!Enabled(ui.scope) => calls # {}

Cached ==
  /\ query = [cache |-> query.cache, failed |-> query.failed, online |-> query.online]
  /\ DOMAIN query.cache = Keys
  /\ \A k \in Keys : query.cache[k] # None => query.cache[k].of = k

InTheURL ==
  /\ {"panel", "scope", "page", "last"} \subseteq DOMAIN ui
  /\ ui.panel \in Panels /\ queries!Current \in Keys

QueriesInv == InTheURL /\ Cached /\ UnderWay

LEMMA AskedFor ==
  ASSUME NEW key
  PROVE  /\ \A c \in queries!Asked(key) : {"key", "paused"} \subseteq DOMAIN c /\ c.key = key
         /\ queries!Enabled(key.scope) => queries!Asked(key) # {}
<1>1. PICK waits : waits = [key |-> key, paused |-> ~query.online]
  OBVIOUS
<1>2. queries!Asked(key) = IF queries!Enabled(key.scope) THEN {waits} ELSE {}
  BY <1>1, Zenon DEF queries!Asked
<1>3. {"key", "paused"} \subseteq DOMAIN waits /\ waits.key = key
  BY <1>1
<1> QED
  BY <1>2, <1>3

LEMMA Navigates ==
  ASSUME QueriesInv, NEW scope \in ScopesOffered, NEW page \in Offsets, queries!Navigate(scope, page)
  PROVE  QueriesInv'
<1> DEFINE to == queries!Key(scope, page)
<1>1. /\ DOMAIN ui' = DOMAIN ui /\ ui'.panel = ui.panel /\ ui'.scope = scope /\ ui'.page = page
  <2>1. \E last : ui' = [[[ui EXCEPT !.scope = scope] EXCEPT !.page = page] EXCEPT !.last = last]
    BY DEF queries!Navigate
  <2> QED
    BY <2>1 DEF QueriesInv, InTheURL
<1>2. queries!Current' = to /\ to \in Keys
  BY <1>1 DEF queries!Current, queries!Key, Keys
<1>3. /\ query'.cache = query.cache
      /\ query' = [cache |-> query'.cache, failed |-> query'.failed, online |-> query'.online]
  <2>1. PICK failed : query' = [query EXCEPT !.failed = failed]
    BY DEF queries!Navigate
  <2> QED
    BY <2>1 DEF QueriesInv, Cached
<1>4. queries!Enabled(ui.scope)' => queries!Enabled(to.scope)
  BY <1>1 DEF queries!Enabled, queries!hook, queries!Key
<1>5. /\ \A c \in queries!Asked(to) : {"key", "paused"} \subseteq DOMAIN c /\ c.key = to
      /\ queries!Enabled(to.scope) => queries!Asked(to) # {}
  BY AskedFor
<1>6. calls' = queries!Asked(to) \/ (query.cache[to] # None /\ calls' = {})
  BY DEF queries!Navigate
<1>7. InTheURL'
  BY <1>1, <1>2 DEF InTheURL, QueriesInv
<1>8. Cached'
  BY <1>3 DEF Cached, QueriesInv
<1>9. UnderWay'
  BY <1>2, <1>3, <1>4, <1>5, <1>6 DEF UnderWay
<1> QED
  BY <1>7, <1>8, <1>9 DEF QueriesInv

LEMMA QueriesStep ==
  ASSUME QueriesInv, queries!QueriesNext
  PROVE  QueriesInv'
<1> USE DEF QueriesInv
<1>1. ASSUME NEW scope \in ScopesOffered, queries!setScope(scope)
      PROVE  QueriesInv'
  BY <1>1, Navigates, SizesAreSome DEF queries!setScope
<1>2. CASE queries!NextPage
  BY <1>2, Navigates, SizesAreSome DEF queries!NextPage, InTheURL, queries!Current, queries!Key, Keys
<1>3. CASE queries!FirstPage
  BY <1>3, Navigates, SizesAreSome DEF queries!FirstPage, InTheURL, queries!Current, queries!Key, Keys
<1>4. CASE queries!Refetch
  <2>1. /\ query'.cache = query.cache
        /\ query' = [cache |-> query'.cache, failed |-> query'.failed, online |-> query'.online]
        /\ ui' = ui /\ calls' = queries!Asked(queries!Current) /\ queries!Enabled(ui.scope)
    <3>1. PICK failed : query' = [query EXCEPT !.failed = failed]
      BY <1>4 DEF queries!Refetch
    <3> QED
      BY <1>4, <3>1 DEF queries!Refetch, Cached
  <2>2. queries!Current' = queries!Current
    BY <2>1 DEF queries!Current
  <2>3. /\ queries!Asked(queries!Current) # {}
        /\ \A c \in queries!Asked(queries!Current) : {"key", "paused"} \subseteq DOMAIN c /\ c.key = queries!Current
    BY <2>1, AskedFor DEF queries!Current, queries!Key
  <2> QED
    BY <2>1, <2>2, <2>3 DEF InTheURL, Cached, UnderWay
<1>5. ASSUME NEW c \in calls, NEW says \in Says(ui.panel), queries!Answer(c, says)
      PROVE  QueriesInv'
  <2> DEFINE answer == [of |-> c.key, says |-> says]
  <2>1. c.key = queries!Current /\ c.key \in Keys
    BY DEF UnderWay, InTheURL
  <2>2. answer # None
    BY <2>1, AnswersAreSome DEF InTheURL, Keys
  <2>3. /\ query'.cache = [query.cache EXCEPT ![c.key] = answer]
        /\ query' = [cache |-> query'.cache, failed |-> query'.failed, online |-> query'.online]
        /\ ui' = ui /\ calls' \subseteq calls
    BY <1>5 DEF queries!Answer, Cached
  <2>4. queries!Current' = queries!Current
    BY <2>3 DEF queries!Current
  <2>5. DOMAIN query'.cache = Keys /\ query'.cache[c.key] = answer
        /\ \A k \in Keys : k # c.key => query'.cache[k] = query.cache[k]
    BY <2>1, <2>3 DEF Cached
  <2> QED
    BY <2>1, <2>2, <2>3, <2>4, <2>5 DEF InTheURL, Cached, UnderWay
<1>6. ASSUME NEW c \in calls, queries!Fail(c)
      PROVE  QueriesInv'
  <2>1. /\ query'.cache = query.cache /\ query'.failed = query.failed \cup {c.key}
        /\ query' = [cache |-> query'.cache, failed |-> query'.failed, online |-> query'.online]
        /\ ui' = ui /\ calls' \subseteq calls
    BY <1>6 DEF queries!Fail, Cached
  <2>2. queries!Current' = queries!Current /\ c.key = queries!Current
    BY <2>1 DEF queries!Current, UnderWay
  <2> QED
    BY <2>1, <2>2 DEF InTheURL, Cached, UnderWay, queries!error
<1>7. ASSUME NEW c \in calls, queries!Pause(c)
      PROVE  QueriesInv'
  <2>1. query' = query /\ ui' = ui /\ calls' = (calls \ {c}) \cup {[c EXCEPT !.paused = TRUE]}
    BY <1>7 DEF queries!Pause
  <2>2. /\ {"key", "paused"} \subseteq DOMAIN [c EXCEPT !.paused = TRUE]
        /\ [c EXCEPT !.paused = TRUE].key = queries!Current
    BY DEF UnderWay
  <2>3. (\A d \in calls' : {"key", "paused"} \subseteq DOMAIN d /\ d.key = queries!Current) /\ calls' # {}
    BY <2>1, <2>2 DEF UnderWay
  <2>4. queries!Current' = queries!Current
    BY <2>1 DEF queries!Current
  <2> QED
    BY <2>1, <2>3, <2>4 DEF InTheURL, Cached, UnderWay
<1>8. ASSUME queries!Disconnect \/ queries!Reconnect
      PROVE  QueriesInv'
  <2>1. /\ query'.cache = query.cache /\ query'.failed = query.failed /\ ui' = ui
        /\ query' = [cache |-> query'.cache, failed |-> query'.failed, online |-> query'.online]
    BY <1>8 DEF queries!Disconnect, queries!Reconnect, Cached
  <2>2. queries!Current' = queries!Current /\ (queries!error' <=> queries!error)
        /\ (queries!Enabled(ui.scope)' <=> queries!Enabled(ui.scope))
    BY <2>1 DEF queries!Current, queries!error, queries!Enabled, queries!hook
  <2>3. calls' = calls \/ calls' = {[c EXCEPT !.paused = FALSE] : c \in calls}
    BY <1>8 DEF queries!Disconnect, queries!Reconnect
  <2>4. \A c \in calls : /\ {"key", "paused"} \subseteq DOMAIN [c EXCEPT !.paused = FALSE]
                         /\ [c EXCEPT !.paused = FALSE].key = queries!Current
    BY DEF UnderWay
  <2>5. /\ \A c \in calls' : {"key", "paused"} \subseteq DOMAIN c /\ c.key = queries!Current
        /\ calls # {} => calls' # {}
    BY <2>3, <2>4 DEF UnderWay
  <2> QED
    BY <2>1, <2>2, <2>5 DEF InTheURL, Cached, UnderWay
<1> QED
  BY <1>1, <1>2, <1>3, <1>4, <1>5, <1>6, <1>7, <1>8 DEF queries!QueriesNext

LEMMA ShownInductive ==
  /\ (queries!QueriesInit => QueriesInv)
  /\ (QueriesInv /\ [queries!QueriesNext]_(queries!queriesVars) => QueriesInv')
  /\ (QueriesInv => queries!ShownIsOfItsScope)
  /\ (QueriesInv => queries!AbsenceWasAnswered)
<1>1. queries!QueriesInit => QueriesInv
  <2> SUFFICES ASSUME queries!QueriesInit PROVE QueriesInv
    OBVIOUS
  <2>1. /\ query.cache = [k \in Keys |-> None]
        /\ query = [cache |-> query.cache, failed |-> query.failed, online |-> query.online]
    BY DEF queries!QueriesInit, Keys
  <2>2. InTheURL
    BY SizesAreSome DEF queries!QueriesInit, InTheURL, queries!Current, queries!Key, Keys
  <2>3. Cached
    BY <2>1 DEF Cached
  <2>4. UnderWay
    <3>1. queries!Current.scope = ui.scope /\ calls = queries!Asked(queries!Current)
      BY DEF queries!QueriesInit, queries!Current, queries!Key
    <3>2. /\ \A c \in calls : {"key", "paused"} \subseteq DOMAIN c /\ c.key = queries!Current
          /\ queries!Enabled(ui.scope) => calls # {}
      BY <3>1, AskedFor
    <3> QED
      BY <3>2 DEF UnderWay
  <2> QED
    BY <2>2, <2>3, <2>4 DEF QueriesInv
<1>2. QueriesInv /\ [queries!QueriesNext]_(queries!queriesVars) => QueriesInv'
  <2>1. CASE queries!QueriesNext
    BY <2>1, QueriesStep
  <2>2. CASE UNCHANGED queries!queriesVars
    BY <2>2 DEF queries!queriesVars, QueriesInv, InTheURL, Cached, UnderWay, queries!Current,
                queries!error, queries!Asked, queries!Enabled, queries!hook
  <2> QED
    BY <2>1, <2>2
<1>3. QueriesInv => queries!ShownIsOfItsScope
  BY DEF QueriesInv, InTheURL, Cached, UnderWay, queries!ShownIsOfItsScope, queries!Shows, queries!data
<1>4. QueriesInv => queries!AbsenceWasAnswered
  <2> SUFFICES ASSUME QueriesInv, queries!Shows = None, queries!Enabled(ui.scope), \A c \in calls : ~c.paused
               PROVE  queries!Panel.says # "nothing"
    BY DEF queries!AbsenceWasAnswered
  <2>1. CASE queries!error
    BY <2>1 DEF queries!Panel
  <2>2. CASE ~queries!error
    <3>1. queries!data = None
      BY <2>2 DEF queries!Shows
    <3>2. query.cache[queries!Current] = None
      BY <3>1 DEF queries!data
    <3>3. \E c \in calls : ~c.paused
      BY <2>2, <3>2 DEF QueriesInv, UnderWay
    <3> QED
      BY <3>1, <3>3 DEF queries!Panel, queries!isLoading
  <2> QED
    BY <2>1, <2>2
<1> QED
  BY <1>1, <1>2, <1>3, <1>4

\* Whichever requests are dropped, fail or come after another visit: what is on
\* show was observed for the scope and page in the URL, or is the answer before
\* while theirs is under way; and nothing is said to be absent on the strength
\* of a request that has no answer.
THEOREM Shown == queries!QueriesSpec => [](queries!ShownIsOfItsScope /\ queries!AbsenceWasAnswered)
BY ShownInductive, PTL DEF queries!QueriesSpec

-----------------------------------------------------------------------------
(* UsersPage: no dialog is ever about the account of the session             *)

Others ==
  /\ "dialog" \in DOMAIN ui /\ {"edit", "delete"} \subseteq DOMAIN ui.dialog
  /\ ui.dialog.edit # None => ui.dialog.edit # Me
  /\ ui.dialog.delete # None => ui.dialog.delete # Me

Looping == \A c \in calls : c.op = "bulk" => {"op", "left"} \subseteq DOMAIN c

OthersInv == Others /\ Looping /\ users!OwnAccountKept

\* A row's dialog, or none.
LEMMA ClosedIsOthers ==
  /\ {"edit", "delete"} \subseteq DOMAIN users!Closed
  /\ users!Closed.edit = None /\ users!Closed.delete = None
BY DEF users!Closed

LEMMA OthersStep ==
  ASSUME OthersInv, users!UsersNext
  PROVE  OthersInv'
<1> USE ClosedIsOthers DEF OthersInv, Others, Looping, users!OwnAccountKept, users!Show, users!dialog
<1>1. ASSUME NEW rows, users!Poll(rows)
      PROVE  OthersInv'
  BY <1>1 DEF users!Poll
<1>2. CASE users!OpenCreate \/ users!CloseCreate \/ users!CloseBulk
  BY <1>2 DEF users!OpenCreate, users!CloseCreate, users!CloseBulk
<1>3. ASSUME NEW filled, users!EnterNew(filled)
      PROVE  OthersInv'
  BY <1>3 DEF users!EnterNew
<1>4. CASE users!createUser
  BY <1>4 DEF users!createUser, users!Send
<1>5. ASSUME NEW c \in calls, users!CreateAnswered(c)
      PROVE  OthersInv'
  <2>1. CASE ui' = ui
    BY <1>5, <2>1 DEF users!CreateAnswered, users!Answered
  <2>2. CASE ui' = [[ui EXCEPT !.dialog.create = FALSE] EXCEPT !.filled = FALSE]
    BY <1>5, <2>2 DEF users!CreateAnswered, users!Answered
  <2> QED
    BY <1>5, <2>1, <2>2 DEF users!CreateAnswered, users!Answered
<1>6. ASSUME NEW n, users!OpenEdit(n)
      PROVE  OthersInv'
  <2>1. ui' = [ui EXCEPT !.dialog = [[users!Closed EXCEPT !.edit = n] EXCEPT !.disabled = query.users[n]]]
    BY <1>6 DEF users!OpenEdit
  <2>2. n # Me /\ UNCHANGED calls
    BY <1>6 DEF users!OpenEdit
  <2> QED
    BY <2>1, <2>2
<1>7. CASE users!CloseEdit
  BY <1>7 DEF users!CloseEdit
<1>8. ASSUME NEW disabled, users!SetDisabled(disabled)
      PROVE  OthersInv'
  BY <1>8 DEF users!SetDisabled
<1>9. CASE users!TypePassword \/ users!ErasePassword
  BY <1>9 DEF users!TypePassword, users!ErasePassword
<1>10. CASE users!updateUser
  BY <1>10 DEF users!updateUser, users!Send
<1>11. ASSUME NEW c \in calls, users!UpdateAnswered(c)
       PROVE  OthersInv'
  <2>1. CASE ui' = ui
    BY <1>11, <2>1 DEF users!UpdateAnswered, users!Answered
  <2>2. CASE ui' = [[[ui EXCEPT !.dialog.edit = None] EXCEPT !.dialog.disabled = FALSE]
                      EXCEPT !.password = None]
    BY <1>11, <2>2 DEF users!UpdateAnswered, users!Answered
  <2> QED
    BY <1>11, <2>1, <2>2 DEF users!UpdateAnswered, users!Answered
<1>12. ASSUME NEW n, users!OpenDelete(n)
       PROVE  OthersInv'
  BY <1>12 DEF users!OpenDelete
<1>13. CASE users!DismissDelete
  <2>1. PICK typed : ui' = [[ui EXCEPT !.dialog = users!Closed] EXCEPT !.typed = typed]
    BY <1>13 DEF users!DismissDelete
  <2> QED
    BY <1>13, <2>1 DEF users!DismissDelete
<1>14. ASSUME NEW n, users!TypeName(n) \/ users!Tick(n)
       PROVE  OthersInv'
  BY <1>14 DEF users!TypeName, users!Tick
<1>15. CASE users!ConfirmDelete
  BY <1>15 DEF users!ConfirmDelete, users!Send
<1>16. ASSUME NEW c \in calls, users!DeleteAnswered(c)
       PROVE  OthersInv'
  BY <1>16 DEF users!DeleteAnswered, users!Answered
<1>17. CASE users!OpenBulk
  BY <1>17 DEF users!OpenBulk
<1>18. CASE users!ConfirmBulk
  BY <1>18 DEF users!ConfirmBulk, users!Send, users!BulkTargets
<1>19. ASSUME NEW c \in calls, users!BulkItem(c)
       PROVE  OthersInv'
  <2>1. CASE calls' = calls \ {c}
    BY <1>19, <2>1 DEF users!BulkItem
  <2>2. ASSUME NEW n \in c.left, calls' = (calls \ {c}) \cup {[c EXCEPT !.left = c.left \ {n}]}
        PROVE  OthersInv'
    <3>1. [c EXCEPT !.left = c.left \ {n}].op = "bulk" /\ Me \notin [c EXCEPT !.left = c.left \ {n}].left
          /\ DOMAIN [c EXCEPT !.left = c.left \ {n}] = DOMAIN c
      BY <1>19 DEF users!BulkItem
    <3> QED
      BY <1>19, <2>2, <3>1 DEF users!BulkItem
  <2> QED
    BY <1>19, <2>1, <2>2 DEF users!BulkItem
<1>20. ASSUME NEW c \in calls, users!BulkEnds(c)
       PROVE  OthersInv'
  BY <1>20 DEF users!BulkEnds, users!Answered
<1> QED
  BY <1>1, <1>2, <1>3, <1>4, <1>5, <1>6, <1>7, <1>8, <1>9, <1>10, <1>11, <1>12, <1>13, <1>14, <1>15,
     <1>16, <1>17, <1>18, <1>19, <1>20
     DEF users!UsersNext

LEMMA OwnAccountInductive ==
  /\ (users!UsersInit => OthersInv)
  /\ (OthersInv /\ [users!UsersNext]_(users!usersVars) => OthersInv')
  /\ (OthersInv => users!OwnAccountKept)
<1>1. users!UsersInit => OthersInv
  BY ClosedIsOthers DEF users!UsersInit, OthersInv, Others, Looping, users!OwnAccountKept
<1>2. OthersInv /\ [users!UsersNext]_(users!usersVars) => OthersInv'
  <2>1. CASE users!UsersNext
    BY <2>1, OthersStep
  <2>2. CASE UNCHANGED users!usersVars
    BY <2>2 DEF users!usersVars, OthersInv, Others, Looping, users!OwnAccountKept
  <2> QED
    BY <2>1, <2>2
<1>3. OthersInv => users!OwnAccountKept
  BY DEF OthersInv
<1> QED
  BY <1>1, <1>2, <1>3

\* Nobody disables or deletes the account they are signed in with: not by its
\* row, not by ticking it before, during or after a poll, and not by any dialog
\* that is confirmed twice.
THEOREM OwnAccount == users!UsersSpec => []users!OwnAccountKept
BY OwnAccountInductive, PTL DEF users!UsersSpec

-----------------------------------------------------------------------------
(* StoragePolicyPage: every draft is one the server would take               *)

Draft(p) == p = [on |-> p.on, ids |-> p.ids] /\ policy!Admissible(p)

DraftInv ==
  /\ {"requested", "revision"} \subseteq DOMAIN query /\ Draft(query.requested)
  /\ {"draft", "plan", "open", "confirmed"} \subseteq DOMAIN ui /\ Draft(ui.draft)
  /\ \A c \in calls : c.op = "apply" => Draft(c.policy)

\* Closing a gate or opening one whose parents are open leaves a draft admissible.
LEMMA FieldAdmissible ==
  ASSUME NEW p, Draft(p), NEW key \in policy!Fields, key # "portable", NEW checked \in BOOLEAN,
         checked /\ key # "accept" => policy!Parent(key) \subseteq p.on
  PROVE  Draft(policy!updatePolicyField(p, key, checked))
<1> USE DEF Draft, policy!Admissible, policy!Scopes
<1>1. CASE checked
  <2>1. policy!updatePolicyField(p, key, checked) = [on |-> p.on \cup {key}, ids |-> p.ids]
    BY <1>1 DEF policy!updatePolicyField
  <2>2. "accept" \in p.on \cup {key} /\ (key \in {"classDelete", "poolDelete"} => "rook" \in p.on)
    BY <1>1 DEF policy!Parent
  <2> QED
    BY <2>1, <2>2
<1>2. CASE ~checked /\ key = "accept"
  BY <1>2 DEF policy!updatePolicyField, policy!Disabled
<1>3. CASE ~checked /\ key = "rook"
  <2>1. policy!updatePolicyField(p, key, checked)
          = [on |-> p.on \ {"rook", "classDelete", "poolDelete"}, ids |-> p.ids]
    BY <1>3 DEF policy!updatePolicyField
  <2> QED
    BY <2>1
<1>4. CASE ~checked /\ key \notin {"accept", "rook"}
  <2>1. policy!updatePolicyField(p, key, checked) = [on |-> p.on \ {key}, ids |-> p.ids]
    BY <1>4 DEF policy!updatePolicyField
  <2> QED
    BY <1>4, <2>1
<1> QED
  BY <1>1, <1>2, <1>3, <1>4

\* So does a choice of providers while the global gate is open.
LEMMA IdsAdmissible ==
  ASSUME NEW p, Draft(p), "accept" \in p.on, NEW ids
  PROVE  Draft(policy!WithIds(p, ids))
BY DEF Draft, policy!Admissible, policy!Scopes, policy!WithIds

LEMMA DraftSet ==
  ASSUME DraftInv, NEW p, Draft(p), policy!SetDraft(p)
  PROVE  DraftInv'
BY DEF DraftInv, policy!SetDraft, policy!Show

LEMMA DraftArrives ==
  ASSUME DraftInv, NEW p, Draft(p), NEW now, DOMAIN now = DOMAIN ui, policy!Arrives(p, now),
         calls' \subseteq calls
  PROVE  DraftInv'
<1>1. query' = [[query EXCEPT !.requested = p] EXCEPT !.revision = query.revision + 1]
  BY DEF policy!Arrives
<1>2. DOMAIN query' = DOMAIN query /\ query'.requested = p
  BY <1>1 DEF DraftInv
<1>3. DOMAIN ui' = DOMAIN ui /\ ui'.draft = p
  BY DEF policy!Arrives, DraftInv
<1> QED
  BY <1>2, <1>3 DEF DraftInv

LEMMA ClosedDraft ==
  ASSUME DraftInv
  PROVE  DOMAIN policy!Closed(ui) = DOMAIN ui /\ policy!Closed(ui).draft = ui.draft
<1>1. policy!Closed(ui) = [[[ui EXCEPT !.open = FALSE] EXCEPT !.plan = policy!NoPlan]
                             EXCEPT !.confirmed = {}]
  BY DEF policy!Closed
<1> QED
  BY <1>1 DEF DraftInv

LEMMA DraftStep ==
  ASSUME DraftInv, policy!PolicyNext
  PROVE  DraftInv'
<1>1. CASE policy!UsePreset
  <2>1. PICK preset \in policy!Presets : policy!SetDraft(preset[1])
    BY <1>1 DEF policy!UsePreset
  <2>2. Draft(preset[1])
    BY DEF Draft, policy!Presets, policy!Disabled, policy!Native, policy!Full, policy!Admissible,
           policy!Scopes
  <2> QED
    BY <2>1, <2>2, DraftSet
<1>2. ASSUME NEW key \in policy!Fields, policy!ToggleField(key)
      PROVE  DraftInv'
  <2> DEFINE p == policy!updatePolicyField(ui.draft, key, key \notin ui.draft.on)
  <2>1. /\ Draft(ui.draft) /\ key # "portable" /\ policy!SetDraft(p)
        /\ key # "accept" => policy!Parent(key) \subseteq ui.draft.on
    BY <1>2 DEF policy!ToggleField, DraftInv
  <2>2. Draft(p)
    BY <2>1, FieldAdmissible, (key \notin ui.draft.on) \in BOOLEAN
  <2> QED
    BY <2>1, <2>2, DraftSet
<1>3. ASSUME NEW id, policy!ToggleProvider(id)
      PROVE  DraftInv'
  <2>1. PICK ids : policy!SetDraft(policy!WithIds(ui.draft, ids))
    BY <1>3 DEF policy!ToggleProvider, policy!updatePortableProvider
  <2>2. Draft(policy!WithIds(ui.draft, ids))
    BY <1>3, IdsAdmissible DEF policy!ToggleProvider, DraftInv
  <2> QED
    BY <2>1, <2>2, DraftSet
<1>4. CASE policy!Migrate
  <2>1. "accept" \in ui.draft.on
    BY <1>4 DEF policy!Migrate, DraftInv, Draft, policy!Admissible, policy!Scopes
  <2> QED
    BY <1>4, <2>1, IdsAdmissible, DraftSet DEF policy!Migrate, DraftInv
<1>5. CASE policy!Reset
  BY <1>5, DraftSet DEF policy!Reset, DraftInv
<1>6. ASSUME NEW p \in Requests, policy!PolicyPolled(p)
      PROVE  DraftInv'
  BY <1>6, DraftArrives, RequestsAreAdmitted DEF policy!PolicyPolled, Draft
<1>7. CASE policy!review
  <2>1. \E nr, broadening, pool :
           calls' = calls \cup {[op |-> "plan", policy |-> ui.draft, revision |-> nr,
                                broadening |-> broadening, pool |-> pool]}
    BY <1>7, Zenon DEF policy!review
  <2> QED
    BY <1>7, <2>1 DEF policy!review, DraftInv
<1>8. ASSUME NEW c \in calls, policy!ReviewAnswered(c)
      PROVE  DraftInv'
  <2>1. CASE ui' = ui
    BY <1>8, <2>1 DEF policy!ReviewAnswered, DraftInv
  <2>2. ASSUME NEW plan, ui' = [[[ui EXCEPT !.plan = plan] EXCEPT !.open = TRUE] EXCEPT !.confirmed = {}]
        PROVE  DraftInv'
    <3>1. DOMAIN ui' = DOMAIN ui /\ ui'.draft = ui.draft
      BY <2>2 DEF DraftInv
    <3> QED
      BY <1>8, <3>1 DEF policy!ReviewAnswered, DraftInv
  <2> QED
    BY <1>8, <2>1, <2>2 DEF policy!ReviewAnswered
<1>9. ASSUME NEW k, policy!Confirm(k)
      PROVE  DraftInv'
  BY <1>9 DEF policy!Confirm, policy!Show, DraftInv
<1>10. CASE policy!Cancel
  BY <1>10, ClosedDraft DEF policy!Cancel, policy!Show, DraftInv
<1>11. CASE policy!apply
  BY <1>11 DEF policy!apply, DraftInv
<1>12. ASSUME NEW c \in calls, policy!ApplyAnswered(c)
       PROVE  DraftInv'
  <2>1. CASE UNCHANGED <<query, ui>>
    BY <1>12, <2>1 DEF policy!ApplyAnswered, DraftInv
  <2>2. CASE policy!Arrives(c.policy, policy!Closed(ui))
    <3>1. Draft(c.policy) /\ calls' \subseteq calls
      BY <1>12 DEF policy!ApplyAnswered, DraftInv
    <3> QED
      BY <2>2, <3>1, ClosedDraft, DraftArrives
  <2> QED
    BY <1>12, <2>1, <2>2 DEF policy!ApplyAnswered
<1> QED
  BY <1>1, <1>2, <1>3, <1>4, <1>5, <1>6, <1>7, <1>8, <1>9, <1>10, <1>11, <1>12
     DEF policy!PolicyNext

LEMMA AdmissibleInductive ==
  /\ (policy!PolicyInit => DraftInv)
  /\ (DraftInv /\ [policy!PolicyNext]_(policy!policyVars) => DraftInv')
  /\ (DraftInv => policy!DraftAdmissible)
<1>1. policy!PolicyInit => DraftInv
  BY RequestsAreAdmitted DEF policy!PolicyInit, DraftInv, Draft
<1>2. DraftInv /\ [policy!PolicyNext]_(policy!policyVars) => DraftInv'
  <2>1. CASE policy!PolicyNext
    BY <2>1, DraftStep
  <2>2. CASE UNCHANGED policy!policyVars
    BY <2>2 DEF policy!policyVars, DraftInv
  <2> QED
    BY <2>1, <2>2
<1>3. DraftInv => policy!DraftAdmissible
  BY DEF DraftInv, Draft, policy!DraftAdmissible
<1> QED
  BY <1>1, <1>2, <1>3

\* If other clients write admissible policies (the API stores no other), no
\* sequence of presets, gates, providers, polls and late answers leads the page
\* to a draft that the API would refuse.
THEOREM Admissible == policy!PolicySpec => []policy!DraftAdmissible
BY AdmissibleInductive, PTL DEF policy!PolicySpec

-----------------------------------------------------------------------------
(* VolumesPage, bulk runs: each row is in one of four places                 *)

ThreeLists == query = [volumes |-> query.volumes, hosts |-> query.hosts, v2 |-> query.v2]
        /\ DOMAIN query.volumes \subseteq NamesAt("volumes")

\* The run c: its record, and its rows parted into what is left and what became
\* of the others.
Parted(rows, left, ok, skipped, failed) ==
  /\ rows = left \cup ok \cup skipped \cup failed
  /\ left \cap ok = {} /\ left \cap skipped = {} /\ left \cap failed = {}
  /\ ok \cap skipped = {} /\ ok \cap failed = {} /\ skipped \cap failed = {}

BulkRun(c) ==
  /\ {"op", "rows", "left", "ok", "skipped", "failed"} \subseteq DOMAIN c
  /\ DOMAIN c.rows \subseteq NamesAt("volumes")
  /\ Parted(DOMAIN c.rows, c.left, c.ok, c.skipped, c.failed)

BulkInv == ThreeLists /\ \A c \in calls : c.op = "bulk" => BulkRun(c)

LEMMA SameCardinality == \A S : volumes!Cardinality(S) = Cardinality(S)
BY DEF volumes!Cardinality, Cardinality

LEMMA TwoParts ==
  ASSUME NEW S, NEW T, IsFiniteSet(S), IsFiniteSet(T), S \cap T = {}
  PROVE  IsFiniteSet(S \cup T) /\ Cardinality(S \cup T) = Cardinality(S) + Cardinality(T)
<1>1. Cardinality(S \cup T) = Cardinality(S) + Cardinality(T) - Cardinality(S \cap T)
  BY FS_Union
<1>2. Cardinality(S \cap T) = 0 /\ IsFiniteSet(S \cup T)
  BY FS_EmptySet, FS_Union
<1> QED
  BY <1>1, <1>2, FS_CardinalityType

LEMMA FourParts ==
  ASSUME NEW rows, NEW left, NEW ok, NEW skipped, NEW failed, IsFiniteSet(rows),
         Parted(rows, left, ok, skipped, failed)
  PROVE  Cardinality(rows) = Cardinality(left) + Cardinality(ok) + Cardinality(skipped)
                             + Cardinality(failed)
<1>1. /\ IsFiniteSet(left) /\ IsFiniteSet(ok) /\ IsFiniteSet(skipped) /\ IsFiniteSet(failed)
  BY FS_Subset DEF Parted
<1>2. /\ left \cap ok = {} /\ (left \cup ok) \cap skipped = {}
      /\ ((left \cup ok) \cup skipped) \cap failed = {}
      /\ rows = ((left \cup ok) \cup skipped) \cup failed
  BY DEF Parted
<1>3. IsFiniteSet(left \cup ok) /\ Cardinality(left \cup ok) = Cardinality(left) + Cardinality(ok)
  BY <1>1, <1>2, TwoParts
<1>4. /\ IsFiniteSet((left \cup ok) \cup skipped)
      /\ Cardinality((left \cup ok) \cup skipped) = Cardinality(left \cup ok) + Cardinality(skipped)
  BY <1>1, <1>2, <1>3, TwoParts
<1>5. Cardinality(rows) = Cardinality((left \cup ok) \cup skipped) + Cardinality(failed)
  BY <1>1, <1>2, <1>4, TwoParts
<1> QED
  BY <1>3, <1>4, <1>5

\* A step that leaves the rows' names and starts no run.
LEMMA BulkKept ==
  ASSUME BulkInv, UNCHANGED query, \A c \in calls' : c \in calls \/ c.op # "bulk"
  PROVE  BulkInv'
BY DEF BulkInv, ThreeLists

\* The loop moves one row out of what is left.
LEMMA BulkMoves ==
  ASSUME BulkInv, UNCHANGED query, NEW c \in calls, c.op = "bulk", NEW n \in c.left,
         NEW part \in {"ok", "skipped", "failed"},
         calls' = (calls \ {c}) \cup {[[c EXCEPT !.left = c.left \ {n}] EXCEPT ![part] = c[part] \cup {n}]}
  PROVE  BulkInv'
<1> DEFINE rest == [c EXCEPT !.left = c.left \ {n}]
           next == [rest EXCEPT ![part] = c[part] \cup {n}]
<1>1. BulkRun(c)
  BY DEF BulkInv
<1>2. DOMAIN rest = DOMAIN c /\ rest.left = c.left \ {n}
      /\ \A k \in DOMAIN c : k # "left" => rest[k] = c[k]
  BY <1>1 DEF BulkRun
<1>3. /\ DOMAIN next = DOMAIN c /\ next.left = c.left \ {n} /\ next[part] = c[part] \cup {n}
      /\ \A k \in DOMAIN c : k \notin {"left", part} => next[k] = c[k]
  BY <1>1, <1>2 DEF BulkRun
<1>4. next.op = "bulk" /\ next.rows = c.rows
  BY <1>1, <1>3 DEF BulkRun
<1>5. Parted(DOMAIN next.rows, next.left, next.ok, next.skipped, next.failed)
  <2>1. CASE part = "ok"
    <3>1. next.ok = c.ok \cup {n} /\ next.skipped = c.skipped /\ next.failed = c.failed
      BY <1>1, <1>3, <2>1 DEF BulkRun
    <3> QED
      BY <1>1, <1>3, <1>4, <3>1 DEF BulkRun, Parted
  <2>2. CASE part = "skipped"
    <3>1. next.ok = c.ok /\ next.skipped = c.skipped \cup {n} /\ next.failed = c.failed
      BY <1>1, <1>3, <2>2 DEF BulkRun
    <3> QED
      BY <1>1, <1>3, <1>4, <3>1 DEF BulkRun, Parted
  <2>3. CASE part = "failed"
    <3>1. next.ok = c.ok /\ next.skipped = c.skipped /\ next.failed = c.failed \cup {n}
      BY <1>1, <1>3, <2>3 DEF BulkRun
    <3> QED
      BY <1>1, <1>3, <1>4, <3>1 DEF BulkRun, Parted
  <2> QED
    BY <2>1, <2>2, <2>3
<1>6. BulkRun(next)
  BY <1>1, <1>3, <1>4, <1>5 DEF BulkRun
<1> QED
  BY <1>4, <1>6 DEF BulkInv, ThreeLists

LEMMA ItemMoves ==
  ASSUME BulkInv, NEW c \in calls, NEW n, volumes!BulkItem(c, n)
  PROVE  /\ BulkRun(c)
         /\ \E part \in {"ok", "skipped", "failed"} :
              calls' = (calls \ {c}) \cup
                       {[[c EXCEPT !.left = c.left \ {n}] EXCEPT ![part] = c[part] \cup {n}]}
<1>1. BulkRun(c)
  BY DEF volumes!BulkItem, BulkInv
<1>2. \A part \in {"ok", "skipped", "failed"} : [c EXCEPT !.left = c.left \ {n}][part] = c[part]
  BY <1>1 DEF BulkRun
<1> QED
  BY <1>1, <1>2 DEF volumes!BulkItem

LEMMA BulkStep ==
  ASSUME BulkInv, volumes!VolumesNext
  PROVE  BulkInv'
<1>1. CASE volumes!Poll
  <2> DEFINE NoNewRows ==
        /\ DOMAIN query'.volumes \subseteq DOMAIN query.volumes
        /\ query' = [volumes |-> query'.volumes, hosts |-> query'.hosts, v2 |-> query'.v2]
  <2>1. UNCHANGED calls /\ NoNewRows
    <3>1. ASSUME NEW n \in DOMAIN query.volumes, NEW state,
                 query' = [query EXCEPT !.volumes[n] = state]
          PROVE  NoNewRows
      BY <3>1 DEF BulkInv, ThreeLists
    <3>2. ASSUME NEW n \in DOMAIN query.volumes,
                 query' = [query EXCEPT !.volumes =
                             [m \in DOMAIN query.volumes \ {n} |-> query.volumes[m]]]
          PROVE  NoNewRows
      BY <3>2 DEF BulkInv, ThreeLists
    <3>3. ASSUME NEW new, query' = [query EXCEPT !.hosts = new] \/ query' = [query EXCEPT !.v2 = new]
          PROVE  NoNewRows
      BY <3>3 DEF BulkInv, ThreeLists
    <3> QED
      BY <1>1, <3>1, <3>2, <3>3 DEF volumes!Poll
  <2> QED
    BY <2>1 DEF BulkInv, ThreeLists
<1>2. CASE UNCHANGED <<query, calls>>
  BY <1>2, BulkKept
<1>3. CASE volumes!Create
  BY <1>3, BulkKept DEF volumes!Create, volumes!Show
<1>4. CASE volumes!RunBulk
  <2> DEFINE sel == volumes!selectedVols
  <2>1. PICK c : /\ calls' = calls \cup {c} /\ c.op = "bulk"
                 /\ \E key, params : c = [op |-> "bulk", key |-> key, params |-> params,
                                          rows |-> [n \in sel |-> query.volumes[n]],
                                          left |-> sel, ok |-> {}, skipped |-> {}, failed |-> {}]
    BY <1>4 DEF volumes!RunBulk
  <2>2. sel \subseteq NamesAt("volumes")
    BY DEF volumes!selectedVols, volumes!Shown, BulkInv, ThreeLists
  <2>3. BulkRun(c)
    BY <2>1, <2>2 DEF BulkRun, Parted
  <2> QED
    BY <1>4, <2>1, <2>3 DEF volumes!RunBulk, BulkInv, ThreeLists
<1>5. CASE volumes!SubmitAction
  BY <1>5, BulkKept DEF volumes!SubmitAction
<1>6. CASE volumes!ConfirmDelete
  BY <1>6, BulkKept DEF volumes!ConfirmDelete
<1>7. ASSUME NEW c \in calls, NEW n, volumes!BulkItem(c, n)
      PROVE  BulkInv'
  <2>1. c.op = "bulk" /\ n \in c.left /\ UNCHANGED query
    BY <1>7 DEF volumes!BulkItem
  <2>2. \E part \in {"ok", "skipped", "failed"} :
          calls' = (calls \ {c}) \cup
                   {[[c EXCEPT !.left = c.left \ {n}] EXCEPT ![part] = c[part] \cup {n}]}
    BY <1>7, ItemMoves
  <2> QED
    BY <2>1, <2>2, BulkMoves
<1>8. ASSUME UNCHANGED query, calls' \subseteq calls
      PROVE  BulkInv'
  BY <1>8, BulkKept
<1> QED
  BY <1>1, <1>2, <1>3, <1>4, <1>5, <1>6, <1>7, <1>8
     DEF volumes!VolumesNext, volumes!Show, volumes!SetFilter, volumes!SelectRow, volumes!OpenCreate,
         volumes!CloseCreate, volumes!SetEngine, volumes!SetFrontend, volumes!SetSource,
         volumes!EditForm, volumes!EditAdvanced, volumes!OpenBulk, volumes!EnterBulk,
         volumes!CloseBulk, volumes!OpenAction, volumes!CloseAction, volumes!EnterAction,
         volumes!OpenDelete, volumes!TypeName, volumes!DismissDelete, volumes!CreateAnswered,
         volumes!BulkEnds, volumes!ActionAnswered, volumes!DeleteAnswered

LEMMA AccountedInductive ==
  /\ (volumes!VolumesInit => BulkInv)
  /\ (BulkInv /\ [volumes!VolumesNext]_(volumes!volumesVars) => BulkInv')
  /\ (BulkInv => volumes!BulkRunAccounted)
<1>1. volumes!VolumesInit => BulkInv
  BY DEF volumes!VolumesInit, BulkInv, ThreeLists
<1>2. BulkInv /\ [volumes!VolumesNext]_(volumes!volumesVars) => BulkInv'
  BY BulkStep, BulkKept DEF volumes!volumesVars
<1>3. BulkInv => volumes!BulkRunAccounted
  <2> SUFFICES ASSUME BulkInv, NEW c \in calls, c.op = "bulk"
               PROVE  /\ Parted(DOMAIN c.rows, c.left, c.ok, c.skipped, c.failed)
                      /\ IsFiniteSet(DOMAIN c.rows)
    BY FourParts, SameCardinality DEF volumes!BulkRunAccounted, Parted
  <2> QED
    BY FS_Subset, ListsAreFinite DEF BulkInv, BulkRun
<1> QED
  BY <1>1, <1>2, <1>3

\* Every row of a bulk run is done, skipped, failed or still to come, and one of
\* these only, whatever fails, is polled, filtered or ticked meanwhile.
THEOREM Accounted == volumes!VolumesSpec => []volumes!BulkRunAccounted
BY AccountedInductive, PTL DEF volumes!VolumesSpec

-----------------------------------------------------------------------------
(* VolumesPage, the create form: whatever is asked, its frontend is one of   *)
(* its engine                                                                *)

FormFits ==
  /\ "form" \in DOMAIN ui
  /\ {"engine", "frontend"} \subseteq DOMAIN ui.form
  /\ ui.form.engine \in {"v1", "v2"}
  /\ ui.form.frontend \in volumes!Frontends[ui.form.engine]

FitsInv == FormFits /\ volumes!FrontendFitsEngine

LEMMA EmptyFits ==
  /\ {"engine", "frontend", "size"} \subseteq DOMAIN volumes!EmptyForm
  /\ volumes!EmptyForm.engine = "v1" /\ volumes!EmptyForm.frontend = "blockdev"
  /\ \A engine \in {"v1", "v2"} : "blockdev" \in volumes!Frontends[engine]
BY DEF volumes!EmptyForm, volumes!Frontends

\* A step after which the form fits, and that creates nothing else.
LEMMA FitsKept ==
  ASSUME FitsInv, FormFits', \A c \in calls' : c \in calls \/ c.op # "create"
  PROVE  FitsInv'
BY DEF FitsInv, volumes!FrontendFitsEngine

\* The form is replaced by one that fits.
LEMMA FormReplaced ==
  ASSUME FitsInv, NEW form, {"engine", "frontend"} \subseteq DOMAIN form,
         form.engine \in {"v1", "v2"}, form.frontend \in volumes!Frontends[form.engine],
         volumes!Show([ui EXCEPT !.form = form])
  PROVE  FitsInv'
<1>1. FormFits'
  BY DEF FitsInv, FormFits, volumes!Show
<1> QED
  BY <1>1, FitsKept DEF volumes!Show

LEMMA FormStep ==
  ASSUME FitsInv,
         \/ \E engine \in {"v1", "v2"} : volumes!SetEngine(engine)
         \/ \E frontend \in volumes!Frontends.v1 \cup volumes!Frontends.v2 : volumes!SetFrontend(frontend)
         \/ \E source \in {"volume", "snapshot", None} : volumes!SetSource(source)
         \/ volumes!EditForm \/ volumes!EditAdvanced
  PROVE  FitsInv'
<1> USE DEF FitsInv, FormFits, volumes!Show
<1>1. ASSUME NEW engine \in {"v1", "v2"}, volumes!SetEngine(engine)
      PROVE  FitsInv'
  <2> DEFINE frontend == IF ui.form.frontend \in volumes!Frontends[engine]
                         THEN ui.form.frontend ELSE "blockdev"
  <2>1. ui' = [[ui EXCEPT !.form.engine = engine] EXCEPT !.form.frontend = frontend]
    BY <1>1 DEF volumes!SetEngine
  <2>2. frontend \in volumes!Frontends[engine]
    BY EmptyFits
  <2>3. FormFits'
    BY <2>1, <2>2
  <2> QED
    BY <1>1, <2>3, FitsKept DEF volumes!SetEngine
<1>2. ASSUME NEW frontend, volumes!SetFrontend(frontend)
      PROVE  FitsInv'
  <2>1. FormFits'
    BY <1>2 DEF volumes!SetFrontend
  <2> QED
    BY <1>2, <2>1, FitsKept DEF volumes!SetFrontend
<1>3. ASSUME NEW source, volumes!SetSource(source)
      PROVE  FitsInv'
  <2>1. ui' = [[[ui EXCEPT !.form.source = source] EXCEPT !.form.volume = FALSE]
                 EXCEPT !.form.snapshot = FALSE]
    BY <1>3 DEF volumes!SetSource
  <2>2. FormFits'
    BY <2>1
  <2> QED
    BY <1>3, <2>2, FitsKept DEF volumes!SetSource
<1>4. CASE volumes!EditForm
  <2>1. FormFits'
    BY <1>4 DEF volumes!EditForm
  <2> QED
    BY <1>4, <2>1, FitsKept DEF volumes!EditForm
<1>5. CASE volumes!EditAdvanced
  <2>1. FormFits'
    BY <1>5 DEF volumes!EditAdvanced
  <2> QED
    BY <1>5, <2>1, FitsKept DEF volumes!EditAdvanced
<1> QED
  BY <1>1, <1>2, <1>3, <1>4, <1>5

\* What does not touch the form.
LEMMA FormKept ==
  ASSUME FitsInv, DOMAIN ui' = DOMAIN ui, ui'.form = ui.form,
         \A c \in calls' : c \in calls \/ c.op # "create"
  PROVE  FitsInv'
BY FitsKept DEF FitsInv, FormFits

LEMMA FitsStep ==
  ASSUME BulkInv, FitsInv, volumes!VolumesNext
  PROVE  FitsInv'
<1> USE DEF FitsInv, FormFits
<1>1. CASE volumes!Poll \/ volumes!ConfirmDelete
  BY <1>1, FormKept DEF volumes!Poll, volumes!ConfirmDelete
<1>2. CASE volumes!SetFilter
  BY <1>2, FormKept DEF volumes!SetFilter, volumes!Show
<1>3. ASSUME NEW n, volumes!SelectRow(n)
      PROVE  FitsInv'
  BY <1>3, FormKept DEF volumes!SelectRow, volumes!Show
<1>4. CASE volumes!OpenCreate \/ volumes!CloseCreate \/ volumes!CloseBulk
  BY <1>4, FormKept DEF volumes!OpenCreate, volumes!CloseCreate, volumes!CloseBulk, volumes!Show
<1>5. CASE volumes!Create
  <2>1. CASE volumes!Show([ui EXCEPT !.formError = TRUE])
    BY <2>1, FormKept DEF volumes!Show
  <2>2. CASE /\ ui' = [ui EXCEPT !.formError = FALSE]
             /\ calls' = calls \cup {[op |-> "create", body |-> volumes!CreateBody(ui.form)]}
    <3>1. FormFits'
      BY <2>2
    <3>2. /\ volumes!CreateBody(ui.form).frontend = ui.form.frontend
          /\ volumes!CreateBody(ui.form).engine = ui.form.engine
      BY DEF volumes!CreateBody
    <3> QED
      BY <2>2, <3>1, <3>2 DEF volumes!FrontendFitsEngine
  <2> QED
    BY <1>5, <2>1, <2>2 DEF volumes!Create
<1>6. ASSUME NEW c \in calls, volumes!CreateAnswered(c)
      PROVE  FitsInv'
  <2>1. CASE ui' = [ui EXCEPT !.formError = TRUE]
    BY <1>6, <2>1, FormKept DEF volumes!CreateAnswered
  <2>2. CASE ui' = [[ui EXCEPT !.createOpen = FALSE] EXCEPT !.form = volumes!resetCreateForm(ui.form)]
    <3>1. /\ DOMAIN volumes!resetCreateForm(ui.form) = DOMAIN volumes!EmptyForm
          /\ volumes!resetCreateForm(ui.form).engine = "v1"
          /\ volumes!resetCreateForm(ui.form).frontend = "blockdev"
      BY EmptyFits DEF volumes!resetCreateForm
    <3>2. FormFits'
      BY <2>2, <3>1, EmptyFits
    <3> QED
      BY <1>6, <3>2, FitsKept DEF volumes!CreateAnswered
  <2> QED
    BY <1>6, <2>1, <2>2 DEF volumes!CreateAnswered
<1>7. ASSUME NEW key, volumes!OpenBulk(key)
      PROVE  FitsInv'
  <2>1. PICK h : volumes!Show([[[ui EXCEPT !.bulkKey = key] EXCEPT !.bulkValue = None] EXCEPT !.bulkHost = h])
    BY <1>7 DEF volumes!OpenBulk
  <2> QED
    BY <2>1, FormKept DEF volumes!Show
<1>8. ASSUME NEW value, volumes!EnterBulk(value)
      PROVE  FitsInv'
  BY <1>8, FormKept DEF volumes!EnterBulk, volumes!Show
<1>9. CASE volumes!RunBulk
  <2>1. PICK c : c.op = "bulk" /\ calls' = calls \cup {c}
    BY <1>9 DEF volumes!RunBulk
  <2> QED
    BY <1>9, <2>1, FormKept DEF volumes!RunBulk
<1>10. ASSUME NEW n, NEW key, volumes!OpenAction(n, key)
       PROVE  FitsInv'
  <2>1. ui' = [[ui EXCEPT !.action = key] EXCEPT !.actionVol = n] /\ UNCHANGED calls
    BY <1>10 DEF volumes!OpenAction, volumes!Show
  <2> QED
    BY <2>1, FormKept
<1>11. CASE volumes!CloseAction
  <2>1. ui' = [[ui EXCEPT !.action = None] EXCEPT !.actionVol = None] /\ UNCHANGED calls
    BY <1>11 DEF volumes!CloseAction, volumes!Show
  <2> QED
    BY <2>1, FormKept
<1>12. CASE volumes!EnterAction
  BY <1>12, FormKept DEF volumes!EnterAction, volumes!Show
<1>13. CASE volumes!SubmitAction
  <2>1. PICK c : c.op = "action" /\ calls' = calls \cup {c}
    BY <1>13 DEF volumes!SubmitAction
  <2> QED
    BY <1>13, <2>1, FormKept DEF volumes!SubmitAction
<1>14. ASSUME NEW n, volumes!OpenDelete(n)
       PROVE  FitsInv'
  <2>1. ui' = [[ui EXCEPT !.target = n] EXCEPT !.typedNow = FALSE] /\ UNCHANGED calls
    BY <1>14 DEF volumes!OpenDelete, volumes!Show
  <2> QED
    BY <2>1, FormKept
<1>15. ASSUME NEW text, volumes!TypeName(text)
       PROVE  FitsInv'
  <2>1. ui' = [[ui EXCEPT !.typed = text] EXCEPT !.typedNow = TRUE] /\ UNCHANGED calls
    BY <1>15 DEF volumes!TypeName, volumes!Show
  <2> QED
    BY <2>1, FormKept
<1>16. CASE volumes!DismissDelete
  <2>1. CASE volumes!Show([[ui EXCEPT !.target = None] EXCEPT !.typed = None])
    BY <2>1, FormKept DEF volumes!Show
  <2> QED
    BY <1>16, <2>1, FormKept DEF volumes!DismissDelete, volumes!Show
<1>17. ASSUME NEW c \in calls, NEW n, volumes!BulkItem(c, n)
       PROVE  FitsInv'
  <2>1. PICK part \in {"ok", "skipped", "failed"} :
          calls' = (calls \ {c}) \cup
                   {[[c EXCEPT !.left = c.left \ {n}] EXCEPT ![part] = c[part] \cup {n}]}
    BY <1>17, ItemMoves
  <2>2. BulkRun(c) /\ c.op = "bulk"
    BY <1>17 DEF volumes!BulkItem, BulkInv
  <2>3. [[c EXCEPT !.left = c.left \ {n}] EXCEPT ![part] = c[part] \cup {n}].op = "bulk"
    BY <2>2 DEF BulkRun
  <2> QED
    BY <1>17, <2>1, <2>3, FormKept DEF volumes!BulkItem
<1>18. ASSUME NEW c \in calls, volumes!BulkEnds(c)
       PROVE  FitsInv'
  <2>1. ui' = [[ui EXCEPT !.selected = {}] EXCEPT !.bulkKey = None] /\ calls' \subseteq calls
    BY <1>18 DEF volumes!BulkEnds
  <2> QED
    BY <2>1, FormKept
<1>19. ASSUME NEW c \in calls, volumes!ActionAnswered(c)
       PROVE  FitsInv'
  <2>1. PICK failed : ui' = [[[ui EXCEPT !.error = failed] EXCEPT !.action = None] EXCEPT !.actionVol = None]
    BY <1>19 DEF volumes!ActionAnswered
  <2> QED
    BY <1>19, <2>1, FormKept DEF volumes!ActionAnswered
<1>20. ASSUME NEW c \in calls, volumes!DeleteAnswered(c)
       PROVE  FitsInv'
  BY <1>20, FormKept DEF volumes!DeleteAnswered
<1> QED
  BY <1>1, <1>2, <1>3, <1>4, <1>5, <1>6, <1>7, <1>8, <1>9, <1>10, <1>11, <1>12, <1>13, <1>14, <1>15,
     <1>16, <1>17, <1>18, <1>19, <1>20, FormStep
     DEF volumes!VolumesNext

LEMMA FrontendFitsInductive ==
  /\ (volumes!VolumesInit => BulkInv /\ FitsInv)
  /\ (BulkInv /\ FitsInv /\ [volumes!VolumesNext]_(volumes!volumesVars) => (BulkInv /\ FitsInv)')
  /\ (FitsInv => volumes!FrontendFitsEngine)
<1>1. volumes!VolumesInit => BulkInv /\ FitsInv
  BY EmptyFits DEF volumes!VolumesInit, BulkInv, ThreeLists, FitsInv, FormFits, volumes!FrontendFitsEngine
<1>2. BulkInv /\ FitsInv /\ [volumes!VolumesNext]_(volumes!volumesVars) => (BulkInv /\ FitsInv)'
  BY BulkStep, BulkKept, FitsStep, FormKept DEF volumes!volumesVars
<1>3. FitsInv => volumes!FrontendFitsEngine
  BY DEF FitsInv
<1> QED
  BY <1>1, <1>2, <1>3

\* "no incompatible engine/frontend combo can be submitted": not by switching
\* the engine back and forth, closing the dialog while it waits, or a setting
\* that goes away under the open form.
THEOREM FrontendFits == volumes!VolumesSpec => []volumes!FrontendFitsEngine
BY FrontendFitsInductive, PTL DEF volumes!VolumesSpec

-----------------------------------------------------------------------------
(* EngineImagesPage: what is deleted was no default in some list             *)

\* Not the default, by a list that arrived.
Spare(n) == \E rows \in ListsAt("engineImages") : n \in DOMAIN rows /\ ~rows[n]

\* A list, or what was left of one.
Received(rows) == \A n \in DOMAIN rows : ~rows[n] => Spare(n)

SparesRow(c) ==
  /\ {"op", "now", "left", "before"} \subseteq DOMAIN c
  /\ c.now # None => Spare(c.now)
  /\ \A n \in c.left : Spare(n)
  /\ Received(c.before)

ImagesInv ==
  /\ "rows" \in DOMAIN query /\ Received(query.rows)
  /\ {"deleteTarget", "bulkRows"} \subseteq DOMAIN ui /\ Received(ui.bulkRows)
  /\ ui.deleteTarget # None => Spare(ui.deleteTarget)
  /\ \A c \in calls : c.op \in {"delete", "bulkDelete"} => SparesRow(c)

\* A step of the dialogs, or the end of a request.
LEMMA ImagesKept ==
  ASSUME ImagesInv, UNCHANGED query, DOMAIN ui' = DOMAIN ui, Received(ui'.bulkRows),
         ui'.deleteTarget # None => Spare(ui'.deleteTarget),
         \A c \in calls' : c \in calls \/ c.op \notin {"delete", "bulkDelete"} \/ SparesRow(c)
  PROVE  ImagesInv'
BY DEF ImagesInv

\* A row is removed from the list and asked to be deleted.
LEMMA ImageRemoved ==
  ASSUME ImagesInv, NEW others, others \subseteq calls, NEW c, SparesRow(c), NEW n, Spare(n),
         engineImages!Remove(others, c, n)
  PROVE  ImagesInv'
<1> DEFINE next == [[[c EXCEPT !.now = n] EXCEPT !.left = c.left \ {n}] EXCEPT !.before = query.rows]
<1>1. /\ DOMAIN next = DOMAIN c /\ next.now = n /\ next.left = c.left \ {n} /\ next.before = query.rows
  BY DEF SparesRow
<1>2. SparesRow(next)
  BY <1>1 DEF SparesRow, ImagesInv
<1>3. calls' = others \cup {next} /\ UNCHANGED ui
  BY DEF engineImages!Remove, SparesRow
<1>4. "rows" \in DOMAIN query'
      /\ query'.rows = [m \in DOMAIN query.rows \ {n} |-> query.rows[m]]
  BY DEF engineImages!Remove, engineImages!Listed, ImagesInv
<1>5. Received(query'.rows)
  BY <1>4 DEF Received, ImagesInv
<1> QED
  BY <1>2, <1>3, <1>4, <1>5 DEF ImagesInv

LEMMA ImagesDeleted ==
  ASSUME ImagesInv, NEW op, NEW targets, \A n \in targets : Spare(n),
         engineImages!DeleteEach(op, targets)
  PROVE  ImagesInv'
<1>1. PICK n \in targets : engineImages!Remove(calls,
        [op |-> op, now |-> n, left |-> targets, before |-> query.rows], n)
  BY DEF engineImages!DeleteEach
<1>2. SparesRow([op |-> op, now |-> n, left |-> targets, before |-> query.rows])
  BY DEF SparesRow, ImagesInv
<1> QED
  BY <1>1, <1>2, ImageRemoved

LEMMA ImagesListStep ==
  ASSUME ImagesInv, engineImages!ListNext
  PROVE  ImagesInv'
<1> USE DEF engineImages!Show
<1>1. ASSUME NEW rows \in ListsAt("engineImages"), engineImages!Poll(rows)
      PROVE  ImagesInv'
  <2>1. Received(rows)
    BY DEF Received, Spare
  <2> QED
    BY <1>1, <2>1 DEF engineImages!Poll, ImagesInv
<1>2. CASE engineImages!DismissDelete
  <2>1. CASE ui' = [[ui EXCEPT !.deleteTarget = None] EXCEPT !.typed = None]
    BY <1>2, <2>1, ImagesKept DEF engineImages!DismissDelete, ImagesInv
  <2> QED
    BY <1>2, <2>1, ImagesKept DEF engineImages!DismissDelete, ImagesInv
<1>3. CASE engineImages!DismissBulkDelete
  BY <1>3, ImagesKept DEF engineImages!DismissBulkDelete, ImagesInv
<1>4. ASSUME NEW n, engineImages!TypeName(n)
      PROVE  ImagesInv'
  BY <1>4, ImagesKept DEF engineImages!TypeName, ImagesInv
<1>5. ASSUME NEW c \in calls, engineImages!DeleteEnds(c)
      PROVE  ImagesInv'
  <2>1. "rows" \in DOMAIN query' /\ Received(query'.rows)
    BY <1>5 DEF engineImages!DeleteEnds, engineImages!Refuse, ImagesInv, SparesRow
  <2> QED
    BY <1>5, <2>1 DEF engineImages!DeleteEnds, ImagesInv
<1>6. ASSUME NEW c \in calls, engineImages!BulkItem(c)
      PROVE  ImagesInv'
  <2> DEFINE next == [c EXCEPT !.now = None]
  <2>1. SparesRow(c)
    BY <1>6 DEF engineImages!BulkItem, ImagesInv
  <2>2. SparesRow(next)
    BY <2>1 DEF SparesRow
  <2>3. "rows" \in DOMAIN query' /\ Received(query'.rows)
    BY <1>6, <2>1 DEF engineImages!BulkItem, engineImages!Refuse, ImagesInv, SparesRow
  <2> QED
    BY <1>6, <2>2, <2>3 DEF engineImages!BulkItem, ImagesInv
<1>7. ASSUME NEW c \in calls, engineImages!BulkNext(c)
      PROVE  ImagesInv'
  <2>1. SparesRow(c)
    BY <1>7 DEF engineImages!BulkNext, ImagesInv
  <2>2. PICK n \in c.left : engineImages!Remove(calls \ {c}, c, n)
    BY <1>7 DEF engineImages!BulkNext
  <2> QED
    BY <2>1, <2>2, ImageRemoved DEF SparesRow
<1> QED
  BY <1>1, <1>2, <1>3, <1>4, <1>5, <1>6, <1>7 DEF engineImages!ListNext

LEMMA ImagesStep ==
  ASSUME ImagesInv, engineImages!EngineImagesNext
  PROVE  ImagesInv'
<1> USE DEF engineImages!Show
<1>1. CASE engineImages!OpenDeploy \/ engineImages!CloseDeploy
  BY <1>1, ImagesKept DEF engineImages!OpenDeploy, engineImages!CloseDeploy, ImagesInv
<1>2. CASE engineImages!Deploy
  BY <1>2, ImagesKept DEF engineImages!Deploy, engineImages!Send, ImagesInv
<1>3. ASSUME NEW c \in calls, engineImages!DeployAnswered(c)
      PROVE  ImagesInv'
  BY <1>3, ImagesKept DEF engineImages!DeployAnswered, engineImages!Answered, ImagesInv
<1>4. ASSUME NEW n, engineImages!OpenDelete(n)
      PROVE  ImagesInv'
  <2>1. Spare(n)
    BY <1>4 DEF engineImages!OpenDelete, engineImages!Listed, ImagesInv, Received
  <2> QED
    BY <1>4, <2>1, ImagesKept DEF engineImages!OpenDelete, ImagesInv
<1>5. CASE engineImages!ConfirmDelete
  BY <1>5, ImagesDeleted DEF engineImages!ConfirmDelete, engineImages!CanConfirm, ImagesInv
<1>6. ASSUME NEW sel, engineImages!OpenBulkDelete(sel)
      PROVE  ImagesInv'
  <2> DEFINE rows == [n \in sel |-> query.rows[n]]
  <2>1. Received(rows)
    BY <1>6 DEF engineImages!OpenBulkDelete, engineImages!Listed, ImagesInv, Received
  <2>2. ui' = [[ui EXCEPT !.bulkRows = rows] EXCEPT !.bulkDeleteOpen = TRUE] /\ UNCHANGED <<query, calls>>
    BY <1>6 DEF engineImages!OpenBulkDelete
  <2>3. DOMAIN ui' = DOMAIN ui /\ ui'.bulkRows = rows /\ ui'.deleteTarget = ui.deleteTarget
    BY <2>2 DEF ImagesInv
  <2> QED
    BY <2>1, <2>2, <2>3, ImagesKept DEF ImagesInv
<1>7. DOMAIN engineImages!BulkDeleted = DOMAIN ui /\ Received(engineImages!BulkDeleted.bulkRows)
      /\ engineImages!BulkDeleted.deleteTarget = ui.deleteTarget
  <2>1. engineImages!BulkDeleted = [[ui EXCEPT !.bulkRows = <<>>] EXCEPT !.bulkDeleteOpen = FALSE]
    BY DEF engineImages!BulkDeleted
  <2> QED
    BY <2>1 DEF ImagesInv, Received
<1>8. CASE engineImages!ConfirmBulkDelete
  <2>1. \A n \in engineImages!Targets : Spare(n)
    BY DEF engineImages!Targets, ImagesInv, Received
  <2> QED
    BY <1>7, <1>8, <2>1, ImagesKept, ImagesDeleted DEF engineImages!ConfirmBulkDelete, ImagesInv
<1>9. ASSUME NEW c \in calls, engineImages!BulkDeleteEnds(c)
      PROVE  ImagesInv'
  BY <1>7, <1>9, ImagesKept DEF engineImages!BulkDeleteEnds, engineImages!BulkEnds, ImagesInv
<1> QED
  BY <1>1, <1>2, <1>3, <1>4, <1>5, <1>6, <1>8, <1>9, ImagesListStep DEF engineImages!EngineImagesNext

LEMMA DefaultKeptInductive ==
  /\ (engineImages!EngineImagesInit => ImagesInv)
  /\ (ImagesInv /\ [engineImages!EngineImagesNext]_(engineImages!listVars) => ImagesInv')
  /\ (ImagesInv => engineImages!DefaultImageKept)
<1>1. engineImages!EngineImagesInit => ImagesInv
  BY DEF engineImages!EngineImagesInit, ImagesInv, Received, Spare
<1>2. ImagesInv /\ [engineImages!EngineImagesNext]_(engineImages!listVars) => ImagesInv'
  BY ImagesStep, ImagesKept DEF engineImages!listVars, ImagesInv
<1>3. ImagesInv => engineImages!DefaultImageKept
  BY DEF ImagesInv, SparesRow, Spare, engineImages!DefaultImageKept
<1> QED
  BY <1>1, <1>2, <1>3

\* No request, single or in a loop, asks for an image that every list called the
\* default, although refused rows are put back with the list they came from.
THEOREM DefaultKept == engineImages!EngineImagesSpec => []engineImages!DefaultImageKept
BY DefaultKeptInductive, PTL DEF engineImages!EngineImagesSpec
-----------------------------------------------------------------------------
(* RecurringJobsPage: the form that is open knows what it was opened for     *)

Form(u) ==
  /\ {"open", "editTarget", "form", "purpose"} \subseteq DOMAIN u
  /\ "name" \in DOMAIN u.form
  /\ u.open => /\ (u.editTarget = None) = (u.purpose = "create")
               /\ (u.editTarget # None) = (u.purpose = "edit")
               /\ u.editTarget # None => u.form.name = u.editTarget

JobsInv == Form(ui) /\ recurringJobs!SavesItsJob

\* A step of the form, or a request that saves nothing.
LEMMA JobsKept ==
  ASSUME JobsInv, Form(ui'),
         \A c \in calls' : c \in calls \/ c.op \notin {"create", "update"}
  PROVE  JobsInv'
BY DEF JobsInv, recurringJobs!SavesItsJob

\* Opening and closing the form, and what is entered in it.
JobFormNext ==
  \/ recurringJobs!openCreate
  \/ \E n \in NamesAt("recurringJobs") : recurringJobs!openEdit(n)
  \/ recurringJobs!CloseForm
  \/ \E n \in NamesAt("recurringJobs") \cup {None} : recurringJobs!SetName(n)
  \/ \E task \in {"snapshot", "system-backup"} : recurringJobs!SetTask(task)
  \/ \E labels \in BOOLEAN : recurringJobs!SetLabels(labels)

LEMMA JobFormStep ==
  ASSUME JobsInv, JobFormNext
  PROVE  JobsInv'
<1> USE DEF recurringJobs!Show
<1>1. CASE recurringJobs!openCreate
  <2>1. UNCHANGED calls /\ ui' = [[[[ui EXCEPT !.editTarget = None] EXCEPT !.form = recurringJobs!emptyForm]
                                     EXCEPT !.open = TRUE] EXCEPT !.purpose = "create"]
    BY <1>1 DEF recurringJobs!openCreate
  <2> QED
    BY <2>1, JobsKept DEF JobsInv, Form, recurringJobs!emptyForm
<1>2. ASSUME NEW n \in NamesAt("recurringJobs"), recurringJobs!openEdit(n)
      PROVE  JobsInv'
  <2>1. UNCHANGED calls /\ ui' = [[[[ui EXCEPT !.editTarget = n] EXCEPT !.form = recurringJobs!formFromJob(n)]
                                     EXCEPT !.open = TRUE] EXCEPT !.purpose = "edit"]
    BY <1>2 DEF recurringJobs!openEdit
  <2> QED
    BY <2>1, JobsKept, NoneIsNothing DEF JobsInv, Form, recurringJobs!formFromJob
<1>3. CASE recurringJobs!CloseForm
  <2>1. PICK target : ui' = [[ui EXCEPT !.open = FALSE] EXCEPT !.editTarget = target] /\ UNCHANGED calls
    BY <1>3 DEF recurringJobs!CloseForm
  <2> QED
    BY <2>1, JobsKept DEF JobsInv, Form
<1>4. ASSUME NEW f, ui' = [ui EXCEPT !.form = f], UNCHANGED calls, "name" \in DOMAIN f,
             ui.editTarget # None => f.name = ui.form.name
      PROVE  JobsInv'
  BY <1>4, JobsKept DEF JobsInv, Form
<1>5. ASSUME NEW n, recurringJobs!SetName(n)
      PROVE  JobsInv'
  <2> DEFINE f == [ui.form EXCEPT !.name = n]
  <2>1. ui' = [ui EXCEPT !.form = f] /\ UNCHANGED calls /\ ui.editTarget = None
    BY <1>5 DEF recurringJobs!SetName
  <2>2. "name" \in DOMAIN f
    BY DEF JobsInv, Form
  <2> QED
    BY <2>1, <2>2, <1>4
<1>6. ASSUME NEW task, recurringJobs!SetTask(task)
      PROVE  JobsInv'
  <2> DEFINE f == [ui.form EXCEPT !.task = task]
  <2>1. ui' = [ui EXCEPT !.form = f] /\ UNCHANGED calls
    BY <1>6 DEF recurringJobs!SetTask
  <2>2. "name" \in DOMAIN f /\ f.name = ui.form.name
    BY DEF JobsInv, Form
  <2> QED
    BY <2>1, <2>2, <1>4
<1>7. ASSUME NEW labels, recurringJobs!SetLabels(labels)
      PROVE  JobsInv'
  <2> DEFINE f == [ui.form EXCEPT !.labels = labels]
  <2>1. ui' = [ui EXCEPT !.form = f] /\ UNCHANGED calls
    BY <1>7 DEF recurringJobs!SetLabels
  <2>2. "name" \in DOMAIN f /\ f.name = ui.form.name
    BY DEF JobsInv, Form
  <2> QED
    BY <2>1, <2>2, <1>4
<1> QED
  BY <1>1, <1>2, <1>3, <1>5, <1>6, <1>7 DEF JobFormNext

\* The dialogs of a deletion leave the form as it is.
JobDeletionNext ==
  \/ \E n \in NamesAt("recurringJobs") : recurringJobs!OpenDelete(n)
  \/ recurringJobs!DismissDelete
  \/ \E n \in NamesAt("recurringJobs") : recurringJobs!TypeName(n)
  \/ recurringJobs!ConfirmDelete
  \/ \E c \in calls : recurringJobs!DeleteAnswered(c)
  \/ \E sel \in SUBSET NamesAt("recurringJobs") : recurringJobs!OpenBulk(sel)
  \/ recurringJobs!CloseBulk
  \/ recurringJobs!ConfirmBulk
  \/ \E c \in calls : recurringJobs!BulkEnds(c)

LEMMA JobDeletionStep ==
  ASSUME JobsInv, JobDeletionNext
  PROVE  JobsInv'
<1> USE DEF recurringJobs!Show
<1>1. ASSUME NEW u, u \in {[ui EXCEPT !.deleteTarget = None], [ui EXCEPT !.bulkOpen = FALSE]}
      PROVE  Form(u)
  BY <1>1 DEF JobsInv, Form
<1>2. CASE \E n \in NamesAt("recurringJobs") : recurringJobs!OpenDelete(n)
  BY <1>2, JobsKept DEF recurringJobs!OpenDelete, JobsInv, Form
<1>3. CASE recurringJobs!DismissDelete
  <2>1. CASE ui' = [[ui EXCEPT !.deleteTarget = None] EXCEPT !.typed = None]
    BY <1>3, <2>1, JobsKept DEF recurringJobs!DismissDelete, JobsInv, Form
  <2> QED
    BY <1>1, <1>3, <2>1, JobsKept DEF recurringJobs!DismissDelete
<1>4. CASE \E n \in NamesAt("recurringJobs") : recurringJobs!TypeName(n)
  BY <1>4, JobsKept DEF recurringJobs!TypeName, JobsInv, Form
<1>5. CASE recurringJobs!ConfirmDelete \/ recurringJobs!ConfirmBulk
  BY <1>5, JobsKept DEF recurringJobs!ConfirmDelete, recurringJobs!ConfirmBulk, recurringJobs!Send, JobsInv
<1>6. CASE \E c \in calls : recurringJobs!DeleteAnswered(c)
  BY <1>1, <1>6, JobsKept DEF recurringJobs!DeleteAnswered, recurringJobs!Answered
<1>7. ASSUME NEW sel, recurringJobs!OpenBulk(sel)
      PROVE  JobsInv'
  <2>1. ui' = [[ui EXCEPT !.bulk = sel] EXCEPT !.bulkOpen = TRUE] /\ UNCHANGED calls
    BY <1>7 DEF recurringJobs!OpenBulk
  <2> QED
    BY <2>1, JobsKept DEF JobsInv, Form
<1>8. CASE recurringJobs!CloseBulk
  BY <1>1, <1>8, JobsKept DEF recurringJobs!CloseBulk
<1>9. ASSUME NEW c, recurringJobs!BulkEnds(c)
      PROVE  JobsInv'
  <2>1. ui' = [[ui EXCEPT !.bulk = {}] EXCEPT !.bulkOpen = FALSE] /\ calls' \subseteq calls
    BY <1>9 DEF recurringJobs!BulkEnds, recurringJobs!Answered
  <2> QED
    BY <2>1, JobsKept DEF JobsInv, Form
<1> QED
  BY <1>2, <1>3, <1>4, <1>5, <1>6, <1>7, <1>8, <1>9 DEF JobDeletionNext

LEMMA JobsStep ==
  ASSUME JobsInv, recurringJobs!JobsNext
  PROVE  JobsInv'
<1>1. CASE \E jobs \in ListsAt("recurringJobs") : recurringJobs!Poll(jobs)
  BY <1>1, JobsKept DEF recurringJobs!Poll, JobsInv
<1>2. CASE recurringJobs!onSubmit
  <2> DEFINE c == [op |-> IF ui.editTarget = None THEN "create" ELSE "update", job |-> ui.editTarget,
                   body |-> recurringJobs!buildBody(ui.form), purpose |-> ui.purpose]
  <2>1. calls' = calls \cup {c} /\ UNCHANGED ui /\ ui.open
    BY <1>2 DEF recurringJobs!onSubmit, recurringJobs!Send
  <2>2. (c.op = "update") = (c.purpose = "edit") /\ (c.op = "update" => c.body.name = c.job)
    BY <2>1 DEF JobsInv, Form, recurringJobs!buildBody
  <2> QED
    BY <2>1, <2>2 DEF JobsInv, recurringJobs!SavesItsJob
<1>3. ASSUME NEW c \in calls, recurringJobs!SubmitAnswered(c)
      PROVE  JobsInv'
  <2>1. CASE ui' = [[[ui EXCEPT !.open = FALSE] EXCEPT !.editTarget = None] EXCEPT !.form = recurringJobs!emptyForm]
    BY <1>3, <2>1, JobsKept
       DEF recurringJobs!SubmitAnswered, recurringJobs!Answered, recurringJobs!emptyForm, JobsInv, Form
  <2> QED
    BY <1>3, <2>1, JobsKept DEF recurringJobs!SubmitAnswered, recurringJobs!Answered, JobsInv
<1>4. ASSUME NEW c \in calls, recurringJobs!BulkItem(c)
      PROVE  JobsInv'
  <2>1. PICK n \in c.left : calls' = (calls \ {c}) \cup {[c EXCEPT !.left = c.left \ {n}]}
    BY <1>4 DEF recurringJobs!BulkItem
  <2>2. [c EXCEPT !.left = c.left \ {n}].op = "bulk"
    BY <1>4 DEF recurringJobs!BulkItem
  <2> QED
    BY <1>4, <2>1, <2>2, JobsKept DEF recurringJobs!BulkItem, JobsInv
<1> QED
  BY <1>1, <1>2, <1>3, <1>4, JobFormStep, JobDeletionStep DEF recurringJobs!JobsNext, JobFormNext,
     JobDeletionNext

LEMMA SavesOwnJobInductive ==
  /\ (recurringJobs!JobsInit => JobsInv)
  /\ (JobsInv /\ [recurringJobs!JobsNext]_(recurringJobs!jobsVars) => JobsInv')
  /\ (JobsInv => recurringJobs!SavesItsJob)
<1>1. recurringJobs!JobsInit => JobsInv
  BY DEF recurringJobs!JobsInit, recurringJobs!emptyForm, JobsInv, Form, recurringJobs!SavesItsJob
<1>2. JobsInv /\ [recurringJobs!JobsNext]_(recurringJobs!jobsVars) => JobsInv'
  BY JobsStep, JobsKept DEF recurringJobs!jobsVars, JobsInv
<1>3. JobsInv => recurringJobs!SavesItsJob
  BY DEF JobsInv
<1> QED
  BY <1>1, <1>2, <1>3

\* Whatever was left in the form by Cancel, by an earlier answer or by the form
\* of another job: creating changes no job that exists, and editing changes the
\* job whose form it is and keeps its name.
THEOREM SavesOwnJob == recurringJobs!JobsSpec => []recurringJobs!SavesItsJob
BY SavesOwnJobInductive, PTL DEF recurringJobs!JobsSpec
-----------------------------------------------------------------------------
(* SettingsPage: while the dialog is open only its own save waits            *)

DangerInv ==
  /\ {"dangerTarget", "dangerValue"} \subseteq DOMAIN ui
  /\ settings!AnswerIsItsOwn

LEMMA DangerStep ==
  ASSUME DangerInv, settings!SettingsNext
  PROVE  DangerInv'
<1> USE DEF DangerInv, settings!AnswerIsItsOwn
<1>1. CASE \E list \in ListsAt("settings") : settings!Poll(list)
  BY <1>1 DEF settings!Poll
<1>2. CASE \E n \in NamesAt("settings"), e \in settings!Engines \cup {None}, v \in Values : settings!EnterDraft(n, e, v)
  <2>1. ui.dangerTarget = None /\ \E drafts : ui' = [ui EXCEPT !.drafts = drafts]
    BY <1>2 DEF settings!EnterDraft
  <2> QED
    BY <2>1
<1>3. ASSUME NEW n, settings!save(n)
      PROVE  DangerInv'
  <2>1. CASE settings!Ask(n)
    <3>1. ui' = [[ui EXCEPT !.dangerTarget = n] EXCEPT !.dangerValue = settings!NewValue(n)]
          /\ calls = {} /\ UNCHANGED calls
      BY <1>3, <2>1 DEF settings!save, settings!Ask, settings!isPending
    <3> QED
      BY <3>1
  <2>2. CASE settings!Apply(n, settings!NewValue(n))
    BY <1>3, <2>2 DEF settings!save, settings!Apply
  <2> QED
    BY <1>3, <2>1, <2>2 DEF settings!save
<1>4. CASE settings!DismissDanger
  <2>1. CASE ui' = [[[ui EXCEPT !.dangerTarget = None] EXCEPT !.dangerValue = None] EXCEPT !.typed = None]
    BY <2>1
  <2>2. CASE ui' = [[ui EXCEPT !.dangerTarget = None] EXCEPT !.dangerValue = None]
    BY <2>2
  <2> QED
    BY <1>4, <2>1, <2>2 DEF settings!DismissDanger
<1>5. CASE \E n \in NamesAt("settings") : settings!TypeName(n)
  BY <1>5 DEF settings!TypeName
<1>6. CASE settings!ConfirmDanger
  <2>1. calls = {} /\ UNCHANGED ui
    BY <1>6 DEF settings!ConfirmDanger, settings!Apply, settings!isPending
  <2>2. calls' = calls \cup {[setting |-> ui.dangerTarget, value |-> ui.dangerValue,
                              engines |-> settings!engineMapOf(ui.dangerTarget), before |-> query.settings]}
    BY <1>6 DEF settings!ConfirmDanger, settings!Apply
  <2> QED
    BY <2>1, <2>2
<1>7. ASSUME NEW c \in calls, settings!SaveAnswered(c)
      PROVE  DangerInv'
  <2>1. CASE \E drafts : ui' = [[[ui EXCEPT !.dangerTarget = None] EXCEPT !.dangerValue = None]
                                   EXCEPT !.drafts = drafts]
    BY <2>1
  <2> QED
    BY <1>7, <2>1 DEF settings!SaveAnswered
<1> QED
  BY <1>1, <1>2, <1>3, <1>4, <1>5, <1>6, <1>7 DEF settings!SettingsNext

LEMMA OwnAnswerInductive ==
  /\ (settings!SettingsInit => DangerInv)
  /\ (DangerInv /\ [settings!SettingsNext]_(settings!settingsVars) => DangerInv')
  /\ (DangerInv => settings!AnswerIsItsOwn)
<1>1. settings!SettingsInit => DangerInv
  BY DEF settings!SettingsInit, DangerInv, settings!AnswerIsItsOwn
<1>2. DangerInv /\ [settings!SettingsNext]_(settings!settingsVars) => DangerInv'
  BY DangerStep DEF settings!settingsVars, DangerInv, settings!AnswerIsItsOwn
<1>3. DangerInv => settings!AnswerIsItsOwn
  BY DEF DangerInv
<1> QED
  BY <1>1, <1>2, <1>3

\* A dangerous setting is asked for while no save waits, and the dialog covers
\* the page, so the answer that closes the dialog is to what it asked for.
THEOREM OwnAnswer == settings!SettingsSpec => []settings!AnswerIsItsOwn
BY OwnAnswerInductive, PTL DEF settings!SettingsSpec

-----------------------------------------------------------------------------
(* NodesPage: the editor's rows are the disks that were there, and new ones  *)

\* Disks that are there have names: none is blank.
Real(disks) == disks \cap {"", " "} = {}

RealNodes(list) == DOMAIN list = NamesAt("nodes") /\ \A n \in NamesAt("nodes") : "disks" \in DOMAIN list[n] /\ Real(list[n].disks)

LEMMA ListedAreReal == \A list \in ListsAt("nodes") : RealNodes(list)
BY DisksHaveNames DEF RealNodes, Real

\* A row for each disk that was there, which keeps its name unless its identifier
\* was given to a new row too; only such rows can be marked.
EditorRow(handed, d) ==
  /\ {"id", "name", "isNew", "removed"} \subseteq DOMAIN d
  /\ d.isNew \in BOOLEAN /\ d.removed \in BOOLEAN
  /\ d.isNew => d.id \in handed /\ ~d.removed
  /\ ~d.isNew => d.name = d.id \/ d.id \in handed

EditorRows(handed, opened, drafts) ==
  /\ Real(opened)
  /\ \A d \in drafts : EditorRow(handed, d) /\ (~d.isNew => d.id \in opened)
  /\ \A k \in opened : \E d \in drafts : ~d.isNew /\ d.id = k
  /\ \A d, e \in drafts : ~d.isNew /\ ~e.isNew /\ d.id = e.id => d = e

NodesInv ==
  /\ "nodes" \in DOMAIN query /\ RealNodes(query.nodes)
  /\ {"dialog", "added"} \subseteq DOMAIN ui
  /\ {"diskNode", "opened", "drafts"} \subseteq DOMAIN ui.dialog
  /\ EditorRows(ui.added, ui.dialog.opened, ui.dialog.drafts)
  /\ \A c \in calls : "op" \in DOMAIN c
  /\ nodes!RemovalExact

\* What is sent from the editor leaves out the disks that were marked, but for
\* those that were renamed together with a new row.
LEMMA SentExact ==
  ASSUME NEW handed, NEW opened, NEW drafts, EditorRows(handed, opened, drafts)
  PROVE  /\ (opened \ nodes!Disks(drafts)) \ nodes!Renamed(drafts)
              = (nodes!Marked(drafts) \ nodes!Added(drafts)) \ nodes!Renamed(drafts)
         /\ nodes!Renamed(drafts) \subseteq opened \cap handed
<1> DEFINE added == nodes!Added(drafts)
           renamed == nodes!Renamed(drafts)
<1>1. ASSUME NEW k \in opened
      PROVE  k # "" /\ k # " "
  BY <1>1 DEF EditorRows, Real
<1>2. ASSUME NEW k \in opened, k \notin nodes!Disks(drafts), k \notin renamed
      PROVE  k \in nodes!Marked(drafts) /\ k \notin added
  <2>1. PICK d \in drafts : ~d.isNew /\ d.id = k
    BY DEF EditorRows
  <2>2. d.name = k
    BY <1>2, <2>1 DEF nodes!Renamed
  <2>3. nodes!Key(d) = k
    BY <1>1, <2>2 DEF nodes!Key
  <2>4. d.removed
    BY <1>1, <1>2, <2>3 DEF nodes!Disks
  <2>5. k \notin added
    BY <1>1, <1>2 DEF nodes!Added, nodes!Disks
  <2> QED
    BY <2>1, <2>4, <2>5 DEF nodes!Marked
<1>3. ASSUME NEW k \in nodes!Marked(drafts), k \notin added, k \notin renamed
      PROVE  k \in opened /\ k \notin nodes!Disks(drafts)
  <2>1. PICK d \in drafts : d.removed /\ d.id = k
    BY <1>3 DEF nodes!Marked
  <2>2. ~d.isNew /\ k \in opened
    BY <2>1 DEF EditorRows, EditorRow
  <2>3. ASSUME NEW e \in drafts, ~e.removed, nodes!Key(e) = k
        PROVE  FALSE
    <3>1. ~e.isNew /\ e.name = e.id
      BY <1>3, <2>3 DEF nodes!Added, EditorRows, EditorRow
    <3>2. e.id = k
      BY <2>3, <3>1 DEF nodes!Key
    <3> QED
      BY <2>1, <2>2, <2>3, <3>1, <3>2 DEF EditorRows
  <2> QED
    BY <2>2, <2>3 DEF nodes!Disks
<1>4. renamed \subseteq opened \cap handed
  BY DEF nodes!Renamed, EditorRows, EditorRow
<1> QED
  BY <1>2, <1>3, <1>4

\* A step that leaves lists and editor as they are, and saves no disks.
LEMMA NodesKept ==
  ASSUME NodesInv, "nodes" \in DOMAIN query', RealNodes(query'.nodes),
         {"dialog", "added"} \subseteq DOMAIN ui',
         {"diskNode", "opened", "drafts"} \subseteq DOMAIN ui'.dialog,
         EditorRows(ui'.added, ui'.dialog.opened, ui'.dialog.drafts),
         \A c \in calls' : c \in calls \/ ("op" \in DOMAIN c /\ c.op # "disks")
  PROVE  NodesInv'
BY DEF NodesInv, nodes!RemovalExact

\* Scheduling changes no disks.
LEMMA PatchKeeps ==
  ASSUME NodesInv, NEW n, NEW allow, nodes!Patch(n, allow)
  PROVE  "nodes" \in DOMAIN query' /\ RealNodes(query'.nodes)
<1> DEFINE row == [query.nodes[n] EXCEPT !.allowScheduling = allow]
           list == [query.nodes EXCEPT ![n] = row]
<1>1. query' = [query EXCEPT !.nodes = list]
  BY DEF nodes!Patch
<1>2. "nodes" \in DOMAIN query' /\ query'.nodes = list
  BY <1>1 DEF NodesInv
<1>3. DOMAIN list = NamesAt("nodes")
  BY DEF NodesInv, RealNodes
<1>4. ASSUME NEW m \in NamesAt("nodes")
      PROVE  "disks" \in DOMAIN list[m] /\ list[m].disks = query.nodes[m].disks
  <2>1. CASE m = n
    <3>1. "disks" \in DOMAIN row /\ row.disks = query.nodes[n].disks
      BY <2>1 DEF NodesInv, RealNodes
    <3>2. list[m] = row
      BY <2>1 DEF NodesInv, RealNodes
    <3> QED
      BY <2>1, <3>1, <3>2
  <2>2. CASE m # n
    BY <2>2 DEF NodesInv, RealNodes
  <2> QED
    BY <2>1, <2>2
<1> QED
  BY <1>2, <1>3, <1>4 DEF NodesInv, RealNodes
\* The dialogs of the table: they open on an editor without rows.
LEMMA TableStep ==
  ASSUME NodesInv,
         \/ \E n \in NamesAt("nodes") : nodes!OpenTags(n)
         \/ nodes!CloseTags
         \/ nodes!saveTags
         \/ \E c \in calls : nodes!TagsAnswered(c)
         \/ \E n \in NamesAt("nodes") : nodes!OpenDelete(n)
         \/ nodes!DismissDelete
         \/ \E n \in NamesAt("nodes") : nodes!TypeName(n)
         \/ nodes!ConfirmDelete
         \/ \E c \in calls : nodes!DeleteAnswered(c)
  PROVE  NodesInv'
<1> USE DEF nodes!Show, nodes!dialog
<1>1. EditorRows(ui.added, {}, {})
  BY DEF EditorRows, Real
<1>2. ASSUME NEW next, {"diskNode", "opened", "drafts"} \subseteq DOMAIN next,
             EditorRows(ui.added, next.opened, next.drafts), ui' = [ui EXCEPT !.dialog = next],
             UNCHANGED query, calls' \subseteq calls
      PROVE  NodesInv'
  BY <1>2, NodesKept DEF NodesInv
<1>3. CASE \E n \in NamesAt("nodes") : nodes!OpenTags(n)
  BY <1>1, <1>2, <1>3 DEF nodes!OpenTags, nodes!Closed
<1>4. CASE nodes!CloseTags
  <2> DEFINE next == [ui.dialog EXCEPT !.tagNode = None]
  <2>1. {"diskNode", "opened", "drafts"} \subseteq DOMAIN next /\ EditorRows(ui.added, next.opened, next.drafts)
    BY DEF NodesInv
  <2> QED
    BY <1>2, <1>4, <2>1 DEF nodes!CloseTags
<1>5. CASE nodes!saveTags \/ nodes!ConfirmDelete
  BY <1>5, NodesKept DEF nodes!saveTags, nodes!ConfirmDelete, nodes!Send, nodes!Wait, NodesInv
<1>6. ASSUME NEW c \in calls, nodes!TagsAnswered(c)
      PROVE  NodesInv'
  <2> DEFINE next == [ui.dialog EXCEPT !.tagNode = None]
  <2>1. {"diskNode", "opened", "drafts"} \subseteq DOMAIN next /\ EditorRows(ui.added, next.opened, next.drafts)
    BY DEF NodesInv
  <2>2. CASE ui' = [ui EXCEPT !.dialog = next]
    BY <1>2, <1>6, <2>1, <2>2 DEF nodes!TagsAnswered
  <2>3. CASE UNCHANGED ui
    BY <1>6, <2>3, NodesKept DEF nodes!TagsAnswered, NodesInv
  <2> QED
    BY <1>6, <2>2, <2>3 DEF nodes!TagsAnswered
<1>7. CASE \E n \in NamesAt("nodes") : nodes!OpenDelete(n)
  BY <1>1, <1>2, <1>7 DEF nodes!OpenDelete, nodes!Closed
<1>8. CASE nodes!DismissDelete
  <2>1. PICK typed : ui' = [[ui EXCEPT !.dialog = nodes!Closed] EXCEPT !.typed = typed]
                     /\ UNCHANGED <<query, calls>>
    BY <1>8 DEF nodes!DismissDelete
  <2>2. {"dialog", "added"} \subseteq DOMAIN ui' /\ ui'.dialog = nodes!Closed /\ ui'.added = ui.added
    BY <2>1 DEF NodesInv
  <2> QED
    BY <1>1, <2>1, <2>2, NodesKept DEF nodes!Closed, NodesInv
<1>9. CASE \E n \in NamesAt("nodes") : nodes!TypeName(n)
  BY <1>9, NodesKept DEF nodes!TypeName, NodesInv
<1>10. ASSUME NEW c \in calls, nodes!DeleteAnswered(c)
       PROVE  NodesInv'
  <2> DEFINE next == [ui.dialog EXCEPT !.deleteNode = None]
  <2>1. {"diskNode", "opened", "drafts"} \subseteq DOMAIN next /\ EditorRows(ui.added, next.opened, next.drafts)
    BY DEF NodesInv
  <2> QED
    BY <1>2, <1>10, <2>1 DEF nodes!DeleteAnswered
<1> QED
  BY <1>3, <1>4, <1>5, <1>6, <1>7, <1>8, <1>9, <1>10

\* Requests about scheduling, one after the other.
LEMMA SchedulingStep ==
  ASSUME NodesInv,
         \/ \E n \in NamesAt("nodes") : nodes!toggleScheduling(n)
         \/ \E sel \in SUBSET NamesAt("nodes"), allow \in BOOLEAN : nodes!bulkSchedule(sel, allow)
         \/ \E c \in calls : nodes!BulkNext(c)
         \/ \E c \in calls : nodes!BulkAnswered(c)
         \/ \E c \in calls : nodes!ScheduleAnswered(c)
  PROVE  NodesInv'
<1>1. ASSUME NEW n, nodes!toggleScheduling(n)
      PROVE  NodesInv'
  <2>1. UNCHANGED ui /\ nodes!Patch(n, ~nodes!Node(n).allowScheduling)
    BY <1>1 DEF nodes!toggleScheduling
  <2>2. \A c \in calls' : c \in calls \/ ("op" \in DOMAIN c /\ c.op = "schedule")
    BY <1>1 DEF nodes!toggleScheduling, nodes!Wait
  <2> QED
    BY <2>1, <2>2, PatchKeeps, NodesKept DEF NodesInv
<1>2. ASSUME NEW sel, NEW allow, nodes!bulkSchedule(sel, allow)
      PROVE  NodesInv'
  <2>1. UNCHANGED <<query, ui>> /\ \A c \in calls' : c \in calls \/ ("op" \in DOMAIN c /\ c.op = "bulk")
    BY <1>2, SMTT(40) DEF nodes!bulkSchedule, nodes!Send, nodes!Wait
  <2> QED
    BY <2>1, NodesKept DEF NodesInv
<1>3. ASSUME NEW c \in calls, nodes!BulkNext(c)
      PROVE  NodesInv'
  <2>1. CASE UNCHANGED <<query, ui>> /\ calls' = calls \ {c}
    BY <2>1, NodesKept DEF NodesInv
  <2>2. ASSUME NEW n \in c.left, nodes!Patch(n, c.allow),
               calls' = (calls \ {c}) \cup {[c EXCEPT !.left = @ \ {n}, !.waiting = n]}
        PROVE  NodesInv'
    <3> DEFINE next == [[c EXCEPT !.left = c.left \ {n}] EXCEPT !.waiting = n]
    <3>1. calls' = (calls \ {c}) \cup {next} /\ c.op = "bulk" /\ UNCHANGED ui
      BY <1>3, <2>2 DEF nodes!BulkNext
    <3>2. "op" \in DOMAIN next /\ next.op = "bulk"
      BY <3>1 DEF NodesInv
    <3> QED
      BY <2>2, <3>1, <3>2, PatchKeeps, NodesKept DEF NodesInv
  <2> QED
    BY <1>3, <2>1, <2>2 DEF nodes!BulkNext
<1>4. ASSUME NEW c \in calls, nodes!BulkAnswered(c)
      PROVE  NodesInv'
  <2> DEFINE next == [c EXCEPT !.waiting = None]
  <2>1. "op" \in DOMAIN next /\ next.op = "bulk"
    BY <1>4 DEF nodes!BulkAnswered, NodesInv
  <2> QED
    BY <1>4, <2>1, NodesKept DEF nodes!BulkAnswered, NodesInv
<1>5. ASSUME NEW c \in calls, nodes!ScheduleAnswered(c)
      PROVE  NodesInv'
  BY <1>5, NodesKept DEF nodes!ScheduleAnswered, NodesInv
<1> QED
  BY <1>1, <1>2, <1>3, <1>4, <1>5

\* The editor: rows come and go by their identifiers.
LEMMA EditorStep ==
  ASSUME NodesInv,
         \/ \E n \in NamesAt("nodes") : nodes!openDiskEditor(n)
         \/ nodes!CloseDisks
         \/ nodes!addDraft
         \/ \E d \in nodes!dialog.drafts : nodes!removeDraft(d)
         \/ \E d \in nodes!dialog.drafts : nodes!restoreDraft(d)
         \/ \E d \in nodes!dialog.drafts, name \in NewNames : nodes!RenameDraft(d, name)
         \/ \E c \in calls : nodes!DisksAnswered(c)
  PROVE  NodesInv'
<1> USE DEF nodes!Show, nodes!dialog
<1> DEFINE opened == ui.dialog.opened
           drafts == ui.dialog.drafts
<1>1. EditorRows(ui.added, {}, {})
  BY DEF EditorRows, Real
<1>2. ASSUME NEW next, {"diskNode", "opened", "drafts"} \subseteq DOMAIN next,
             EditorRows(ui.added, next.opened, next.drafts), ui' = [ui EXCEPT !.dialog = next],
             UNCHANGED query, calls' \subseteq calls
      PROVE  NodesInv'
  BY <1>2, NodesKept DEF NodesInv
<1>3. ASSUME NEW rows, EditorRows(ui.added, opened, rows), ui' = [ui EXCEPT !.dialog = [ui.dialog EXCEPT !.drafts = rows]],
             UNCHANGED <<query, calls>>
      PROVE  NodesInv'
  <2> DEFINE next == [ui.dialog EXCEPT !.drafts = rows]
  <2>1. {"diskNode", "opened", "drafts"} \subseteq DOMAIN next /\ next.opened = opened /\ next.drafts = rows
    BY DEF NodesInv
  <2> QED
    BY <1>2, <1>3, <2>1
<1>4. ASSUME NEW id, NEW patched, nodes!updateDraft(id, patched),
             \A e \in patched : /\ EditorRow(ui.added, e) /\ e.id = id
                                /\ \E d \in nodes!Rows(id) : d.isNew = e.isNew,
             \A d \in nodes!Rows(id) : ~d.isNew => \E e \in patched : ~e.isNew,
             \A d, e \in patched : ~d.isNew /\ ~e.isNew => d = e
      PROVE  NodesInv'
  <2> DEFINE rows == (drafts \ nodes!Rows(id)) \cup patched
  <2>1. EditorRows(ui.added, opened, rows)
    <3>1. \A r \in rows : EditorRow(ui.added, r) /\ (~r.isNew => r.id \in opened)
      BY <1>4 DEF NodesInv, EditorRows, nodes!Rows
    <3>2. \A k \in opened : \E r \in rows : ~r.isNew /\ r.id = k
      BY <1>4 DEF NodesInv, EditorRows, nodes!Rows
    <3>3. \A r, q \in rows : ~r.isNew /\ ~q.isNew /\ r.id = q.id => r = q
      BY <1>4, SMTT(40) DEF NodesInv, EditorRows, nodes!Rows
    <3> QED
      BY <3>1, <3>2, <3>3 DEF NodesInv, EditorRows
  <2> QED
    BY <1>3, <1>4, <2>1 DEF nodes!updateDraft
<1>5. ASSUME NEW n \in NamesAt("nodes"), nodes!openDiskEditor(n)
      PROVE  NodesInv'
  <2> DEFINE disks == query.nodes[n].disks
             rows == {nodes!Existing(k) : k \in disks}
  <2>1. EditorRows(ui.added, disks, rows)
    <3>1. \A k \in disks : EditorRow(ui.added, nodes!Existing(k)) /\ nodes!Existing(k).id = k /\ ~nodes!Existing(k).isNew
      BY DEF EditorRow, nodes!Existing
    <3>2. Real(disks)
      BY SMTT(40) DEF NodesInv, RealNodes
    <3> QED
      BY <3>1, <3>2 DEF EditorRows
  <2> DEFINE next == [[[nodes!Closed EXCEPT !.diskNode = n] EXCEPT !.opened = disks] EXCEPT !.drafts = rows]
  <2>2. ui' = [ui EXCEPT !.dialog = next] /\ UNCHANGED <<query, calls>>
    BY <1>5 DEF nodes!openDiskEditor, nodes!draftsFromNode, nodes!Node
  <2>3. {"diskNode", "opened", "drafts"} \subseteq DOMAIN next /\ next.opened = disks /\ next.drafts = rows
    <3> HIDE DEF disks, rows
    <3> QED
      BY DEF nodes!Closed
  <2> QED
    BY <1>2, <2>1, <2>2, <2>3
<1>6. CASE nodes!CloseDisks
  BY <1>1, <1>2, <1>6 DEF nodes!CloseDisks, nodes!Closed
<1>7. CASE nodes!addDraft
  <2>1. PICK id \in NewIds :
          /\ ui' = [ui EXCEPT !.added = @ \cup {id},
                      !.dialog.drafts = @ \cup {[id |-> id, name |-> "", isNew |-> TRUE, removed |-> FALSE]}]
          /\ UNCHANGED <<query, calls>>
    BY <1>7 DEF nodes!addDraft
  <2> DEFINE row == [id |-> id, name |-> "", isNew |-> TRUE, removed |-> FALSE]
             next == [ui.dialog EXCEPT !.drafts = drafts \cup {row}]
  <2>2. ui' = [[ui EXCEPT !.added = ui.added \cup {id}] EXCEPT !.dialog = next]
    BY <2>1
  <2>3. {"dialog", "added"} \subseteq DOMAIN ui' /\ ui'.dialog = next /\ ui'.added = ui.added \cup {id}
    BY <2>2 DEF NodesInv
  <2>4. {"diskNode", "opened", "drafts"} \subseteq DOMAIN next /\ next.opened = opened
        /\ next.drafts = drafts \cup {row}
    BY DEF NodesInv
  <2>5. EditorRow(ui.added \cup {id}, row) /\ row.isNew
    BY DEF EditorRow
  <2>6. \A d \in drafts : EditorRow(ui.added \cup {id}, d)
    BY DEF NodesInv, EditorRows, EditorRow
  <2>7. EditorRows(ui.added \cup {id}, opened, drafts \cup {row})
    BY <2>5, <2>6 DEF EditorRows, NodesInv
  <2> QED
    BY <2>1, <2>3, <2>4, <2>7, NodesKept DEF NodesInv
<1>8. ASSUME NEW d \in drafts, nodes!removeDraft(d)
      PROVE  NodesInv'
  <2> DEFINE old == {r \in nodes!Rows(d.id) : ~r.isNew}
             Next(e) == [e EXCEPT !.removed = TRUE]
             patched == {Next(e) : e \in old}
  <2>1. \A e \in old : EditorRow(ui.added, Next(e)) /\ Next(e).id = d.id /\ ~Next(e).isNew
    BY DEF NodesInv, EditorRows, EditorRow, nodes!Rows
  <2>2. \A e, f \in old : e = f
    BY DEF NodesInv, EditorRows, EditorRow, nodes!Rows
  <2>3. nodes!updateDraft(d.id, patched)
    BY <1>8 DEF nodes!removeDraft
  <2>4. old \subseteq nodes!Rows(d.id) /\ \A e \in old : ~e.isNew
    OBVIOUS
  <2>5. \A r \in nodes!Rows(d.id) : ~r.isNew => r \in old
    OBVIOUS
  <2> HIDE DEF old, Next
  <2>6. \A e \in patched : /\ EditorRow(ui.added, e) /\ e.id = d.id
                           /\ \E r \in nodes!Rows(d.id) : r.isNew = e.isNew
    <3> SUFFICES ASSUME NEW r \in old
                 PROVE  /\ EditorRow(ui.added, Next(r)) /\ Next(r).id = d.id
                        /\ r \in nodes!Rows(d.id) /\ r.isNew = Next(r).isNew
      OBVIOUS
    <3>1. EditorRow(ui.added, Next(r)) /\ Next(r).id = d.id /\ ~Next(r).isNew
      BY <2>1
    <3>2. EditorRow(ui.added, r) /\ ~r.isNew /\ r \in nodes!Rows(d.id)
      BY <2>4 DEF NodesInv, EditorRows, nodes!Rows
    <3> QED
      BY <3>1, <3>2 DEF EditorRow
  <2>7. \A r \in nodes!Rows(d.id) : ~r.isNew => \E e \in patched : ~e.isNew
    BY <2>1, <2>5
  <2>8. \A e, f \in patched : e = f
    BY <2>2
  <2> HIDE DEF patched
  <2> QED
    BY <1>4, <2>3, <2>6, <2>7, <2>8
<1>9. ASSUME NEW d \in drafts, nodes!restoreDraft(d)
      PROVE  NodesInv'
  <2> DEFINE Next(e) == [e EXCEPT !.removed = FALSE]
  <2>1. \A e \in nodes!Rows(d.id) : /\ EditorRow(ui.added, Next(e)) /\ Next(e).id = d.id
                                    /\ Next(e).isNew = e.isNew
    BY DEF NodesInv, EditorRows, EditorRow, nodes!Rows
  <2>2. \A e, f \in nodes!Rows(d.id) : ~e.isNew /\ ~f.isNew => e = f
    BY DEF NodesInv, EditorRows, EditorRow, nodes!Rows
  <2>3. nodes!updateDraft(d.id, {Next(e) : e \in nodes!Rows(d.id)})
    BY <1>9 DEF nodes!restoreDraft
  <2> HIDE DEF Next
  <2> QED
    BY <1>4, <2>1, <2>2, <2>3
<1>10. ASSUME NEW d \in drafts, NEW name, nodes!RenameDraft(d, name)
       PROVE  NodesInv'
  <2> DEFINE Next(e) == [e EXCEPT !.name = name]
  <2>1. d.id \in ui.added
    BY <1>10 DEF NodesInv, EditorRows, EditorRow, nodes!RenameDraft
  <2>2. \A e \in nodes!Rows(d.id) : /\ EditorRow(ui.added, Next(e)) /\ Next(e).id = d.id
                                    /\ Next(e).isNew = e.isNew
    BY <2>1 DEF NodesInv, EditorRows, EditorRow, nodes!Rows
  <2>3. \A e, f \in nodes!Rows(d.id) : ~e.isNew /\ ~f.isNew => e = f
    BY DEF NodesInv, EditorRows, EditorRow, nodes!Rows
  <2>4. nodes!updateDraft(d.id, {Next(e) : e \in nodes!Rows(d.id)})
    BY <1>10 DEF nodes!RenameDraft
  <2> HIDE DEF Next
  <2> QED
    BY <1>4, <2>2, <2>3, <2>4
<1>11. ASSUME NEW c \in calls, nodes!DisksAnswered(c)
       PROVE  NodesInv'
  <2> DEFINE next == [[[ui.dialog EXCEPT !.diskNode = None] EXCEPT !.opened = {}] EXCEPT !.drafts = {}]
  <2>1. {"diskNode", "opened", "drafts"} \subseteq DOMAIN next /\ next.opened = {} /\ next.drafts = {}
    BY DEF NodesInv
  <2>2. CASE ui' = [ui EXCEPT !.dialog = next]
    BY <1>1, <1>2, <1>11, <2>1, <2>2 DEF nodes!DisksAnswered
  <2>3. CASE UNCHANGED ui
    BY <1>11, <2>3, NodesKept DEF nodes!DisksAnswered, NodesInv
  <2>4. ui' = [ui EXCEPT !.dialog.diskNode = None, !.dialog.opened = {}, !.dialog.drafts = {}] \/ UNCHANGED ui
    BY <1>11 DEF nodes!DisksAnswered
  <2>5. [ui EXCEPT !.dialog.diskNode = None, !.dialog.opened = {}, !.dialog.drafts = {}]
          = [ui EXCEPT !.dialog = next]
    BY DEF NodesInv
  <2> QED
    BY <2>2, <2>3, <2>4, <2>5
<1> QED
  BY <1>5, <1>6, <1>7, <1>8, <1>9, <1>10, <1>11

LEMMA DisksRemovedInductive ==
  /\ (nodes!NodesInit => NodesInv)
  /\ (NodesInv /\ [nodes!NodesNext]_(nodes!nodesVars) => NodesInv')
  /\ (NodesInv => nodes!RemovalExact)
<1>1. nodes!NodesInit => NodesInv
  <2> SUFFICES ASSUME nodes!NodesInit
               PROVE  NodesInv
    OBVIOUS
  <2>1. "nodes" \in DOMAIN query /\ query.nodes \in ListsAt("nodes") /\ calls = {}
    BY DEF nodes!NodesInit
  <2>2. {"dialog", "added"} \subseteq DOMAIN ui /\ ui.dialog = nodes!Closed /\ ui.added = {}
    <3>1. PICK v \in VisitsAt("nodes") : ui = [dialog |-> nodes!Closed, typed |-> "", added |-> {}, visit |-> v]
      BY DEF nodes!NodesInit
    <3> QED
      BY <3>1
  <2>3. EditorRows({}, {}, {})
    BY DEF EditorRows, Real
  <2> QED
    BY <2>1, <2>2, <2>3, ListedAreReal DEF nodes!Closed, NodesInv, nodes!RemovalExact
<1>2. NodesInv /\ [nodes!NodesNext]_(nodes!nodesVars) => NodesInv'
  <2> SUFFICES ASSUME NodesInv, [nodes!NodesNext]_(nodes!nodesVars)
               PROVE  NodesInv'
    OBVIOUS
  <2>1. ASSUME NEW list \in ListsAt("nodes"), nodes!Poll(list)
        PROVE  NodesInv'
    <3>1. query' = [[query EXCEPT !.nodes = list] EXCEPT !.lists = query.lists + 1] /\ UNCHANGED <<ui, calls>>
      BY <2>1 DEF nodes!Poll
    <3>2. "nodes" \in DOMAIN query' /\ query'.nodes = list
      BY <3>1 DEF NodesInv
    <3> QED
      BY <3>1, <3>2, NodesKept, ListedAreReal DEF NodesInv
  <2>2. CASE nodes!saveDisks
    <3> DEFINE drafts == ui.dialog.drafts
               c == [op |-> "disks", node |-> ui.dialog.diskNode, disks |-> nodes!Disks(drafts),
                     marked |-> nodes!Marked(drafts), opened |-> ui.dialog.opened,
                     renamed |-> nodes!Renamed(drafts), added |-> nodes!Added(drafts),
                     handed |-> ui.added]
    <3>1. calls' = calls \cup {c} /\ UNCHANGED <<query, ui>>
      BY <2>2 DEF nodes!saveDisks, nodes!dialog, nodes!Send, nodes!Wait
    <3>2. /\ (c.opened \ c.disks) \ c.renamed = (c.marked \ c.added) \ c.renamed
          /\ c.renamed \subseteq c.opened \cap c.handed
      BY SentExact DEF NodesInv
    <3>3. "op" \in DOMAIN c
      OBVIOUS
    <3> QED
      BY <3>1, <3>2, <3>3 DEF NodesInv, nodes!RemovalExact
  <2>3. CASE UNCHANGED nodes!nodesVars
    BY <2>3, NodesKept DEF nodes!nodesVars, NodesInv
  <2> QED
    BY <2>1, <2>2, <2>3, TableStep, SchedulingStep, EditorStep DEF nodes!NodesNext
<1>3. NodesInv => nodes!RemovalExact
  BY DEF NodesInv
<1> QED
  BY <1>1, <1>2, <1>3

\* However the rows of the editor were added, marked, restored and renamed, and
\* whatever lists came meanwhile: saving leaves out the disks that were marked,
\* unless one of that name was added, and no other that was in the editor but
\* for those renamed with a new row that has their identifier.
THEOREM DisksRemoved == nodes!NodesSpec => []nodes!RemovalExact
BY DisksRemovedInductive, PTL DEF nodes!NodesSpec
-----------------------------------------------------------------------------
(* BackupTargetsPage: the last step of the wizard is reached with every field *)

WizardFields == {"step", "backend", "filled", "error", "named"}

Wizard(w) ==
  /\ WizardFields \subseteq DOMAIN w
  /\ w.step \in 1 .. 3
  /\ w.step = 3 => w.backend \in w.filled

\* A target that is asked for, or will be when its credential is there.
WholeTarget(c) ==
  /\ "op" \in DOMAIN c
  /\ c.op \in {"credential", "target"} =>
       {"created", "spec"} \subseteq DOMAIN c /\ c.spec.whole
  /\ c.op = "target" => c.created = backupTargets!Secret(c.spec.backend)

TargetsInv ==
  /\ "wizard" \in DOMAIN ui /\ Wizard(ui.wizard)
  /\ \A c \in calls : WholeTarget(c)

LEMMA TargetsKept ==
  ASSUME TargetsInv, "wizard" \in DOMAIN ui', ui'.wizard = ui.wizard,
         \A c \in calls' : c \in calls \/ WholeTarget(c)
  PROVE  TargetsInv'
BY DEF TargetsInv

LEMMA WizardKept ==
  ASSUME TargetsInv, NEW w, Wizard(w), ui' = [ui EXCEPT !.wizard = w], calls' \subseteq calls
  PROVE  TargetsInv'
BY DEF TargetsInv

\* Deleting a row is a request of another kind.
LEMMA TargetRemoved ==
  ASSUME TargetsInv, NEW others, others \subseteq calls, NEW c, NEW n,
         "op" \in DOMAIN c, c.op \in {"delete", "bulkDelete"}, backupTargets!Remove(others, c, n)
  PROVE  TargetsInv'
<1> DEFINE next == [[[c EXCEPT !.now = n] EXCEPT !.left = c.left \ {n}] EXCEPT !.before = query.rows]
<1>1. "op" \in DOMAIN next /\ next.op = c.op
  OBVIOUS
<1>2. WholeTarget(next)
  BY <1>1 DEF WholeTarget
<1>3. calls' = others \cup {next} /\ UNCHANGED ui
  BY DEF backupTargets!Remove
<1> HIDE DEF next
<1> QED
  BY <1>2, <1>3, TargetsKept DEF TargetsInv

LEMMA TargetsDeleted ==
  ASSUME TargetsInv, NEW op \in {"delete", "bulkDelete"}, NEW targets, backupTargets!DeleteEach(op, targets)
  PROVE  TargetsInv'
<1> DEFINE c(n) == [op |-> op, now |-> n, left |-> targets, before |-> query.rows]
<1>1. PICK n \in targets : backupTargets!Remove(calls, c(n), n)
  BY DEF backupTargets!DeleteEach
<1>2. "op" \in DOMAIN c(n) /\ c(n).op = op
  OBVIOUS
<1> QED
  BY <1>1, <1>2, TargetRemoved

LEMMA TargetsListStep ==
  ASSUME TargetsInv, backupTargets!ListNext
  PROVE  TargetsInv'
<1> USE DEF backupTargets!Show
<1>1. CASE \E rows \in ListsAt("backupTargets") : backupTargets!Poll(rows)
  BY <1>1, TargetsKept DEF backupTargets!Poll, TargetsInv
<1>2. CASE backupTargets!DismissDelete
  <2>1. CASE ui' = [[ui EXCEPT !.deleteTarget = None] EXCEPT !.typed = None]
    BY <1>2, <2>1, TargetsKept DEF backupTargets!DismissDelete, TargetsInv
  <2> QED
    BY <1>2, <2>1, TargetsKept DEF backupTargets!DismissDelete, TargetsInv
<1>3. CASE backupTargets!DismissBulkDelete
  BY <1>3, TargetsKept DEF backupTargets!DismissBulkDelete, TargetsInv
<1>4. CASE \E n \in NamesAt("backupTargets") : backupTargets!TypeName(n)
  BY <1>4, TargetsKept DEF backupTargets!TypeName, TargetsInv
<1>5. ASSUME NEW c \in calls, backupTargets!DeleteEnds(c)
      PROVE  TargetsInv'
  BY <1>5, TargetsKept DEF backupTargets!DeleteEnds, TargetsInv
<1>6. ASSUME NEW c \in calls, backupTargets!BulkItem(c)
      PROVE  TargetsInv'
  <2> DEFINE next == [c EXCEPT !.now = None]
  <2>1. "op" \in DOMAIN next /\ next.op = "bulkDelete"
    BY <1>6 DEF backupTargets!BulkItem, TargetsInv, WholeTarget
  <2>2. WholeTarget(next)
    BY <2>1 DEF WholeTarget
  <2>3. calls' = (calls \ {c}) \cup {next} /\ UNCHANGED ui
    BY <1>6 DEF backupTargets!BulkItem
  <2> HIDE DEF next
  <2> QED
    BY <2>2, <2>3, TargetsKept DEF TargetsInv
<1>7. ASSUME NEW c \in calls, backupTargets!BulkNext(c)
      PROVE  TargetsInv'
  <2>1. PICK n \in c.left : backupTargets!Remove(calls \ {c}, c, n)
    BY <1>7 DEF backupTargets!BulkNext
  <2>2. "op" \in DOMAIN c /\ c.op = "bulkDelete"
    BY <1>7 DEF backupTargets!BulkNext, TargetsInv, WholeTarget
  <2> QED
    BY <2>1, <2>2, TargetRemoved
<1> QED
  BY <1>1, <1>2, <1>3, <1>4, <1>5, <1>6, <1>7 DEF backupTargets!ListNext

\* The table and the dialog that creates a target without the wizard.
TargetTableNext ==
  \/ backupTargets!OpenCreate
  \/ backupTargets!CloseCreate
  \/ backupTargets!onCreate
  \/ \E c \in calls : backupTargets!CreateAnswered(c)
  \/ \E n \in NamesAt("backupTargets") : backupTargets!syncTarget(n)
  \/ \E c \in calls : backupTargets!SyncAnswered(c)
  \/ \E n \in NamesAt("backupTargets") : backupTargets!OpenDelete(n)
  \/ backupTargets!ConfirmDelete
  \/ \E n \in NamesAt("backupTargets") : backupTargets!Tick(n)
  \/ backupTargets!OpenBulkDelete
  \/ backupTargets!ConfirmBulkDelete
  \/ \E c \in calls : backupTargets!BulkDeleteEnds(c)
  \/ backupTargets!OpenWizard

LEMMA TargetTableStep ==
  ASSUME TargetsInv, TargetTableNext
  PROVE  TargetsInv'
<1> USE DEF backupTargets!Show
<1>1. CASE backupTargets!OpenCreate
  BY <1>1, TargetsKept DEF backupTargets!OpenCreate, TargetsInv
<1>2. CASE backupTargets!CloseCreate
  BY <1>2, TargetsKept DEF backupTargets!CloseCreate, TargetsInv
<1>3. CASE backupTargets!onCreate
  <2>1. UNCHANGED ui /\ calls' = calls \cup {[op |-> "create"]}
    BY <1>3 DEF backupTargets!onCreate, backupTargets!Send
  <2> QED
    BY <2>1, TargetsKept DEF TargetsInv, WholeTarget
<1>4. CASE \E c \in calls : backupTargets!CreateAnswered(c)
  BY <1>4, TargetsKept DEF backupTargets!CreateAnswered, backupTargets!Answered, TargetsInv
<1>5. ASSUME NEW n, backupTargets!syncTarget(n)
      PROVE  TargetsInv'
  <2>1. UNCHANGED ui /\ calls' = calls \cup {[op |-> "sync", by |-> query.rows[n]]}
    BY <1>5 DEF backupTargets!syncTarget, backupTargets!Send
  <2> QED
    BY <2>1, TargetsKept DEF TargetsInv, WholeTarget
<1>6. CASE \E c \in calls : backupTargets!SyncAnswered(c)
  BY <1>6, TargetsKept DEF backupTargets!SyncAnswered, backupTargets!Answered, TargetsInv
<1>7. CASE \E n \in NamesAt("backupTargets") : backupTargets!OpenDelete(n)
  BY <1>7, TargetsKept DEF backupTargets!OpenDelete, TargetsInv
<1>8. CASE backupTargets!ConfirmDelete
  BY <1>8, TargetsDeleted DEF backupTargets!ConfirmDelete
<1>9. ASSUME NEW n, backupTargets!Tick(n)
      PROVE  TargetsInv'
  <2>1. (\E sel : ui' = [ui EXCEPT !.selected = sel]) /\ UNCHANGED calls
    BY <1>9 DEF backupTargets!Tick
  <2> QED
    BY <2>1, TargetsKept DEF TargetsInv
<1>10. CASE backupTargets!OpenBulkDelete
  BY <1>10, TargetsKept DEF backupTargets!OpenBulkDelete, TargetsInv
<1>11. ASSUME ui' = backupTargets!BulkDeleted, calls' \subseteq calls
       PROVE  TargetsInv'
  <2>1. ui' = [[ui EXCEPT !.selected = {}] EXCEPT !.bulkDeleteOpen = FALSE]
    BY <1>11 DEF backupTargets!BulkDeleted
  <2> QED
    BY <1>11, <2>1, TargetsKept DEF TargetsInv
<1>12. CASE backupTargets!ConfirmBulkDelete
  BY <1>11, <1>12, TargetsDeleted DEF backupTargets!ConfirmBulkDelete
<1>13. CASE \E c \in calls : backupTargets!BulkDeleteEnds(c)
  BY <1>11, <1>13 DEF backupTargets!BulkDeleteEnds, backupTargets!BulkEnds
<1>14. CASE backupTargets!OpenWizard
  BY <1>14, TargetsKept DEF backupTargets!OpenWizard, TargetsInv
<1> QED
  BY <1>1, <1>2, <1>3, <1>4, <1>5, <1>6, <1>7, <1>8, <1>9, <1>10, <1>12, <1>13, <1>14 DEF TargetTableNext

\* What is entered on a step stays valid until that step is left.
LEMMA WizardStep ==
  ASSUME TargetsInv,
         \/ backupTargets!CloseWizard
         \/ \E backend \in backupTargets!Backends : backupTargets!ChooseBackend(backend)
         \/ \E filled \in BOOLEAN : backupTargets!FillStep2(filled)
         \/ \E named \in BOOLEAN : backupTargets!EnterTargetName(named)
         \/ backupTargets!Back
         \/ backupTargets!Next
  PROVE  TargetsInv'
<1> USE DEF backupTargets!Show, WizardFields
<1> DEFINE w == ui.wizard
<1>1. "wizard" \in DOMAIN ui /\ Wizard(w)
  BY DEF TargetsInv
<1>2. CASE backupTargets!CloseWizard
  <2>1. ui' = [[ui EXCEPT !.wizardOpen = FALSE] EXCEPT !.wizard = backupTargets!Fresh] /\ UNCHANGED calls
    BY <1>2 DEF backupTargets!CloseWizard
  <2>2. "wizard" \in DOMAIN ui' /\ ui'.wizard = backupTargets!Fresh
    BY <1>1, <2>1
  <2>3. Wizard(backupTargets!Fresh)
    BY DEF Wizard, backupTargets!Fresh
  <2> QED
    BY <2>1, <2>2, <2>3 DEF TargetsInv
<1>3. ASSUME NEW backend, backupTargets!ChooseBackend(backend)
      PROVE  TargetsInv'
  <2> DEFINE next == [w EXCEPT !.backend = backend]
  <2>1. Wizard(next)
    BY <1>1, <1>3 DEF Wizard, backupTargets!ChooseBackend
  <2> QED
    BY <1>3, <2>1, WizardKept DEF backupTargets!ChooseBackend
<1>4. ASSUME NEW filled, backupTargets!FillStep2(filled)
      PROVE  TargetsInv'
  <2>1. PICK sel : ui' = [ui EXCEPT !.wizard = [w EXCEPT !.filled = sel]] /\ w.step = 2 /\ UNCHANGED calls
    BY <1>4 DEF backupTargets!FillStep2
  <2>2. Wizard([w EXCEPT !.filled = sel])
    BY <1>1, <2>1 DEF Wizard
  <2> QED
    BY <2>1, <2>2, WizardKept
<1>5. ASSUME NEW named, backupTargets!EnterTargetName(named)
      PROVE  TargetsInv'
  <2> DEFINE next == [w EXCEPT !.named = named]
  <2>1. Wizard(next)
    BY <1>1 DEF Wizard
  <2> QED
    BY <1>5, <2>1, WizardKept DEF backupTargets!EnterTargetName
<1>6. CASE backupTargets!Back
  <2> DEFINE next == [w EXCEPT !.step = w.step - 1]
  <2>1. Wizard(next)
    BY <1>1, <1>6 DEF Wizard, backupTargets!Back
  <2> QED
    BY <1>6, <2>1, WizardKept DEF backupTargets!Back
<1>7. CASE backupTargets!Next
  <2> DEFINE next == [w EXCEPT !.step = w.step + 1]
  <2>1. Wizard(next)
    BY <1>1, <1>7 DEF Wizard, backupTargets!Next, backupTargets!step2Valid
  <2> QED
    BY <1>7, <2>1, WizardKept DEF backupTargets!Next
<1> QED
  BY <1>2, <1>3, <1>4, <1>5, <1>6, <1>7

\* Finishing: the credential, then the target.
LEMMA FinishStep ==
  ASSUME TargetsInv,
         \/ backupTargets!finish
         \/ \E c \in calls : backupTargets!CredentialAnswered(c)
         \/ \E c \in calls : backupTargets!TargetAnswered(c)
  PROVE  TargetsInv'
<1> USE DEF WizardFields
<1> DEFINE w == ui.wizard
<1>1. "wizard" \in DOMAIN ui /\ Wizard(w)
  BY DEF TargetsInv
<1>2. ASSUME NEW error
      PROVE  Wizard([w EXCEPT !.error = error])
  BY <1>1 DEF Wizard
<1>3. CASE backupTargets!finish
  <2> DEFINE c == [op |-> IF backupTargets!Secret(w.backend) = None THEN "target" ELSE "credential",
                   created |-> None, spec |-> backupTargets!buildTarget]
  <2>1. calls' = calls \cup {c} /\ w.step = 3
    BY <1>3 DEF backupTargets!finish
  <2>2. ui' = [ui EXCEPT !.wizard = [w EXCEPT !.error = FALSE]]
    BY <1>3 DEF backupTargets!finish
  <2>3. WholeTarget(c)
    BY <1>1, <2>1 DEF Wizard, WholeTarget, backupTargets!buildTarget, backupTargets!step2Valid
  <2>4. "wizard" \in DOMAIN ui' /\ Wizard(ui'.wizard)
    BY <1>1, <1>2, <2>2
  <2> QED
    BY <2>1, <2>3, <2>4 DEF TargetsInv
<1>4. ASSUME NEW c \in calls, backupTargets!CredentialAnswered(c)
      PROVE  TargetsInv'
  <2> DEFINE next == [[c EXCEPT !.op = "target"] EXCEPT !.created = backupTargets!Secret(c.spec.backend)]
  <2>1. WholeTarget(c) /\ c.op = "credential"
    BY <1>4 DEF TargetsInv, backupTargets!CredentialAnswered
  <2>2. WholeTarget(next)
    BY <2>1 DEF WholeTarget
  <2>3. CASE calls' = (calls \ {c}) \cup {next} /\ UNCHANGED ui
    BY <2>2, <2>3, TargetsKept DEF TargetsInv
  <2>4. CASE ui' = [ui EXCEPT !.wizard = [w EXCEPT !.error = TRUE]] /\ calls' \subseteq calls
    BY <1>2, <2>4, WizardKept
  <2> QED
    BY <1>4, <2>3, <2>4 DEF backupTargets!CredentialAnswered, backupTargets!Answered
<1>5. ASSUME NEW c \in calls, backupTargets!TargetAnswered(c)
      PROVE  TargetsInv'
  <2>1. CASE ui' = [[ui EXCEPT !.wizardOpen = FALSE] EXCEPT !.wizard = backupTargets!Fresh]
             /\ calls' \subseteq calls
    <3>1. "wizard" \in DOMAIN ui' /\ ui'.wizard = backupTargets!Fresh
      BY <1>1, <2>1
    <3>2. Wizard(backupTargets!Fresh)
      BY DEF Wizard, backupTargets!Fresh
    <3> QED
      BY <2>1, <3>1, <3>2 DEF TargetsInv
  <2>2. CASE ui' = [ui EXCEPT !.wizard = [w EXCEPT !.error = TRUE]] /\ calls' \subseteq calls
    BY <1>2, <2>2, WizardKept
  <2> QED
    BY <1>5, <2>1, <2>2 DEF backupTargets!TargetAnswered, backupTargets!Answered
<1> QED
  BY <1>3, <1>4, <1>5

LEMMA WholeTargetsInductive ==
  /\ (backupTargets!BackupTargetsInit => TargetsInv)
  /\ (TargetsInv /\ [backupTargets!BackupTargetsNext]_(backupTargets!listVars) => TargetsInv')
  /\ (TargetsInv => backupTargets!TargetsAreWhole)
<1>1. backupTargets!BackupTargetsInit => TargetsInv
  <2> SUFFICES ASSUME backupTargets!BackupTargetsInit
               PROVE  TargetsInv
    OBVIOUS
  <2>1. "wizard" \in DOMAIN ui /\ ui.wizard = backupTargets!Fresh /\ calls = {}
    BY DEF backupTargets!BackupTargetsInit
  <2> QED
    BY <2>1 DEF backupTargets!Fresh, TargetsInv, Wizard, WizardFields
<1>2. TargetsInv /\ [backupTargets!BackupTargetsNext]_(backupTargets!listVars) => TargetsInv'
  <2>1. TargetsInv /\ backupTargets!BackupTargetsNext => TargetsInv'
    BY TargetsListStep, TargetTableStep, WizardStep, FinishStep
       DEF backupTargets!BackupTargetsNext, TargetTableNext
  <2> QED
    BY <2>1, TargetsKept DEF backupTargets!listVars, TargetsInv
<1>3. TargetsInv => backupTargets!TargetsAreWhole
  BY DEF TargetsInv, WholeTarget, backupTargets!TargetsAreWhole
<1> QED
  BY <1>1, <1>2, <1>3

\* However the steps of the wizard are walked, and closed and opened while it
\* finishes: a target is asked for with the fields of its backend, and after
\* the credential it names.
THEOREM WholeTargets == backupTargets!BackupTargetsSpec => []backupTargets!TargetsAreWhole
BY WholeTargetsInductive, PTL DEF backupTargets!BackupTargetsSpec
-----------------------------------------------------------------------------
(* BackupsPage: a dialog with another volume's backup is not to be confirmed *)

\* The backups that are listed are those of the volume whose name they bear.
Dialog(u) ==
  /\ {"restoreTarget", "restoreOverride", "backupList", "backupListFor"} \subseteq DOMAIN u
  /\ u.backupList = u.backupListFor

\* The choice made for another volume stays in the dialog only while a restore
\* of several volumes, the newest request, shows it.
Chosen(u, waiting) ==
  u.restoreTarget # None /\ u.restoreOverride \notin {None, u.restoreTarget}
    => \E c \in waiting : c.op = "bulkRestore" /\ c.newest

OwnBackup(c) ==
  /\ "op" \in DOMAIN c
  /\ c.op = "bulkRestore" => "newest" \in DOMAIN c
  /\ c.op = "restore" => {"target", "from", "newest"} \subseteq DOMAIN c /\ c.from \in {c.target, None}

BackupsOwnInv ==
  /\ Dialog(ui) /\ Chosen(ui, calls)
  /\ \A c \in calls : OwnBackup(c)

\* A step that chooses nothing and ends no restore of several volumes.
LEMMA BackupsKept ==
  ASSUME BackupsOwnInv, Dialog(ui'),
         ui'.restoreTarget \in {ui.restoreTarget, None}, ui'.restoreOverride = ui.restoreOverride,
         \A c \in calls : c \in calls' \/ c.op # "bulkRestore",
         \A c \in calls' : c \in calls \/ OwnBackup(c)
  PROVE  BackupsOwnInv'
BY DEF BackupsOwnInv, Chosen

\* A request is the newest, and the others are what they were.
LEMMA Created ==
  ASSUME NEW others, \A c \in others : OwnBackup(c), NEW c, OwnBackup(c), backups!Create(others, c)
  PROVE  c \in calls' /\ \A d \in calls' : OwnBackup(d)
<1>1. c \in calls'
  BY DEF backups!Create
<1>2. ASSUME NEW d \in others, d.op \in {"restore", "bulkRestore"}
      PROVE  OwnBackup([d EXCEPT !.newest = FALSE])
  <2> DEFINE e == [d EXCEPT !.newest = FALSE]
  <2>1. DOMAIN e = DOMAIN d /\ \A k \in DOMAIN d : k # "newest" => e[k] = d[k]
    OBVIOUS
  <2>2. OwnBackup(d)
    BY <1>2
  <2>3. e.op = d.op
    BY <2>1, <2>2 DEF OwnBackup
  <2>4. d.op = "restore" => e.from = d.from /\ e.target = d.target
    BY <2>1, <2>2 DEF OwnBackup
  <2> HIDE DEF e
  <2> QED
    BY <2>1, <2>2, <2>3, <2>4 DEF OwnBackup
<1>3. ASSUME NEW d \in calls', d # c
      PROVE  OwnBackup(d)
  BY <1>2, <1>3 DEF backups!Create
<1> QED
  BY <1>1, <1>3

\* The dialog for a volume.
LEMMA TitledFor ==
  ASSUME BackupsOwnInv, NEW n
  PROVE  /\ Dialog(backups!Titled(n))
         /\ backups!Titled(n).restoreTarget = n /\ backups!Titled(n).restoreOverride = ui.restoreOverride
<1>1. backups!Titled(n) = [[[ui EXCEPT !.restoreTarget = n] EXCEPT !.last = backups!Has(n, "last")]
                             EXCEPT !.named = TRUE]
  BY DEF backups!Titled
<1> QED
  BY <1>1 DEF BackupsOwnInv, Dialog

\* Listing, synchronising and the entries of a list.
BackupListsNext ==
  \/ \E volumes_ \in ListsAt("backups") : backups!Poll(volumes_)
  \/ \E n \in NamesAt("backups") : backups!listBackups(n)
  \/ \E c \in calls : backups!ListAnswered(c)
  \/ backups!deleteBackupEntry
  \/ \E c \in calls : backups!EntryDeleted(c)
  \/ \E n \in NamesAt("backups") : backups!syncOne(n)
  \/ backups!syncAll
  \/ \E c \in calls : backups!SyncAnswered(c)

LEMMA BackupListsStep ==
  ASSUME BackupsOwnInv, BackupListsNext
  PROVE  BackupsOwnInv'
<1>0. Dialog(ui) /\ Chosen(ui, calls) /\ \A c \in calls : OwnBackup(c)
  BY DEF BackupsOwnInv
<1>1. CASE \E volumes_ \in ListsAt("backups") : backups!Poll(volumes_)
  BY <1>0, <1>1, BackupsKept DEF backups!Poll
<1>2. ASSUME NEW c, "op" \in DOMAIN c, c.op \notin {"restore", "bulkRestore"},
             calls' = calls \cup {c}, UNCHANGED ui
      PROVE  BackupsOwnInv'
  BY <1>0, <1>2, BackupsKept DEF OwnBackup
<1>3. ASSUME NEW n, backups!listBackups(n)
      PROVE  BackupsOwnInv'
  <2>1. calls' = calls \cup {[op |-> "list", vol |-> n]} /\ UNCHANGED ui
    BY <1>3 DEF backups!listBackups, backups!Send
  <2>2. "op" \in DOMAIN [op |-> "list", vol |-> n] /\ [op |-> "list", vol |-> n].op = "list"
    OBVIOUS
  <2> QED
    BY <1>2, <2>1, <2>2
<1>4. ASSUME NEW c \in calls, backups!ListAnswered(c)
      PROVE  BackupsOwnInv'
  <2>1. CASE ui' = [[ui EXCEPT !.backupList = c.vol] EXCEPT !.backupListFor = c.vol]
    BY <1>0, <1>4, <2>1, BackupsKept DEF backups!ListAnswered, backups!Answered, Dialog
  <2> QED
    BY <1>0, <1>4, <2>1, BackupsKept DEF backups!ListAnswered, backups!Answered, Dialog
<1>5. CASE backups!deleteBackupEntry
  <2> DEFINE c == [op |-> "deleteEntry", vol |-> ui.backupListFor,
                   again |-> backups!Has(ui.backupListFor, "backupList")]
  <2>1. calls' = calls \cup {c} /\ UNCHANGED ui
    BY <1>5 DEF backups!deleteBackupEntry, backups!Send
  <2>2. "op" \in DOMAIN c /\ c.op = "deleteEntry"
    OBVIOUS
  <2> QED
    BY <1>2, <2>1, <2>2
<1>6. ASSUME NEW c \in calls, backups!EntryDeleted(c)
      PROVE  BackupsOwnInv'
  <2>1. UNCHANGED ui /\ c.op = "deleteEntry"
        /\ \/ calls' = calls \ {c}
           \/ calls' = (calls \ {c}) \cup {[op |-> "list", vol |-> c.vol]}
    BY <1>6 DEF backups!EntryDeleted
  <2>2. OwnBackup([op |-> "list", vol |-> c.vol])
    BY DEF OwnBackup
  <2> QED
    BY <1>0, <2>1, <2>2, BackupsKept
<1>7. ASSUME NEW n, backups!syncOne(n)
      PROVE  BackupsOwnInv'
  <2>1. calls' = calls \cup {[op |-> "sync", left |-> {n}]} /\ UNCHANGED ui
    BY <1>7 DEF backups!syncOne, backups!Send
  <2>2. "op" \in DOMAIN [op |-> "sync", left |-> {n}] /\ [op |-> "sync", left |-> {n}].op = "sync"
    OBVIOUS
  <2> QED
    BY <1>2, <2>1, <2>2
<1>8. CASE backups!syncAll
  <2>1. PICK left : calls' = calls \cup {[op |-> "syncAll", left |-> left]} /\ UNCHANGED ui
    BY <1>8 DEF backups!syncAll, backups!Send
  <2>2. "op" \in DOMAIN [op |-> "syncAll", left |-> left] /\ [op |-> "syncAll", left |-> left].op = "syncAll"
    OBVIOUS
  <2> QED
    BY <1>2, <2>1, <2>2
<1>9. ASSUME NEW c \in calls, backups!SyncAnswered(c)
      PROVE  BackupsOwnInv'
  <2>1. c.op \in {"sync", "syncAll"} /\ "op" \in DOMAIN c /\ UNCHANGED ui
    BY <1>0, <1>9 DEF backups!SyncAnswered, OwnBackup
  <2>2. CASE calls' = calls \ {c}
    BY <1>0, <2>1, <2>2, BackupsKept
  <2>3. CASE calls' = (calls \ {c}) \cup {[c EXCEPT !.op = "sync"]}
    <3>1. OwnBackup([c EXCEPT !.op = "sync"])
      BY <2>1 DEF OwnBackup
    <3> QED
      BY <1>0, <2>1, <2>3, <3>1, BackupsKept
  <2>4. ASSUME NEW n \in c.left, calls' = (calls \ {c}) \cup {[c EXCEPT !.left = @ \ {n}]}
        PROVE  BackupsOwnInv'
    <3>1. OwnBackup([c EXCEPT !.left = c.left \ {n}])
      BY <2>1 DEF OwnBackup
    <3> QED
      BY <1>0, <2>1, <2>4, <3>1, BackupsKept
  <2> QED
    BY <1>9, <2>2, <2>3, <2>4 DEF backups!SyncAnswered
<1> QED
  BY <1>1, <1>3, <1>4, <1>5, <1>6, <1>7, <1>8, <1>9 DEF BackupListsNext

\* The dialog of one volume, and the restore of several.
RestoreNext ==
  \/ \E n \in NamesAt("backups"), standby \in BOOLEAN : backups!OpenRestore(n, standby)
  \/ backups!OpenRestoreEntry
  \/ backups!CloseRestore
  \/ \E named \in BOOLEAN : backups!EnterName(named)
  \/ backups!restore
  \/ \E c \in calls : backups!RestoreAnswered(c)
  \/ \E sel \in SUBSET NamesAt("backups") : backups!bulkRestore(sel)
  \/ \E c \in calls : backups!BulkRestored(c)
  \/ \E c \in calls : backups!BulkRestoreEnds(c)

LEMMA RestoreStep ==
  ASSUME BackupsOwnInv, RestoreNext
  PROVE  BackupsOwnInv'
<1> USE DEF backups!Show
<1>0. Dialog(ui) /\ Chosen(ui, calls) /\ \A c \in calls : OwnBackup(c)
  BY DEF BackupsOwnInv
<1>1. ASSUME NEW n, NEW standby, backups!OpenRestore(n, standby)
      PROVE  BackupsOwnInv'
  <2>1. ui' = [[backups!Titled(n) EXCEPT !.standby = standby] EXCEPT !.restoreOverride = None] /\ UNCHANGED calls
    BY <1>1 DEF backups!OpenRestore
  <2> QED
    BY <1>0, <2>1, TitledFor DEF BackupsOwnInv, Chosen, Dialog
<1>2. CASE backups!OpenRestoreEntry
  <2>1. ui' = [[backups!Titled(ui.backupListFor) EXCEPT !.standby = FALSE] EXCEPT !.restoreOverride = ui.backupList]
        /\ UNCHANGED calls
    BY <1>2 DEF backups!OpenRestoreEntry
  <2> QED
    BY <1>0, <2>1, TitledFor DEF BackupsOwnInv, Chosen, Dialog
<1>3. CASE backups!CloseRestore
  BY <1>0, <1>3, BackupsKept DEF backups!CloseRestore, Dialog
<1>4. CASE \E named \in BOOLEAN : backups!EnterName(named)
  BY <1>0, <1>4, BackupsKept DEF backups!EnterName, Dialog
<1>5. CASE backups!restore
  <2> DEFINE c == [op |-> "restore", target |-> ui.restoreTarget, newest |-> TRUE, from |-> backups!fromBackup]
  <2>1. UNCHANGED ui /\ ui.restoreTarget # None /\ ~backups!isPending /\ backups!Create(calls, c)
    BY <1>5 DEF backups!restore
  <2>2. ui.restoreOverride \in {None, ui.restoreTarget}
    BY <1>0, <2>1 DEF Chosen, backups!isPending
  <2>3. backups!fromBackup \in {ui.restoreTarget, None}
    BY <2>2 DEF backups!fromBackup
  <2>4. OwnBackup(c)
    BY <2>3 DEF OwnBackup
  <2> HIDE DEF c
  <2>5. \A d \in calls' : OwnBackup(d)
    BY <1>0, <2>1, <2>4, Created
  <2> QED
    BY <1>0, <2>1, <2>2, <2>5 DEF BackupsOwnInv, Chosen
<1>6. ASSUME NEW c \in calls, backups!RestoreAnswered(c)
      PROVE  BackupsOwnInv'
  <2>1. c.op = "restore" /\ calls' = calls \ {c}
    BY <1>6 DEF backups!RestoreAnswered, backups!Answered
  <2>2. CASE UNCHANGED ui
    BY <1>0, <2>1, <2>2, BackupsKept
  <2>3. CASE ui' = [[[[ui EXCEPT !.restoreTarget = None] EXCEPT !.named = FALSE] EXCEPT !.standby = FALSE]
                      EXCEPT !.restoreOverride = None]
    BY <1>0, <2>1, <2>3 DEF BackupsOwnInv, Chosen, Dialog
  <2> QED
    BY <1>6, <2>2, <2>3 DEF backups!RestoreAnswered, backups!Answered
<1>7. ASSUME NEW others, others \subseteq calls, NEW c, OwnBackup(c), c.op = "bulkRestore", c.newest,
             backups!Create(others, c), Dialog(ui')
      PROVE  BackupsOwnInv'
  BY <1>0, <1>7, Created DEF BackupsOwnInv, Chosen
<1>8. ASSUME NEW sel, backups!bulkRestore(sel)
      PROVE  BackupsOwnInv'
  <2>1. PICK n \in sel :
          /\ ui' = backups!Titled(n)
          /\ backups!Create(calls, [op |-> "bulkRestore", rows |-> query.volumes, left |-> sel \ {n},
                                    newest |-> TRUE])
    BY <1>8, Zenon DEF backups!bulkRestore
  <2> DEFINE c == [op |-> "bulkRestore", rows |-> query.volumes, left |-> sel \ {n}, newest |-> TRUE]
  <2>2. OwnBackup(c) /\ c.op = "bulkRestore" /\ c.newest
    BY DEF OwnBackup
  <2> HIDE DEF c
  <2>3. backups!Create(calls, c)
    BY <2>1 DEF c
  <2> QED
    BY <1>7, <2>1, <2>2, <2>3, TitledFor
<1>9. ASSUME NEW c \in calls, backups!BulkRestored(c)
      PROVE  BackupsOwnInv'
  <2>1. PICK n \in c.left :
          /\ ui' = [ui EXCEPT !.restoreTarget = n, !.last = "last" \in c.rows[n], !.named = TRUE]
          /\ backups!Create(calls \ {c}, [c EXCEPT !.left = @ \ {n}, !.newest = TRUE])
    BY <1>9, Zenon DEF backups!BulkRestored
  <2> DEFINE next == [[c EXCEPT !.left = c.left \ {n}] EXCEPT !.newest = TRUE]
  <2>2. backups!Create(calls \ {c}, next)
    BY <2>1
  <2>3. OwnBackup(next) /\ next.op = "bulkRestore" /\ next.newest
    BY <1>0, <1>9 DEF OwnBackup, backups!BulkRestored
  <2>4. ui' = [[[ui EXCEPT !.restoreTarget = n] EXCEPT !.last = "last" \in c.rows[n]] EXCEPT !.named = TRUE]
    BY <2>1
  <2>5. Dialog(ui')
    BY <1>0, <2>4 DEF Dialog
  <2> HIDE DEF next
  <2> QED
    BY <1>7, <2>2, <2>3, <2>5
<1>10. ASSUME NEW c \in calls, backups!BulkRestoreEnds(c)
       PROVE  BackupsOwnInv'
  <2>1. ui' = [[ui EXCEPT !.selected = {}] EXCEPT !.restoreTarget = None] /\ calls' \subseteq calls
    BY <1>10 DEF backups!BulkRestoreEnds, backups!Answered
  <2> QED
    BY <1>0, <2>1 DEF BackupsOwnInv, Chosen, Dialog
<1> QED
  BY <1>1, <1>2, <1>3, <1>4, <1>5, <1>6, <1>8, <1>9, <1>10 DEF RestoreNext

\* The deletions leave the dialog of a restore as it is.
BackupDeletionNext ==
  \/ \E n \in NamesAt("backups") : backups!OpenDelete(n)
  \/ backups!DismissDelete
  \/ \E n \in NamesAt("backups") : backups!TypeName(n)
  \/ backups!ConfirmDelete
  \/ \E c \in calls : backups!DeleteAnswered(c)
  \/ \E n \in NamesAt("backups") : backups!Tick(n)
  \/ backups!OpenBulkDelete
  \/ backups!CloseBulkDelete
  \/ backups!ConfirmBulkDelete
  \/ \E c \in calls : backups!BulkItem(c)
  \/ \E c \in calls : backups!BulkDeleteEnds(c)

LEMMA BackupDeletionStep ==
  ASSUME BackupsOwnInv, BackupDeletionNext
  PROVE  BackupsOwnInv'
<1> USE DEF backups!Show, backups!Answered
<1>0. Dialog(ui) /\ \A c \in calls : OwnBackup(c)
  BY DEF BackupsOwnInv
<1>1. ASSUME Dialog(ui'), ui'.restoreTarget = ui.restoreTarget, ui'.restoreOverride = ui.restoreOverride,
             \/ UNCHANGED calls
             \/ \E c \in calls : c.op \in {"delete", "bulkDelete"} /\ calls' = calls \ {c}
      PROVE  BackupsOwnInv'
  BY <1>0, <1>1, BackupsKept
<1>2. CASE \E n \in NamesAt("backups") : backups!OpenDelete(n)
  BY <1>0, <1>1, <1>2 DEF backups!OpenDelete, Dialog
<1>3. CASE backups!DismissDelete
  <2>1. CASE ui' = [[ui EXCEPT !.deleteTarget = None] EXCEPT !.typed = None]
    BY <1>0, <1>1, <1>3, <2>1 DEF backups!DismissDelete, Dialog
  <2> QED
    BY <1>0, <1>1, <1>3, <2>1 DEF backups!DismissDelete, Dialog
<1>4. CASE \E n \in NamesAt("backups") : backups!TypeName(n)
  BY <1>0, <1>1, <1>4 DEF backups!TypeName, Dialog
<1>5. ASSUME NEW c, "op" \in DOMAIN c, c.op \in {"delete", "bulkDelete"}, calls' = calls \cup {c}, UNCHANGED ui
      PROVE  BackupsOwnInv'
  BY <1>0, <1>5, BackupsKept DEF OwnBackup
<1>6. CASE backups!ConfirmDelete
  <2>1. calls' = calls \cup {[op |-> "delete", vol |-> ui.deleteTarget]} /\ UNCHANGED ui
    BY <1>6 DEF backups!ConfirmDelete, backups!Send
  <2>2. "op" \in DOMAIN [op |-> "delete", vol |-> ui.deleteTarget] /\ [op |-> "delete", vol |-> ui.deleteTarget].op = "delete"
    OBVIOUS
  <2> QED
    BY <1>5, <2>1, <2>2
<1>7. CASE \E c \in calls : backups!DeleteAnswered(c)
  BY <1>0, <1>1, <1>7 DEF backups!DeleteAnswered, Dialog
<1>8. ASSUME NEW n, backups!Tick(n)
      PROVE  BackupsOwnInv'
  <2>1. (\E sel : ui' = [ui EXCEPT !.selected = sel]) /\ UNCHANGED calls
    BY <1>8 DEF backups!Tick
  <2> QED
    BY <1>0, <1>1, <2>1 DEF Dialog
<1>9. CASE backups!OpenBulkDelete \/ backups!CloseBulkDelete
  BY <1>0, <1>1, <1>9 DEF backups!OpenBulkDelete, backups!CloseBulkDelete, Dialog
<1>10. CASE backups!ConfirmBulkDelete
  <2>1. calls' = calls \cup {[op |-> "bulkDelete", left |-> ui.selected \cap backups!Listed]} /\ UNCHANGED ui
    BY <1>10 DEF backups!ConfirmBulkDelete, backups!Send
  <2>2. "op" \in DOMAIN [op |-> "bulkDelete", left |-> ui.selected \cap backups!Listed] /\ [op |-> "bulkDelete", left |-> ui.selected \cap backups!Listed].op = "bulkDelete"
    OBVIOUS
  <2> QED
    BY <1>5, <2>1, <2>2
<1>11. ASSUME NEW c \in calls, backups!BulkItem(c)
       PROVE  BackupsOwnInv'
  <2>1. PICK n : calls' = (calls \ {c}) \cup {[c EXCEPT !.left = c.left \ {n}]}
    BY <1>11 DEF backups!BulkItem
  <2>2. OwnBackup([c EXCEPT !.left = c.left \ {n}])
    BY <1>0, <1>11 DEF OwnBackup, backups!BulkItem
  <2> QED
    BY <1>0, <1>11, <2>1, <2>2, BackupsKept DEF backups!BulkItem
<1>12. ASSUME NEW c \in calls, backups!BulkDeleteEnds(c)
       PROVE  BackupsOwnInv'
  <2>1. ui' = [[ui EXCEPT !.selected = {}] EXCEPT !.bulkDeleteOpen = FALSE] /\ calls' = calls \ {c}
        /\ c.op = "bulkDelete"
    BY <1>12 DEF backups!BulkDeleteEnds
  <2> QED
    BY <1>0, <1>1, <2>1 DEF Dialog
<1> QED
  BY <1>2, <1>3, <1>4, <1>6, <1>7, <1>8, <1>9, <1>10, <1>11, <1>12 DEF BackupDeletionNext

LEMMA RestoresOwnInductive ==
  /\ (backups!BackupsInit => BackupsOwnInv)
  /\ (BackupsOwnInv /\ [backups!BackupsNext]_(backups!backupsVars) => BackupsOwnInv')
  /\ (BackupsOwnInv => backups!RestoresOwnBackup)
<1>1. backups!BackupsInit => BackupsOwnInv
  <2> SUFFICES ASSUME backups!BackupsInit
               PROVE  BackupsOwnInv
    OBVIOUS
  <2>1. Dialog(ui) /\ ui.restoreTarget = None /\ calls = {}
    BY DEF backups!BackupsInit, Dialog
  <2> QED
    BY <2>1 DEF BackupsOwnInv, Chosen
<1>2. BackupsOwnInv /\ [backups!BackupsNext]_(backups!backupsVars) => BackupsOwnInv'
  <2>1. BackupsOwnInv /\ backups!BackupsNext => BackupsOwnInv'
    BY BackupListsStep, RestoreStep, BackupDeletionStep
       DEF backups!BackupsNext, BackupListsNext, RestoreNext, BackupDeletionNext
  <2> QED
    BY <2>1, BackupsKept DEF backups!backupsVars, BackupsOwnInv
<1>3. BackupsOwnInv => backups!RestoresOwnBackup
  BY DEF BackupsOwnInv, OwnBackup, backups!RestoresOwnBackup
<1> QED
  BY <1>1, <1>2, <1>3

\* Whatever backup was chosen before, and however the restores of several
\* volumes overlap: no volume is restored from the backup of another.
THEOREM RestoresOwn == backups!BackupsSpec => []backups!RestoresOwnBackup
BY RestoresOwnInductive, PTL DEF backups!BackupsSpec

-----------------------------------------------------------------------------
(* BackingImagesPage: the button is disabled while an upload is under way    *)

Upload(c) == c.op \in {"announce", "stream"}

UploadsInv ==
  /\ {"uploading", "target"} \subseteq DOMAIN ui /\ "op" \in DOMAIN ui.target
  /\ \A c \in calls : "op" \in DOMAIN c
  /\ images!ButtonReleased

\* No step of another dialog disables the button, or ends an upload.
LEMMA UploadsKept ==
  ASSUME UploadsInv,
         {"uploading", "target"} \subseteq DOMAIN ui', "op" \in DOMAIN ui'.target,
         ui'.uploading = ui.uploading,
         \A c \in calls' : "op" \in DOMAIN c,
         \A c \in calls : Upload(c) => c \in calls'
  PROVE  UploadsInv'
BY DEF UploadsInv, Upload, images!ButtonReleased, images!Waits

\* What is typed, opened, ticked or closed.
LEMMA UploadsShown ==
  ASSUME UploadsInv, NEW next, images!Show(next), DOMAIN next = DOMAIN ui,
         next.uploading = ui.uploading, "op" \in DOMAIN next.target
  PROVE  UploadsInv'
BY UploadsKept DEF images!Show, UploadsInv

LEMMA UploadsSend ==
  ASSUME UploadsInv, NEW c, images!Send(c), "op" \in DOMAIN c
  PROVE  UploadsInv'
BY UploadsKept DEF images!Send, UploadsInv

LEMMA UploadsAnswered ==
  ASSUME UploadsInv, NEW c \in calls, ~Upload(c), NEW next, images!Answered(c, next),
         DOMAIN next = DOMAIN ui, next.uploading = ui.uploading, "op" \in DOMAIN next.target
  PROVE  UploadsInv'
BY UploadsKept DEF images!Answered, UploadsInv

CreateNext ==
  \/ images!OpenCreate
  \/ images!CloseCreate
  \/ images!EnterCreate
  \/ images!createOrUpload
  \/ \E c \in calls : images!Announced(c)
  \/ \E c \in calls : images!CreateAnswered(c)

LEMMA CreateStep ==
  ASSUME UploadsInv, CreateNext
  PROVE  UploadsInv'
<1>1. CASE images!OpenCreate \/ images!CloseCreate
  BY <1>1, UploadsShown DEF images!OpenCreate, images!CloseCreate, UploadsInv
<1>2. CASE images!EnterCreate
  BY <1>2, UploadsShown DEF images!EnterCreate, UploadsInv
<1>3. CASE images!createOrUpload
  <2>1. PICK k :
          LET upload == ui.sourceType = "upload" /\ ui.file
          IN  /\ calls' = calls \cup {[op |-> IF upload THEN "announce" ELSE "create", nth |-> k]}
              /\ ui' = [ui EXCEPT !.uploading = @ \/ upload]
    BY <1>3 DEF images!createOrUpload
  <2> DEFINE upload == ui.sourceType = "upload" /\ ui.file
             c == [op |-> IF upload THEN "announce" ELSE "create", nth |-> k]
  <2>2. "op" \in DOMAIN c /\ (upload => c.op = "announce")
    OBVIOUS
  <2>3. calls' = calls \cup {c} /\ ui' = [ui EXCEPT !.uploading = ui.uploading \/ upload]
    BY <2>1
  <2> HIDE DEF c, upload
  <2>4. DOMAIN ui' = DOMAIN ui /\ ui'.target = ui.target /\ ui'.uploading = (ui.uploading \/ upload)
    BY <2>3 DEF UploadsInv
  <2>5. images!ButtonReleased'
    BY <2>2, <2>3, <2>4 DEF UploadsInv, images!ButtonReleased, images!Waits
  <2> QED
    BY <2>2, <2>3, <2>4, <2>5 DEF UploadsInv
<1>4. ASSUME NEW c \in calls, images!Announced(c)
      PROVE  UploadsInv'
  <2> DEFINE d == [c EXCEPT !.op = "stream"]
  <2>1. "op" \in DOMAIN d /\ d.op = "stream"
    BY DEF UploadsInv
  <2>2. calls' = (calls \ {c}) \cup {d} /\ ui' = ui
    BY <1>4 DEF images!Announced
  <2> HIDE DEF d
  <2> QED
    BY <2>1, <2>2 DEF UploadsInv, images!ButtonReleased, images!Waits
<1>5. ASSUME NEW c \in calls, images!CreateAnswered(c)
      PROVE  UploadsInv'
  <2>1. ui' = [[ui EXCEPT !.open = FALSE] EXCEPT !.uploading = FALSE] \/ ui' = [ui EXCEPT !.uploading = FALSE]
    BY <1>5 DEF images!CreateAnswered, images!Answered
  <2>2. DOMAIN ui' = DOMAIN ui /\ ui'.target = ui.target /\ ui'.uploading = FALSE
    BY <2>1 DEF UploadsInv
  <2>3. calls' \subseteq calls
    BY <1>5 DEF images!CreateAnswered, images!Answered
  <2> QED
    BY <2>2, <2>3 DEF UploadsInv, images!ButtonReleased
<1> QED
  BY <1>1, <1>2, <1>3, <1>4, <1>5 DEF CreateNext

CopiesNext ==
  \/ \E n \in NamesAt("images") : images!OpenMinCopies(n)
  \/ \E k \in {1, 2} : images!EnterCopies(k)
  \/ images!CloseMinCopies
  \/ images!SaveMinCopies
  \/ \E c \in calls : images!CopiesAnswered(c)
  \/ \E n \in NamesAt("images") : images!OpenRestore(n)
  \/ \E engine \in images!Engines : images!EnterEngine(engine)
  \/ images!CloseRestore
  \/ images!Restore
  \/ \E c \in calls : images!RestoreAnswered(c)

LEMMA CopiesStep ==
  ASSUME UploadsInv, CopiesNext
  PROVE  UploadsInv'
<1>1. ASSUME NEW n, images!OpenMinCopies(n)
      PROVE  UploadsInv'
  <2> DEFINE next == [[ui EXCEPT !.minCopiesTarget = n] EXCEPT !.minCopies = query.images[n].copies]
  <2>1. images!Show(next)
    BY <1>1 DEF images!OpenMinCopies, images!Show
  <2>2. DOMAIN next = DOMAIN ui /\ next.uploading = ui.uploading /\ next.target = ui.target
    BY DEF UploadsInv
  <2> HIDE DEF next
  <2> QED
    BY <2>1, <2>2, UploadsShown DEF UploadsInv
<1>2. CASE \E k \in {1, 2} : images!EnterCopies(k)
  BY <1>2, UploadsShown DEF images!EnterCopies, UploadsInv
<1>3. CASE images!CloseMinCopies \/ images!CloseRestore
  BY <1>3, UploadsShown DEF images!CloseMinCopies, images!CloseRestore, UploadsInv
<1>4. CASE images!SaveMinCopies \/ images!Restore
  BY <1>4, UploadsSend DEF images!SaveMinCopies, images!Restore
<1>5. ASSUME NEW c \in calls, images!CopiesAnswered(c) \/ images!RestoreAnswered(c)
      PROVE  UploadsInv'
  <2>1. ~Upload(c)
    BY <1>5 DEF images!CopiesAnswered, images!RestoreAnswered, Upload
  <2>2. PICK next \in {ui, [ui EXCEPT !.minCopiesTarget = None], [ui EXCEPT !.restoreTarget = None]} :
          images!Answered(c, next)
    BY <1>5 DEF images!CopiesAnswered, images!RestoreAnswered
  <2>3. DOMAIN next = DOMAIN ui /\ next.uploading = ui.uploading /\ next.target = ui.target
    BY <2>2 DEF UploadsInv
  <2> QED
    BY <2>1, <2>2, <2>3, UploadsAnswered DEF UploadsInv
<1>6. ASSUME NEW n, images!OpenRestore(n)
      PROVE  UploadsInv'
  <2> DEFINE next == [[ui EXCEPT !.restoreTarget = n] EXCEPT !.restoreEngine = "v1"]
  <2>1. images!Show(next)
    BY <1>6 DEF images!OpenRestore, images!Show
  <2>2. DOMAIN next = DOMAIN ui /\ next.uploading = ui.uploading /\ next.target = ui.target
    BY DEF UploadsInv
  <2> HIDE DEF next
  <2> QED
    BY <2>1, <2>2, UploadsShown DEF UploadsInv
<1>7. CASE \E engine \in images!Engines : images!EnterEngine(engine)
  BY <1>7, UploadsShown DEF images!EnterEngine, UploadsInv
<1> QED
  BY <1>1, <1>2, <1>3, <1>4, <1>5, <1>6, <1>7 DEF CopiesNext

ConfirmNext ==
  \/ \E n \in NamesAt("images") : images!OpenBackup(n)
  \/ \E n \in NamesAt("images") : images!OpenDelete(n)
  \/ \E n \in NamesAt("images") : images!OpenDeleteBackup(n)
  \/ images!DismissConfirm
  \/ \E n \in NamesAt("images") : images!TypeName(n)
  \/ images!Confirm
  \/ \E c \in calls : images!ConfirmAnswered(c)
  \/ \E sel \in SUBSET NamesAt("images") : images!OpenBulkDelete(sel)
  \/ images!CloseBulkDelete
  \/ images!ConfirmBulkDelete
  \/ \E c \in calls : images!BulkItem(c)
  \/ \E c \in calls : images!BulkDeleteEnds(c)

LEMMA ConfirmStep ==
  ASSUME UploadsInv, ConfirmNext
  PROVE  UploadsInv'
<1>1. ASSUME NEW n, images!OpenBackup(n) \/ images!OpenDelete(n) \/ images!OpenDeleteBackup(n)
      PROVE  UploadsInv'
  <2>1. PICK op \in {"backup", "delete", "deleteBackup"} : images!Show([ui EXCEPT !.target = [op |-> op, img |-> n]])
    BY <1>1 DEF images!OpenBackup, images!OpenDelete, images!OpenDeleteBackup
  <2> DEFINE next == [ui EXCEPT !.target = [op |-> op, img |-> n]]
  <2>2. DOMAIN next = DOMAIN ui /\ next.uploading = ui.uploading /\ "op" \in DOMAIN next.target
    BY DEF UploadsInv
  <2> HIDE DEF next
  <2> QED
    BY <2>1, <2>2, UploadsShown DEF next
<1>2. CASE images!DismissConfirm
  <2> DEFINE closed == [ui EXCEPT !.target = images!NoTarget]
  <2>1. DOMAIN closed = DOMAIN ui /\ closed.uploading = ui.uploading /\ closed.target = images!NoTarget
    BY DEF UploadsInv
  <2>2. "op" \in DOMAIN images!NoTarget
    BY DEF images!NoTarget
  <2>3. images!Show(closed) \/ images!Show([closed EXCEPT !.typed = None])
    BY <1>2 DEF images!DismissConfirm, images!Show
  <2> HIDE DEF closed
  <2> QED
    BY <2>1, <2>2, <2>3, UploadsShown DEF UploadsInv
<1>3. CASE \E n \in NamesAt("images") : images!TypeName(n)
  BY <1>3, UploadsShown DEF images!TypeName, UploadsInv
<1>4. CASE images!Confirm
  BY <1>4, UploadsSend DEF images!Confirm, UploadsInv
<1>5. ASSUME NEW c \in calls, images!ConfirmAnswered(c)
      PROVE  UploadsInv'
  <2>1. ~Upload(c)
    BY <1>5 DEF images!ConfirmAnswered, Upload
  <2>2. PICK next \in {ui, images!Closed(c.op)} : images!Answered(c, next)
    BY <1>5 DEF images!ConfirmAnswered
  <2>3. DOMAIN next = DOMAIN ui /\ next.uploading = ui.uploading /\ "op" \in DOMAIN next.target
    BY <2>2 DEF UploadsInv, images!Closed, images!NoTarget
  <2> QED
    BY <2>1, <2>2, <2>3, UploadsAnswered
<1>6. ASSUME NEW sel, images!OpenBulkDelete(sel)
      PROVE  UploadsInv'
  <2> DEFINE next == [[ui EXCEPT !.bulkRows = sel] EXCEPT !.bulkDeleteOpen = TRUE]
  <2>1. images!Show(next)
    BY <1>6 DEF images!OpenBulkDelete, images!Show
  <2>2. DOMAIN next = DOMAIN ui /\ next.uploading = ui.uploading /\ next.target = ui.target
    BY DEF UploadsInv
  <2> HIDE DEF next
  <2> QED
    BY <2>1, <2>2, UploadsShown DEF UploadsInv
<1>7. CASE images!CloseBulkDelete
  BY <1>7, UploadsShown DEF images!CloseBulkDelete, UploadsInv
<1>8. CASE images!ConfirmBulkDelete
  BY <1>8, UploadsSend DEF images!ConfirmBulkDelete
<1>9. ASSUME NEW c \in calls, images!BulkItem(c)
      PROVE  UploadsInv'
  <2>1. PICK n \in c.left : calls' = (calls \ {c}) \cup {[c EXCEPT !.left = c.left \ {n}]}
    BY <1>9 DEF images!BulkItem
  <2> DEFINE d == [c EXCEPT !.left = c.left \ {n}]
  <2>2. "op" \in DOMAIN d /\ ~Upload(c)
    BY <1>9 DEF images!BulkItem, UploadsInv, Upload
  <2>3. calls' = (calls \ {c}) \cup {d} /\ ui' = ui
    BY <1>9, <2>1 DEF images!BulkItem
  <2> HIDE DEF d
  <2> QED
    BY <2>2, <2>3, UploadsKept DEF UploadsInv
<1>10. ASSUME NEW c \in calls, images!BulkDeleteEnds(c)
       PROVE  UploadsInv'
  <2> DEFINE next == [[ui EXCEPT !.bulkDeleteOpen = FALSE] EXCEPT !.bulkRows = {}]
  <2>1. images!Answered(c, next) /\ ~Upload(c)
    BY <1>10 DEF images!BulkDeleteEnds, images!Answered, Upload
  <2>2. DOMAIN next = DOMAIN ui /\ next.uploading = ui.uploading /\ next.target = ui.target
    BY DEF UploadsInv
  <2> HIDE DEF next
  <2> QED
    BY <2>1, <2>2, UploadsAnswered DEF UploadsInv
<1> QED
  BY <1>1, <1>2, <1>3, <1>4, <1>5, <1>6, <1>7, <1>8, <1>9, <1>10 DEF ConfirmNext

LEMMA ReleasedInductive ==
  /\ (images!ImagesInit => UploadsInv)
  /\ (UploadsInv /\ [images!ImagesNext]_(images!imagesVars) => UploadsInv')
  /\ (UploadsInv => images!ButtonReleased)
<1>1. images!ImagesInit => UploadsInv
  BY DEF images!ImagesInit, UploadsInv, images!ButtonReleased
<1>2. UploadsInv /\ [images!ImagesNext]_(images!imagesVars) => UploadsInv'
  <2> SUFFICES ASSUME UploadsInv, [images!ImagesNext]_(images!imagesVars)
               PROVE  UploadsInv'
    OBVIOUS
  <2>1. ASSUME NEW rows, NEW stored, images!Poll(rows, stored)
        PROVE  UploadsInv'
    BY <2>1, UploadsKept DEF images!Poll, UploadsInv
  <2>2. CASE UNCHANGED images!imagesVars
    BY <2>2, UploadsKept DEF images!imagesVars, UploadsInv
  <2> QED
    BY <2>1, <2>2, CreateStep, CopiesStep, ConfirmStep
       DEF images!ImagesNext, CreateNext, CopiesNext, ConfirmNext
<1>3. UploadsInv => images!ButtonReleased
  BY DEF UploadsInv
<1> QED
  BY <1>1, <1>2, <1>3

\* The button that creates an image is not disabled when no upload is under way
\* any more, whichever of its two requests failed and whatever else was asked
\* for meanwhile.
THEOREM Released == images!ImagesSpec => []images!ButtonReleased
BY ReleasedInductive, PTL DEF images!ImagesSpec

-----------------------------------------------------------------------------
(* SSOConfigPage: what the form waits for is under way                       *)

WaitsInv ==
  /\ {"loading", "saving"} \subseteq DOMAIN ui
  /\ \A c \in calls : "op" \in DOMAIN c /\ (c.op = "load" => "cancelled" \in DOMAIN c)
  /\ sso!PageReleased

LEMMA WaitsKept ==
  ASSUME WaitsInv,
         {"loading", "saving"} \subseteq DOMAIN ui', ui'.loading = ui.loading, ui'.saving = ui.saving,
         calls' = calls
  PROVE  WaitsInv'
BY DEF WaitsInv, sso!PageReleased, sso!Loads

LEMMA WaitsStep ==
  ASSUME WaitsInv, sso!SSONext
  PROVE  WaitsInv'
<1>1. CASE sso!ChangeLanguage
  <2>1. PICK n : calls' = (calls \ sso!Loads) \cup {[c EXCEPT !.cancelled = TRUE] : c \in sso!Loads} \cup {sso!Load(n)}
    BY <1>1 DEF sso!ChangeLanguage
  <2>2. ui' = [[ui EXCEPT !.loading = TRUE] EXCEPT !.error = FALSE]
    BY <1>1 DEF sso!ChangeLanguage
  <2>3. DOMAIN ui' = DOMAIN ui /\ ui'.saving = ui.saving
    BY <2>2 DEF WaitsInv
  <2>4. /\ {"op", "cancelled"} \subseteq DOMAIN sso!Load(n)
        /\ sso!Load(n).op = "load" /\ ~sso!Load(n).cancelled
    BY DEF sso!Load
  <2>5. ASSUME NEW c \in sso!Loads
        PROVE  LET d == [c EXCEPT !.cancelled = TRUE] IN {"op", "cancelled"} \subseteq DOMAIN d /\ d.op = "load"
    BY DEF sso!Loads, WaitsInv
  <2>6. \A c \in calls' : "op" \in DOMAIN c /\ (c.op = "load" => "cancelled" \in DOMAIN c)
    BY <2>1, <2>4, <2>5 DEF WaitsInv
  <2>7. \E c \in sso!Loads' : ~c.cancelled
    BY <2>1, <2>4 DEF sso!Loads
  <2>8. \A c \in calls : c.op = "save" => c \in calls'
    BY <2>1 DEF sso!Loads
  <2> QED
    BY <2>3, <2>6, <2>7, <2>8 DEF WaitsInv, sso!PageReleased
<1>2. ASSUME NEW c \in calls, sso!LoadAnswered(c)
      PROVE  WaitsInv'
  <2>1. c.op = "load" /\ calls' = calls \ {c}
    BY <1>2 DEF sso!LoadAnswered
  <2>2. \A d \in calls : d.op = "save" => d \in calls'
    BY <2>1
  <2>3. CASE c.cancelled
    <3>1. ui' = ui
      BY <1>2, <2>3 DEF sso!LoadAnswered
    <3> QED
      BY <2>1, <2>2, <2>3, <3>1 DEF WaitsInv, sso!PageReleased, sso!Loads
  <2>4. CASE ~c.cancelled
    <3>1. \/ \E read \in {c.read, query.stored} :
               ui' = [[[[ui EXCEPT !.form = read] EXCEPT !.clientSecret = FALSE] EXCEPT !.secretSet = query.secret]
                        EXCEPT !.loading = FALSE]
          \/ ui' = [[ui EXCEPT !.error = TRUE] EXCEPT !.loading = FALSE]
      BY <1>2, <2>4 DEF sso!LoadAnswered, sso!Loaded
    <3>2. DOMAIN ui' = DOMAIN ui /\ ui'.saving = ui.saving /\ ui'.loading = FALSE
      BY <3>1 DEF WaitsInv
    <3> QED
      BY <2>1, <2>2, <3>2 DEF WaitsInv, sso!PageReleased
  <2> QED
    BY <2>3, <2>4
<1>3. CASE sso!Enter
  BY <1>3, WaitsKept DEF sso!Enter, WaitsInv
<1>4. CASE sso!onSave
  <2> DEFINE c == [op |-> "save", form |-> ui.form, secret |-> ui.clientSecret, written |-> FALSE]
  <2>1. "op" \in DOMAIN c /\ c.op = "save"
    OBVIOUS
  <2>2. calls' = calls \cup {c} /\ ui' = [[ui EXCEPT !.saving = TRUE] EXCEPT !.error = FALSE]
    BY <1>4 DEF sso!onSave
  <2> HIDE DEF c
  <2>3. DOMAIN ui' = DOMAIN ui /\ ui'.loading = ui.loading
    BY <2>2 DEF WaitsInv
  <2> QED
    BY <2>1, <2>2, <2>3 DEF WaitsInv, sso!PageReleased, sso!Loads
<1>5. ASSUME NEW c \in calls, sso!Write(c)
      PROVE  WaitsInv'
  <2> DEFINE d == [c EXCEPT !.written = TRUE]
  <2>1. "op" \in DOMAIN d /\ d.op = "save"
    BY <1>5 DEF sso!Write, WaitsInv
  <2>2. c.op = "save" /\ calls' = (calls \ {c}) \cup {d} /\ ui' = ui
    BY <1>5 DEF sso!Write
  <2> HIDE DEF d
  <2>3. sso!Loads \subseteq sso!Loads'
    BY <2>2 DEF sso!Loads
  <2> QED
    BY <2>1, <2>2, <2>3 DEF WaitsInv, sso!PageReleased
<1>6. ASSUME NEW c \in calls, sso!SaveAnswered(c)
      PROVE  WaitsInv'
  <2>1. c.op = "save" /\ calls' = calls \ {c}
    BY <1>6 DEF sso!SaveAnswered
  <2>2. \/ ui' = [[[[ui EXCEPT !.form = c.form] EXCEPT !.clientSecret = FALSE] EXCEPT !.secretSet = query.secret]
                    EXCEPT !.saving = FALSE]
        \/ ui' = [[ui EXCEPT !.error = TRUE] EXCEPT !.saving = FALSE]
    BY <1>6 DEF sso!SaveAnswered
  <2>3. DOMAIN ui' = DOMAIN ui /\ ui'.loading = ui.loading /\ ui'.saving = FALSE
    BY <2>2 DEF WaitsInv
  <2>4. sso!Loads \subseteq sso!Loads'
    BY <2>1 DEF sso!Loads
  <2> QED
    BY <2>1, <2>3, <2>4 DEF WaitsInv, sso!PageReleased
<1> QED
  BY <1>1, <1>2, <1>3, <1>4, <1>5, <1>6 DEF sso!SSONext

LEMMA FormReleasedInductive ==
  /\ (sso!SSOInit => WaitsInv)
  /\ (WaitsInv /\ [sso!SSONext]_(sso!ssoVars) => WaitsInv')
  /\ (WaitsInv => sso!PageReleased)
<1>1. sso!SSOInit => WaitsInv
  <2> SUFFICES ASSUME sso!SSOInit
               PROVE  WaitsInv
    OBVIOUS
  <2>1. /\ {"op", "cancelled"} \subseteq DOMAIN sso!Load(1)
        /\ sso!Load(1).op = "load" /\ ~sso!Load(1).cancelled
    BY DEF sso!Load
  <2>2. calls = {sso!Load(1)} /\ {"loading", "saving"} \subseteq DOMAIN ui /\ ui.saving = FALSE
    BY DEF sso!SSOInit
  <2> QED
    BY <2>1, <2>2 DEF WaitsInv, sso!PageReleased, sso!Loads
<1>2. WaitsInv /\ [sso!SSONext]_(sso!ssoVars) => WaitsInv'
  BY WaitsStep, WaitsKept DEF sso!ssoVars, WaitsInv
<1>3. WaitsInv => sso!PageReleased
  BY DEF WaitsInv
<1> QED
  BY <1>1, <1>2, <1>3

\* The form neither loads nor saves longer than the load or the save it waits
\* for: a load that was cancelled by a change of the language is followed by
\* another one, and a failure ends the waiting too.
THEOREM FormReleased == sso!SSOSpec => []sso!PageReleased
BY FormReleasedInductive, PTL DEF sso!SSOSpec

-----------------------------------------------------------------------------
(* CephDashboard: a login on show has a timer, and no other runs             *)

Hiding == {c \in calls : c.op = "hide"}

LoginInv ==
  /\ "now" \in DOMAIN query /\ query.now \in Nat
  /\ {"credential", "kind"} \subseteq DOMAIN ui /\ ui.credential \in Nat \cup {None}
  /\ \A c \in calls : "op" \in DOMAIN c
  /\ ui.credential # None => query.now <= ui.credential + HideAfter /\ Hiding = {ceph!Hides(ui.credential)}
  /\ ui.credential = None => Hiding = {}

LEMMA LoginKept ==
  ASSUME LoginInv,
         "now" \in DOMAIN query', query'.now = query.now,
         {"credential", "kind"} \subseteq DOMAIN ui', ui'.credential = ui.credential,
         \A c \in calls' : "op" \in DOMAIN c,
         Hiding' = Hiding
  PROVE  LoginInv'
BY DEF LoginInv, ceph!Hides

LEMMA HidesLater ==
  ASSUME NEW t
  PROVE  LET c == ceph!Hides(t) IN "op" \in DOMAIN c /\ c.op = "hide" /\ c.at = t + HideAfter
BY DEF ceph!Hides

LEMMA LoginStep ==
  ASSUME LoginInv, ceph!CephNext
  PROVE  LoginInv'
<1>1. CASE ceph!revealCredential
  <2>1. CASE ui.credential # None
    <3>1. calls' = {c \in calls : c.op # "hide"} /\ query' = query
      BY <1>1, <2>1 DEF ceph!revealCredential, ceph!Rescheduled
    <3>2. ui' = [[ui EXCEPT !.credential = None] EXCEPT !.copied = None]
      BY <1>1, <2>1 DEF ceph!revealCredential
    <3>3. DOMAIN ui' = DOMAIN ui /\ ui'.credential = None
      BY <3>2 DEF LoginInv
    <3>4. Hiding' = {}
      BY <3>1 DEF Hiding
    <3> QED
      BY <3>1, <3>3, <3>4 DEF LoginInv
  <2>2. CASE ui.credential = None
    <3> DEFINE c == [op |-> "reveal"]
    <3>1. "op" \in DOMAIN c /\ c.op # "hide"
      OBVIOUS
    <3>2. calls' = calls \cup {c} /\ query' = query
      BY <1>1, <2>2 DEF ceph!revealCredential
    <3>3. ui' = [[ui EXCEPT !.credentialError = FALSE] EXCEPT !.revealing = TRUE]
      BY <1>1, <2>2 DEF ceph!revealCredential
    <3> HIDE DEF c
    <3>4. DOMAIN ui' = DOMAIN ui /\ ui'.credential = ui.credential
      BY <3>3 DEF LoginInv
    <3>5. Hiding' = Hiding
      BY <3>1, <3>2 DEF Hiding
    <3> QED
      BY <3>1, <3>2, <3>4, <3>5, LoginKept DEF LoginInv
  <2> QED
    BY <2>1, <2>2
<1>2. ASSUME NEW c \in calls, ceph!RevealAnswered(c)
      PROVE  LoginInv'
  <2>1. c.op = "reveal" /\ query' = query
    BY <1>2 DEF ceph!RevealAnswered
  <2>2. CASE calls' = ceph!Rescheduled(query.now) \ {c} /\ ui' = [ui EXCEPT !.credential = query.now, !.revealing = FALSE]
    <3>1. ui' = [[ui EXCEPT !.credential = query.now] EXCEPT !.revealing = FALSE]
      BY <2>2
    <3>2. DOMAIN ui' = DOMAIN ui /\ ui'.credential = query.now
      BY <3>1 DEF LoginInv
    <3>3. query.now # None
      BY NoneIsNothing DEF LoginInv
    <3>4. calls' = ({d \in calls : d.op # "hide"} \cup {ceph!Hides(query.now)}) \ {c}
      BY <2>2, <3>3 DEF ceph!Rescheduled
    <3>5. Hiding' = {ceph!Hides(query.now)}
      BY <2>1, <3>4, HidesLater DEF Hiding
    <3>6. \A d \in calls' : "op" \in DOMAIN d
      BY <3>4, HidesLater DEF LoginInv
    <3>7. query.now <= query.now + HideAfter
      BY TimesAreNumbers, NoneIsNothing DEF LoginInv
    <3>8. ceph!Hides(ui.credential)' = ceph!Hides(query.now)
      BY <3>2 DEF ceph!Hides
    <3> QED
      BY <2>1, <3>2, <3>3, <3>5, <3>6, <3>7, <3>8 DEF LoginInv
  <2>3. CASE calls' = calls \ {c} /\ ui' = [ui EXCEPT !.credentialError = TRUE, !.revealing = FALSE]
    <3>1. ui' = [[ui EXCEPT !.credentialError = TRUE] EXCEPT !.revealing = FALSE]
      BY <2>3
    <3>2. DOMAIN ui' = DOMAIN ui /\ ui'.credential = ui.credential
      BY <3>1 DEF LoginInv
    <3>3. Hiding' = Hiding
      BY <2>1, <2>3 DEF Hiding
    <3> QED
      BY <2>1, <2>3, <3>2, <3>3, LoginKept DEF LoginInv
  <2> QED
    BY <1>2, <2>2, <2>3 DEF ceph!RevealAnswered
<1>3. CASE ceph!copyCredential
  <2> DEFINE c == [op |-> "copy", of |-> ui.credential]
  <2>1. "op" \in DOMAIN c /\ c.op # "hide"
    OBVIOUS
  <2>2. calls' = calls \cup {c} /\ UNCHANGED <<query, ui>>
    BY <1>3 DEF ceph!copyCredential
  <2> HIDE DEF c
  <2>3. Hiding' = Hiding
    BY <2>1, <2>2 DEF Hiding
  <2> QED
    BY <2>1, <2>2, <2>3, LoginKept DEF LoginInv
<1>4. ASSUME NEW c \in calls, ceph!CopyAnswered(c)
      PROVE  LoginInv'
  <2> DEFINE d == [op |-> "untick", at |-> query.now + TickAfter]
  <2>1. "op" \in DOMAIN d /\ d.op # "hide"
    OBVIOUS
  <2>2. /\ c.op = "copy" /\ query' = query
        /\ ui' = [ui EXCEPT !.copied = c.of] \/ ui' = [ui EXCEPT !.credentialError = TRUE]
        /\ calls' = (calls \ {c}) \cup {d} \/ calls' = calls \ {c}
    BY <1>4 DEF ceph!CopyAnswered
  <2> HIDE DEF d
  <2>3. DOMAIN ui' = DOMAIN ui /\ ui'.credential = ui.credential
    BY <2>2 DEF LoginInv
  <2>4. Hiding' = Hiding
    BY <2>1, <2>2 DEF Hiding
  <2> QED
    BY <2>1, <2>2, <2>3, <2>4, LoginKept DEF LoginInv
<1>5. ASSUME NEW c \in calls, ceph!TimerFires(c)
      PROVE  LoginInv'
  <2>1. query' = query /\ calls' = calls \ {c} /\ c.op \in {"hide", "untick"}
    BY <1>5 DEF ceph!TimerFires, ceph!Timers
  <2>2. CASE c.op = "hide"
    <3>1. ui' = [[ui EXCEPT !.credential = None] EXCEPT !.copied = None]
      BY <1>5, <2>2 DEF ceph!TimerFires
    <3>2. DOMAIN ui' = DOMAIN ui /\ ui'.credential = None
      BY <3>1 DEF LoginInv
    <3>3. Hiding \subseteq {c}
      BY <2>2 DEF Hiding, LoginInv
    <3>4. Hiding' = {}
      BY <2>1, <3>3 DEF Hiding
    <3> QED
      BY <2>1, <3>2, <3>4 DEF LoginInv
  <2>3. CASE c.op = "untick"
    <3>1. ui' = [ui EXCEPT !.copied = None]
      BY <1>5, <2>3 DEF ceph!TimerFires
    <3>2. DOMAIN ui' = DOMAIN ui /\ ui'.credential = ui.credential
      BY <3>1 DEF LoginInv
    <3>3. Hiding' = Hiding
      BY <2>1, <2>3 DEF Hiding
    <3> QED
      BY <2>1, <3>2, <3>3, LoginKept DEF LoginInv
  <2> QED
    BY <2>1, <2>2, <2>3
<1>6. CASE ceph!Tick
  <2>1. query' = [query EXCEPT !.now = query.now + 1] /\ ui' = ui /\ calls' = calls
    BY <1>6 DEF ceph!Tick
  <2>2. DOMAIN query' = DOMAIN query /\ query'.now = query.now + 1
    BY <2>1 DEF LoginInv
  <2>3. Hiding' = Hiding
    BY <2>1 DEF Hiding
  <2>4. ASSUME ui.credential # None
        PROVE  query.now + 1 <= ui.credential + HideAfter
    <3> DEFINE c == ceph!Hides(ui.credential)
    <3>1. c \in calls /\ c.op = "hide" /\ c.at = ui.credential + HideAfter
      BY <2>4, HidesLater DEF LoginInv, Hiding
    <3>2. c \in ceph!Timers
      BY <3>1 DEF ceph!Timers
    <3>3. c.at > query.now
      BY <1>6, <3>2 DEF ceph!Tick
    <3> HIDE DEF c
    <3> QED
      BY <2>4, <3>1, <3>3, TimesAreNumbers, NoneIsNothing DEF LoginInv
  <2>5. ceph!Hides(ui.credential)' = ceph!Hides(ui.credential)
    BY <2>1 DEF ceph!Hides
  <2> QED
    BY <2>1, <2>2, <2>3, <2>4, <2>5 DEF LoginInv
<1>7. ASSUME NEW p, NEW k, ceph!Changes(p, k)
      PROVE  LoginInv'
  <2>1. query' = [query EXCEPT !.provider = p] /\ ui' = [ui EXCEPT !.kind = k] /\ calls' = calls
    BY <1>7 DEF ceph!Changes
  <2>2. /\ DOMAIN query' = DOMAIN query /\ query'.now = query.now
        /\ DOMAIN ui' = DOMAIN ui /\ ui'.credential = ui.credential
    BY <2>1 DEF LoginInv
  <2>3. Hiding' = Hiding
    BY <2>1 DEF Hiding
  <2> QED
    BY <2>1, <2>2, <2>3, LoginKept DEF LoginInv
<1> QED
  BY <1>1, <1>2, <1>3, <1>4, <1>5, <1>6, <1>7 DEF ceph!CephNext

LEMMA HiddenInductive ==
  /\ (ceph!CephInit => LoginInv)
  /\ (LoginInv /\ [ceph!CephNext]_(ceph!cephVars) => LoginInv')
  /\ (LoginInv => ceph!HiddenInTime)
<1>1. ceph!CephInit => LoginInv
  BY DEF ceph!CephInit, LoginInv, Hiding
<1>2. LoginInv /\ [ceph!CephNext]_(ceph!cephVars) => LoginInv'
  <2>1. CASE ceph!CephNext
    BY <2>1, LoginStep
  <2>2. ASSUME LoginInv, UNCHANGED ceph!cephVars
        PROVE  LoginInv'
    BY <2>2, LoginKept DEF ceph!cephVars, LoginInv, Hiding
  <2> QED
    BY <2>1, <2>2
<1>3. LoginInv => ceph!HiddenInTime
  BY DEF LoginInv, Hiding, ceph!HiddenInTime
<1> QED
  BY <1>1, <1>2, <1>3

\* A login on show is hidden when its time is over and not before, by the one
\* timer that its own revealing started, however often it was hidden, revealed
\* and copied.
THEOREM Hidden == ceph!CephSpec => []ceph!HiddenInTime
BY HiddenInductive, PTL DEF ceph!CephSpec

-----------------------------------------------------------------------------
(* SupportPages: the timer runs at the pace of what is shown                 *)

PollFields == {"longhorn", "bundles", "fetching", "now", "timer", "readAt", "failedAt", "flippedAt", "connected"}

\* The timer was started by the last of three events, and did not run out.
Polled ==
  /\ PollFields \subseteq DOMAIN query
  /\ {query.now, query.timer, query.readAt, query.failedAt, query.flippedAt} \subseteq Nat
  /\ query.timer \in {query.readAt, query.failedAt, query.flippedAt}
  /\ \A t \in {query.readAt, query.failedAt, query.flippedAt} : t <= query.timer
  /\ query.timer <= query.now
  /\ query.now - query.timer <= support!Interval

Told ==
  /\ {"page", "error", "selected"} \subseteq DOMAIN ui
  /\ ui.error => calls = {}

SupportInv == Polled /\ Told

LEMMA IntervalIsTime == support!Interval \in Nat /\ (support!active(query.bundles) /\ ~query.connected => support!Interval = Fast)
BY TimesAreNumbers DEF support!Interval, support!refetchInterval

LEMMA PolledKept ==
  ASSUME Polled, PollFields \subseteq DOMAIN query',
         query'.bundles = query.bundles, query'.connected = query.connected,
         query'.now = query.now, query'.timer = query.timer, query'.readAt = query.readAt,
         query'.failedAt = query.failedAt, query'.flippedAt = query.flippedAt
  PROVE  Polled'
<1>1. support!Interval' = support!Interval
  BY DEF support!Interval, support!refetchInterval, support!active, support!Ended
<1> QED
  BY <1>1 DEF Polled

\* A poll that ended, or the stream that came or went, starts the timer anew.
LEMMA PolledAnew ==
  ASSUME Polled, PollFields \subseteq DOMAIN query',
         query'.now = query.now, query'.timer = query.now,
         query.now \in {query'.readAt, query'.failedAt, query'.flippedAt},
         query'.readAt \in {query.readAt, query.now}, query'.failedAt \in {query.failedAt, query.now},
         query'.flippedAt \in {query.flippedAt, query.now}
  PROVE  Polled'
<1>1. support!Interval' \in Nat
  BY TimesAreNumbers DEF support!Interval, support!refetchInterval
<1>2. \A t \in {query'.readAt, query'.failedAt, query'.flippedAt} : t \in Nat /\ t <= query.now
  BY DEF Polled
<1> QED
  BY <1>1, <1>2 DEF Polled

LEMMA PolledStep ==
  ASSUME Polled, support!SupportNext
  PROVE  Polled'
<1>1. CASE support!Tick
  <2>1. query' = [query EXCEPT !.now = query.now + 1] /\ query.now - query.timer < support!Interval
    BY <1>1 DEF support!Tick, support!Changes
  <2>2. /\ DOMAIN query' = DOMAIN query /\ query'.now = query.now + 1
        /\ query'.timer = query.timer /\ query'.readAt = query.readAt
        /\ query'.failedAt = query.failedAt /\ query'.flippedAt = query.flippedAt
        /\ query'.bundles = query.bundles /\ query'.connected = query.connected
    BY <2>1 DEF Polled, PollFields
  <2>3. support!Interval' = support!Interval
    BY <2>2 DEF support!Interval, support!refetchInterval, support!active, support!Ended
  <2> QED
    BY <2>1, <2>2, <2>3, IntervalIsTime DEF Polled
<1>2. CASE support!Refetch
  BY <1>2, PolledKept DEF support!Refetch, support!Changes, Polled, PollFields
<1>3. CASE support!Fetched
  <2>1. query' = [[[[query EXCEPT !.fetching = FALSE] EXCEPT !.bundles = query.longhorn]
                      EXCEPT !.readAt = query.now] EXCEPT !.timer = query.now]
    BY <1>3 DEF support!Fetched, support!Changes, support!Restarted, Polled, PollFields
  <2>2. /\ DOMAIN query' = DOMAIN query /\ query'.now = query.now /\ query'.timer = query.now
        /\ query'.readAt = query.now /\ query'.failedAt = query.failedAt /\ query'.flippedAt = query.flippedAt
    BY <2>1 DEF Polled, PollFields
  <2> QED
    BY <2>2, PolledAnew DEF Polled
<1>4. CASE support!FetchFails
  <2>1. query' = [[[query EXCEPT !.fetching = FALSE] EXCEPT !.failedAt = query.now] EXCEPT !.timer = query.now]
    BY <1>4 DEF support!FetchFails, support!Changes, support!Restarted, Polled, PollFields
  <2>2. /\ DOMAIN query' = DOMAIN query /\ query'.now = query.now /\ query'.timer = query.now
        /\ query'.readAt = query.readAt /\ query'.failedAt = query.now /\ query'.flippedAt = query.flippedAt
    BY <2>1 DEF Polled, PollFields
  <2> QED
    BY <2>2, PolledAnew DEF Polled
<1>5. CASE support!ConnectedChanges
  <2>1. query' = [[[query EXCEPT !.connected = ~query.connected] EXCEPT !.flippedAt = query.now] EXCEPT !.timer = query.now]
    BY <1>5 DEF support!ConnectedChanges, support!Changes, support!Restarted, Polled, PollFields
  <2>2. /\ DOMAIN query' = DOMAIN query /\ query'.now = query.now /\ query'.timer = query.now
        /\ query'.readAt = query.readAt /\ query'.failedAt = query.failedAt /\ query'.flippedAt = query.now
    BY <2>1 DEF Polled, PollFields
  <2> QED
    BY <2>2, PolledAnew DEF Polled
<1>6. ASSUME NEW b, support!Advances(b)
      PROVE  Polled'
  <2>1. PICK state : query' = [query EXCEPT !.longhorn[b] = state]
    BY <1>6 DEF support!Advances, support!Changes
  <2> QED
    BY <2>1, PolledKept DEF Polled, PollFields
<1>7. CASE support!create
  BY <1>7, PolledKept DEF support!create, Polled
<1>8. ASSUME NEW b, support!Created(b)
      PROVE  Polled'
  <2>1. query' = [[query EXCEPT !.longhorn = support!With(b)] EXCEPT !.fetching = TRUE]
    BY <1>8 DEF support!Created
  <2> QED
    BY <2>1, PolledKept DEF Polled, PollFields
<1>9. ASSUME NEW b, support!CreateFails(b)
      PROVE  Polled'
  <2>1. PICK longhorn : query' = [query EXCEPT !.longhorn = longhorn]
    BY <1>9 DEF support!CreateFails
  <2> QED
    BY <2>1, PolledKept DEF Polled, PollFields
<1>10. ASSUME NEW list, support!ManagersListed(list)
       PROVE  Polled'
  BY <1>10, PolledKept DEF support!ManagersListed, support!Changes, Polled, PollFields
<1>11. ASSUME NEW m, support!Select(m)
       PROVE  Polled'
  BY <1>11, PolledKept DEF support!Select, Polled
<1>12. CASE support!CloseInstances
  BY <1>12, PolledKept DEF support!CloseInstances, Polled
<1> QED
  BY <1>1, <1>2, <1>3, <1>4, <1>5, <1>6, <1>7, <1>8, <1>9, <1>10, <1>11, <1>12 DEF support!SupportNext

LEMMA ToldStep ==
  ASSUME Told, support!SupportNext
  PROVE  Told'
<1>1. CASE ui' = ui /\ calls' = calls
  BY <1>1 DEF Told
<1>2. CASE support!create
  BY <1>2 DEF support!create, Told
<1>3. ASSUME NEW b, support!Created(b) \/ support!CreateFails(b)
      PROVE  Told'
  BY <1>3 DEF support!Created, support!CreateFails, Told
<1>4. ASSUME NEW m, support!Select(m)
      PROVE  Told'
  BY <1>4 DEF support!Select, Told
<1>5. CASE support!CloseInstances
  BY <1>5 DEF support!CloseInstances, Told
<1> QED
  BY <1>1, <1>2, <1>3, <1>4, <1>5
     DEF support!SupportNext, support!Tick, support!Refetch, support!Fetched, support!FetchFails,
         support!ConnectedChanges, support!Advances, support!ManagersListed, support!Changes

LEMMA FollowedInductive ==
  /\ (support!SupportInit => SupportInv)
  /\ (SupportInv /\ [support!SupportNext]_(support!supportVars) => SupportInv')
  /\ (SupportInv => support!GenerationFollowed /\ support!FailureOfLastAttempt)
<1>1. support!SupportInit => SupportInv
  <2> SUFFICES ASSUME support!SupportInit
               PROVE  SupportInv
    OBVIOUS
  <2>1. /\ PollFields \subseteq DOMAIN query /\ query.now = 0 /\ query.timer = 0
        /\ query.readAt = 0 /\ query.failedAt = 0 /\ query.flippedAt = 0
    BY DEF support!SupportInit, PollFields
  <2>2. Told
    BY DEF support!SupportInit, Told
  <2> QED
    BY <2>1, <2>2, IntervalIsTime DEF Polled, SupportInv
<1>2. SupportInv /\ [support!SupportNext]_(support!supportVars) => SupportInv'
  <2>1. CASE support!SupportNext
    BY <2>1, PolledStep, ToldStep DEF SupportInv
  <2>2. ASSUME SupportInv, UNCHANGED support!supportVars
        PROVE  SupportInv'
    BY <2>2, PolledKept DEF support!supportVars, SupportInv, Polled, Told
  <2> QED
    BY <2>1, <2>2
<1>3. SupportInv => support!GenerationFollowed /\ support!FailureOfLastAttempt
  <2> SUFFICES ASSUME SupportInv
               PROVE  support!GenerationFollowed /\ support!FailureOfLastAttempt
    OBVIOUS
  <2> DEFINE times == {query.readAt, query.failedAt, query.flippedAt}
  <2>1. \A t \in times : (\A u \in times : u <= t) => t = query.timer
    BY DEF SupportInv, Polled
  <2>2. support!LatestOf(times) = query.timer
    BY <2>1 DEF support!LatestOf, SupportInv, Polled
  <2>3. support!GenerationFollowed
    BY <2>2, IntervalIsTime DEF SupportInv, Polled, support!GenerationFollowed
  <2> QED
    BY <2>3 DEF SupportInv, Told, support!FailureOfLastAttempt, support!creating
<1> QED
  BY <1>1, <1>2, <1>3

\* While the stream is down a bundle on show is followed at the fast pace,
\* counted from the last read, failure or loss of the stream, whichever was
\* last; and the failure of an attempt is not shown while the next one waits.
THEOREM Followed == support!SupportSpec => [](support!GenerationFollowed /\ support!FailureOfLastAttempt)
BY FollowedInductive, PTL DEF support!SupportSpec

-----------------------------------------------------------------------------
(* ShellState: the theme is listened for, the failure is of the page on show *)

ThemeFields == {"theme", "resolved", "document", "effects", "listening"}

BoundaryFields == {"path", "error", "resetKey", "loaded", "broken", "release"}

ThemeInv ==
  /\ {"stored", "blocked", "osDark"} \subseteq DOMAIN query
  /\ query.osDark \in BOOLEAN
  /\ ThemeFields \subseteq DOMAIN ui
  /\ ui.effects \in BOOLEAN
  /\ ~ui.effects => ui.listening = (ui.theme = "system")
  /\ shell!ThemeApplied

BoundaryInv ==
  /\ BoundaryFields \subseteq DOMAIN ui /\ "release" \in DOMAIN query
  /\ ui.path \in Paths /\ ui.resetKey = ui.path
  /\ shell!FailureOfItsPage

LEMMA ThemeKept ==
  ASSUME ThemeInv, DOMAIN query' = DOMAIN query, query'.osDark = query.osDark,
         ThemeFields \subseteq DOMAIN ui', \A f \in ThemeFields : ui'[f] = ui[f]
  PROVE  ThemeInv'
BY DEF ThemeInv, ThemeFields, shell!ThemeApplied, shell!resolveTheme

LEMMA BoundaryKept ==
  ASSUME BoundaryInv, "release" \in DOMAIN query',
         BoundaryFields \subseteq DOMAIN ui', \A f \in BoundaryFields : ui'[f] = ui[f]
  PROVE  BoundaryInv'
BY DEF BoundaryInv, BoundaryFields, shell!FailureOfItsPage

\* What a started application looks like.
LEMMA StartedInv ==
  ASSUME {"stored", "blocked", "osDark", "release"} \subseteq DOMAIN query, query.osDark \in BOOLEAN,
         NEW visit, NEW path \in Paths, ui' = shell!Started(visit, path), query' = query
  PROVE  ThemeInv' /\ BoundaryInv'
<1>1. /\ ThemeFields \cup BoundaryFields \subseteq DOMAIN ui'
      /\ ui'.effects = TRUE /\ ui'.path = path /\ ui'.resetKey = path /\ ui'.error = None
  BY DEF shell!Started, ThemeFields, BoundaryFields
<1> QED
  BY <1>1 DEF ThemeInv, BoundaryInv, shell!ThemeApplied, shell!FailureOfItsPage

ThemeNext ==
  \/ shell!cycleTheme
  \/ shell!ThemeEffects
  \/ shell!SystemChanges

LEMMA ThemeStep ==
  ASSUME ThemeInv, BoundaryInv, ThemeNext
  PROVE  ThemeInv' /\ BoundaryInv'
<1>1. CASE shell!cycleTheme
  <2>1. PICK mode : shell!setTheme(mode)
    BY <1>1 DEF shell!cycleTheme
  <2> DEFINE next == [[ui EXCEPT !.theme = mode] EXCEPT !.effects = ui.effects \/ mode # ui.theme]
             dark == shell!resolveTheme(mode)
  <2>2. /\ DOMAIN next = DOMAIN ui /\ next.theme = mode /\ next.effects = (ui.effects \/ mode # ui.theme)
        /\ next.listening = ui.listening /\ \A f \in BoundaryFields : next[f] = ui[f]
    BY DEF ThemeInv, ThemeFields, BoundaryFields
  <2>3. ui' = [[next EXCEPT !.resolved = dark] EXCEPT !.document = dark]
    BY <2>1 DEF shell!setTheme, shell!Applied, ThemeInv, ThemeFields
  <2> HIDE DEF next, dark
  <2>4. /\ DOMAIN ui' = DOMAIN ui /\ ui'.theme = next.theme /\ ui'.effects = next.effects
        /\ ui'.listening = next.listening /\ \A f \in BoundaryFields : ui'[f] = next[f]
        /\ ui'.resolved = dark /\ ui'.document = dark
    BY <2>2, <2>3 DEF ThemeInv, ThemeFields, BoundaryFields
  <2>5. query' = query \/ query' = [query EXCEPT !.stored = mode]
    BY <2>1 DEF shell!setTheme
  <2>6. DOMAIN query' = DOMAIN query /\ query'.osDark = query.osDark
    BY <2>5 DEF ThemeInv
  <2>7. ThemeInv'
    BY <2>2, <2>4, <2>6 DEF ThemeInv, shell!ThemeApplied, shell!resolveTheme, dark
  <2>8. BoundaryInv'
    BY <2>2, <2>4, <2>6, BoundaryKept DEF BoundaryInv
  <2> QED
    BY <2>7, <2>8
<1>2. CASE shell!ThemeEffects
  <2> DEFINE next == [[ui EXCEPT !.effects = FALSE] EXCEPT !.listening = ui.theme = "system"]
             dark == shell!resolveTheme(ui.theme)
  <2>1. /\ DOMAIN next = DOMAIN ui /\ next.theme = ui.theme /\ next.effects = FALSE
        /\ next.listening = (ui.theme = "system") /\ \A f \in BoundaryFields : next[f] = ui[f]
    BY DEF ThemeInv, ThemeFields, BoundaryFields
  <2>2. ui' = [[next EXCEPT !.resolved = dark] EXCEPT !.document = dark] /\ query' = query
    BY <1>2 DEF shell!ThemeEffects, shell!Applied, ThemeInv, ThemeFields
  <2> HIDE DEF next
  <2>3. /\ DOMAIN ui' = DOMAIN ui /\ ui'.theme = next.theme /\ ui'.effects = next.effects
        /\ ui'.listening = next.listening /\ \A f \in BoundaryFields : ui'[f] = next[f]
        /\ ui'.resolved = dark /\ ui'.document = dark
    BY <2>1, <2>2 DEF ThemeInv, ThemeFields, BoundaryFields
  <2>4. ThemeInv'
    BY <2>1, <2>2, <2>3, ZenonT(60) DEF ThemeInv, shell!ThemeApplied, shell!resolveTheme
  <2>5. BoundaryInv'
    BY <2>1, <2>2, <2>3, BoundaryKept DEF BoundaryInv
  <2> QED
    BY <2>4, <2>5
<1>3. CASE shell!SystemChanges
  <2>1. query' = [query EXCEPT !.osDark = ~query.osDark]
    BY <1>3 DEF shell!SystemChanges
  <2>2. DOMAIN query' = DOMAIN query /\ query'.osDark = ~query.osDark
    BY <2>1 DEF ThemeInv
  <2>3. CASE ui.listening
    <3>1. ui' = [[ui EXCEPT !.resolved = ~query.osDark] EXCEPT !.document = ~query.osDark]
      BY <1>3, <2>3 DEF shell!SystemChanges
    <3>2. /\ DOMAIN ui' = DOMAIN ui /\ ui'.theme = ui.theme /\ ui'.effects = ui.effects
          /\ ui'.listening = ui.listening /\ ui'.resolved = ~query.osDark /\ ui'.document = ~query.osDark
      BY <3>1 DEF ThemeInv, ThemeFields
    <3>3. \A f \in BoundaryFields : ui'[f] = ui[f]
      BY <3>1 DEF BoundaryFields, BoundaryInv
    <3>4. ThemeInv'
      BY <2>2, <2>3, <3>2 DEF ThemeInv, shell!ThemeApplied, shell!resolveTheme
    <3> QED
      BY <2>2, <3>2, <3>3, <3>4, BoundaryKept DEF BoundaryInv
  <2>4. CASE ~ui.listening
    <3>1. ui' = ui
      BY <1>3, <2>4 DEF shell!SystemChanges
    <3> QED
      BY <2>2, <2>4, <3>1 DEF ThemeInv, BoundaryInv, shell!ThemeApplied, shell!FailureOfItsPage,
         shell!resolveTheme
  <2> QED
    BY <2>3, <2>4
<1> QED
  BY <1>1, <1>2, <1>3 DEF ThemeNext

\* A page that is loaded, or could not be.
LEMMA LoadedPage ==
  ASSUME NEW s, ThemeFields \cup BoundaryFields \subseteq DOMAIN s, NEW p, s.path = p, s.error = None
  PROVE  LET t == shell!Loads(s, p)
         IN  /\ DOMAIN t = DOMAIN s /\ t.path = s.path /\ t.resetKey = s.resetKey
             /\ \A f \in ThemeFields : t[f] = s[f]
             /\ t.error = None \/ (t.error = "chunk" /\ t.path \in t.broken)
<1> DEFINE broken == [[s EXCEPT !.error = "chunk"] EXCEPT !.broken = s.broken \cup {p}]
           loaded == [s EXCEPT !.loaded = s.loaded \cup {p}]
<1>1. shell!Loads(s, p) \in {broken, loaded}
  BY DEF shell!Loads, BoundaryFields
<1>2. /\ DOMAIN broken = DOMAIN s /\ broken.path = s.path /\ broken.resetKey = s.resetKey
      /\ broken.error = "chunk" /\ p \in broken.broken
      /\ \A f \in ThemeFields : broken[f] = s[f]
  BY DEF BoundaryFields, ThemeFields
<1>3. /\ DOMAIN loaded = DOMAIN s /\ loaded.path = s.path /\ loaded.resetKey = s.resetKey
      /\ loaded.error = s.error
      /\ \A f \in ThemeFields : loaded[f] = s[f]
  BY DEF BoundaryFields, ThemeFields
<1> HIDE DEF broken, loaded
<1> QED
  BY <1>1, <1>2, <1>3

BoundaryNext ==
  \/ shell!Reload
  \/ \E p \in Paths : shell!Navigate(p)
  \/ shell!PageThrows
  \/ shell!TryAgain
  \/ shell!Redeploy

LEMMA BoundaryStep ==
  ASSUME ThemeInv, BoundaryInv, BoundaryNext
  PROVE  ThemeInv' /\ BoundaryInv'
<1>1. ASSUME shell!Reload
      PROVE  ThemeInv' /\ BoundaryInv'
  <2>1. ui' = shell!Started(ui.visit, ui.path) /\ query' = query
    BY <1>1 DEF shell!Reload
  <2> QED
    BY <2>1, StartedInv DEF ThemeInv, BoundaryInv
<1>2. ASSUME NEW s, ThemeFields \cup BoundaryFields \subseteq DOMAIN s, NEW p \in Paths,
             s.path = p, s.resetKey = p, s.error = None, \A f \in ThemeFields : s[f] = ui[f],
             ui' = shell!Loads(s, p), query' = query
      PROVE  ThemeInv' /\ BoundaryInv'
  <2>1. /\ DOMAIN ui' = DOMAIN s /\ ui'.path = p /\ ui'.resetKey = p
        /\ \A f \in ThemeFields : ui'[f] = ui[f]
        /\ ui'.error = None \/ (ui'.error = "chunk" /\ ui'.path \in ui'.broken)
    BY <1>2, LoadedPage
  <2>2. ThemeInv'
    BY <1>2, <2>1, ThemeKept
  <2>3. BoundaryInv'
    BY <1>2, <2>1 DEF BoundaryInv, shell!FailureOfItsPage
  <2> QED
    BY <2>2, <2>3
<1>3. ASSUME NEW p \in Paths, shell!Navigate(p)
      PROVE  ThemeInv' /\ BoundaryInv'
  <2> DEFINE s == [[[ui EXCEPT !.path = p] EXCEPT !.error = None] EXCEPT !.resetKey = p]
  <2>1. shell!Reset(ui, p) = s
    BY <1>3 DEF shell!Reset, shell!Navigate, BoundaryInv, BoundaryFields
  <2>2. /\ DOMAIN s = DOMAIN ui /\ s.path = p /\ s.resetKey = p /\ s.error = None
        /\ \A f \in ThemeFields : s[f] = ui[f]
    BY DEF BoundaryInv, BoundaryFields, ThemeFields
  <2>3. ui' = shell!Loads(s, p) /\ query' = query
    BY <1>3, <2>1 DEF shell!Navigate
  <2> HIDE DEF s
  <2> QED
    BY <1>2, <2>2, <2>3 DEF ThemeInv, BoundaryInv
<1>4. CASE shell!PageThrows
  <2>1. ui' = [ui EXCEPT !.error = ui.path] /\ query' = query
    BY <1>4 DEF shell!PageThrows
  <2>2. /\ DOMAIN ui' = DOMAIN ui /\ ui'.error = ui.path /\ ui'.path = ui.path /\ ui'.resetKey = ui.resetKey
        /\ \A f \in ThemeFields : ui'[f] = ui[f]
    BY <2>1 DEF BoundaryInv, BoundaryFields, ThemeFields
  <2>3. ThemeInv'
    BY <2>1, <2>2, ThemeKept DEF ThemeInv
  <2>4. BoundaryInv'
    BY <2>1, <2>2, ChunkIsNoPath DEF BoundaryInv, shell!FailureOfItsPage
  <2> QED
    BY <2>3, <2>4
<1>5. CASE shell!TryAgain
  <2> DEFINE s == [ui EXCEPT !.error = None]
  <2>1. /\ DOMAIN s = DOMAIN ui /\ s.path = ui.path /\ s.resetKey = ui.path /\ s.error = None
        /\ \A f \in ThemeFields : s[f] = ui[f]
    BY DEF BoundaryInv, BoundaryFields, ThemeFields
  <2>2. CASE ui.error # "chunk"
    <3>1. ui' = shell!Loads(s, ui.path) /\ query' = query
      BY <1>5, <2>2 DEF shell!TryAgain
    <3> HIDE DEF s
    <3> QED
      BY <1>2, <2>1, <3>1 DEF ThemeInv, BoundaryInv
  <2>3. CASE ui.error = "chunk"
    BY <1>1, <1>5, <2>3 DEF shell!TryAgain
  <2> QED
    BY <2>2, <2>3
<1>6. CASE shell!Redeploy
  <2>1. query' = [query EXCEPT !.release = 2] /\ ui' = ui
    BY <1>6 DEF shell!Redeploy
  <2>2. DOMAIN query' = DOMAIN query /\ query'.osDark = query.osDark
    BY <2>1 DEF ThemeInv
  <2> QED
    BY <2>1, <2>2, ThemeKept, BoundaryKept DEF ThemeInv, BoundaryInv
<1> QED
  BY <1>1, <1>3, <1>4, <1>5, <1>6 DEF BoundaryNext

MessagesNext ==
  \/ \E id \in 1..MaxToasts : shell!toast(id)
  \/ shell!TimerFires
  \/ \E i \in DOMAIN ui.toasts : shell!Dismiss(i)

\* A message changes nothing else.
LEMMA OnlyMessages ==
  ASSUME ThemeInv, BoundaryInv, MessagesNext
  PROVE  ThemeInv' /\ BoundaryInv'
<1>1. query' = query
  BY DEF MessagesNext, shell!toast, shell!Shows, shell!TimerFires, shell!Dismiss
<1>2. ui' = ui \/ \E toasts : ui' = [ui EXCEPT !.toasts = toasts]
  BY DEF MessagesNext, shell!toast, shell!Shows, shell!TimerFires, shell!Dismiss, shell!dismiss
<1>3. DOMAIN ui' = DOMAIN ui /\ \A f \in ThemeFields \cup BoundaryFields : ui'[f] = ui[f]
  <2>1. ASSUME NEW toasts, ui' = [ui EXCEPT !.toasts = toasts]
        PROVE  DOMAIN ui' = DOMAIN ui /\ \A f \in ThemeFields \cup BoundaryFields : ui'[f] = ui[f]
    BY <2>1 DEF ThemeFields, BoundaryFields, ThemeInv, BoundaryInv
  <2> QED
    BY <1>2, <2>1
<1> QED
  BY <1>1, <1>3, ThemeKept, BoundaryKept DEF ThemeInv, BoundaryInv

\* No two messages have one id, and each has a timer.
MessagesInv ==
  /\ "toasts" \in DOMAIN ui
  /\ ui.toasts \in Seq(Nat) /\ calls \in Seq(Nat)
  /\ \A i, j \in DOMAIN ui.toasts : ui.toasts[i] = ui.toasts[j] => i = j
  /\ shell!MessagesPass

LEMMA RemovedAt ==
  ASSUME NEW s \in Seq(Nat), NEW i \in DOMAIN s
  PROVE  LET t == shell!RemoveAt(s, i)
         IN  /\ t \in Seq(Nat) /\ Len(t) = Len(s) - 1
             /\ \A j \in DOMAIN t : t[j] = IF j < i THEN s[j] ELSE s[j + 1]
<1> DEFINE before == SubSeq(s, 1, i - 1)
           after == SubSeq(s, i + 1, Len(s))
<1>1. i \in 1..Len(s) /\ Len(s) \in Nat
  OBVIOUS
<1>2. before \in Seq(Nat) /\ Len(before) = i - 1 /\ \A j \in 1..(i - 1) : before[j] = s[j]
  BY <1>1
<1>3. after \in Seq(Nat) /\ Len(after) = Len(s) - i /\ \A j \in 1..(Len(s) - i) : after[j] = s[j + i]
  BY <1>1, SMTT(40)
<1>4. shell!RemoveAt(s, i) = before \o after
  BY DEF shell!RemoveAt
<1> HIDE DEF before, after
<1>a. /\ before \o after \in Seq(Nat)
      /\ Len(before \o after) = Len(before) + Len(after)
      /\ \A j \in 1..(Len(before) + Len(after)) :
           (before \o after)[j] = IF j <= Len(before) THEN before[j] ELSE after[j - Len(before)]
  BY <1>2, <1>3, ConcatProperties
<1>5. /\ before \o after \in Seq(Nat) /\ Len(before \o after) = Len(s) - 1
      /\ \A j \in 1..(Len(s) - 1) : (before \o after)[j] = IF j < i THEN before[j] ELSE after[j - (i - 1)]
  <2>1. Len(before) + Len(after) = Len(s) - 1 /\ Len(before) = i - 1
    BY <1>1, <1>2, <1>3
  <2>2. \A j \in 1..(Len(s) - 1) : (j <= i - 1) = (j < i)
    BY <1>1
  <2> QED
    BY <1>a, <2>1, <2>2
<1>6. DOMAIN (before \o after) = 1..(Len(s) - 1)
  BY <1>1, <1>5
<1>7. ASSUME NEW j \in 1..(Len(s) - 1)
      PROVE  (before \o after)[j] = IF j < i THEN s[j] ELSE s[j + 1]
  <2>1. CASE j < i
    BY <1>1, <1>2, <1>5, <2>1
  <2>2. CASE ~(j < i)
    <3>1. j - (i - 1) \in 1..(Len(s) - i) /\ (j - (i - 1)) + i = j + 1
      BY <1>1, <2>2
    <3> QED
      BY <1>1, <1>3, <1>5, <2>2, <3>1
  <2> QED
    BY <2>1, <2>2
<1> QED
  BY <1>4, <1>5, <1>6, <1>7

LEMMA Latest ==
  ASSUME NEW s \in Seq(Nat), NEW a \in 1..(Len(s) + 1), NEW e \in Nat
  PROVE  LET t == Append(SubSeq(s, a, Len(s)), e)
         IN  /\ t \in Seq(Nat) /\ Len(t) = Len(s) - a + 2
             /\ \A j \in DOMAIN t : t[j] = IF j = Len(t) THEN e ELSE s[j + a - 1]
BY SMTT(40)

LEMMA Dismissed ==
  ASSUME MessagesInv, NEW id, shell!dismiss(id), calls' \in Seq(Nat),
         \A t \in shell!Ids(calls) : t = id \/ t \in shell!Ids(calls')
  PROVE  MessagesInv'
<1>1. CASE id \notin shell!Ids(ui.toasts) /\ ui' = ui
  BY <1>1 DEF MessagesInv, shell!MessagesPass, shell!Ids
<1>2. ASSUME NEW i \in DOMAIN ui.toasts, ui.toasts[i] = id,
             ui' = [ui EXCEPT !.toasts = shell!RemoveAt(ui.toasts, i)]
      PROVE  MessagesInv'
  <2> DEFINE s == ui.toasts
             t == shell!RemoveAt(s, i)
  <2>1. /\ s \in Seq(Nat) /\ Len(s) <= Kept + 1 /\ \A j \in DOMAIN s : s[j] \in shell!Ids(calls)
        /\ \A j, k \in DOMAIN s : s[j] = s[k] => j = k
    BY DEF MessagesInv, shell!MessagesPass
  <2>2. DOMAIN ui' = DOMAIN ui /\ ui'.toasts = t
    BY <1>2 DEF MessagesInv
  <2>3. /\ t \in Seq(Nat) /\ Len(t) = Len(s) - 1
        /\ \A j \in DOMAIN t : t[j] = IF j < i THEN s[j] ELSE s[j + 1]
    BY <1>2, <2>1, RemovedAt
  <2> HIDE DEF t
  <2>4. \A j \in DOMAIN t : IF j < i THEN j \in DOMAIN s ELSE j + 1 \in DOMAIN s
    BY <1>2, <2>1, <2>3, SMTT(40)
  <2> DEFINE from(j) == IF j < i THEN j ELSE j + 1
  <2>a. /\ \A j \in DOMAIN t : t[j] = s[from(j)] /\ from(j) \in DOMAIN s /\ from(j) # i
        /\ \A j, k \in DOMAIN t : from(j) = from(k) => j = k
    <3>1. DOMAIN t \subseteq Int /\ i \in Int
      BY <1>2, <2>1, <2>3
    <3>2. \A j \in DOMAIN t : t[j] = s[from(j)] /\ from(j) \in DOMAIN s
      BY <2>3, <2>4
    <3>3. \A j \in DOMAIN t : from(j) # i
      BY <3>1
    <3>4. \A j, k \in DOMAIN t : from(j) = from(k) => j = k
      BY <3>1
    <3> QED
      BY <3>2, <3>3, <3>4
  <2> HIDE DEF from
  <2>5. \A j, k \in DOMAIN t : t[j] = t[k] => j = k
    BY <2>1, <2>a
  <2>6. \A j \in DOMAIN t : t[j] # id /\ t[j] \in shell!Ids(calls)
    BY <1>2, <2>1, <2>a
  <2>7. Len(t) <= Kept + 1
    BY <1>2, <2>1, <2>3, TimesAreNumbers, SMTT(40)
  <2>8. \A j \in DOMAIN t : t[j] \in shell!Ids(calls')
    BY <2>6
  <2>9. shell!Ids(calls') = shell!Ids(calls)'
    BY DEF shell!Ids
  <2> QED
    BY <2>2, <2>3, <2>5, <2>7, <2>8, <2>9 DEF MessagesInv, shell!MessagesPass
<1> QED
  BY <1>1, <1>2 DEF shell!dismiss

LEMMA MessagesKept ==
  ASSUME MessagesInv, DOMAIN ui' = DOMAIN ui, ui'.toasts = ui.toasts, calls' = calls
  PROVE  MessagesInv'
BY DEF MessagesInv, shell!MessagesPass, shell!Ids

LEMMA MessagesStep ==
  ASSUME MessagesInv, MessagesNext
  PROVE  MessagesInv'
<1>1. ASSUME NEW id \in 1..MaxToasts, shell!toast(id)
      PROVE  MessagesInv'
  <2> DEFINE s == ui.toasts
             a == IF Len(s) > Kept THEN Len(s) - Kept + 1 ELSE 1
             t == Append(SubSeq(s, a, Len(s)), id)
  <2>1. /\ s \in Seq(Nat) /\ Len(s) <= Kept + 1 /\ \A j \in DOMAIN s : s[j] \in shell!Ids(calls)
        /\ \A j, k \in DOMAIN s : s[j] = s[k] => j = k
    BY DEF MessagesInv, shell!MessagesPass
  <2>2. id \in Nat /\ id \notin shell!Ids(s) /\ calls' = Append(calls, id)
    BY <1>1 DEF shell!toast, shell!Shows
  <2>3. ui' = [ui EXCEPT !.toasts = t]
    BY <1>1 DEF shell!toast, shell!Shows, MessagesInv
  <2>4. a \in 1..(Len(s) + 1) /\ Len(s) - a + 2 <= Kept + 1
    <3>1. Len(s) \in Nat
      BY <2>1
    <3>2. ASSUME NEW n \in Nat, NEW k \in Nat, n <= k + 1
          PROVE  LET b == IF n > k THEN n - k + 1 ELSE 1 IN b \in 1..(n + 1) /\ n - b + 2 <= k + 1
      BY <3>2
    <3> QED
      BY <2>1, <3>1, <3>2, TimesAreNumbers
  <2> HIDE DEF a, s
  <2>5. /\ t \in Seq(Nat) /\ Len(t) = Len(s) - a + 2
        /\ \A j \in DOMAIN t : t[j] = IF j = Len(t) THEN id ELSE s[j + a - 1]
    BY <2>1, <2>2, <2>4, Latest, SMTT(40)
  <2> HIDE DEF t
  <2>6. DOMAIN ui' = DOMAIN ui /\ ui'.toasts = t
    BY <2>3 DEF MessagesInv
  <2>7. \A j \in DOMAIN t : j # Len(t) => j + a - 1 \in DOMAIN s
    BY <2>1, <2>4, <2>5, SMTT(40)
  <2>8. \A j \in DOMAIN s : s[j] # id
    BY <2>2 DEF shell!Ids
  <2> DEFINE n == Len(t)
  <2>a. n \in Nat /\ a \in Nat /\ DOMAIN t = 1..n
    BY <2>1, <2>4, <2>5
  <2>b. \A j \in 1..n : IF j = n THEN t[j] = id ELSE t[j] = s[j + a - 1] /\ j + a - 1 \in DOMAIN s
    BY <2>5, <2>7, <2>a
  <2> HIDE DEF n
  <2>c. ASSUME NEW j \in 1..n, NEW k \in 1..n, t[j] = t[k]
        PROVE  j = k
    <3>1. CASE j = n \/ k = n
      BY <2>8, <2>b, <2>c, <3>1
    <3>2. CASE j # n /\ k # n
      <4>1. j + a - 1 = k + a - 1
        BY <2>1, <2>b, <2>c, <3>2
      <4> QED
        BY <2>a, <2>c, <4>1
    <3> QED
      BY <3>1, <3>2
  <2>9. \A j, k \in DOMAIN t : t[j] = t[k] => j = k
    BY <2>a, <2>c
  <2>10. calls' \in Seq(Nat) /\ shell!Ids(calls') = shell!Ids(calls) \cup {id}
    <3>1. calls \in Seq(Nat)
      BY DEF MessagesInv
    <3>2. /\ calls' \in Seq(Nat) /\ DOMAIN calls' = 1..(Len(calls) + 1) /\ DOMAIN calls = 1..Len(calls)
          /\ \A j \in 1..Len(calls) : calls'[j] = calls[j]
          /\ calls'[Len(calls) + 1] = id
      BY <2>2, <3>1
    <3>3. Len(calls) \in Nat
      BY <3>1
    <3>4. 1..(Len(calls) + 1) = 1..Len(calls) \cup {Len(calls) + 1}
      BY <3>3
    <3> QED
      BY <3>2, <3>3, <3>4 DEF shell!Ids
  <2>11. \A j \in DOMAIN t : t[j] \in shell!Ids(calls')
    BY <2>1, <2>5, <2>7, <2>10
  <2>12. shell!Ids(calls') = shell!Ids(calls)'
    BY DEF shell!Ids
  <2> QED
    BY <2>4, <2>5, <2>6, <2>9, <2>10, <2>11, <2>12 DEF MessagesInv, shell!MessagesPass
<1>2. CASE shell!TimerFires
  <2>1. calls # <<>> /\ shell!dismiss(Head(calls)) /\ calls' = Tail(calls) /\ calls \in Seq(Nat)
    BY <1>2 DEF shell!TimerFires, MessagesInv
  <2>2. /\ Len(calls) \in Nat /\ Len(calls) # 0 /\ calls' \in Seq(Nat) /\ DOMAIN calls = 1..Len(calls)
        /\ DOMAIN calls' = 1..(Len(calls) - 1)
        /\ \A j \in 1..(Len(calls) - 1) : calls'[j] = calls[j + 1]
        /\ Head(calls) = calls[1]
    BY <2>1
  <2>3. ASSUME NEW j \in 1..Len(calls), j # 1
        PROVE  calls[j] \in shell!Ids(calls')
    <3>1. j - 1 \in 1..(Len(calls) - 1) /\ (j - 1) + 1 = j
      BY <2>2, <2>3
    <3> QED
      BY <2>2, <3>1 DEF shell!Ids
  <2>4. \A t \in shell!Ids(calls) : t = Head(calls) \/ t \in shell!Ids(calls')
    BY <2>2, <2>3 DEF shell!Ids
  <2> QED
    BY <2>1, <2>2, <2>4, Dismissed
<1>3. ASSUME NEW i \in DOMAIN ui.toasts, shell!Dismiss(i)
      PROVE  MessagesInv'
  <2>1. shell!dismiss(ui.toasts[i]) /\ calls' = calls
    BY <1>3 DEF shell!Dismiss
  <2> QED
    BY <2>1, Dismissed DEF MessagesInv
<1> QED
  BY <1>1, <1>2, <1>3 DEF MessagesNext

LEMMA MessagesStay ==
  ASSUME ThemeInv, BoundaryInv, MessagesInv, ThemeNext \/ BoundaryNext
  PROVE  MessagesInv'
<1>1. CASE ThemeNext
  <2>1. calls' = calls
    BY <1>1 DEF ThemeNext, shell!cycleTheme, shell!setTheme, shell!ThemeEffects, shell!SystemChanges
  <2>2. DOMAIN ui' = DOMAIN ui /\ ui'.toasts = ui.toasts
    <3>1. ASSUME NEW s, NEW mode, DOMAIN s = DOMAIN ui, s.toasts = ui.toasts
          PROVE  LET t == shell!Applied(s, mode) IN DOMAIN t = DOMAIN ui /\ t.toasts = ui.toasts
      <4>1. shell!Applied(s, mode) = [[s EXCEPT !.resolved = shell!resolveTheme(mode)] EXCEPT !.document = shell!resolveTheme(mode)]
        BY <3>1 DEF shell!Applied, ThemeInv, ThemeFields
      <4> QED
        BY <3>1, <4>1 DEF MessagesInv
    <3>2. CASE shell!cycleTheme
      <4>1. PICK mode : shell!setTheme(mode)
        BY <3>2 DEF shell!cycleTheme
      <4> DEFINE s == [[ui EXCEPT !.theme = mode] EXCEPT !.effects = ui.effects \/ mode # ui.theme]
      <4>2. DOMAIN s = DOMAIN ui /\ s.toasts = ui.toasts
        BY DEF MessagesInv
      <4>3. ui' = shell!Applied(s, mode)
        BY <4>1 DEF shell!setTheme, ThemeInv, ThemeFields
      <4> HIDE DEF s
      <4> QED
        BY <3>1, <4>2, <4>3
    <3>3. CASE shell!ThemeEffects
      <4> DEFINE s == [[ui EXCEPT !.effects = FALSE] EXCEPT !.listening = ui.theme = "system"]
      <4>1. DOMAIN s = DOMAIN ui /\ s.toasts = ui.toasts
        BY DEF MessagesInv
      <4>2. ui' = shell!Applied(s, ui.theme)
        BY <3>3 DEF shell!ThemeEffects, ThemeInv, ThemeFields
      <4> HIDE DEF s
      <4> QED
        BY <3>1, <4>1, <4>2
    <3>4. CASE shell!SystemChanges
      <4>1. ui' \in {ui, [[ui EXCEPT !.resolved = ~query.osDark] EXCEPT !.document = ~query.osDark]}
        BY <3>4 DEF shell!SystemChanges
      <4> QED
        BY <4>1 DEF MessagesInv
    <3> QED
      BY <1>1, <3>2, <3>3, <3>4 DEF ThemeNext
  <2> QED
    BY <2>1, <2>2, MessagesKept
<1>2. ASSUME shell!Reload
      PROVE  MessagesInv'
  <2>1. ui' = shell!Started(ui.visit, ui.path) /\ calls' = <<>>
    BY <1>2 DEF shell!Reload
  <2>2. "toasts" \in DOMAIN ui' /\ ui'.toasts = <<>>
    BY <2>1 DEF shell!Started
  <2> QED
    BY <2>1, <2>2, TimesAreNumbers DEF MessagesInv, shell!MessagesPass
<1>3. ASSUME NEW s, NEW p, DOMAIN s = DOMAIN ui, s.toasts = ui.toasts, ui' = shell!Loads(s, p), calls' = calls
      PROVE  MessagesInv'
  <2>1. ui' \in {[[s EXCEPT !.error = "chunk"] EXCEPT !.broken = s.broken \cup {p}], [s EXCEPT !.loaded = s.loaded \cup {p}]}
    BY <1>3 DEF shell!Loads, BoundaryInv, BoundaryFields
  <2>2. DOMAIN ui' = DOMAIN ui /\ ui'.toasts = ui.toasts
    BY <1>3, <2>1 DEF MessagesInv
  <2> QED
    BY <1>3, <2>2, MessagesKept
<1>4. ASSUME NEW p \in Paths, shell!Navigate(p)
      PROVE  MessagesInv'
  <2> DEFINE s == [[[ui EXCEPT !.path = p] EXCEPT !.error = None] EXCEPT !.resetKey = p]
  <2>1. shell!Reset(ui, p) = s
    BY <1>4 DEF shell!Reset, shell!Navigate, BoundaryInv, BoundaryFields
  <2>2. DOMAIN s = DOMAIN ui /\ s.toasts = ui.toasts
    BY DEF MessagesInv
  <2>3. ui' = shell!Loads(s, p) /\ calls' = calls
    BY <1>4, <2>1 DEF shell!Navigate
  <2> HIDE DEF s
  <2> QED
    BY <1>3, <2>2, <2>3
<1>5. CASE shell!PageThrows \/ shell!Redeploy
  BY <1>5, MessagesKept DEF shell!PageThrows, shell!Redeploy, MessagesInv
<1>6. CASE shell!TryAgain
  <2> DEFINE s == [ui EXCEPT !.error = None]
  <2>1. DOMAIN s = DOMAIN ui /\ s.toasts = ui.toasts
    BY DEF MessagesInv
  <2>2. shell!Reload \/ (ui' = shell!Loads(s, ui.path) /\ calls' = calls)
    BY <1>6 DEF shell!TryAgain
  <2> HIDE DEF s
  <2> QED
    BY <1>2, <1>3, <2>1, <2>2
<1> QED
  BY <1>1, <1>2, <1>4, <1>5, <1>6 DEF BoundaryNext

ShellInv == ThemeInv /\ BoundaryInv /\ MessagesInv

LEMMA PassesInductive ==
  /\ (shell!ShellInit => ShellInv)
  /\ (ShellInv /\ [shell!ShellNext]_(shell!shellVars) => ShellInv')
  /\ (ShellInv => shell!ThemeApplied /\ shell!FailureOfItsPage /\ shell!MessagesPass)
<1>1. shell!ShellInit => ShellInv
  <2> SUFFICES ASSUME shell!ShellInit
               PROVE  ShellInv
    OBVIOUS
  <2>1. PICK v \in VisitsAt("shell"), p \in Paths : ui = shell!Started(v, p)
    BY DEF shell!ShellInit
  <2>2. /\ ThemeFields \cup BoundaryFields \cup {"toasts"} \subseteq DOMAIN ui
        /\ ui.effects = TRUE /\ ui.path = p /\ ui.resetKey = p /\ ui.error = None /\ ui.toasts = <<>>
    BY <2>1 DEF shell!Started, ThemeFields, BoundaryFields
  <2>3. {"stored", "blocked", "osDark", "release"} \subseteq DOMAIN query /\ query.osDark \in BOOLEAN /\ calls = <<>>
    BY DEF shell!ShellInit
  <2>4. ThemeInv /\ BoundaryInv
    BY <2>2, <2>3 DEF ThemeInv, BoundaryInv, shell!ThemeApplied, shell!FailureOfItsPage
  <2>5. MessagesInv
    BY <2>2, <2>3, TimesAreNumbers DEF MessagesInv, shell!MessagesPass
  <2> QED
    BY <2>4, <2>5 DEF ShellInv
<1>2. ShellInv /\ [shell!ShellNext]_(shell!shellVars) => ShellInv'
  <2> SUFFICES ASSUME ShellInv, [shell!ShellNext]_(shell!shellVars)
               PROVE  ShellInv'
    OBVIOUS
  <2>1. CASE ThemeNext
    BY <2>1, ThemeStep, MessagesStay DEF ShellInv
  <2>2. CASE BoundaryNext
    BY <2>2, BoundaryStep, MessagesStay DEF ShellInv
  <2>3. CASE MessagesNext
    BY <2>3, OnlyMessages, MessagesStep DEF ShellInv
  <2>4. CASE UNCHANGED shell!shellVars
    BY <2>4, ThemeKept, BoundaryKept, MessagesKept DEF shell!shellVars, ShellInv, ThemeInv, BoundaryInv
  <2> QED
    BY <2>1, <2>2, <2>3, <2>4 DEF shell!ShellNext, ThemeNext, BoundaryNext, MessagesNext
<1>3. ShellInv => shell!ThemeApplied /\ shell!FailureOfItsPage /\ shell!MessagesPass
  BY DEF ShellInv, ThemeInv, BoundaryInv, MessagesInv
<1> QED
  BY <1>1, <1>2, <1>3

\* The document looks as the theme says once the effects ran, whichever of the
\* theme and the system's preference changed and in whichever order with the
\* listener; a failure is of the page on show; and every message on show has a
\* timer that takes it away.
THEOREM Passes == shell!ShellSpec => [](shell!ThemeApplied /\ shell!FailureOfItsPage /\ shell!MessagesPass)
BY PassesInductive, PTL DEF shell!ShellSpec

-----------------------------------------------------------------------------
(* MetricsPages: a series ends with its last sample, and is dropped in time  *)

Sample == [t : Nat, of : metrics!Things, node : NamesAt("metrics")]

\* Sampled in this order, up to scrape n.
InOrder(points, n) ==
  /\ points \in Seq(Sample) /\ points # <<>>
  /\ \A i \in DOMAIN points : points[i].t <= n
  /\ \A i, j \in DOMAIN points : i < j => points[i].t <= points[j].t

Reported(there) ==
  /\ DOMAIN there \subseteq metrics!Things
  /\ there \in [DOMAIN there -> [node : NamesAt("metrics"), healthy : BOOLEAN]]

SeriesInv ==
  /\ {"there", "now", "ok", "lastErr", "series"} \subseteq DOMAIN query
  /\ query.now \in Nat /\ query.ok \in Nat
  /\ Reported(query.there)
  /\ \A key \in DOMAIN query.series :
       /\ "points" \in DOMAIN query.series[key]
       /\ InOrder(query.series[key].points, query.now)
       /\ metrics!LastTime(query.series[key]) + StaleAfter >= query.ok

LEMMA InOrderLater ==
  ASSUME NEW points, NEW n \in Nat, InOrder(points, n)
  PROVE  InOrder(points, n + 1)
<1>1. \A i \in DOMAIN points : points[i] \in Sample
  BY DEF InOrder
<1>2. \A i \in DOMAIN points : points[i].t \in Nat
  BY <1>1 DEF Sample
<1> QED
  BY <1>2 DEF InOrder

\* The ring keeps the last samples, and the last one of them all.
LEMMA RingInOrder ==
  ASSUME NEW points, NEW n \in Nat, InOrder(points, n)
  PROVE  InOrder(metrics!Ring(points), n)
<1>1. CASE Len(points) > Window
  <2> DEFINE m == Len(points) - Window + 1
             ring == SubSeq(points, m, Len(points))
  <2>1. points \in Seq(Sample) /\ m \in Int /\ Len(points) \in Int /\ m >= 1 /\ m <= Len(points)
    BY <1>1, SizesAreSome, ListsAreFinite DEF InOrder
  <2>2. \A i \in m .. Len(points) : i \in DOMAIN points /\ points[i] \in Sample
    BY <2>1
  <2> HIDE DEF m
  <2>3. ring \in Seq(Sample) /\ Len(ring) = Len(points) - m + 1
    BY <2>1, <2>2, SubSeqProperties
  <2>4. \A i \in 1 .. Len(points) - m + 1 : ring[i] = points[m + i - 1]
    BY <2>1, <2>2, SubSeqProperties
  <2> HIDE DEF ring
  <2>5. \A i \in DOMAIN ring : i \in Nat /\ m + i - 1 \in DOMAIN points /\ ring[i] = points[m + i - 1]
    <3>1. DOMAIN ring = 1 .. Len(points) - m + 1 /\ DOMAIN points = 1 .. Len(points)
      BY <2>1, <2>3
    <3> QED
      BY <2>1, <2>4, <3>1
  <2>6. ring # <<>>
    BY <2>1, <2>3
  <2>7. \A i, j \in DOMAIN ring : i < j => m + i - 1 < m + j - 1
    BY <2>1, <2>5
  <2>8. InOrder(ring, n)
    BY <2>3, <2>5, <2>6, <2>7 DEF InOrder
  <2>9. metrics!Ring(points) = ring
    BY <1>1 DEF metrics!Ring, ring, m
  <2> QED
    BY <2>8, <2>9
<1>2. CASE ~(Len(points) > Window)
  BY <1>2 DEF metrics!Ring
<1> QED
  BY <1>1, <1>2

LEMMA SameCount == \A S : metrics!Cardinality(S) = Cardinality(S)
BY DEF metrics!Cardinality, Cardinality

\* The samples of a scrape are one for each thing with the key.
LEMMA SampledNow ==
  ASSUME SeriesInv, NEW key
  PROVE  /\ metrics!Sampled(key) \in Seq(Sample)
         /\ \A i \in DOMAIN metrics!Sampled(key) :
              metrics!Sampled(key)[i].t = query.now + 1 /\ metrics!Key(metrics!Sampled(key)[i].of) = key
         /\ (\E k \in DOMAIN query.there : metrics!Key(k) = key) => metrics!Sampled(key) # <<>>
<1> DEFINE things == {k \in DOMAIN query.there : metrics!Key(k) = key}
           n == Cardinality(things)
           OneEach(f) == \A i, j \in DOMAIN f : i # j => f[i] # f[j]
           order == CHOOSE f \in [1 .. n -> things] : OneEach(f)
           sample(i) == [t |-> query.now + 1, of |-> order[i], node |-> query.there[order[i]].node]
<1>1. IsFiniteSet(things)
  <2>1. things \in SUBSET (Volumes \cup Gauges)
    BY DEF SeriesInv, Reported, metrics!Things
  <2> QED
    BY <2>1, SizesAreSome, ListsAreFinite, FS_Subset
<1>2. n \in Nat /\ ExistsBijection(1 .. n, things)
  BY <1>1, FS_CardinalityType
<1>3. PICK f \in Bijection(1 .. n, things) : TRUE
  BY <1>2 DEF ExistsBijection
<1>4. f \in [1 .. n -> things] /\ OneEach(f)
  <2>1. f \in Injection(1 .. n, things)
    BY <1>3 DEF Bijection
  <2>2. f \in [1 .. n -> things] /\ IsInjective(f)
    BY <2>1 DEF Injection
  <2> QED
    BY <2>2 DEF IsInjective
<1>5. order \in [1 .. n -> things]
  BY <1>4
<1>6. metrics!Sampled(key) = [i \in DOMAIN order |-> sample(i)]
  BY SameCount DEF metrics!Sampled
<1>7. (\E k \in DOMAIN query.there : metrics!Key(k) = key) => n # 0
  BY <1>2, <1>3 DEF Bijection, Surjection
<1> HIDE DEF order, n
<1>8. \A i \in 1 .. n : sample(i) \in Sample /\ sample(i).t = query.now + 1 /\ metrics!Key(sample(i).of) = key
  <2> SUFFICES ASSUME NEW i \in 1 .. n
               PROVE  sample(i) \in Sample /\ sample(i).t = query.now + 1 /\ metrics!Key(sample(i).of) = key
    OBVIOUS
  <2>1. order[i] \in DOMAIN query.there /\ metrics!Key(order[i]) = key /\ query.now + 1 \in Nat
    BY <1>5 DEF SeriesInv
  <2>2. order[i] \in metrics!Things /\ query.there[order[i]].node \in NamesAt("metrics")
    BY <2>1 DEF SeriesInv, Reported
  <2> QED
    BY <2>1, <2>2 DEF Sample
<1> HIDE DEF sample
<1>9. metrics!Sampled(key) = [i \in 1 .. n |-> sample(i)]
  BY <1>5, <1>6
<1>10. [i \in 1 .. n |-> sample(i)] \in Seq(Sample) /\ Len([i \in 1 .. n |-> sample(i)]) = n
  BY <1>2, <1>8
<1> QED
  BY <1>2, <1>7, <1>8, <1>9, <1>10

\* What a scrape adds comes after what was there.
LEMMA AppendedInOrder ==
  ASSUME SeriesInv, NEW key \in DOMAIN metrics!Appended
  PROVE  /\ "points" \in DOMAIN metrics!Appended[key]
         /\ InOrder(metrics!Appended[key].points, query.now + 1)
<1> DEFINE new == metrics!Sampled(key)
<1>1. /\ new \in Seq(Sample)
      /\ \A i \in DOMAIN new : new[i].t = query.now + 1
      /\ query.now \in Nat /\ query.now + 1 \in Nat
  BY SampledNow DEF SeriesInv
<1> HIDE DEF new
<1>2. CASE key \in DOMAIN query.series
  <2> DEFINE old == query.series[key].points
             both == old \o new
  <2>1. "points" \in DOMAIN query.series[key] /\ InOrder(old, query.now)
    BY <1>2 DEF SeriesInv
  <2> HIDE DEF old
  <2>2. /\ old \in Seq(Sample) /\ both \in Seq(Sample) /\ Len(both) = Len(old) + Len(new)
        /\ \A i \in 1 .. Len(old) + Len(new) : both[i] = IF i <= Len(old) THEN old[i] ELSE new[i - Len(old)]
    BY <1>1, <2>1, ConcatProperties DEF InOrder
  <2> HIDE DEF both
  <2>3. \A i \in DOMAIN both : \/ i \in DOMAIN old /\ both[i] = old[i] /\ i <= Len(old)
                               \/ both[i].t = query.now + 1 /\ i > Len(old)
    <3> SUFFICES ASSUME NEW i \in DOMAIN both
                 PROVE  \/ i \in DOMAIN old /\ both[i] = old[i] /\ i <= Len(old)
                        \/ both[i].t = query.now + 1 /\ i > Len(old)
      OBVIOUS
    <3>1. i \in 1 .. Len(old) + Len(new)
      BY <2>2
    <3>2. CASE i <= Len(old)
      BY <2>2, <3>1, <3>2
    <3>3. CASE i > Len(old)
      <4>1. i - Len(old) \in DOMAIN new /\ both[i] = new[i - Len(old)]
        BY <1>1, <2>2, <3>1, <3>3
      <4> QED
        BY <1>1, <3>3, <4>1
    <3> QED
      BY <2>2, <3>1, <3>2, <3>3
  <2>4. \A i \in DOMAIN old : old[i].t \in Nat /\ old[i].t <= query.now
    <3>1. \A i \in DOMAIN old : old[i] \in Sample /\ old[i].t <= query.now
      BY <2>1 DEF InOrder
    <3> QED
      BY <3>1 DEF Sample
  <2>5. \A i \in DOMAIN both : both[i].t <= query.now + 1
    BY <1>1, <2>3, <2>4
  <2>6. \A i, j \in DOMAIN both : i < j => both[i].t <= both[j].t
    <3> SUFFICES ASSUME NEW i \in DOMAIN both, NEW j \in DOMAIN both, i < j
                 PROVE  both[i].t <= both[j].t
      OBVIOUS
    <3>1. CASE j > Len(old)
      BY <2>3, <2>5, <3>1, <2>2
    <3>2. CASE j <= Len(old)
      <4>1. j \in DOMAIN old /\ both[j] = old[j] /\ i <= Len(old)
        BY <2>2, <2>3, <3>2
      <4>2. i \in DOMAIN old /\ both[i] = old[i]
        BY <2>2, <2>3, <4>1
      <4> QED
        BY <2>1, <4>1, <4>2 DEF InOrder
    <3> QED
      BY <2>2, <3>1, <3>2
  <2>7. both # <<>>
    BY <2>1, <2>2, <1>1 DEF InOrder
  <2>8. InOrder(both, query.now + 1)
    BY <2>2, <2>5, <2>6, <2>7 DEF InOrder
  <2>9. InOrder(metrics!Ring(both), query.now + 1)
    BY <1>1, <2>8, RingInOrder
  <2>10. metrics!Appended[key] = [query.series[key] EXCEPT !.points = metrics!Ring(both)]
    BY <1>2 DEF metrics!Appended, both, old, new
  <2> QED
    BY <2>1, <2>9, <2>10
<1>3. CASE key \notin DOMAIN query.series
  <2>1. \E k \in DOMAIN query.there : metrics!Key(k) = key
    BY <1>3 DEF metrics!Appended
  <2>2. new # <<>>
    BY <2>1, SampledNow DEF new
  <2>3. InOrder(new, query.now + 1)
    BY <1>1, <2>2 DEF InOrder
  <2>4. InOrder(metrics!Ring(new), query.now + 1)
    BY <1>1, <2>3, RingInOrder
  <2>5. metrics!Appended[key] =
          [node |-> IF key \in Volumes THEN query.there[key].node ELSE key, points |-> metrics!Ring(new)]
    BY <1>3 DEF metrics!Appended, new
  <2> QED
    BY <2>4, <2>5
<1> QED
  BY <1>2, <1>3

LEMMA SeriesKept ==
  ASSUME SeriesInv, DOMAIN query' = DOMAIN query, Reported(query'.there), query'.now = query.now,
         query'.ok = query.ok, query'.series = query.series
  PROVE  SeriesInv'
BY DEF SeriesInv, InOrder, metrics!LastTime, Reported

LEMMA SeriesStep ==
  ASSUME SeriesInv, metrics!MetricsNext
  PROVE  SeriesInv'
<1> DEFINE there == query.there
<1>1. ASSUME NEW v, NEW n \in NamesAt("metrics"), metrics!Moves(v, n)
      PROVE  SeriesInv'
  <2>1. query' = [query EXCEPT !.there = [there EXCEPT ![v].node = n]] /\ v \in DOMAIN there
    BY <1>1 DEF metrics!Moves, SeriesInv
  <2>2. Reported([there EXCEPT ![v].node = n])
    BY <2>1 DEF SeriesInv, Reported
  <2> HIDE DEF there
  <2> QED
    BY <2>1, <2>2, SeriesKept DEF SeriesInv
<1>2. ASSUME NEW v, metrics!Degrades(v)
      PROVE  SeriesInv'
  <2>1. query' = [query EXCEPT !.there = [there EXCEPT ![v].healthy = ~there[v].healthy]] /\ v \in DOMAIN there
    BY <1>2 DEF metrics!Degrades, SeriesInv
  <2>2. Reported([there EXCEPT ![v].healthy = ~there[v].healthy])
    BY <2>1 DEF SeriesInv, Reported
  <2> HIDE DEF there
  <2> QED
    BY <2>1, <2>2, SeriesKept DEF SeriesInv
<1>3. ASSUME NEW k, metrics!Removed(k)
      PROVE  SeriesInv'
  <2>1. query' = [query EXCEPT !.there = [j \in DOMAIN there \ {k} |-> there[j]]]
    BY <1>3 DEF metrics!Removed
  <2>2. Reported([j \in DOMAIN there \ {k} |-> there[j]])
    BY DEF SeriesInv, Reported
  <2> HIDE DEF there
  <2> QED
    BY <2>1, <2>2, SeriesKept DEF SeriesInv
<1>4. CASE metrics!Scrape
  <2> DEFINE after == metrics!Pruned(metrics!Appended)
  <2>1. query' = [[[[query EXCEPT !.now = query.now + 1] EXCEPT !.lastErr = FALSE]
                      EXCEPT !.ok = query.now + 1] EXCEPT !.series = after]
    BY <1>4 DEF metrics!Scrape, SeriesInv
  <2>2. \A key \in DOMAIN after : /\ key \in DOMAIN metrics!Appended /\ after[key] = metrics!Appended[key]
                                  /\ metrics!LastTime(after[key]) + StaleAfter >= query.now + 1
    BY DEF metrics!Pruned
  <2>3. \A key \in DOMAIN after : "points" \in DOMAIN after[key] /\ InOrder(after[key].points, query.now + 1)
    BY <2>2, AppendedInOrder
  <2> HIDE DEF after
  <2>4. /\ DOMAIN query' = DOMAIN query /\ query'.there = there /\ query'.now = query.now + 1
        /\ query'.ok = query.now + 1 /\ query'.series = after
    BY <2>1 DEF SeriesInv
  <2> QED
    BY <2>2, <2>3, <2>4 DEF SeriesInv, InOrder, metrics!LastTime, Reported
<1>5. CASE metrics!ScrapeFails
  <2>1. query' = [[query EXCEPT !.now = query.now + 1] EXCEPT !.lastErr = TRUE]
    BY <1>5 DEF metrics!ScrapeFails, SeriesInv
  <2>2. /\ DOMAIN query' = DOMAIN query /\ query'.there = there /\ query'.now = query.now + 1
        /\ query'.ok = query.ok /\ query'.series = query.series
    BY <2>1 DEF SeriesInv
  <2>3. \A key \in DOMAIN query.series : InOrder(query.series[key].points, query.now + 1)
    BY InOrderLater DEF SeriesInv
  <2> QED
    BY <2>2, <2>3 DEF SeriesInv, InOrder, metrics!LastTime, Reported
<1>6. CASE metrics!VolumesFetched \/ metrics!SeriesFetched \/ metrics!HealthFetched
  BY <1>6, SeriesKept DEF metrics!VolumesFetched, metrics!SeriesFetched, metrics!HealthFetched, SeriesInv
<1> QED
  BY <1>1, <1>2, <1>3, <1>4, <1>5, <1>6 DEF metrics!MetricsNext

LEMMA GhostsDroppedInductive ==
  /\ (metrics!MetricsInit => SeriesInv)
  /\ (SeriesInv /\ [metrics!MetricsNext]_(metrics!metricsVars) => SeriesInv')
  /\ (SeriesInv => metrics!NoGhosts)
<1>1. metrics!MetricsInit => SeriesInv
  <2> SUFFICES ASSUME metrics!MetricsInit
               PROVE  SeriesInv
    OBVIOUS
  <2>1. PICK where \in [metrics!Things -> NamesAt("metrics")] :
          query = [there |-> [k \in metrics!Things |-> [node |-> where[k], healthy |-> TRUE]],
                   now |-> 0, ok |-> 0, lastErr |-> FALSE, series |-> <<>>]
    BY DEF metrics!MetricsInit
  <2>2. Reported(query.there)
    BY <2>1 DEF Reported
  <2> QED
    BY <2>1, <2>2 DEF SeriesInv
<1>2. SeriesInv /\ [metrics!MetricsNext]_(metrics!metricsVars) => SeriesInv'
  <2>1. ASSUME SeriesInv, UNCHANGED metrics!metricsVars
        PROVE  SeriesInv'
    BY <2>1, SeriesKept DEF metrics!metricsVars, SeriesInv
  <2> QED
    BY <2>1, SeriesStep
<1>3. SeriesInv => metrics!NoGhosts
  BY DEF SeriesInv, InOrder, metrics!NoGhosts
<1> QED
  BY <1>1, <1>2, <1>3

\* After a scrape that worked no series outlives what it is about by more than
\* the scrapes allowed, however often scrapes fail and things move or go, and
\* the points of a series are in the order of their scrapes.
THEOREM GhostsDropped == metrics!MetricsSpec => []metrics!NoGhosts
BY GhostsDroppedInductive, PTL DEF metrics!MetricsSpec

-----------------------------------------------------------------------------
(* TablePage: the page begins with a row that passes the search              *)

LEMMA SameNumber == \A S : dataTable!Cardinality(S) = Cardinality(S)
BY DEF dataTable!Cardinality, Cardinality

\* The ranks of the rows of a set are the numbers below their number.
LEMMA EachRankTaken ==
  ASSUME NEW S \in SUBSET Int, IsFiniteSet(S), NEW descending, NEW k \in Nat, k < Cardinality(S)
  PROVE  \E r \in S : dataTable!Rank(r, S, descending) = k
<1> DEFINE n == Cardinality(S)
           before(r) == {s \in S : IF descending THEN s > r ELSE s < r}
           rank == [r \in S |-> Cardinality(before(r))]
<1>1. \A r \in S : dataTable!Rank(r, S, descending) = rank[r]
  BY SameNumber DEF dataTable!Rank
<1>2. \A r \in S : rank[r] \in 0 .. n - 1
  <2> SUFFICES ASSUME NEW r \in S
               PROVE  Cardinality(before(r)) \in 0 .. n - 1
    OBVIOUS
  <2>1. IsFiniteSet(S \ {r}) /\ Cardinality(S \ {r}) = n - 1
    BY FS_RemoveElement
  <2>2. before(r) \in SUBSET (S \ {r})
    OBVIOUS
  <2>3. IsFiniteSet(before(r)) /\ Cardinality(before(r)) <= n - 1
    BY <2>1, <2>2, FS_Subset
  <2>4. Cardinality(before(r)) \in Nat /\ n \in Nat
    BY <2>3, FS_CardinalityType
  <2> HIDE DEF before
  <2> QED
    BY <2>3, <2>4
<1>3. ASSUME NEW r \in S, NEW s \in S, s \in before(r)
      PROVE  rank[s] < rank[r]
  <2>1. before(s) \in SUBSET (before(r) \ {s})
    <3> SUFFICES ASSUME NEW q \in before(s)
                 PROVE  q \in before(r) \ {s}
      OBVIOUS
    <3>1. r \in Int /\ s \in Int /\ q \in Int /\ q \in S
      OBVIOUS
    <3>2. IF descending THEN s > r /\ q > s ELSE s < r /\ q < s
      BY <1>3
    <3>3. (IF descending THEN q > r ELSE q < r) /\ q # s
      BY <3>1, <3>2
    <3> QED
      BY <3>1, <3>3
  <2>2. IsFiniteSet(before(r))
    BY FS_Subset
  <2>3. IsFiniteSet(before(r) \ {s}) /\ Cardinality(before(r) \ {s}) = Cardinality(before(r)) - 1
    BY <1>3, <2>2, FS_RemoveElement
  <2>4. Cardinality(before(s)) <= Cardinality(before(r)) - 1
    BY <2>1, <2>3, FS_Subset
  <2>5. rank[s] \in Int /\ rank[r] \in Int
    BY <1>2
  <2> HIDE DEF before
  <2> QED
    BY <2>4, <2>5
<1>4. \A r, s \in S : rank[r] = rank[s] => r = s
  <2> SUFFICES ASSUME NEW r \in S, NEW s \in S, r # s
               PROVE  rank[r] # rank[s]
    OBVIOUS
  <2>1. s \in before(r) \/ r \in before(s)
    OBVIOUS
  <2>2. rank[s] \in Int /\ rank[r] \in Int
    BY <1>2
  <2> HIDE DEF rank, before
  <2> QED
    BY <1>3, <2>1, <2>2
<1>5. rank \in Injection(S, 0 .. n - 1)
  <2>1. rank \in [S -> 0 .. n - 1]
    BY <1>2
  <2> HIDE DEF rank
  <2>2. IsInjective(rank)
    BY <1>4, <2>1 DEF IsInjective
  <2> QED
    BY <2>1, <2>2 DEF Injection
<1>6. n \in Nat /\ IsFiniteSet(0 .. n - 1) /\ Cardinality(0 .. n - 1) = n
  <2>1. n \in Nat
    BY FS_CardinalityType
  <2> HIDE DEF n
  <2> QED
    BY <2>1, FS_Interval
<1>7. rank \in Surjection(S, 0 .. n - 1)
  BY <1>5, <1>6, FS_Injection
<1>8. k \in 0 .. n - 1
  BY <1>6
<1> HIDE DEF rank, n
<1>9. PICK r \in S : rank[r] = k
  BY <1>7, <1>8 DEF Surjection
<1> QED
  BY <1>1, <1>9

\* Division by the size of a page.
LEMMA WholePages ==
  ASSUME NEW m \in Nat, NEW size \in Nat \ {0}
  PROVE  /\ m \div size \in Nat /\ (m \div size) * size <= m
         /\ m < (m \div size) * size + size
OBVIOUS

LEMMA PageOfItsFirst ==
  ASSUME NEW page \in Nat, NEW size \in Nat \ {0}
  PROVE  page * size \in Nat /\ (page * size) \div size = page
OBVIOUS

Count == Cardinality(dataTable!Filtered)

PageBegun ==
  /\ query \subseteq RowIds
  /\ {"search", "descending", "page", "size", "selected"} \subseteq DOMAIN ui
  /\ ui.page \in Nat /\ ui.size \in Nat \ {0}
  /\ ui.page = 0 \/ ui.page * ui.size < Count

LEMMA FilteredFinite ==
  ASSUME PageBegun
  PROVE  dataTable!Filtered \in SUBSET Int /\ IsFiniteSet(dataTable!Filtered) /\ Count \in Nat
<1>1. dataTable!Filtered \in SUBSET RowIds
  BY DEF PageBegun, dataTable!Filtered
<1>2. IsFiniteSet(dataTable!Filtered)
  BY <1>1, ListsAreFinite, FS_Subset
<1> QED
  BY <1>1, <1>2, RowsAreOrdered, FS_CardinalityType DEF Count

LEMMA FirstPage ==
  ASSUME PageBegun, query' \subseteq RowIds, DOMAIN ui' = DOMAIN ui, ui'.page = 0, ui'.size = ui.size
  PROVE  PageBegun'
BY DEF PageBegun

LEMMA PageKept ==
  ASSUME PageBegun, query' = query, DOMAIN ui' = DOMAIN ui, ui'.page = ui.page, ui'.size = ui.size,
         ui'.search = ui.search
  PROVE  PageBegun'
BY DEF PageBegun, Count, dataTable!Filtered

LEMMA PageTurned ==
  ASSUME PageBegun, dataTable!TurnPage
  PROVE  PageBegun'
<1> DEFINE size == ui.size
           n == Count
<1>1. /\ ui.page \in Nat /\ size \in Nat \ {0} /\ n \in Nat
      /\ query' = query /\ query \subseteq RowIds
  BY FilteredFinite DEF PageBegun, dataTable!TurnPage
<1>2. PICK page : ui' = [ui EXCEPT !.page = page] /\ (page = ui.page - 1 \/ page = ui.page + 1)
  BY DEF dataTable!TurnPage
<1>3. /\ DOMAIN ui' = DOMAIN ui /\ ui'.page = page /\ ui'.size = size /\ Count' = n
      /\ {"search", "descending", "page", "size", "selected"} \subseteq DOMAIN ui
  BY <1>1, <1>2 DEF PageBegun, Count, dataTable!Filtered
<1>4. CASE page = ui.page - 1
  <2>1. ui.page > 0
    BY <1>1, <1>3, <1>4 DEF dataTable!TurnPage
  <2>2. page \in Nat /\ ui.page * size < n
    BY <1>1, <1>4, <2>1 DEF PageBegun
  <2>3. (ui.page - 1) * size = ui.page * size - size
    BY <1>1
  <2>4. page * size < n
    BY <1>1, <1>4, <2>2, <2>3
  <2> QED
    BY <1>1, <1>3, <2>2, <2>4 DEF PageBegun
<1>5. CASE page = ui.page + 1
  <2> DEFINE full == (n + size - 1) \div size
  <2>1. dataTable!PageCount = dataTable!Max({1, full})
    BY SameNumber DEF dataTable!PageCount, Count
  <2>2. full \in Nat /\ full * size <= n + size - 1
    <3>1. n + size - 1 \in Nat
      BY <1>1
    <3> QED
      BY <1>1, <3>1, WholePages
  <2> HIDE DEF full
  <2>3. dataTable!PageCount \in {1, full}
    <3>1. \E x \in {1, full} : \A y \in {1, full} : x >= y
      BY <2>2
    <3> QED
      BY <2>1, <3>1 DEF dataTable!Max
  <2>4. ui.page < dataTable!PageCount - 1
    BY <1>1, <1>3, <1>5 DEF dataTable!TurnPage
  <2>5. ui.page + 2 <= full
    BY <1>1, <2>2, <2>3, <2>4
  <2>6. (ui.page + 2) * size <= full * size
    BY <1>1, <2>2, <2>5
  <2>7. (ui.page + 2) * size = (ui.page + 1) * size + size
    BY <1>1
  <2>8. page \in Nat /\ page * size < n
    BY <1>1, <1>5, <2>2, <2>6, <2>7
  <2> QED
    BY <1>1, <1>3, <2>8 DEF PageBegun
<1> QED
  BY <1>2, <1>4, <1>5

LEMMA PageStep ==
  ASSUME PageBegun, dataTable!TableNext
  PROVE  PageBegun'
<1>1. CASE dataTable!DataChanges
  BY <1>1, FirstPage DEF dataTable!DataChanges, PageBegun
<1>2. ASSUME NEW text, dataTable!Search(text)
      PROVE  PageBegun'
  <2>1. ui' = [[ui EXCEPT !.search = text] EXCEPT !.page = 0] /\ query' = query
    BY <1>2 DEF dataTable!Search, PageBegun
  <2> QED
    BY <2>1, FirstPage DEF PageBegun
<1>3. CASE dataTable!Sort
  <2>1. ui' = [[ui EXCEPT !.descending = ~ui.descending] EXCEPT !.page = 0] /\ query' = query
    BY <1>3 DEF dataTable!Sort, PageBegun
  <2> QED
    BY <2>1, FirstPage DEF PageBegun
<1>4. ASSUME NEW size \in PageSizes, dataTable!SetPageSize(size)
      PROVE  PageBegun'
  <2> DEFINE first == ui.page * ui.size
             page == first \div size
  <2>1. ui' = [[ui EXCEPT !.size = size] EXCEPT !.page = page] /\ query' = query
    BY <1>4 DEF dataTable!SetPageSize, PageBegun
  <2>2. ui.page \in Nat /\ ui.size \in Nat \ {0} /\ size \in Nat \ {0} /\ first \in Nat
    <3>1. ui.page \in Nat /\ ui.size \in Nat \ {0} /\ size \in Nat \ {0}
      BY SizesAreSome DEF PageBegun
    <3> QED
      BY <3>1
  <2>3. ui.page = 0 => first = 0
    BY <2>2
  <2> HIDE DEF first
  <2>4. page \in Nat /\ page * size <= first
    BY <2>2, WholePages
  <2>5. first = 0 => page = 0
    BY <2>2
  <2> HIDE DEF page
  <2>6. /\ DOMAIN ui' = DOMAIN ui /\ ui'.page = page /\ ui'.size = size /\ Count' = Count
    BY <2>1 DEF PageBegun, Count, dataTable!Filtered
  <2>7. Count \in Nat /\ page * size \in Nat
    BY <2>2, <2>4, FilteredFinite
  <2>8. page = 0 \/ page * size < Count
    BY <2>2, <2>3, <2>4, <2>5, <2>7 DEF PageBegun, first
  <2> QED
    BY <2>1, <2>2, <2>4, <2>6, <2>8 DEF PageBegun
<1>5. CASE dataTable!TurnPage
  BY <1>5, PageTurned
<1>6. ASSUME NEW selected, ui' = [ui EXCEPT !.selected = selected], query' = query
      PROVE  PageBegun'
  BY <1>6, PageKept DEF PageBegun
<1>7. ASSUME NEW r, dataTable!ToggleRow(r)
      PROVE  PageBegun'
  BY <1>6, <1>7 DEF dataTable!ToggleRow
<1>8. CASE dataTable!TogglePage
  BY <1>6, <1>8 DEF dataTable!TogglePage
<1>9. CASE dataTable!ClearSelection
  BY <1>6, <1>9 DEF dataTable!ClearSelection
<1>10. CASE UNCHANGED <<query, ui>>
  BY <1>10, PageKept
<1>11. ASSUME NEW view, dataTable!ApplyView(view)
       PROVE  PageBegun'
  <2> DEFINE page == IF view.search = ui.search THEN ui.page ELSE 0
  <2>1. ui' = [[ui EXCEPT !.search = view.search] EXCEPT !.page = page] /\ query' = query
    BY <1>11 DEF dataTable!ApplyView, PageBegun
  <2>2. CASE view.search = ui.search
    BY <2>1, <2>2, PageKept DEF PageBegun
  <2>3. CASE view.search # ui.search
    BY <2>1, <2>3, FirstPage DEF PageBegun
  <2> QED
    BY <2>2, <2>3
<1>12. CASE dataTable!Reload
  <2>1. PICK size \in PageSizes :
          ui' = [search |-> "", descending |-> FALSE, page |-> 0, size |-> size, selected |-> {}]
    BY <1>12 DEF dataTable!Reload
  <2> QED
    BY <1>12, <2>1, SizesAreSome DEF dataTable!Reload, PageBegun
<1>13. ASSUME NEW x, \/ dataTable!SetDensity(x) \/ dataTable!ToggleColumn(x) \/ dataTable!SaveView(x)
                     \/ dataTable!DeleteView(x)
       PROVE  PageBegun'
  BY <1>10, <1>13 DEF dataTable!SetDensity, dataTable!ToggleColumn, dataTable!SaveView, dataTable!DeleteView
<1> QED
  BY <1>1, <1>2, <1>3, <1>4, <1>5, <1>7, <1>8, <1>9, <1>11, <1>12, <1>13 DEF dataTable!TableNext

LEMMA NeverBlankInductive ==
  /\ (dataTable!TableInit => PageBegun)
  /\ (PageBegun /\ [dataTable!TableNext]_(dataTable!tableVars) => PageBegun')
  /\ (PageBegun => dataTable!NoBlankPage)
<1>1. dataTable!TableInit => PageBegun
  <2> SUFFICES ASSUME dataTable!TableInit
               PROVE  PageBegun
    OBVIOUS
  <2>1. PICK size \in PageSizes :
          ui = [search |-> "", descending |-> FALSE, page |-> 0, size |-> size, selected |-> {}]
    BY DEF dataTable!TableInit
  <2>2. query \subseteq RowIds /\ size \in Nat \ {0}
    BY SizesAreSome DEF dataTable!TableInit
  <2> QED
    BY <2>1, <2>2 DEF PageBegun
<1>2. PageBegun /\ [dataTable!TableNext]_(dataTable!tableVars) => PageBegun'
  <2>1. ASSUME PageBegun, UNCHANGED dataTable!tableVars
        PROVE  PageBegun'
    BY <2>1, PageKept DEF dataTable!tableVars
  <2> QED
    BY <2>1, PageStep
<1>3. PageBegun => dataTable!NoBlankPage
  <2> SUFFICES ASSUME PageBegun, dataTable!Filtered # {}
               PROVE  dataTable!PageRows # {}
    BY DEF dataTable!NoBlankPage
  <2> DEFINE S == dataTable!Filtered
             k == ui.page * ui.size
  <2>1. S \in SUBSET Int /\ IsFiniteSet(S) /\ Cardinality(S) \in Nat /\ Cardinality(S) # 0
    BY FilteredFinite, FS_EmptySet DEF Count
  <2>2. ui.page \in Nat /\ ui.size \in Nat \ {0}
    BY DEF PageBegun
  <2>3. k \in Nat /\ k \div ui.size = ui.page /\ (ui.page = 0 => k = 0)
    BY <2>2, PageOfItsFirst
  <2>4. k < Cardinality(S)
    BY <2>1, <2>2, <2>3 DEF PageBegun, Count
  <2> HIDE DEF k
  <2>5. PICK r \in S : dataTable!Rank(r, S, ui.descending) = k
    BY <2>1, <2>3, <2>4, EachRankTaken
  <2> QED
    BY <2>3, <2>5 DEF dataTable!PageRows
<1> QED
  BY <1>1, <1>2, <1>3

\* Whatever polls, searches, sort orders, page sizes and saved views follow one
\* another, the page shown is never blank while a row passes the search.
THEOREM NeverBlank == dataTable!TableSpec => []dataTable!NoBlankPage
BY NeverBlankInductive, PTL DEF dataTable!TableSpec

-----------------------------------------------------------------------------
(* A visit: the page that is mounted keeps its invariant                     *)

VisitInv ==
  /\ route = "operations" => AckInv
  /\ route = "queries" => QueriesInv
  /\ route = "users" => OthersInv
  /\ route = "policy" => DraftInv
  /\ route = "volumes" => BulkInv /\ FitsInv
  /\ route = "engineImages" => ImagesInv
  /\ route = "recurringJobs" => JobsInv
  /\ route = "settings" => DangerInv
  /\ route = "nodes" => NodesInv
  /\ route = "backupTargets" => TargetsInv
  /\ route = "backups" => BackupsOwnInv
  /\ route = "images" => UploadsInv
  /\ route = "sso" => WaitsInv
  /\ route = "ceph" => LoginInv
  /\ route = "support" => SupportInv
  /\ route = "shell" => ShellInv
  /\ route = "metrics" => SeriesInv
  /\ route = "dataTable" => PageBegun

LEMMA VisitBegins ==
  ASSUME PagesInit
  PROVE  VisitInv
<1>1. ASSUME route = "operations"
      PROVE  AckInv
  <2>1. operations!OperationInit
    BY <1>1 DEF PagesInit
  <2> QED
    BY <2>1, ReviewedInductive
<1>2. ASSUME route = "queries"
      PROVE  QueriesInv
  <2>1. queries!QueriesInit
    BY <1>2 DEF PagesInit
  <2> QED
    BY <2>1, ShownInductive
<1>3. ASSUME route = "users"
      PROVE  OthersInv
  <2>1. users!UsersInit
    BY <1>3 DEF PagesInit
  <2> QED
    BY <2>1, OwnAccountInductive
<1>4. ASSUME route = "policy"
      PROVE  DraftInv
  <2>1. policy!PolicyInit
    BY <1>4 DEF PagesInit
  <2> QED
    BY <2>1, AdmissibleInductive
<1>5. ASSUME route = "volumes"
      PROVE  BulkInv /\ FitsInv
  <2>1. volumes!VolumesInit
    BY <1>5 DEF PagesInit
  <2> QED
    BY <2>1, FrontendFitsInductive
<1>6. ASSUME route = "engineImages"
      PROVE  ImagesInv
  <2>1. engineImages!EngineImagesInit
    BY <1>6 DEF PagesInit
  <2> QED
    BY <2>1, DefaultKeptInductive
<1>7. ASSUME route = "recurringJobs"
      PROVE  JobsInv
  <2>1. recurringJobs!JobsInit
    BY <1>7 DEF PagesInit
  <2> QED
    BY <2>1, SavesOwnJobInductive
<1>8. ASSUME route = "settings"
      PROVE  DangerInv
  <2>1. settings!SettingsInit
    BY <1>8 DEF PagesInit
  <2> QED
    BY <2>1, OwnAnswerInductive
<1>9. ASSUME route = "nodes"
      PROVE  NodesInv
  <2>1. nodes!NodesInit
    BY <1>9 DEF PagesInit
  <2> QED
    BY <2>1, DisksRemovedInductive
<1>10. ASSUME route = "backupTargets"
      PROVE  TargetsInv
  <2>1. backupTargets!BackupTargetsInit
    BY <1>10 DEF PagesInit
  <2> QED
    BY <2>1, WholeTargetsInductive
<1>11. ASSUME route = "backups"
      PROVE  BackupsOwnInv
  <2>1. backups!BackupsInit
    BY <1>11 DEF PagesInit
  <2> QED
    BY <2>1, RestoresOwnInductive
<1>12. ASSUME route = "images"
      PROVE  UploadsInv
  <2>1. images!ImagesInit
    BY <1>12 DEF PagesInit
  <2> QED
    BY <2>1, ReleasedInductive
<1>13. ASSUME route = "sso"
      PROVE  WaitsInv
  <2>1. sso!SSOInit
    BY <1>13 DEF PagesInit
  <2> QED
    BY <2>1, FormReleasedInductive
<1>14. ASSUME route = "ceph"
      PROVE  LoginInv
  <2>1. ceph!CephInit
    BY <1>14 DEF PagesInit
  <2> QED
    BY <2>1, HiddenInductive
<1>15. ASSUME route = "support"
      PROVE  SupportInv
  <2>1. support!SupportInit
    BY <1>15 DEF PagesInit
  <2> QED
    BY <2>1, FollowedInductive
<1>16. ASSUME route = "shell"
      PROVE  ShellInv
  <2>1. shell!ShellInit
    BY <1>16 DEF PagesInit
  <2> QED
    BY <2>1, PassesInductive
<1>17. ASSUME route = "metrics"
      PROVE  SeriesInv
  <2>1. metrics!MetricsInit
    BY <1>17 DEF PagesInit
  <2> QED
    BY <2>1, GhostsDroppedInductive
<1>18. ASSUME route = "dataTable"
      PROVE  PageBegun
  <2>1. dataTable!TableInit
    BY <1>18 DEF PagesInit
  <2> QED
    BY <2>1, NeverBlankInductive
<1> QED
  BY <1>1, <1>2, <1>3, <1>4, <1>5, <1>6, <1>7, <1>8, <1>9, <1>10, <1>11, <1>12, <1>13, <1>14, <1>15,
     <1>16, <1>17, <1>18 DEF VisitInv

\* A step is one of the page that is mounted, which stays so.
LEMMA StaysOnItsPage == [PagesNext]_pagesVars => route' = route
BY DEF PagesNext, pagesVars, At

LEMMA VisitStep ==
  ASSUME VisitInv, [PagesNext]_pagesVars
  PROVE  VisitInv'
<1>0. route' = route
  BY StaysOnItsPage
<1>1. ASSUME route = "operations"
      PROVE  AckInv'
  <2>1. operations!OperationNext \/ UNCHANGED operations!operationVars
    BY <1>1 DEF PagesNext, pagesVars, At, operations!operationVars
  <2> QED
    BY <1>1, <2>1, ReviewedInductive DEF VisitInv
<1>2. ASSUME route = "queries"
      PROVE  QueriesInv'
  <2>1. queries!QueriesNext \/ UNCHANGED queries!queriesVars
    BY <1>2 DEF PagesNext, pagesVars, At, queries!queriesVars
  <2> QED
    BY <1>2, <2>1, ShownInductive DEF VisitInv
<1>3. ASSUME route = "users"
      PROVE  OthersInv'
  <2>1. users!UsersNext \/ UNCHANGED users!usersVars
    BY <1>3 DEF PagesNext, pagesVars, At, users!usersVars
  <2> QED
    BY <1>3, <2>1, OwnAccountInductive DEF VisitInv
<1>4. ASSUME route = "policy"
      PROVE  DraftInv'
  <2>1. policy!PolicyNext \/ UNCHANGED policy!policyVars
    BY <1>4 DEF PagesNext, pagesVars, At, policy!policyVars
  <2> QED
    BY <1>4, <2>1, AdmissibleInductive DEF VisitInv
<1>5. ASSUME route = "volumes"
      PROVE  (BulkInv /\ FitsInv)'
  <2>1. volumes!VolumesNext \/ UNCHANGED volumes!volumesVars
    BY <1>5 DEF PagesNext, pagesVars, At, volumes!volumesVars
  <2> QED
    BY <1>5, <2>1, FrontendFitsInductive DEF VisitInv
<1>6. ASSUME route = "engineImages"
      PROVE  ImagesInv'
  <2>1. engineImages!EngineImagesNext \/ UNCHANGED engineImages!listVars
    BY <1>6 DEF PagesNext, pagesVars, At, engineImages!listVars
  <2> QED
    BY <1>6, <2>1, DefaultKeptInductive DEF VisitInv
<1>7. ASSUME route = "recurringJobs"
      PROVE  JobsInv'
  <2>1. recurringJobs!JobsNext \/ UNCHANGED recurringJobs!jobsVars
    BY <1>7 DEF PagesNext, pagesVars, At, recurringJobs!jobsVars
  <2> QED
    BY <1>7, <2>1, SavesOwnJobInductive DEF VisitInv
<1>8. ASSUME route = "settings"
      PROVE  DangerInv'
  <2>1. settings!SettingsNext \/ UNCHANGED settings!settingsVars
    BY <1>8 DEF PagesNext, pagesVars, At, settings!settingsVars
  <2> QED
    BY <1>8, <2>1, OwnAnswerInductive DEF VisitInv
<1>9. ASSUME route = "nodes"
      PROVE  NodesInv'
  <2>1. nodes!NodesNext \/ UNCHANGED nodes!nodesVars
    BY <1>9 DEF PagesNext, pagesVars, At, nodes!nodesVars
  <2> QED
    BY <1>9, <2>1, DisksRemovedInductive DEF VisitInv
<1>10. ASSUME route = "backupTargets"
      PROVE  TargetsInv'
  <2>1. backupTargets!BackupTargetsNext \/ UNCHANGED backupTargets!listVars
    BY <1>10 DEF PagesNext, pagesVars, At, backupTargets!listVars
  <2> QED
    BY <1>10, <2>1, WholeTargetsInductive DEF VisitInv
<1>11. ASSUME route = "backups"
      PROVE  BackupsOwnInv'
  <2>1. backups!BackupsNext \/ UNCHANGED backups!backupsVars
    BY <1>11 DEF PagesNext, pagesVars, At, backups!backupsVars
  <2> QED
    BY <1>11, <2>1, RestoresOwnInductive DEF VisitInv
<1>12. ASSUME route = "images"
      PROVE  UploadsInv'
  <2>1. images!ImagesNext \/ UNCHANGED images!imagesVars
    BY <1>12 DEF PagesNext, pagesVars, At, images!imagesVars
  <2> QED
    BY <1>12, <2>1, ReleasedInductive DEF VisitInv
<1>13. ASSUME route = "sso"
      PROVE  WaitsInv'
  <2>1. sso!SSONext \/ UNCHANGED sso!ssoVars
    BY <1>13 DEF PagesNext, pagesVars, At, sso!ssoVars
  <2> QED
    BY <1>13, <2>1, FormReleasedInductive DEF VisitInv
<1>14. ASSUME route = "ceph"
      PROVE  LoginInv'
  <2>1. ceph!CephNext \/ UNCHANGED ceph!cephVars
    BY <1>14 DEF PagesNext, pagesVars, At, ceph!cephVars
  <2> QED
    BY <1>14, <2>1, HiddenInductive DEF VisitInv
<1>15. ASSUME route = "support"
      PROVE  SupportInv'
  <2>1. support!SupportNext \/ UNCHANGED support!supportVars
    BY <1>15 DEF PagesNext, pagesVars, At, support!supportVars
  <2> QED
    BY <1>15, <2>1, FollowedInductive DEF VisitInv
<1>16. ASSUME route = "shell"
      PROVE  ShellInv'
  <2>1. shell!ShellNext \/ UNCHANGED shell!shellVars
    BY <1>16 DEF PagesNext, pagesVars, At, shell!shellVars
  <2> QED
    BY <1>16, <2>1, PassesInductive DEF VisitInv
<1>17. ASSUME route = "metrics"
      PROVE  SeriesInv'
  <2>1. metrics!MetricsNext \/ UNCHANGED metrics!metricsVars
    BY <1>17 DEF PagesNext, pagesVars, At, metrics!metricsVars
  <2> QED
    BY <1>17, <2>1, GhostsDroppedInductive DEF VisitInv
<1>18. ASSUME route = "dataTable"
      PROVE  PageBegun'
  <2>1. dataTable!TableNext \/ UNCHANGED dataTable!tableVars
    BY <1>18 DEF PagesNext, pagesVars, At, dataTable!tableVars
  <2> QED
    BY <1>18, <2>1, NeverBlankInductive DEF VisitInv
<1> QED
  BY <1>0, <1>1, <1>2, <1>3, <1>4, <1>5, <1>6, <1>7, <1>8, <1>9, <1>10, <1>11, <1>12, <1>13, <1>14,
     <1>15, <1>16, <1>17, <1>18 DEF VisitInv

\* Whichever page is visited, it keeps the invariant that is proved of it alone.
THEOREM VisitsKeep == PagesSpec => []VisitInv
<1>1. PagesInit => VisitInv
  BY VisitBegins
<1>2. VisitInv /\ [PagesNext]_pagesVars => VisitInv'
  BY VisitStep
<1> QED
  BY <1>1, <1>2, PTL DEF PagesSpec

\* Whatever order its fields are edited in, and whatever arrives meanwhile: what a
\* form may submit is admissible.
THEOREM AdmissibleForms == PagesSpec => []FormsAdmissible
<1>1. VisitInv => FormsAdmissible
  BY AdmissibleInductive, FrontendFitsInductive DEF VisitInv, FormsAdmissible
<1> QED
  BY <1>1, VisitsKeep, PTL

\* However requests fail, rows are polled and ticks are changed while it loops: a
\* bulk run accounts for each of its rows and spares those that may not go.
THEOREM ExactBulkRuns == PagesSpec => []BulkRunsExact
<1>1. VisitInv => BulkRunsExact
  BY OwnAccountInductive, AccountedInductive, DefaultKeptInductive DEF VisitInv, BulkRunsExact
<1> QED
  BY <1>1, VisitsKeep, PTL

\* Whatever plans are asked for and answered, in whatever order: no operation is
\* submitted whose warnings were not acknowledged.
THEOREM ReviewedWarnings == PagesSpec => []WarningsReviewed
<1>1. VisitInv => WarningsReviewed
  BY ReviewedInductive DEF VisitInv, WarningsReviewed
<1> QED
  BY <1>1, VisitsKeep, PTL

\* Whatever dialogs were opened, left and answered late before: what is sent, and
\* what an answer is taken for, is of the dialog it was sent from.
THEOREM OwnRequests == PagesSpec => []RequestsOfTheirDialog
<1>1. VisitInv => RequestsOfTheirDialog
  BY SavesOwnJobInductive, OwnAnswerInductive, DisksRemovedInductive, WholeTargetsInductive,
     RestoresOwnInductive DEF VisitInv, RequestsOfTheirDialog
<1> QED
  BY <1>1, VisitsKeep, PTL

\* Whatever fails, is cancelled or comes late: nothing stays past its time.
THEOREM TimelyRelease == PagesSpec => []ReleasedInTime
<1>1. VisitInv => ReleasedInTime
  BY ReleasedInductive, FormReleasedInductive, HiddenInductive, FollowedInductive, PassesInductive,
     GhostsDroppedInductive DEF VisitInv, ReleasedInTime
<1> QED
  BY <1>1, VisitsKeep, PTL

\* Whatever was dropped, is still asked for, or was searched, sorted and paged: a
\* page is empty only if there is nothing to show.
THEOREM ShownAsAskedFor == PagesSpec => []ShowsWhatWasAskedFor
<1>1. VisitInv => ShowsWhatWasAskedFor
  BY ShownInductive, NeverBlankInductive DEF VisitInv, ShowsWhatWasAskedFor
<1> QED
  BY <1>1, VisitsKeep, PTL

-----------------------------------------------------------------------------
(* The types of the list pages and the forms                                 *)

\* A deletion of several rows: those that are left, and those it began with.
Deletes(c, names) ==
  /\ {"op", "now", "left", "before"} \subseteq DOMAIN c
  /\ c.left \cup {c.now} \subseteq names \cup {None}
  /\ DOMAIN c.before \subseteq names

-----------------------------------------------------------------------------
(* BackingImagesPage                                                         *)

ImageTypes ==
  /\ {"open", "named", "sourceType", "file", "uploading", "minCopiesTarget", "minCopies", "restoreTarget",
      "restoreEngine", "target", "typed", "bulkRows", "bulkDeleteOpen"} \subseteq DOMAIN ui
  /\ {"op", "img"} \subseteq DOMAIN ui.target
  /\ images!TypeOK

LEMMA ImagesTyped ==
  /\ (images!ImagesInit => ImageTypes)
  /\ (ImageTypes /\ [images!ImagesNext]_(images!imagesVars) => ImageTypes')
  /\ (ImageTypes => images!TypeOK)
<1> USE DEF images!TypeOK, images!Show, images!Send, images!Answered
<1>1. images!ImagesInit => ImageTypes
  BY DEF images!ImagesInit, images!Sources, images!Engines, ImageTypes
<1>2. ASSUME ImageTypes, images!ImagesNext
      PROVE  ImageTypes'
  <2>1. ASSUME NEW list \in ListsAt("images"), NEW kept \in Backups, images!Poll(list, kept)
        PROVE  ImageTypes'
    BY <1>2, <2>1 DEF images!Poll, ImageTypes
  <2>2. CASE images!OpenCreate
    BY <1>2, <2>2 DEF images!OpenCreate, ImageTypes
  <2>3. CASE images!CloseCreate
    BY <1>2, <2>3 DEF images!CloseCreate, ImageTypes
  <2>4. CASE images!EnterCreate
    BY <1>2, <2>4 DEF images!EnterCreate, ImageTypes
  <2>5. CASE images!createOrUpload
    BY <1>2, <2>5 DEF images!createOrUpload, ImageTypes
  <2>6. ASSUME NEW c \in calls, images!Announced(c)
        PROVE  ImageTypes'
    BY <1>2, <2>6 DEF images!Announced, ImageTypes
  <2>7. ASSUME NEW c \in calls, images!CreateAnswered(c)
        PROVE  ImageTypes'
    BY <1>2, <2>7, ZenonT(60) DEF images!CreateAnswered, ImageTypes
  <2>8. ASSUME NEW n \in NamesAt("images"), images!OpenMinCopies(n)
        PROVE  ImageTypes'
    BY <1>2, <2>8 DEF images!OpenMinCopies, ImageTypes
  <2>9. ASSUME NEW k \in {1, 2}, images!EnterCopies(k)
        PROVE  ImageTypes'
    BY <1>2, <2>9 DEF images!EnterCopies, ImageTypes
  <2>10. CASE images!CloseMinCopies
    BY <1>2, <2>10 DEF images!CloseMinCopies, ImageTypes
  <2>11. CASE images!SaveMinCopies
    BY <1>2, <2>11 DEF images!SaveMinCopies, ImageTypes
  <2>12. ASSUME NEW c \in calls, images!CopiesAnswered(c)
         PROVE  ImageTypes'
    BY <1>2, <2>12 DEF images!CopiesAnswered, ImageTypes
  <2>13. ASSUME NEW n \in NamesAt("images"), images!OpenRestore(n)
         PROVE  ImageTypes'
    BY <1>2, <2>13 DEF images!OpenRestore, images!Engines, ImageTypes
  <2>14. ASSUME NEW engine \in images!Engines, images!EnterEngine(engine)
         PROVE  ImageTypes'
    BY <1>2, <2>14 DEF images!EnterEngine, ImageTypes
  <2>15. CASE images!CloseRestore
    BY <1>2, <2>15 DEF images!CloseRestore, ImageTypes
  <2>16. CASE images!Restore
    BY <1>2, <2>16 DEF images!Restore, ImageTypes
  <2>17. ASSUME NEW c \in calls, images!RestoreAnswered(c)
         PROVE  ImageTypes'
    BY <1>2, <2>17 DEF images!RestoreAnswered, ImageTypes
  <2>18. ASSUME NEW n \in NamesAt("images"), images!OpenBackup(n)
         PROVE  ImageTypes'
    BY <1>2, <2>18 DEF images!OpenBackup, ImageTypes
  <2>19. ASSUME NEW n \in NamesAt("images"), images!OpenDelete(n)
         PROVE  ImageTypes'
    BY <1>2, <2>19 DEF images!OpenDelete, ImageTypes
  <2>20. ASSUME NEW n \in NamesAt("images"), images!OpenDeleteBackup(n)
         PROVE  ImageTypes'
    BY <1>2, <2>20 DEF images!OpenDeleteBackup, ImageTypes
  <2>21. CASE images!DismissConfirm
    <3>1. CASE ui' = [[ui EXCEPT !.target = images!NoTarget] EXCEPT !.typed = None]
      BY <1>2, <2>21, <3>1 DEF images!DismissConfirm, images!NoTarget, ImageTypes
    <3>2. CASE ui' = [ui EXCEPT !.target = images!NoTarget]
      BY <1>2, <2>21, <3>2 DEF images!DismissConfirm, images!NoTarget, ImageTypes
    <3> QED
      BY <2>21, <3>1, <3>2 DEF images!DismissConfirm
  <2>22. ASSUME NEW n \in NamesAt("images"), images!TypeName(n)
         PROVE  ImageTypes'
    BY <1>2, <2>22 DEF images!TypeName, ImageTypes
  <2>23. CASE images!Confirm
    BY <1>2, <2>23 DEF images!Confirm, ImageTypes
  <2>24. ASSUME NEW c \in calls, images!ConfirmAnswered(c)
         PROVE  ImageTypes'
    BY <1>2, <2>24 DEF images!ConfirmAnswered, images!Closed, images!NoTarget, ImageTypes
  <2>25. ASSUME NEW sel \in SUBSET NamesAt("images"), images!OpenBulkDelete(sel)
         PROVE  ImageTypes'
    BY <1>2, <2>25 DEF images!OpenBulkDelete, ImageTypes
  <2>26. CASE images!CloseBulkDelete
    BY <1>2, <2>26 DEF images!CloseBulkDelete, ImageTypes
  <2>27. CASE images!ConfirmBulkDelete
    BY <1>2, <2>27 DEF images!ConfirmBulkDelete, ImageTypes
  <2>28. ASSUME NEW c \in calls, images!BulkItem(c)
         PROVE  ImageTypes'
    BY <1>2, <2>28 DEF images!BulkItem, ImageTypes
  <2>29. ASSUME NEW c \in calls, images!BulkDeleteEnds(c)
         PROVE  ImageTypes'
    BY <1>2, <2>29 DEF images!BulkDeleteEnds, ImageTypes
  <2> QED
    BY <1>2, <2>1, <2>2, <2>3, <2>4, <2>5, <2>6, <2>7, <2>8, <2>9, <2>10, <2>11, <2>12, <2>13, <2>14, <2>15,
       <2>16, <2>17, <2>18, <2>19, <2>20, <2>21, <2>22, <2>23, <2>24, <2>25, <2>26, <2>27, <2>28, <2>29 DEF
       images!ImagesNext
<1>3. ImageTypes /\ UNCHANGED images!imagesVars => ImageTypes'
  BY DEF images!imagesVars, ImageTypes
<1>4. ImageTypes => images!TypeOK
  BY DEF ImageTypes
<1> QED
  BY <1>1, <1>2, <1>3, <1>4

-----------------------------------------------------------------------------
(* SystemBackupsPage                                                         *)

SystemBackupTypes ==
  /\ "rows" \in DOMAIN query
  /\ {"deleteTarget", "typed", "bulkDeleteOpen", "selected", "open", "named"} \subseteq DOMAIN ui
  /\ \A c \in calls : c.op \in {"delete", "bulkDelete"} => Deletes(c, NamesAt("systemBackups"))
  /\ systemBackups!TypeOK

LEMMA SystemBackupRemoved ==
  ASSUME SystemBackupTypes, NEW others, others \subseteq calls, NEW c, Deletes(c, NamesAt("systemBackups")),
         NEW n \in NamesAt("systemBackups") \cup {None},
         systemBackups!Remove(others, c, n)
  PROVE  SystemBackupTypes'
<1> DEFINE next == [[[c EXCEPT !.now = n] EXCEPT !.left = c.left \ {n}] EXCEPT !.before = query.rows]
<1>1. /\ DOMAIN next = DOMAIN c /\ next.op = c.op /\ next.now = n /\ next.left = c.left \ {n}
      /\ next.before = query.rows
  BY DEF Deletes
<1>2. Deletes(next, NamesAt("systemBackups"))
  BY <1>1 DEF Deletes, SystemBackupTypes, systemBackups!TypeOK, systemBackups!ListTypeOK, systemBackups!Listed
<1>3. calls' = others \cup {next} /\ UNCHANGED ui
  BY DEF systemBackups!Remove, Deletes
<1>4. "rows" \in DOMAIN query' /\ DOMAIN query'.rows \subseteq NamesAt("systemBackups")
  BY DEF systemBackups!Remove, SystemBackupTypes, systemBackups!TypeOK, systemBackups!ListTypeOK,
     systemBackups!Listed
<1> HIDE DEF next
<1> QED
  BY <1>1, <1>2, <1>3, <1>4 DEF SystemBackupTypes, systemBackups!TypeOK, systemBackups!ListTypeOK,
     systemBackups!Listed, Deletes

LEMMA SystemBackupDeleted ==
  ASSUME SystemBackupTypes, NEW op \in {"delete", "bulkDelete"}, NEW targets,
         targets \subseteq NamesAt("systemBackups"), systemBackups!DeleteEach(op, targets)
  PROVE  SystemBackupTypes'
<1>1. PICK n \in targets : systemBackups!Remove(calls, [op |-> op, now |-> n, left |-> targets, before |-> query.rows], n)
  BY DEF systemBackups!DeleteEach
<1>2. Deletes([op |-> op, now |-> n, left |-> targets, before |-> query.rows], NamesAt("systemBackups"))
  BY DEF Deletes, SystemBackupTypes, systemBackups!TypeOK, systemBackups!ListTypeOK, systemBackups!Listed
<1> QED
  BY <1>1, <1>2, SystemBackupRemoved

LEMMA SystemBackupListStep ==
  ASSUME SystemBackupTypes, systemBackups!ListNext
  PROVE  SystemBackupTypes'
<1> USE DEF systemBackups!TypeOK, systemBackups!ListTypeOK, systemBackups!Listed, systemBackups!Show,
      systemBackups!Send, systemBackups!Answered
<1>1. ASSUME NEW rows \in ListsAt("systemBackups"), systemBackups!Poll(rows)
      PROVE  SystemBackupTypes'
  BY <1>1, RowsAreNamed DEF systemBackups!Poll, SystemBackupTypes
<1>2. CASE systemBackups!DismissDelete
  <2>1. CASE ui' = [[ui EXCEPT !.deleteTarget = None] EXCEPT !.typed = None]
    BY <1>2, <2>1 DEF systemBackups!DismissDelete, SystemBackupTypes
  <2>2. CASE ui' = [ui EXCEPT !.deleteTarget = None]
    BY <1>2, <2>2 DEF systemBackups!DismissDelete, SystemBackupTypes
  <2> QED
    BY <1>2, <2>1, <2>2 DEF systemBackups!DismissDelete
<1>3. CASE systemBackups!DismissBulkDelete
  BY <1>3 DEF systemBackups!DismissBulkDelete, SystemBackupTypes
<1>4. ASSUME NEW n \in NamesAt("systemBackups"), systemBackups!TypeName(n)
      PROVE  SystemBackupTypes'
  BY <1>4 DEF systemBackups!TypeName, SystemBackupTypes
<1>5. ASSUME NEW c \in calls, systemBackups!DeleteEnds(c)
      PROVE  SystemBackupTypes'
  <2>1. /\ c.op \in {"delete", "bulkDelete"}
        /\ UNCHANGED query \/ query' = [query EXCEPT !.rows = c.before]
    BY <1>5 DEF systemBackups!DeleteEnds, systemBackups!Refuse
  <2>2. Deletes(c, NamesAt("systemBackups"))
    BY <2>1 DEF SystemBackupTypes
  <2>3. "rows" \in DOMAIN query' /\ DOMAIN query'.rows \subseteq NamesAt("systemBackups")
    BY <2>1, <2>2 DEF SystemBackupTypes, Deletes, systemBackups!Listed
  <2> QED
    BY <1>5, <2>3 DEF systemBackups!DeleteEnds, systemBackups!Listed, SystemBackupTypes
<1>6. ASSUME NEW c \in calls, systemBackups!BulkItem(c)
      PROVE  SystemBackupTypes'
  <2>1. /\ c.op \in {"delete", "bulkDelete"}
        /\ UNCHANGED query \/ query' = [query EXCEPT !.rows = c.before]
    BY <1>6 DEF systemBackups!BulkItem, systemBackups!Refuse
  <2>2. Deletes(c, NamesAt("systemBackups"))
    BY <2>1 DEF SystemBackupTypes
  <2>3. "rows" \in DOMAIN query' /\ DOMAIN query'.rows \subseteq NamesAt("systemBackups")
    BY <2>1, <2>2 DEF SystemBackupTypes, Deletes, systemBackups!Listed
  <2>4. PICK next : Deletes(next, NamesAt("systemBackups")) /\ calls' = (calls \ {c}) \cup {next} /\ UNCHANGED ui
    BY <1>6, <2>2 DEF systemBackups!BulkItem, Deletes
  <2> QED
    BY <2>3, <2>4 DEF systemBackups!Listed, SystemBackupTypes, Deletes
<1>7. ASSUME NEW c \in calls, systemBackups!BulkNext(c)
      PROVE  SystemBackupTypes'
  <2>1. Deletes(c, NamesAt("systemBackups"))
    BY <1>7 DEF systemBackups!BulkNext, SystemBackupTypes
  <2>2. PICK n \in c.left : systemBackups!Remove(calls \ {c}, c, n)
    BY <1>7 DEF systemBackups!BulkNext
  <2> QED
    BY <2>1, <2>2, SystemBackupRemoved DEF Deletes
<1> QED
  BY <1>1, <1>2, <1>3, <1>4, <1>5, <1>6, <1>7 DEF systemBackups!ListNext

LEMMA SystemBackupsTyped ==
  /\ (systemBackups!SystemBackupsInit => SystemBackupTypes)
  /\ (SystemBackupTypes /\ [systemBackups!SystemBackupsNext]_(systemBackups!listVars) => SystemBackupTypes')
  /\ (SystemBackupTypes => systemBackups!TypeOK)
<1> USE DEF systemBackups!TypeOK, systemBackups!ListTypeOK, systemBackups!Listed, systemBackups!Show,
      systemBackups!Send, systemBackups!Answered
<1>1. systemBackups!SystemBackupsInit => SystemBackupTypes
  BY RowsAreNamed DEF systemBackups!SystemBackupsInit, SystemBackupTypes
<1>2. ASSUME SystemBackupTypes, systemBackups!SystemBackupsNext
      PROVE  SystemBackupTypes'
  <2>1. ASSUME NEW n \in NamesAt("systemBackups"), systemBackups!Restore(n)
        PROVE  SystemBackupTypes'
    BY <1>2, <2>1 DEF systemBackups!Restore, SystemBackupTypes
  <2>2. ASSUME NEW c \in calls, systemBackups!RestoreAnswered(c)
        PROVE  SystemBackupTypes'
    BY <1>2, <2>2 DEF systemBackups!RestoreAnswered, SystemBackupTypes
  <2>3. CASE systemBackups!OpenCreate
    BY <1>2, <2>3 DEF systemBackups!OpenCreate, SystemBackupTypes
  <2>4. CASE systemBackups!CloseCreate
    BY <1>2, <2>4 DEF systemBackups!CloseCreate, SystemBackupTypes
  <2>5. ASSUME NEW named \in BOOLEAN, systemBackups!EnterName(named)
        PROVE  SystemBackupTypes'
    BY <1>2, <2>5 DEF systemBackups!EnterName, SystemBackupTypes
  <2>6. CASE systemBackups!Create
    <3>1. calls' = calls \cup {[op |-> "create"]} /\ UNCHANGED <<query, ui>>
      BY <2>6 DEF systemBackups!Create
    <3> QED
      BY <1>2, <3>1 DEF SystemBackupTypes
  <2>7. ASSUME NEW c \in calls, systemBackups!CreateAnswered(c)
        PROVE  SystemBackupTypes'
    BY <1>2, <2>7 DEF systemBackups!CreateAnswered, SystemBackupTypes
  <2>8. ASSUME NEW n \in NamesAt("systemBackups"), systemBackups!OpenDelete(n)
        PROVE  SystemBackupTypes'
    BY <1>2, <2>8 DEF systemBackups!OpenDelete, SystemBackupTypes
  <2>9. CASE systemBackups!ConfirmDelete
    BY <1>2, <2>9, SystemBackupDeleted DEF systemBackups!ConfirmDelete, systemBackups!CanConfirm,
       SystemBackupTypes
  <2>10. ASSUME NEW n \in NamesAt("systemBackups"), systemBackups!Tick(n)
         PROVE  SystemBackupTypes'
    BY <1>2, <2>10 DEF systemBackups!Tick, SystemBackupTypes
  <2>11. CASE systemBackups!OpenBulkDelete
    BY <1>2, <2>11 DEF systemBackups!OpenBulkDelete, SystemBackupTypes
  <2>12. CASE systemBackups!ConfirmBulkDelete
    BY <1>2, <2>12, SystemBackupDeleted DEF systemBackups!ConfirmBulkDelete, systemBackups!Targets,
       systemBackups!BulkDeleted, SystemBackupTypes
  <2>13. ASSUME NEW c \in calls, systemBackups!BulkDeleteEnds(c)
         PROVE  SystemBackupTypes'
    BY <1>2, <2>13 DEF systemBackups!BulkDeleteEnds, systemBackups!BulkEnds, systemBackups!BulkDeleted,
       SystemBackupTypes
  <2> QED
    BY <1>2, SystemBackupListStep, <2>1, <2>2, <2>3, <2>4, <2>5, <2>6, <2>7, <2>8, <2>9, <2>10, <2>11,
       <2>12, <2>13 DEF
       systemBackups!SystemBackupsNext
<1>3. SystemBackupTypes /\ UNCHANGED systemBackups!listVars => SystemBackupTypes'
  BY DEF systemBackups!listVars, SystemBackupTypes
<1>4. SystemBackupTypes => systemBackups!TypeOK
  BY DEF SystemBackupTypes
<1> QED
  BY <1>1, <1>2, <1>3, <1>4

-----------------------------------------------------------------------------
(* EngineImagesPage                                                          *)

EngineImageTypes ==
  /\ "rows" \in DOMAIN query
  /\ {"deleteTarget", "typed", "bulkDeleteOpen", "bulkRows", "open"} \subseteq DOMAIN ui
  /\ \A c \in calls : c.op \in {"delete", "bulkDelete"} => Deletes(c, NamesAt("engineImages"))
  /\ engineImages!TypeOK

LEMMA EngineImageRemoved ==
  ASSUME EngineImageTypes, NEW others, others \subseteq calls, NEW c, Deletes(c, NamesAt("engineImages")),
         NEW n \in NamesAt("engineImages") \cup {None},
         engineImages!Remove(others, c, n)
  PROVE  EngineImageTypes'
<1> DEFINE next == [[[c EXCEPT !.now = n] EXCEPT !.left = c.left \ {n}] EXCEPT !.before = query.rows]
<1>1. /\ DOMAIN next = DOMAIN c /\ next.op = c.op /\ next.now = n /\ next.left = c.left \ {n}
      /\ next.before = query.rows
  BY DEF Deletes
<1>2. Deletes(next, NamesAt("engineImages"))
  BY <1>1 DEF Deletes, EngineImageTypes, engineImages!TypeOK, engineImages!ListTypeOK, engineImages!Listed
<1>3. calls' = others \cup {next} /\ UNCHANGED ui
  BY DEF engineImages!Remove, Deletes
<1>4. "rows" \in DOMAIN query' /\ DOMAIN query'.rows \subseteq NamesAt("engineImages")
  BY DEF engineImages!Remove, EngineImageTypes, engineImages!TypeOK, engineImages!ListTypeOK,
     engineImages!Listed
<1> HIDE DEF next
<1> QED
  BY <1>1, <1>2, <1>3, <1>4 DEF EngineImageTypes, engineImages!TypeOK, engineImages!ListTypeOK,
     engineImages!Listed, Deletes

LEMMA EngineImageDeleted ==
  ASSUME EngineImageTypes, NEW op \in {"delete", "bulkDelete"}, NEW targets,
         targets \subseteq NamesAt("engineImages"), engineImages!DeleteEach(op, targets)
  PROVE  EngineImageTypes'
<1>1. PICK n \in targets : engineImages!Remove(calls, [op |-> op, now |-> n, left |-> targets, before |-> query.rows], n)
  BY DEF engineImages!DeleteEach
<1>2. Deletes([op |-> op, now |-> n, left |-> targets, before |-> query.rows], NamesAt("engineImages"))
  BY DEF Deletes, EngineImageTypes, engineImages!TypeOK, engineImages!ListTypeOK, engineImages!Listed
<1> QED
  BY <1>1, <1>2, EngineImageRemoved

LEMMA EngineImageListStep ==
  ASSUME EngineImageTypes, engineImages!ListNext
  PROVE  EngineImageTypes'
<1> USE DEF engineImages!TypeOK, engineImages!ListTypeOK, engineImages!Listed, engineImages!Show,
      engineImages!Send, engineImages!Answered
<1>1. ASSUME NEW rows \in ListsAt("engineImages"), engineImages!Poll(rows)
      PROVE  EngineImageTypes'
  BY <1>1, RowsAreNamed DEF engineImages!Poll, EngineImageTypes
<1>2. CASE engineImages!DismissDelete
  <2>1. CASE ui' = [[ui EXCEPT !.deleteTarget = None] EXCEPT !.typed = None]
    BY <1>2, <2>1 DEF engineImages!DismissDelete, EngineImageTypes
  <2>2. CASE ui' = [ui EXCEPT !.deleteTarget = None]
    BY <1>2, <2>2 DEF engineImages!DismissDelete, EngineImageTypes
  <2> QED
    BY <1>2, <2>1, <2>2 DEF engineImages!DismissDelete
<1>3. CASE engineImages!DismissBulkDelete
  BY <1>3 DEF engineImages!DismissBulkDelete, EngineImageTypes
<1>4. ASSUME NEW n \in NamesAt("engineImages"), engineImages!TypeName(n)
      PROVE  EngineImageTypes'
  BY <1>4 DEF engineImages!TypeName, EngineImageTypes
<1>5. ASSUME NEW c \in calls, engineImages!DeleteEnds(c)
      PROVE  EngineImageTypes'
  <2>1. /\ c.op \in {"delete", "bulkDelete"}
        /\ UNCHANGED query \/ query' = [query EXCEPT !.rows = c.before]
    BY <1>5 DEF engineImages!DeleteEnds, engineImages!Refuse
  <2>2. Deletes(c, NamesAt("engineImages"))
    BY <2>1 DEF EngineImageTypes
  <2>3. "rows" \in DOMAIN query' /\ DOMAIN query'.rows \subseteq NamesAt("engineImages")
    BY <2>1, <2>2 DEF EngineImageTypes, Deletes, engineImages!Listed
  <2> QED
    BY <1>5, <2>3 DEF engineImages!DeleteEnds, engineImages!Listed, EngineImageTypes
<1>6. ASSUME NEW c \in calls, engineImages!BulkItem(c)
      PROVE  EngineImageTypes'
  <2>1. /\ c.op \in {"delete", "bulkDelete"}
        /\ UNCHANGED query \/ query' = [query EXCEPT !.rows = c.before]
    BY <1>6 DEF engineImages!BulkItem, engineImages!Refuse
  <2>2. Deletes(c, NamesAt("engineImages"))
    BY <2>1 DEF EngineImageTypes
  <2>3. "rows" \in DOMAIN query' /\ DOMAIN query'.rows \subseteq NamesAt("engineImages")
    BY <2>1, <2>2 DEF EngineImageTypes, Deletes, engineImages!Listed
  <2>4. PICK next : Deletes(next, NamesAt("engineImages")) /\ calls' = (calls \ {c}) \cup {next} /\ UNCHANGED ui
    BY <1>6, <2>2 DEF engineImages!BulkItem, Deletes
  <2> QED
    BY <2>3, <2>4 DEF engineImages!Listed, EngineImageTypes, Deletes
<1>7. ASSUME NEW c \in calls, engineImages!BulkNext(c)
      PROVE  EngineImageTypes'
  <2>1. Deletes(c, NamesAt("engineImages"))
    BY <1>7 DEF engineImages!BulkNext, EngineImageTypes
  <2>2. PICK n \in c.left : engineImages!Remove(calls \ {c}, c, n)
    BY <1>7 DEF engineImages!BulkNext
  <2> QED
    BY <2>1, <2>2, EngineImageRemoved DEF Deletes
<1> QED
  BY <1>1, <1>2, <1>3, <1>4, <1>5, <1>6, <1>7 DEF engineImages!ListNext

LEMMA EngineImagesTyped ==
  /\ (engineImages!EngineImagesInit => EngineImageTypes)
  /\ (EngineImageTypes /\ [engineImages!EngineImagesNext]_(engineImages!listVars) => EngineImageTypes')
  /\ (EngineImageTypes => engineImages!TypeOK)
<1> USE DEF engineImages!TypeOK, engineImages!ListTypeOK, engineImages!Listed, engineImages!Show,
      engineImages!Send, engineImages!Answered
<1>1. engineImages!EngineImagesInit => EngineImageTypes
  BY RowsAreNamed DEF engineImages!EngineImagesInit, EngineImageTypes
<1>2. ASSUME EngineImageTypes, engineImages!EngineImagesNext
      PROVE  EngineImageTypes'
  <2>1. CASE engineImages!OpenDeploy
    BY <1>2, <2>1 DEF engineImages!OpenDeploy, EngineImageTypes
  <2>2. CASE engineImages!CloseDeploy
    BY <1>2, <2>2 DEF engineImages!CloseDeploy, EngineImageTypes
  <2>3. CASE engineImages!Deploy
    <3>1. calls' = calls \cup {[op |-> "deploy"]} /\ UNCHANGED <<query, ui>>
      BY <2>3 DEF engineImages!Deploy
    <3> QED
      BY <1>2, <3>1 DEF EngineImageTypes
  <2>4. ASSUME NEW c \in calls, engineImages!DeployAnswered(c)
        PROVE  EngineImageTypes'
    BY <1>2, <2>4 DEF engineImages!DeployAnswered, EngineImageTypes
  <2>5. ASSUME NEW n \in NamesAt("engineImages"), engineImages!OpenDelete(n)
        PROVE  EngineImageTypes'
    BY <1>2, <2>5 DEF engineImages!OpenDelete, EngineImageTypes
  <2>6. CASE engineImages!ConfirmDelete
    BY <1>2, <2>6, EngineImageDeleted DEF engineImages!ConfirmDelete, engineImages!CanConfirm,
       EngineImageTypes
  <2>7. ASSUME NEW sel \in SUBSET NamesAt("engineImages"), engineImages!OpenBulkDelete(sel)
        PROVE  EngineImageTypes'
    <3> DEFINE rows == [n \in sel |-> query.rows[n]]
    <3>1. ui' = [[ui EXCEPT !.bulkRows = rows] EXCEPT !.bulkDeleteOpen = TRUE] /\ UNCHANGED <<query, calls>>
      BY <2>7 DEF engineImages!OpenBulkDelete
    <3>2. DOMAIN rows \subseteq NamesAt("engineImages")
      OBVIOUS
    <3> HIDE DEF rows
    <3> QED
      BY <1>2, <3>1, <3>2 DEF EngineImageTypes
  <2>8. CASE engineImages!ConfirmBulkDelete
    <3>1. CASE engineImages!Show(engineImages!BulkDeleted)
      BY <1>2, <3>1 DEF engineImages!BulkDeleted, EngineImageTypes
    <3>2. CASE engineImages!DeleteEach("bulkDelete", engineImages!Targets)
      <4>1. engineImages!Targets \subseteq NamesAt("engineImages")
        BY <1>2 DEF engineImages!Targets, EngineImageTypes
      <4> QED
        BY <1>2, <3>2, <4>1, EngineImageDeleted
    <3> QED
      BY <2>8, <3>1, <3>2 DEF engineImages!ConfirmBulkDelete
  <2>9. ASSUME NEW c \in calls, engineImages!BulkDeleteEnds(c)
        PROVE  EngineImageTypes'
    BY <1>2, <2>9 DEF engineImages!BulkDeleteEnds, engineImages!BulkEnds, engineImages!BulkDeleted,
       EngineImageTypes
  <2> QED
    BY <1>2, EngineImageListStep, <2>1, <2>2, <2>3, <2>4, <2>5, <2>6, <2>7, <2>8, <2>9 DEF
       engineImages!EngineImagesNext
<1>3. EngineImageTypes /\ UNCHANGED engineImages!listVars => EngineImageTypes'
  BY DEF engineImages!listVars, EngineImageTypes
<1>4. EngineImageTypes => engineImages!TypeOK
  BY DEF EngineImageTypes
<1> QED
  BY <1>1, <1>2, <1>3, <1>4

-----------------------------------------------------------------------------
(* OrphansPage                                                               *)

OrphanTypes ==
  /\ "rows" \in DOMAIN query
  /\ {"deleteTarget", "typed", "bulkDeleteOpen", "activeTab", "ticked", "selectedOrphans", "seen"} \subseteq DOMAIN ui
  /\ \A c \in calls : c.op \in {"delete", "bulkDelete"} => Deletes(c, NamesAt("orphans"))
  /\ orphans!TypeOK

LEMMA OrphanRemoved ==
  ASSUME OrphanTypes, NEW others, others \subseteq calls, NEW c, Deletes(c, NamesAt("orphans")),
         NEW n \in NamesAt("orphans") \cup {None},
         orphans!Remove(others, c, n)
  PROVE  OrphanTypes'
<1> DEFINE next == [[[c EXCEPT !.now = n] EXCEPT !.left = c.left \ {n}] EXCEPT !.before = query.rows]
<1>1. /\ DOMAIN next = DOMAIN c /\ next.op = c.op /\ next.now = n /\ next.left = c.left \ {n}
      /\ next.before = query.rows
  BY DEF Deletes
<1>2. Deletes(next, NamesAt("orphans"))
  BY <1>1 DEF Deletes, OrphanTypes, orphans!TypeOK, orphans!ListTypeOK, orphans!Listed
<1>3. calls' = others \cup {next} /\ UNCHANGED ui
  BY DEF orphans!Remove, Deletes
<1>4. "rows" \in DOMAIN query' /\ DOMAIN query'.rows \subseteq NamesAt("orphans")
  BY DEF orphans!Remove, OrphanTypes, orphans!TypeOK, orphans!ListTypeOK, orphans!Listed
<1> HIDE DEF next
<1> QED
  BY <1>1, <1>2, <1>3, <1>4 DEF OrphanTypes, orphans!TypeOK, orphans!ListTypeOK, orphans!Listed, Deletes

LEMMA OrphanDeleted ==
  ASSUME OrphanTypes, NEW op \in {"delete", "bulkDelete"}, NEW targets,
         targets \subseteq NamesAt("orphans"), orphans!DeleteEach(op, targets)
  PROVE  OrphanTypes'
<1>1. PICK n \in targets : orphans!Remove(calls, [op |-> op, now |-> n, left |-> targets, before |-> query.rows], n)
  BY DEF orphans!DeleteEach
<1>2. Deletes([op |-> op, now |-> n, left |-> targets, before |-> query.rows], NamesAt("orphans"))
  BY DEF Deletes, OrphanTypes, orphans!TypeOK, orphans!ListTypeOK, orphans!Listed
<1> QED
  BY <1>1, <1>2, OrphanRemoved

LEMMA OrphanListStep ==
  ASSUME OrphanTypes, orphans!ListNext
  PROVE  OrphanTypes'
<1> USE DEF orphans!TypeOK, orphans!ListTypeOK, orphans!Listed, orphans!Show, orphans!Send, orphans!Answered
<1>1. ASSUME NEW rows \in ListsAt("orphans"), orphans!Poll(rows)
      PROVE  OrphanTypes'
  BY <1>1, RowsAreNamed DEF orphans!Poll, OrphanTypes
<1>2. CASE orphans!DismissDelete
  <2>1. CASE ui' = [[ui EXCEPT !.deleteTarget = None] EXCEPT !.typed = None]
    BY <1>2, <2>1 DEF orphans!DismissDelete, OrphanTypes
  <2>2. CASE ui' = [ui EXCEPT !.deleteTarget = None]
    BY <1>2, <2>2 DEF orphans!DismissDelete, OrphanTypes
  <2> QED
    BY <1>2, <2>1, <2>2 DEF orphans!DismissDelete
<1>3. CASE orphans!DismissBulkDelete
  BY <1>3 DEF orphans!DismissBulkDelete, OrphanTypes
<1>4. ASSUME NEW n \in NamesAt("orphans"), orphans!TypeName(n)
      PROVE  OrphanTypes'
  BY <1>4 DEF orphans!TypeName, OrphanTypes
<1>5. ASSUME NEW c \in calls, orphans!DeleteEnds(c)
      PROVE  OrphanTypes'
  <2>1. /\ c.op \in {"delete", "bulkDelete"}
        /\ UNCHANGED query \/ query' = [query EXCEPT !.rows = c.before]
    BY <1>5 DEF orphans!DeleteEnds, orphans!Refuse
  <2>2. Deletes(c, NamesAt("orphans"))
    BY <2>1 DEF OrphanTypes
  <2>3. "rows" \in DOMAIN query' /\ DOMAIN query'.rows \subseteq NamesAt("orphans")
    BY <2>1, <2>2 DEF OrphanTypes, Deletes, orphans!Listed
  <2> QED
    BY <1>5, <2>3 DEF orphans!DeleteEnds, orphans!Listed, OrphanTypes
<1>6. ASSUME NEW c \in calls, orphans!BulkItem(c)
      PROVE  OrphanTypes'
  <2>1. /\ c.op \in {"delete", "bulkDelete"}
        /\ UNCHANGED query \/ query' = [query EXCEPT !.rows = c.before]
    BY <1>6 DEF orphans!BulkItem, orphans!Refuse
  <2>2. Deletes(c, NamesAt("orphans"))
    BY <2>1 DEF OrphanTypes
  <2>3. "rows" \in DOMAIN query' /\ DOMAIN query'.rows \subseteq NamesAt("orphans")
    BY <2>1, <2>2 DEF OrphanTypes, Deletes, orphans!Listed
  <2>4. PICK next : Deletes(next, NamesAt("orphans")) /\ calls' = (calls \ {c}) \cup {next} /\ UNCHANGED ui
    BY <1>6, <2>2 DEF orphans!BulkItem, Deletes
  <2> QED
    BY <2>3, <2>4 DEF orphans!Listed, OrphanTypes, Deletes
<1>7. ASSUME NEW c \in calls, orphans!BulkNext(c)
      PROVE  OrphanTypes'
  <2>1. Deletes(c, NamesAt("orphans"))
    BY <1>7 DEF orphans!BulkNext, OrphanTypes
  <2>2. PICK n \in c.left : orphans!Remove(calls \ {c}, c, n)
    BY <1>7 DEF orphans!BulkNext
  <2> QED
    BY <2>1, <2>2, OrphanRemoved DEF Deletes
<1> QED
  BY <1>1, <1>2, <1>3, <1>4, <1>5, <1>6, <1>7 DEF orphans!ListNext

LEMMA OrphansTyped ==
  /\ (orphans!OrphansInit => OrphanTypes)
  /\ (OrphanTypes /\ [orphans!OrphansNext]_(orphans!listVars) => OrphanTypes')
  /\ (OrphanTypes => orphans!TypeOK)
<1> USE DEF orphans!TypeOK, orphans!ListTypeOK, orphans!Listed, orphans!Show, orphans!Send, orphans!Answered
<1>1. orphans!OrphansInit => OrphanTypes
  BY RowsAreNamed DEF orphans!OrphansInit, OrphanTypes
<1>2. ASSUME OrphanTypes, orphans!OrphansNext
      PROVE  OrphanTypes'
  <2>1. CASE orphans!SelectionChanged
    <3> DEFINE shown == IF orphans!Listed = {} THEN {} ELSE ui.ticked
               chosen == IF orphans!Listed = {} THEN ui.selectedOrphans ELSE shown \cap orphans!currentData
    <3>1. \E seen : ui' = [[[ui EXCEPT !.ticked = shown] EXCEPT !.seen = seen] EXCEPT !.selectedOrphans = chosen]
          /\ UNCHANGED <<query, calls>>
      BY <1>2, <2>1 DEF orphans!SelectionChanged, OrphanTypes
    <3>2. shown \subseteq NamesAt("orphans") /\ chosen \subseteq NamesAt("orphans")
      BY <1>2 DEF OrphanTypes
    <3> HIDE DEF shown, chosen
    <3> QED
      BY <1>2, <3>1, <3>2 DEF OrphanTypes
  <2>2. ASSUME NEW tab \in {"replicaData", "instances"}, orphans!SelectTab(tab)
        PROVE  OrphanTypes'
    BY <1>2, <2>2 DEF orphans!SelectTab, OrphanTypes
  <2>3. ASSUME NEW n \in NamesAt("orphans"), orphans!Tick(n)
        PROVE  OrphanTypes'
    BY <1>2, <2>3 DEF orphans!Tick, OrphanTypes
  <2>4. ASSUME NEW n \in NamesAt("orphans"), orphans!OpenDelete(n)
        PROVE  OrphanTypes'
    BY <1>2, <2>4 DEF orphans!OpenDelete, OrphanTypes
  <2>5. CASE orphans!ConfirmDelete
    BY <1>2, <2>5, OrphanDeleted DEF orphans!ConfirmDelete, orphans!CanConfirm, OrphanTypes
  <2>6. CASE orphans!OpenBulkDelete
    BY <1>2, <2>6 DEF orphans!OpenBulkDelete, OrphanTypes
  <2>7. CASE orphans!ConfirmBulkDelete
    BY <1>2, <2>7, OrphanDeleted DEF orphans!ConfirmBulkDelete, orphans!BulkDeleted, OrphanTypes
  <2>8. ASSUME NEW c \in calls, orphans!BulkDeleteEnds(c)
        PROVE  OrphanTypes'
    BY <1>2, <2>8 DEF orphans!BulkDeleteEnds, orphans!BulkEnds, orphans!BulkDeleted, OrphanTypes
  <2> QED
    BY <1>2, OrphanListStep, <2>1, <2>2, <2>3, <2>4, <2>5, <2>6, <2>7, <2>8 DEF orphans!OrphansNext
<1>3. OrphanTypes /\ UNCHANGED orphans!listVars => OrphanTypes'
  BY DEF orphans!listVars, OrphanTypes
<1>4. OrphanTypes => orphans!TypeOK
  BY DEF OrphanTypes
<1> QED
  BY <1>1, <1>2, <1>3, <1>4

-----------------------------------------------------------------------------
(* BackupTargetsPage                                                         *)

BackupTargetTypes ==
  /\ "rows" \in DOMAIN query
  /\ {"visit", "deleteTarget", "typed", "bulkDeleteOpen", "selected", "open", "wizardOpen", "wizard"} \subseteq DOMAIN ui
  /\ \A c \in calls : c.op \in {"delete", "bulkDelete"} => Deletes(c, NamesAt("backupTargets"))
  /\ {"step", "backend", "filled", "named", "error"} \subseteq DOMAIN ui.wizard
  /\ \A c \in calls : "op" \in DOMAIN c
  /\ backupTargets!TypeOK

LEMMA BackupTargetRemoved ==
  ASSUME BackupTargetTypes, NEW others, others \subseteq calls, NEW c, Deletes(c, NamesAt("backupTargets")),
         NEW n \in NamesAt("backupTargets") \cup {None},
         backupTargets!Remove(others, c, n)
  PROVE  BackupTargetTypes'
<1> DEFINE next == [[[c EXCEPT !.now = n] EXCEPT !.left = c.left \ {n}] EXCEPT !.before = query.rows]
<1>1. /\ DOMAIN next = DOMAIN c /\ next.op = c.op /\ next.now = n /\ next.left = c.left \ {n}
      /\ next.before = query.rows
  BY DEF Deletes
<1>2. Deletes(next, NamesAt("backupTargets"))
  BY <1>1 DEF Deletes, BackupTargetTypes, backupTargets!TypeOK, backupTargets!ListTypeOK, backupTargets!Listed
<1>3. calls' = others \cup {next} /\ UNCHANGED ui
  BY DEF backupTargets!Remove, Deletes
<1>4. "rows" \in DOMAIN query' /\ DOMAIN query'.rows \subseteq NamesAt("backupTargets")
  BY DEF backupTargets!Remove, BackupTargetTypes, backupTargets!TypeOK, backupTargets!ListTypeOK,
     backupTargets!Listed
<1> HIDE DEF next
<1> QED
  BY <1>1, <1>2, <1>3, <1>4 DEF BackupTargetTypes, backupTargets!TypeOK, backupTargets!ListTypeOK,
     backupTargets!Listed, Deletes

LEMMA BackupTargetDeleted ==
  ASSUME BackupTargetTypes, NEW op \in {"delete", "bulkDelete"}, NEW targets,
         targets \subseteq NamesAt("backupTargets"), backupTargets!DeleteEach(op, targets)
  PROVE  BackupTargetTypes'
<1>1. PICK n \in targets : backupTargets!Remove(calls, [op |-> op, now |-> n, left |-> targets, before |-> query.rows], n)
  BY DEF backupTargets!DeleteEach
<1>2. Deletes([op |-> op, now |-> n, left |-> targets, before |-> query.rows], NamesAt("backupTargets"))
  BY DEF Deletes, BackupTargetTypes, backupTargets!TypeOK, backupTargets!ListTypeOK, backupTargets!Listed
<1> QED
  BY <1>1, <1>2, BackupTargetRemoved

LEMMA BackupTargetListStep ==
  ASSUME BackupTargetTypes, backupTargets!ListNext
  PROVE  BackupTargetTypes'
<1> USE DEF backupTargets!TypeOK, backupTargets!ListTypeOK, backupTargets!Listed, backupTargets!Show,
      backupTargets!Send, backupTargets!Answered
<1>1. ASSUME NEW rows \in ListsAt("backupTargets"), backupTargets!Poll(rows)
      PROVE  BackupTargetTypes'
  BY <1>1, RowsAreNamed DEF backupTargets!Poll, BackupTargetTypes
<1>2. CASE backupTargets!DismissDelete
  <2>1. CASE ui' = [[ui EXCEPT !.deleteTarget = None] EXCEPT !.typed = None]
    BY <1>2, <2>1 DEF backupTargets!DismissDelete, BackupTargetTypes
  <2>2. CASE ui' = [ui EXCEPT !.deleteTarget = None]
    BY <1>2, <2>2 DEF backupTargets!DismissDelete, BackupTargetTypes
  <2> QED
    BY <1>2, <2>1, <2>2 DEF backupTargets!DismissDelete
<1>3. CASE backupTargets!DismissBulkDelete
  BY <1>3 DEF backupTargets!DismissBulkDelete, BackupTargetTypes
<1>4. ASSUME NEW n \in NamesAt("backupTargets"), backupTargets!TypeName(n)
      PROVE  BackupTargetTypes'
  BY <1>4 DEF backupTargets!TypeName, BackupTargetTypes
<1>5. ASSUME NEW c \in calls, backupTargets!DeleteEnds(c)
      PROVE  BackupTargetTypes'
  <2>1. /\ c.op \in {"delete", "bulkDelete"}
        /\ UNCHANGED query \/ query' = [query EXCEPT !.rows = c.before]
    BY <1>5 DEF backupTargets!DeleteEnds, backupTargets!Refuse
  <2>2. Deletes(c, NamesAt("backupTargets"))
    BY <2>1 DEF BackupTargetTypes
  <2>3. "rows" \in DOMAIN query' /\ DOMAIN query'.rows \subseteq NamesAt("backupTargets")
    BY <2>1, <2>2 DEF BackupTargetTypes, Deletes, backupTargets!Listed
  <2> QED
    BY <1>5, <2>3 DEF backupTargets!DeleteEnds, backupTargets!Listed, BackupTargetTypes
<1>6. ASSUME NEW c \in calls, backupTargets!BulkItem(c)
      PROVE  BackupTargetTypes'
  <2>1. /\ c.op \in {"delete", "bulkDelete"}
        /\ UNCHANGED query \/ query' = [query EXCEPT !.rows = c.before]
    BY <1>6 DEF backupTargets!BulkItem, backupTargets!Refuse
  <2>2. Deletes(c, NamesAt("backupTargets"))
    BY <2>1 DEF BackupTargetTypes
  <2>3. "rows" \in DOMAIN query' /\ DOMAIN query'.rows \subseteq NamesAt("backupTargets")
    BY <2>1, <2>2 DEF BackupTargetTypes, Deletes, backupTargets!Listed
  <2>4. PICK next : Deletes(next, NamesAt("backupTargets")) /\ calls' = (calls \ {c}) \cup {next} /\ UNCHANGED ui
    BY <1>6, <2>2 DEF backupTargets!BulkItem, Deletes
  <2> QED
    BY <2>3, <2>4 DEF backupTargets!Listed, BackupTargetTypes, Deletes
<1>7. ASSUME NEW c \in calls, backupTargets!BulkNext(c)
      PROVE  BackupTargetTypes'
  <2>1. Deletes(c, NamesAt("backupTargets"))
    BY <1>7 DEF backupTargets!BulkNext, BackupTargetTypes
  <2>2. PICK n \in c.left : backupTargets!Remove(calls \ {c}, c, n)
    BY <1>7 DEF backupTargets!BulkNext
  <2> QED
    BY <2>1, <2>2, BackupTargetRemoved DEF Deletes
<1> QED
  BY <1>1, <1>2, <1>3, <1>4, <1>5, <1>6, <1>7 DEF backupTargets!ListNext

LEMMA BackupTargetsTyped ==
  /\ (backupTargets!BackupTargetsInit => BackupTargetTypes)
  /\ (BackupTargetTypes /\ [backupTargets!BackupTargetsNext]_(backupTargets!listVars) => BackupTargetTypes')
  /\ (BackupTargetTypes => backupTargets!TypeOK)
<1> USE DEF backupTargets!TypeOK, backupTargets!ListTypeOK, backupTargets!Listed, backupTargets!Show,
      backupTargets!Send, backupTargets!Answered
<1>1. backupTargets!BackupTargetsInit => BackupTargetTypes
  BY RowsAreNamed DEF backupTargets!BackupTargetsInit, backupTargets!Fresh, backupTargets!Backends,
     BackupTargetTypes
<1>2. ASSUME BackupTargetTypes, backupTargets!BackupTargetsNext
      PROVE  BackupTargetTypes'
  <2>1. CASE backupTargets!OpenCreate
    BY <1>2, <2>1 DEF backupTargets!OpenCreate, BackupTargetTypes
  <2>2. CASE backupTargets!CloseCreate
    BY <1>2, <2>2 DEF backupTargets!CloseCreate, BackupTargetTypes
  <2>3. CASE backupTargets!onCreate
    BY <1>2, <2>3 DEF backupTargets!onCreate, BackupTargetTypes
  <2>4. ASSUME NEW c \in calls, backupTargets!CreateAnswered(c)
        PROVE  BackupTargetTypes'
    BY <1>2, <2>4 DEF backupTargets!CreateAnswered, BackupTargetTypes
  <2>5. ASSUME NEW n \in NamesAt("backupTargets"), backupTargets!syncTarget(n)
        PROVE  BackupTargetTypes'
    BY <1>2, <2>5 DEF backupTargets!syncTarget, BackupTargetTypes
  <2>6. ASSUME NEW c \in calls, backupTargets!SyncAnswered(c)
        PROVE  BackupTargetTypes'
    BY <1>2, <2>6 DEF backupTargets!SyncAnswered, BackupTargetTypes
  <2>7. ASSUME NEW n \in NamesAt("backupTargets"), backupTargets!OpenDelete(n)
        PROVE  BackupTargetTypes'
    BY <1>2, <2>7 DEF backupTargets!OpenDelete, BackupTargetTypes
  <2>8. CASE backupTargets!ConfirmDelete
    BY <1>2, <2>8, BackupTargetDeleted DEF backupTargets!ConfirmDelete, backupTargets!CanConfirm,
       BackupTargetTypes
  <2>9. ASSUME NEW n \in NamesAt("backupTargets"), backupTargets!Tick(n)
        PROVE  BackupTargetTypes'
    BY <1>2, <2>9 DEF backupTargets!Tick, BackupTargetTypes
  <2>10. CASE backupTargets!OpenBulkDelete
    BY <1>2, <2>10 DEF backupTargets!OpenBulkDelete, BackupTargetTypes
  <2>11. CASE backupTargets!ConfirmBulkDelete
    BY <1>2, <2>11, BackupTargetDeleted DEF backupTargets!ConfirmBulkDelete, backupTargets!BulkDeleted,
       BackupTargetTypes
  <2>12. ASSUME NEW c \in calls, backupTargets!BulkDeleteEnds(c)
         PROVE  BackupTargetTypes'
    BY <1>2, <2>12 DEF backupTargets!BulkDeleteEnds, backupTargets!BulkEnds, backupTargets!BulkDeleted,
       BackupTargetTypes
  <2>13. CASE backupTargets!OpenWizard
    BY <1>2, <2>13 DEF backupTargets!OpenWizard, BackupTargetTypes
  <2>14. CASE backupTargets!CloseWizard
    BY <1>2, <2>14 DEF backupTargets!CloseWizard, backupTargets!Fresh, backupTargets!Backends,
       BackupTargetTypes
  <2>15. ASSUME NEW backend \in backupTargets!Backends, backupTargets!ChooseBackend(backend)
         PROVE  BackupTargetTypes'
    BY <1>2, <2>15 DEF backupTargets!ChooseBackend, BackupTargetTypes
  <2>16. ASSUME NEW filled \in BOOLEAN, backupTargets!FillStep2(filled)
         PROVE  BackupTargetTypes'
    BY <1>2, <2>16 DEF backupTargets!FillStep2, BackupTargetTypes
  <2>17. ASSUME NEW named \in BOOLEAN, backupTargets!EnterTargetName(named)
         PROVE  BackupTargetTypes'
    BY <1>2, <2>17 DEF backupTargets!EnterTargetName, BackupTargetTypes
  <2>18. CASE backupTargets!Back
    BY <1>2, <2>18 DEF backupTargets!Back, BackupTargetTypes
  <2>19. CASE backupTargets!Next
    BY <1>2, <2>19 DEF backupTargets!Next, BackupTargetTypes
  <2>20. CASE backupTargets!finish
    BY <1>2, <2>20 DEF backupTargets!finish, BackupTargetTypes
  <2>21. ASSUME NEW c \in calls, backupTargets!CredentialAnswered(c)
         PROVE  BackupTargetTypes'
    <3>1. CASE backupTargets!Answered(c, [ui EXCEPT !.wizard.error = TRUE])
      BY <1>2, <3>1 DEF BackupTargetTypes
    <3>2. CASE ~backupTargets!Answered(c, [ui EXCEPT !.wizard.error = TRUE])
      <4>1. UNCHANGED <<query, ui>>
        BY <2>21, <3>2 DEF backupTargets!CredentialAnswered
      <4>2. PICK next : "op" \in DOMAIN next /\ next.op = "target" /\ calls' = (calls \ {c}) \cup {next}
        <5> DEFINE next == [[c EXCEPT !.op = "target"] EXCEPT !.created = backupTargets!Secret(c.spec.backend)]
        <5>1. calls' = (calls \ {c}) \cup {next}
          BY <2>21, <3>2 DEF backupTargets!CredentialAnswered
        <5>2. "op" \in DOMAIN c
          BY <1>2 DEF BackupTargetTypes
        <5>3. "op" \in DOMAIN next /\ next.op = "target"
          BY <5>2
        <5> HIDE DEF next
        <5> QED
          BY <5>1, <5>3
      <4> QED
        BY <1>2, <4>1, <4>2 DEF BackupTargetTypes
    <3> QED
      BY <3>1, <3>2
  <2>22. ASSUME NEW c \in calls, backupTargets!TargetAnswered(c)
         PROVE  BackupTargetTypes'
    <3>1. CASE backupTargets!Answered(c, [ui EXCEPT !.wizard.error = TRUE])
      BY <1>2, <3>1 DEF BackupTargetTypes
    <3>2. CASE backupTargets!Answered(c, [[ui EXCEPT !.wizardOpen = FALSE] EXCEPT !.wizard = backupTargets!Fresh])
      BY <1>2, <3>2 DEF backupTargets!Fresh, backupTargets!Backends, BackupTargetTypes
    <3> QED
      BY <2>22, <3>1, <3>2 DEF backupTargets!TargetAnswered
  <2> QED
    BY <1>2, BackupTargetListStep, <2>1, <2>2, <2>3, <2>4, <2>5, <2>6, <2>7, <2>8, <2>9, <2>10, <2>11,
       <2>12, <2>13, <2>14, <2>15, <2>16, <2>17, <2>18, <2>19, <2>20, <2>21, <2>22 DEF
       backupTargets!BackupTargetsNext
<1>3. BackupTargetTypes /\ UNCHANGED backupTargets!listVars => BackupTargetTypes'
  BY DEF backupTargets!listVars, BackupTargetTypes
<1>4. BackupTargetTypes => backupTargets!TypeOK
  BY DEF BackupTargetTypes
<1> QED
  BY <1>1, <1>2, <1>3, <1>4

-----------------------------------------------------------------------------
(* BackupsPage                                                               *)

\* What a handler will put on the screen is a volume.
BackupCall(c) ==
  /\ "op" \in DOMAIN c
  /\ c.op \in {"list", "deleteEntry", "sync", "syncAll", "restore", "bulkRestore", "delete", "bulkDelete"}
  /\ c.op \in {"list", "deleteEntry"} => c.vol \in NamesAt("backups") \cup {None}
  /\ c.op = "bulkRestore" => c.left \subseteq NamesAt("backups")

BackupTypes ==
  /\ "volumes" \in DOMAIN query
  /\ {"visit", "backupListFor", "backupList", "restoreTarget", "last", "restoreOverride", "standby", "named",
      "deleteTarget", "typed", "bulkDeleteOpen", "selected"} \subseteq DOMAIN ui
  /\ ui.backupList \in NamesAt("backups") \cup {None}
  /\ \A c \in calls : BackupCall(c)
  /\ backups!TypeOK

LEMMA BackupCreated ==
  ASSUME BackupTypes, NEW others, others \subseteq calls, NEW c, BackupCall(c), backups!Create(others, c)
  PROVE  \A d \in calls' : BackupCall(d)
<1>1. ASSUME NEW d \in others
      PROVE  BackupCall([d EXCEPT !.newest = FALSE]) /\ BackupCall(d)
  BY <1>1 DEF BackupCall, BackupTypes
<1> QED
  BY <1>1 DEF backups!Create

\* Requests that change nothing but themselves.
LEMMA BackupAsked ==
  ASSUME BackupTypes, UNCHANGED <<query, ui>>, \A d \in calls' : BackupCall(d)
  PROVE  BackupTypes'
BY DEF BackupTypes, backups!TypeOK, BackupCall

LEMMA BackupShown ==
  ASSUME BackupTypes, UNCHANGED query, \A d \in calls' : BackupCall(d),
         DOMAIN ui' = DOMAIN ui, ui'.selected \subseteq NamesAt("backups"),
         {ui'.backupListFor, ui'.backupList, ui'.restoreTarget, ui'.restoreOverride, ui'.deleteTarget}
           \subseteq NamesAt("backups") \cup {None}
  PROVE  BackupTypes'
BY DEF BackupTypes, backups!TypeOK, BackupCall

LEMMA BackupsTyped ==
  /\ (backups!BackupsInit => BackupTypes)
  /\ (BackupTypes /\ [backups!BackupsNext]_(backups!backupsVars) => BackupTypes')
  /\ (BackupTypes => backups!TypeOK)
<1> USE DEF backups!TypeOK, backups!Show, backups!Send, backups!Answered
<1>1. backups!BackupsInit => BackupTypes
  BY DEF backups!BackupsInit, BackupTypes
<1>2. ASSUME BackupTypes, backups!BackupsNext
      PROVE  BackupTypes'
  <2>1. ASSUME NEW list \in ListsAt("backups"), backups!Poll(list)
        PROVE  BackupTypes'
    BY <1>2, <2>1 DEF backups!Poll, BackupTypes
  <2>2. ASSUME NEW n \in NamesAt("backups"), backups!listBackups(n)
        PROVE  BackupTypes'
    BY <1>2, <2>2, BackupAsked DEF backups!listBackups, BackupTypes, BackupCall
  <2>3. ASSUME NEW c \in calls, backups!ListAnswered(c)
        PROVE  BackupTypes'
    <3>1. c.vol \in NamesAt("backups") \cup {None}
      BY <1>2, <2>3 DEF backups!ListAnswered, BackupTypes, BackupCall
    <3>2. CASE ui' = [[ui EXCEPT !.backupList = c.vol] EXCEPT !.backupListFor = c.vol]
      <4>1. /\ DOMAIN ui' = DOMAIN ui /\ ui'.backupList = c.vol /\ ui'.backupListFor = c.vol
            /\ \A f \in {"selected", "restoreTarget", "restoreOverride", "deleteTarget"} : ui'[f] = ui[f]
        BY <1>2, <3>2 DEF BackupTypes
      <4> QED
        BY <1>2, <2>3, <3>1, <4>1, BackupShown DEF backups!ListAnswered, BackupTypes
    <3>3. CASE ui' = ui
      BY <1>2, <2>3, <3>3, BackupShown DEF backups!ListAnswered, BackupTypes
    <3> QED
      BY <2>3, <3>2, <3>3 DEF backups!ListAnswered
  <2>4. CASE backups!deleteBackupEntry
    BY <1>2, <2>4, BackupAsked DEF backups!deleteBackupEntry, BackupTypes, BackupCall
  <2>5. ASSUME NEW c \in calls, backups!EntryDeleted(c)
        PROVE  BackupTypes'
    BY <1>2, <2>5, BackupAsked DEF backups!EntryDeleted, BackupTypes, BackupCall
  <2>6. ASSUME NEW n \in NamesAt("backups"), backups!syncOne(n)
        PROVE  BackupTypes'
    BY <1>2, <2>6, BackupAsked DEF backups!syncOne, BackupTypes, BackupCall
  <2>7. CASE backups!syncAll
    BY <1>2, <2>7, BackupAsked DEF backups!syncAll, BackupTypes, BackupCall
  <2>8. ASSUME NEW c \in calls, backups!SyncAnswered(c)
        PROVE  BackupTypes'
    <3>1. ASSUME NEW n
          PROVE  BackupCall([c EXCEPT !.left = @ \ {n}]) \/ c.op # "sync"
      BY <1>2 DEF BackupTypes, BackupCall
    <3>2. BackupCall([c EXCEPT !.op = "sync"])
      BY <1>2 DEF BackupTypes, BackupCall
    <3> QED
      BY <1>2, <2>8, <3>1, <3>2, BackupAsked DEF backups!SyncAnswered, BackupTypes
  <2>9. ASSUME NEW n \in NamesAt("backups"), NEW standby \in BOOLEAN, backups!OpenRestore(n, standby)
        PROVE  BackupTypes'
    <3>1. \E l : ui' = [[[[[ui EXCEPT !.restoreTarget = n] EXCEPT !.last = l] EXCEPT !.named = TRUE]
                         EXCEPT !.standby = standby] EXCEPT !.restoreOverride = None]
      BY <2>9 DEF backups!OpenRestore, backups!Titled
    <3>2. /\ DOMAIN ui' = DOMAIN ui /\ ui'.restoreTarget = n /\ ui'.restoreOverride = None
          /\ \A f \in {"selected", "backupListFor", "backupList", "deleteTarget"} : ui'[f] = ui[f]
      BY <1>2, <3>1 DEF BackupTypes
    <3> QED
      BY <1>2, <2>9, <3>2, BackupShown DEF backups!OpenRestore, BackupTypes
  <2>10. CASE backups!OpenRestoreEntry
    <3>1. \E l : ui' = [[[[[ui EXCEPT !.restoreTarget = ui.backupListFor] EXCEPT !.last = l] EXCEPT !.named = TRUE]
                         EXCEPT !.standby = FALSE] EXCEPT !.restoreOverride = ui.backupList]
      BY <2>10 DEF backups!OpenRestoreEntry, backups!Titled
    <3>2. /\ DOMAIN ui' = DOMAIN ui /\ ui'.restoreTarget = ui.backupListFor /\ ui'.restoreOverride = ui.backupList
          /\ \A f \in {"selected", "backupListFor", "backupList", "deleteTarget"} : ui'[f] = ui[f]
      BY <1>2, <3>1 DEF BackupTypes
    <3> QED
      BY <1>2, <2>10, <3>2, BackupShown DEF backups!OpenRestoreEntry, BackupTypes
  <2>11. CASE backups!CloseRestore
    BY <1>2, <2>11, BackupShown DEF backups!CloseRestore, BackupTypes
  <2>12. ASSUME NEW named \in BOOLEAN, backups!EnterName(named)
         PROVE  BackupTypes'
    BY <1>2, <2>12, BackupShown DEF backups!EnterName, BackupTypes
  <2>13. CASE backups!restore
    <3>1. PICK c : c.op = "restore" /\ "op" \in DOMAIN c /\ backups!Create(calls, c)
      BY <2>13 DEF backups!restore
    <3>2. BackupCall(c)
      BY <3>1 DEF BackupCall
    <3> QED
      BY <1>2, <2>13, <3>1, <3>2, BackupCreated, BackupAsked DEF backups!restore
  <2>14. ASSUME NEW c \in calls, backups!RestoreAnswered(c)
         PROVE  BackupTypes'
    BY <1>2, <2>14, BackupShown, ZenonT(60) DEF backups!RestoreAnswered, BackupTypes
  <2>15. ASSUME NEW sel \in SUBSET NamesAt("backups"), backups!bulkRestore(sel)
         PROVE  BackupTypes'
    <3>1. PICK n \in sel :
            /\ ui' = backups!Titled(n)
            /\ backups!Create(calls, [op |-> "bulkRestore", rows |-> query.volumes, left |-> sel \ {n}, newest |-> TRUE])
      BY <2>15 DEF backups!bulkRestore
    <3>2. BackupCall([op |-> "bulkRestore", rows |-> query.volumes, left |-> sel \ {n}, newest |-> TRUE])
      BY DEF BackupCall
    <3>3. \A d \in calls' : BackupCall(d)
      BY <1>2, <3>1, <3>2, BackupCreated
    <3>4. \E l : ui' = [[[ui EXCEPT !.restoreTarget = n] EXCEPT !.last = l] EXCEPT !.named = TRUE]
      BY <3>1 DEF backups!Titled
    <3> QED
      BY <1>2, <2>15, <3>3, <3>4, BackupShown DEF backups!bulkRestore, BackupTypes
  <2>16. ASSUME NEW c \in calls, backups!BulkRestored(c)
         PROVE  BackupTypes'
    <3>1. PICK n \in c.left :
            /\ ui' = [ui EXCEPT !.restoreTarget = n, !.last = "last" \in c.rows[n], !.named = TRUE]
            /\ backups!Create(calls \ {c}, [c EXCEPT !.left = @ \ {n}, !.newest = TRUE])
      BY <2>16 DEF backups!BulkRestored
    <3> DEFINE next == [[c EXCEPT !.left = c.left \ {n}] EXCEPT !.newest = TRUE]
    <3>2. BackupCall(c) /\ c.op = "bulkRestore"
      BY <1>2, <2>16 DEF backups!BulkRestored, BackupTypes
    <3>3. BackupCall(next)
      BY <3>2 DEF BackupCall
    <3>4. backups!Create(calls \ {c}, next)
      BY <3>1
    <3> HIDE DEF next
    <3>5. \A d \in calls' : BackupCall(d)
      BY <1>2, <3>3, <3>4, BackupCreated
    <3>6. n \in NamesAt("backups")
      BY <3>2 DEF BackupCall
    <3>7. \E l : ui' = [[[ui EXCEPT !.restoreTarget = n] EXCEPT !.last = l] EXCEPT !.named = TRUE]
      BY <3>1
    <3>8. /\ DOMAIN ui' = DOMAIN ui /\ ui'.restoreTarget = n
          /\ \A f \in {"selected", "backupListFor", "backupList", "restoreOverride", "deleteTarget"} : ui'[f] = ui[f]
      BY <1>2, <3>7 DEF BackupTypes
    <3> QED
      BY <1>2, <2>16, <3>5, <3>6, <3>8, BackupShown DEF backups!BulkRestored, BackupTypes
  <2>17. ASSUME NEW c \in calls, backups!BulkRestoreEnds(c)
         PROVE  BackupTypes'
    BY <1>2, <2>17, BackupShown DEF backups!BulkRestoreEnds, BackupTypes
  <2>18. ASSUME NEW n \in NamesAt("backups"), backups!OpenDelete(n)
         PROVE  BackupTypes'
    BY <1>2, <2>18, BackupShown DEF backups!OpenDelete, BackupTypes
  <2>19. CASE backups!DismissDelete
    <3>1. CASE ui' = [[ui EXCEPT !.deleteTarget = None] EXCEPT !.typed = None]
      BY <1>2, <2>19, <3>1, BackupShown DEF backups!DismissDelete, BackupTypes
    <3>2. CASE ui' = [ui EXCEPT !.deleteTarget = None]
      BY <1>2, <2>19, <3>2, BackupShown DEF backups!DismissDelete, BackupTypes
    <3> QED
      BY <2>19, <3>1, <3>2 DEF backups!DismissDelete
  <2>20. ASSUME NEW n \in NamesAt("backups"), backups!TypeName(n)
         PROVE  BackupTypes'
    BY <1>2, <2>20, BackupShown DEF backups!TypeName, BackupTypes
  <2>21. CASE backups!ConfirmDelete
    BY <1>2, <2>21, BackupAsked DEF backups!ConfirmDelete, BackupTypes, BackupCall
  <2>22. ASSUME NEW c \in calls, backups!DeleteAnswered(c)
         PROVE  BackupTypes'
    BY <1>2, <2>22, BackupShown DEF backups!DeleteAnswered, BackupTypes
  <2>23. ASSUME NEW n \in NamesAt("backups"), backups!Tick(n)
         PROVE  BackupTypes'
    BY <1>2, <2>23, BackupShown DEF backups!Tick, BackupTypes
  <2>24. CASE backups!OpenBulkDelete
    BY <1>2, <2>24, BackupShown DEF backups!OpenBulkDelete, BackupTypes
  <2>25. CASE backups!CloseBulkDelete
    BY <1>2, <2>25, BackupShown DEF backups!CloseBulkDelete, BackupTypes
  <2>26. CASE backups!ConfirmBulkDelete
    BY <1>2, <2>26, BackupAsked DEF backups!ConfirmBulkDelete, BackupTypes, BackupCall
  <2>27. ASSUME NEW c \in calls, backups!BulkItem(c)
         PROVE  BackupTypes'
    <3>1. ASSUME NEW n
          PROVE  BackupCall([c EXCEPT !.left = @ \ {n}]) \/ c.op # "bulkDelete"
      BY <1>2 DEF BackupTypes, BackupCall
    <3> QED
      BY <1>2, <2>27, <3>1, BackupAsked DEF backups!BulkItem, BackupTypes
  <2>28. ASSUME NEW c \in calls, backups!BulkDeleteEnds(c)
         PROVE  BackupTypes'
    BY <1>2, <2>28, BackupShown DEF backups!BulkDeleteEnds, BackupTypes
  <2> QED
    BY <1>2, <2>1, <2>2, <2>3, <2>4, <2>5, <2>6, <2>7, <2>8, <2>9, <2>10, <2>11, <2>12, <2>13, <2>14, <2>15,
       <2>16, <2>17, <2>18, <2>19, <2>20, <2>21, <2>22, <2>23, <2>24, <2>25, <2>26, <2>27, <2>28 DEF
       backups!BackupsNext
<1>3. BackupTypes /\ UNCHANGED backups!backupsVars => BackupTypes'
  BY DEF backups!backupsVars, BackupTypes
<1>4. BackupTypes => backups!TypeOK
  BY DEF BackupTypes
<1> QED
  BY <1>1, <1>2, <1>3, <1>4

-----------------------------------------------------------------------------
(* RecurringJobsPage                                                         *)

JobTypes ==
  /\ "jobs" \in DOMAIN query
  /\ {"open", "editTarget", "form", "purpose", "deleteTarget", "typed", "bulk", "bulkOpen"} \subseteq DOMAIN ui
  /\ {"name", "task", "labels"} \subseteq DOMAIN ui.form
  /\ \A c \in calls : "op" \in DOMAIN c
  /\ recurringJobs!TypeOK

LEMMA JobsTyped ==
  /\ (recurringJobs!JobsInit => JobTypes)
  /\ (JobTypes /\ [recurringJobs!JobsNext]_(recurringJobs!jobsVars) => JobTypes')
  /\ (JobTypes => recurringJobs!TypeOK)
<1> USE DEF recurringJobs!TypeOK, recurringJobs!Show, recurringJobs!Send, recurringJobs!Answered
<1>1. recurringJobs!JobsInit => JobTypes
  BY DEF recurringJobs!JobsInit, recurringJobs!emptyForm, JobTypes
<1>2. ASSUME JobTypes, recurringJobs!JobsNext
      PROVE  JobTypes'
  <2>1. ASSUME NEW list \in ListsAt("recurringJobs"), recurringJobs!Poll(list)
        PROVE  JobTypes'
    BY <1>2, <2>1 DEF recurringJobs!Poll, JobTypes
  <2>2. CASE recurringJobs!openCreate
    BY <1>2, <2>2 DEF recurringJobs!openCreate, recurringJobs!emptyForm, JobTypes
  <2>3. ASSUME NEW n \in NamesAt("recurringJobs"), recurringJobs!openEdit(n)
        PROVE  JobTypes'
    BY <1>2, <2>3 DEF recurringJobs!openEdit, recurringJobs!formFromJob, JobTypes
  <2>4. CASE recurringJobs!CloseForm
    BY <1>2, <2>4 DEF recurringJobs!CloseForm, JobTypes
  <2>5. ASSUME NEW n \in NamesAt("recurringJobs") \cup {None}, recurringJobs!SetName(n)
        PROVE  JobTypes'
    BY <1>2, <2>5 DEF recurringJobs!SetName, JobTypes
  <2>6. ASSUME NEW task \in {"snapshot", "system-backup"}, recurringJobs!SetTask(task)
        PROVE  JobTypes'
    BY <1>2, <2>6 DEF recurringJobs!SetTask, JobTypes
  <2>7. ASSUME NEW labels \in BOOLEAN, recurringJobs!SetLabels(labels)
        PROVE  JobTypes'
    BY <1>2, <2>7 DEF recurringJobs!SetLabels, JobTypes
  <2>8. CASE recurringJobs!onSubmit
    BY <1>2, <2>8 DEF recurringJobs!onSubmit, JobTypes
  <2>9. ASSUME NEW c \in calls, recurringJobs!SubmitAnswered(c)
        PROVE  JobTypes'
    <3>1. CASE ui' = [[[ui EXCEPT !.open = FALSE] EXCEPT !.editTarget = None] EXCEPT !.form = recurringJobs!emptyForm]
      BY <1>2, <2>9, <3>1 DEF recurringJobs!SubmitAnswered, recurringJobs!emptyForm, JobTypes
    <3>2. CASE ui' = ui
      BY <1>2, <2>9, <3>2 DEF recurringJobs!SubmitAnswered, JobTypes
    <3> QED
      BY <2>9, <3>1, <3>2 DEF recurringJobs!SubmitAnswered
  <2>10. ASSUME NEW n \in NamesAt("recurringJobs"), recurringJobs!OpenDelete(n)
         PROVE  JobTypes'
    BY <1>2, <2>10 DEF recurringJobs!OpenDelete, JobTypes
  <2>11. CASE recurringJobs!DismissDelete
    <3>1. CASE ui' = [[ui EXCEPT !.deleteTarget = None] EXCEPT !.typed = None]
      BY <1>2, <2>11, <3>1 DEF recurringJobs!DismissDelete, JobTypes
    <3>2. CASE ui' = [ui EXCEPT !.deleteTarget = None]
      BY <1>2, <2>11, <3>2 DEF recurringJobs!DismissDelete, JobTypes
    <3> QED
      BY <2>11, <3>1, <3>2 DEF recurringJobs!DismissDelete
  <2>12. ASSUME NEW n \in NamesAt("recurringJobs"), recurringJobs!TypeName(n)
         PROVE  JobTypes'
    BY <1>2, <2>12 DEF recurringJobs!TypeName, JobTypes
  <2>13. CASE recurringJobs!ConfirmDelete
    BY <1>2, <2>13 DEF recurringJobs!ConfirmDelete, JobTypes
  <2>14. ASSUME NEW c \in calls, recurringJobs!DeleteAnswered(c)
         PROVE  JobTypes'
    BY <1>2, <2>14 DEF recurringJobs!DeleteAnswered, JobTypes
  <2>15. ASSUME NEW sel \in SUBSET NamesAt("recurringJobs"), recurringJobs!OpenBulk(sel)
         PROVE  JobTypes'
    BY <1>2, <2>15 DEF recurringJobs!OpenBulk, JobTypes
  <2>16. CASE recurringJobs!CloseBulk
    BY <1>2, <2>16 DEF recurringJobs!CloseBulk, JobTypes
  <2>17. CASE recurringJobs!ConfirmBulk
    BY <1>2, <2>17 DEF recurringJobs!ConfirmBulk, JobTypes
  <2>18. ASSUME NEW c \in calls, recurringJobs!BulkItem(c)
         PROVE  JobTypes'
    BY <1>2, <2>18 DEF recurringJobs!BulkItem, JobTypes
  <2>19. ASSUME NEW c \in calls, recurringJobs!BulkEnds(c)
         PROVE  JobTypes'
    BY <1>2, <2>19 DEF recurringJobs!BulkEnds, JobTypes
  <2> QED
    BY <1>2, <2>1, <2>2, <2>3, <2>4, <2>5, <2>6, <2>7, <2>8, <2>9, <2>10, <2>11, <2>12, <2>13, <2>14, <2>15,
       <2>16, <2>17, <2>18, <2>19 DEF
       recurringJobs!JobsNext
<1>3. JobTypes /\ UNCHANGED recurringJobs!jobsVars => JobTypes'
  BY DEF recurringJobs!jobsVars, JobTypes
<1>4. JobTypes => recurringJobs!TypeOK
  BY DEF JobTypes
<1> QED
  BY <1>1, <1>2, <1>3, <1>4

-----------------------------------------------------------------------------
(* SettingsPage                                                              *)

SettingTypes ==
  /\ "settings" \in DOMAIN query
  /\ {"drafts", "dangerTarget", "dangerValue", "typed"} \subseteq DOMAIN ui
  /\ \A c \in calls : DOMAIN c.before = NamesAt("settings")
  /\ settings!TypeOK

LEMMA SettingApplied ==
  ASSUME SettingTypes, NEW n \in NamesAt("settings"), NEW v, settings!Apply(n, v)
  PROVE  SettingTypes'
<1>1. DOMAIN query'.settings = NamesAt("settings") /\ "settings" \in DOMAIN query'
  BY DEF settings!Apply, SettingTypes, settings!TypeOK
<1>2. PICK c : calls' = calls \cup {c} /\ c.setting = n /\ c.before = query.settings
  <2> DEFINE c == [setting |-> n, value |-> v, engines |-> settings!engineMapOf(n), before |-> query.settings]
  <2>1. calls' = calls \cup {c}
    BY DEF settings!Apply
  <2>2. c.setting = n /\ c.before = query.settings
    OBVIOUS
  <2> HIDE DEF c
  <2> QED
    BY <2>1, <2>2
<1> QED
  BY <1>1, <1>2 DEF settings!Apply, SettingTypes, settings!TypeOK

LEMMA SettingsTyped ==
  /\ (settings!SettingsInit => SettingTypes)
  /\ (SettingTypes /\ [settings!SettingsNext]_(settings!settingsVars) => SettingTypes')
  /\ (SettingTypes => settings!TypeOK)
<1> USE DEF settings!TypeOK
<1>1. settings!SettingsInit => SettingTypes
  BY SettingsStay DEF settings!SettingsInit, SettingTypes
<1>2. ASSUME SettingTypes, settings!SettingsNext
      PROVE  SettingTypes'
  <2>1. ASSUME NEW list \in ListsAt("settings"), settings!Poll(list)
        PROVE  SettingTypes'
    BY <1>2, <2>1, SettingsStay DEF settings!Poll, SettingTypes
  <2>2. ASSUME NEW n \in NamesAt("settings"), NEW e \in settings!Engines \cup {None}, NEW v \in Values, settings!EnterDraft(n, e, v)
        PROVE  SettingTypes'
    BY <1>2, <2>2 DEF settings!EnterDraft, SettingTypes
  <2>3. ASSUME NEW n \in NamesAt("settings"), settings!save(n)
        PROVE  SettingTypes'
    <3>1. CASE settings!Apply(n, settings!NewValue(n))
      BY <1>2, <3>1, SettingApplied
    <3>2. CASE settings!Ask(n)
      <4>1. PICK v : ui' = [[ui EXCEPT !.dangerTarget = n] EXCEPT !.dangerValue = v]
        BY <3>2 DEF settings!Ask
      <4> QED
        BY <1>2, <3>2, <4>1 DEF settings!Ask, SettingTypes
    <3> QED
      BY <2>3, <3>1, <3>2 DEF settings!save
  <2>4. CASE settings!DismissDanger
    <3>1. CASE ui' = [[[ui EXCEPT !.dangerTarget = None] EXCEPT !.dangerValue = None] EXCEPT !.typed = None]
      BY <1>2, <2>4, <3>1 DEF settings!DismissDanger, SettingTypes
    <3>2. CASE ui' = [[ui EXCEPT !.dangerTarget = None] EXCEPT !.dangerValue = None]
      BY <1>2, <2>4, <3>2 DEF settings!DismissDanger, SettingTypes
    <3> QED
      BY <2>4, <3>1, <3>2 DEF settings!DismissDanger
  <2>5. ASSUME NEW n \in NamesAt("settings"), settings!TypeName(n)
        PROVE  SettingTypes'
    BY <1>2, <2>5 DEF settings!TypeName, SettingTypes
  <2>6. CASE settings!ConfirmDanger
    BY <1>2, <2>6, SettingApplied DEF settings!ConfirmDanger, SettingTypes
  <2>7. ASSUME NEW c \in calls, settings!SaveAnswered(c)
        PROVE  SettingTypes'
    <3>1. CASE query' = [settings |-> c.before] /\ UNCHANGED ui
      BY <1>2, <2>7, <3>1 DEF settings!SaveAnswered, SettingTypes
    <3>2. CASE UNCHANGED query
      <4> DEFINE kept == [k \in DOMAIN ui.drafts |-> IF k[1] = c.setting /\ k[2] \in c.engines \cup {None}
                                                     THEN None ELSE ui.drafts[k]]
      <4>1. kept \in [NamesAt("settings") \X (settings!Engines \cup {None}) -> Values \cup {None}]
        BY <1>2 DEF SettingTypes
      <4>2. ui' = ui \/ ui' = [[[ui EXCEPT !.dangerTarget = None] EXCEPT !.dangerValue = None] EXCEPT !.drafts = kept]
        BY <1>2, <2>7 DEF settings!SaveAnswered, SettingTypes
      <4> HIDE DEF kept
      <4>3. CASE ui' = ui
        BY <1>2, <2>7, <3>2, <4>3 DEF settings!SaveAnswered, SettingTypes
      <4>4. CASE ui' = [[[ui EXCEPT !.dangerTarget = None] EXCEPT !.dangerValue = None] EXCEPT !.drafts = kept]
        BY <1>2, <2>7, <3>2, <4>1, <4>4 DEF settings!SaveAnswered, SettingTypes
      <4> QED
        BY <4>2, <4>3, <4>4
    <3> QED
      BY <2>7, <3>1, <3>2 DEF settings!SaveAnswered
  <2> QED
    BY <1>2, <2>1, <2>2, <2>3, <2>4, <2>5, <2>6, <2>7 DEF settings!SettingsNext
<1>3. SettingTypes /\ UNCHANGED settings!settingsVars => SettingTypes'
  BY DEF settings!settingsVars, SettingTypes
<1>4. SettingTypes => settings!TypeOK
  BY DEF SettingTypes
<1> QED
  BY <1>1, <1>2, <1>3, <1>4

-----------------------------------------------------------------------------
(* SSOConfigPage                                                             *)

\* What a request brings to the form, or the form to the server.
SSOCall(c) ==
  /\ "op" \in DOMAIN c
  /\ \/ c.op = "load" /\ c.read \in Configs
     \/ c.op = "save" /\ c.form \in Configs /\ c.secret \in BOOLEAN

SSOTypes ==
  /\ {"form", "clientSecret", "secretSet", "loading", "saving", "error"} \subseteq DOMAIN ui
  /\ ui.clientSecret \in BOOLEAN
  /\ \A c \in calls : SSOCall(c)
  /\ sso!TypeOK

LEMMA SSOTyped ==
  /\ (sso!SSOInit => SSOTypes)
  /\ (SSOTypes /\ [sso!SSONext]_(sso!ssoVars) => SSOTypes')
  /\ (SSOTypes => sso!TypeOK)
<1> USE DEF sso!TypeOK
<1>1. sso!SSOInit => SSOTypes
  BY EmptyFormIsOne DEF sso!SSOInit, sso!Load, SSOCall, SSOTypes
<1>2. ASSUME SSOTypes, sso!SSONext
      PROVE  SSOTypes'
  <2>1. CASE sso!ChangeLanguage
    <3>1. PICK k : calls' = (calls \ sso!Loads) \cup {[c EXCEPT !.cancelled = TRUE] : c \in sso!Loads} \cup {sso!Load(k)}
      BY <2>1 DEF sso!ChangeLanguage
    <3>2. SSOCall(sso!Load(k))
      BY <1>2 DEF sso!Load, SSOCall, SSOTypes
    <3>3. ASSUME NEW c \in calls
          PROVE  SSOCall([c EXCEPT !.cancelled = TRUE])
      BY <1>2 DEF SSOTypes, SSOCall
    <3>4. \A c \in calls' : SSOCall(c)
      BY <1>2, <3>1, <3>2, <3>3 DEF sso!Loads, SSOTypes
    <3>5. ui' = [[ui EXCEPT !.loading = TRUE] EXCEPT !.error = FALSE] /\ UNCHANGED query
      BY <2>1 DEF sso!ChangeLanguage
    <3> QED
      BY <1>2, <3>4, <3>5 DEF SSOTypes, SSOCall
  <2>2. ASSUME NEW c \in calls, sso!LoadAnswered(c)
        PROVE  SSOTypes'
    BY <1>2, <2>2 DEF sso!LoadAnswered, sso!Loaded, SSOTypes, SSOCall
  <2>3. CASE sso!Enter
    BY <1>2, <2>3 DEF sso!Enter, SSOTypes
  <2>4. CASE sso!onSave
    BY <1>2, <2>4 DEF sso!onSave, SSOTypes, SSOCall
  <2>5. ASSUME NEW c \in calls, sso!Write(c)
        PROVE  SSOTypes'
    <3>1. SSOCall(c) /\ c.op = "save"
      BY <1>2, <2>5 DEF sso!Write, SSOTypes
    <3>2. SSOCall([c EXCEPT !.written = TRUE])
      BY <3>1 DEF SSOCall
    <3>3. \A d \in calls' : SSOCall(d)
      BY <1>2, <2>5, <3>2 DEF sso!Write, SSOTypes
    <3>4. query' \in [stored : Configs, secret : BOOLEAN]
      BY <1>2, <2>5, <3>1 DEF sso!Write, SSOTypes, SSOCall
    <3> QED
      BY <1>2, <2>5, <3>3, <3>4 DEF sso!Write, SSOTypes, SSOCall
  <2>6. ASSUME NEW c \in calls, sso!SaveAnswered(c)
        PROVE  SSOTypes'
    BY <1>2, <2>6 DEF sso!SaveAnswered, SSOTypes, SSOCall
  <2> QED
    BY <1>2, <2>1, <2>2, <2>3, <2>4, <2>5, <2>6 DEF sso!SSONext
<1>3. SSOTypes /\ UNCHANGED sso!ssoVars => SSOTypes'
  BY DEF sso!ssoVars, SSOTypes
<1>4. SSOTypes => sso!TypeOK
  BY DEF SSOTypes
<1> QED
  BY <1>1, <1>2, <1>3, <1>4

-----------------------------------------------------------------------------
(* UsersPage                                                                 *)

UserTypes ==
  /\ "users" \in DOMAIN query
  /\ {"dialog", "password", "filled", "typed", "ticked"} \subseteq DOMAIN ui
  /\ {"create", "edit", "disabled", "delete", "bulk"} \subseteq DOMAIN ui.dialog
  /\ \A c \in calls : "op" \in DOMAIN c
  /\ users!TypeOK

LEMMA UsersTyped ==
  /\ (users!UsersInit => UserTypes)
  /\ (UserTypes /\ [users!UsersNext]_(users!usersVars) => UserTypes')
  /\ (UserTypes => users!TypeOK)
<1> USE DEF users!TypeOK, users!Show, users!Send, users!Answered, users!dialog
<1>1. users!UsersInit => UserTypes
  BY DEF users!UsersInit, users!Closed, UserTypes
<1>2. ASSUME UserTypes, users!UsersNext
      PROVE  UserTypes'
  <2>1. ASSUME NEW list \in ListsAt("users"), users!Poll(list)
        PROVE  UserTypes'
    BY <1>2, <2>1 DEF users!Poll, UserTypes
  <2>2. CASE users!OpenCreate
    BY <1>2, <2>2 DEF users!OpenCreate, UserTypes
  <2>3. CASE users!CloseCreate
    BY <1>2, <2>3 DEF users!CloseCreate, UserTypes
  <2>4. ASSUME NEW filled \in BOOLEAN, users!EnterNew(filled)
        PROVE  UserTypes'
    BY <1>2, <2>4 DEF users!EnterNew, UserTypes
  <2>5. CASE users!createUser
    BY <1>2, <2>5 DEF users!createUser, UserTypes
  <2>6. ASSUME NEW c \in calls, users!CreateAnswered(c)
        PROVE  UserTypes'
    BY <1>2, <2>6, ZenonT(60) DEF users!CreateAnswered, UserTypes
  <2>7. ASSUME NEW n \in NamesAt("users"), users!OpenEdit(n)
        PROVE  UserTypes'
    BY <1>2, <2>7 DEF users!OpenEdit, users!Closed, UserTypes
  <2>8. CASE users!CloseEdit
    BY <1>2, <2>8 DEF users!CloseEdit, users!Closed, UserTypes
  <2>9. ASSUME NEW disabled \in BOOLEAN, users!SetDisabled(disabled)
        PROVE  UserTypes'
    BY <1>2, <2>9 DEF users!SetDisabled, UserTypes
  <2>10. CASE users!TypePassword
    BY <1>2, <2>10 DEF users!TypePassword, UserTypes
  <2>11. CASE users!ErasePassword
    BY <1>2, <2>11 DEF users!ErasePassword, UserTypes
  <2>12. CASE users!updateUser
    BY <1>2, <2>12 DEF users!updateUser, UserTypes
  <2>13. ASSUME NEW c \in calls, users!UpdateAnswered(c)
         PROVE  UserTypes'
    BY <1>2, <2>13, ZenonT(60) DEF users!UpdateAnswered, UserTypes
  <2>14. ASSUME NEW n \in NamesAt("users"), users!OpenDelete(n)
         PROVE  UserTypes'
    BY <1>2, <2>14 DEF users!OpenDelete, users!Closed, UserTypes
  <2>15. CASE users!DismissDelete
    BY <1>2, <2>15 DEF users!DismissDelete, users!Closed, UserTypes
  <2>16. ASSUME NEW n \in NamesAt("users"), users!TypeName(n)
         PROVE  UserTypes'
    BY <1>2, <2>16 DEF users!TypeName, UserTypes
  <2>17. CASE users!ConfirmDelete
    BY <1>2, <2>17 DEF users!ConfirmDelete, UserTypes
  <2>18. ASSUME NEW c \in calls, users!DeleteAnswered(c)
         PROVE  UserTypes'
    BY <1>2, <2>18 DEF users!DeleteAnswered, UserTypes
  <2>19. ASSUME NEW n \in NamesAt("users"), users!Tick(n)
         PROVE  UserTypes'
    BY <1>2, <2>19 DEF users!Tick, UserTypes
  <2>20. CASE users!OpenBulk
    BY <1>2, <2>20 DEF users!OpenBulk, users!Closed, UserTypes
  <2>21. CASE users!CloseBulk
    BY <1>2, <2>21 DEF users!CloseBulk, UserTypes
  <2>22. CASE users!ConfirmBulk
    BY <1>2, <2>22 DEF users!ConfirmBulk, UserTypes
  <2>23. ASSUME NEW c \in calls, users!BulkItem(c)
         PROVE  UserTypes'
    BY <1>2, <2>23 DEF users!BulkItem, UserTypes
  <2>24. ASSUME NEW c \in calls, users!BulkEnds(c)
         PROVE  UserTypes'
    BY <1>2, <2>24 DEF users!BulkEnds, UserTypes
  <2> QED
    BY <1>2, <2>1, <2>2, <2>3, <2>4, <2>5, <2>6, <2>7, <2>8, <2>9, <2>10, <2>11, <2>12, <2>13, <2>14, <2>15,
       <2>16, <2>17, <2>18, <2>19, <2>20, <2>21, <2>22, <2>23, <2>24 DEF
       users!UsersNext
<1>3. UserTypes /\ UNCHANGED users!usersVars => UserTypes'
  BY DEF users!usersVars, UserTypes
<1>4. UserTypes => users!TypeOK
  BY DEF UserTypes
<1> QED
  BY <1>1, <1>2, <1>3, <1>4

-----------------------------------------------------------------------------
(* NodesPage                                                                 *)

NodeRows(list) ==
  /\ DOMAIN list = NamesAt("nodes")
  /\ \A n \in NamesAt("nodes") : "allowScheduling" \in DOMAIN list[n] /\ list[n].allowScheduling \in BOOLEAN

\* A loop schedules nodes on or off.
NodeCall(c) ==
  /\ "op" \in DOMAIN c
  /\ c.op \in {"schedule", "bulk", "tags", "disks", "delete"}
  /\ c.op = "bulk" => c.left \subseteq NamesAt("nodes") /\ c.allow \in BOOLEAN

NodeTypes ==
  /\ "nodes" \in DOMAIN query /\ NodeRows(query.nodes)
  /\ {"dialog", "typed", "added", "visit"} \subseteq DOMAIN ui
  /\ {"tagNode", "diskNode", "deleteNode", "opened", "drafts"} \subseteq DOMAIN ui.dialog
  /\ {ui.dialog.tagNode, ui.dialog.diskNode, ui.dialog.deleteNode} \subseteq NamesAt("nodes") \cup {None}
  /\ \A c \in calls : NodeCall(c)

LEMMA NodeListed == \A list \in ListsAt("nodes") : NodeRows(list)
BY DisksHaveNames, SchedulingIsOnOrOff DEF NodeRows

LEMMA NodePatched ==
  ASSUME NodeTypes, NEW n \in NamesAt("nodes"), NEW allow \in BOOLEAN, nodes!Patch(n, allow)
  PROVE  "nodes" \in DOMAIN query' /\ NodeRows(query'.nodes)
<1> DEFINE row == [query.nodes[n] EXCEPT !.allowScheduling = allow]
<1>1. "nodes" \in DOMAIN query' /\ query'.nodes = [query.nodes EXCEPT ![n] = row]
  BY DEF nodes!Patch, NodeTypes, NodeRows
<1>2. "allowScheduling" \in DOMAIN row /\ row.allowScheduling = allow
  BY DEF NodeTypes, NodeRows
<1> HIDE DEF row
<1> QED
  BY <1>1, <1>2 DEF NodeTypes, NodeRows

LEMMA NodesTyped ==
  /\ (nodes!NodesInit => NodeTypes)
  /\ (NodeTypes /\ [nodes!NodesNext]_(nodes!nodesVars) => NodeTypes')
  /\ (NodeTypes => nodes!TypeOK)
<1> USE DEF nodes!Show, nodes!Send, nodes!Wait, nodes!dialog, nodes!Node
<1>1. nodes!NodesInit => NodeTypes
  <2> SUFFICES ASSUME nodes!NodesInit
               PROVE  NodeTypes
    OBVIOUS
  <2>1. "nodes" \in DOMAIN query /\ query.nodes \in ListsAt("nodes") /\ calls = {}
    BY DEF nodes!NodesInit
  <2>2. PICK v : ui = [dialog |-> nodes!Closed, typed |-> "", added |-> {}, visit |-> v]
    BY DEF nodes!NodesInit
  <2> QED
    BY <2>1, <2>2, NodeListed, ZenonT(60) DEF nodes!Closed, NodeTypes
<1>2. ASSUME NodeTypes, nodes!NodesNext
      PROVE  NodeTypes'
  <2>1. ASSUME NEW list \in ListsAt("nodes"), nodes!Poll(list)
        PROVE  NodeTypes'
    BY <1>2, <2>1, NodeListed DEF nodes!Poll, NodeTypes
  <2>2. ASSUME NEW n \in NamesAt("nodes"), nodes!toggleScheduling(n)
        PROVE  NodeTypes'
    <3>1. "nodes" \in DOMAIN query' /\ NodeRows(query'.nodes)
      BY <1>2, <2>2, NodePatched DEF nodes!toggleScheduling, NodeTypes, NodeRows
    <3> DEFINE c == [op |-> "schedule", node |-> n, allow |-> ~nodes!Node(n).allowScheduling]
    <3>2. calls' = calls \cup {c} /\ c.op = "schedule" /\ "op" \in DOMAIN c
      BY <2>2 DEF nodes!toggleScheduling
    <3> HIDE DEF c
    <3>3. NodeCall(c)
      BY <3>2 DEF NodeCall
    <3> QED
      BY <1>2, <2>2, <3>1, <3>2, <3>3 DEF nodes!toggleScheduling, NodeTypes
  <2>3. ASSUME NEW sel \in SUBSET NamesAt("nodes"), NEW allow \in BOOLEAN, nodes!bulkSchedule(sel, allow)
        PROVE  NodeTypes'
    BY <1>2, <2>3 DEF nodes!bulkSchedule, NodeTypes, NodeCall
  <2>4. ASSUME NEW c \in calls, nodes!BulkNext(c)
        PROVE  NodeTypes'
    <3>1. NodeCall(c) /\ c.op = "bulk"
      BY <1>2, <2>4 DEF nodes!BulkNext, NodeTypes
    <3>2. CASE c.left = {}
      BY <1>2, <2>4, <3>2, SMTT(40) DEF nodes!BulkNext, NodeTypes
    <3>3. CASE c.left # {}
      <4>1. PICK n \in c.left : /\ nodes!Patch(n, c.allow)
                                /\ calls' = (calls \ {c}) \cup {[c EXCEPT !.left = @ \ {n}, !.waiting = n]}
        BY <2>4, <3>3 DEF nodes!BulkNext
      <4> DEFINE next == [[c EXCEPT !.left = c.left \ {n}] EXCEPT !.waiting = n]
      <4>2. NodeCall(next)
        BY <3>1 DEF NodeCall
      <4>3. calls' = (calls \ {c}) \cup {next}
        BY <4>1
      <4> HIDE DEF next
      <4>4. "nodes" \in DOMAIN query' /\ NodeRows(query'.nodes)
        BY <1>2, <3>1, <4>1, NodePatched DEF NodeCall
      <4> QED
        BY <1>2, <2>4, <4>2, <4>3, <4>4 DEF nodes!BulkNext, NodeTypes
    <3> QED
      BY <3>2, <3>3
  <2>5. ASSUME NEW c \in calls, nodes!BulkAnswered(c)
        PROVE  NodeTypes'
    <3>1. NodeCall([c EXCEPT !.waiting = None])
      BY <1>2, <2>5 DEF nodes!BulkAnswered, NodeTypes, NodeCall
    <3> QED
      BY <1>2, <2>5, <3>1 DEF nodes!BulkAnswered, NodeTypes
  <2>6. ASSUME NEW c \in calls, nodes!ScheduleAnswered(c)
        PROVE  NodeTypes'
    BY <1>2, <2>6 DEF nodes!ScheduleAnswered, NodeTypes
  <2>7. ASSUME NEW n \in NamesAt("nodes"), nodes!OpenTags(n)
        PROVE  NodeTypes'
    BY <1>2, <2>7 DEF nodes!OpenTags, nodes!Closed, NodeTypes
  <2>8. CASE nodes!CloseTags
    BY <1>2, <2>8 DEF nodes!CloseTags, NodeTypes
  <2>9. CASE nodes!saveTags
    BY <1>2, <2>9 DEF nodes!saveTags, NodeTypes, NodeCall
  <2>10. ASSUME NEW c \in calls, nodes!TagsAnswered(c)
         PROVE  NodeTypes'
    BY <1>2, <2>10 DEF nodes!TagsAnswered, NodeTypes
  <2>11. ASSUME NEW n \in NamesAt("nodes"), nodes!openDiskEditor(n)
         PROVE  NodeTypes'
    BY <1>2, <2>11 DEF nodes!openDiskEditor, nodes!Closed, NodeTypes
  <2>12. CASE nodes!CloseDisks
    BY <1>2, <2>12 DEF nodes!CloseDisks, nodes!Closed, NodeTypes
  <2>13. CASE nodes!addDraft
    BY <1>2, <2>13, ZenonT(60) DEF nodes!addDraft, NodeTypes
  <2>14. ASSUME NEW d \in nodes!dialog.drafts, nodes!removeDraft(d)
         PROVE  NodeTypes'
    BY <1>2, <2>14 DEF nodes!removeDraft, nodes!updateDraft, NodeTypes
  <2>15. ASSUME NEW d \in nodes!dialog.drafts, nodes!restoreDraft(d)
         PROVE  NodeTypes'
    BY <1>2, <2>15 DEF nodes!restoreDraft, nodes!updateDraft, NodeTypes
  <2>16. ASSUME NEW d \in nodes!dialog.drafts, NEW name \in NewNames, nodes!RenameDraft(d, name)
         PROVE  NodeTypes'
    BY <1>2, <2>16 DEF nodes!RenameDraft, nodes!updateDraft, NodeTypes
  <2>17. CASE nodes!saveDisks
    BY <1>2, <2>17 DEF nodes!saveDisks, NodeTypes, NodeCall
  <2>18. ASSUME NEW c \in calls, nodes!DisksAnswered(c)
         PROVE  NodeTypes'
    BY <1>2, <2>18 DEF nodes!DisksAnswered, NodeTypes
  <2>19. ASSUME NEW n \in NamesAt("nodes"), nodes!OpenDelete(n)
         PROVE  NodeTypes'
    BY <1>2, <2>19 DEF nodes!OpenDelete, nodes!Closed, NodeTypes
  <2>20. CASE nodes!DismissDelete
    <3>1. PICK typed : ui' = [[ui EXCEPT !.dialog = nodes!Closed] EXCEPT !.typed = typed]
      BY <2>20 DEF nodes!DismissDelete
    <3> QED
      BY <1>2, <2>20, <3>1 DEF nodes!DismissDelete, nodes!Closed, NodeTypes
  <2>21. ASSUME NEW n \in NamesAt("nodes"), nodes!TypeName(n)
         PROVE  NodeTypes'
    BY <1>2, <2>21 DEF nodes!TypeName, NodeTypes
  <2>22. CASE nodes!ConfirmDelete
    BY <1>2, <2>22 DEF nodes!ConfirmDelete, NodeTypes, NodeCall
  <2>23. ASSUME NEW c \in calls, nodes!DeleteAnswered(c)
         PROVE  NodeTypes'
    BY <1>2, <2>23 DEF nodes!DeleteAnswered, NodeTypes
  <2> QED
    BY <1>2, <2>1, <2>2, <2>3, <2>4, <2>5, <2>6, <2>7, <2>8, <2>9, <2>10, <2>11, <2>12, <2>13, <2>14, <2>15,
       <2>16, <2>17, <2>18, <2>19, <2>20, <2>21, <2>22, <2>23 DEF
       nodes!NodesNext
<1>3. NodeTypes /\ UNCHANGED nodes!nodesVars => NodeTypes'
  BY DEF nodes!nodesVars, NodeTypes
<1>4. NodeTypes => nodes!TypeOK
  BY DEF NodeTypes, NodeRows, NodeCall, nodes!TypeOK
<1> QED
  BY <1>1, <1>2, <1>3, <1>4

-----------------------------------------------------------------------------
(* VolumesPage                                                               *)

VolumeTypes ==
  /\ {"volumes", "hosts", "v2"} \subseteq DOMAIN query
  /\ {"stateFilter", "engineFilter", "selected", "createOpen", "form", "formError", "bulkKey", "bulkValue",
      "bulkHost", "action", "actionVol", "entry", "target", "typed", "typedNow", "error"} \subseteq DOMAIN ui
  /\ \A c \in calls : "op" \in DOMAIN c
  /\ volumes!TypeOK

\* A step that does not touch what is typed.
LEMMA VolumeShown ==
  ASSUME VolumeTypes, UNCHANGED <<query, calls>>, DOMAIN ui' = DOMAIN ui, ui'.selected = ui.selected,
         ui'.action = ui.action, ui'.target = ui.target, ui'.bulkKey = ui.bulkKey
  PROVE  VolumeTypes'
BY DEF VolumeTypes, volumes!TypeOK

LEMMA VolumeAsked ==
  ASSUME VolumeTypes, UNCHANGED query, DOMAIN ui' = DOMAIN ui, ui'.selected = ui.selected,
         ui'.action = ui.action, ui'.target = ui.target, ui'.bulkKey = ui.bulkKey, NEW c,
         "op" \in DOMAIN c, c.op \in {"create", "bulk", "action", "delete"}, calls' = calls \cup {c}
  PROVE  VolumeTypes'
BY DEF VolumeTypes, volumes!TypeOK

LEMMA VolumesTyped ==
  /\ (volumes!VolumesInit => VolumeTypes)
  /\ (VolumeTypes /\ [volumes!VolumesNext]_(volumes!volumesVars) => VolumeTypes')
  /\ (VolumeTypes => volumes!TypeOK)
<1> USE DEF volumes!Show
<1>1. volumes!VolumesInit => VolumeTypes
  BY DEF volumes!VolumesInit, volumes!TypeOK, VolumeTypes
<1>2. ASSUME VolumeTypes, volumes!VolumesNext
      PROVE  VolumeTypes'
  <2>1. CASE volumes!Poll
    BY <1>2, <2>1, ZenonT(60) DEF volumes!Poll, VolumeTypes, volumes!TypeOK
  <2>2. CASE volumes!SetFilter
    BY <1>2, <2>2, VolumeShown DEF volumes!SetFilter, VolumeTypes
  <2>3. ASSUME NEW n \in NamesAt("volumes"), volumes!SelectRow(n)
        PROVE  VolumeTypes'
    BY <1>2, <2>3 DEF volumes!SelectRow, VolumeTypes, volumes!TypeOK
  <2>4. CASE volumes!OpenCreate
    BY <1>2, <2>4, VolumeShown DEF volumes!OpenCreate, VolumeTypes
  <2>5. CASE volumes!CloseCreate
    BY <1>2, <2>5, VolumeShown DEF volumes!CloseCreate, VolumeTypes
  <2>6. ASSUME NEW engine \in {"v1", "v2"}, volumes!SetEngine(engine)
        PROVE  VolumeTypes'
    BY <1>2, <2>6, VolumeShown DEF volumes!SetEngine, VolumeTypes
  <2>7. ASSUME NEW frontend \in volumes!Frontends.v1 \cup volumes!Frontends.v2, volumes!SetFrontend(frontend)
        PROVE  VolumeTypes'
    BY <1>2, <2>7, VolumeShown DEF volumes!SetFrontend, VolumeTypes
  <2>8. ASSUME NEW source \in {"volume", "snapshot", None}, volumes!SetSource(source)
        PROVE  VolumeTypes'
    BY <1>2, <2>8, VolumeShown DEF volumes!SetSource, VolumeTypes
  <2>9. CASE volumes!EditForm
    BY <1>2, <2>9, VolumeShown DEF volumes!EditForm, VolumeTypes
  <2>10. CASE volumes!EditAdvanced
    BY <1>2, <2>10, VolumeShown DEF volumes!EditAdvanced, VolumeTypes
  <2>11. CASE volumes!Create
    <3>1. CASE ui.form.size = "invalid" /\ volumes!Show([ui EXCEPT !.formError = TRUE])
      BY <1>2, <3>1, VolumeShown DEF VolumeTypes
    <3>2. CASE ui' = [ui EXCEPT !.formError = FALSE] /\ UNCHANGED query
               /\ calls' = calls \cup {[op |-> "create", body |-> volumes!CreateBody(ui.form)]}
      <4> DEFINE c == [op |-> "create", body |-> volumes!CreateBody(ui.form)]
      <4>1. "op" \in DOMAIN c /\ c.op = "create" /\ calls' = calls \cup {c}
        BY <3>2
      <4> HIDE DEF c
      <4> QED
        BY <1>2, <3>2, <4>1, VolumeAsked DEF VolumeTypes
    <3> QED
      BY <2>11, <3>1, <3>2 DEF volumes!Create
  <2>12. ASSUME NEW key \in BulkKeys, volumes!OpenBulk(key)
         PROVE  VolumeTypes'
    BY <1>2, <2>12 DEF volumes!OpenBulk, VolumeTypes, volumes!TypeOK
  <2>13. ASSUME NEW value \in {"entered", None}, volumes!EnterBulk(value)
         PROVE  VolumeTypes'
    BY <1>2, <2>13, VolumeShown DEF volumes!EnterBulk, VolumeTypes
  <2>14. CASE volumes!CloseBulk
    BY <1>2, <2>14 DEF volumes!CloseBulk, VolumeTypes, volumes!TypeOK
  <2>15. CASE volumes!RunBulk
    BY <1>2, <2>15, VolumeShown, VolumeAsked, SMTT(40) DEF volumes!RunBulk, VolumeTypes
  <2>16. ASSUME NEW n \in NamesAt("volumes"), NEW key \in ActionKeys, volumes!OpenAction(n, key)
         PROVE  VolumeTypes'
    BY <1>2, <2>16 DEF volumes!OpenAction, VolumeTypes, volumes!TypeOK
  <2>17. CASE volumes!CloseAction
    BY <1>2, <2>17 DEF volumes!CloseAction, VolumeTypes, volumes!TypeOK
  <2>18. CASE volumes!EnterAction
    BY <1>2, <2>18, VolumeShown DEF volumes!EnterAction, VolumeTypes
  <2>19. CASE volumes!SubmitAction
    BY <1>2, <2>19, VolumeShown, VolumeAsked DEF volumes!SubmitAction, VolumeTypes
  <2>20. ASSUME NEW n \in NamesAt("volumes"), volumes!OpenDelete(n)
         PROVE  VolumeTypes'
    BY <1>2, <2>20 DEF volumes!OpenDelete, VolumeTypes, volumes!TypeOK
  <2>21. ASSUME NEW text \in NamesAt("volumes") \cup {None}, volumes!TypeName(text)
         PROVE  VolumeTypes'
    BY <1>2, <2>21, VolumeShown DEF volumes!TypeName, VolumeTypes
  <2>22. CASE volumes!DismissDelete
    BY <1>2, <2>22 DEF volumes!DismissDelete, VolumeTypes, volumes!TypeOK
  <2>23. CASE volumes!ConfirmDelete
    BY <1>2, <2>23, VolumeShown, VolumeAsked DEF volumes!ConfirmDelete, VolumeTypes
  <2>24. ASSUME NEW c \in calls, volumes!CreateAnswered(c)
         PROVE  VolumeTypes'
    BY <1>2, <2>24 DEF volumes!CreateAnswered, VolumeTypes, volumes!TypeOK
  <2>25. ASSUME NEW c \in calls, NEW n \in NamesAt("volumes"), volumes!BulkItem(c, n)
         PROVE  VolumeTypes'
    BY <1>2, <2>25 DEF volumes!BulkItem, VolumeTypes, volumes!TypeOK
  <2>26. ASSUME NEW c \in calls, volumes!BulkEnds(c)
         PROVE  VolumeTypes'
    BY <1>2, <2>26 DEF volumes!BulkEnds, VolumeTypes, volumes!TypeOK
  <2>27. ASSUME NEW c \in calls, volumes!ActionAnswered(c)
         PROVE  VolumeTypes'
    BY <1>2, <2>27 DEF volumes!ActionAnswered, VolumeTypes, volumes!TypeOK
  <2>28. ASSUME NEW c \in calls, volumes!DeleteAnswered(c)
         PROVE  VolumeTypes'
    BY <1>2, <2>28 DEF volumes!DeleteAnswered, VolumeTypes, volumes!TypeOK
  <2> QED
    BY <1>2, <2>1, <2>2, <2>3, <2>4, <2>5, <2>6, <2>7, <2>8, <2>9, <2>10, <2>11, <2>12, <2>13, <2>14, <2>15,
       <2>16, <2>17, <2>18, <2>19, <2>20, <2>21, <2>22, <2>23, <2>24, <2>25, <2>26, <2>27, <2>28 DEF
       volumes!VolumesNext
<1>3. VolumeTypes /\ UNCHANGED volumes!volumesVars => VolumeTypes'
  BY DEF volumes!volumesVars, VolumeTypes, volumes!TypeOK
<1>4. VolumeTypes => volumes!TypeOK
  BY DEF VolumeTypes
<1> QED
  BY <1>1, <1>2, <1>3, <1>4
=============================================================================

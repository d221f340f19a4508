------------------------------ MODULE UsersPage ------------------------------
(***************************************************************************)
(* The administrator's page of user accounts: creating, editing and        *)
(* deleting them, one or several at a time.  The page is that of an        *)
(* administrator; anyone else is shown a notice in its place.              *)
(***************************************************************************)
EXTENDS Naturals, FiniteSets

CONSTANTS Names,
          Me,        \* the account of the session
          Lists,     \* the lists of accounts that may arrive: who is disabled, by name
          None,
          MaxCalls   \* requests that wait at once (bound)

VARIABLES query, \* the list of accounts
          ui,    \* the dialogs, what was entered in them, the rows that are ticked
          calls  \* handlers waiting for the answer to a request

usersVars == <<query, ui, calls>>

Closed == [create |-> FALSE, edit |-> None, disabled |-> FALSE, delete |-> None, bulk |-> FALSE]

\* password holds the account in whose dialog the password now in the edit form
\* was typed; filled says that the form for a new account has a name and a
\* password.  The role, the address and the reset of the second factor are sent
\* as they are in the form, like disabled.
UsersInit ==
  /\ query \in [users : Lists]
  /\ ui = [dialog |-> Closed, password |-> None, filled |-> FALSE, typed |-> None, ticked |-> {}]
  /\ calls = {}

dialog == ui.dialog

Show(next) == ui' = next /\ UNCHANGED <<query, calls>>

Send(c) ==
  /\ Cardinality(calls) < MaxCalls
  /\ calls' = calls \cup {c}
  /\ UNCHANGED <<query, ui>>

\* An answer that changes nothing but the dialogs.
Answered(c, next) == ui' = next /\ calls' = calls \ {c} /\ UNCHANGED query

Listed == DOMAIN query.users

\* Dialogs cover the table.
TableFree ==
  ~dialog.create /\ dialog.edit = None /\ dialog.delete = None /\ ~dialog.bulk

\* The list is fetched when the page opens, when its window is focused again
\* and after what was changed here.
Poll(users) == query' = [query EXCEPT !.users = users] /\ UNCHANGED <<ui, calls>>

---------------------------------------------------------------------------
(* A new account *)

OpenCreate == TableFree /\ Show([ui EXCEPT !.dialog.create = TRUE])

\* What was entered stays.
CloseCreate == dialog.create /\ Show([ui EXCEPT !.dialog.create = FALSE])

EnterNew(filled) == dialog.create /\ Show([ui EXCEPT !.filled = filled])

createUser == dialog.create /\ ui.filled /\ Send([op |-> "create"])

CreateAnswered(c) ==
  /\ c.op = "create"
  /\ \/ Answered(c, [ui EXCEPT !.dialog.create = FALSE, !.filled = FALSE])
     \/ Answered(c, ui)

---------------------------------------------------------------------------
(* Changing an account *)

\* Every field is taken from the row but the password, which is left as it is.
OpenEdit(n) ==
  /\ TableFree /\ n \in Listed /\ n # Me
  /\ Show([ui EXCEPT !.dialog = [Closed EXCEPT !.edit = n, !.disabled = query.users[n]]])

CloseEdit == dialog.edit # None /\ Show([ui EXCEPT !.dialog = Closed])

SetDisabled(disabled) == dialog.edit # None /\ Show([ui EXCEPT !.dialog.disabled = disabled])

TypePassword == dialog.edit # None /\ Show([ui EXCEPT !.password = dialog.edit])

ErasePassword == dialog.edit # None /\ Show([ui EXCEPT !.password = None])

\* Save is not disabled while an earlier save waits.
updateUser ==
  /\ dialog.edit # None
  /\ Send([op |-> "update", user |-> dialog.edit, disabled |-> dialog.disabled,
           password |-> ui.password])

\* The dialog that is open by then is closed.
UpdateAnswered(c) ==
  /\ c.op = "update"
  /\ \/ Answered(c, [ui EXCEPT !.dialog.edit = None, !.dialog.disabled = FALSE, !.password = None])
     \/ Answered(c, ui)

---------------------------------------------------------------------------
(* Deleting accounts *)

OpenDelete(n) ==
  /\ TableFree /\ n \in Listed /\ n # Me
  /\ Show([ui EXCEPT !.dialog = [Closed EXCEPT !.delete = n]])

\* The dialog's own close clears what was typed; the Cancel button does not.
DismissDelete ==
  /\ dialog.delete # None
  /\ \E typed \in {None, ui.typed} : Show([ui EXCEPT !.dialog = Closed, !.typed = typed])

TypeName(n) == dialog.delete # None /\ Show([ui EXCEPT !.typed = n])

ConfirmDelete ==
  /\ dialog.delete # None /\ ui.typed = dialog.delete
  /\ Send([op |-> "delete", user |-> dialog.delete])

\* A refusal leaves the dialog as it was, without a word.
DeleteAnswered(c) ==
  /\ c.op = "delete"
  /\ \/ Answered(c, [ui EXCEPT !.dialog.delete = None])
     \/ Answered(c, ui)

Tick(n) ==
  /\ TableFree /\ n \in Listed
  /\ Show([ui EXCEPT !.ticked = IF n \in @ THEN @ \ {n} ELSE @ \cup {n}])

\* The table reports the ticked rows that are in the list.
Selected == ui.ticked \cap Listed

OpenBulk ==
  /\ TableFree /\ Selected # {}
  /\ Show([ui EXCEPT !.dialog = [Closed EXCEPT !.bulk = TRUE]])

CloseBulk == dialog.bulk /\ Show([ui EXCEPT !.dialog.bulk = FALSE])

\* Seeded fault: the loop does not pass over the session's own account.
Everyone == Selected

\* "never delete the current session's user"
BulkTargets == Selected \ {Me}

ConfirmBulk ==
  /\ dialog.bulk
  /\ Send([op |-> "bulk", left |-> BulkTargets])

\* One account after the other; a refusal ends the loop and leaves the dialog.
BulkItem(c) ==
  /\ c.op = "bulk" /\ c.left # {}
  /\ \/ \E n \in c.left : calls' = (calls \ {c}) \cup {[c EXCEPT !.left = @ \ {n}]}
     \/ calls' = calls \ {c}
  /\ UNCHANGED <<query, ui>>

BulkEnds(c) ==
  /\ c.op = "bulk" /\ c.left = {}
  /\ Answered(c, [ui EXCEPT !.dialog.bulk = FALSE])

---------------------------------------------------------------------------
UsersNext ==
  \/ \E users \in Lists : Poll(users)
  \/ OpenCreate
  \/ CloseCreate
  \/ \E filled \in BOOLEAN : EnterNew(filled)
  \/ createUser
  \/ \E c \in calls : CreateAnswered(c)
  \/ \E n \in Names : OpenEdit(n)
  \/ CloseEdit
  \/ \E disabled \in BOOLEAN : SetDisabled(disabled)
  \/ TypePassword
  \/ ErasePassword
  \/ updateUser
  \/ \E c \in calls : UpdateAnswered(c)
  \/ \E n \in Names : OpenDelete(n)
  \/ DismissDelete
  \/ \E n \in Names : TypeName(n)
  \/ ConfirmDelete
  \/ \E c \in calls : DeleteAnswered(c)
  \/ \E n \in Names : Tick(n)
  \/ OpenBulk
  \/ CloseBulk
  \/ ConfirmBulk
  \/ \E c \in calls : BulkItem(c)
  \/ \E c \in calls : BulkEnds(c)

UsersSpec == UsersInit /\ [][UsersNext]_usersVars

---------------------------------------------------------------------------
TypeOK ==
  /\ query.users \in Lists
  /\ dialog.edit \in Names \cup {None} /\ dialog.delete \in Names \cup {None}
  /\ ui.password \in Names \cup {None} /\ ui.ticked \subseteq Names
  /\ \A c \in calls : c.op \in {"create", "update", "delete", "bulk"}

\* The account of the session is never disabled and never deleted from this
\* page ("Mirror the per-row guard: never delete the current session's user"),
\* whatever is ticked, listed or pending when a dialog is confirmed.
OwnAccountKept ==
  \A c \in calls :
    /\ c.op = "delete" => c.user # Me
    /\ c.op = "update" => c.user # Me
    /\ c.op = "bulk" => Me \notin c.left

\* A save changes the password of an account only if one was typed for that
\* account ("Leave blank to keep").  It does not hold: the password typed in a
\* dialog that was cancelled stays in the form of the next account.
PasswordTypedForUser ==
  \A c \in calls : c.op = "update" => c.password \in {c.user, None}
============================================================================

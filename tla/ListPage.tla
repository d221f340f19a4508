------------------------------ MODULE ListPage ------------------------------
(***************************************************************************)
(* What the pages of a list of resources share: deleting one after typing  *)
(* its name, deleting several, each removed from the list before it is     *)
(* answered and put back when it is refused.  A page extends this module.  *)
(***************************************************************************)
EXTENDS FiniteSets

CONSTANTS Names,
          Lists, \* the lists that may arrive: what the page reads of each row, by name
          None

VARIABLES query, \* the list as the cache has it
          ui,    \* the dialogs, what was entered in them, the rows that are ticked
          calls  \* handlers waiting for the answer to a request

listVars == <<query, ui, calls>>

Show(next) == ui' = next /\ UNCHANGED <<query, calls>>

\* One handler of a kind at once (bound).
Send(c) ==
  /\ \A d \in calls : d.op # c.op
  /\ calls' = calls \cup {c} /\ UNCHANGED <<query, ui>>

Answered(c, next) == ui' = next /\ calls' = calls \ {c} /\ UNCHANGED query

Listed == DOMAIN query.rows

DeleteFree == ui.deleteTarget = None /\ ~ui.bulkDeleteOpen

Poll(rows) == query' = [query EXCEPT !.rows = rows] /\ UNCHANGED <<ui, calls>>

---------------------------------------------------------------------------
\* One mutation for both kinds of deletion.
deleting == \E c \in calls : c.op \in {"delete", "bulkDelete"}

\* The dialog's own close clears what was typed; the Cancel button, disabled
\* while a deletion waits, does not.
DismissDelete ==
  /\ ui.deleteTarget # None
  /\ \/ Show([ui EXCEPT !.deleteTarget = None, !.typed = None])
     \/ ~deleting /\ Show([ui EXCEPT !.deleteTarget = None])

DismissBulkDelete == ui.bulkDeleteOpen /\ Show([ui EXCEPT !.bulkDeleteOpen = FALSE])

TypeName(n) == ui.deleteTarget # None /\ Show([ui EXCEPT !.typed = n])

CanConfirm == ui.deleteTarget # None /\ ui.typed = ui.deleteTarget /\ ~deleting

\* The list without a row, and the request to delete that row.
Remove(others, c, n) ==
  /\ calls' = others \cup {[c EXCEPT !.now = n, !.left = @ \ {n}, !.before = query.rows]}
  /\ query' = [query EXCEPT !.rows = [m \in Listed \ {n} |-> query.rows[m]]]
  /\ UNCHANGED ui

\* A loop over the targets, in the order of the rows.
DeleteEach(op, targets) ==
  \E n \in targets : Remove(calls, [op |-> op, now |-> n, left |-> targets, before |-> query.rows], n)

\* Refused or not, the loop goes on; the row that was refused is put back, with
\* the list it was taken from.
Refuse(c) == query' = [query EXCEPT !.rows = c.before]

BulkItem(c) ==
  /\ c.op = "bulkDelete" /\ c.now # None
  /\ calls' = (calls \ {c}) \cup {[c EXCEPT !.now = None]}
  /\ UNCHANGED query \/ Refuse(c)
  /\ UNCHANGED ui

BulkNext(c) ==
  /\ c.op = "bulkDelete" /\ c.now = None
  /\ \E n \in c.left : Remove(calls \ {c}, c, n)

BulkEnds(c) == c.op = "bulkDelete" /\ c.now = None /\ c.left = {} /\ calls' = calls \ {c} /\ UNCHANGED query

\* Whichever dialog is open by then is closed.
DeleteEnds(c) ==
  /\ c.op = "delete"
  /\ UNCHANGED query \/ Refuse(c)
  /\ ui' = [ui EXCEPT !.deleteTarget = None]
  /\ calls' = calls \ {c}

ListNext ==
  \/ \E rows \in Lists : Poll(rows)
  \/ DismissDelete
  \/ DismissBulkDelete
  \/ \E n \in Names : TypeName(n)
  \/ \E c \in calls : DeleteEnds(c)
  \/ \E c \in calls : BulkItem(c)
  \/ \E c \in calls : BulkNext(c)

ListTypeOK ==
  /\ Listed \subseteq Names
  /\ {ui.deleteTarget, ui.typed} \subseteq Names \cup {None}
  /\ \A c \in calls : c.op \in {"delete", "bulkDelete"} => c.left \cup {c.now} \subseteq Names \cup {None}
=============================================================================

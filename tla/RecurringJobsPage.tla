-------------------------- MODULE RecurringJobsPage --------------------------
(***************************************************************************)
(* The page of recurring jobs: one form for creating and for editing, the  *)
(* deletion of one job and of several.  It is the page of a user who may   *)
(* change jobs.                                                            *)
(***************************************************************************)
EXTENDS Naturals

CONSTANTS Names,
          Jobs,  \* the lists of jobs that may arrive: the task of each job, by name
          None

VARIABLES query, \* the list of jobs
          ui,    \* the form, the dialogs and what was entered in them
          calls  \* handlers waiting for the answer to a request

jobsVars == <<query, ui, calls>>

\* Of the form's fields, the name and those whose part in the request depends
\* on others: labels stands for the fields that may be left empty.
emptyForm == [name |-> None, task |-> "snapshot", labels |-> FALSE]

\* purpose is what the form that is open was opened for.
JobsInit ==
  /\ query \in [jobs : Jobs]
  /\ ui = [open |-> FALSE, editTarget |-> None, form |-> emptyForm, purpose |-> None,
           deleteTarget |-> None, typed |-> None, bulk |-> {}, bulkOpen |-> FALSE]
  /\ calls = {}

Show(next) == ui' = next /\ UNCHANGED <<query, calls>>

Answered(c, next) == ui' = next /\ calls' = calls \ {c} /\ UNCHANGED query

Send(c) == calls' = calls \cup {c} /\ UNCHANGED <<query, ui>>

Listed == DOMAIN query.jobs

\* Dialogs cover the table.
TableFree == ~ui.open /\ ui.deleteTarget = None /\ ~ui.bulkOpen

Poll(jobs) == query' = [query EXCEPT !.jobs = jobs] /\ UNCHANGED <<ui, calls>>

---------------------------------------------------------------------------
(* The form *)

formFromJob(n) == [name |-> n, task |-> query.jobs[n], labels |-> TRUE]

\* Seeded fault: the form is opened as it was left.
OpenAsLeft == TableFree /\ Show([ui EXCEPT !.open = TRUE, !.purpose = "create"])

openCreate ==
  /\ TableFree
  /\ Show([ui EXCEPT !.editTarget = None, !.form = emptyForm, !.open = TRUE, !.purpose = "create"])

openEdit(n) ==
  /\ TableFree /\ n \in Listed
  /\ Show([ui EXCEPT !.editTarget = n, !.form = formFromJob(n), !.open = TRUE, !.purpose = "edit"])

\* The dialog's own close forgets the job, the Cancel button does not.
CloseForm ==
  /\ ui.open
  /\ \E target \in {None, ui.editTarget} :
       Show([ui EXCEPT !.open = FALSE, !.editTarget = target])

\* The name of a job that exists is not changed.
SetName(n) ==
  /\ ui.open /\ ui.editTarget = None
  /\ Show([ui EXCEPT !.form.name = n])

SetTask(task) == ui.open /\ Show([ui EXCEPT !.form.task = task])

SetLabels(labels) == ui.open /\ Show([ui EXCEPT !.form.labels = labels])

\* Only fields that are set, and of them those the task has.
buildBody(f) ==
  [name |-> f.name, task |-> f.task,
   fields |-> IF f.task = "system-backup" THEN {"parameters"}
              ELSE {"groups"} \cup (IF f.labels THEN {"labels"} ELSE {})]

pending == \E c \in calls : c.op \in {"create", "update"}

onSubmit ==
  /\ ui.open /\ ui.form.name # None /\ ~pending
  /\ Send([op |-> IF ui.editTarget = None THEN "create" ELSE "update", job |-> ui.editTarget,
           body |-> buildBody(ui.form), purpose |-> ui.purpose])

\* The form that is open by then is closed and emptied.
SubmitAnswered(c) ==
  /\ c.op \in {"create", "update"}
  /\ \/ Answered(c, [ui EXCEPT !.open = FALSE, !.editTarget = None, !.form = emptyForm])
     \/ Answered(c, ui)

---------------------------------------------------------------------------
(* Deletion *)

\* useDeleteRecurringJob is one mutation: a deletion of either kind waits.
deleting == \E c \in calls : c.op \in {"delete", "bulk"}

OpenDelete(n) ==
  /\ TableFree /\ n \in Listed
  /\ Show([ui EXCEPT !.deleteTarget = n])

\* The dialog's own close clears what was typed; the Cancel button, disabled
\* while a deletion waits, does not.
DismissDelete ==
  /\ ui.deleteTarget # None
  /\ \/ Show([ui EXCEPT !.deleteTarget = None, !.typed = None])
     \/ ~deleting /\ Show([ui EXCEPT !.deleteTarget = None])

TypeName(n) == ui.deleteTarget # None /\ Show([ui EXCEPT !.typed = n])

ConfirmDelete ==
  /\ ui.deleteTarget # None /\ ui.typed = ui.deleteTarget /\ ~deleting
  /\ Send([op |-> "delete", job |-> ui.deleteTarget])

\* Deleted or not, the dialog that is open by then is closed.
DeleteAnswered(c) == c.op = "delete" /\ Answered(c, [ui EXCEPT !.deleteTarget = None])

\* The rows are those that were ticked when the dialog was opened.
OpenBulk(sel) ==
  /\ TableFree /\ sel # {} /\ sel \subseteq Listed
  /\ Show([ui EXCEPT !.bulk = sel, !.bulkOpen = TRUE])

CloseBulk == ui.bulkOpen /\ Show([ui EXCEPT !.bulkOpen = FALSE])

ConfirmBulk ==
  /\ ui.bulkOpen /\ ~deleting
  /\ Send([op |-> "bulk", left |-> ui.bulk])

\* One job after the other; a refusal is counted and the next one is tried.
BulkItem(c) ==
  /\ c.op = "bulk"
  /\ \E n \in c.left : calls' = (calls \ {c}) \cup {[c EXCEPT !.left = @ \ {n}]}
  /\ UNCHANGED <<query, ui>>

BulkEnds(c) ==
  /\ c.op = "bulk" /\ c.left = {}
  /\ Answered(c, [ui EXCEPT !.bulk = {}, !.bulkOpen = FALSE])

---------------------------------------------------------------------------
JobsNext ==
  \/ \E jobs \in Jobs : Poll(jobs)
  \/ openCreate
  \/ \E n \in Names : openEdit(n)
  \/ CloseForm
  \/ \E n \in Names \cup {None} : SetName(n)
  \/ \E task \in {"snapshot", "system-backup"} : SetTask(task)
  \/ \E labels \in BOOLEAN : SetLabels(labels)
  \/ onSubmit
  \/ \E c \in calls : SubmitAnswered(c)
  \/ \E n \in Names : OpenDelete(n)
  \/ DismissDelete
  \/ \E n \in Names : TypeName(n)
  \/ ConfirmDelete
  \/ \E c \in calls : DeleteAnswered(c)
  \/ \E sel \in SUBSET Names : OpenBulk(sel)
  \/ CloseBulk
  \/ ConfirmBulk
  \/ \E c \in calls : BulkItem(c)
  \/ \E c \in calls : BulkEnds(c)

JobsSpec == JobsInit /\ [][JobsNext]_jobsVars

---------------------------------------------------------------------------
TypeOK ==
  /\ query.jobs \in Jobs
  /\ ui.editTarget \in Names \cup {None} /\ ui.deleteTarget \in Names \cup {None}
  /\ ui.form.name \in Names \cup {None} /\ ui.bulk \subseteq Names
  /\ \A c \in calls : c.op \in {"create", "update", "delete", "bulk"}

\* What is submitted from the form opened by Create never changes a job that
\* exists, and what is submitted from the form of a job changes that job and
\* keeps its name: neither a job left behind by Cancel nor a form emptied by an
\* earlier answer turns the one into the other.
SavesItsJob ==
  \A c \in calls : c.op \in {"create", "update"} =>
    /\ (c.op = "update") = (c.purpose = "edit")
    /\ c.op = "update" => c.body.name = c.job
============================================================================

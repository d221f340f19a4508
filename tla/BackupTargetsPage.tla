------------------------- MODULE BackupTargetsPage -------------------------
(***************************************************************************)
(* The page of backup targets, and the wizard that creates one together    *)
(* with the credential it names.  A row is the way it can be synchronised. *)
(***************************************************************************)
EXTENDS Naturals, ListPage

CONSTANT Visits \* what a visit is for (bound): "table", "create", "wizard"

Backends == {"s3", "nfs", "azure"}

\* filled holds the backends whose fields have been entered.
Fresh == [step |-> 1, backend |-> "s3", filled |-> {}, named |-> TRUE, error |-> FALSE]

\* selected keeps the ticks of rows that are gone.
BackupTargetsInit ==
  /\ query \in [rows : Lists]
  /\ ui \in {[visit |-> v, deleteTarget |-> None, typed |-> None, bulkDeleteOpen |-> FALSE,
              selected |-> {}, open |-> FALSE, wizardOpen |-> FALSE, wizard |-> Fresh] : v \in Visits}
  /\ calls = {}

TableFree == DeleteFree /\ ~ui.open /\ ~ui.wizardOpen

Waits(op) == \E c \in calls : c.op = op

---------------------------------------------------------------------------
(* The table *)

OpenCreate == ui.visit = "create" /\ TableFree /\ Show([ui EXCEPT !.open = TRUE])

CloseCreate == ui.open /\ Show([ui EXCEPT !.open = FALSE])

\* The mutation of this dialog, not that of the wizard.
onCreate == ui.open /\ Send([op |-> "create"])

CreateAnswered(c) == c.op = "create" /\ (Answered(c, [ui EXCEPT !.open = FALSE]) \/ Answered(c, ui))

\* With the values of the row, when it has only an update; without either
\* nothing is asked.
syncTarget(n) ==
  /\ ui.visit = "create" /\ TableFree /\ n \in Listed /\ query.rows[n] \in {"backupTargetSync", "backupTargetUpdate"}
  /\ Send([op |-> "sync", by |-> query.rows[n]])

SyncAnswered(c) == c.op = "sync" /\ Answered(c, ui)

OpenDelete(n) == ui.visit = "table" /\ TableFree /\ n \in Listed /\ Show([ui EXCEPT !.deleteTarget = n])

ConfirmDelete == CanConfirm /\ DeleteEach("delete", {ui.deleteTarget})

Tick(n) ==
  /\ ui.visit = "table" /\ TableFree /\ n \in Listed
  /\ Show([ui EXCEPT !.selected = IF n \in @ THEN @ \ {n} ELSE @ \cup {n}])

OpenBulkDelete == TableFree /\ ui.selected \cap Listed # {} /\ Show([ui EXCEPT !.bulkDeleteOpen = TRUE])

BulkDeleted == [ui EXCEPT !.selected = {}, !.bulkDeleteOpen = FALSE]

ConfirmBulkDelete ==
  /\ ui.bulkDeleteOpen /\ ~deleting
  /\ LET targets == ui.selected \cap Listed
     IN  IF targets = {} THEN Show(BulkDeleted) ELSE DeleteEach("bulkDelete", targets)

BulkDeleteEnds(c) == BulkEnds(c) /\ ui' = BulkDeleted

---------------------------------------------------------------------------
(* The wizard *)

OpenWizard == ui.visit = "wizard" /\ TableFree /\ Show([ui EXCEPT !.wizardOpen = TRUE])

\* Possible while the wizard finishes; what was entered is dropped.
CloseWizard == ui.wizardOpen /\ Show([ui EXCEPT !.wizardOpen = FALSE, !.wizard = Fresh])

busy == Waits("credential") \/ Waits("target")

\* Only what is entered on the step that is shown can change.
ChooseBackend(backend) ==
  /\ ui.wizardOpen /\ ui.wizard.step = 1
  /\ Show([ui EXCEPT !.wizard.backend = backend])

FillStep2(filled) ==
  /\ ui.wizardOpen /\ ui.wizard.step = 2
  /\ Show([ui EXCEPT !.wizard.filled =
                       IF filled THEN @ \cup {ui.wizard.backend} ELSE @ \ {ui.wizard.backend}])

EnterTargetName(named) ==
  /\ ui.wizardOpen /\ ui.wizard.step = 3
  /\ Show([ui EXCEPT !.wizard.named = named])

step2Valid == ui.wizard.backend \in ui.wizard.filled

Back == ui.wizardOpen /\ ui.wizard.step > 1 /\ ~busy /\ Show([ui EXCEPT !.wizard.step = @ - 1])

\* Seeded fault: any step leads to the next.
NextUnchecked == ui.wizardOpen /\ ui.wizard.step < 3 /\ Show([ui EXCEPT !.wizard.step = @ + 1])

Next ==
  /\ ui.wizardOpen /\ ui.wizard.step < 3
  /\ ui.wizard.step = 2 => step2Valid
  /\ Show([ui EXCEPT !.wizard.step = @ + 1])

\* What the target names: the credential of its backend; nfs needs none.
Secret(backend) == IF backend = "nfs" THEN None ELSE backend

\* Whether the fields the target is made of were all entered.
buildTarget == [backend |-> ui.wizard.backend, whole |-> step2Valid]

\* The credential first, when there is one.
finish ==
  /\ ui.wizardOpen /\ ui.wizard.step = 3 /\ ~busy /\ ui.wizard.named
  /\ calls' = calls \cup {[op |-> IF Secret(ui.wizard.backend) = None THEN "target" ELSE "credential",
                           created |-> None, spec |-> buildTarget]}
  /\ ui' = [ui EXCEPT !.wizard.error = FALSE]
  /\ UNCHANGED query

\* Seeded fault: the target is asked for when the credential was refused too.
CredentialIgnored(c) ==
  /\ c.op = "credential"
  /\ \E created \in {Secret(c.spec.backend), None} :
       calls' = (calls \ {c}) \cup {[c EXCEPT !.op = "target", !.created = created]}
  /\ UNCHANGED <<query, ui>>

\* Then the target.  A refusal ends it, and is told in whichever wizard is open.
CredentialAnswered(c) ==
  /\ c.op = "credential"
  /\ \/ /\ calls' = (calls \ {c}) \cup {[c EXCEPT !.op = "target", !.created = Secret(c.spec.backend)]}
        /\ UNCHANGED <<query, ui>>
     \/ Answered(c, [ui EXCEPT !.wizard.error = TRUE])

\* Created, the wizard that is open by then is closed and emptied.  Refused,
\* the credential stays, and finishing again creates it again.
TargetAnswered(c) ==
  /\ c.op = "target"
  /\ \/ Answered(c, [ui EXCEPT !.wizardOpen = FALSE, !.wizard = Fresh])
     \/ Answered(c, [ui EXCEPT !.wizard.error = TRUE])

---------------------------------------------------------------------------
BackupTargetsNext ==
  \/ ListNext
  \/ OpenCreate
  \/ CloseCreate
  \/ onCreate
  \/ \E c \in calls : CreateAnswered(c)
  \/ \E n \in Names : syncTarget(n)
  \/ \E c \in calls : SyncAnswered(c)
  \/ \E n \in Names : OpenDelete(n)
  \/ ConfirmDelete
  \/ \E n \in Names : Tick(n)
  \/ OpenBulkDelete
  \/ ConfirmBulkDelete
  \/ \E c \in calls : BulkDeleteEnds(c)
  \/ OpenWizard
  \/ CloseWizard
  \/ \E backend \in Backends : ChooseBackend(backend)
  \/ \E filled \in BOOLEAN : FillStep2(filled)
  \/ \E named \in BOOLEAN : EnterTargetName(named)
  \/ Back
  \/ Next
  \/ finish
  \/ \E c \in calls : CredentialAnswered(c)
  \/ \E c \in calls : TargetAnswered(c)

BackupTargetsSpec == BackupTargetsInit /\ [][BackupTargetsNext]_listVars

TypeOK ==
  /\ ListTypeOK
  /\ ui.selected \subseteq Names
  /\ ui.wizard.step \in 1..3 /\ ui.wizard.backend \in Backends /\ ui.wizard.filled \subseteq Backends

\* A target is asked for only with everything its backend needs, entered for
\* that backend, and after the credential it names was created: not after the
\* backend was changed on the way, nor after a refusal.
TargetsAreWhole ==
  \A c \in calls : c.op = "target" => c.spec.whole /\ c.created = Secret(c.spec.backend)
=============================================================================

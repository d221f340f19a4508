-------------------------- MODULE EngineImagesPage --------------------------
(***************************************************************************)
(* The page of engine images: deploying one, deleting those that are not   *)
(* the default.  A row is TRUE for the default image.                      *)
(***************************************************************************)
EXTENDS ListPage

\* bulkRows are the rows as they were when the dialog of several was opened.
EngineImagesInit ==
  /\ query \in [rows : Lists]
  /\ ui = [deleteTarget |-> None, typed |-> None, bulkDeleteOpen |-> FALSE, bulkRows |-> <<>>,
           open |-> FALSE]
  /\ calls = {}

TableFree == DeleteFree /\ ~ui.open

OpenDeploy == TableFree /\ Show([ui EXCEPT !.open = TRUE])

CloseDeploy == ui.open /\ Show([ui EXCEPT !.open = FALSE])

\* Not disabled while an image is being deployed.
Deploy == ui.open /\ Send([op |-> "deploy"])

DeployAnswered(c) == c.op = "deploy" /\ (Answered(c, [ui EXCEPT !.open = FALSE]) \/ Answered(c, ui))

\* The default image has no button.
OpenDelete(n) ==
  /\ TableFree /\ n \in Listed /\ ~query.rows[n]
  /\ Show([ui EXCEPT !.deleteTarget = n])

ConfirmDelete == CanConfirm /\ DeleteEach("delete", {ui.deleteTarget})

OpenBulkDelete(sel) ==
  /\ TableFree /\ sel # {} /\ sel \subseteq Listed
  /\ Show([ui EXCEPT !.bulkRows = [n \in sel |-> query.rows[n]], !.bulkDeleteOpen = TRUE])

\* Seeded fault: the default image is not skipped.
EveryRow == DOMAIN ui.bulkRows

\* The default image is skipped, as the rows of the opening knew it.
Targets == {n \in DOMAIN ui.bulkRows : ~ui.bulkRows[n]}

BulkDeleted == [ui EXCEPT !.bulkRows = <<>>, !.bulkDeleteOpen = FALSE]

ConfirmBulkDelete ==
  /\ ui.bulkDeleteOpen /\ ~deleting
  /\ IF Targets = {} THEN Show(BulkDeleted) ELSE DeleteEach("bulkDelete", Targets)

BulkDeleteEnds(c) == BulkEnds(c) /\ ui' = BulkDeleted

---------------------------------------------------------------------------
EngineImagesNext ==
  \/ ListNext
  \/ OpenDeploy
  \/ CloseDeploy
  \/ Deploy
  \/ \E c \in calls : DeployAnswered(c)
  \/ \E n \in Names : OpenDelete(n)
  \/ ConfirmDelete
  \/ \E sel \in SUBSET Names : OpenBulkDelete(sel)
  \/ ConfirmBulkDelete
  \/ \E c \in calls : BulkDeleteEnds(c)

EngineImagesSpec == EngineImagesInit /\ [][EngineImagesNext]_listVars

TypeOK == ListTypeOK /\ DOMAIN ui.bulkRows \subseteq Names /\ ui.open \in BOOLEAN

\* The default engine image is never asked to be deleted, if it was the default
\* in every list: neither by its row nor among several.  (One that became the
\* default after the rows were ticked may be.)
DefaultImageKept ==
  \A c \in calls : c.op \in {"delete", "bulkDelete"} /\ c.now # None
                   => \E rows \in Lists : c.now \in DOMAIN rows /\ ~rows[c.now]
=============================================================================

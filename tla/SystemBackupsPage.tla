------------------------- MODULE SystemBackupsPage -------------------------
(***************************************************************************)
(* The page of system backups and restores: creating a backup, starting a  *)
(* restore of one (no dialog asks), deleting.                              *)
(***************************************************************************)
EXTENDS ListPage

\* selected keeps the ticks of rows that are gone.
SystemBackupsInit ==
  /\ query \in [rows : Lists]
  /\ ui = [deleteTarget |-> None, typed |-> None, bulkDeleteOpen |-> FALSE, selected |-> {},
           open |-> FALSE, named |-> FALSE]
  /\ calls = {}

TableFree == DeleteFree /\ ~ui.open

\* Another restore may be started while one waits, also of the same backup.
Restore(n) == TableFree /\ n \in Listed /\ Send([op |-> "restore", of |-> n])

RestoreAnswered(c) == c.op = "restore" /\ Answered(c, ui)

OpenCreate == TableFree /\ Show([ui EXCEPT !.open = TRUE])

\* The name stays.
CloseCreate == ui.open /\ Show([ui EXCEPT !.open = FALSE])

EnterName(named) == ui.open /\ Show([ui EXCEPT !.named = named])

Create == ui.open /\ ui.named /\ Send([op |-> "create"])

\* Created, the dialog that is open by then is closed; refused, it stays.
CreateAnswered(c) == c.op = "create" /\ (Answered(c, [ui EXCEPT !.open = FALSE]) \/ Answered(c, ui))

OpenDelete(n) == TableFree /\ n \in Listed /\ Show([ui EXCEPT !.deleteTarget = n])

ConfirmDelete == CanConfirm /\ DeleteEach("delete", {ui.deleteTarget})

Tick(n) ==
  /\ TableFree /\ n \in Listed
  /\ Show([ui EXCEPT !.selected = IF n \in @ THEN @ \ {n} ELSE @ \cup {n}])

OpenBulkDelete == TableFree /\ ui.selected \cap Listed # {} /\ Show([ui EXCEPT !.bulkDeleteOpen = TRUE])

\* The dialog counts ui.selected; the targets are those of them still listed.
Targets == ui.selected \cap Listed

BulkDeleted == [ui EXCEPT !.selected = {}, !.bulkDeleteOpen = FALSE]

ConfirmBulkDelete ==
  /\ ui.bulkDeleteOpen /\ ~deleting
  /\ IF Targets = {} THEN Show(BulkDeleted) ELSE DeleteEach("bulkDelete", Targets)

\* What was ticked meanwhile is forgotten too.
BulkDeleteEnds(c) == BulkEnds(c) /\ ui' = BulkDeleted

---------------------------------------------------------------------------
SystemBackupsNext ==
  \/ ListNext
  \/ \E n \in Names : Restore(n)
  \/ \E c \in calls : RestoreAnswered(c)
  \/ OpenCreate
  \/ CloseCreate
  \/ \E named \in BOOLEAN : EnterName(named)
  \/ Create
  \/ \E c \in calls : CreateAnswered(c)
  \/ \E n \in Names : OpenDelete(n)
  \/ ConfirmDelete
  \/ \E n \in Names : Tick(n)
  \/ OpenBulkDelete
  \/ ConfirmBulkDelete
  \/ \E c \in calls : BulkDeleteEnds(c)

SystemBackupsSpec == SystemBackupsInit /\ [][SystemBackupsNext]_listVars

TypeOK == ListTypeOK /\ ui.selected \subseteq Names /\ {ui.open, ui.named} \subseteq BOOLEAN
=============================================================================

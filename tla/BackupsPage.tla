----------------------------- MODULE BackupsPage -----------------------------
(***************************************************************************)
(* The page of backup volumes: the backups of one of them, restoring a     *)
(* volume from them, synchronising and deleting.  It is the page of a user *)
(* who may change them; copying the URL of a backup is left out.           *)
(***************************************************************************)
EXTENDS Naturals, FiniteSets

CONSTANTS Names,
          Lists,    \* the lists of backup volumes that may arrive: what each offers, by name
          None,
          MaxCalls, \* handlers that wait at once (bound)
          Visits    \* what a visit is for (bound): "restore", "lists", "delete"

VARIABLES query, \* the list of backup volumes
          ui,    \* the dialogs, what was entered in them, the rows that are ticked
          calls  \* handlers waiting for the answer to a request

backupsVars == <<query, ui, calls>>

\* backupList holds the volume whose backups are shown.  restoreOverride holds
\* the volume whose backup was chosen, for the backup itself; last says whether
\* restoreTarget named a last backup when the dialog was opened for it.
BackupsInit ==
  /\ query \in [volumes : Lists]
  /\ ui \in {[visit |-> v, backupListFor |-> None, backupList |-> None, restoreTarget |-> None,
              last |-> FALSE, restoreOverride |-> None, standby |-> FALSE, named |-> FALSE, 
              deleteTarget |-> None, typed |-> None, bulkDeleteOpen |-> FALSE, selected |-> {}] : v \in Visits}
  /\ calls = {}

Show(next) == ui' = next /\ UNCHANGED <<query, calls>>

Room == Cardinality(calls) < MaxCalls

Send(c) == Room /\ calls' = calls \cup {c} /\ UNCHANGED <<query, ui>>

Answered(c, next) == ui' = next /\ calls' = calls \ {c} /\ UNCHANGED query

Listed == DOMAIN query.volumes

\* What a volume offers: its actions, and whether it names a last backup.
Has(n, what) == what \in query.volumes[n]

\* Dialogs cover the table and the list of backups.
TableFree == ui.restoreTarget = None /\ ui.deleteTarget = None /\ ~ui.bulkDeleteOpen

Poll(volumes) == query' = [query EXCEPT !.volumes = volumes] /\ UNCHANGED <<ui, calls>>

---------------------------------------------------------------------------
(* The backups of a volume *)

\* Shown once the answer is there; those of two requests come in either order.
listBackups(n) ==
  /\ ui.visit \in {"restore", "lists"} /\ TableFree
  /\ n \in Listed /\ Has(n, "backupList")
  /\ Send([op |-> "list", vol |-> n])

ListAnswered(c) ==
  /\ c.op = "list"
  /\ \/ Answered(c, [ui EXCEPT !.backupList = c.vol, !.backupListFor = c.vol])
     \/ Answered(c, ui)

\* The volume of the list, as the table knows it by now.
deleteBackupEntry ==
  /\ ui.visit = "lists" /\ TableFree
  /\ ui.backupListFor \in Listed /\ Has(ui.backupListFor, "backupDelete")
  /\ Send([op |-> "deleteEntry", vol |-> ui.backupListFor, again |-> Has(ui.backupListFor, "backupList")])

\* The list is fetched again, for the volume it was of, if that may be listed.
EntryDeleted(c) ==
  /\ c.op = "deleteEntry"
  /\ \/ calls' = calls \ {c}
     \/ calls' = (calls \ {c}) \cup (IF c.again THEN {[op |-> "list", vol |-> c.vol]} ELSE {})
  /\ UNCHANGED <<query, ui>>

---------------------------------------------------------------------------
(* Synchronising *)

syncOne(n) ==
  /\ ui.visit = "lists" /\ TableFree
  /\ n \in Listed /\ Has(n, "sync")
  /\ Send([op |-> "sync", left |-> {n}])

\* When the collection cannot be synchronised, the volumes that were listed
\* when it was asked are, one by one, until one refuses.
syncAll ==
  /\ ui.visit = "lists" /\ TableFree
  /\ Send([op |-> "syncAll", left |-> {n \in Listed : Has(n, "sync")}])

SyncAnswered(c) ==
  /\ c.op \in {"sync", "syncAll"}
  /\ \/ calls' = calls \ {c}
     \/ /\ c.op = "syncAll"
        /\ calls' = (calls \ {c}) \cup {[c EXCEPT !.op = "sync"]}
     \/ /\ c.op = "sync"
        /\ \E n \in c.left : calls' = (calls \ {c}) \cup {[c EXCEPT !.left = @ \ {n}]}
  /\ UNCHANGED <<query, ui>>

---------------------------------------------------------------------------
(* Restoring *)

\* The dialog for a volume, with a name for the new one.
Titled(n) == [ui EXCEPT !.restoreTarget = n, !.last = Has(n, "last"), !.named = TRUE]

\* Seeded fault: a backup chosen before stays chosen.
OpenAsLeft(n, standby) ==
  /\ ui.visit = "restore" /\ TableFree /\ n \in Listed
  /\ Show([Titled(n) EXCEPT !.standby = standby])

\* From the menu of a row: the last backup, into a volume or into a standby.
OpenRestore(n, standby) ==
  /\ ui.visit = "restore" /\ TableFree /\ n \in Listed
  /\ Show([Titled(n) EXCEPT !.standby = standby, !.restoreOverride = None])

\* From the list of backups: the backup of that line.
OpenRestoreEntry ==
  /\ ui.visit = "restore" /\ TableFree /\ ui.backupListFor \in Listed
  /\ Show([Titled(ui.backupListFor) EXCEPT !.standby = FALSE, !.restoreOverride = ui.backupList])

\* What was chosen and entered stays.
CloseRestore == ui.restoreTarget # None /\ Show([ui EXCEPT !.restoreTarget = None])

EnterName(named) == ui.restoreTarget # None /\ Show([ui EXCEPT !.named = named])

\* useCreateVolume tells of the request that was made last.
isPending == \E c \in calls : c.op \in {"restore", "bulkRestore"} /\ c.newest

\* A request for a volume, the newest one.
Create(others, c) ==
  calls' = {IF d.op \in {"restore", "bulkRestore"} THEN [d EXCEPT !.newest = FALSE] ELSE d
            : d \in others} \cup {c}

\* The volume whose backup is restored, none when it names no last backup.
fromBackup ==
  IF ui.restoreOverride # None THEN ui.restoreOverride
  ELSE IF ui.last THEN ui.restoreTarget ELSE None

restore ==
  /\ ui.restoreTarget # None /\ ui.named /\ ~isPending /\ Room
  /\ Create(calls, [op |-> "restore", target |-> ui.restoreTarget, newest |-> TRUE,
                    from |-> fromBackup])
  /\ UNCHANGED <<query, ui>>

\* The dialog that is open by then is closed and emptied.
RestoreAnswered(c) ==
  /\ c.op = "restore"
  /\ \/ Answered(c, [ui EXCEPT !.restoreTarget = None, !.named = FALSE, !.standby = FALSE,
                               !.restoreOverride = None])
     \/ Answered(c, ui)

\* The loop names each volume in the dialog, which opens it.
bulkRestore(sel) ==
  /\ ui.visit = "restore" /\ TableFree /\ Room /\ sel # {} /\ sel \subseteq Listed
  /\ \E n \in sel :
       /\ ui' = Titled(n)
       /\ Create(calls, [op |-> "bulkRestore", rows |-> query.volumes, left |-> sel \ {n}, newest |-> TRUE])
  /\ UNCHANGED query

BulkRestored(c) ==
  /\ c.op = "bulkRestore" /\ c.left # {}
  /\ \E n \in c.left :
       /\ ui' = [ui EXCEPT !.restoreTarget = n, !.last = "last" \in c.rows[n], !.named = TRUE]
       /\ Create(calls \ {c}, [c EXCEPT !.left = @ \ {n}, !.newest = TRUE])
  /\ UNCHANGED query

\* At the end, or at the first refusal.
BulkRestoreEnds(c) ==
  /\ c.op = "bulkRestore"
  /\ Answered(c, [ui EXCEPT !.selected = {}, !.restoreTarget = None])

---------------------------------------------------------------------------
(* Deletion *)

\* useDeleteBackupVolume is one mutation: a deletion of either kind waits.
deleting == \E c \in calls : c.op \in {"delete", "bulkDelete"}

OpenDelete(n) ==
  /\ ui.visit = "delete" /\ TableFree /\ n \in Listed
  /\ Show([ui EXCEPT !.deleteTarget = n])

\* The dialog's own close clears what was typed; the Cancel button, disabled
\* while a deletion waits, does not.
DismissDelete ==
  /\ ui.deleteTarget # None
  /\ \/ Show([ui EXCEPT !.deleteTarget = None, !.typed = None])
     \/ ~deleting /\ Show([ui EXCEPT !.deleteTarget = None])

TypeName(n) == ui.deleteTarget # None /\ Show([ui EXCEPT !.typed = n])

ConfirmDelete ==
  /\ ui.deleteTarget # None /\ ui.typed = ui.deleteTarget /\ ~deleting
  /\ Send([op |-> "delete", vol |-> ui.deleteTarget])

\* Deleted or not, the dialog that is open by then is closed.
DeleteAnswered(c) == c.op = "delete" /\ Answered(c, [ui EXCEPT !.deleteTarget = None])

\* A tick outlives the row.
Tick(n) ==
  /\ ui.visit = "delete" /\ TableFree /\ n \in Listed
  /\ Show([ui EXCEPT !.selected = IF n \in @ THEN @ \ {n} ELSE @ \cup {n}])

OpenBulkDelete ==
  /\ TableFree /\ ui.selected \cap Listed # {}
  /\ Show([ui EXCEPT !.bulkDeleteOpen = TRUE])

CloseBulkDelete == ui.bulkDeleteOpen /\ Show([ui EXCEPT !.bulkDeleteOpen = FALSE])

\* Of the rows that are ticked, those listed by now.
ConfirmBulkDelete ==
  /\ ui.bulkDeleteOpen /\ ~deleting
  /\ Send([op |-> "bulkDelete", left |-> ui.selected \cap Listed])

\* A refusal is counted and the next one is tried.
BulkItem(c) ==
  /\ c.op = "bulkDelete"
  /\ \E n \in c.left : calls' = (calls \ {c}) \cup {[c EXCEPT !.left = @ \ {n}]}
  /\ UNCHANGED <<query, ui>>

BulkDeleteEnds(c) ==
  /\ c.op = "bulkDelete" /\ c.left = {}
  /\ Answered(c, [ui EXCEPT !.selected = {}, !.bulkDeleteOpen = FALSE])

---------------------------------------------------------------------------
BackupsNext ==
  \/ \E volumes \in Lists : Poll(volumes)
  \/ \E n \in Names : listBackups(n)
  \/ \E c \in calls : ListAnswered(c)
  \/ deleteBackupEntry
  \/ \E c \in calls : EntryDeleted(c)
  \/ \E n \in Names : syncOne(n)
  \/ syncAll
  \/ \E c \in calls : SyncAnswered(c)
  \/ \E n \in Names, standby \in BOOLEAN : OpenRestore(n, standby)
  \/ OpenRestoreEntry
  \/ CloseRestore
  \/ \E named \in BOOLEAN : EnterName(named)
  \/ restore
  \/ \E c \in calls : RestoreAnswered(c)
  \/ \E sel \in SUBSET Names : bulkRestore(sel)
  \/ \E c \in calls : BulkRestored(c)
  \/ \E c \in calls : BulkRestoreEnds(c)
  \/ \E n \in Names : OpenDelete(n)
  \/ DismissDelete
  \/ \E n \in Names : TypeName(n)
  \/ ConfirmDelete
  \/ \E c \in calls : DeleteAnswered(c)
  \/ \E n \in Names : Tick(n)
  \/ OpenBulkDelete
  \/ CloseBulkDelete
  \/ ConfirmBulkDelete
  \/ \E c \in calls : BulkItem(c)
  \/ \E c \in calls : BulkDeleteEnds(c)

BackupsSpec == BackupsInit /\ [][BackupsNext]_backupsVars

---------------------------------------------------------------------------
TypeOK ==
  /\ query.volumes \in Lists
  /\ {ui.backupListFor, ui.restoreTarget, ui.restoreOverride, ui.deleteTarget} \subseteq Names \cup {None}
  /\ ui.selected \subseteq Names
  /\ \A c \in calls : c.op \in {"list", "deleteEntry", "sync", "syncAll", "restore", "bulkRestore",
                                "delete", "bulkDelete"}

\* A volume restored from the dialog of a backup volume never holds the data of
\* another: not after a backup of that one was chosen and the dialog cancelled,
\* and not while a restore of several volumes shows its dialogs over a choice
\* made before.  (It may hold none: a volume that names no last backup.)
RestoresOwnBackup ==
  \A c \in calls : c.op = "restore" => c.from \in {c.target, None}
============================================================================

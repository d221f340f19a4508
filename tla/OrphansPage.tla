---------------------------- MODULE OrphansPage ----------------------------
(***************************************************************************)
(* The page of orphans, with a tab for those of replica data and one for   *)
(* those of instances.  A row is the type the orphan reports.              *)
(***************************************************************************)
EXTENDS ListPage

INSTANCE_ORPHAN_TYPES == {"instance", "engine-instance", "replica-instance"}

\* Any other type, a missing or unknown one too, is replica data.
TabOf(type) == IF type \in INSTANCE_ORPHAN_TYPES THEN "instances" ELSE "replicaData"

\* ticked belongs to the table, selectedOrphans to the page; seen is what the
\* table showed when it last told the page.
OrphansInit ==
  /\ query \in [rows : Lists]
  /\ ui = [deleteTarget |-> None, typed |-> None, bulkDeleteOpen |-> FALSE, activeTab |-> "replicaData",
           ticked |-> {}, selectedOrphans |-> {}, seen |-> <<>>]
  /\ calls = {}

currentData == {n \in Listed : TabOf(query.rows[n]) = ui.activeTab}

TableShows == <<query.rows, ui.activeTab, ui.ticked>>

Told == ui.seen = TableShows

\* Before anything else happens, the table tells the page of each change which
\* of its rows are ticked.  An empty list takes the table and its ticks away.
SelectionChanged ==
  /\ ~Told
  /\ LET ticked == IF Listed = {} THEN {} ELSE ui.ticked
     IN  Show([ui EXCEPT !.ticked = ticked, !.seen = <<query.rows, ui.activeTab, ticked>>,
                         !.selectedOrphans = IF Listed = {} THEN @ ELSE ticked \cap currentData])

\* The table of the other tab is another one; that of the same tab keeps its
\* ticks, and has nothing to tell.
SelectTab(tab) ==
  /\ DeleteFree /\ Told /\ Listed # {}
  /\ Show([ui EXCEPT !.activeTab = tab, !.selectedOrphans = {},
                     !.ticked = IF tab = ui.activeTab THEN @ ELSE {}])

Tick(n) ==
  /\ DeleteFree /\ Told /\ n \in currentData
  /\ Show([ui EXCEPT !.ticked = IF n \in @ THEN @ \ {n} ELSE @ \cup {n}])

OpenDelete(n) == DeleteFree /\ n \in currentData /\ Show([ui EXCEPT !.deleteTarget = n])

ConfirmDelete == CanConfirm /\ DeleteEach("delete", {ui.deleteTarget})

OpenBulkDelete ==
  /\ DeleteFree /\ ui.ticked \cap currentData # {} /\ Told
  /\ Show([ui EXCEPT !.bulkDeleteOpen = TRUE])

BulkDeleted == [ui EXCEPT !.bulkDeleteOpen = FALSE]

\* The orphans the page was told of last.
ConfirmBulkDelete ==
  /\ ui.bulkDeleteOpen /\ ~deleting /\ Told
  /\ LET targets == ui.selectedOrphans
     IN  IF targets = {} THEN Show(BulkDeleted) ELSE DeleteEach("bulkDelete", targets)

\* The ticks stay.
BulkDeleteEnds(c) == BulkEnds(c) /\ ui' = BulkDeleted

---------------------------------------------------------------------------
OrphansNext ==
  \/ ListNext
  \/ SelectionChanged
  \/ \E tab \in {"replicaData", "instances"} : SelectTab(tab)
  \/ \E n \in Names : Tick(n)
  \/ \E n \in Names : OpenDelete(n)
  \/ ConfirmDelete
  \/ OpenBulkDelete
  \/ ConfirmBulkDelete
  \/ \E c \in calls : BulkDeleteEnds(c)

OrphansSpec == OrphansInit /\ [][OrphansNext]_listVars

TypeOK == ListTypeOK /\ ui.ticked \cup ui.selectedOrphans \subseteq Names

\* A deletion of several is for the rows that are seen ticked.  (It is not so
\* after a click on the tab that is shown: the page forgets them, the table
\* does not, and the deletion that is confirmed deletes nothing.)
DeletesWhatIsTicked == ui.bulkDeleteOpen /\ Told => ui.selectedOrphans = ui.ticked \cap currentData
=============================================================================

-------------------------- MODULE VolumeDetailPage --------------------------
(***************************************************************************)
(* One volume's page: its snapshot tree, its actions and the dialogs that  *)
(* run them.  The page lists the snapshots on its own, outside its         *)
(* queries: after every poll that changed the volume and at the end of     *)
(* every action, so several listings may be on their way.                  *)
(***************************************************************************)
EXTENDS Naturals, Sequences, FiniteSets

CONSTANTS Snaps,       \* snapshot names
          Listings,    \* what may be listed of them (SnapshotTree)
          Targets,     \* backup targets
          None,        \* no dialog; the parent of a root
          MaxLists,    \* listings on their way at once (bound)
          MaxActions,  \* actions waiting for an answer at once (bound)
          VisitTasks   \* the dialogs a visit uses (bounds the visit)

VARIABLES query,    \* what the queries hold: the volume's actions, the targets
          ui,       \* component state
          calls     \* handlers and listings waiting for an answer

detailVars == <<query, ui, calls>>

Tree == INSTANCE SnapshotTree

Modern == {"snapshotCRCreate", "snapshotCRList", "snapshotCRDelete", "snapshotRevert",
           "snapshotBackup", "replicaRemove", "recurringJobAdd", "trimFilesystem", "replicaExtra"}
Legacy == {"snapshotCreate", "snapshotList", "snapshotDelete", "snapshotRevert",
           "snapshotBackup", "replicaRemove"}
Detached == {"attach", "recurringJobAdd"}

hasAction(key) == key \in query.acts

\* VOLUME_ACTION_DEFS with a form of ActionFormDialog, as far as they appear here.
FormActions == {"attach", "trimFilesystem"}

\* A visit that uses the other dialogs sees one listing of every snapshot.
ListingsOf(task) ==
  IF task = "snapshots" THEN Listings
  ELSE {l \in Listings : l = CHOOSE all \in Listings : DOMAIN all = Snaps}

---------------------------------------------------------------------------
DetailInit ==
  /\ \E task \in VisitTasks :
     /\ query \in IF task = "snapshots" THEN [acts : {Modern, Legacy}, targets : {{}}]
                                       ELSE [acts : {Modern}, targets : {{}, Targets}]
     /\ ui = [task |-> task, snaps |-> << >>, snapLoading |-> FALSE,
              showSystem |-> task = "snapshots", dialog |-> None, name |-> None,
              jobName |-> FALSE, backupTarget |-> None, backupMode |-> "incremental"]
  /\ calls = {}

Lists == {c \in calls : c.op = "list"}

\* snapPref: the CR variant when the volume offers it, else the legacy one.
snapPref(cr, legacy) ==
  IF hasAction(cr) THEN cr ELSE IF hasAction(legacy) THEN legacy ELSE None

\* A handler that ends closes the dialog of its kind, whichever target it has by then.
Closed(next, kind) ==
  IF next.dialog = kind THEN [next EXCEPT !.dialog = None, !.name = None] ELSE next

\* The volume may carry its snapshots; if it carries none, what is shown stays.
Inline(next) == {next} \cup {[next EXCEPT !.snaps = listing] : listing \in ListingsOf(ui.task)}

\* refreshSnapshots: the CR listing, else the legacy one, else those inline.
\* "closes" is the dialog that closes when the listing ends.
listAction == snapPref("snapshotCRList", "snapshotList")
refreshSnapshots(closes, others, next) ==
  IF listAction = None
    THEN /\ ui' \in Inline(Closed(next, closes))
         /\ calls' = others
    ELSE /\ Cardinality(Lists) < MaxLists
         /\ ui' = [next EXCEPT !.snapLoading = TRUE]
         /\ calls' = others \cup {[op |-> "list", by |-> listAction, closes |-> closes]}

Show(next) == ui' = next /\ UNCHANGED <<query, calls>>

\* A poll brings other actions (the volume is attached or detached) or other
\* fields; either is a new volume to the effect that lists its snapshots.
Poll ==
  /\ ui.task = "dialogs"
  /\ query' \in {query, [query EXCEPT !.acts = IF query.acts = Detached THEN Modern ELSE Detached]}
  /\ IF snapPref("snapshotCRList", "snapshotList")' = None
       THEN ui' \in Inline(ui) /\ UNCHANGED calls
       ELSE /\ Cardinality(Lists) < MaxLists
            /\ ui' = [ui EXCEPT !.snapLoading = TRUE]
            /\ calls' = calls \cup {[op |-> "list", by |-> listAction', closes |-> "poll"]}

\* The Refresh button above the tree is disabled while a listing is awaited.
RefreshSnapshots ==
  /\ ~ui.snapLoading
  /\ refreshSnapshots("refresh", calls, ui)
  /\ UNCHANGED query

\* Whichever listing is answered last is what the page shows.
ListAnswered(c) ==
  /\ c.op = "list"
  /\ calls' = calls \ {c}
  /\ LET shown == Closed([ui EXCEPT !.snapLoading = FALSE], c.closes)
     IN \/ ui' = shown
        \/ \E listing \in ListingsOf(ui.task) :
             ui' = [shown EXCEPT !.snaps = listing]
  /\ UNCHANGED query

ToggleSystem ==
  /\ ui.task = "dialogs"
  /\ Show([ui EXCEPT !.showSystem = ~ui.showSystem])

---------------------------------------------------------------------------
(* Actions *)

\* runAction, without the messages it clears and shows.
runAction(action, name, closes) ==
  /\ Cardinality(calls \ Lists) < MaxActions
  /\ calls' = calls \cup {[op |-> "action", action |-> action, name |-> name, closes |-> closes,
                           target |-> ui.backupTarget, mode |-> ui.backupMode]}
  /\ UNCHANGED <<query, ui>>

\* The answer of a performed action: the volume is fetched again and its
\* snapshots are listed before the dialog closes.  A failed one ends at once,
\* and its dialog closes all the same.
ActionAnswered(c) ==
  /\ c.op = "action"
  /\ \/ refreshSnapshots(c.closes, calls \ {c}, ui)
     \/ /\ ui' = Closed(ui, c.closes)
        /\ calls' = calls \ {c}
  /\ UNCHANGED query

\* The actions menu: two entries have dialogs of their own, the ones with a
\* form share one, the manager's other actions run at once.
OpenFromMenu ==
  /\ ui.dialog = None
  /\ \/ hasAction("snapshotCreate") /\ Show([ui EXCEPT !.dialog = "snapCreate"])
     \/ ui.task = "dialogs" /\ hasAction("recurringJobAdd") /\ Show([ui EXCEPT !.dialog = "job"])
     \/ \E key \in FormActions :
          ui.task = "dialogs" /\ hasAction(key) /\ Show([ui EXCEPT !.dialog = "form", !.name = key])

RunExtra ==
  /\ ui.task = "dialogs" /\ ui.dialog = None
  /\ hasAction("replicaExtra")
  /\ runAction("replicaExtra", None, "extra")

SubmitForm == ui.dialog = "form" /\ runAction(ui.name, None, "form")

OpenSnapshotCreate ==
  /\ ui.dialog = None
  /\ hasAction("snapshotCRCreate") \/ hasAction("snapshotCreate")
  /\ Show([ui EXCEPT !.dialog = "snapCreate"])

CreateSnapshot ==
  /\ ui.dialog = "snapCreate"
  /\ runAction(IF hasAction("snapshotCRCreate") THEN "snapshotCRCreate" ELSE "snapshotCreate",
               None, "snapCreate")

AttachJob ==
  /\ ui.dialog = "job"
  /\ \/ Show([ui EXCEPT !.jobName = ~ui.jobName])
     \/ ui.jobName /\ runAction("recurringJobAdd", None, "job")

CloseDialog ==
  /\ ui.dialog # None
  /\ Show(Closed(ui, ui.dialog))

---------------------------------------------------------------------------
(* The buttons of a row of the tree, and the replicas *)

Rows == Tree!VisibleRows(ui.snaps, ui.showSystem)
ShownSnaps == {Rows[i].snap : i \in DOMAIN Rows}

\* Revert asks nothing back.
RevertTo(s) ==
  /\ ui.task = "snapshots" /\ ui.dialog = None
  /\ s \in ShownSnaps /\ ~ui.snaps[s].system
  /\ snapPref("snapshotCRRevert", "snapshotRevert") # None
  /\ runAction(snapPref("snapshotCRRevert", "snapshotRevert"), s, "revert")

\* Backup asks for a target when there is one to choose.
OpenBackup(s) ==
  /\ ui.task = "dialogs" /\ ui.dialog = None
  /\ s \in ShownSnaps /\ ~ui.snaps[s].system /\ hasAction("snapshotBackup")
  /\ \/ /\ query.targets = {}
        /\ runAction("snapshotBackup", s, "backup")
     \/ \E first \in query.targets :
          Show([ui EXCEPT !.dialog = "backup", !.name = s, !.backupTarget = first,
                          !.backupMode = "incremental"])

EnterBackup ==
  /\ ui.dialog = "backup"
  /\ \/ \E target \in query.targets : Show([ui EXCEPT !.backupTarget = target])
     \/ \E mode \in {"incremental", "full"} : Show([ui EXCEPT !.backupMode = mode])

RunBackup == ui.dialog = "backup" /\ runAction("snapshotBackup", ui.name, "backup")

OpenDeleteSnapshot(s) ==
  /\ ui.task = "snapshots" /\ ui.dialog = None
  /\ s \in ShownSnaps /\ snapPref("snapshotCRDelete", "snapshotDelete") # None
  /\ Show([ui EXCEPT !.dialog = "deleteSnapshot", !.name = s])

DeleteSnapshot ==
  /\ ui.dialog = "deleteSnapshot"
  /\ LET preferred == snapPref("snapshotCRDelete", "snapshotDelete")
     IN runAction(IF preferred = None THEN "snapshotDelete" ELSE preferred,
                  ui.name, "deleteSnapshot")

RemoveReplica ==
  /\ ui.task = "dialogs"
  /\ \/ /\ ui.dialog = None /\ hasAction("replicaRemove")
        /\ Show([ui EXCEPT !.dialog = "removeReplica"])
     \/ ui.dialog = "removeReplica" /\ runAction("replicaRemove", None, "removeReplica")

---------------------------------------------------------------------------
DetailNext ==
  \/ Poll
  \/ RefreshSnapshots
  \/ ToggleSystem
  \/ OpenFromMenu
  \/ RunExtra
  \/ SubmitForm
  \/ OpenSnapshotCreate
  \/ CreateSnapshot
  \/ AttachJob
  \/ CloseDialog
  \/ \E s \in Snaps : RevertTo(s)
  \/ \E s \in Snaps : OpenBackup(s)
  \/ EnterBackup
  \/ RunBackup
  \/ \E s \in Snaps : OpenDeleteSnapshot(s)
  \/ DeleteSnapshot
  \/ RemoveReplica
  \/ \E c \in calls : ListAnswered(c)
  \/ \E c \in calls : ActionAnswered(c)

DetailSpec == DetailInit /\ [][DetailNext]_detailVars

---------------------------------------------------------------------------
TypeOK ==
  /\ query.acts \in {Modern, Legacy, Detached}
  /\ DOMAIN ui.snaps \subseteq Snaps /\ ui.name \in Snaps \cup FormActions \cup {None}
  /\ \A c \in calls : c.op \in {"list", "action"}

\* Where a snapshot is drawn.
At(order, s) == CHOOSE i \in DOMAIN order : order[i].snap = s

\* What is drawn with these: they, the children drawn above them, and so on.
From(snaps, start) ==
  {s \in DOMAIN snaps : \A reach \in SUBSET DOMAIN snaps :
     start \subseteq reach /\ (\A r \in reach : Tree!ChildrenMap(snaps)[r] \subseteq reach)
       => s \in reach}

\* The children that are reported, if any are, are those whose parent it is.
ChildrenAgree(snaps) ==
  \/ \A s \in DOMAIN snaps : snaps[s].children \cap DOMAIN snaps = {}
  \/ \A s \in DOMAIN snaps :
       snaps[s].children \cap DOMAIN snaps = {c \in DOMAIN snaps : snaps[c].parent = s}

\* No snapshots are taken from each other in a circle.
NoCircle(snaps) ==
  \A some \in SUBSET DOMAIN snaps : some # {} => \E s \in some : snaps[s].parent \notin some

\* buildOrder draws every listed snapshot exactly once, whatever the listing:
\* what the roots reach goes first, each below the children it has there (unless
\* they lead back to it), what they do not reach goes last.  If the children
\* agree with the parents, each is above the snapshot it was taken from.
Faithful(snaps) ==
  LET order == Tree!BuildOrder(snaps)
      reached == From(snaps, Tree!Roots(snaps))
  IN /\ Len(order) = Cardinality(DOMAIN snaps)
     /\ {order[i].snap : i \in DOMAIN order} = DOMAIN snaps
     /\ \A s \in reached : \A c \in Tree!ChildrenMap(snaps)[s] :
          s \in From(snaps, {c}) \/ At(order, c) < At(order, s)
     /\ \A s \in reached : \A o \in DOMAIN snaps \ reached : At(order, s) < At(order, o)
     /\ ChildrenAgree(snaps) /\ NoCircle(snaps) =>
          \A s \in DOMAIN snaps :
            snaps[s].parent \in DOMAIN snaps => At(order, s) < At(order, snaps[s].parent)

\* Whatever was taken, deleted and reverted to, and whichever listing was
\* answered last, the tree on show is faithful to it.
TreeFaithful == Faithful(ui.snaps)

\* What the comment of buildOrder says of any listing ("Children (newer
\* snapshots) are emitted before their parent").  Not so if children are reported
\* for some snapshots only: those left out are drawn last, below their parents.
ChildrenAbove ==
  \A s \in DOMAIN ui.snaps :
    ui.snaps[s].parent \in DOMAIN ui.snaps =>
      LET order == Tree!BuildOrder(ui.snaps)
      IN At(order, s) < At(order, ui.snaps[s].parent)
============================================================================

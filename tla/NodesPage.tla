------------------------------ MODULE NodesPage ------------------------------
(***************************************************************************)
(* The nodes page: scheduling of one node or of several, tags, the editor  *)
(* of a node's disks, and the deletion of a node.  It is the page of a     *)
(* user who may change nodes; others see the table without its menus.      *)
(***************************************************************************)
EXTENDS Naturals, FiniteSets

CONSTANTS Nodes,
          Listings,  \* what the list of nodes may hold, of those keyed by name
          NewNames,  \* names typed for new disks; blank ones are not sent
          None,
          NewIds,    \* identifiers of the disks added during a visit (bound)
          MaxCalls,  \* requests that wait at once (bound)
          MaxLists,  \* lists that arrive during a visit (bound)
          Visits     \* what a visit is for (bound): "rows", "disks"

VARIABLES query, \* the list of nodes
          ui,    \* the dialogs and what was entered in them
          calls  \* handlers waiting for the answer to a request

nodesVars == <<query, ui, calls>>

Closed == [tagNode |-> None, diskNode |-> None, deleteNode |-> None, opened |-> {}, drafts |-> {}]

NodesInit ==
  /\ query \in [nodes : Listings, lists : {0}, isAdmin : BOOLEAN]
  /\ ui \in {[dialog |-> Closed, typed |-> "", added |-> {}, visit |-> v] : v \in Visits}
  /\ calls = {}

Show(dialog) ==
  /\ ui' = [ui EXCEPT !.dialog = dialog]
  /\ UNCHANGED <<query, calls>>

dialog == ui.dialog

Node(n) == query.nodes[n]

\* Dialogs cover the table.
TableFree ==
  dialog.tagNode = None /\ dialog.diskNode = None /\ dialog.deleteNode = None

Wait(c) == Cardinality(calls) < MaxCalls /\ calls' = calls \cup {c}

Send(c) == Wait(c) /\ UNCHANGED <<query, ui>>

Poll(nodes) ==
  /\ query.lists < MaxLists
  /\ query' = [query EXCEPT !.nodes = nodes, !.lists = @ + 1]
  /\ UNCHANGED <<ui, calls>>

---------------------------------------------------------------------------
(* Scheduling *)

\* useUpdateNode writes the list before the server has answered.
Patch(n, allow) == query' = [query EXCEPT !.nodes[n].allowScheduling = allow]

toggleScheduling(n) ==
  /\ ui.visit = "rows" /\ TableFree
  /\ Patch(n, ~Node(n).allowScheduling)
  /\ Wait([op |-> "schedule", node |-> n, allow |-> ~Node(n).allowScheduling])
  /\ UNCHANGED ui

\* The loop passes over nodes that were as wanted when it was started, and
\* waits for one answer before it asks for the next.
bulkSchedule(sel, allow) ==
  /\ ui.visit = "rows" /\ TableFree /\ sel # {}
  /\ Send([op |-> "bulk", left |-> {n \in sel : Node(n).allowScheduling # allow}, allow |-> allow,
           waiting |-> None])

BulkNext(c) ==
  /\ c.op = "bulk" /\ c.waiting = None
  /\ IF c.left = {}
       THEN calls' = calls \ {c} /\ UNCHANGED query
       ELSE \E n \in c.left :
              /\ Patch(n, c.allow)
              /\ calls' = (calls \ {c}) \cup {[c EXCEPT !.left = @ \ {n}, !.waiting = n]}
  /\ UNCHANGED ui

\* One refusal ends the loop.
BulkAnswered(c) ==
  /\ c.op = "bulk" /\ c.waiting # None
  /\ \/ calls' = (calls \ {c}) \cup {[c EXCEPT !.waiting = None]}
     \/ calls' = calls \ {c}
  /\ UNCHANGED <<query, ui>>

ScheduleAnswered(c) == c.op = "schedule" /\ calls' = calls \ {c} /\ UNCHANGED <<query, ui>>

---------------------------------------------------------------------------
(* Tags *)

OpenTags(n) ==
  /\ ui.visit = "rows" /\ TableFree
  /\ Show([Closed EXCEPT !.tagNode = n])

CloseTags == dialog.tagNode # None /\ Show([dialog EXCEPT !.tagNode = None])

\* Save may be pressed again before the first answer.
saveTags == dialog.tagNode # None /\ Send([op |-> "tags", node |-> dialog.tagNode])

\* The dialog that is open by then is closed, whichever node it is for.
TagsAnswered(c) ==
  /\ c.op = "tags"
  /\ \E accepted \in BOOLEAN :
       ui' = IF accepted THEN [ui EXCEPT !.dialog.tagNode = None] ELSE ui
  /\ calls' = calls \ {c}
  /\ UNCHANGED query

---------------------------------------------------------------------------
(* Disks *)

Existing(d) == [id |-> d, name |-> d, isNew |-> FALSE, removed |-> FALSE]

draftsFromNode(n) == {Existing(d) : d \in Node(n).disks}

openDiskEditor(n) ==
  /\ ui.visit = "disks" /\ TableFree
  /\ Show([Closed EXCEPT !.diskNode = n, !.opened = Node(n).disks, !.drafts = draftsFromNode(n)])

CloseDisks == dialog.diskNode # None /\ Show(Closed)

\* A disk saved without a name is called like a new row, and the identifiers of
\* new rows start over with the next visit: a new row may share its own with a
\* disk that is there.
Rows(id) == {d \in dialog.drafts : d.id = id}

\* Every row with the identifier is replaced.
updateDraft(id, patched) == Show([dialog EXCEPT !.drafts = (@ \ Rows(id)) \cup patched])

addDraft ==
  /\ dialog.diskNode # None
  /\ \E id \in NewIds \ ui.added :
       ui' = [ui EXCEPT !.added = @ \cup {id},
                !.dialog.drafts = @ \cup {[id |-> id, name |-> "", isNew |-> TRUE,
                                           removed |-> FALSE]}]
  /\ UNCHANGED <<query, calls>>

\* A new disk is forgotten, an existing one marked.
removeDraft(d) ==
  /\ ~d.removed
  /\ updateDraft(d.id, {[e EXCEPT !.removed = TRUE] : e \in {r \in Rows(d.id) : ~r.isNew}})

restoreDraft(d) ==
  /\ d.removed
  /\ updateDraft(d.id, {[e EXCEPT !.removed = FALSE] : e \in Rows(d.id)})

\* The name of a new disk; the other fields are sent as they are in the draft.
RenameDraft(d, name) ==
  /\ d.isNew /\ name # d.name
  /\ updateDraft(d.id, {[e EXCEPT !.name = name] : e \in Rows(d.id)})

\* A new disk without a name goes by its identifier.
Key(d) == IF d.name = "" THEN d.id ELSE d.name

\* Seeded fault: a disk marked for removal is sent like the others.
AllDisks(drafts) == {Key(d) : d \in drafts} \ {" "}

\* The keys of the map that is sent: leaving a disk out removes it, and of two
\* of one name the later is sent.  A blank name is not sent.
Disks(drafts) == {Key(d) : d \in {e \in drafts : ~e.removed}} \ {" "}

Marked(drafts) == {d.id : d \in {e \in drafts : e.removed}}

\* Disks that go by another name than when the editor was opened, and the names
\* that new and renamed ones are sent under.
Renamed(drafts) == {d.id : d \in {e \in drafts : ~e.isNew /\ e.name # e.id}}
Added(drafts) == {Key(d) : d \in {e \in drafts : ~e.removed /\ (e.isNew \/ e.name # e.id)}}

\* The last five fields are not sent: they say what the editor showed.
saveDisks ==
  /\ dialog.diskNode # None
  /\ Send([op |-> "disks", node |-> dialog.diskNode, disks |-> Disks(dialog.drafts),
           marked |-> Marked(dialog.drafts), opened |-> dialog.opened,
           renamed |-> Renamed(dialog.drafts), added |-> Added(dialog.drafts),
           handed |-> ui.added])

DisksAnswered(c) ==
  /\ c.op = "disks"
  /\ \E accepted \in BOOLEAN :
       ui' = IF accepted THEN [ui EXCEPT !.dialog.diskNode = None, !.dialog.opened = {}, !.dialog.drafts = {}] ELSE ui
  /\ calls' = calls \ {c}
  /\ UNCHANGED query

---------------------------------------------------------------------------
(* Deletion *)

OpenDelete(n) ==
  /\ ui.visit = "rows" /\ TableFree /\ query.isAdmin
  /\ Show([Closed EXCEPT !.deleteNode = n])

\* The dialog's own close clears what was typed; the Cancel button does not.
DismissDelete ==
  /\ dialog.deleteNode # None
  /\ \E typed \in {"", ui.typed} : ui' = [ui EXCEPT !.dialog = Closed, !.typed = typed]
  /\ UNCHANGED <<query, calls>>

TypeName(n) ==
  /\ dialog.deleteNode # None
  /\ ui' = [ui EXCEPT !.typed = n]
  /\ UNCHANGED <<query, calls>>

ConfirmDelete ==
  /\ dialog.deleteNode # None /\ ui.typed = dialog.deleteNode
  /\ Send([op |-> "delete", node |-> dialog.deleteNode])

\* Deleted or not, the dialog is closed and the list fetched again.
DeleteAnswered(c) ==
  /\ c.op = "delete"
  /\ ui' = [ui EXCEPT !.dialog.deleteNode = None]
  /\ calls' = calls \ {c}
  /\ UNCHANGED query

---------------------------------------------------------------------------
NodesNext ==
  \/ \E nodes \in Listings : Poll(nodes)
  \/ \E n \in Nodes : toggleScheduling(n)
  \/ \E sel \in SUBSET Nodes, allow \in BOOLEAN : bulkSchedule(sel, allow)
  \/ \E c \in calls : BulkNext(c)
  \/ \E c \in calls : BulkAnswered(c)
  \/ \E c \in calls : ScheduleAnswered(c)
  \/ \E n \in Nodes : OpenTags(n)
  \/ CloseTags
  \/ saveTags
  \/ \E c \in calls : TagsAnswered(c)
  \/ \E n \in Nodes : openDiskEditor(n)
  \/ CloseDisks
  \/ addDraft
  \/ \E d \in dialog.drafts : removeDraft(d)
  \/ \E d \in dialog.drafts : restoreDraft(d)
  \/ \E d \in dialog.drafts, name \in NewNames : RenameDraft(d, name)
  \/ saveDisks
  \/ \E c \in calls : DisksAnswered(c)
  \/ \E n \in Nodes : OpenDelete(n)
  \/ DismissDelete
  \/ \E n \in Nodes : TypeName(n)
  \/ ConfirmDelete
  \/ \E c \in calls : DeleteAnswered(c)

NodesSpec == NodesInit /\ [][NodesNext]_nodesVars

---------------------------------------------------------------------------
TypeOK ==
  /\ DOMAIN query.nodes = Nodes /\ \A n \in Nodes : Node(n).allowScheduling \in BOOLEAN
  /\ dialog.tagNode \in Nodes \cup {None} /\ dialog.diskNode \in Nodes \cup {None}
  /\ dialog.deleteNode \in Nodes \cup {None}
  /\ \A c \in calls : c.op \in {"schedule", "bulk", "tags", "disks", "delete"}

\* Saving removes the disks marked for removal and no other that was in the
\* editor: every other one is in the map that is sent, and a marked one only if
\* a disk of its name was added again, whatever was added, removed, restored
\* and renamed before.  The exception are disks that were renamed; their names
\* are not for editing, and only a new row of the same identifier does it.
RemovalExact ==
  \A c \in calls : c.op = "disks" =>
    /\ (c.opened \ c.disks) \ c.renamed = (c.marked \ c.added) \ c.renamed
    /\ c.renamed \subseteq c.opened \cap c.handed

\* What the button of a row suggests: a disk goes only if it was marked.  It does
\* not hold: a disk that was saved unnamed is called like the first new row of a
\* later visit, and is renamed with it.
RemovesMarkedOnly ==
  \A c \in calls : c.op = "disks" => c.opened \ c.disks \subseteq c.marked
============================================================================

----------------------------- MODULE VolumesPage -----------------------------
(***************************************************************************)
(* The volumes list: its filters and selection, the dialogs it opens       *)
(* (create, bulk action, one volume's action, delete) and the requests     *)
(* they send.  The rows are what the volumes query holds; a poll replaces  *)
(* them under open dialogs and running handlers.  A handler is a call that *)
(* keeps what its closure captured when the button was pressed, and ends   *)
(* when the manager answers.                                               *)
(***************************************************************************)
EXTENDS Naturals, FiniteSets

CONSTANTS Names,       \* volume names
          EngineOf,    \* [Names -> {"v1", "v2"}], each volume's data engine
          Hosts,       \* node names
          None,        \* no dialog, no filter, nothing entered
          BulkKeys,    \* BULK_ACTIONS and "attach" that the user may pick
          ActionKeys,  \* VOLUME_ACTION_DEFS the user may pick
          Tasks        \* the part of the page a visit uses (bounds the visit)

VARIABLES query,  \* what the page's queries hold: volumes, nodes, the v2 setting
          ui,     \* the page's and its dialogs' component state
          calls   \* handlers waiting for an answer

volumesVars == <<query, ui, calls>>

VolumeStates == {"attached", "detached"}

\* The actions map the manager puts on a volume.
Actions == [attached |-> {"detach", "snapshotCreate", "updateReplicaCount",
                          "updateDataLocality", "expand"},
            detached |-> {"attach", "salvage", "updateReplicaCount",
                          "updateSnapshotDataIntegrity", "engineUpgrade", "expand"}]

\* hasAction(v, key)
hasAction(state, key) == key \in Actions[state]

\* FRONTENDS_BY_ENGINE
Frontends == [v1 |-> {"blockdev", "iscsi", ""}, v2 |-> {"blockdev", "nvmf", "ublk", ""}]

EmptyForm == [name |-> FALSE, size |-> "valid", engine |-> "v1", frontend |-> "blockdev",
              source |-> None, volume |-> FALSE, snapshot |-> FALSE,
              advanced |-> FALSE]

---------------------------------------------------------------------------
(* What the page shows *)

v2Enabled == query.v2

\* The rows left by the structured filters; the engine filter counts only
\* while its control is shown.
Shown ==
  {n \in DOMAIN query.volumes :
     /\ ui.stateFilter \in {None, query.volumes[n]}
     /\ v2Enabled => ui.engineFilter \in {None, EngineOf[n]}}

\* The options of the state filter: the states some row is in.
stateOptions == {query.volumes[n] : n \in DOMAIN query.volumes}

\* selectedVols: the text search of the table does not narrow it.
selectedVols == ui.selected \cap Shown

\* The entries of a row's menu.
RowMenu(n) == {key \in ActionKeys : hasAction(query.volumes[n], key)}

\* What the bulk dialog shows before anything is entered, and what is sent then.
BulkShown(key) ==
  CASE key = "updateDataLocality" -> "disabled"
    [] key = "updateSnapshotDataIntegrity" -> "ignored"
    [] OTHER -> None
BulkDefault(key) ==
  CASE key = "updateReplicaCount" -> "3"
    [] key = "updateDataLocality" -> "disabled"
    [] key = "updateSnapshotDataIntegrity" -> "enabled"
    [] OTHER -> None

\* The parameters runBulk sends for one volume.
BulkParams(key, value, host, hosts) ==
  IF key = "attach"
    THEN IF host # None \/ hosts = {} THEN host ELSE CHOOSE h \in hosts : TRUE
    ELSE IF value # None THEN value ELSE BulkDefault(key)

\* The parameters the action dialog sends: which of its fields depends on the
\* action, and none of them is cleared between two actions.
ActionParams(key, form) ==
  CASE key = "attach"  -> [host |-> form.host]
    [] key = "salvage" -> [names |-> form.replicas]
    [] key \in {"updateReplicaCount", "updateDataLocality", "engineUpgrade"} ->
         [value |-> form.value]
    [] OTHER -> [none |-> None]

\* The body onCreate sends: the optional fields only when they were set, a
\* data source only when it is complete.
CreateBody(f) ==
  [engine |-> f.engine, frontend |-> f.frontend, advanced |-> f.advanced,
   source |-> IF f.source = "volume" /\ f.volume THEN "volume"
              ELSE IF f.source = "snapshot" /\ f.volume /\ f.snapshot THEN "snapshot"
              ELSE None]

---------------------------------------------------------------------------
VolumesInit ==
  /\ \E task \in Tasks :
     /\ query \in [volumes : [IF task = "create" THEN {} ELSE Names -> VolumeStates],
                    hosts : {{}, Hosts}, v2 : {FALSE}]
     /\ ui = [task |-> task, stateFilter |-> None, engineFilter |-> None, selected |-> {},
              createOpen |-> FALSE, form |-> EmptyForm, formError |-> FALSE,
              bulkKey |-> None, bulkValue |-> None, bulkHost |-> None,
              action |-> None, actionVol |-> None,
              entry |-> [value |-> None, host |-> None, replicas |-> {}],
              target |-> None, typed |-> None, typedNow |-> FALSE, error |-> FALSE]
  /\ calls = {}

\* A poll, a refetch or a realtime invalidation brings other rows, the node
\* list or another value of the v2-data-engine setting: of these a visit sees
\* the ones its task looks at.
Poll ==
  /\ \/ /\ ui.task # "create"
        /\ \E n \in DOMAIN query.volumes, state \in VolumeStates :
             query' = [query EXCEPT !.volumes[n] = state]
     \/ \E n \in DOMAIN query.volumes :
          /\ ui.task \in {"bulk", "delete"}
          /\ query' = [query EXCEPT !.volumes =
                      [m \in DOMAIN query.volumes \ {n} |-> query.volumes[m]]]
     \/ /\ ui.task = "action"
        /\ query' = [query EXCEPT !.hosts = Hosts]
     \/ /\ ui.task \in {"filter", "create"}
        /\ query' = [query EXCEPT !.v2 = ~query.v2]
  /\ UNCHANGED <<ui, calls>>

Show(next) == ui' = next /\ UNCHANGED <<query, calls>>

\* The filters above the table and their Clear button.
SetFilter ==
  /\ ui.task \in {"bulk", "filter"}
  /\ \/ \E s \in stateOptions \cup {None} : Show([ui EXCEPT !.stateFilter = s])
     \/ /\ v2Enabled /\ ui.task = "filter"
        /\ \E e \in {"v1", "v2", None} : Show([ui EXCEPT !.engineFilter = e])
     \/ Show([ui EXCEPT !.stateFilter = None, !.engineFilter = None])

SelectRow(n) ==
  /\ ui.task \in {"bulk", "filter"} /\ ui.bulkKey = None
  /\ n \in Shown
  /\ Show([ui EXCEPT !.selected = IF n \in ui.selected THEN ui.selected \ {n}
                                                      ELSE ui.selected \cup {n}])

---------------------------------------------------------------------------
(* The create dialog *)

OpenCreate ==
  /\ ui.task = "create" /\ ~ui.createOpen
  /\ Show([ui EXCEPT !.createOpen = TRUE])

\* Cancel, Escape and the overlay close it, even while it waits: the form stays.
CloseCreate ==
  /\ ui.createOpen
  /\ Show([ui EXCEPT !.createOpen = FALSE])

\* Seeded fault: the frontend stays.
EngineAlone(engine) ==
  /\ ui.createOpen /\ v2Enabled
  /\ Show([ui EXCEPT !.form.engine = engine])

\* The engine can be chosen only while the cluster offers v2; a frontend the
\* new engine has not is reset.
SetEngine(engine) ==
  /\ ui.createOpen /\ v2Enabled
  /\ Show([ui EXCEPT !.form.engine = engine,
                     !.form.frontend = IF ui.form.frontend \in Frontends[engine]
                                       THEN ui.form.frontend ELSE "blockdev"])

SetFrontend(frontend) ==
  /\ ui.createOpen
  /\ frontend \in Frontends[ui.form.engine]
  /\ Show([ui EXCEPT !.form.frontend = frontend])

\* The other fields: the data source's two fields are cleared by another type
\* of source, and asked for only by the types that need them.
SetSource(source) ==
  /\ ui.createOpen
  /\ Show([ui EXCEPT !.form.source = source, !.form.volume = FALSE,
                     !.form.snapshot = FALSE])

EditForm ==
  /\ ui.createOpen
  /\ \/ Show([ui EXCEPT !.form.name = ~ui.form.name])
     \/ \E s \in {"valid", "invalid"} : Show([ui EXCEPT !.form.size = s])
     \/ /\ ui.form.source # None
        /\ Show([ui EXCEPT !.form.volume = ~ui.form.volume])
     \/ /\ ui.form.source = "snapshot"
        /\ Show([ui EXCEPT !.form.snapshot = ~ui.form.snapshot])

\* The backup to restore and the options shown under "advanced", together: those
\* left at their neutral value are not sent, those set stay set when hidden.
EditAdvanced ==
  /\ ui.createOpen
  /\ Show([ui EXCEPT !.form.advanced = ~ui.form.advanced])

\* resetCreateForm: the size, the replicas, the access mode and the data
\* locality keep their values.
resetCreateForm(form) == [EmptyForm EXCEPT !.size = form.size]

\* onCreate: a size that does not parse ends it before anything is sent.  The
\* button is disabled without a name and while a creation is pending.
Create ==
  /\ ui.createOpen /\ ui.form.name
  /\ ~\E c \in calls : c.op = "create"
  /\ \/ /\ ui.form.size = "invalid"
        /\ Show([ui EXCEPT !.formError = TRUE])
     \/ /\ ui.form.size = "valid"
        /\ ui' = [ui EXCEPT !.formError = FALSE]
        /\ calls' = calls \cup {[op |-> "create", body |-> CreateBody(ui.form)]}
        /\ UNCHANGED query

\* The answer closes the dialog and clears the form it finds, on failure it
\* shows the error.
CreateAnswered(c) ==
  /\ c.op = "create"
  /\ \/ ui' = [ui EXCEPT !.createOpen = FALSE, !.form = resetCreateForm(ui.form)]
     \/ ui' = [ui EXCEPT !.formError = TRUE]
  /\ calls' = calls \ {c}
  /\ UNCHANGED query

---------------------------------------------------------------------------
(* The bulk dialog *)

OpenBulk(key) ==
  /\ ui.task = "bulk" /\ ui.bulkKey = None
  /\ selectedVols # {}
  /\ \E h \in IF query.hosts = {} THEN {None} ELSE query.hosts :
       Show([ui EXCEPT !.bulkKey = key, !.bulkValue = None, !.bulkHost = h])

EnterBulk(value) ==
  /\ ui.bulkKey \notin {None, "attach", "detach", "delete", "snapshotCreate"}
  /\ Show([ui EXCEPT !.bulkValue = value])

CloseBulk ==
  /\ ui.bulkKey # None
  /\ Show([ui EXCEPT !.bulkKey = None])

\* runBulk captures the key, the value and the selected rows as they are shown.
RunBulk ==
  /\ ui.bulkKey # None
  /\ ~\E c \in calls : c.op = "bulk"
  /\ calls' = calls \cup
       {[op |-> "bulk", key |-> ui.bulkKey,
         params |-> BulkParams(ui.bulkKey, ui.bulkValue, ui.bulkHost, query.hosts),
         rows |-> [n \in selectedVols |-> query.volumes[n]],
         left |-> selectedVols, ok |-> {}, skipped |-> {}, failed |-> {}]}
  /\ ui' = [ui EXCEPT !.error = FALSE]
  /\ UNCHANGED query

\* Seeded fault: a volume that failed is counted with those that are done, and
\* not as failed; one that was skipped is not counted.
CountsDoneAlone(c, n) ==
  /\ c.op = "bulk" /\ n \in c.left
  /\ LET skip == c.key \notin {"delete", "attach"} /\ ~hasAction(c.rows[n], c.key)
     IN calls' = (calls \ {c}) \cup
          {[c EXCEPT !.left = @ \ {n}, !.ok = IF skip THEN @ ELSE @ \cup {n}]}
  /\ UNCHANGED <<query, ui>>

\* The volume the loop is at: a volume without the action is skipped, except
\* for attach; the others are sent, and a failure is only recorded.
BulkItem(c, n) ==
  /\ c.op = "bulk" /\ n \in c.left
  /\ LET skip == c.key \notin {"delete", "attach"} /\ ~hasAction(c.rows[n], c.key)
         rest == [c EXCEPT !.left = @ \ {n}]
     IN \/ /\ skip
           /\ calls' = (calls \ {c}) \cup {[rest EXCEPT !.skipped = @ \cup {n}]}
        \/ /\ ~skip
           /\ calls' \in {(calls \ {c}) \cup {[rest EXCEPT !.ok = @ \cup {n}]},
                          (calls \ {c}) \cup {[rest EXCEPT !.failed = @ \cup {n}]}}
  /\ UNCHANGED <<query, ui>>

\* The end of the loop clears the selection and closes the bulk dialog it
\* finds, whoever opened it; the three counts go into one message.
BulkEnds(c) ==
  /\ c.op = "bulk" /\ c.left = {}
  /\ calls' = calls \ {c}
  /\ ui' = [ui EXCEPT !.selected = {}, !.bulkKey = None]
  /\ UNCHANGED query

---------------------------------------------------------------------------
(* One volume's action: the page's part and ActionFormDialog *)

OpenAction(n, key) ==
  /\ ui.task = "action" /\ ui.action = None
  /\ n \in Shown /\ key \in RowMenu(n)
  /\ Show([ui EXCEPT !.action = key, !.actionVol = n])

CloseAction ==
  /\ ui.action # None
  /\ Show([ui EXCEPT !.action = None, !.actionVol = None])

\* What ActionFormDialog's fields hold.  It stays mounted without a def, so its
\* state outlives a closed dialog; the replicas offered are those of the volume.
EnterAction ==
  /\ ui.action # None
  /\ \/ /\ ui.action = "attach"
        /\ \E h \in query.hosts : Show([ui EXCEPT !.entry.host = h])
     \/ /\ ui.action = "salvage"
        /\ Show([ui EXCEPT !.entry.replicas = ui.entry.replicas \cup {ui.actionVol}])
     \/ /\ ui.action \in {"updateReplicaCount", "updateDataLocality", "engineUpgrade"}
        /\ Show([ui EXCEPT !.entry.value = ui.action])

SubmitAction ==
  /\ ui.action # None
  /\ ~\E c \in calls : c.op = "action"
  /\ LET request == [op |-> ui.action, vol |-> ui.actionVol,
                     params |-> ActionParams(ui.action, ui.entry)]
     IN calls' = calls \cup {[op |-> "action", request |-> request]}
  /\ ui' = [ui EXCEPT !.error = FALSE]
  /\ UNCHANGED query

\* onSubmit swallows a failure, so the dialog closes either way: whichever
\* action it shows by then.
ActionAnswered(c) ==
  /\ c.op = "action"
  /\ \E failed \in BOOLEAN :
       ui' = [ui EXCEPT !.error = failed, !.action = None, !.actionVol = None]
  /\ calls' = calls \ {c}
  /\ UNCHANGED query

---------------------------------------------------------------------------
(* Deleting one volume: the page's part and ConfirmDialog *)

OpenDelete(n) ==
  /\ ui.task = "delete" /\ ui.target = None
  /\ n \in Shown
  /\ Show([ui EXCEPT !.target = n, !.typedNow = FALSE])

TypeName(text) ==
  /\ ui.target # None
  /\ Show([ui EXCEPT !.typed = text, !.typedNow = TRUE])

\* The overlay and the close button of the dialog clear what was typed; its
\* Cancel button, disabled while the deletion is pending, goes to the page.
DismissDelete ==
  /\ ui.target # None
  /\ \/ Show([ui EXCEPT !.target = None, !.typed = None])
     \/ /\ ~\E c \in calls : c.op = "delete"
        /\ Show([ui EXCEPT !.target = None])

canConfirm == ui.typed = ui.target

ConfirmDelete ==
  /\ ui.target # None /\ canConfirm
  /\ ~\E c \in calls : c.op = "delete"
  /\ calls' = calls \cup {[op |-> "delete", vol |-> ui.target]}
  /\ UNCHANGED <<query, ui>>

\* Success or failure, the dialog open by then is closed, without clearing
\* what was typed in it.
DeleteAnswered(c) ==
  /\ c.op = "delete"
  /\ calls' = calls \ {c}
  /\ ui' = [ui EXCEPT !.target = None]
  /\ UNCHANGED query

---------------------------------------------------------------------------
VolumesNext ==
  \/ Poll
  \/ SetFilter
  \/ \E n \in Names : SelectRow(n)
  \/ OpenCreate
  \/ CloseCreate
  \/ \E engine \in {"v1", "v2"} : SetEngine(engine)
  \/ \E frontend \in Frontends.v1 \cup Frontends.v2 : SetFrontend(frontend)
  \/ \E source \in {"volume", "snapshot", None} : SetSource(source)
  \/ EditForm
  \/ EditAdvanced
  \/ Create
  \/ \E key \in BulkKeys : OpenBulk(key)
  \/ \E value \in {"entered", None} : EnterBulk(value)
  \/ CloseBulk
  \/ RunBulk
  \/ \E n \in Names, key \in ActionKeys : OpenAction(n, key)
  \/ CloseAction
  \/ EnterAction
  \/ SubmitAction
  \/ \E n \in Names : OpenDelete(n)
  \/ \E text \in Names \cup {None} : TypeName(text)
  \/ DismissDelete
  \/ ConfirmDelete
  \/ \E c \in calls : CreateAnswered(c)
  \/ \E c \in calls, n \in Names : BulkItem(c, n)
  \/ \E c \in calls : BulkEnds(c)
  \/ \E c \in calls : ActionAnswered(c)
  \/ \E c \in calls : DeleteAnswered(c)

VolumesSpec == VolumesInit /\ [][VolumesNext]_volumesVars

---------------------------------------------------------------------------
TypeOK ==
  /\ DOMAIN query.volumes \subseteq Names /\ query.hosts \subseteq Hosts
  /\ ui.selected \subseteq Names
  /\ ui.action \in ActionKeys \cup {None} /\ ui.target \in Names \cup {None}
  /\ ui.bulkKey \in BulkKeys \cup {None}
  /\ \A c \in calls : c.op \in {"create", "bulk", "action", "delete"}

\* No creation names a frontend its engine has not ("so no incompatible
\* engine/frontend combo can be submitted"), whatever was switched, kept in a
\* closed form or reset by an earlier answer, and whichever way the setting went.
FrontendFitsEngine ==
  \A c \in calls : c.op = "create" => c.body.frontend \in Frontends[c.body.engine]

\* A bulk run accounts for every volume that was selected when it was started,
\* each as exactly one of done, skipped and failed: one failure does not stop
\* the rest, whatever is polled, closed or selected meanwhile.
BulkRunAccounted ==
  \A c \in calls : c.op = "bulk" =>
    /\ DOMAIN c.rows = c.left \cup c.ok \cup c.skipped \cup c.failed
    /\ Cardinality(DOMAIN c.rows) = Cardinality(c.left) + Cardinality(c.ok)
                                    + Cardinality(c.skipped) + Cardinality(c.failed)

\* A volume is deleted from its row only when its name was typed while the
\* dialog was open for it ("user must type this exact string to enable
\* confirm").  It does not hold: the typed name outlives the Cancel button and
\* an answer, and confirms the next opening for the same volume.
DeletionTyped ==
  [][\A c \in calls' \ calls : c.op = "delete" => ui.typedNow]_volumesVars
============================================================================

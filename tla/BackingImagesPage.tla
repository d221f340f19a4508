-------------------------- MODULE BackingImagesPage --------------------------
(***************************************************************************)
(* The page of backing images and of their backups: creating an image from *)
(* a file or an URL, backing one up, restoring one, how many copies of it  *)
(* are kept, deleting.  It is the page of a user who may change them.      *)
(***************************************************************************)
EXTENDS Naturals, FiniteSets

CONSTANTS Names,
          Lists,    \* the lists of images that may arrive: [ready, copies] by name
          Backups,  \* the lists of backups that may arrive: by name, whether it is completed
          None,
          MaxCalls, \* handlers that wait at once (bound)
          Visits    \* what a visit is for (bound): "create", "copies", "restore", "delete"

VARIABLES query, \* the lists of images and of backups
          ui,    \* the dialogs, what was entered in them
          calls  \* handlers waiting for the answer to a request

imagesVars == <<query, ui, calls>>

Sources == {"download", "upload", "clone-from-volume"}

Engines == {"v1", "v2"}

\* chosen is the state of the file input: shown by it until it is unmounted,
\* kept beyond.  bulkRows are the rows that were ticked when the dialog opened.
ImagesInit ==
  /\ query \in [images : Lists, backups : Backups]
  /\ ui \in {[visit |-> v, open |-> FALSE, named |-> FALSE, sourceType |-> "download", file |-> FALSE,
              uploading |-> FALSE, minCopiesTarget |-> None, minCopies |-> 1, restoreTarget |-> None,
              restoreEngine |-> "v1", target |-> [op |-> None, img |-> None], typed |-> None,
              bulkRows |-> {}, bulkDeleteOpen |-> FALSE] : v \in Visits}
  /\ calls = {}

Show(next) == ui' = next /\ UNCHANGED <<query, calls>>

Send(c) == Cardinality(calls) < MaxCalls /\ calls' = calls \cup {c} /\ UNCHANGED <<query, ui>>

Answered(c, next) == ui' = next /\ calls' = calls \ {c} /\ UNCHANGED query

Waits(op) == \E c \in calls : c.op = op

Listed == DOMAIN query.images

hasReadyDisk(n) == query.images[n].ready

\* Dialogs cover the tables.
TablesFree ==
  /\ ~ui.open /\ ~ui.bulkDeleteOpen /\ ui.target.op = None
  /\ ui.minCopiesTarget = None /\ ui.restoreTarget = None

Poll(images, backups) == query' = [images |-> images, backups |-> backups] /\ UNCHANGED <<ui, calls>>

---------------------------------------------------------------------------
(* Creating *)

OpenCreate == ui.visit = "create" /\ TablesFree /\ Show([ui EXCEPT !.open = TRUE])

\* What was entered stays, the file too.
CloseCreate == ui.open /\ Show([ui EXCEPT !.open = FALSE])

EnterCreate ==
  /\ ui.open
  /\ \/ \E named \in BOOLEAN : Show([ui EXCEPT !.named = named])
     \/ \E s \in Sources : Show([ui EXCEPT !.sourceType = s])
     \/ \E file \in BOOLEAN : ui.sourceType = "upload" /\ Show([ui EXCEPT !.file = file])

\* Without a file an upload is only announced.  Only an upload disables the button.
createOrUpload ==
  /\ ui.open /\ ui.named /\ ~ui.uploading /\ Cardinality(calls) < MaxCalls
  /\ \E k \in 1..MaxCalls :
       LET upload == ui.sourceType = "upload" /\ ui.file
       IN  /\ \A c \in calls : c.nth # k
           /\ calls' = calls \cup {[op |-> IF upload THEN "announce" ELSE "create", nth |-> k]}
           /\ ui' = [ui EXCEPT !.uploading = @ \/ upload]
  /\ UNCHANGED query

\* The image exists by now: its data is streamed to it.
Announced(c) ==
  /\ c.op = "announce"
  /\ calls' = (calls \ {c}) \cup {[c EXCEPT !.op = "stream"]}
  /\ UNCHANGED <<query, ui>>

\* Seeded fault: an upload that cannot be announced keeps the button disabled.
ReleasedAtTheEnd(c) ==
  \/ c.op \in {"create", "stream"} /\ Answered(c, [ui EXCEPT !.open = FALSE, !.uploading = FALSE])
  \/ c.op = "stream" /\ Answered(c, [ui EXCEPT !.uploading = FALSE])
  \/ c.op \in {"create", "announce"} /\ Answered(c, ui)

\* Closed when it succeeded.  One that failed leaves the dialog, and an image
\* without data if that was announced.  Either lets the next upload start.
CreateAnswered(c) ==
  \/ /\ c.op \in {"create", "stream"}
     /\ Answered(c, [ui EXCEPT !.open = FALSE, !.uploading = FALSE])
  \/ /\ c.op \in {"create", "announce", "stream"}
     /\ Answered(c, [ui EXCEPT !.uploading = FALSE])

---------------------------------------------------------------------------
(* The number of copies, and restoring a backup *)

OpenMinCopies(n) ==
  /\ ui.visit = "copies" /\ TablesFree /\ n \in Listed /\ hasReadyDisk(n)
  /\ Show([ui EXCEPT !.minCopiesTarget = n, !.minCopies = query.images[n].copies])

EnterCopies(k) == ui.minCopiesTarget # None /\ Show([ui EXCEPT !.minCopies = k])

CloseMinCopies == ui.minCopiesTarget # None /\ Show([ui EXCEPT !.minCopiesTarget = None])

SaveMinCopies ==
  /\ ui.minCopiesTarget # None /\ ~Waits("copies")
  /\ Send([op |-> "copies", img |-> ui.minCopiesTarget, copies |-> ui.minCopies])

\* The dialog that is open by then is closed; a failure leaves it.
CopiesAnswered(c) ==
  /\ c.op = "copies"
  /\ Answered(c, [ui EXCEPT !.minCopiesTarget = None]) \/ Answered(c, ui)

OpenRestore(n) ==
  /\ ui.visit = "restore" /\ TablesFree /\ n \in DOMAIN query.backups /\ query.backups[n]
  /\ Show([ui EXCEPT !.restoreTarget = n, !.restoreEngine = "v1"])

EnterEngine(engine) == ui.restoreTarget # None /\ Show([ui EXCEPT !.restoreEngine = engine])

CloseRestore == ui.restoreTarget # None /\ Show([ui EXCEPT !.restoreTarget = None])

Restore ==
  /\ ui.restoreTarget # None /\ ~Waits("restore")
  /\ Send([op |-> "restore", img |-> ui.restoreTarget, engine |-> ui.restoreEngine])

RestoreAnswered(c) ==
  /\ c.op = "restore"
  /\ Answered(c, [ui EXCEPT !.restoreTarget = None]) \/ Answered(c, ui)

---------------------------------------------------------------------------
(* Backing up and deleting, confirmed by the name *)

\* A dialog of its own for each of the three.
OpenBackup(n) ==
  /\ ui.visit = "copies" /\ TablesFree /\ n \in Listed /\ hasReadyDisk(n)
  /\ Show([ui EXCEPT !.target = [op |-> "backup", img |-> n]])

OpenDelete(n) ==
  /\ ui.visit = "delete" /\ TablesFree /\ n \in Listed
  /\ Show([ui EXCEPT !.target = [op |-> "delete", img |-> n]])

OpenDeleteBackup(n) ==
  /\ ui.visit = "restore" /\ TablesFree /\ n \in DOMAIN query.backups
  /\ Show([ui EXCEPT !.target = [op |-> "deleteBackup", img |-> n]])

NoTarget == [op |-> None, img |-> None]

Pending(op) == \E c \in calls : c.op = op \/ (op = "delete" /\ c.op = "bulkDelete")

\* The dialog's own close clears what was typed, Cancel does not.
DismissConfirm ==
  /\ ui.target.op # None
  /\ \/ Show([ui EXCEPT !.target = NoTarget, !.typed = None])
     \/ ~Pending(ui.target.op) /\ Show([ui EXCEPT !.target = NoTarget])

TypeName(n) == ui.target.op # None /\ Show([ui EXCEPT !.typed = n])

Confirm ==
  /\ ui.target.op # None /\ ui.typed = ui.target.img /\ ~Pending(ui.target.op)
  /\ Send(ui.target)

\* A backup that was refused leaves its dialog, a deletion does not; an answer
\* closes what is open of its kind by then.
Closed(op) == IF ui.target.op = op THEN [ui EXCEPT !.target = NoTarget] ELSE ui

ConfirmAnswered(c) ==
  /\ c.op \in {"backup", "delete", "deleteBackup"}
  /\ Answered(c, Closed(c.op)) \/ (c.op = "backup" /\ Answered(c, ui))

OpenBulkDelete(sel) ==
  /\ ui.visit = "delete" /\ TablesFree /\ sel # {} /\ sel \subseteq Listed
  /\ Show([ui EXCEPT !.bulkRows = sel, !.bulkDeleteOpen = TRUE])

CloseBulkDelete ==
  /\ ui.bulkDeleteOpen
  /\ Show([ui EXCEPT !.bulkDeleteOpen = FALSE])

\* The rows of the opening, those deleted since too.
ConfirmBulkDelete ==
  /\ ui.bulkDeleteOpen /\ ~Pending("delete")
  /\ Send([op |-> "bulkDelete", left |-> ui.bulkRows])

\* A refusal is counted and the next one is tried.
BulkItem(c) ==
  /\ c.op = "bulkDelete"
  /\ \E n \in c.left : calls' = (calls \ {c}) \cup {[c EXCEPT !.left = @ \ {n}]}
  /\ UNCHANGED <<query, ui>>

\* Whatever rows a dialog opened since was for are forgotten with them.
BulkDeleteEnds(c) ==
  /\ c.op = "bulkDelete" /\ c.left = {}
  /\ Answered(c, [ui EXCEPT !.bulkDeleteOpen = FALSE, !.bulkRows = {}])

---------------------------------------------------------------------------
ImagesNext ==
  \/ \E images \in Lists, backups \in Backups : Poll(images, backups)
  \/ OpenCreate
  \/ CloseCreate
  \/ EnterCreate
  \/ createOrUpload
  \/ \E c \in calls : Announced(c)
  \/ \E c \in calls : CreateAnswered(c)
  \/ \E n \in Names : OpenMinCopies(n)
  \/ \E k \in {1, 2} : EnterCopies(k)
  \/ CloseMinCopies
  \/ SaveMinCopies
  \/ \E c \in calls : CopiesAnswered(c)
  \/ \E n \in Names : OpenRestore(n)
  \/ \E engine \in Engines : EnterEngine(engine)
  \/ CloseRestore
  \/ Restore
  \/ \E c \in calls : RestoreAnswered(c)
  \/ \E n \in Names : OpenBackup(n)
  \/ \E n \in Names : OpenDelete(n)
  \/ \E n \in Names : OpenDeleteBackup(n)
  \/ DismissConfirm
  \/ \E n \in Names : TypeName(n)
  \/ Confirm
  \/ \E c \in calls : ConfirmAnswered(c)
  \/ \E sel \in SUBSET Names : OpenBulkDelete(sel)
  \/ CloseBulkDelete
  \/ ConfirmBulkDelete
  \/ \E c \in calls : BulkItem(c)
  \/ \E c \in calls : BulkDeleteEnds(c)

ImagesSpec == ImagesInit /\ [][ImagesNext]_imagesVars

---------------------------------------------------------------------------
TypeOK ==
  /\ query \in [images : Lists, backups : Backups]
  /\ {ui.minCopiesTarget, ui.restoreTarget, ui.target.img, ui.typed} \subseteq Names \cup {None}
  /\ ui.sourceType \in Sources /\ ui.restoreEngine \in Engines
  /\ ui.bulkRows \subseteq Names

\* The button that creates an image is disabled for an upload, and released
\* when no upload is under way any more, whichever of its two requests failed.
ButtonReleased == ui.uploading => Waits("announce") \/ Waits("stream")

\* While the data of an image is streamed no other image is announced.  (It is
\* not so: the answer to a download created before releases the button.)
OneUpload == Cardinality({c \in calls : c.op \in {"announce", "stream"}}) <= 1

=============================================================================

--------------------------- MODULE BenchmarksPage ---------------------------
(***************************************************************************)
(* The page of benchmark runs: starting one, its pages of runs, the        *)
(* details of one, deleting; the runs of the server, and the frames that   *)
(* bring each of their changes into the query cache.                       *)
(***************************************************************************)
EXTENDS Naturals, Sequences, SequencesExt, FiniteSets

CONSTANTS NamesOf,   \* what a visit is for (bound), and the names of the benchmark runs it meets:
                     \* a function of "run", "pages", "details", "delete"
          Classes,   \* storage classes; the server lists some of them
          Default,   \* the default one
          Limit,     \* rows of a page
          MaxFrames, \* frames on their way (bound)
          None

VARIABLES query, \* the server's runs, the frames on their way, the query cache
          ui,    \* the form, the dialog, the page of runs, the expanded row
          calls  \* requests under way

benchmarksVars == <<query, ui, calls>>

\* A visit to the list of two runs (bound).
PagesVisit == [v \in {"pages"} |-> {"b1", "b2"}]

Names == UNION {NamesOf[v] : v \in DOMAIN NamesOf}

\* That a run is under way, and how it ended, is left out.
Phases == {"Pending", "Ended"}

\* Keys of the query cache that begin with "benchmarks": a page of runs, the
\* details of a run, and the entry that frames write under the name of a run.
\* Of the data of the last two it is only told whether there is any.
List(cursor) == [kind |-> "list", cursor |-> cursor, name |-> None]
Detail(n) == [kind |-> "detail", cursor |-> 0, name |-> n]
Entry(n) == [kind |-> "entry", cursor |-> 0, name |-> n]

\* The data of the last two.
Told == [told |-> TRUE]

Cursors == 0..Cardinality(Names)

---------------------------------------------------------------------------
(* The server: runs, the newest first *)

Row(n, phase) == [name |-> n, phase |-> phase]

Upto(rows, k) == SubSeq(rows, 1, IF k < Len(rows) THEN k ELSE Len(rows))

Page(runs, cursor) ==
  [rows |-> SubSeq(Upto(runs, cursor + Limit), cursor + 1, Len(Upto(runs, cursor + Limit))), total |-> Len(runs),
   continue |-> IF Len(runs) > cursor + Limit THEN cursor + Limit ELSE 0]

Publish(frame) == Append(query.frames, frame)

Named(runs) == {runs[i].name : i \in DOMAIN runs}

Position(rows, n) == IF n \in Named(rows) THEN CHOOSE i \in DOMAIN rows : rows[i].name = n ELSE 0

\* Every change of a run is published with the run.  A name is used once.
Created(n) ==
  /\ n \in NamesOf[ui.visit] \ query.named /\ Len(query.frames) < MaxFrames
  /\ query' = [query EXCEPT !.named = @ \cup {n}, !.runs = <<Row(n, "Pending")>> \o @,
                            !.frames = Publish([deleted |-> FALSE, run |-> Row(n, "Pending")])]

Becomes(i, phase) ==
  /\ Len(query.frames) < MaxFrames
  /\ query' = [query EXCEPT !.runs[i].phase = phase,
                            !.frames = Publish([deleted |-> FALSE, run |-> Row(query.runs[i].name, phase)])]

Deleted(n) ==
  /\ Len(query.frames) < MaxFrames
  /\ query' = [query EXCEPT !.runs = RemoveAt(@, Position(@, n)),
                            !.frames = Publish([deleted |-> TRUE, run |-> Row(n, "Pending")])]

\* A run created by somebody else; the runner of a run; a run deleted by somebody else.
OtherCreates(n) == ui.visit # "run" /\ Created(n) /\ UNCHANGED <<ui, calls>>

Runs(i) ==
  /\ ui.visit # "run"
  /\ query.runs[i].phase = "Pending" /\ Becomes(i, "Ended")
  /\ UNCHANGED <<ui, calls>>

OtherDeletes(n) == ui.visit # "run" /\ n \in Named(query.runs) /\ Deleted(n) /\ UNCHANGED <<ui, calls>>

---------------------------------------------------------------------------
(* The query cache: a sequence, in the order its keys were added *)

Has(cache, key) == \E i \in DOMAIN cache : cache[i].key = key

Added(cache, key) == IF Has(cache, key) THEN cache ELSE Append(cache, [key |-> key, data |-> None])

Put(cache, key, data) ==
  [i \in DOMAIN Added(cache, key) |->
     IF Added(cache, key)[i].key = key THEN [key |-> key, data |-> data] ELSE Added(cache, key)[i]]

\* Where a key is that the cache has.
Found(cache, key) == CHOOSE i \in DOMAIN cache : cache[i].key = key

Dropped(cache, key) == IF Has(cache, key) THEN RemoveAt(cache, Found(cache, key)) ELSE cache

DataOf(key) == IF Has(query.cache, key) THEN query.cache[Found(query.cache, key)].data ELSE None

\* The keys of what is on show.
Observed(s) ==
  IF ~s.open THEN {} ELSE {List(s.cursor)} \cup IF s.expanded = None THEN {} ELSE {Detail(s.expanded)}

Fetch(key) == [op |-> "fetch", key |-> key, read |-> FALSE, data |-> None]

Fetches == {c \in calls : c.op = "fetch"}

\* What is on show is asked for: from the start when it was invalidated.
Refetched(s) == (calls \ Fetches) \cup {Fetch(key) : key \in Observed(s)}

Asked(s) ==
  calls \cup {Fetch(key) : key \in {k \in Observed(s) : \A c \in Fetches : c.key # k}}

\* The page of runs is asked for before the details of one of its rows.
Beheld(cache, s) ==
  IF ~s.open THEN cache
  ELSE IF s.expanded = None THEN Added(cache, List(s.cursor))
  ELSE Added(Added(cache, List(s.cursor)), Detail(s.expanded))

\* A page that was not there before is added with its request under way; one
\* that is no longer on show has its request aborted.
Shown(s) ==
  /\ ui' = s
  /\ query' = [query EXCEPT !.cache = Beheld(@, s)]
  /\ calls' = {c \in Asked(s) : c.op = "fetch" => c.key \in Observed(s)}

Poll == ui.open /\ calls' = Asked(ui) /\ calls' # calls /\ UNCHANGED <<query, ui>>

ServerReads(c) ==
  /\ c.op = "fetch" /\ ~c.read
  /\ LET data == IF c.key.kind = "list" THEN Page(query.runs, c.key.cursor)
                 ELSE IF c.key.name \in Named(query.runs) THEN Told ELSE None
     IN  calls' = (calls \ {c}) \cup {[c EXCEPT !.read = TRUE, !.data = data]}
  /\ UNCHANGED <<query, ui>>

\* Details that are gone are an error: the last ones stay.
FetchAnswered(c) ==
  /\ c.op = "fetch" /\ c.read
  /\ calls' = calls \ {c}
  /\ query' = IF c.data = None THEN query ELSE [query EXCEPT !.cache = Put(@, c.key, c.data)]
  /\ UNCHANGED ui

\* Five minutes without being on show (bound: those after the page was left).
Forget(key) ==
  /\ ~ui.open /\ Has(query.cache, key) /\ key \notin Observed(ui)
  /\ query' = [query EXCEPT !.cache = Dropped(@, key)]
  /\ UNCHANGED <<ui, calls>>

---------------------------------------------------------------------------
(* onChange, for a frame about a benchmark *)

Without(rows, n) == SelectSeq(rows, LAMBDA r : r.name # n)

\* The run comes first on a list that is not full, and keeps its place on one
\* that is.  The total grows with every frame about a run that is not shown.
Applied(frame, list) ==
  LET n == frame.run.name
      others == Without(list.rows, n)
      rows == IF frame.deleted THEN others
              ELSE IF list.total <= Limit THEN <<frame.run>> \o others
              ELSE IF n \in Named(list.rows) THEN InsertAt(others, Position(list.rows, n), frame.run)
              ELSE others
      total == IF frame.deleted THEN (IF list.total = 0 THEN 0 ELSE list.total - 1)
               ELSE IF n \in Named(list.rows) THEN list.total ELSE list.total + 1
  IN  [list EXCEPT !.rows = Upto(rows, Limit), !.total = total]

\* setQueriesData visits every key that begins with "benchmarks", in the order
\* of the cache.  Only a list has rows: the first other one with data throws,
\* and the frame is given up as malformed.
Throws == {i \in DOMAIN query.cache : query.cache[i].key.kind # "list" /\ query.cache[i].data # None}

Reached(i) == \A j \in Throws : i < j

ListsWritten(frame) ==
  [i \in DOMAIN query.cache |->
     IF Reached(i) /\ query.cache[i].data # None
     THEN [query.cache[i] EXCEPT !.data = Applied(frame, @)] ELSE query.cache[i]]

EntryWritten(frame, cache) ==
  IF frame.deleted THEN Dropped(cache, Entry(frame.run.name))
  ELSE Put(cache, Entry(frame.run.name), Told)

FrameArrives ==
  /\ query.frames # <<>>
  /\ LET frame == Head(query.frames)
     IN  query' = [query EXCEPT !.frames = Tail(@),
                                !.cache = IF Throws = {} THEN EntryWritten(frame, ListsWritten(frame))
                                          ELSE ListsWritten(frame)]
  /\ UNCHANGED <<ui, calls>>

---------------------------------------------------------------------------
(* The page *)

\* A class is chosen whenever none is: the default one, or the first.
Preselected(s) ==
  IF s.storageClass = None /\ query.classes # {}
  THEN [s EXCEPT !.storageClass = IF Default \in query.classes THEN Default ELSE CHOOSE c \in query.classes : TRUE]
  ELSE s

BenchmarksInit ==
  /\ query \in [runs : {<<>>}, named : {{}}, frames : {<<>>}, cache : {<<>>}, classes : {{}, Classes}]
  /\ \E v \in DOMAIN NamesOf :
       ui = [visit |-> v, open |-> FALSE, cursor |-> 0, expanded |-> None, deleteBench |-> None,
             storageClass |-> None, retain |-> FALSE, confirmed |-> FALSE]
  /\ calls = {}

Open == ~ui.open /\ Shown(Preselected([ui EXCEPT !.open = TRUE]))

\* Everything the page holds goes with it.
Leave ==
  /\ ui.open /\ ui.visit = "pages"
  /\ Shown([ui EXCEPT !.open = FALSE, !.cursor = 0, !.expanded = None, !.deleteBench = None])

\* The list on show; the one before while it is fetched is left out.
list == DataOf(List(ui.cursor))

NextPage == ui.open /\ ui.visit = "pages" /\ list # None /\ list.continue # 0 /\ Shown([ui EXCEPT !.cursor = list.continue])

FirstPage == ui.open /\ ui.cursor # 0 /\ Shown([ui EXCEPT !.cursor = 0])

onToggle(n) ==
  /\ ui.open /\ ui.visit = "details" /\ list # None /\ n \in Named(list.rows)
  /\ Shown([ui EXCEPT !.expanded = IF @ = n THEN None ELSE n])

Form(s) == ui' = s /\ UNCHANGED <<query, calls>>

creating == \E c \in calls : c.op = "create"

\* The form is not free while a run is being created, its retention is.
EnterClass(class) ==
  /\ ui.open /\ ui.visit = "run" /\ ~creating /\ class \in query.classes \cup {None}
  /\ Form(Preselected([ui EXCEPT !.storageClass = class]))

EnterRetain(retain) ==
  /\ ui.open /\ ui.visit = "run"
  /\ Form([ui EXCEPT !.retain = retain, !.confirmed = @ /\ retain])

EnterConfirmation(confirmed) == ui.open /\ ui.retain /\ Form([ui EXCEPT !.confirmed = confirmed])

\* The classes of the cluster change; the one that was chosen stays chosen.
ClassesChange(classes) ==
  /\ ui.open /\ ui.visit = "run"
  /\ query' = [query EXCEPT !.classes = classes]
  /\ ui' = IF ui.storageClass = None /\ classes # {}
           THEN [ui EXCEPT !.storageClass = IF Default \in classes THEN Default ELSE CHOOSE c \in classes : TRUE]
           ELSE ui
  /\ UNCHANGED calls

Run ==
  /\ ui.open /\ ui.visit = "run" /\ ~creating
  /\ ui.storageClass # None /\ (ui.retain => ui.confirmed)
  /\ calls' = calls \cup {[op |-> "create", done |-> FALSE, class |-> ui.storageClass, retain |-> ui.retain,
                           retainConfirmation |-> ui.retain /\ ui.confirmed]}
  /\ UNCHANGED <<query, ui>>

\* The server refuses a retention without its confirmation.
RunCreated(c, n) ==
  /\ c.op = "create" /\ ~c.done /\ (c.retain => c.retainConfirmation)
  /\ Created(n)
  /\ calls' = (calls \ {c}) \cup {[c EXCEPT !.done = TRUE]}
  /\ UNCHANGED ui

RunAnswered(c) ==
  /\ c.op = "create"
  /\ \/ c.done /\ calls' = Refetched(ui) \ {c}
     \/ calls' = calls \ {c}
  /\ UNCHANGED <<query, ui>>

OpenDelete(n) ==
  /\ ui.open /\ ui.visit = "delete" /\ ui.deleteBench = None /\ list # None /\ n \in Named(list.rows)
  /\ Form([ui EXCEPT !.deleteBench = n])

CloseDelete == ui.deleteBench # None /\ Form([ui EXCEPT !.deleteBench = None])

\* Nothing is typed, and the dialog does not show that a deletion waits.
ConfirmDelete ==
  /\ ui.deleteBench # None /\ \A c \in calls : c.op # "delete"
  /\ calls' = calls \cup {[op |-> "delete", name |-> ui.deleteBench, done |-> FALSE]}
  /\ UNCHANGED <<query, ui>>

RunDeleted(c) ==
  /\ c.op = "delete" /\ ~c.done /\ c.name \in Named(query.runs)
  /\ Deleted(c.name)
  /\ calls' = (calls \ {c}) \cup {[c EXCEPT !.done = TRUE]}
  /\ UNCHANGED ui

\* Deleted, the dialog that is open by then is closed; refused, it stays.
DeleteAnswered(c) ==
  /\ c.op = "delete"
  /\ \/ c.done /\ ui' = [ui EXCEPT !.deleteBench = None] /\ calls' = Refetched(ui) \ {c}
     \/ ui' = ui /\ calls' = calls \ {c}
  /\ UNCHANGED query

---------------------------------------------------------------------------
BenchmarksNext ==
  \/ \E n \in Names : OtherCreates(n)
  \/ \E i \in DOMAIN query.runs : Runs(i)
  \/ \E n \in Names : OtherDeletes(n)
  \/ FrameArrives
  \/ Poll
  \/ \E c \in calls : ServerReads(c)
  \/ \E c \in calls : FetchAnswered(c)
  \/ \E i \in DOMAIN query.cache : Forget(query.cache[i].key)
  \/ Open
  \/ Leave
  \/ NextPage
  \/ FirstPage
  \/ \E n \in Names : onToggle(n)
  \/ \E class \in Classes \cup {None} : EnterClass(class)
  \/ \E retain \in BOOLEAN : EnterRetain(retain)
  \/ \E confirmed \in BOOLEAN : EnterConfirmation(confirmed)
  \/ \E classes \in {{}} \cup {{class} : class \in Classes} : ClassesChange(classes)
  \/ Run
  \/ \E c \in calls, n \in Names : RunCreated(c, n)
  \/ \E c \in calls : RunAnswered(c)
  \/ \E n \in Names : OpenDelete(n)
  \/ CloseDelete
  \/ ConfirmDelete
  \/ \E c \in calls : RunDeleted(c)
  \/ \E c \in calls : DeleteAnswered(c)

BenchmarksSpec == BenchmarksInit /\ [][BenchmarksNext]_benchmarksVars

---------------------------------------------------------------------------
TypeOK ==
  /\ Named(query.runs) \subseteq Names /\ \A i \in DOMAIN query.runs : query.runs[i].phase \in Phases /\ query.classes \subseteq Classes
  /\ Len(query.frames) <= MaxFrames
  /\ {ui.expanded, ui.deleteBench} \subseteq Names \cup {None}
  /\ \A i \in DOMAIN query.cache : query.cache[i].key.kind \in {"list", "detail", "entry"}

\* A frame about a run that is on show is seen: "updates benchmark cache
\* directly from lifecycle events".  (It is not so once a frame before, or the
\* details of a run, have left a key in the cache ahead of the list.)
FramesShown ==
  [][Len(query'.frames) < Len(query.frames) /\ list # None
     => LET frame == Head(query.frames)
        IN  \A i \in DOMAIN list'.rows :
              list'.rows[i].name = frame.run.name => ~frame.deleted /\ list'.rows[i].phase = frame.run.phase]_benchmarksVars
=============================================================================

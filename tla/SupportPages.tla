---------------------------- MODULE SupportPages ----------------------------
(***************************************************************************)
(* Two pages about Longhorn itself.  The page of support bundles starts    *)
(* the generation of one and follows those under way more closely while    *)
(* the change stream is down; the page of instance managers shows in a     *)
(* dialog the instances that one of them holds.                            *)
(***************************************************************************)
EXTENDS Naturals, FiniteSets

CONSTANTS Bundles,  \* generated in a visit (bound)
          Managers,
          Reports,  \* what a manager may report of its instances
          Lists,    \* the managers that may be listed, with what they report
          Fast,     \* intervals, in ticks, of the polls while the stream is down and a
          Often,    \*   bundle is generated, while it is down, while it is up
          Seldom,
          MaxTime,  \* ticks of a visit (bound)
          None

VARIABLES query, \* Longhorn, the cached lists, the polls, the stream
          ui,    \* the page
          calls  \* handlers waiting for the answer to a request

supportVars == <<query, ui, calls>>

---------------------------------------------------------------------------
(* useSupportBundles *)

Ended == {"readyfordownload", "error", "failed"}

\* A bundle that reports no state is not under way.
active(bundles) == \E b \in DOMAIN bundles : bundles[b] \notin Ended \cup {""}

refetchInterval(bundles, connected) ==
  CASE active(bundles) /\ ~connected -> Fast
    [] connected -> Seldom
    [] OTHER -> Often

Interval == refetchInterval(query.bundles, query.connected)

\* When the list was read or could not be, when the stream opened or was lost,
\* when a bundle was asked for: at each of these the timer starts anew.
Restarted(q) == [q EXCEPT !.timer = q.now]

SupportInit ==
  /\ query \in [longhorn : {<<>>}, bundles : {<<>>}, fetching : {FALSE}, now : {0}, timer : {0},
                readAt : {0}, failedAt : {0}, flippedAt : {0}, connected : BOOLEAN,
                managers : Lists, canMutate : BOOLEAN]
  /\ ui \in [page : {"bundles", "managers"}, error : {FALSE}, selected : {None}]
  /\ calls = {}

Changes(q) == query' = q /\ UNCHANGED <<ui, calls>>

\* Time does not pass a poll that is due; a request takes less than a tick.
Tick ==
  /\ ui.page = "bundles" /\ ~query.fetching
  /\ query.now < MaxTime /\ query.now - query.timer < Interval
  /\ Changes([query EXCEPT !.now = @ + 1])

\* The timer, the Refresh button, a frame of the stream, the window's focus.
Refetch ==
  /\ ui.page = "bundles" /\ ~query.fetching
  /\ Changes([query EXCEPT !.fetching = TRUE])

Fetched ==
  /\ query.fetching
  /\ Changes(Restarted([query EXCEPT !.fetching = FALSE, !.bundles = query.longhorn, !.readAt = query.now]))

\* After one retry.
FetchFails ==
  /\ query.fetching
  /\ Changes(Restarted([query EXCEPT !.fetching = FALSE, !.failedAt = query.now]))

\* useSseConnected: the interval is another one, whichever way it goes.
ConnectedChanges ==
  /\ ui.page = "bundles"
  /\ Changes(Restarted([query EXCEPT !.connected = ~@, !.flippedAt = query.now]))

\* Longhorn: a bundle is added without a state, then generated.
Advances(b) ==
  /\ b \in DOMAIN query.longhorn /\ query.longhorn[b] \notin Ended
  /\ \E state \in IF query.longhorn[b] = "" THEN {"generating"} ELSE {"readyfordownload", "error"} :
       Changes([query EXCEPT !.longhorn[b] = state])

---------------------------------------------------------------------------
(* SupportBundlePage *)

creating == calls # {}

\* The failure before is taken away first.
create ==
  /\ ui.page = "bundles" /\ query.canMutate /\ ~creating
  /\ \E b \in Bundles \ DOMAIN query.longhorn : calls' = {b}
  /\ ui' = [ui EXCEPT !.error = FALSE]
  /\ UNCHANGED query

With(b) == [c \in DOMAIN query.longhorn \cup {b} |-> IF c = b THEN "" ELSE query.longhorn[c]]

\* The list is asked for anew, in place of a request under way.
Created(b) ==
  /\ b \in calls
  /\ query' = [query EXCEPT !.longhorn = With(b), !.fetching = TRUE]
  /\ calls' = {} /\ UNCHANGED ui

\* Refused, or generated and the answer lost.
CreateFails(b) ==
  /\ b \in calls
  /\ \E longhorn \in {query.longhorn, With(b)} : query' = [query EXCEPT !.longhorn = longhorn]
  /\ calls' = {} /\ ui' = [ui EXCEPT !.error = TRUE]

---------------------------------------------------------------------------
(* InstanceManagersPage *)

\* Older managers report one map of instances, newer ones two.
getManagedInstances(report) ==
  IF report.instances # None
    THEN {<<"instances", i>> : i \in report.instances}
    ELSE UNION {{<<k, i>> : i \in report[k]} : k \in {k \in {"engines", "replicas"} : report[k] # None}}

ManagersListed(list) == ui.page = "managers" /\ Changes([query EXCEPT !.managers = list])

\* The dialog keeps the row it was opened on.
Select(m) ==
  /\ ui.page = "managers" /\ ui.selected = None /\ m \in DOMAIN query.managers
  /\ ui' = [ui EXCEPT !.selected = [name |-> m, report |-> query.managers[m]]]
  /\ UNCHANGED <<query, calls>>

CloseInstances ==
  /\ ui.selected # None
  /\ ui' = [ui EXCEPT !.selected = None]
  /\ UNCHANGED <<query, calls>>

selectedInstances == IF ui.selected = None THEN {} ELSE getManagedInstances(ui.selected.report)

---------------------------------------------------------------------------
SupportNext ==
  \/ Tick
  \/ Refetch
  \/ Fetched
  \/ FetchFails
  \/ ConnectedChanges
  \/ \E b \in Bundles : Advances(b)
  \/ create
  \/ \E b \in Bundles : Created(b)
  \/ \E b \in Bundles : CreateFails(b)
  \/ \E list \in Lists : ManagersListed(list)
  \/ \E m \in Managers : Select(m)
  \/ CloseInstances

SupportSpec == SupportInit /\ [][SupportNext]_supportVars

---------------------------------------------------------------------------
TypeOK ==
  /\ DOMAIN query.bundles \subseteq Bundles /\ DOMAIN query.longhorn \subseteq Bundles
  /\ query.timer <= query.now /\ query.now <= MaxTime
  /\ calls \subseteq Bundles /\ Cardinality(calls) <= 1
  /\ ui.selected # None => ui.selected.report \in Reports

LatestOf(times) == CHOOSE t \in times : \A u \in times : u <= t

\* While the stream is down a bundle that is shown as under way is followed:
\* the list was read within the shortest interval, since the stream was lost
\* or a fetch failed.  The timer was started when the stream was up, or when
\* no bundle was under way, and must not run on at that pace.
GenerationFollowed ==
  ui.page = "bundles" /\ active(query.bundles) /\ ~query.connected
  => query.now - LatestOf({query.readAt, query.failedAt, query.flippedAt}) <= Fast

\* No failure is shown while the attempt after it waits.
FailureOfLastAttempt == ui.error => ~creating

\* "normalises all of those into a flat list": the dialog lists every instance
\* of the manager.  (It is not so for a manager that reports an empty map of
\* instances beside the two others.)
InstancesComplete ==
  ui.selected # None
  => {k \in {"instances", "engines", "replicas"} : ui.selected.report[k] \notin {None, {}}}
       = {i[1] : i \in selectedInstances}

\* The dialog shows the manager as it is listed.  (It is not so: it keeps the
\* row, and a list that arrives later is not looked at.)
DialogFollowsList ==
  ui.selected # None
  => ui.selected.name \in DOMAIN query.managers
     /\ ui.selected.report = query.managers[ui.selected.name]
=============================================================================

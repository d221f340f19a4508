--------------------------- MODULE StorageQueries ---------------------------
(***************************************************************************)
(* The pages that show what the server observed of the storage of a scope: *)
(* the inventory under its filters, the evidence of a provider.  The scope *)
(* is part of the key of a query; some queries show the answer for the     *)
(* scope before until theirs is there.  Without a network the library      *)
(* keeps a request back (networkMode is not set, so it is "online").       *)
(***************************************************************************)
EXTENDS Naturals

CONSTANTS Scopes,    \* providers or filters; All is no filter
          All,
          None,
          Panels,    \* the panels and pages that may be visited
          Says(_),   \* what may be answered to the hook of a panel
          Pages      \* offsets of the pages of a list (bound)

VARIABLES query, \* the answers in the cache, by key, the keys that failed last, the network
          ui,    \* the panel, the scope and the page in the URL, the answer shown last
          calls  \* the requests under way, or kept back

queriesVars == <<query, ui, calls>>

\* What an answer says: how well its rows are attributed, whether a source was
\* missing or something is wrong, whether more follows.
Content(rows, conditions, more) == [rows |-> rows, conditions |-> conditions, more |-> more]

Key(scope, page) == [scope |-> scope, page |-> page]

\* placeholderData: (previous) => previous
KeepsPrevious ==
  {"useStorageList", "useStorageTimeline", "useCapacityOwnership", "useCapacityForecast",
   "useProviderComparison", "useStorageRemediations"}

\* Queries that are not asked without a provider.
NeedsProvider ==
  {"useCapacityForecast", "useRelationships", "useResourceRelationships", "useStorageImpact",
   "useProviderDrift", "useProviderSummary", "useProviderResources", "useStorageProvider"}

\* Each is fed by one hook.
HookOf ==
  [InventoryPage |-> "useStorageList", ProviderWorkloadFootprint |-> "useStorageList",
   TimelinePanel |-> "useStorageTimeline", CapacityOwnershipPanel |-> "useCapacityOwnership",
   ForecastSummary |-> "useCapacityForecast",
   ProviderComparisonPanel |-> "useProviderComparison",
   RemediationGuidancePanel |-> "useStorageRemediations",
   RelationshipPanel |-> "useResourceRelationships", ImpactPanel |-> "useStorageImpact",
   DriftPanel |-> "useProviderDrift", RookCephClusterPage |-> "useProviderSummary",
   OpenEBSProviderPage |-> "useProviderSummary", LinstorProviderPage |-> "useProviderSummary",
   CephResourcePage |-> "useProviderResources", OpenEBSResourcePage |-> "useProviderResources",
   LinstorResourcePage |-> "useProviderResources"]

hook == HookOf[ui.panel]

\* The provider of these is in the path, not in the query of the URL.
OfAProvider ==
  {"DriftPanel", "ProviderWorkloadFootprint", "RookCephClusterPage", "OpenEBSProviderPage",
   "LinstorProviderPage", "CephResourcePage", "OpenEBSResourcePage", "LinstorResourcePage"}

Paged == {"InventoryPage"}

Current == Key(ui.scope, ui.page)

Enabled(scope) == hook \in NeedsProvider => scope # All

\* A key is asked for when it is first shown and, in the background, again.
Asked(key) == IF Enabled(key.scope) THEN {[key |-> key, paused |-> ~query.online]} ELSE {}

QueriesInit ==
  /\ query = [cache |-> [k \in [scope : Scopes, page : Pages] |-> None], failed |-> {}, online |-> TRUE]
  /\ ui \in [panel : Panels, scope : Scopes, page : {0}, last : {None}]
  /\ ui.panel \in OfAProvider => ui.scope # All
  /\ calls = Asked(Current)

error == Current \in query.failed

\* The answer for the key; while there is none, the last one there was; none
\* when the key could not be answered.
data ==
  IF query.cache[Current] # None THEN query.cache[Current]
  ELSE IF hook \in KeepsPrevious /\ ~error THEN ui.last
  ELSE None

\* A request that is kept back does not count as one that is loading.
isLoading == data = None /\ \E c \in calls : ~c.paused

\* QueryState shows nothing but the error when there is one.
Shows == IF error THEN None ELSE data

\* A key without an answer starts over when it is asked for again.
Restarted(keys) == {k \in keys : query.cache[k] = None}

---------------------------------------------------------------------------
(* What a panel makes of its answer: rows or nothing, with or without a warning. *)

Drawn(a, warns) == [says |-> IF a.rows = {} THEN "nothing" ELSE "rows", warns |-> warns]

\* These return early when there are no rows, whatever was missing.
EmptyState(a, warns) == Drawn(a, warns /\ a.rows # {})

partialReasons(a) == a.conditions \/ a.rows \ {"authoritative"} # {}

TimelinePanel(a) == EmptyState(a, a.more \/ partialReasons(a))

CapacityOwnershipPanel(a) == EmptyState(a, partialReasons(a))

\* A forecast that is not available says why.  It has its place in the panel
\* above, once a provider is chosen.
ForecastSummary(a) == IF ui.scope = All THEN Drawn(Content({}, FALSE, FALSE), FALSE) ELSE Drawn(a, a.rows = {})

ProviderComparisonPanel(a) == EmptyState(a, a.conditions)

RemediationGuidancePanel(a) == EmptyState(a, a.conditions)

RelationshipPanel(a) == Drawn(a, a.conditions)

DriftPanel(a) == Drawn(a, a.conditions)

ImpactPanel(a) == Drawn(a, a.conditions)

InventoryPage(a) == Drawn(a, a.conditions)

ProviderWorkloadFootprint(a) == Drawn(a, FALSE)

\* Healthy when the health at run time was reported and is.
RookCephClusterPage(a) == [says |-> "rows", warns |-> a.rows = {} \/ a.conditions]

OpenEBSProviderPage(a) == [says |-> "rows", warns |-> a.conditions]

LinstorProviderPage(a) == [says |-> "rows", warns |-> a.conditions]

CephResourcePage(a) == Drawn(a, a.conditions)

\* The other two do not say that their list is partial.
OpenEBSResourcePage(a) == Drawn(a, FALSE)

LinstorResourcePage(a) == Drawn(a, FALSE)

Draws(panel, a) ==
  CASE panel = "InventoryPage" -> InventoryPage(a)
    [] panel = "ProviderWorkloadFootprint" -> ProviderWorkloadFootprint(a)
    [] panel = "TimelinePanel" -> TimelinePanel(a)
    [] panel = "CapacityOwnershipPanel" -> CapacityOwnershipPanel(a)
    [] panel = "ForecastSummary" -> ForecastSummary(a)
    [] panel = "ProviderComparisonPanel" -> ProviderComparisonPanel(a)
    [] panel = "RemediationGuidancePanel" -> RemediationGuidancePanel(a)
    [] panel = "RelationshipPanel" -> RelationshipPanel(a)
    [] panel = "ImpactPanel" -> ImpactPanel(a)
    [] panel = "DriftPanel" -> DriftPanel(a)
    [] panel = "RookCephClusterPage" -> RookCephClusterPage(a)
    [] panel = "OpenEBSProviderPage" -> OpenEBSProviderPage(a)
    [] panel = "LinstorProviderPage" -> LinstorProviderPage(a)
    [] panel = "CephResourcePage" -> CephResourcePage(a)
    [] panel = "OpenEBSResourcePage" -> OpenEBSResourcePage(a)
    [] panel = "LinstorResourcePage" -> LinstorResourcePage(a)

\* A query that is not asked, or is kept back, and has no answer is neither loading
\* nor failed.
Panel ==
  IF isLoading THEN [says |-> "loading", warns |-> FALSE]
  ELSE IF error THEN [says |-> "error", warns |-> TRUE]
  ELSE Draws(ui.panel, IF data = None THEN Content({}, FALSE, FALSE) ELSE data.says)

---------------------------------------------------------------------------
\* The request for the key before is aborted, its answer with it.  (An answer
\* that is not five seconds old is not asked for again.)
Navigate(scope, page) ==
  /\ ui' = [ui EXCEPT !.scope = scope, !.page = page,
                      !.last = IF query.cache[Current] # None THEN query.cache[Current] ELSE @]
  /\ query' = [query EXCEPT !.failed = @ \ Restarted({Key(scope, page)})]
  /\ \/ calls' = Asked(Key(scope, page))
     \/ query.cache[Key(scope, page)] # None /\ calls' = {}

\* A filter drops the page; so does the choice of a provider.
setScope(scope) ==
  /\ scope # ui.scope
  /\ ui.panel \in OfAProvider => scope # All
  /\ Navigate(scope, 0)

\* The token is the offset that follows the rows shown, whose ever they are.
NextPage ==
  /\ ui.panel \in Paged /\ Shows # None /\ Shows.says.more
  /\ Shows.of.page + 1 \in Pages
  /\ Key(ui.scope, Shows.of.page + 1) # Current
  /\ Navigate(ui.scope, Shows.of.page + 1)

FirstPage == ui.panel \in Paged /\ ui.page # 0 /\ Navigate(ui.scope, 0)

\* At an interval, after a change that was announced, or on Retry.
Refetch ==
  /\ calls = {} /\ Enabled(ui.scope)
  /\ calls' = Asked(Current)
  /\ query' = [query EXCEPT !.failed = @ \ Restarted({Current})]
  /\ UNCHANGED ui

Answer(c, says) ==
  /\ ~c.paused
  /\ calls' = calls \ {c}
  /\ query' = [query EXCEPT !.cache[c.key] = [of |-> c.key, says |-> says], !.failed = @ \ {c.key}]
  /\ UNCHANGED ui

\* After one retry.
Fail(c) ==
  /\ ~c.paused
  /\ calls' = calls \ {c}
  /\ query' = [query EXCEPT !.failed = @ \cup {c.key}]
  /\ UNCHANGED ui

\* The retry waits for the network; so do the requests made without one, until
\* it is back.
Pause(c) ==
  /\ ~query.online /\ ~c.paused
  /\ calls' = (calls \ {c}) \cup {[c EXCEPT !.paused = TRUE]}
  /\ UNCHANGED <<query, ui>>

Disconnect == query.online /\ query' = [query EXCEPT !.online = FALSE] /\ UNCHANGED <<ui, calls>>

Reconnect ==
  /\ ~query.online
  /\ query' = [query EXCEPT !.online = TRUE]
  /\ calls' = {[c EXCEPT !.paused = FALSE] : c \in calls}
  /\ UNCHANGED ui

---------------------------------------------------------------------------
QueriesNext ==
  \/ \E scope \in Scopes : setScope(scope)
  \/ NextPage
  \/ FirstPage
  \/ Refetch
  \/ \E c \in calls, says \in Says(ui.panel) : Answer(c, says)
  \/ \E c \in calls : Fail(c)
  \/ \E c \in calls : Pause(c)
  \/ Disconnect
  \/ Reconnect

QueriesSpec == QueriesInit /\ [][QueriesNext]_queriesVars

---------------------------------------------------------------------------
TypeOK ==
  /\ ui.scope \in Scopes /\ ui.page \in Pages /\ ui.panel \in Panels
  /\ \A c \in calls : c.key \in [scope : Scopes, page : Pages]

\* What a page shows was observed for the scope and the page in its URL.  Only
\* a hook that keeps the answer before may show that of another scope, and only
\* while its own is under way or kept back (or is not asked for at all): never
\* after the answer, a failure, or a visit to other scopes on the way.
ShownIsOfItsScope ==
  Shows # None /\ Shows.of # Current
  => hook \in KeepsPrevious /\ (Enabled(ui.scope) => \E c \in calls : c.key = Current)

\* A panel that says there is nothing was told so, for its scope or for the one
\* before while its own is under way, or has not been given a provider, or waits
\* for the network: never because a request failed, was dropped or has not been
\* answered yet.
AbsenceWasAnswered ==
  Panel.says = "nothing" => Shows # None \/ ~Enabled(ui.scope) \/ \E c \in calls : c.paused
=============================================================================

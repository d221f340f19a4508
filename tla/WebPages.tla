------------------------------ MODULE WebPages ------------------------------
(***************************************************************************)
(* Visits to the pages of the web application.  The route says which page  *)
(* is mounted; its state is in query (what the cache holds for it), ui     *)
(* (its components' state) and calls (handlers that wait for an answer):   *)
(* React drops the last two when a page is left, so a visit is a behaviour *)
(* of that page's module from its initial states.                          *)
(***************************************************************************)
EXTENDS Naturals, FiniteSets

\* Of the page at a route: what its rows are named, the lists that may arrive,
\* what a visit is for, and how many handlers, lists and ticks there may be at
\* most (the last four are bounds).
CONSTANTS None, NamesAt(_), ListsAt(_), VisitsAt(_), MaxCallsAt(_), MaxListsAt(_), MaxTimeAt(_)

\* Of one page each.  The modules of the pages say what they are.
CONSTANTS Backups,                                                \* BackingImagesPage
          Values,                                                 \* SettingsPage
          Configs, Empty, MaxLoads,                               \* SSOConfigPage
          Me,                                                     \* UsersPage
          NewNames, NewIds,                                       \* NodesPage
          EngineOf, Hosts, BulkKeys, ActionKeys,                  \* VolumesPage
          TargetNames, MaxActions,                                \* VolumeDetailPage
          RowIds, Searches, PageSizes, Matching, AllColumns,      \* TablePage
          DefaultColumns, ViewNames, MaxViews,
          ActionsOffered, Typed, Kind, Providers,                  \* StorageOperationsPage
          Portable, MaxPlans,
          Detected, Requests, Ceilings, MaxRevision,              \* StoragePolicyPage
          ScopesOffered, All, Panels, Says(_), Offsets,           \* StorageQueries
          BenchmarkNames, Classes, Default, Limit, MaxFrames,     \* BenchmarksPage
          Volumes, Gauges, Window, StaleAfter,                    \* MetricsPages
          CephKinds, Nowhere, HideAfter, TickAfter,               \* CephDashboard
          Bundles, Reports, Fast, Often, Seldom,                  \* SupportPages
          Strangers,                                              \* ProviderWorkspace
          Paths, Kept, MaxToasts                                  \* ShellState

VARIABLES route, query, ui, calls

pagesVars == <<route, query, ui, calls>>

---------------------------------------------------------------------------
(* The pages *)

images == INSTANCE BackingImagesPage WITH
  Names <- NamesAt("images"), Lists <- ListsAt("images"), MaxCalls <- MaxCallsAt("images"),
  Visits <- VisitsAt("images")
systemBackups == INSTANCE SystemBackupsPage WITH
  Names <- NamesAt("systemBackups"), Lists <- ListsAt("systemBackups")
engineImages == INSTANCE EngineImagesPage WITH
  Names <- NamesAt("engineImages"), Lists <- ListsAt("engineImages")
orphans == INSTANCE OrphansPage WITH
  Names <- NamesAt("orphans"), Lists <- ListsAt("orphans")
backupTargets == INSTANCE BackupTargetsPage WITH
  Names <- NamesAt("backupTargets"), Lists <- ListsAt("backupTargets"), Visits <- VisitsAt("backupTargets")
backups == INSTANCE BackupsPage WITH
  Names <- NamesAt("backups"), Lists <- ListsAt("backups"), MaxCalls <- MaxCallsAt("backups"),
  Visits <- VisitsAt("backups")
recurringJobs == INSTANCE RecurringJobsPage WITH
  Names <- NamesAt("recurringJobs"), Jobs <- ListsAt("recurringJobs")
settings == INSTANCE SettingsPage WITH
  Names <- NamesAt("settings"), Lists <- ListsAt("settings")
sso == INSTANCE SSOConfigPage
users == INSTANCE UsersPage WITH
  Names <- NamesAt("users"), Lists <- ListsAt("users"), MaxCalls <- MaxCallsAt("users")
nodes == INSTANCE NodesPage WITH
  Nodes <- NamesAt("nodes"), Listings <- ListsAt("nodes"), MaxCalls <- MaxCallsAt("nodes"),
  MaxLists <- MaxListsAt("nodes"), Visits <- VisitsAt("nodes")
volumes == INSTANCE VolumesPage WITH
  Names <- NamesAt("volumes"), Tasks <- VisitsAt("volumes")
detail == INSTANCE VolumeDetailPage WITH
  Snaps <- NamesAt("detail"), Listings <- ListsAt("detail"), MaxLists <- MaxListsAt("detail"), VisitTasks <- VisitsAt("detail"),
  Targets <- TargetNames
dataTable == INSTANCE TablePage WITH
  data <- query, table <- ui, prefs <- calls, Rows <- RowIds
operations == INSTANCE StorageOperationsPage WITH
  Names <- NamesAt("operations"), Actions <- ActionsOffered
policy == INSTANCE StoragePolicyPage
queries == INSTANCE StorageQueries WITH
  Scopes <- ScopesOffered, Pages <- Offsets
benchmarks == INSTANCE BenchmarksPage WITH
  NamesOf <- BenchmarkNames
metrics == INSTANCE MetricsPages WITH
  Nodes <- NamesAt("metrics"), MaxTime <- MaxTimeAt("metrics")
ceph == INSTANCE CephDashboard WITH
  Providers <- ListsAt("ceph"), Kinds <- CephKinds, MaxTime <- MaxTimeAt("ceph")
support == INSTANCE SupportPages WITH
  Managers <- NamesAt("support"), Lists <- ListsAt("support"), MaxTime <- MaxTimeAt("support")
\* The frame around the pages: where they are, how they look, what they say.
workspace == INSTANCE ProviderWorkspace WITH
  discovered <- query, location <- ui, role <- calls, Lists <- ListsAt("workspace")
shell == INSTANCE ShellState WITH
  Visits <- VisitsAt("shell")

---------------------------------------------------------------------------
(* Of the constants: what JavaScript tells apart, what the server admits,  *)
(* and the numbers written in the code                                     *)

\* null is no number, no job, no snapshot, and no answer.
ASSUME NoneIsNothing ==
  None \notin Nat /\ None \notin NamesAt("recurringJobs") /\ None \notin NamesAt("detail")
ASSUME AnswersAreSome ==
  None \notin [of : [scope : ScopesOffered, page : Offsets], says : UNION {Says(p) : p \in Panels}]

\* A list of the manager is finite, and rows are compared as numbers.
ASSUME ListsAreFinite ==
  /\ IsFiniteSet(NamesAt("volumes")) /\ IsFiniteSet(NamesAt("detail"))
  /\ IsFiniteSet(Volumes \cup Gauges) /\ IsFiniteSet(RowIds)
ASSUME SnapshotsAreListed ==
  \A list \in ListsAt("detail") :
    /\ DOMAIN list \subseteq NamesAt("detail")
    /\ \A s \in DOMAIN list : list[s].created \in Nat
ASSUME RowsAreOrdered == RowIds \subseteq Nat

\* Its rows are known by their names.  The settings are the same in every list;
\* a node is scheduled or not; a generation of reports lists reports.
ASSUME RowsAreNamed ==
  \A page \in {"systemBackups", "engineImages", "orphans", "backupTargets"} :
    \A list \in ListsAt(page) : DOMAIN list \subseteq NamesAt(page)
ASSUME SettingsStay == \A list \in ListsAt("settings") : DOMAIN list = NamesAt("settings")
ASSUME SchedulingIsOnOrOff ==
  \A list \in ListsAt("nodes") : \A n \in NamesAt("nodes") :
    "allowScheduling" \in DOMAIN list[n] /\ list[n].allowScheduling \in BOOLEAN
ASSUME ReportsAreListed == \A list \in ListsAt("support") : \A m \in DOMAIN list : list[m] \in Reports

\* The key of a series says whether it is of a volume or of a node.
ASSUME VolumesAreNoNodes == Volumes \cap NamesAt("metrics") = {}

\* A disk that exists has a name; it may be one that the editor gave to a row.
ASSUME DisksHaveNames ==
  \A list \in ListsAt("nodes") :
    /\ DOMAIN list = NamesAt("nodes")
    /\ \A n \in NamesAt("nodes") :
         "disks" \in DOMAIN list[n] /\ list[n].disks \cap {"", " "} = {}

\* The adapter of Longhorn has one id, "longhorn".
ASSUME LonghornIsItself ==
  \A list \in ListsAt("workspace") : \A p \in list : p.kind = "longhorn" => p.id = "longhorn"

\* The server stores no request for a policy that it does not admit.
ASSUME RequestsAreAdmitted ==
  \A p \in Requests : p = [on |-> p.on, ids |-> p.ids] /\ policy!Admissible(p)

\* A request asks for fields of the policy, the form of single sign-on is empty
\* at first, and so is the search of a table.
ASSUME RequestsAreFields == \A p \in Requests : p.on \subseteq policy!Fields
ASSUME EmptyFormIsOne == Empty \in Configs
ASSUME NothingMayBeSearched == "" \in Searches

\* Sizes of pages and of series, times, numbers of scrapes and of messages; a
\* table begins at page 0; a path begins with "/".
ASSUME SizesAreSome == PageSizes \subseteq Nat \ {0} /\ Window \in Nat \ {0} /\ 0 \in Offsets
ASSUME TimesAreNumbers == {HideAfter, TickAfter, Fast, Often, Seldom, StaleAfter, Kept} \subseteq Nat
ASSUME ChunkIsNoPath == "chunk" \notin Paths

\* The bounds are numbers.
ASSUME BoundsAreNumbers ==
  {MaxPlans, MaxRevision, MaxFrames, MaxTimeAt("metrics"), MaxTimeAt("ceph"), MaxTimeAt("support")} \subseteq Nat

---------------------------------------------------------------------------
At(r) == route = r /\ UNCHANGED route

PagesInit ==
  \/ route = "images" /\ images!ImagesInit
  \/ route = "systemBackups" /\ systemBackups!SystemBackupsInit
  \/ route = "engineImages" /\ engineImages!EngineImagesInit
  \/ route = "orphans" /\ orphans!OrphansInit
  \/ route = "backupTargets" /\ backupTargets!BackupTargetsInit
  \/ route = "backups" /\ backups!BackupsInit
  \/ route = "recurringJobs" /\ recurringJobs!JobsInit
  \/ route = "settings" /\ settings!SettingsInit
  \/ route = "sso" /\ sso!SSOInit
  \/ route = "users" /\ users!UsersInit
  \/ route = "nodes" /\ nodes!NodesInit
  \/ route = "volumes" /\ volumes!VolumesInit
  \/ route = "detail" /\ detail!DetailInit
  \/ route = "dataTable" /\ dataTable!TableInit
  \/ route = "operations" /\ operations!OperationInit
  \/ route = "policy" /\ policy!PolicyInit
  \/ route = "queries" /\ queries!QueriesInit
  \/ route = "benchmarks" /\ benchmarks!BenchmarksInit
  \/ route = "metrics" /\ metrics!MetricsInit /\ calls = {}
  \/ route = "ceph" /\ ceph!CephInit
  \/ route = "workspace" /\ workspace!WorkspaceInit
  \/ route = "support" /\ support!SupportInit
  \/ route = "shell" /\ shell!ShellInit

PagesNext ==
  \/ At("images") /\ images!ImagesNext
  \/ At("systemBackups") /\ systemBackups!SystemBackupsNext
  \/ At("engineImages") /\ engineImages!EngineImagesNext
  \/ At("orphans") /\ orphans!OrphansNext
  \/ At("backupTargets") /\ backupTargets!BackupTargetsNext
  \/ At("backups") /\ backups!BackupsNext
  \/ At("recurringJobs") /\ recurringJobs!JobsNext
  \/ At("settings") /\ settings!SettingsNext
  \/ At("sso") /\ sso!SSONext
  \/ At("users") /\ users!UsersNext
  \/ At("nodes") /\ nodes!NodesNext
  \/ At("volumes") /\ volumes!VolumesNext
  \/ At("detail") /\ detail!DetailNext
  \/ At("dataTable") /\ dataTable!TableNext
  \/ At("operations") /\ operations!OperationNext
  \/ At("policy") /\ policy!PolicyNext
  \/ At("queries") /\ queries!QueriesNext
  \/ At("benchmarks") /\ benchmarks!BenchmarksNext
  \/ At("metrics") /\ metrics!MetricsNext /\ UNCHANGED calls
  \/ At("ceph") /\ ceph!CephNext
  \/ At("workspace") /\ workspace!WorkspaceNext
  \/ At("support") /\ support!SupportNext
  \/ At("shell") /\ shell!ShellNext

PagesSpec == PagesInit /\ [][PagesNext]_pagesVars

---------------------------------------------------------------------------
(* Of each page: its state has its type. *)

TypeOK ==
  /\ route = "images" => images!TypeOK
  /\ route = "systemBackups" => systemBackups!TypeOK
  /\ route = "engineImages" => engineImages!TypeOK
  /\ route = "orphans" => orphans!TypeOK
  /\ route = "backupTargets" => backupTargets!TypeOK
  /\ route = "backups" => backups!TypeOK
  /\ route = "recurringJobs" => recurringJobs!TypeOK
  /\ route = "settings" => settings!TypeOK
  /\ route = "sso" => sso!TypeOK
  /\ route = "users" => users!TypeOK
  /\ route = "nodes" => nodes!TypeOK
  /\ route = "volumes" => volumes!TypeOK
  /\ route = "detail" => detail!TypeOK
  /\ route = "dataTable" => dataTable!TypeOK
  /\ route = "operations" => operations!TypeOK
  /\ route = "policy" => policy!TypeOK
  /\ route = "queries" => queries!TypeOK
  /\ route = "benchmarks" => benchmarks!TypeOK
  /\ route = "metrics" => metrics!TypeOK
  /\ route = "ceph" => ceph!TypeOK
  /\ route = "workspace" => workspace!TypeOK
  /\ route = "support" => support!TypeOK
  /\ route = "shell" => shell!TypeOK

\* What a form may submit is admissible whatever order its fields were edited
\* in: no volume is created with a frontend its engine has not, and the draft
\* of the policy, edited, polled and migrated, is one the server admits
\* (VolumesPage, StoragePolicyPage).
FormsAdmissible ==
  /\ route = "volumes" => volumes!FrontendFitsEngine
  /\ route = "policy" => policy!DraftAdmissible

\* A bulk run accounts for every row selected when it was started, and spares
\* what may not go: the account of the session, and the default engine image
\* (VolumesPage, UsersPage, EngineImagesPage).
BulkRunsExact ==
  /\ route = "volumes" => volumes!BulkRunAccounted
  /\ route = "users" => users!OwnAccountKept
  /\ route = "engineImages" => engineImages!DefaultImageKept

\* Nothing is out of reach: whichever listing came last, and whatever it reports,
\* the tree draws every snapshot once, what the roots reach below its children and
\* the rest last; and every link arrives at a page that is routed for its provider
\* (VolumeDetailPage, ProviderWorkspace).
NothingOutOfReach ==
  /\ route = "detail" => detail!TreeFaithful
  /\ route = "workspace" => workspace!LinksArrive

\* No operation is submitted whose warnings were not acknowledged since the
\* plan that raised them (StorageOperationsPage).
WarningsReviewed == route = "operations" => operations!WarningsReviewed

\* What is sent, and what an answer is taken for, is of the dialog it was sent
\* from: no job is saved over another, no volume restored from the backup of
\* another, no answer closes the dialog of another setting, no target is made
\* without the credential asked for, and saving the disks of a node removes
\* those marked for it and no other that was in the editor (RecurringJobsPage,
\* BackupsPage, SettingsPage, BackupTargetsPage, NodesPage).
RequestsOfTheirDialog ==
  /\ route = "recurringJobs" => recurringJobs!SavesItsJob
  /\ route = "backups" => backups!RestoresOwnBackup
  /\ route = "settings" => settings!AnswerIsItsOwn
  /\ route = "backupTargets" => backupTargets!TargetsAreWhole
  /\ route = "nodes" => nodes!RemovalExact

\* Nothing stays past its time: a button disabled, a page waiting, a password
\* on the screen, an old theme, the failure of another page or attempt, a
\* message, the series of what has gone, the progress of a bundle
\* (BackingImagesPage, SSOConfigPage, CephDashboard, ShellState, MetricsPages,
\* SupportPages).
ReleasedInTime ==
  /\ route = "images" => images!ButtonReleased
  /\ route = "sso" => sso!PageReleased
  /\ route = "ceph" => ceph!HiddenInTime
  /\ route = "support" => support!GenerationFollowed /\ support!FailureOfLastAttempt
  /\ route = "shell" => shell!ThemeApplied /\ shell!FailureOfItsPage /\ shell!MessagesPass
  /\ route = "metrics" => metrics!NoGhosts

\* A reader sees what was asked for: a scope shows its own answer, nothing is
\* said to be absent that was not answered, and a page of a table is not blank
\* while a row passes the search (StorageQueries, TablePage).
ShowsWhatWasAskedFor ==
  /\ route = "queries" => queries!ShownIsOfItsScope /\ queries!AbsenceWasAnswered
  /\ route = "dataTable" => dataTable!NoBlankPage
=============================================================================

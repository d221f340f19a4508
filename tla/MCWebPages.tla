----------------------------- MODULE MCWebPages -----------------------------
(***************************************************************************)
(* Small instances of the pages: two rows or three, the lists of them that *)
(* tell the branches of the code apart, one or two handlers at once.       *)
(***************************************************************************)
EXTENDS WebPages, TLC

---------------------------------------------------------------------------
(* The lists that may arrive *)

Two == {"a", "b"}

ReadyImages == ("a" :> [ready |-> TRUE, copies |-> 1] @@ "b" :> [ready |-> TRUE, copies |-> 2])
ImageLists == {ReadyImages, ("a" :> [ready |-> FALSE, copies |-> 1])}
ImageBackups == {("a" :> TRUE), ("a" :> TRUE @@ "b" :> FALSE)}

Offers == {"backupList", "backupDelete", "sync", "last"}
BackupLists == {("a" :> Offers @@ "b" :> Offers), ("a" :> {"backupList"} @@ "b" :> Offers)}

PerEngine(a, b) == [engines |-> {"v1", "v2"}, of |-> ("v1" :> a @@ "v2" :> b)]
Setting(category, readOnly, byEngine, value) ==
  [category |-> category, readOnly |-> readOnly, byEngine |-> byEngine, value |-> value]
Plain == [engines |-> {}, of |-> <<0>>]
SettingLists ==
  {("p" :> Setting("general", FALSE, FALSE, Plain)
    @@ "m" :> Setting("danger zone", FALSE, TRUE, PerEngine(0, 0))),
   ("p" :> Setting("general", TRUE, FALSE, Plain)
    @@ "m" :> Setting("danger zone", FALSE, TRUE, PerEngine(0, 1)))}

NodeRow(allow, disks) == [allowScheduling |-> allow, disks |-> disks]
NodeLists ==
  {("n1" :> NodeRow(TRUE, {"d1"}) @@ "n2" :> NodeRow(FALSE, {"d1", "__new_0"})),
   ("n1" :> NodeRow(FALSE, {"d1", "__new_0"}) @@ "n2" :> NodeRow(FALSE, {}))}

\* Listings of snapshots: each may be taken from any older one, or from none that
\* is listed; children are reported for all, for some or for none,
\* rightly or not.  And a circle of parents, one of children, two of one time.
Snapshot(s, parent, children) ==
  [parent |-> parent, children |-> children, system |-> s = "sys",
   created |-> CASE s = "s1" -> 1 [] s = "sys" -> 2 [] s = "s2" -> 3]
Older(s) == CASE s = "s1" -> {} [] s = "sys" -> {"s1"} [] s = "s2" -> {"s1", "sys"}
Newer(s) == CASE s = "s1" -> {"s2", "sys"} [] s = "sys" -> {"s2"} [] s = "s2" -> {}
InTime(names) ==
  {[s \in names |-> Snapshot(s, parent[s], children[s])] :
     parent \in {f \in [names -> names \cup {None}] : \A s \in names : f[s] \in Older(s) \cup {None}},
     children \in {f \in [names -> SUBSET names] : \A s \in names : f[s] \subseteq Newer(s)}}
SnapshotLists ==
  UNION {InTime(names) : names \in SUBSET {"s1", "sys", "s2"}}
  \cup {("s1" :> Snapshot("s1", "s2", {}) @@ "s2" :> Snapshot("s2", "s1", {}) @@ "sys" :> Snapshot("sys", "s1", {})),
        ("s1" :> Snapshot("s1", None, {"s2"}) @@ "s2" :> Snapshot("s2", "s1", {"s1", "sys"}) @@ "sys" :> Snapshot("sys", "s2", {"s2"})),
        ("s1" :> Snapshot("s1", None, {}) @@ "s2" :> [Snapshot("s2", "s1", {}) EXCEPT !.created = 2] @@ "sys" :> Snapshot("sys", "s1", {}))}

\* Providers as discovery finds them.
Provider(id, kind, caps, kinds, engines) ==
  [id |-> id, kind |-> kind, capabilities |-> caps, resourceKinds |-> kinds, engines |-> engines]
Capable == {"claims", "volumes", "snapshots", "attachments", "capacity", "events"}
EveryProvider ==
  {Provider("longhorn", "longhorn", {"claims", "volumes"}, {}, {}),
   Provider("rook-ceph", "rook-ceph", Capable,
            {"clusters", "quorum", "osds", "pools", "filesystems", "mirroring", "rbd-images"}, {}),
   Provider("openebs", "openebs", Capable, {}, {"mayastor", "lvm", "zfs", "hostpath"}),
   Provider("linstor", "linstor", Capable, {}, {}),
   Provider("csi.example", "csi", {"claims"}, {}, {})}
FewProviders == {Provider("rook-ceph", "rook-ceph", {}, {"pools"}, {}),
                 Provider("openebs", "openebs", {}, {}, {"lvm"})}

\* The dashboard of a cluster, published or proxied.
Published == [protocol |-> "http:", bare |-> TRUE, underPrefix |-> FALSE]
NoAddress == [protocol |-> "", bare |-> FALSE, underPrefix |-> FALSE]
Dashboards == {[publicUrl |-> Published, gatewayPath |-> NoAddress, release |-> "20.2"],
               [publicUrl |-> NoAddress, gatewayPath |-> Published, release |-> "20.2"]}

\* One map of instances, two, or all three.
Report(instances, engines, replicas) == [instances |-> instances, engines |-> engines, replicas |-> replicas]
InstanceReports == {Report({"e", "r"}, None, None), Report(None, {"e"}, {"r"}), Report({}, {"e"}, None)}
ManagerLists == {("a" :> r) : r \in InstanceReports} \cup {("b" :> Report(None, {"e"}, None))}

\* What the server observed of the storage: nothing, all of it, a part, a guess.
StorageAnswer(rows, conditions, more) == [rows |-> rows, conditions |-> conditions, more |-> more]
StorageAnswers(panel) ==
  IF panel = "InventoryPage" THEN {StorageAnswer({"authoritative"}, c, ~c) : c \in BOOLEAN}
  ELSE {StorageAnswer({}, TRUE, FALSE), StorageAnswer({"authoritative"}, FALSE, FALSE),
        StorageAnswer({"authoritative", "derived"}, FALSE, FALSE)}
EveryPanel ==
  {"InventoryPage", "ProviderWorkloadFootprint", "TimelinePanel", "CapacityOwnershipPanel",
   "ForecastSummary", "ProviderComparisonPanel", "RemediationGuidancePanel", "RelationshipPanel",
   "ImpactPanel", "DriftPanel", "RookCephClusterPage", "OpenEBSProviderPage",
   "LinstorProviderPage", "CephResourcePage", "OpenEBSResourcePage", "LinstorResourcePage"}

BenchmarksMet == [v \in {"run", "pages", "details", "delete"} |->
                     IF v \in {"run", "pages"} THEN {"b1", "b2"} ELSE {"b1"}]

Off == [on |-> {}, ids |-> {}]
PolicyRequests == {Off, [on |-> {"accept", "portable", "rook", "poolDelete"}, ids |-> {"*"}]}

---------------------------------------------------------------------------
(* The constants of the pages *)

SomeNames(page) ==
  CASE page = "settings"   -> {"p", "m"}
    [] page = "users"      -> {"a", "b", "c"}
    [] page = "nodes"      -> {"n1", "n2"}
    [] page = "detail"     -> {"s1", "s2", "sys"}
    [] page = "operations" -> {"x"}
    [] page = "metrics"    -> {"m", "n"}
    [] OTHER               -> Two

SomeLists(page) ==
  CASE page = "images"        -> ImageLists
    [] page = "systemBackups" -> {[n \in Two |-> TRUE], ("a" :> TRUE)}
    [] page = "engineImages"  -> {("a" :> FALSE @@ "b" :> TRUE), ("a" :> FALSE)}
    [] page = "orphans"       -> {("a" :> "instance" @@ "b" :> "replica"), ("a" :> "instance")}
    [] page = "backupTargets" -> {("a" :> "backupTargetSync" @@ "b" :> "backupTargetUpdate"), ("a" :> "none")}
    [] page = "backups"       -> BackupLists
    [] page = "recurringJobs" -> {("a" :> "snapshot" @@ "b" :> "system-backup"), ("a" :> "snapshot")}
    [] page = "settings"      -> SettingLists
    [] page = "users"         -> {("a" :> FALSE @@ "b" :> FALSE @@ "c" :> TRUE), ("a" :> FALSE)}
    [] page = "nodes"         -> NodeLists
    [] page = "detail"        -> SnapshotLists
    [] page = "ceph"          -> Dashboards
    [] page = "support"       -> ManagerLists
    [] page = "workspace"     -> {EveryProvider, FewProviders}

SomeVisits(page) ==
  CASE page = "images"        -> {"create", "copies", "restore", "delete"}
    [] page = "backupTargets" -> {"table", "create", "wizard"}
    [] page = "backups"       -> {"restore", "lists", "delete"}
    [] page = "nodes"         -> {"rows", "disks"}
    [] page = "volumes"       -> {"filter", "create", "bulk", "action", "delete"}
    [] page = "detail"        -> {"snapshots", "dialogs"}
    [] page = "shell"         -> {"theme", "pages", "messages"}

FewCalls(page) == CASE page = "backups" -> 3 [] page = "users" -> 1 [] OTHER -> 2

OneList(page) == 1

FewTicks(page) == CASE page = "metrics" -> 3 [] page = "ceph" -> 5 [] page = "support" -> 4

EngineOfTwo == ("a" :> "v1" @@ "b" :> "v2")
MatchingRows == ("" :> 1 .. 3 @@ "s" :> {1, 3})
KindOfAction == ("expand" :> None @@ "deletePool" :> "rook")
ManyReports == InstanceReports \cup {Report(None, {"e"}, None)}
=============================================================================

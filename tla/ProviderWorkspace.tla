-------------------------- MODULE ProviderWorkspace --------------------------
(***************************************************************************)
(* Where a user is, the provider whose workspace that makes the sidebar    *)
(* show, and every link of the sidebar, of the command palette and of the  *)
(* storage pages.  A path is the sequence of its segments.                 *)
(***************************************************************************)
EXTENDS Naturals, Sequences, FiniteSets

CONSTANTS Lists,     \* the sets of providers that discovery may find
          Strangers, \* what may be entered as a provider without being one
          None

VARIABLES discovered, \* the providers, None while they are loaded
          location,   \* the path, and the provider its query names
          role

workspaceVars == <<discovered, location, role>>

At(path) == [path |-> path, provider |-> None]

providerFilter(path, id) == [path |-> path, provider |-> id]

StartsWith(path, prefix) ==
  Len(prefix) <= Len(path) /\ SubSeq(path, 1, Len(prefix)) = prefix

---------------------------------------------------------------------------
(* The items of the sidebar *)

Item(to) == [to |-> to, end |-> FALSE, admin |-> FALSE]

Exact(to) == [Item(to) EXCEPT !.end = TRUE]

allStorage ==
  {Exact(At(<<"storage", "providers">>)), Item(At(<<"benchmarks">>))}
    \cup {Item(At(<<"storage", page>>)) : page \in {"inventory", "operations", "events", "insights"}}

system == {Item(At(<<"status">>)), [Exact(At(<<"admin">>)) EXCEPT !.admin = TRUE]}

longhorn ==
  {Exact(At(<<"storage", "providers", "longhorn">>)),
   Exact(At(<<"storage", "providers", "longhorn", "context">>)),
   Item(providerFilter(<<"storage", "operations">>, "longhorn")),
   Item(providerFilter(<<"benchmarks">>, "longhorn"))}
    \cup {Item(At(<<page>>)) : page \in
            {"dashboard", "volumes", "nodes", "backups", "backup-targets", "recurring-jobs",
             "system-backups", "performance", "backing-images", "engine-images",
             "instance-managers", "orphans", "support-bundle", "preflight", "settings"}}

Page(id) == <<"storage", "providers", id>>

\* What every other provider has.
Overview(p) ==
  {Exact(At(Page(p.id))), Exact(At(Page(p.id) \o <<"context">>)),
   Item(providerFilter(<<"storage", "operations">>, p.id))}

commonInventoryItems(p) ==
  {Item(providerFilter(<<"storage", kind>>, p.id)) : kind \in {"classes"} \cup
    (p.capabilities \cap {"claims", "volumes", "snapshots", "attachments", "capacity", "events"})}

Kinds(p, product, kinds) == {Item(At(Page(p.id) \o <<product, kind>>)) : kind \in kinds}

rookCephGroups(p) ==
  Overview(p) \cup commonInventoryItems(p)
    \cup Kinds(p, "ceph", p.resourceKinds \cap
           {"clusters", "quorum", "osds", "pools", "filesystems", "mirroring", "rbd-images"})

\* The kinds of the engines a provider has installed.
EngineKinds ==
  [mayastor |-> {"disk-pools"},
   lvm      |-> {"lvm-nodes", "lvm-volumes", "lvm-snapshots"},
   zfs      |-> {"zfs-nodes", "zfs-volumes", "zfs-snapshots", "zfs-backups", "zfs-restores"},
   hostpath |-> {"hostpath-volumes"}]

openEBSGroups(p) ==
  Overview(p) \cup commonInventoryItems(p)
    \cup Kinds(p, "openebs", {"components"} \cup UNION {EngineKinds[e] : e \in p.engines})

linstorGroups(p) ==
  Overview(p) \cup commonInventoryItems(p)
    \cup Kinds(p, "linstor",
           {"components", "nodes", "storage-pools", "resource-groups", "resource-definitions",
            "resources", "snapshots", "remotes", "schedules", "error-reports", "clusters",
            "satellites", "satellite-configurations", "node-connections"})

genericProviderGroups(p) == Overview(p) \cup commonInventoryItems(p)

\* The items of a workspace, for a role.
navigationForWorkspace(p, r) ==
  {item \in system \cup
     (CASE p = None -> allStorage
        [] p # None /\ (p.kind = "longhorn" \/ p.id = "longhorn") -> longhorn
        [] p # None /\ p.kind = "rook-ceph" -> rookCephGroups(p)
        [] p # None /\ p.kind = "openebs" -> openEBSGroups(p)
        [] p # None /\ p.kind = "linstor" -> linstorGroups(p)
        [] OTHER -> genericProviderGroups(p))
   : item.admin => r = "admin"}

---------------------------------------------------------------------------
(* The workspace of a location *)

\* Seeded fault: pages that Longhorn shares with the others count as its own.
LonghornPaths == {item.to.path : item \in longhorn}

legacyLonghornPaths ==
  {item.to.path : item \in longhorn} \ {<<"storage", "operations">>, <<"benchmarks">>}

candidateProviderId(l) ==
  IF StartsWith(l.path, <<"storage", "providers">>) /\ Len(l.path) > 2 THEN l.path[3]
  ELSE IF l.provider # None THEN l.provider
  ELSE IF \E path \in legacyLonghornPaths : StartsWith(l.path, path) THEN "longhorn"
  ELSE None

placeholderProvider(id) ==
  [id |-> id, capabilities |-> {}, resourceKinds |-> {}, engines |-> {},
   kind |-> IF id \in {"longhorn", "rook-ceph", "openebs", "linstor"} THEN id ELSE "csi"]

\* While the providers are loaded, the one that is named; later only a
\* provider that was discovered.
Workspace(l) ==
  LET id == candidateProviderId(l) IN
  IF id = None THEN None
  ELSE IF discovered = None THEN placeholderProvider(id)
  ELSE IF \E p \in discovered : p.id = id THEN CHOOSE p \in discovered : p.id = id
  ELSE None

Offered(l) == navigationForWorkspace(Workspace(l), role)

isActive(item, l) ==
  IF item.end THEN l.path = item.to.path ELSE StartsWith(l.path, item.to.path)

workspaceLanding(p) ==
  IF p = None THEN At(<<"storage", "providers">>)
  ELSE IF p.kind = "longhorn" \/ p.id = "longhorn" THEN At(<<"dashboard">>)
  ELSE At(Page(p.id))

---------------------------------------------------------------------------
(* The pages *)

\* ":" stands for a parameter.
Routes ==
  {<<page>> : page \in
     {"dashboard", "volumes", "nodes", "backups", "backup-targets", "recurring-jobs",
      "system-backups", "settings", "support-bundle", "engine-images", "backing-images",
      "instance-managers", "orphans", "performance", "benchmarks", "admin", "account",
      "preflight", "status"}}
  \cup {<<page, ":">> : page \in {"volumes", "nodes"}}
  \cup {<<"admin", page>> : page \in {"users", "sso", "audit", "storage-policy", "security"}}
  \cup {<<"storage", page>> : page \in
          {"providers", "inventory", "classes", "claims", "volumes", "snapshots", "attachments",
           "capacity", "events", "insights", "operations"}}
  \cup {<<"storage", page, ":">> : page \in {"providers", "volumes", "operations", "actions"}}
  \cup {<<"storage", page, ":", ":">> : page \in {"claims", "relationships"}}
  \cup {<<"storage", "providers", ":", "context">>}
  \cup {<<"storage", "providers", ":", product, ":">> : product \in {"ceph", "openebs", "linstor"}}
  \cup {<<"storage", "providers", ":", product, ":", ":">> : product \in {"ceph", "openebs", "linstor"}}

Routed(path) ==
  \E r \in Routes : Len(r) = Len(path) /\ \A i \in 1..Len(r) : r[i] \in {":", path[i]}

Discovered == IF discovered = None THEN {} ELSE discovered

providerCards == {At(Page(p.id)) : p \in Discovered}

inventoryCards(l) ==
  {providerFilter(<<"storage", kind>>, l.provider) : kind \in
    {"classes", "claims", "volumes", "snapshots", "attachments", "capacity"}}

rookLinks(p) ==
  {At(Page(p.id) \o <<"context">>)}
    \cup {providerFilter(<<"storage", page>>, p.id) : page \in {"operations", "classes", "claims"}}
    \cup {At(Page(p.id) \o <<"ceph", kind>>) : kind \in
            {"pools", "osds", "filesystems", "rbd-images", "quorum", "mirroring"}}

\* The card of an engine that is installed shows the first of its kinds that is counted.
openEBSLinks(p) ==
  {At(Page(p.id) \o <<"context">>), providerFilter(<<"storage", "classes">>, p.id)}
    \cup UNION {{At(Page(p.id) \o <<"openebs", kind>>) : kind \in EngineKinds[e]} : e \in p.engines}

linstorLinks(p) ==
  {At(Page(p.id) \o <<"context">>)}
    \cup {At(Page(p.id) \o <<"linstor", kind>>) : kind \in
            {"components", "clusters", "satellites", "nodes", "storage-pools", "resource-groups",
             "resources", "snapshots", "remotes", "schedules", "error-reports"}}

otherLinks(p) ==
  {At(Page(p.id) \o <<"context">>)}
    \cup {providerFilter(<<"storage", page>>, p.id) : page \in {"classes", "claims", "volumes"}}

DashboardLinks(p) ==
  CASE p.kind = "rook-ceph" -> rookLinks(p)
    [] p.kind = "openebs" -> openEBSLinks(p)
    [] p.kind = "linstor" -> linstorLinks(p)
    [] OTHER -> otherLinks(p)

ContextLink(id) == providerFilter(<<"storage", "relationships", "kind", "x">>, id)

\* Where the object that backs a volume is shown.
ProviderReferenceLink(p) ==
  CASE p.kind = "longhorn" -> {At(<<"volumes", "x">>)}
    [] p.kind = "rook-ceph" -> {At(Page(p.id) \o <<"ceph", "rbd-images", "x">>)}
    [] p.kind = "linstor" -> {At(Page(p.id) \o <<"linstor", "resource-definitions", "x">>)}
    [] p.kind = "openebs" -> {At(Page(p.id) \o <<"openebs", kind, "x">>) :
                                kind \in {"hostpath-volumes", "lvm-volumes", "zfs-volumes"}}
    [] OTHER -> {}

\* The providers whose objects a page of the inventory lists.
Listed(l) == {p \in Discovered : l.provider \in {None, p.id}}

\* Objects of these kinds open in the page of their relationships.
relationshipRows(l) == {ContextLink(p.id) : p \in Listed(l)}

claimRows(l) == {providerFilter(<<"storage", "claims", "x", "y">>, l.provider) : p \in Listed(l)}

volumeRows(l) == {providerFilter(<<"storage", "volumes", "x">>, l.provider) : p \in Listed(l)}

claimLinks(l) ==
  UNION {{providerFilter(<<"storage", "volumes", "x">>, p.id), ContextLink(p.id),
          providerFilter(<<"storage", "attachments">>, p.id)} \cup ProviderReferenceLink(p) : p \in Listed(l)}

volumeLinks(l) ==
  UNION {{providerFilter(<<"storage", "claims", "x", "y">>, p.id), ContextLink(p.id),
          providerFilter(<<"storage", "attachments">>, p.id)} \cup ProviderReferenceLink(p) : p \in Listed(l)}

resourceRows(l) == {At(Append(l.path, "x"))}

\* The links of the page that is shown.
PageLinks(l) ==
  LET path == l.path  own == {p \in Discovered : Len(path) > 2 /\ p.id = path[3]} IN
  CASE path = <<"storage", "providers">> -> providerCards
    [] path = <<"dashboard">> /\ discovered # None /\ "longhorn" \notin {p.id : p \in discovered} -> providerCards
    [] path = <<"storage", "inventory">> -> inventoryCards(l)
    [] path \in {<<"storage", "classes">>, <<"storage", "snapshots">>, <<"storage", "attachments">>} -> relationshipRows(l)
    [] path = <<"storage", "claims">> -> claimRows(l)
    [] path = <<"storage", "volumes">> -> volumeRows(l)
    [] StartsWith(path, <<"storage", "claims">>) /\ Len(path) = 4 -> claimLinks(l)
    [] StartsWith(path, <<"storage", "volumes">>) /\ Len(path) = 3 -> volumeLinks(l)
    [] StartsWith(path, <<"storage", "providers">>) /\ Len(path) = 3 -> UNION {DashboardLinks(p) : p \in own}
    [] StartsWith(path, <<"storage", "providers">>) /\ Len(path) = 5 -> {link \in resourceRows(l) : own # {}}
    [] StartsWith(path, <<"storage", "providers">>) /\ Len(path) = 6 /\ path[4] # "linstor" -> {ContextLink(p.id) : p \in own}
    [] path \in {<<"volumes">>, <<"nodes">>} -> resourceRows(l)
    [] OTHER -> {}

\* The support button of the top bar.
supportPath(p) ==
  IF p # None /\ (p.kind = "longhorn" \/ p.id = "longhorn") THEN At(<<"support-bundle">>) ELSE At(<<"status">>)

---------------------------------------------------------------------------
WorkspaceInit ==
  /\ discovered = None
  /\ location \in {At(<<"dashboard">>)} \cup {At(Page(id)) : id \in Strangers}
  /\ role \in {"admin", "operator", "viewer"}

GoTo(l) == location' = l /\ UNCHANGED <<discovered, role>>

Discover(providers) == discovered' = providers /\ UNCHANGED <<location, role>>

\* In the sidebar or in the command palette.
FollowItem == \E item \in Offered(location) : GoTo(item.to)

FollowLink == \E l \in PageLinks(location) : GoTo(l)

changeWorkspace == \E p \in {None, Workspace(location)} \cup Discovered : GoTo(workspaceLanding(p))

Support == GoTo(supportPath(Workspace(location)))

\* A provider is entered in the filters of the inventory, a character at a time.
SetProviderFilter ==
  /\ \E kind \in {"classes", "claims", "volumes", "snapshots", "attachments", "capacity", "events"} :
       location.path = <<"storage", kind>>
  /\ \E id \in {None} \cup Strangers \cup {p.id : p \in Discovered} : GoTo([location EXCEPT !.provider = id])

\* A provider is chosen as the scope of the insights.
SetScope ==
  /\ location.path = <<"storage", "insights">>
  /\ \E id \in {None} \cup {p.id : p \in Discovered} : GoTo([location EXCEPT !.provider = id])

WorkspaceNext ==
  \/ \E providers \in Lists : Discover(providers)
  \/ FollowItem
  \/ FollowLink
  \/ changeWorkspace
  \/ Support
  \/ SetProviderFilter
  \/ SetScope

WorkspaceSpec == WorkspaceInit /\ [][WorkspaceNext]_workspaceVars

---------------------------------------------------------------------------
TypeOK ==
  /\ discovered \in Lists \cup {None}
  /\ Routed(location.path)
  /\ role \in {"admin", "operator", "viewer"}

\* Wherever the user is, and before as well as after the providers are known:
\* an item of the sidebar leads to a page, in a workspace that offers the item
\* too and marks it and no other as the one that is open; a link of a page
\* leads to a page, and does not leave the workspace it is in.
LinksArrive ==
  /\ \A item \in Offered(location) :
       /\ Routed(item.to.path)
       /\ {other \in Offered(item.to) : isActive(other, item.to)} = {item}
  /\ \A l \in PageLinks(location) :
       /\ Routed(l.path)
       /\ Workspace(location) # None => Workspace(l) = Workspace(location)
============================================================================

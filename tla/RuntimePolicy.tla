---------------------------- MODULE RuntimePolicy ----------------------------
(***************************************************************************)
(* The runtime storage policy of Highland                                  *)
(* (apps/api/internal/policy/policy.go and http.go).                       *)
(*                                                                         *)
(* One HighlandPolicy object is the source of truth.  Every API replica    *)
(* follows it through an informer and keeps a snapshot of what it grants;  *)
(* a deleted or malformed policy and a failed watch close the snapshot.    *)
(* Administrators review and then apply changes through any replica, other *)
(* clients (GitOps, kubectl) edit the object directly, and each replica    *)
(* writes the status of what it observed.                                  *)
(***************************************************************************)
EXTENDS Integers, Sequences, SequencesExt

CONSTANTS
  Replica,
  Admin,        \* administrators, one confirmed change each
  Providers,    \* identifiers of the portable storage providers
  Policies,     \* spec.storage values to explore (a subset of StoragePolicy)
  Ceil,         \* permission ceiling installed with each replica
  Author,       \* who made the last reviewed change before the start, or Nobody
  MaxEdits,     \* bound: changes of the object other than status writes
  MaxFaults     \* bound: failed watches, lists, calls and restarts together

Wildcard    == "*"                    \* the legacy wildcard provider
Nobody == "nobody"                \* no last-changed-by annotation
NoList == {"nil"}                \* portableKubernetesProviderIds left out

StoragePolicy ==
  [acceptNewOperations: BOOLEAN, portableWrites: BOOLEAN,
   providerIds: SUBSET (Providers \cup {Wildcard}) \cup {NoList},
   longhornWrites: BOOLEAN, rookCephWrites: BOOLEAN,
   allowClassDelete: BOOLEAN, allowPoolDelete: BOOLEAN]

Ceiling ==
  [portableWrites: BOOLEAN, longhornWrites: BOOLEAN, rookCephWrites: BOOLEAN,
   allowClassDelete: BOOLEAN, allowPoolDelete: BOOLEAN]

ASSUME PolicyAssumption ==
  /\ Wildcard \notin Providers /\ NoList \cap (Providers \cup {Wildcard}) = {}
  /\ Policies \subseteq StoragePolicy
  /\ Ceil \in [Replica -> Ceiling]
  /\ Author \in Admin \cup {Nobody} /\ Nobody \notin Admin
  /\ MaxEdits \in Nat /\ MaxFaults \in Nat

-----------------------------------------------------------------------------
(* Pure functions of a policy *)

\* Duplicates, blanks and order of the list are data of the set.
Normalize(p) ==
  IF ~p.portableWrites THEN [p EXCEPT !.providerIds = {}]
  ELSE IF p.providerIds = NoList THEN [p EXCEPT !.providerIds = {Wildcard}]
  ELSE p

Validate(p) ==
  /\ p.acceptNewOperations
       \/ ~(\/ p.portableWrites \/ p.longhornWrites \/ p.rookCephWrites
            \/ p.allowClassDelete \/ p.allowPoolDelete)
  /\ p.allowClassDelete \/ p.allowPoolDelete => p.rookCephWrites
  /\ p.portableWrites => p.providerIds # {}
  /\ Wildcard \in p.providerIds => p.providerIds = {Wildcard}

Intersect(requested, c) ==
  LET p == Normalize(requested)
      portable == p.acceptNewOperations /\ p.portableWrites /\ c.portableWrites
      ceph     == p.acceptNewOperations /\ p.rookCephWrites /\ c.rookCephWrites
  IN [acceptNewOperations |-> p.acceptNewOperations,
      portableWrites   |-> portable,
      providerIds      |-> IF portable THEN p.providerIds ELSE {},
      longhornWrites   |-> p.acceptNewOperations /\ p.longhornWrites /\ c.longhornWrites,
      rookCephWrites   |-> ceph,
      allowClassDelete |-> ceph /\ p.allowClassDelete /\ c.allowClassDelete,
      allowPoolDelete  |-> ceph /\ p.allowPoolDelete /\ c.allowPoolDelete]

Gates == {"portableWrites", "longhornWrites", "rookCephWrites",
          "allowClassDelete", "allowPoolDelete"}

CeilingViolations(p, c) == {g \in Gates : p[g] /\ ~c[g]}

\* The remaining functions are only ever given normalized policies.
AllowsPortableProvider(p, provider) ==
  /\ p.acceptNewOperations /\ p.portableWrites
  /\ {Wildcard, provider} \cap p.providerIds # {}

ProviderScopeBroadens(current, requested) ==
  /\ current # {Wildcard}
  /\ requested = {Wildcard} \/ ~(requested \subseteq current)

Broadens(current, requested) ==
  \/ \E g \in Gates \cup {"acceptNewOperations"} : ~current[g] /\ requested[g]
  \/ ProviderScopeBroadens(current.providerIds, requested.providerIds)

\* What a policy lets somebody do.
Grants(p) ==
  {g \in Gates \cup {"acceptNewOperations"} : p[g]}
    \cup {provider \in Providers : AllowsPortableProvider(p, provider)}

-----------------------------------------------------------------------------
VARIABLES
  object,     \* the HighlandPolicy object as the API server stores it
  revision,   \* latest resource version handed out
  edits, faults,
  watch,      \* per replica: "up", or "listing" or "failed" before the next list
  queue,      \* per replica: notifications sent or received, not yet handled
  seen,       \* per replica: last object handed to the event handler
  snapshot,   \* per replica: Manager.snapshot
  writers,    \* pending updateStatus goroutines
  admin       \* per administrator: the confirmed change and its request

server   == <<object, revision>>
informer == <<watch, queue, seen>>
vars     == <<server, edits, faults, informer, snapshot, writers, admin>>

Off == [acceptNewOperations |-> FALSE, portableWrites |-> FALSE, providerIds |-> {},
        longhornWrites |-> FALSE, rookCephWrites |-> FALSE,
        allowClassDelete |-> FALSE, allowPoolDelete |-> FALSE]

NoStatus == [gen |-> 0, effective |-> Off, violations |-> {}]
Absent == [rv |-> 0, gen |-> 0, spec |-> Off, by |-> Nobody, status |-> NoStatus]

\* Source "unavailable": nothing is requested and nothing is granted.
Unavailable == [rv |-> 0, gen |-> 0, requested |-> Off, effective |-> Off, by |-> Nobody]
Authoritative(s) == s.rv # 0

NoCeiling == [portableWrites |-> FALSE, longhornWrites |-> FALSE,
              rookCephWrites |-> FALSE, allowClassDelete |-> FALSE,
              allowPoolDelete |-> FALSE]

\* ceiling is what the plan hash adds to the reviewed version and policy.
Idle == [pc |-> "idle", base |-> 0, policy |-> Off, ceiling |-> NoCeiling,
         broadening |-> FALSE, pool |-> FALSE, at |-> Nobody, phrases |-> {},
         written |-> [rv |-> 0, gen |-> 0], answer |-> Unavailable]

\* The object may date from before the schema's rules, so it may be malformed.
Init ==
  /\ \E p \in Policies :
       object = [Absent EXCEPT !.rv = 1, !.gen = 1, !.spec = p, !.by = Author]
  /\ revision = 1 /\ edits = 0 /\ faults = 0
  /\ watch = [r \in Replica |-> "listing"]
  /\ queue = [r \in Replica |-> <<>>] /\ seen = [r \in Replica |-> Absent]
  /\ snapshot = [r \in Replica |-> Unavailable]
  /\ writers = {} /\ admin = [a \in Admin |-> Idle]

Resend(c) == [c EXCEPT !.pc = "reviewed", !.at = Nobody, !.phrases = {},
                       !.written = Idle.written]

-----------------------------------------------------------------------------
(* The API server and its other clients *)

Valid(p) == Validate(Normalize(p))

\* The reflector drops what was not yet sent when its watch ends.
Notify(o) ==
  queue' = [r \in Replica |-> IF watch[r] = "up" THEN Append(queue[r], o) ELSE queue[r]]

Store(o) ==
  /\ revision' = revision + 1
  /\ object' = [o EXCEPT !.rv = revision + 1]
  /\ Notify(object')
  /\ UNCHANGED <<watch, seen>>

Edit == edits < MaxEdits /\ edits' = edits + 1

Fault == faults < MaxFaults /\ faults' = faults + 1

WithSpec(p) == [object EXCEPT !.spec = p, !.gen = IF p = object.spec THEN @ ELSE @ + 1]

\* kubectl and GitOps keep the annotations of the last change made by an admin.
EditPolicy ==
  /\ object.rv # 0 /\ Edit
  /\ \E p \in Policies : Valid(p) /\ p # object.spec /\ Store(WithSpec(p))
  /\ UNCHANGED <<faults, snapshot, writers, admin>>

CreatePolicy ==
  /\ object.rv = 0 /\ Edit
  /\ \E p \in Policies : Valid(p) /\ Store([Absent EXCEPT !.gen = 1, !.spec = p])
  /\ UNCHANGED <<faults, snapshot, writers, admin>>

DeletePolicy ==
  /\ object.rv # 0 /\ Edit
  /\ object' = Absent /\ Notify(Absent)
  /\ UNCHANGED <<revision, faults, watch, seen, snapshot, writers, admin>>

Environment == EditPolicy \/ CreatePolicy \/ DeletePolicy

-----------------------------------------------------------------------------
(* The informer of a replica and Manager.observe *)

\* What the informer's store holds once the queue is delivered.
Known(r) == IF queue[r] = <<>> THEN seen[r] ELSE Last(queue[r])

StatusOf(r, o) ==
  [gen |-> o.gen, effective |-> Intersect(o.spec, Ceil[r]),
   violations |-> CeilingViolations(Normalize(o.spec), Ceil[r])]

\* Seeded fault: only the source of the snapshot is reset.
KeepGrants(r) == [snapshot[r] EXCEPT !.rv = 0]

FailClosed(r) == Unavailable

\* Deleted and malformed policies close the snapshot.
SnapshotOf(r, o) ==
  IF o.rv = 0 \/ ~Valid(o.spec) THEN FailClosed(r)
  ELSE [rv |-> o.rv, gen |-> o.gen, requested |-> Normalize(o.spec),
        effective |-> Intersect(o.spec, Ceil[r]), by |-> o.by]

\* Seeded fault: a status is written only when the grants changed.
ReportChanges(r, o) ==
  IF SnapshotOf(r, o).effective # snapshot[r].effective
  THEN {[at |-> r, rv |-> o.rv, status |-> StatusOf(r, o)]} ELSE {}

\* updateStatus does nothing when the object already carries the status.
WriterFor(r, o) ==
  IF Authoritative(SnapshotOf(r, o)) /\ o.status # StatusOf(r, o)
  THEN {[at |-> r, rv |-> o.rv, status |-> StatusOf(r, o)]} ELSE {}

\* Seeded fault: every notification is handled by a goroutine of its own.
ObserveAnyOrder(r) ==
  \E n \in 1..Len(queue[r]) :
    /\ queue' = [queue EXCEPT ![r] = RemoveAt(@, n)]
    /\ seen' = [seen EXCEPT ![r] = queue[r][n]]
    /\ snapshot' = [snapshot EXCEPT ![r] = SnapshotOf(r, queue[r][n])]
    /\ writers' = writers \cup WriterFor(r, queue[r][n])
    /\ UNCHANGED <<server, edits, faults, watch, admin>>

Observe(r) ==
  /\ queue[r] # <<>>
  /\ queue' = [queue EXCEPT ![r] = Tail(@)]
  /\ seen' = [seen EXCEPT ![r] = Head(queue[r])]
  /\ snapshot' = [snapshot EXCEPT ![r] = SnapshotOf(r, Head(queue[r]))]
  /\ writers' = writers \cup WriterFor(r, Head(queue[r]))
  /\ UNCHANGED <<server, edits, faults, watch, admin>>

\* Seeded fault: the status is patched whatever the object is now.
Blindly(w) == object.rv # 0

\* The object sent with UpdateStatus carries the observed resource version.
IsObserved(w) == w.rv = object.rv

StatusWrite(w) ==
  /\ writers' = writers \ {w}
  /\ IF IsObserved(w)
     THEN Store([object EXCEPT !.status = w.status])
     ELSE UNCHANGED <<server, informer>>
  /\ UNCHANGED <<edits, faults, snapshot, admin>>

StatusWriteFails(w) ==
  /\ Fault /\ writers' = writers \ {w}
  /\ UNCHANGED <<server, edits, informer, snapshot, admin>>

\* The handler runs on the reflector's goroutine; notifications that arrived
\* before are still queued for the other one.
WatchEnds(r, reported) ==
  /\ watch[r] = "up" /\ Fault
  /\ \E n \in 0..Len(queue[r]) : queue' = [queue EXCEPT ![r] = SubSeq(@, 1, n)]
  /\ watch' = [watch EXCEPT ![r] = IF reported THEN "failed" ELSE "listing"]
  /\ snapshot' = IF reported THEN [snapshot EXCEPT ![r] = FailClosed(r)] ELSE snapshot
  /\ UNCHANGED <<server, edits, seen, writers, admin>>

ListFails(r) ==
  /\ watch[r] # "up" /\ Fault
  /\ watch' = [watch EXCEPT ![r] = "failed"]
  /\ snapshot' = [snapshot EXCEPT ![r] = FailClosed(r)]
  /\ UNCHANGED <<server, edits, queue, seen, writers, admin>>

\* An object listed at the known resource version is handed only to listeners
\* due for a resync.
Relist(r) ==
  /\ watch[r] # "up"
  /\ watch' = [watch EXCEPT ![r] = "up"]
  /\ \/ /\ {object.rv, Known(r).rv} # {0}
        /\ queue' = [queue EXCEPT ![r] = Append(@, object)]
     \/ object.rv = Known(r).rv /\ queue' = queue
  /\ UNCHANGED <<server, edits, faults, seen, snapshot, writers, admin>>

\* Seeded fault: the informer is created without a resync period.
NoResync(r) == FALSE

\* Every ten minutes; a resync behind queued notifications repeats the last one.
Resync(r) ==
  /\ watch[r] = "up" /\ queue[r] = <<>> /\ seen[r].rv # 0
  /\ queue' = [queue EXCEPT ![r] = <<seen[r]>>]
  /\ UNCHANGED <<server, edits, faults, watch, seen, snapshot, writers, admin>>

Restart(r) ==
  /\ Fault
  /\ watch' = [watch EXCEPT ![r] = "listing"]
  /\ queue' = [queue EXCEPT ![r] = <<>>] /\ seen' = [seen EXCEPT ![r] = Absent]
  /\ snapshot' = [snapshot EXCEPT ![r] = Unavailable]
  /\ writers' = {w \in writers : w.at # r}
  /\ admin' = [a \in Admin |->
       IF admin[a].pc \in {"admitted", "written"} /\ admin[a].at = r
       THEN Resend(admin[a]) ELSE admin[a]]
  /\ UNCHANGED <<server, edits>>

-----------------------------------------------------------------------------
(* Administrators *)

\* CreatePlan: the signed challenge holds what was reviewed.  For one resource
\* version the plan hash depends only on the ceiling of the replica.
Review(a, r) ==
  /\ admin[a].pc = "idle"
  /\ Authoritative(snapshot[r])
  /\ \E p \in Policies :
       LET to == Intersect(p, Ceil[r])  from == snapshot[r].effective IN
       /\ Valid(p) /\ CeilingViolations(Normalize(p), Ceil[r]) = {}
       /\ admin' = [admin EXCEPT ![a] =
            [Idle EXCEPT !.pc = "reviewed", !.base = snapshot[r].rv,
                         !.policy = Normalize(p), !.ceiling = Ceil[r],
                         !.broadening = Broadens(from, to),
                         !.pool = ~from.allowPoolDelete /\ to.allowPoolDelete]]
  /\ UNCHANGED <<server, edits, faults, informer, snapshot, writers>>

Answer(a, outcome, s) ==
  admin' = [admin EXCEPT ![a] =
    [Idle EXCEPT !.pc = outcome, !.answer = s, !.base = admin[a].base,
                 !.policy = admin[a].policy, !.written = admin[a].written]]

\* Conflicts, refusals and expired challenges: a new review is needed.
Refuse(a) == admin' = [admin EXCEPT ![a] = Idle]

\* The client holds the challenge and may send it again, to any replica.
Return(a) == admin' = [admin EXCEPT ![a] = Resend(@)]

\* What the dialog asks the administrator to type.
Asked(c) == (IF c.broadening THEN {"enable"} ELSE {}) \cup (IF c.pool THEN {"pool"} ELSE {})

Phrased(c, phrases) == Asked(c) \subseteq phrases

IdempotentReplay(a, s, phrases) ==
  /\ s.requested = admin[a].policy /\ s.by = a
  /\ Phrased(admin[a], phrases)

\* verify: the plan made now hashes like the reviewed one.
Verify(a, r, phrases) ==
  /\ Ceil[r] = admin[a].ceiling
  /\ Phrased(admin[a], phrases)

IsCurrent(a, s) == s.rv = admin[a].base

\* Apply up to its audit admission.  An unavailable snapshot, a failed count of
\* active operations or a failed audit append leave the administrator where he
\* was; an expired challenge is refused.
Submit(a, r) ==
  LET s == snapshot[r] IN
  /\ admin[a].pc = "reviewed" /\ Authoritative(s)
  /\ \E phrases \in SUBSET Asked(admin[a]) :
       \/ /\ ~IsCurrent(a, s) /\ IdempotentReplay(a, s, phrases)
          /\ Answer(a, "replayed", s)
       \/ /\ IsCurrent(a, s) /\ Verify(a, r, phrases)
          /\ admin' = [admin EXCEPT ![a] =
               [@ EXCEPT !.pc = "admitted", !.at = r, !.phrases = phrases]]
       \/ Refuse(a)
  /\ UNCHANGED <<server, edits, faults, informer, snapshot, writers>>

\* Seeded fault: the update is based on whatever is stored.
LastWriteWins(a) == TRUE

Matches(a) == object.rv = admin[a].base

\* Manager.Update: the object read must carry the confirmed resource version,
\* and is written back with it as precondition.
Update(a) ==
  LET next == [WithSpec(admin[a].policy) EXCEPT !.by = a] IN
  /\ admin[a].pc = "admitted"
  /\ \/ /\ object.rv # 0 /\ Matches(a) /\ Edit /\ Store(next)
        /\ \/ /\ admin' = [admin EXCEPT ![a] =
                   [@ EXCEPT !.pc = "written",
                             !.written = [rv |-> revision + 1, gen |-> next.gen]]]
              /\ UNCHANGED faults
           \/ Fault /\ Return(a)
     \/ /\ ~(object.rv # 0 /\ Matches(a))
        /\ Refuse(a)
        /\ UNCHANGED <<server, edits, faults, informer>>
     \/ /\ Fault /\ Return(a)
        /\ UNCHANGED <<server, edits, informer>>
  /\ UNCHANGED <<snapshot, writers>>

\* Seeded fault: any authoritative snapshot ends the wait.
AnySnapshot(s, c) == Authoritative(s)

IsObservedIn(s, c) == Authoritative(s) /\ s.gen >= c.written.gen

\* WaitObserved, within ten seconds or not.
WaitObserved(a) ==
  LET s == snapshot[admin[a].at] IN
  /\ admin[a].pc = "written"
  /\ \/ IsObservedIn(s, admin[a]) /\ Answer(a, "applied", s)
     \/ Return(a)
  /\ UNCHANGED <<server, edits, faults, informer, snapshot, writers>>

-----------------------------------------------------------------------------
Replicas ==
  \E r \in Replica :
    \/ Observe(r) \/ Relist(r) \/ Resync(r)
    \/ WatchEnds(r, TRUE) \/ WatchEnds(r, FALSE) \/ ListFails(r) \/ Restart(r)

StatusWriters == \E w \in writers : StatusWrite(w) \/ StatusWriteFails(w)

Admins ==
  \E a \in Admin :
    \/ \E r \in Replica : Review(a, r) \/ Submit(a, r)
    \/ Update(a) \/ WaitObserved(a)

Next == Environment \/ Replicas \/ StatusWriters \/ Admins

Spec == Init /\ [][Next]_vars

\* Informer goroutines run, failed lists are retried with backoff, resyncs come
\* round and started writers finish.  Nothing is assumed of administrators.
Fairness ==
  /\ \A r \in Replica :
       WF_vars(Observe(r)) /\ WF_vars(Relist(r)) /\ WF_vars(Resync(r))
  /\ WF_vars(\E w \in writers : StatusWrite(w))

FairSpec == Spec /\ Fairness
-----------------------------------------------------------------------------
(* Properties *)

StatusType == [gen: Nat, effective: StoragePolicy, violations: SUBSET Gates]
ObjectType == [rv: Nat, gen: Nat, spec: StoragePolicy, by: Admin \cup {Nobody},
               status: StatusType]
SnapshotType == [rv: Nat, gen: Nat, requested: StoragePolicy,
                 effective: StoragePolicy, by: Admin \cup {Nobody}]
ChangeType ==
  [pc: {"idle", "reviewed", "admitted", "written", "applied", "replayed"},
   base: Nat, policy: StoragePolicy, ceiling: Ceiling, broadening: BOOLEAN,
   pool: BOOLEAN, at: Replica \cup {Nobody}, phrases: SUBSET {"enable", "pool"},
   written: [rv: Nat, gen: Nat], answer: SnapshotType]

\* Every variable has its type, and an unavailable snapshot grants nothing.
TypeOK ==
  /\ object \in ObjectType /\ revision \in Nat /\ edits \in Nat /\ faults \in Nat
  /\ watch \in [Replica -> {"up", "listing", "failed"}]
  /\ queue \in [Replica -> Seq(ObjectType)] /\ seen \in [Replica -> ObjectType]
  /\ snapshot \in [Replica -> SnapshotType]
  /\ writers \subseteq [at: Replica, rv: Nat, status: StatusType]
  /\ admin \in [Admin -> ChangeType]
  /\ \A r \in Replica : ~Authoritative(snapshot[r]) => Grants(snapshot[r].effective) = {}

\* A change applied without the enabling phrase grants nothing, on any replica,
\* that the policy it replaced did not grant there; without the pool phrase it
\* does not allow Ceph pool deletion.  Review, confirmation and update may run
\* on different replicas with other changes in between.
NoUnreviewedGrant ==
  [][\A a \in Admin :
       admin[a].pc = "admitted" /\ admin'[a].pc # "admitted" /\ object' # object =>
         \A r \in Replica :
           LET old == Intersect(object.spec, Ceil[r])
               new == Intersect(object'.spec, Ceil[r]) IN
           /\ "enable" \notin admin[a].phrases => Grants(new) \subseteq Grants(old)
           /\ "pool" \notin admin[a].phrases /\ new.allowPoolDelete
                => old.allowPoolDelete]_vars

\* An applied answer shows the requested policy or a later one.
AppliedIsObserved ==
  \A a \in Admin : admin[a].pc = "applied" =>
    \/ admin[a].answer.requested = admin[a].policy
    \/ admin[a].answer.rv > admin[a].written.rv

\* A snapshot in force is never replaced by one of an older version.
NoRollback ==
  [][\A r \in Replica :
       Authoritative(snapshot[r]) /\ Authoritative(snapshot'[r])
         => snapshot'[r].rv >= snapshot[r].rv]_vars

\* A status that claims the current generation describes the current spec, as
\* some replica reads it, even across deletion and recreation of the object.
StatusHonest ==
  object.rv # 0 /\ object.status.gen = object.gen =>
    \E r \in Replica : object.status = StatusOf(r, object)

\* Once the policy rests, every replica enforces it.
EventuallyCurrent ==
  <>[](\A r \in Replica : snapshot[r].effective = SnapshotOf(r, object).effective)

\* Once the policy rests, its status reports it.
EventuallyReported ==
  <>[](object.rv # 0 /\ Valid(object.spec) =>
         \E r \in Replica : object.status = StatusOf(r, object))

\* While a reported outage lasts the policy is closed.
OutageFailsClosed ==
  \A r \in Replica : watch[r] = "failed" => ~Authoritative(snapshot[r])

\* A retry that is answered without a new update saw its change, or a later
\* state: the answer is not older than what the administrator reviewed.
RetryIsNotOlder ==
  \A a \in Admin : admin[a].pc = "replayed" => admin[a].answer.rv >= admin[a].base
=============================================================================

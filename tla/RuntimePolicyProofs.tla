------------------------- MODULE RuntimePolicyProofs -------------------------
(***************************************************************************)
(* Machine-checked proofs about RuntimePolicy, for every set of replicas,  *)
(* administrators, providers and policies, every installed ceiling and any *)
(* number of edits and failures.                                           *)
(***************************************************************************)
EXTENDS RuntimePolicy, TLAPS

-----------------------------------------------------------------------------
(* Policies *)

LEMMA NormalizeType ==
  ASSUME NEW p \in StoragePolicy
  PROVE  /\ Normalize(p) \in StoragePolicy
         /\ \A g \in Gates \cup {"acceptNewOperations"} : Normalize(p)[g] = p[g]
         /\ Normalize(Normalize(p)) = Normalize(p)
<1>1. CASE ~p.portableWrites
  BY <1>1 DEF Normalize, StoragePolicy, Gates
<1>2. CASE p.portableWrites /\ p.providerIds = NoList
  <2>1. Normalize(p) = [p EXCEPT !.providerIds = {Wildcard}]
    BY <1>2 DEF Normalize
  <2>2. {Wildcard} # NoList
    BY PolicyAssumption
  <2> QED
    BY <1>2, <2>1, <2>2 DEF Normalize, StoragePolicy, Gates
<1>3. CASE p.portableWrites /\ p.providerIds # NoList
  BY <1>3 DEF Normalize
<1> QED
  BY <1>1, <1>2, <1>3

LEMMA IntersectType ==
  ASSUME NEW p \in StoragePolicy, NEW c \in Ceiling
  PROVE  /\ Intersect(p, c) \in StoragePolicy
         /\ Intersect(Normalize(p), c) = Intersect(p, c)
<1>1. Normalize(p) \in StoragePolicy /\ Normalize(Normalize(p)) = Normalize(p)
  BY NormalizeType
<1>2. Intersect(p, c) \in StoragePolicy
  BY <1>1 DEF Intersect, StoragePolicy, Ceiling
<1>3. Intersect(Normalize(p), c) = Intersect(p, c)
  BY <1>1 DEF Intersect
<1> QED
  BY <1>2, <1>3

\* The fields of an intersection, in terms of the normalized policy.
LEMMA IntersectFields ==
  ASSUME NEW p \in StoragePolicy, NEW c \in Ceiling, NEW n, n = Normalize(p)
  PROVE  LET s == Intersect(p, c) IN
         /\ s.acceptNewOperations <=> n.acceptNewOperations
         /\ s.portableWrites <=>
              n.acceptNewOperations /\ n.portableWrites /\ c.portableWrites
         /\ s.longhornWrites <=>
              n.acceptNewOperations /\ n.longhornWrites /\ c.longhornWrites
         /\ s.rookCephWrites <=>
              n.acceptNewOperations /\ n.rookCephWrites /\ c.rookCephWrites
         /\ s.allowClassDelete <=>
              s.rookCephWrites /\ n.allowClassDelete /\ c.allowClassDelete
         /\ s.allowPoolDelete <=>
              s.rookCephWrites /\ n.allowPoolDelete /\ c.allowPoolDelete
         /\ s.portableWrites => s.providerIds = n.providerIds
BY NormalizeType DEF Intersect, StoragePolicy, Ceiling

\* Where a policy within the ceiling does not broaden another one, it grants
\* nothing new under any ceiling.
LEMMA NarrowEverywhere ==
  ASSUME NEW old \in StoragePolicy, NEW new \in StoragePolicy,
         NEW c \in Ceiling, NEW d \in Ceiling,
         CeilingViolations(Normalize(new), c) = {},
         ~Broadens(Intersect(old, c), Intersect(new, c))
  PROVE  Grants(Intersect(new, d)) \subseteq Grants(Intersect(old, d))
<1> DEFINE o == Normalize(old)  n == Normalize(new)
<1>1. o \in StoragePolicy /\ n \in StoragePolicy
  BY NormalizeType
<1>2. \A g \in Gates : n[g] => c[g]
  BY DEF CeilingViolations
<1>3. \A g \in Gates \cup {"acceptNewOperations"} :
        Intersect(new, c)[g] => Intersect(old, c)[g]
  BY DEF Broadens
<1>4. o = Normalize(old) /\ n = Normalize(new)
  OBVIOUS
<1> HIDE DEF o, n
<1>5. \A g \in Gates \cup {"acceptNewOperations"} :
        Intersect(new, d)[g] => Intersect(old, d)[g]
  BY <1>1, <1>2, <1>3, <1>4, IntersectFields DEF Gates
<1>6. ASSUME NEW provider \in Providers,
             AllowsPortableProvider(Intersect(new, d), provider)
      PROVE  AllowsPortableProvider(Intersect(old, d), provider)
  <2>1. /\ n.acceptNewOperations /\ n.portableWrites /\ d.portableWrites
        /\ {Wildcard, provider} \cap n.providerIds # {}
    BY <1>1, <1>4, <1>6, IntersectFields DEF AllowsPortableProvider
  <2>2. Intersect(new, c).portableWrites /\ Intersect(new, c).providerIds = n.providerIds
    BY <1>1, <1>2, <1>4, <2>1, IntersectFields DEF Gates
  <2>3. Intersect(old, c).portableWrites
    BY <1>3, <2>2 DEF Gates
  <2>4. /\ o.acceptNewOperations /\ o.portableWrites
        /\ Intersect(old, c).providerIds = o.providerIds
    BY <1>1, <1>4, <2>3, IntersectFields
  <2>5. o.providerIds = {Wildcard} \/ n.providerIds \subseteq o.providerIds
    BY <2>2, <2>4 DEF Broadens, ProviderScopeBroadens
  <2>6. {Wildcard, provider} \cap o.providerIds # {}
    BY <2>1, <2>5
  <2>7. /\ Intersect(old, d).acceptNewOperations /\ Intersect(old, d).portableWrites
        /\ Intersect(old, d).providerIds = o.providerIds
    BY <1>1, <1>4, <2>1, <2>4, IntersectFields
  <2> QED
    BY <2>6, <2>7 DEF AllowsPortableProvider
<1> QED
  BY <1>5, <1>6 DEF Grants

\* The same for Ceph pool deletion alone.
LEMMA NoPoolAnywhere ==
  ASSUME NEW old \in StoragePolicy, NEW new \in StoragePolicy,
         NEW c \in Ceiling, NEW d \in Ceiling,
         CeilingViolations(Normalize(new), c) = {},
         Intersect(new, c).allowPoolDelete => Intersect(old, c).allowPoolDelete,
         Intersect(new, d).allowPoolDelete
  PROVE  Intersect(old, d).allowPoolDelete
<1> DEFINE o == Normalize(old)  n == Normalize(new)
<1>1. o \in StoragePolicy /\ n \in StoragePolicy
  BY NormalizeType
<1>2. /\ n.acceptNewOperations /\ n.rookCephWrites /\ n.allowPoolDelete
      /\ d.rookCephWrites /\ d.allowPoolDelete
  BY <1>1 DEF Intersect, StoragePolicy, Ceiling
<1>3. c.rookCephWrites /\ c.allowPoolDelete
  BY <1>2 DEF CeilingViolations, Gates
<1>4. Intersect(new, c).allowPoolDelete
  BY <1>2, <1>3 DEF Intersect
<1>5. o.acceptNewOperations /\ o.rookCephWrites /\ o.allowPoolDelete
  BY <1>1, <1>4 DEF Intersect, StoragePolicy, Ceiling
<1> QED
  BY <1>2, <1>5 DEF Intersect
-----------------------------------------------------------------------------
(* Type correctness *)

\* A change being applied is at a replica.
ChangesPlaced ==
  \A a \in Admin : admin[a].pc \in {"admitted", "written"} => admin[a].at \in Replica

\* A snapshot is closed or what its replica makes of the object it saw last.
SnapshotsSeen ==
  \A r \in Replica : snapshot[r] \in {Unavailable, SnapshotOf(r, seen[r])}

\* The inductive type invariant, by groups of variables.
ServerType ==
  object \in ObjectType /\ revision \in Nat /\ edits \in Nat /\ faults \in Nat

InformerType ==
  /\ watch \in [Replica -> {"up", "listing", "failed"}]
  /\ queue \in [Replica -> Seq(ObjectType)] /\ seen \in [Replica -> ObjectType]

SnapshotsTyped == snapshot \in [Replica -> SnapshotType] /\ SnapshotsSeen

WriterType == writers \subseteq [at: Replica, rv: Nat, status: StatusType]

AdminType == admin \in [Admin -> ChangeType] /\ ChangesPlaced

TypeInv == ServerType /\ InformerType /\ SnapshotsTyped /\ WriterType /\ AdminType

LEMMA ConstantTypes ==
  /\ Off \in StoragePolicy /\ Normalize(Off) = Off /\ NoCeiling \in Ceiling
  /\ Absent \in ObjectType /\ Unavailable \in SnapshotType /\ Idle \in ChangeType
<1>1. Off \in StoragePolicy /\ Normalize(Off) = Off /\ NoCeiling \in Ceiling
  BY DEF Off, StoragePolicy, Normalize, NoCeiling, Ceiling
<1>2. Absent \in ObjectType /\ Unavailable \in SnapshotType
  BY <1>1 DEF Absent, NoStatus, ObjectType, StatusType, Unavailable, SnapshotType
<1>3. Idle \in ChangeType
  BY <1>1, <1>2 DEF Idle, ChangeType
<1> QED
  BY <1>1, <1>2, <1>3

LEMMA ObservedTypes ==
  ASSUME NEW r \in Replica, NEW o \in ObjectType
  PROVE  /\ StatusOf(r, o) \in StatusType
         /\ SnapshotOf(r, o) \in SnapshotType
         /\ SnapshotOf(r, o).rv = 0 => SnapshotOf(r, o) = Unavailable
         /\ SnapshotOf(r, o).rv # 0 =>
              /\ SnapshotOf(r, o).rv = o.rv /\ SnapshotOf(r, o).gen = o.gen
              /\ SnapshotOf(r, o).requested = Normalize(o.spec)
              /\ SnapshotOf(r, o).effective = Intersect(o.spec, Ceil[r])
         /\ \A w \in WriterFor(r, o) :
              /\ w.at = r /\ w.rv = o.rv /\ w.rv # 0 /\ w.status = StatusOf(r, o)
              /\ w \in [at: Replica, rv: Nat, status: StatusType]
<1>1. Ceil[r] \in Ceiling /\ o.spec \in StoragePolicy
  BY PolicyAssumption DEF ObjectType
<1>2. Intersect(o.spec, Ceil[r]) \in StoragePolicy /\ Normalize(o.spec) \in StoragePolicy
  BY <1>1, IntersectType, NormalizeType
<1>3. StatusOf(r, o) \in StatusType
  BY <1>2 DEF StatusOf, StatusType, CeilingViolations, ObjectType
<1>4. SnapshotOf(r, o) \in SnapshotType
  BY <1>2, ConstantTypes DEF SnapshotOf, FailClosed, SnapshotType, ObjectType
<1>5. SnapshotOf(r, o).rv = 0 => SnapshotOf(r, o) = Unavailable
  BY DEF SnapshotOf, FailClosed
<1>6. SnapshotOf(r, o).rv # 0 =>
        /\ SnapshotOf(r, o).rv = o.rv /\ SnapshotOf(r, o).gen = o.gen
        /\ SnapshotOf(r, o).requested = Normalize(o.spec)
        /\ SnapshotOf(r, o).effective = Intersect(o.spec, Ceil[r])
  BY DEF SnapshotOf, FailClosed, Unavailable
<1>7. \A w \in WriterFor(r, o) :
        /\ w.at = r /\ w.rv = o.rv /\ w.rv # 0 /\ w.status = StatusOf(r, o)
        /\ w \in [at: Replica, rv: Nat, status: StatusType]
  BY <1>3, <1>6 DEF WriterFor, Authoritative, ObjectType
<1> QED
  BY <1>3, <1>4, <1>5, <1>6, <1>7

\* A closed snapshot grants nothing.
LEMMA ClosedGrantsNothing == Grants(Off) = {}
BY DEF Grants, Off, Gates, AllowsPortableProvider

LEMMA TypeInvImplies == TypeInv => TypeOK
<1> SUFFICES ASSUME TypeInv PROVE TypeOK
  OBVIOUS
<1>1. ASSUME NEW r \in Replica, ~Authoritative(snapshot[r])
      PROVE  Grants(snapshot[r].effective) = {}
  <2>1. snapshot[r] = Unavailable
    BY <1>1, ObservedTypes DEF TypeInv, SnapshotsTyped, SnapshotsSeen, InformerType, Authoritative
  <2> QED
    BY <2>1, ClosedGrantsNothing DEF Unavailable
<1> QED
  BY <1>1 DEF TypeInv, TypeOK, ServerType, InformerType, SnapshotsTyped, WriterType, AdminType

LEMMA InitType == Init => TypeInv
<1> SUFFICES ASSUME Init PROVE TypeInv
  OBVIOUS
<1>1. PICK p \in Policies : object = [Absent EXCEPT !.rv = 1, !.gen = 1, !.spec = p, !.by = Author]
  BY DEF Init
<1>2. ServerType
  BY <1>1, ConstantTypes, PolicyAssumption DEF Init, ServerType, ObjectType
<1>3. InformerType /\ SnapshotsTyped
  BY ConstantTypes DEF Init, InformerType, SnapshotsTyped, SnapshotsSeen
<1>4. WriterType /\ AdminType
  BY ConstantTypes DEF Init, WriterType, AdminType, ChangesPlaced, Idle
<1> QED
  BY <1>2, <1>3, <1>4 DEF TypeInv

LEMMA StoreType ==
  ASSUME ServerType, InformerType, NEW o \in ObjectType, Store(o)
  PROVE  object' \in ObjectType /\ revision' \in Nat /\ InformerType'
<1>1. object' \in ObjectType /\ revision' \in Nat
  BY DEF Store, ServerType, ObjectType
<1>2. queue' \in [Replica -> Seq(ObjectType)]
  BY <1>1 DEF Store, Notify, InformerType
<1> QED
  BY <1>1, <1>2 DEF Store, InformerType

LEMMA WithSpecType ==
  ASSUME ServerType, NEW p \in StoragePolicy
  PROVE  /\ WithSpec(p) \in ObjectType
         /\ WithSpec(p).spec = p /\ WithSpec(p).status = object.status
         /\ WithSpec(p).gen = IF p = object.spec THEN object.gen ELSE object.gen + 1
<1>1. object \in ObjectType
  BY DEF ServerType
<1>2. PICK n \in Nat : n = IF p = object.spec THEN object.gen ELSE object.gen + 1
  BY <1>1 DEF ObjectType
<1>3. WithSpec(p) = [object EXCEPT !.spec = p, !.gen = n]
  BY <1>1, <1>2 DEF WithSpec, ObjectType
<1> QED
  BY <1>1, <1>2, <1>3 DEF ObjectType

LEMMA FaultType ==
  ASSUME faults \in Nat, Fault \/ UNCHANGED faults
  PROVE  faults' \in Nat
BY DEF Fault

LEMMA ResendType ==
  ASSUME NEW c \in ChangeType
  PROVE  /\ Resend(c) \in ChangeType /\ Resend(c).pc = "reviewed"
         /\ Resend(c).base = c.base /\ Resend(c).policy = c.policy
         /\ Resend(c).ceiling = c.ceiling
         /\ Resend(c).broadening = c.broadening /\ Resend(c).pool = c.pool
BY DEF Resend, ChangeType, Idle

\* The change of one administrator by one that is not at a replica.
LEMMA UnplacedType ==
  ASSUME AdminType, NEW a \in Admin, NEW c \in ChangeType,
         c.pc \notin {"admitted", "written"}, admin' = [admin EXCEPT ![a] = c]
  PROVE  AdminType'
BY DEF AdminType, ChangesPlaced

LEMMA AnswerType ==
  ASSUME AdminType, NEW a \in Admin, NEW s \in SnapshotType,
         NEW outcome \in {"applied", "replayed"}, Answer(a, outcome, s)
  PROVE  AdminType'
<1>1. admin[a] \in ChangeType
  BY DEF AdminType
<1>2. PICK c : c = [Idle EXCEPT !.pc = outcome, !.answer = s, !.base = admin[a].base,
                 !.policy = admin[a].policy, !.written = admin[a].written]
  OBVIOUS
<1>3. c \in ChangeType /\ c.pc = outcome
  BY <1>1, <1>2, ConstantTypes DEF ChangeType, Idle
<1> QED
  BY <1>2, <1>3, UnplacedType DEF Answer

LEMMA EnvironmentType == TypeInv /\ Environment => TypeInv'
<1> SUFFICES ASSUME TypeInv, Environment PROVE TypeInv'
  OBVIOUS
<1>1. ServerType' /\ InformerType'
  <2>1. CASE EditPolicy
    BY <2>1, StoreType, WithSpecType, PolicyAssumption
       DEF EditPolicy, Edit, TypeInv, ServerType
  <2>2. CASE CreatePolicy
    <3>1. PICK p \in Policies : Store([Absent EXCEPT !.gen = 1, !.spec = p])
      BY <2>2 DEF CreatePolicy
    <3>2. [Absent EXCEPT !.gen = 1, !.spec = p] \in ObjectType
      BY ConstantTypes, PolicyAssumption DEF ObjectType
    <3> QED
      BY <2>2, <3>1, <3>2, StoreType DEF CreatePolicy, Edit, TypeInv, ServerType
  <2>3. CASE DeletePolicy
    <3>1. queue' \in [Replica -> Seq(ObjectType)]
      BY <2>3, ConstantTypes DEF DeletePolicy, Notify, TypeInv, InformerType
    <3> QED
      BY <2>3, <3>1, ConstantTypes DEF DeletePolicy, Edit, TypeInv, ServerType, InformerType
  <2> QED
    BY <2>1, <2>2, <2>3 DEF Environment
<1>2. UNCHANGED <<seen, snapshot, writers, admin>>
  BY DEF Environment, EditPolicy, CreatePolicy, DeletePolicy, Store
<1>3. SnapshotsTyped' /\ WriterType' /\ AdminType'
  BY <1>2 DEF TypeInv, SnapshotsTyped, SnapshotsSeen, WriterType, AdminType, ChangesPlaced,
              SnapshotOf, FailClosed
<1> QED
  BY <1>1, <1>3 DEF TypeInv

\* What the steps of a replica other than a restart do to the types: each
\* handles a notification or leaves the snapshot, or closes it.
LEMMA ReplicaType ==
  ASSUME TypeInv, NEW r \in Replica,
         \/ Observe(r) \/ Relist(r) \/ Resync(r)
         \/ WatchEnds(r, TRUE) \/ WatchEnds(r, FALSE) \/ ListFails(r) \/ Restart(r)
  PROVE  TypeInv'
<1>0. /\ object \in ObjectType /\ queue \in [Replica -> Seq(ObjectType)]
      /\ seen \in [Replica -> ObjectType] /\ snapshot \in [Replica -> SnapshotType]
      /\ watch \in [Replica -> {"up", "listing", "failed"}]
  BY DEF TypeInv, ServerType, InformerType, SnapshotsTyped
<1>1. ServerType'
  <2>1. UNCHANGED <<object, revision, edits>> /\ (Fault \/ UNCHANGED faults)
    BY DEF Observe, Relist, Resync, WatchEnds, ListFails, Restart, server
  <2> QED
    BY <2>1, FaultType DEF TypeInv, ServerType
<1>2. InformerType' /\ SnapshotsTyped' /\ WriterType'
  <2>1. CASE Observe(r)
    <3>1. Head(queue[r]) \in ObjectType /\ Tail(queue[r]) \in Seq(ObjectType)
      BY <1>0, <2>1 DEF Observe
    <3>2. InformerType'
      BY <1>0, <2>1, <3>1 DEF Observe, InformerType
    <3>3. SnapshotsTyped'
      BY <1>0, <2>1, <3>1, ObservedTypes
         DEF Observe, SnapshotsTyped, SnapshotsSeen, TypeInv, SnapshotOf, FailClosed
    <3>4. WriterType'
      BY <2>1, <3>1, ObservedTypes DEF Observe, TypeInv, WriterType
    <3> QED
      BY <3>2, <3>3, <3>4
  <2>2. CASE Relist(r)
    <3>0. Append(queue[r], object) \in Seq(ObjectType)
      BY <1>0
    <3>1. queue' \in [Replica -> Seq(ObjectType)]
      BY <1>0, <2>2, <3>0 DEF Relist
    <3> QED
      BY <1>0, <2>2, <3>1 DEF Relist, InformerType, SnapshotsTyped, SnapshotsSeen, TypeInv,
                              WriterType, SnapshotOf, FailClosed
  <2>3. CASE Resync(r)
    <3>1. queue' \in [Replica -> Seq(ObjectType)]
      BY <1>0, <2>3 DEF Resync
    <3> QED
      BY <1>0, <2>3, <3>1 DEF Resync, InformerType, SnapshotsTyped, SnapshotsSeen, TypeInv,
                              WriterType, SnapshotOf, FailClosed
  <2>4. ASSUME NEW reported \in BOOLEAN, WatchEnds(r, reported)
        PROVE  InformerType' /\ SnapshotsTyped' /\ WriterType'
    <3>1. PICK n \in 0..Len(queue[r]) : queue' = [queue EXCEPT ![r] = SubSeq(@, 1, n)]
      BY <2>4 DEF WatchEnds
    <3>2. SubSeq(queue[r], 1, n) \in Seq(ObjectType)
      BY <1>0
    <3>3. InformerType'
      BY <1>0, <2>4, <3>1, <3>2 DEF WatchEnds, InformerType
    <3>4. SnapshotsTyped' /\ WriterType'
      BY <1>0, <2>4, ConstantTypes
         DEF WatchEnds, SnapshotsTyped, SnapshotsSeen, TypeInv, WriterType, SnapshotOf, FailClosed
    <3> QED
      BY <3>3, <3>4
  <2>5. CASE ListFails(r)
    BY <1>0, <2>5, ConstantTypes
       DEF ListFails, InformerType, SnapshotsTyped, SnapshotsSeen, TypeInv, WriterType,
           SnapshotOf, FailClosed
  <2>6. CASE Restart(r)
    BY <1>0, <2>6, ConstantTypes
       DEF Restart, InformerType, SnapshotsTyped, SnapshotsSeen, TypeInv, WriterType,
           SnapshotOf, FailClosed
  <2> QED
    BY <2>1, <2>2, <2>3, <2>4, <2>5, <2>6
<1>3. AdminType'
  <2>1. CASE UNCHANGED admin
    BY <2>1 DEF TypeInv, AdminType, ChangesPlaced
  <2>2. CASE Restart(r)
    BY <2>2, ResendType DEF Restart, TypeInv, AdminType, ChangesPlaced
  <2> QED
    BY <2>1, <2>2 DEF Observe, Relist, Resync, WatchEnds, ListFails
<1> QED
  BY <1>1, <1>2, <1>3 DEF TypeInv

LEMMA StatusWriterType == TypeInv /\ StatusWriters => TypeInv'
<1> SUFFICES ASSUME TypeInv, StatusWriters PROVE TypeInv'
  OBVIOUS
<1>1. PICK w \in writers : StatusWrite(w) \/ StatusWriteFails(w)
  BY DEF StatusWriters
<1>2. ServerType' /\ InformerType'
  <2>1. CASE StatusWrite(w) /\ IsObserved(w)
    <3>1. [object EXCEPT !.status = w.status] \in ObjectType
      BY DEF TypeInv, ServerType, WriterType, ObjectType
    <3> QED
      BY <2>1, <3>1, StoreType DEF StatusWrite, TypeInv, ServerType
  <2>2. CASE StatusWrite(w) /\ ~IsObserved(w)
    BY <2>2 DEF StatusWrite, TypeInv, ServerType, InformerType, server, informer
  <2>3. CASE StatusWriteFails(w)
    BY <2>3, FaultType DEF StatusWriteFails, TypeInv, ServerType, InformerType, server, informer
  <2> QED
    BY <1>1, <2>1, <2>2, <2>3
<1>3. UNCHANGED <<seen, snapshot, admin>> /\ writers' = writers \ {w}
  BY <1>1 DEF StatusWrite, StatusWriteFails, Store, informer
<1>4. SnapshotsTyped' /\ WriterType' /\ AdminType'
  BY <1>3 DEF TypeInv, SnapshotsTyped, SnapshotsSeen, WriterType, AdminType, ChangesPlaced,
              SnapshotOf, FailClosed
<1> QED
  BY <1>2, <1>4 DEF TypeInv

LEMMA UpdateType ==
  ASSUME TypeInv, NEW a \in Admin, Update(a)
  PROVE  TypeInv'
<1> DEFINE next == [WithSpec(admin[a].policy) EXCEPT !.by = a]
<1>1. admin[a] \in ChangeType /\ admin[a].policy \in StoragePolicy /\ object \in ObjectType
  BY DEF TypeInv, AdminType, ChangeType, ServerType
<1>2. next \in ObjectType
  BY <1>1, WithSpecType DEF TypeInv, ObjectType
<1> HIDE DEF next
<1>3. AdminType /\ faults \in Nat
  BY DEF TypeInv, ServerType
<1>4. Return(a) => AdminType'
  BY <1>1, <1>3, ResendType, UnplacedType DEF Return
<1>5. CASE /\ object.rv # 0 /\ Matches(a) /\ Edit /\ Store(next)
           /\ \/ /\ admin' = [admin EXCEPT ![a] =
                      [@ EXCEPT !.pc = "written",
                                !.written = [rv |-> revision + 1, gen |-> next.gen]]]
                 /\ UNCHANGED faults
              \/ Fault /\ Return(a)
  <2>1. ServerType' /\ InformerType' /\ UNCHANGED seen
    BY <1>2, <1>3, <1>5, StoreType, FaultType DEF TypeInv, ServerType, Edit, Store
  <2>2. AdminType'
    <3>1. CASE Return(a)
      BY <1>4, <3>1
    <3>2. CASE admin' = [admin EXCEPT ![a] =
                      [@ EXCEPT !.pc = "written",
                                !.written = [rv |-> revision + 1, gen |-> next.gen]]]
      <4>1. PICK w : w = [rv |-> revision + 1, gen |-> next.gen]
        OBVIOUS
      <4>2. w \in [rv: Nat, gen: Nat]
        BY <1>2, <4>1 DEF TypeInv, ServerType, ObjectType
      <4>3. admin' = [admin EXCEPT ![a] = [@ EXCEPT !.pc = "written", !.written = w]]
        BY <3>2, <4>1
      <4>4. admin[a].at \in Replica
        BY DEF Update, TypeInv, AdminType, ChangesPlaced
      <4> QED
        BY <1>1, <1>3, <4>2, <4>3, <4>4 DEF AdminType, ChangesPlaced, ChangeType
    <3> QED
      BY <1>5, <3>1, <3>2
  <2> QED
    BY <2>1, <2>2 DEF Update, TypeInv, SnapshotsTyped, SnapshotsSeen, WriterType,
                      SnapshotOf, FailClosed
<1>6. CASE UNCHANGED <<server, edits, informer>> /\ (Fault \/ UNCHANGED faults)
           /\ (Refuse(a) \/ Return(a))
  <2>1. AdminType'
    BY <1>3, <1>4, <1>6, ConstantTypes, UnplacedType DEF Refuse, Idle
  <2>2. faults' \in Nat
    BY <1>3, <1>6, FaultType
  <2> QED
    BY <1>6, <2>1, <2>2 DEF Update, TypeInv, ServerType, InformerType, SnapshotsTyped,
        SnapshotsSeen, WriterType, SnapshotOf, FailClosed, server, informer
<1> QED
  BY <1>5, <1>6 DEF Update, next

LEMMA AdminsType == TypeInv /\ Admins => TypeInv'
<1> SUFFICES ASSUME TypeInv, Admins PROVE TypeInv'
  OBVIOUS
<1>1. PICK a \in Admin :
        (\E r \in Replica : Review(a, r) \/ Submit(a, r)) \/ Update(a) \/ WaitObserved(a)
  BY DEF Admins
<1>2. /\ admin[a] \in ChangeType /\ AdminType
      /\ \A r \in Replica : snapshot[r] \in SnapshotType
      /\ snapshot \in [Replica -> SnapshotType]
  BY DEF TypeInv, AdminType, SnapshotsTyped
<1>3. ASSUME UNCHANGED <<server, edits, faults, informer, snapshot, writers>>, AdminType'
      PROVE  TypeInv'
  BY <1>3 DEF TypeInv, ServerType, InformerType, SnapshotsTyped, SnapshotsSeen, WriterType,
              SnapshotOf, FailClosed, server, informer
<1>4. ASSUME NEW r \in Replica, Review(a, r) PROVE TypeInv'
  <2>1. PICK p \in Policies :
          admin' = [admin EXCEPT ![a] =
            [Idle EXCEPT !.pc = "reviewed", !.base = snapshot[r].rv,
               !.policy = Normalize(p), !.ceiling = Ceil[r],
               !.broadening = Broadens(snapshot[r].effective, Intersect(p, Ceil[r])),
               !.pool = ~snapshot[r].effective.allowPoolDelete
                          /\ Intersect(p, Ceil[r]).allowPoolDelete]]
    BY <1>4 DEF Review
  <2>2. /\ snapshot[r].rv \in Nat /\ Normalize(p) \in StoragePolicy /\ Ceil[r] \in Ceiling
    BY <1>2, NormalizeType, PolicyAssumption, SMTT(40) DEF SnapshotType
  <2>3. PICK b \in BOOLEAN, d \in BOOLEAN :
          admin' = [admin EXCEPT ![a] =
            [Idle EXCEPT !.pc = "reviewed", !.base = snapshot[r].rv,
               !.policy = Normalize(p), !.ceiling = Ceil[r], !.broadening = b, !.pool = d]]
    BY <2>1 DEF Broadens
  <2>4. PICK c : c = [Idle EXCEPT !.pc = "reviewed", !.base = snapshot[r].rv,
                   !.policy = Normalize(p), !.ceiling = Ceil[r], !.broadening = b, !.pool = d]
    OBVIOUS
  <2>5. c \in ChangeType /\ c.pc = "reviewed"
    BY <2>2, <2>4, ConstantTypes DEF ChangeType, Idle
  <2>6. AdminType'
    BY <1>2, <2>3, <2>4, <2>5, UnplacedType
  <2> QED
    BY <1>3, <1>4, <2>6 DEF Review
<1>5. ASSUME NEW r \in Replica, Submit(a, r) PROVE TypeInv'
  <2>1. PICK phrases \in SUBSET Asked(admin[a]) :
          \/ Answer(a, "replayed", snapshot[r])
          \/ admin' = [admin EXCEPT ![a] =
               [@ EXCEPT !.pc = "admitted", !.at = r, !.phrases = phrases]]
          \/ Refuse(a)
    BY <1>5 DEF Submit
  <2>2. phrases \in SUBSET {"enable", "pool"}
    BY DEF Asked
  <2>3. AdminType'
    <3>1. CASE Answer(a, "replayed", snapshot[r])
      BY <1>2, <3>1, AnswerType
    <3>2. CASE admin' = [admin EXCEPT ![a] =
                 [@ EXCEPT !.pc = "admitted", !.at = r, !.phrases = phrases]]
      BY <1>2, <2>2, <3>2 DEF AdminType, ChangesPlaced, ChangeType
    <3>3. CASE Refuse(a)
      BY <1>2, <3>3, ConstantTypes, UnplacedType DEF Refuse, Idle
    <3> QED
      BY <2>1, <3>1, <3>2, <3>3
  <2> QED
    BY <1>3, <1>5, <2>3 DEF Submit
<1>6. ASSUME WaitObserved(a) PROVE TypeInv'
  <2>1. admin[a].at \in Replica
    BY <1>6 DEF WaitObserved, TypeInv, AdminType, ChangesPlaced
  <2>2. AdminType'
    <3>1. CASE Answer(a, "applied", snapshot[admin[a].at])
      BY <1>2, <2>1, <3>1, AnswerType
    <3>2. CASE Return(a)
      <4>1. PICK c \in ChangeType : c = Resend(admin[a])
        BY <1>2, ResendType
      <4>2. c.pc = "reviewed" /\ admin' = [admin EXCEPT ![a] = c]
        BY <1>2, <3>2, <4>1, ResendType DEF Return, AdminType
      <4> QED
        BY <1>2, <4>2, UnplacedType
    <3> QED
      BY <1>6, <3>1, <3>2 DEF WaitObserved
  <2> QED
    BY <1>3, <1>6, <2>2 DEF WaitObserved
<1> QED
  BY <1>1, <1>4, <1>5, <1>6, UpdateType

LEMMA NextType == TypeInv /\ [Next]_vars => TypeInv'
<1> SUFFICES ASSUME TypeInv, [Next]_vars PROVE TypeInv'
  OBVIOUS
<1>1. CASE UNCHANGED vars
  BY <1>1 DEF TypeInv, ServerType, InformerType, SnapshotsTyped, SnapshotsSeen, WriterType,
              AdminType, ChangesPlaced, SnapshotOf, FailClosed, vars, server, informer
<1>2. CASE Replicas
  BY <1>2, ReplicaType DEF Replicas
<1> QED
  BY <1>1, <1>2, EnvironmentType, StatusWriterType, AdminsType DEF Next

\* Every reachable state is well typed, and a closed snapshot grants nothing.
THEOREM TypeCorrect == Spec => []TypeOK
<1>1. Init => TypeInv
  BY InitType
<1>2. TypeInv /\ [Next]_vars => TypeInv'
  BY NextType
<1>3. TypeInv => TypeOK
  BY TypeInvImplies
<1> QED
  BY <1>1, <1>2, <1>3, PTL DEF Spec

-----------------------------------------------------------------------------
(* The invariant behind the safety properties *)

\* The objects a replica has seen or will see.
Copies(r) == {seen[r]} \cup {queue[r][i] : i \in 1..Len(queue[r])}

\* Versions are never reused, so a copy of the stored version is like it, up to
\* its status.
CopyOf(c, o, v) ==
  /\ c.rv <= v
  /\ c.rv # 0 /\ c.rv = o.rv => c.spec = o.spec /\ c.gen = o.gen

CopiesTrue ==
  /\ object.rv \in {0, revision}
  /\ \A r \in Replica : \A c \in Copies(r) : CopyOf(c, object, revision)

\* A replica sees versions in order, with deletions anywhere between them.
InOrder(s, q) ==
  /\ \A i \in 1..Len(q) : q[i].rv # 0 => s.rv <= q[i].rv
  /\ \A i, j \in 1..Len(q) : i < j /\ q[j].rv # 0 => q[i].rv <= q[j].rv

CopiesOrdered == \A r \in Replica : InOrder(seen[r], queue[r])

\* A pending status that may still be written describes the stored policy.
WritersTrue ==
  \A w \in writers :
    w.rv # 0 /\ w.rv <= revision /\ (w.rv = object.rv => w.status = StatusOf(w.at, object))

StatusTrue == StatusHonest /\ object.status.gen <= object.gen

\* What the review of change c found holds of o, whose version it reviewed.
ReviewOf(c, o) ==
  LET from == Intersect(o.spec, c.ceiling)
      to   == Intersect(c.policy, c.ceiling) IN
  /\ ~c.broadening => ~Broadens(from, to)
  /\ ~c.pool /\ to.allowPoolDelete => from.allowPoolDelete

Open == {"reviewed", "admitted", "written"}

\* What is known of change d when o is stored and v is the latest version.
Reviewed(d, o, v) ==
  /\ d.base <= v
  /\ d.pc \in Open =>
       /\ d.base # 0 /\ Normalize(d.policy) = d.policy
       /\ CeilingViolations(d.policy, d.ceiling) = {}
       /\ d.base = o.rv => ReviewOf(d, o)
  /\ d.pc = "admitted" => Asked(d) \subseteq d.phrases

ReviewsTrue == \A a \in Admin : Reviewed(admin[a], object, revision)

\* The wait for change c does not end with copy o, or ends rightly.
Settled(c, o) ==
  \/ o.rv = 0 \/ o.rv > c.written.rv
  \/ Normalize(o.spec) = c.policy \/ o.gen < c.written.gen

AnswerTrue(a) ==
  /\ admin[a].pc = "admitted" =>
       \A c \in Copies(admin[a].at) : c.rv # 0 => c.rv >= admin[a].base
  /\ admin[a].pc = "written" =>
       /\ admin[a].written.rv <= revision
       /\ \A c \in Copies(admin[a].at) \cup {object} : Settled(admin[a], c)
  /\ admin[a].pc = "applied" =>
       \/ admin[a].answer.requested = admin[a].policy
       \/ admin[a].answer.rv > admin[a].written.rv

AnswersTrue == \A a \in Admin : AnswerTrue(a)

IInv == CopiesTrue /\ CopiesOrdered /\ WritersTrue /\ StatusTrue /\ ReviewsTrue /\ AnswersTrue

\* Every step leaves the object, stores a new version or deletes the object.
LEMMA ServerSteps ==
  ASSUME TypeInv, [Next]_vars
  PROVE  \/ object' = object /\ revision' = revision
         \/ object'.rv = revision + 1 /\ revision' = revision + 1
         \/ object' = Absent /\ revision' = revision
<1> DEFINE Goal == \/ object' = object /\ revision' = revision
                   \/ object'.rv = revision + 1 /\ revision' = revision + 1
                   \/ object' = Absent /\ revision' = revision
<1>1. ASSUME NEW o \in ObjectType, Store(o) PROVE Goal
  BY <1>1 DEF Store, ObjectType
<1>2. ASSUME Environment PROVE Goal
  <2>1. CASE EditPolicy
    BY <1>1, <2>1, WithSpecType, PolicyAssumption DEF EditPolicy, TypeInv
  <2>2. CASE CreatePolicy
    <3>1. PICK p \in Policies : Store([Absent EXCEPT !.gen = 1, !.spec = p])
      BY <2>2 DEF CreatePolicy
    <3>2. [Absent EXCEPT !.gen = 1, !.spec = p] \in ObjectType
      BY ConstantTypes, PolicyAssumption DEF ObjectType
    <3> QED
      BY <1>1, <3>1, <3>2
  <2>3. CASE DeletePolicy
    BY <2>3 DEF DeletePolicy
  <2> QED
    BY <1>2, <2>1, <2>2, <2>3 DEF Environment
<1>3. ASSUME Replicas PROVE Goal
  BY <1>3 DEF Replicas, Observe, Relist, Resync, WatchEnds, ListFails, Restart, server
<1>4. ASSUME StatusWriters PROVE Goal
  <2>1. PICK w \in writers : StatusWrite(w) \/ StatusWriteFails(w)
    BY <1>4 DEF StatusWriters
  <2>2. [object EXCEPT !.status = w.status] \in ObjectType
    BY DEF TypeInv, ServerType, WriterType, ObjectType
  <2> QED
    BY <1>1, <2>1, <2>2 DEF StatusWrite, StatusWriteFails, server
<1>5. ASSUME Admins PROVE Goal
  <2>1. CASE UNCHANGED server
    BY <2>1 DEF server
  <2>2. ASSUME NEW a \in Admin, Store([WithSpec(admin[a].policy) EXCEPT !.by = a])
        PROVE  Goal
    <3>1. [WithSpec(admin[a].policy) EXCEPT !.by = a] \in ObjectType
      BY WithSpecType DEF TypeInv, AdminType, ChangeType, ObjectType
    <3> QED
      BY <1>1, <2>2, <3>1
  <2> QED
    BY <1>5, <2>1, <2>2 DEF Admins, Review, Submit, Update, WaitObserved
<1>6. CASE UNCHANGED vars
  BY <1>6 DEF vars, server
<1> QED
  BY <1>2, <1>3, <1>4, <1>5, <1>6 DEF Next

\* What a step may do to the notifications of a replica.
Delivered(r, o) ==
  \/ seen'[r] = seen[r] /\ queue'[r] = queue[r]
  \/ seen'[r] = seen[r] /\ queue'[r] = Append(queue[r], o)
  \/ seen'[r] = seen[r] /\ \E n \in 0..Len(queue[r]) : queue'[r] = SubSeq(queue[r], 1, n)
  \/ queue[r] # <<>> /\ seen'[r] = Head(queue[r]) /\ queue'[r] = Tail(queue[r])
  \/ seen'[r] = seen[r] /\ queue[r] = <<>> /\ queue'[r] = <<seen[r]>>
  \/ seen'[r] = Absent /\ queue'[r] = <<>>

LEMMA InformerSteps ==
  ASSUME TypeInv, [Next]_vars, NEW r \in Replica
  PROVE  Delivered(r, object')
<1>0. queue \in [Replica -> Seq(ObjectType)] /\ seen \in [Replica -> ObjectType]
  BY DEF TypeInv, InformerType
<1>1. ASSUME UNCHANGED <<queue, seen>> PROVE Delivered(r, object')
  BY <1>1 DEF Delivered
<1>2. ASSUME NEW o, Store(o) PROVE Delivered(r, object')
  BY <1>0, <1>2 DEF Store, Notify, Delivered
<1>3. ASSUME Environment PROVE Delivered(r, object')
  BY <1>0, <1>2, <1>3
     DEF Environment, EditPolicy, CreatePolicy, DeletePolicy, Notify, Delivered
<1>4. ASSUME NEW x \in Replica, Observe(x) \/ Relist(x) \/ Resync(x) \/ ListFails(x) \/ Restart(x)
      PROVE  Delivered(r, object')
  <2>1. CASE Observe(x)
    BY <1>0, <2>1 DEF Observe, Delivered
  <2>2. CASE Relist(x)
    BY <1>0, <2>2 DEF Relist, Delivered, server
  <2>3. CASE Resync(x)
    BY <1>0, <2>3 DEF Resync, Delivered
  <2>4. CASE ListFails(x)
    BY <2>4, <1>1 DEF ListFails
  <2>5. CASE Restart(x)
    BY <1>0, <2>5 DEF Restart, Delivered
  <2> QED
    BY <1>4, <2>1, <2>2, <2>3, <2>4, <2>5
<1>5. ASSUME NEW x \in Replica, WatchEnds(x, TRUE) \/ WatchEnds(x, FALSE)
      PROVE  Delivered(r, object')
  <2>1. seen' = seen
        /\ \E n \in 0..Len(queue[x]) : queue' = [queue EXCEPT ![x] = SubSeq(@, 1, n)]
    BY <1>5 DEF WatchEnds
  <2> QED
    BY <1>0, <2>1 DEF Delivered
<1>6. ASSUME Replicas PROVE Delivered(r, object')
  BY <1>4, <1>5, <1>6 DEF Replicas
<1>7. ASSUME StatusWriters PROVE Delivered(r, object')
  BY <1>1, <1>2, <1>7 DEF StatusWriters, StatusWrite, StatusWriteFails, informer
<1>8. ASSUME Admins PROVE Delivered(r, object')
  BY <1>1, <1>2, <1>8 DEF Admins, Review, Submit, Update, WaitObserved, informer
<1>9. CASE UNCHANGED vars
  BY <1>1, <1>9 DEF vars, informer
<1> QED
  BY <1>3, <1>6, <1>7, <1>8, <1>9 DEF Next

\* Copies are only made of the stored object.
LEMMA CopySteps ==
  ASSUME TypeInv, [Next]_vars, NEW r \in Replica
  PROVE  Copies(r)' \subseteq Copies(r) \cup {object', Absent}
<1>0. queue[r] \in Seq(ObjectType) /\ Delivered(r, object')
  BY InformerSteps DEF TypeInv, InformerType
<1> DEFINE old == queue[r]  new == queue'[r]
<1>1. Copies(r) = {seen[r]} \cup {old[i] : i \in 1..Len(old)}
      /\ Copies(r)' = {seen'[r]} \cup {new[i] : i \in 1..Len(new)}
  BY DEF Copies
<1> SUFFICES ASSUME NEW i \in 1..Len(new)
             PROVE  seen'[r] \in Copies(r) \cup {object', Absent}
                    /\ new[i] \in Copies(r) \cup {object', Absent}
  <2>1. seen'[r] \in Copies(r) \cup {Absent}
    BY <1>0, <1>1 DEF Delivered
  <2> QED
    BY <1>1, <2>1
<1>2. CASE seen'[r] = seen[r] /\ new = old
  BY <1>1, <1>2
<1>3. CASE seen'[r] = seen[r] /\ new = Append(old, object')
  BY <1>0, <1>1, <1>3
<1>4. CASE seen'[r] = seen[r] /\ \E n \in 0..Len(old) : new = SubSeq(old, 1, n)
  BY <1>0, <1>1, <1>4
<1>5. CASE old # <<>> /\ seen'[r] = Head(old) /\ new = Tail(old)
  BY <1>0, <1>1, <1>5
<1>6. CASE seen'[r] = seen[r] /\ old = <<>> /\ new = <<seen[r]>>
  BY <1>1, <1>6
<1>7. CASE seen'[r] = Absent /\ new = <<>>
  BY <1>7
<1> QED
  BY <1>0, <1>2, <1>3, <1>4, <1>5, <1>6, <1>7 DEF Delivered

LEMMA CopyTypes ==
  ASSUME TypeInv, NEW r \in Replica
  PROVE  /\ queue[r] \in Seq(ObjectType) /\ seen[r] \in ObjectType
         /\ Copies(r) \subseteq ObjectType /\ \A c \in Copies(r) : c.rv \in Nat
<1>1. queue[r] \in Seq(ObjectType) /\ seen[r] \in ObjectType
  BY DEF TypeInv, InformerType
<1>2. \A i \in 1..Len(queue[r]) : queue[r][i] \in ObjectType
  BY <1>1
<1>3. Copies(r) \subseteq ObjectType
  BY <1>1, <1>2 DEF Copies
<1> QED
  BY <1>1, <1>3 DEF ObjectType

LEMMA CopiesStep == TypeInv /\ CopiesTrue /\ [Next]_vars => CopiesTrue'
<1> SUFFICES ASSUME TypeInv, CopiesTrue, [Next]_vars PROVE CopiesTrue'
  OBVIOUS
<1>1. object.rv \in {0, revision} /\ revision \in Nat /\ object \in ObjectType
  BY DEF CopiesTrue, TypeInv, ServerType
<1>2. Absent.rv = 0 /\ object'.rv \in {0, revision'}
  BY <1>1, ServerSteps DEF Absent
<1>3. ASSUME NEW r \in Replica, NEW c \in Copies(r)
      PROVE  CopyOf(c, object', revision')
  <2>1. CopyOf(c, object, revision) /\ c.rv \in Nat
    BY <1>3, CopyTypes DEF CopiesTrue
  <2> QED
    BY <1>1, <1>2, <2>1, ServerSteps DEF CopyOf
<1>4. ASSUME NEW r \in Replica, NEW c \in Copies(r)'
      PROVE  CopyOf(c, object', revision')
  <2>1. c \in Copies(r) \/ c = object' \/ c = Absent
    BY <1>4, CopySteps
  <2>2. revision' \in Nat
    BY <1>1, ServerSteps
  <2>3. CopyOf(object', object', revision') /\ CopyOf(Absent, object', revision')
    BY <1>2, <2>2 DEF CopyOf
  <2> QED
    BY <1>3, <2>1, <2>3
<1> QED
  BY <1>2, <1>4 DEF CopiesTrue

\* A queue stays in order when a version not older is sent, when its end is
\* dropped and when its head is delivered.
LEMMA InOrderAppend ==
  ASSUME NEW s \in ObjectType, NEW q \in Seq(ObjectType), NEW o \in ObjectType, InOrder(s, q),
         o.rv # 0 => s.rv <= o.rv /\ \A i \in 1..Len(q) : q[i].rv <= o.rv
  PROVE  InOrder(s, Append(q, o))
<1> DEFINE new == Append(q, o)
<1>1. /\ Len(q) \in Nat /\ Len(new) = Len(q) + 1 /\ new[Len(q) + 1] = o
      /\ \A i \in 1..Len(q) : new[i] = q[i]
  OBVIOUS
<1> HIDE DEF new
<1>2. \A i \in 1..Len(new) : i \in 1..Len(q) \/ i = Len(q) + 1
  BY <1>1
<1>3. \A i \in 1..Len(new) : new[i].rv # 0 => s.rv <= new[i].rv
  BY <1>1, <1>2 DEF InOrder
<1>4. ASSUME NEW i \in 1..Len(new), NEW j \in 1..Len(new), i < j, new[j].rv # 0
      PROVE  new[i].rv <= new[j].rv
  <2>1. i \in 1..Len(q)
    BY <1>1, <1>4
  <2> QED
    BY <1>1, <1>2, <1>4, <2>1 DEF InOrder
<1>5. InOrder(s, new)
  BY <1>3, <1>4 DEF InOrder
<1> QED
  BY <1>5 DEF new

LEMMA InOrderPrefix ==
  ASSUME NEW s, NEW q \in Seq(ObjectType), InOrder(s, q), NEW n \in 0..Len(q)
  PROVE  InOrder(s, SubSeq(q, 1, n))
<1> DEFINE new == SubSeq(q, 1, n)
<1>1. Len(q) \in Nat /\ Len(new) = n /\ \A i \in 1..n : new[i] = q[i] /\ i \in 1..Len(q)
  OBVIOUS
<1> HIDE DEF new
<1>2. InOrder(s, new)
  BY <1>1 DEF InOrder
<1> QED
  BY <1>2 DEF new

LEMMA InOrderTail ==
  ASSUME NEW s, NEW q \in Seq(ObjectType), q # <<>>, InOrder(s, q)
  PROVE  InOrder(Head(q), Tail(q))
<1> DEFINE new == Tail(q)
<1>1. /\ Len(q) \in Nat \ {0} /\ Len(new) = Len(q) - 1 /\ Head(q) = q[1]
      /\ \A i \in 1..Len(new) : new[i] = q[i + 1] /\ i + 1 \in 1..Len(q)
  OBVIOUS
<1> HIDE DEF new
<1>2. \A i, j \in 1..Len(q) : i < j /\ q[j].rv # 0 => q[i].rv <= q[j].rv
  BY DEF InOrder
<1>3. ASSUME NEW i \in 1..Len(new), new[i].rv # 0
      PROVE  Head(q).rv <= new[i].rv
  <2>1. 1 \in 1..Len(q) /\ i + 1 \in 1..Len(q) /\ 1 < i + 1
    BY <1>1
  <2> QED
    BY <1>1, <1>2, <1>3, <2>1
<1>4. ASSUME NEW i \in 1..Len(new), NEW j \in 1..Len(new), i < j, new[j].rv # 0
      PROVE  new[i].rv <= new[j].rv
  <2>1. i + 1 \in 1..Len(q) /\ j + 1 \in 1..Len(q) /\ i + 1 < j + 1
    BY <1>1, <1>4
  <2> QED
    BY <1>1, <1>2, <1>4, <2>1
<1>5. InOrder(Head(q), new)
  BY <1>3, <1>4 DEF InOrder
<1> QED
  BY <1>5 DEF new

LEMMA OrderStep ==
  TypeInv /\ CopiesTrue /\ CopiesOrdered /\ [Next]_vars => CopiesOrdered'
<1> SUFFICES ASSUME TypeInv, CopiesTrue, CopiesOrdered, [Next]_vars, NEW r \in Replica
             PROVE  InOrder(seen'[r], queue'[r])
  BY DEF CopiesOrdered
<1>1. queue[r] \in Seq(ObjectType) /\ seen[r] \in ObjectType /\ InOrder(seen[r], queue[r])
      /\ object' \in ObjectType
  BY CopyTypes, NextType DEF CopiesOrdered, TypeInv, ServerType
<1>2. ASSUME NEW c \in Copies(r) PROVE object'.rv # 0 => c.rv <= object'.rv
  <2>1. c.rv \in Nat /\ c.rv <= revision /\ revision \in Nat
    BY <1>2, CopyTypes DEF CopiesTrue, CopyOf, TypeInv, ServerType
  <2>2. object.rv \in {0, revision} /\ Absent.rv = 0
    BY DEF CopiesTrue, Absent
  <2> QED
    BY <2>1, <2>2, ServerSteps
<1>3. CASE seen'[r] = seen[r] /\ queue'[r] = Append(queue[r], object')
  <2>1. object'.rv # 0 => /\ seen[r].rv <= object'.rv
                          /\ \A i \in 1..Len(queue[r]) : queue[r][i].rv <= object'.rv
    BY <1>2 DEF Copies
  <2> QED
    BY <1>1, <1>3, <2>1, InOrderAppend
<1>4. CASE seen'[r] = seen[r] /\ \E n \in 0..Len(queue[r]) : queue'[r] = SubSeq(queue[r], 1, n)
  BY <1>1, <1>4, InOrderPrefix
<1>5. CASE queue[r] # <<>> /\ seen'[r] = Head(queue[r]) /\ queue'[r] = Tail(queue[r])
  BY <1>1, <1>5, InOrderTail
<1>6. CASE seen'[r] = seen[r] /\ queue[r] = <<>> /\ queue'[r] = <<seen[r]>>
  BY <1>1, <1>6 DEF InOrder, ObjectType
<1>7. CASE seen'[r] = Absent /\ queue'[r] = <<>>
  BY <1>7 DEF InOrder
<1> QED
  BY <1>1, <1>3, <1>4, <1>5, <1>6, <1>7, InformerSteps DEF Delivered

\* Writers are started for copies that were just seen.
LEMMA WriterSteps ==
  ASSUME TypeInv, [Next]_vars, NEW w \in writers'
  PROVE  w \in writers
         \/ \E r \in Replica, c \in ObjectType : c \in Copies(r) /\ w \in WriterFor(r, c)
<1>1. CASE Replicas
  <2>1. ASSUME NEW r \in Replica, Observe(r)
        PROVE  \E c \in ObjectType : c \in Copies(r) /\ writers' = writers \cup WriterFor(r, c)
    <3>1. queue[r] \in Seq(ObjectType) /\ queue[r] # <<>>
      BY <2>1 DEF Observe, TypeInv, InformerType
    <3>2. Head(queue[r]) \in ObjectType /\ Head(queue[r]) \in Copies(r)
      BY <3>1, SMTT(40) DEF Copies
    <3> QED
      BY <2>1, <3>2 DEF Observe
  <2> QED
    BY <1>1, <2>1 DEF Replicas, Relist, Resync, WatchEnds, ListFails, Restart
<1>2. CASE ~Replicas
  BY <1>2 DEF Next, Environment, EditPolicy, CreatePolicy, DeletePolicy, StatusWriters,
              StatusWrite, StatusWriteFails, Admins, Review, Submit, Update, WaitObserved, vars
<1> QED
  BY <1>1, <1>2

LEMMA WritersStep ==
  TypeInv /\ CopiesTrue /\ WritersTrue /\ [Next]_vars => WritersTrue'
<1> SUFFICES ASSUME TypeInv, CopiesTrue, WritersTrue, [Next]_vars, NEW w \in writers'
             PROVE  /\ w.rv # 0 /\ w.rv <= revision'
                    /\ w.rv = object'.rv => w.status = StatusOf(w.at, object')
  BY DEF WritersTrue, StatusOf
<1>1. /\ w.rv # 0 /\ w.rv \in Nat /\ w.rv <= revision
      /\ w.rv = object.rv => w.status = StatusOf(w.at, object)
  <2>1. CASE w \in writers
    BY <2>1 DEF WritersTrue, TypeInv, WriterType
  <2>2. ASSUME NEW r \in Replica, NEW c \in ObjectType, c \in Copies(r), w \in WriterFor(r, c)
        PROVE  <1>1!:
    <3>1. w.at = r /\ w.rv = c.rv /\ w.rv # 0 /\ w.status = StatusOf(r, c)
      BY <2>2, ObservedTypes
    <3>2. CopyOf(c, object, revision)
      BY <2>2 DEF CopiesTrue
    <3> QED
      BY <3>1, <3>2 DEF CopyOf, StatusOf, ObjectType
  <2> QED
    BY <2>1, <2>2, WriterSteps
<1>2. revision \in Nat /\ Absent.rv = 0
  BY DEF TypeInv, ServerType, Absent
<1> QED
  BY <1>1, <1>2, ServerSteps

\* A status written back describes the stored spec; a changed spec has a
\* generation of its own.
LEMMA StatusStep ==
  TypeInv /\ WritersTrue /\ StatusTrue /\ [Next]_vars => StatusTrue'
<1> SUFFICES ASSUME TypeInv, WritersTrue, StatusTrue, [Next]_vars PROVE StatusTrue'
  OBVIOUS
<1> DEFINE True(o) == /\ o.status.gen <= o.gen
                      /\ o.rv # 0 /\ o.status.gen = o.gen
                           => \E r \in Replica : o.status = StatusOf(r, o)
<1>1. True(object) /\ (True(object') => StatusTrue')
  BY DEF StatusTrue, StatusHonest, StatusOf
<1>2. object \in ObjectType /\ revision \in Nat /\ object.status \in StatusType
      /\ object.gen \in Nat /\ object.status.gen \in Nat
  BY DEF TypeInv, ServerType, ObjectType, StatusType
<1>3. ASSUME NEW o, object' = o, True(o) PROVE StatusTrue'
  BY <1>1, <1>3
<1> HIDE DEF True
<1>4. CASE object' = object
  BY <1>1, <1>3, <1>4
<1>5. ASSUME NEW p \in StoragePolicy, NEW n, n.rv # 0, n.gen = WithSpec(p).gen,
             n.spec = p, n.status = object.status, object.rv # 0
      PROVE  True(n)
  <2>1. CASE p = object.spec
    <3>1. n.gen = object.gen
      BY <1>5, <2>1, WithSpecType DEF TypeInv
    <3> QED
      BY <1>1, <1>5, <2>1, <3>1 DEF StatusOf, True
  <2>2. CASE p # object.spec
    <3>1. n.gen = object.gen + 1
      BY <1>5, <2>2, WithSpecType DEF TypeInv
    <3> QED
      BY <1>1, <1>2, <1>5, <3>1 DEF True
  <2> QED
    BY <2>1, <2>2
<1>6. CASE EditPolicy
  <2>1. PICK p \in StoragePolicy : Store(WithSpec(p)) /\ object.rv # 0
    BY <1>6, PolicyAssumption DEF EditPolicy
  <2>2. PICK n : n = [WithSpec(p) EXCEPT !.rv = revision + 1]
    OBVIOUS
  <2>3. n.rv # 0 /\ n.gen = WithSpec(p).gen /\ n.spec = p /\ n.status = object.status
    BY <1>2, <2>2, WithSpecType DEF TypeInv, ObjectType
  <2> QED
    BY <1>3, <1>5, <2>1, <2>2, <2>3 DEF Store
<1>7. CASE CreatePolicy
  <2>1. PICK p \in StoragePolicy : Store([Absent EXCEPT !.gen = 1, !.spec = p])
    BY <1>7, PolicyAssumption DEF CreatePolicy
  <2>2. PICK n : n = [[Absent EXCEPT !.gen = 1, !.spec = p] EXCEPT !.rv = revision + 1]
    OBVIOUS
  <2>3. n.gen = 1 /\ n.status.gen = 0
    BY <2>2 DEF Absent, NoStatus
  <2>4. True(n)
    BY <2>3 DEF True
  <2>5. object' = n
    BY <2>1, <2>2 DEF Store
  <2> QED
    BY <1>3, <2>4, <2>5
<1>8. CASE DeletePolicy
  <2>1. object' = Absent /\ True(Absent)
    BY <1>8 DEF DeletePolicy, True, Absent, NoStatus
  <2> QED
    BY <1>3, <2>1
<1>9. ASSUME NEW w \in writers, StatusWrite(w), IsObserved(w) PROVE StatusTrue'
  <2>1. w.at \in Replica /\ w.status = StatusOf(w.at, object)
    BY <1>9 DEF IsObserved, WritersTrue, TypeInv, WriterType
  <2>2. PICK n : n = [[object EXCEPT !.status = w.status] EXCEPT !.rv = revision + 1]
    OBVIOUS
  <2>3. n.gen = object.gen /\ n.spec = object.spec /\ n.status = w.status
    BY <1>2, <2>2 DEF ObjectType
  <2>4. n.status = StatusOf(w.at, n) /\ n.status.gen = n.gen
    BY <2>1, <2>3 DEF StatusOf
  <2>5. True(n)
    BY <1>2, <2>1, <2>3, <2>4 DEF True
  <2> QED
    BY <1>3, <1>9, <2>2, <2>5 DEF StatusWrite, Store
<1>10. ASSUME NEW a \in Admin, object.rv # 0,
              Store([WithSpec(admin[a].policy) EXCEPT !.by = a])
       PROVE  StatusTrue'
  <2>1. PICK p \in StoragePolicy : p = admin[a].policy
    BY DEF TypeInv, AdminType, ChangeType
  <2>2. PICK n : n = [[WithSpec(p) EXCEPT !.by = a] EXCEPT !.rv = revision + 1]
    OBVIOUS
  <2>3. n.rv # 0 /\ n.gen = WithSpec(p).gen /\ n.spec = p /\ n.status = object.status
    BY <1>2, <2>2, WithSpecType DEF TypeInv, ObjectType
  <2> QED
    BY <1>3, <1>5, <1>10, <2>1, <2>2, <2>3 DEF Store
<1>11. CASE Replicas \/ UNCHANGED vars
  BY <1>4, <1>11 DEF Replicas, Observe, Relist, Resync, WatchEnds, ListFails, Restart,
                     server, vars
<1>12. CASE StatusWriters
  BY <1>4, <1>9, <1>12 DEF StatusWriters, StatusWrite, StatusWriteFails, server
<1>13. CASE Admins
  BY <1>4, <1>10, <1>13 DEF Admins, Review, Submit, Update, WaitObserved, server
<1> QED
  BY <1>6, <1>7, <1>8, <1>11, <1>12, <1>13 DEF Next, Environment

\* A snapshot in force shows the object its replica saw last.
LEMMA SnapshotSeen ==
  ASSUME TypeInv, NEW r \in Replica, Authoritative(snapshot[r])
  PROVE  /\ snapshot[r].rv = seen[r].rv /\ snapshot[r].gen = seen[r].gen
         /\ snapshot[r].requested = Normalize(seen[r].spec)
         /\ snapshot[r].effective = Intersect(seen[r].spec, Ceil[r])
         /\ seen[r] \in Copies(r) /\ seen[r] \in ObjectType /\ snapshot[r].rv \in Nat \ {0}
<1>1. seen[r] \in ObjectType /\ seen[r] \in Copies(r) /\ snapshot[r] \in SnapshotType
  BY DEF TypeInv, InformerType, SnapshotsTyped, Copies
<1>2. snapshot[r] = SnapshotOf(r, seen[r])
  BY DEF TypeInv, SnapshotsTyped, SnapshotsSeen, Authoritative, Unavailable
<1> QED
  BY <1>1, <1>2, ObservedTypes DEF Authoritative, SnapshotType

\* What was reviewed stays true: another version never has the same number.
LEMMA ReviewedKept ==
  ASSUME TypeInv, CopiesTrue, [Next]_vars, NEW d \in ChangeType, Reviewed(d, object, revision)
  PROVE  Reviewed(d, object', revision')
<1>1. revision \in Nat /\ d.base \in Nat /\ d.base <= revision /\ Absent.rv = 0
  BY DEF TypeInv, ServerType, ChangeType, Reviewed, Absent
<1>2. CASE object' = object /\ revision' = revision
  BY <1>2
<1>3. CASE object'.rv = revision + 1 /\ revision' = revision + 1
  BY <1>1, <1>3 DEF Reviewed
<1>4. CASE object' = Absent /\ revision' = revision
  BY <1>1, <1>4 DEF Reviewed
<1> QED
  BY <1>2, <1>3, <1>4, ServerSteps

LEMMA ReviewedIdle ==
  ASSUME TypeInv, NEW d, d.base \in Nat, d.base <= revision,
         d.pc \in {"idle", "applied", "replayed"}
  PROVE  Reviewed(d, object, revision)
BY DEF Reviewed, Open

LEMMA ReviewedResend ==
  ASSUME TypeInv, NEW d \in ChangeType, Reviewed(d, object, revision), d.pc \in Open
  PROVE  Reviewed(Resend(d), object, revision)
BY ResendType DEF Reviewed, ReviewOf, Open

\* A step of an administrator records a review of the stored version, or of
\* one that is gone.
LEMMA ReviewReviewed ==
  ASSUME TypeInv, CopiesTrue, NEW a \in Admin, NEW r \in Replica, Review(a, r)
  PROVE  Reviewed(admin'[a], object, revision)
<1>1. PICK p \in Policies :
        /\ CeilingViolations(Normalize(p), Ceil[r]) = {}
        /\ admin' = [admin EXCEPT ![a] =
            [Idle EXCEPT !.pc = "reviewed", !.base = snapshot[r].rv,
               !.policy = Normalize(p), !.ceiling = Ceil[r],
               !.broadening = Broadens(snapshot[r].effective, Intersect(p, Ceil[r])),
               !.pool = ~snapshot[r].effective.allowPoolDelete
                          /\ Intersect(p, Ceil[r]).allowPoolDelete]]
  BY DEF Review
<1>2. p \in StoragePolicy /\ Ceil[r] \in Ceiling
  BY PolicyAssumption
<1>3. PICK d : d = admin'[a]
  OBVIOUS
<1>4. /\ d.pc = "reviewed" /\ d.base = snapshot[r].rv
      /\ d.policy = Normalize(p) /\ d.ceiling = Ceil[r]
      /\ d.broadening = Broadens(snapshot[r].effective, Intersect(p, Ceil[r]))
      /\ d.pool = (~snapshot[r].effective.allowPoolDelete
                     /\ Intersect(p, Ceil[r]).allowPoolDelete)
  BY <1>1, <1>3 DEF TypeInv, AdminType, Idle
<1>5. Authoritative(snapshot[r])
  BY DEF Review
<1>6. /\ d.base # 0 /\ d.base <= revision
      /\ d.base = object.rv => snapshot[r].effective = Intersect(object.spec, Ceil[r])
  BY <1>4, <1>5, SnapshotSeen DEF CopiesTrue, CopyOf
<1>7. Intersect(d.policy, Ceil[r]) = Intersect(p, Ceil[r]) /\ Normalize(d.policy) = d.policy
  BY <1>2, <1>4, IntersectType, NormalizeType
<1>8. ASSUME d.base = object.rv PROVE ReviewOf(d, object)
  <2>1. snapshot[r].effective = Intersect(object.spec, d.ceiling)
        /\ Intersect(d.policy, d.ceiling) = Intersect(p, Ceil[r])
    BY <1>4, <1>6, <1>7, <1>8
  <2> QED
    BY <1>4, <2>1 DEF ReviewOf
<1>9. Reviewed(d, object, revision)
  BY <1>1, <1>4, <1>6, <1>7, <1>8 DEF Reviewed
<1> QED
  BY <1>3, <1>9

LEMMA ReviewsStep ==
  TypeInv /\ CopiesTrue /\ ReviewsTrue /\ [Next]_vars => ReviewsTrue'
<1> SUFFICES ASSUME TypeInv, CopiesTrue, ReviewsTrue, [Next]_vars, NEW x \in Admin
             PROVE  Reviewed(admin'[x], object', revision')
  BY DEF ReviewsTrue
<1>1. /\ admin[x] \in ChangeType /\ admin'[x] \in ChangeType
      /\ Reviewed(admin[x], object, revision)
  BY NextType DEF TypeInv, AdminType, ReviewsTrue
<1>2. admin[x].base \in Nat /\ admin[x].base <= revision /\ revision \in Nat
  BY <1>1 DEF ChangeType, Reviewed, TypeInv, ServerType
<1>3. Reviewed(Idle, object, revision) /\ Idle.base = 0
  BY <1>2, ReviewedIdle DEF Idle
<1> SUFFICES Reviewed(admin'[x], object, revision)
  BY <1>1, ReviewedKept
<1>4. CASE admin' = admin
  BY <1>1, <1>4
<1>5. ASSUME NEW r \in Replica, Restart(r) PROVE Reviewed(admin'[x], object, revision)
  <2>1. admin'[x] = admin[x] \/ (admin[x].pc \in Open /\ admin'[x] = Resend(admin[x]))
    BY <1>5 DEF Restart, Open
  <2> QED
    BY <1>1, <2>1, ReviewedResend
<1>6. ASSUME NEW a \in Admin, a # x, NEW d, admin' = [admin EXCEPT ![a] = d]
      PROVE  Reviewed(admin'[x], object, revision)
  BY <1>1, <1>6
<1>7. ASSUME NEW r \in Replica, Review(x, r) PROVE Reviewed(admin'[x], object, revision)
  BY <1>7, ReviewReviewed
<1>8. ASSUME NEW o, NEW s, o \in {"applied", "replayed"}, Answer(x, o, s)
      PROVE  Reviewed(admin'[x], object, revision)
  <2>1. admin'[x].pc = o /\ admin'[x].base = admin[x].base
    BY <1>8 DEF Answer, TypeInv, AdminType, Idle
  <2> QED
    BY <1>2, <1>8, <2>1, ReviewedIdle
<1>9. ASSUME Refuse(x) PROVE Reviewed(admin'[x], object, revision)
  BY <1>3, <1>9 DEF Refuse, TypeInv, AdminType
<1>10. ASSUME Return(x), admin[x].pc \in Open PROVE Reviewed(admin'[x], object, revision)
  BY <1>1, <1>10, ReviewedResend DEF Return, TypeInv, AdminType
<1>11. ASSUME NEW r \in Replica, NEW phrases, Phrased(admin[x], phrases),
              admin[x].pc = "reviewed",
              admin' = [admin EXCEPT ![x] =
                         [@ EXCEPT !.pc = "admitted", !.at = r, !.phrases = phrases]]
       PROVE  Reviewed(admin'[x], object, revision)
  <2>1. PICK d : d = admin'[x]
    OBVIOUS
  <2>2. /\ d.base = admin[x].base /\ d.policy = admin[x].policy
        /\ d.ceiling = admin[x].ceiling /\ d.broadening = admin[x].broadening
        /\ d.pool = admin[x].pool /\ d.phrases = phrases
    BY <1>1, <1>11, <2>1 DEF TypeInv, AdminType, ChangeType
  <2>3. Reviewed(d, object, revision)
    BY <1>1, <1>11, <2>2 DEF Reviewed, ReviewOf, Open, Phrased, Asked
  <2> QED
    BY <2>1, <2>3
<1>12. ASSUME NEW w, admin[x].pc = "admitted",
              admin' = [admin EXCEPT ![x] = [@ EXCEPT !.pc = "written", !.written = w]]
       PROVE  Reviewed(admin'[x], object, revision)
  <2>1. PICK d : d = admin'[x]
    OBVIOUS
  <2>2. /\ d.base = admin[x].base /\ d.policy = admin[x].policy /\ d.pc = "written"
        /\ d.ceiling = admin[x].ceiling /\ d.broadening = admin[x].broadening
        /\ d.pool = admin[x].pool
    BY <1>1, <1>12, <2>1 DEF TypeInv, AdminType, ChangeType
  <2>3. Reviewed(d, object, revision)
    BY <1>1, <1>12, <2>2 DEF Reviewed, ReviewOf, Open
  <2> QED
    BY <2>1, <2>3
<1>13. ASSUME NEW r \in Replica, Submit(x, r) PROVE Reviewed(admin'[x], object, revision)
  <2>1. PICK phrases \in SUBSET Asked(admin[x]) :
          \/ Answer(x, "replayed", snapshot[r])
          \/ /\ Phrased(admin[x], phrases)
             /\ admin' = [admin EXCEPT ![x] =
                  [@ EXCEPT !.pc = "admitted", !.at = r, !.phrases = phrases]]
          \/ Refuse(x)
    BY <1>13 DEF Submit, Verify
  <2>2. admin[x].pc = "reviewed"
    BY <1>13 DEF Submit
  <2>3. CASE Answer(x, "replayed", snapshot[r])
    BY <1>8, <2>3
  <2>4. CASE Refuse(x)
    BY <1>9, <2>4
  <2> QED
    BY <1>11, <2>1, <2>2, <2>3, <2>4
<1>14. ASSUME Update(x) PROVE Reviewed(admin'[x], object, revision)
  <2>1. PICK w : w = [rv |-> revision + 1,
                     gen |-> [WithSpec(admin[x].policy) EXCEPT !.by = x].gen]
    OBVIOUS
  <2>3. \/ admin' = [admin EXCEPT ![x] = [@ EXCEPT !.pc = "written", !.written = w]]
        \/ Refuse(x) \/ Return(x)
    BY <1>14, <2>1 DEF Update
  <2>2. admin[x].pc = "admitted"
    BY <1>14 DEF Update
  <2> QED
    BY <1>9, <1>10, <1>12, <2>2, <2>3 DEF Open
<1>15. ASSUME WaitObserved(x) PROVE Reviewed(admin'[x], object, revision)
  <2>1. (\E s : Answer(x, "applied", s)) \/ Return(x)
    BY <1>15 DEF WaitObserved
  <2>2. admin[x].pc = "written"
    BY <1>15 DEF WaitObserved
  <2> QED
    BY <1>8, <1>10, <2>1, <2>2 DEF Open
<1>16. CASE Admins
  <2>1. PICK a \in Admin :
          (\E r \in Replica : Review(a, r) \/ Submit(a, r)) \/ Update(a) \/ WaitObserved(a)
    BY <1>16 DEF Admins
  <2>2. \E d : admin' = [admin EXCEPT ![a] = d]
    BY <2>1 DEF Review, Submit, Update, WaitObserved, Answer, Refuse, Return
  <2> QED
    BY <1>6, <1>7, <1>13, <1>14, <1>15, <2>1, <2>2
<1>17. CASE Replicas
  BY <1>4, <1>5, <1>17 DEF Replicas, Observe, Relist, Resync, WatchEnds, ListFails
<1>18. CASE Environment \/ StatusWriters \/ UNCHANGED vars
  BY <1>4, <1>18 DEF Environment, EditPolicy, CreatePolicy, DeletePolicy, StatusWriters,
                     StatusWrite, StatusWriteFails, vars
<1> QED
  BY <1>16, <1>17, <1>18 DEF Next

LEMMA AnswerKept ==
  ASSUME TypeInv, CopiesTrue, ReviewsTrue, [Next]_vars, NEW x \in Admin, AnswerTrue(x),
         admin'[x] = admin[x]
  PROVE  AnswerTrue(x)'
<1>1. PICK d \in ChangeType : d = admin[x] /\ d = admin'[x]
  BY DEF TypeInv, AdminType
<1>2. /\ revision \in Nat /\ Absent.rv = 0 /\ d.base \in Nat /\ d.base <= revision
      /\ object.rv \in {0, revision} /\ d.written.rv \in Nat
  BY <1>1 DEF TypeInv, ServerType, Absent, CopiesTrue, ReviewsTrue, Reviewed, ChangeType
<1>3. d.pc \in {"admitted", "written"} => d.at \in Replica
  BY <1>1 DEF TypeInv, AdminType, ChangesPlaced
<1>4. ASSUME d.pc = "admitted", NEW c \in Copies(d.at)', c.rv # 0
      PROVE  c.rv >= d.base
  <2>1. c \in Copies(d.at) \/ c = object' \/ c = Absent
    BY <1>3, <1>4, CopySteps
  <2> QED
    BY <1>1, <1>2, <1>4, <2>1, ServerSteps DEF AnswerTrue
<1>5. ASSUME d.pc = "written", NEW c \in Copies(d.at)' \cup {object'}
      PROVE  d.written.rv <= revision' /\ Settled(d, c)
  <2>1. c \in Copies(d.at) \/ c = object' \/ c = Absent
    BY <1>3, <1>5, CopySteps
  <2>2. d.written.rv <= revision /\ \A e \in Copies(d.at) \cup {object} : Settled(d, e)
    BY <1>1, <1>5 DEF AnswerTrue
  <2>3. Settled(d, object')
    BY <1>2, <2>2, ServerSteps DEF Settled
  <2>4. d.written.rv <= revision'
    BY <1>2, <2>2, ServerSteps
  <2> QED
    BY <1>2, <2>1, <2>2, <2>3, <2>4 DEF Settled
<1> QED
  BY <1>1, <1>4, <1>5 DEF AnswerTrue, Copies

\* A change is admitted at a replica that has seen the version it replaces.
LEMMA AnswerAdmitted ==
  ASSUME TypeInv, CopiesOrdered, NEW a \in Admin, NEW r \in Replica, NEW phrases,
         Authoritative(snapshot[r]), IsCurrent(a, snapshot[r]), UNCHANGED informer,
         admin' = [admin EXCEPT ![a] =
           [@ EXCEPT !.pc = "admitted", !.at = r, !.phrases = phrases]]
  PROVE  AnswerTrue(a)'
<1>1. admin'[a].pc = "admitted" /\ admin'[a].at = r /\ admin'[a].base = admin[a].base
  BY DEF TypeInv, AdminType, ChangeType
<1>2. admin[a].base = seen[r].rv /\ seen[r].rv \in Nat
  BY SnapshotSeen DEF IsCurrent, ObjectType
<1>3. \A c \in Copies(r) : c.rv # 0 => c.rv >= seen[r].rv
  BY <1>2, CopyTypes DEF Copies, CopiesOrdered, InOrder
<1>4. Copies(r)' = Copies(r)
  BY DEF Copies, informer
<1> QED
  BY <1>1, <1>2, <1>3, <1>4 DEF AnswerTrue

\* Between the version a change replaces and the one it writes there is none.
LEMMA AnswerWritten ==
  ASSUME TypeInv, CopiesTrue, ReviewsTrue, AnswersTrue, [Next]_vars,
         NEW a \in Admin, NEW next, next = [WithSpec(admin[a].policy) EXCEPT !.by = a],
         admin[a].pc = "admitted", object.rv # 0, Matches(a), Store(next),
         admin' = [admin EXCEPT ![a] =
           [@ EXCEPT !.pc = "written", !.written = [rv |-> revision + 1, gen |-> next.gen]]]
  PROVE  AnswerTrue(a)'
<1>1. PICK d \in ChangeType : d = admin[a]
  BY DEF TypeInv, AdminType
<1>2. PICK e \in ChangeType : e = admin'[a]
  BY NextType DEF TypeInv, AdminType
<1>3. /\ e.pc = "written" /\ e.at = d.at /\ e.policy = d.policy
      /\ e.written = [rv |-> revision + 1, gen |-> next.gen]
  BY <1>1, <1>2 DEF TypeInv, AdminType, ChangeType
<1>4. /\ next.spec = d.policy
      /\ next.gen = IF d.policy = object.spec THEN object.gen ELSE object.gen + 1
  BY <1>1, WithSpecType DEF TypeInv, ChangeType, ObjectType
<1>5. /\ revision \in Nat /\ object \in ObjectType /\ object.gen \in Nat
      /\ object.rv = revision /\ d.base = object.rv
      /\ Normalize(d.policy) = d.policy /\ d.at \in Replica
  BY <1>1 DEF TypeInv, ServerType, ObjectType, CopiesTrue, Matches, ReviewsTrue, Reviewed,
              Open, AdminType, ChangesPlaced
<1>6. e.written.rv = revision + 1 /\ e.written.gen = next.gen
  BY <1>3
<1>7. ASSUME NEW c \in Copies(d.at) PROVE Settled(e, c)
  <2>1. c \in ObjectType /\ c.rv \in Nat /\ CopyOf(c, object, revision)
    BY <1>5, <1>7, CopyTypes DEF CopiesTrue
  <2>2. c.rv # 0 => c.rv >= d.base
    BY <1>1, <1>7 DEF AnswersTrue, AnswerTrue
  <2>3. CASE c.rv = 0
    BY <2>3 DEF Settled
  <2>4. CASE c.rv # 0
    <3>1. c.spec = object.spec /\ c.gen = object.gen
      BY <1>5, <2>1, <2>2, <2>4 DEF CopyOf
    <3>2. d.policy = object.spec \/ c.gen < next.gen
      BY <1>4, <1>5, <3>1
    <3> QED
      BY <1>3, <1>5, <1>6, <3>1, <3>2 DEF Settled
  <2> QED
    BY <2>3, <2>4
<1>8. Settled(e, object')
  <2>1. object'.spec = d.policy
    BY <1>1, <1>4, WithSpecType DEF Store, TypeInv, ObjectType, ChangeType
  <2> QED
    BY <1>3, <1>5, <2>1 DEF Settled
<1>9. \A c \in Copies(d.at)' \cup {object'} : Settled(e, c)
  <2>1. Settled(e, Absent)
    BY DEF Settled, Absent
  <2> QED
    BY <1>5, <1>7, <1>8, <2>1, CopySteps
<1>10. e.written.rv <= revision'
  BY <1>5, <1>6 DEF Store
<1> QED
  BY <1>2, <1>3, <1>9, <1>10 DEF AnswerTrue, Copies

LEMMA AnswerApplied ==
  ASSUME TypeInv, AnswersTrue, NEW a \in Admin, admin[a].pc = "written",
         IsObservedIn(snapshot[admin[a].at], admin[a]),
         Answer(a, "applied", snapshot[admin[a].at])
  PROVE  AnswerTrue(a)'
<1>1. PICK d \in ChangeType : d = admin[a]
  BY DEF TypeInv, AdminType
<1>2. PICK s \in SnapshotType : s = snapshot[d.at]
  BY <1>1 DEF TypeInv, AdminType, ChangesPlaced, SnapshotsTyped
<1>3. d.at \in Replica /\ Authoritative(s) /\ s.gen >= d.written.gen
  BY <1>1, <1>2 DEF TypeInv, AdminType, ChangesPlaced, IsObservedIn
<1>4. PICK c \in ObjectType : c \in Copies(d.at) /\ s.rv = c.rv /\ s.gen = c.gen
                              /\ s.requested = Normalize(c.spec)
  BY <1>2, <1>3, SnapshotSeen
<1>5. Settled(d, c)
  BY <1>1, <1>4 DEF AnswersTrue, AnswerTrue
<1>6. s.requested = d.policy \/ s.rv > d.written.rv
  BY <1>1, <1>3, <1>4, <1>5 DEF Settled, Authoritative, ObjectType, ChangeType
<1>7. /\ admin'[a].pc = "applied" /\ admin'[a].answer = s
      /\ admin'[a].policy = d.policy /\ admin'[a].written = d.written
  BY <1>1, <1>2 DEF Answer, TypeInv, AdminType, Idle
<1> QED
  BY <1>6, <1>7 DEF AnswerTrue

LEMMA AnswersStep ==
  TypeInv /\ CopiesTrue /\ CopiesOrdered /\ ReviewsTrue /\ AnswersTrue /\ [Next]_vars
    => AnswersTrue'
<1> SUFFICES ASSUME TypeInv, CopiesTrue, CopiesOrdered, ReviewsTrue, AnswersTrue, [Next]_vars,
                    NEW x \in Admin
             PROVE  AnswerTrue(x)'
  BY DEF AnswersTrue
<1>1. CASE admin'[x] = admin[x]
  BY <1>1, AnswerKept DEF AnswersTrue
<1>2. ASSUME admin'[x].pc \in {"idle", "reviewed", "replayed"} PROVE AnswerTrue(x)'
  BY <1>2 DEF AnswerTrue
<1>3. admin \in [Admin -> ChangeType]
  BY DEF TypeInv, AdminType
<1>4. Refuse(x) \/ Return(x) => AnswerTrue(x)'
  BY <1>2, <1>3, ResendType DEF Refuse, Return, Idle
<1>5. ASSUME NEW r \in Replica, Review(x, r) PROVE AnswerTrue(x)'
  <2>1. admin'[x].pc = "reviewed"
    BY <1>3, <1>5 DEF Review, Idle
  <2> QED
    BY <1>2, <2>1
<1>6. ASSUME NEW r \in Replica, Submit(x, r) PROVE AnswerTrue(x)'
  <2>1. PICK phrases \in SUBSET Asked(admin[x]) :
          \/ Answer(x, "replayed", snapshot[r])
          \/ /\ IsCurrent(x, snapshot[r])
             /\ admin' = [admin EXCEPT ![x] =
                  [@ EXCEPT !.pc = "admitted", !.at = r, !.phrases = phrases]]
          \/ Refuse(x)
    BY <1>6 DEF Submit
  <2>2. Authoritative(snapshot[r]) /\ UNCHANGED informer
    BY <1>6 DEF Submit
  <2>3. CASE Answer(x, "replayed", snapshot[r])
    BY <1>2, <1>3, <2>3 DEF Answer, Idle
  <2>4. CASE IsCurrent(x, snapshot[r])
             /\ admin' = [admin EXCEPT ![x] =
                  [@ EXCEPT !.pc = "admitted", !.at = r, !.phrases = phrases]]
    BY <2>2, <2>4, AnswerAdmitted
  <2> QED
    BY <1>4, <2>1, <2>3, <2>4
<1>7. ASSUME Update(x) PROVE AnswerTrue(x)'
  <2>1. PICK next : next = [WithSpec(admin[x].policy) EXCEPT !.by = x]
    OBVIOUS
  <2>2. \/ /\ object.rv # 0 /\ Matches(x) /\ Store(next)
           /\ admin' = [admin EXCEPT ![x] =
                [@ EXCEPT !.pc = "written", !.written = [rv |-> revision + 1, gen |-> next.gen]]]
        \/ Refuse(x) \/ Return(x)
    BY <1>7, <2>1 DEF Update
  <2>3. admin[x].pc = "admitted"
    BY <1>7 DEF Update
  <2> QED
    BY <1>4, <2>1, <2>2, <2>3, AnswerWritten
<1>8. ASSUME WaitObserved(x) PROVE AnswerTrue(x)'
  BY <1>4, <1>8, AnswerApplied DEF WaitObserved
<1>9. CASE Admins
  <2>1. PICK a \in Admin :
          (\E r \in Replica : Review(a, r) \/ Submit(a, r)) \/ Update(a) \/ WaitObserved(a)
    BY <1>9 DEF Admins
  <2>2. \E d : admin' = [admin EXCEPT ![a] = d]
    BY <2>1 DEF Review, Submit, Update, WaitObserved, Answer, Refuse, Return
  <2> QED
    BY <1>1, <1>3, <1>5, <1>6, <1>7, <1>8, <2>1, <2>2
<1>10. ASSUME NEW r \in Replica, Restart(r) PROVE AnswerTrue(x)'
  <2>1. admin'[x] = admin[x] \/ admin'[x] = Resend(admin[x])
    BY <1>10 DEF Restart
  <2> QED
    BY <1>1, <1>2, <1>3, <2>1, ResendType
<1>11. CASE Replicas
  BY <1>1, <1>10, <1>11 DEF Replicas, Observe, Relist, Resync, WatchEnds, ListFails
<1>12. CASE Environment \/ StatusWriters \/ UNCHANGED vars
  BY <1>1, <1>12 DEF Environment, EditPolicy, CreatePolicy, DeletePolicy, StatusWriters,
                     StatusWrite, StatusWriteFails, vars
<1> QED
  BY <1>9, <1>11, <1>12 DEF Next

LEMMA InitInv == Init => IInv
<1> SUFFICES ASSUME Init PROVE IInv
  OBVIOUS
<1>1. PICK p \in Policies :
        object = [Absent EXCEPT !.rv = 1, !.gen = 1, !.spec = p, !.by = Author]
  BY DEF Init
<1>2. object.rv = 1 /\ object.gen = 1 /\ object.status = NoStatus /\ revision = 1
  BY <1>1 DEF Init, Absent
<1>3. \A r \in Replica : Copies(r) = {Absent}
  BY DEF Init, Copies
<1>4. CopiesTrue /\ CopiesOrdered
  BY <1>2, <1>3 DEF Init, CopiesTrue, CopiesOrdered, CopyOf, InOrder, Absent
<1>5. WritersTrue /\ StatusTrue
  BY <1>2 DEF Init, WritersTrue, StatusTrue, StatusHonest, NoStatus
<1>6. ReviewsTrue /\ AnswersTrue
  BY <1>2 DEF Init, ReviewsTrue, Reviewed, AnswersTrue, AnswerTrue, Idle, Open
<1> QED
  BY <1>4, <1>5, <1>6 DEF IInv

LEMMA NextInv == TypeInv /\ IInv /\ [Next]_vars => IInv'
BY CopiesStep, OrderStep, WritersStep, StatusStep, ReviewsStep, AnswersStep DEF IInv

LEMMA Invariant == Spec => [](TypeInv /\ IInv)
<1>1. Init => TypeInv /\ IInv
  BY InitType, InitInv
<1>2. TypeInv /\ IInv /\ [Next]_vars => (TypeInv /\ IInv)'
  BY NextType, NextInv
<1> QED
  BY <1>1, <1>2, PTL DEF Spec

-----------------------------------------------------------------------------
(* Safety *)

\* A status that claims the current generation describes the current spec.
THEOREM Honest == Spec => []StatusHonest
<1>1. TypeInv /\ IInv => StatusHonest
  BY DEF IInv, StatusTrue
<1> QED
  BY <1>1, Invariant, PTL

\* An applied answer shows the requested policy or a later one.
THEOREM Observed == Spec => []AppliedIsObserved
<1>1. TypeInv /\ IInv => AppliedIsObserved
  BY DEF IInv, AnswersTrue, AnswerTrue, AppliedIsObserved
<1> QED
  BY <1>1, Invariant, PTL

\* A snapshot in force is never replaced by one of an older version.
THEOREM Forward == Spec => NoRollback
<1> DEFINE Step == \A r \in Replica :
                     Authoritative(snapshot[r]) /\ Authoritative(snapshot'[r])
                       => snapshot'[r].rv >= snapshot[r].rv
<1>1. TypeInv /\ IInv /\ [Next]_vars => [Step]_vars
  <2> SUFFICES ASSUME TypeInv, IInv, [Next]_vars, NEW r \in Replica,
                      Authoritative(snapshot[r]), Authoritative(snapshot'[r])
               PROVE  snapshot'[r].rv >= snapshot[r].rv
    OBVIOUS
  <2>1. snapshot[r].rv = seen[r].rv /\ seen[r].rv \in Nat
    BY SnapshotSeen DEF ObjectType
  <2>2. snapshot'[r].rv = seen'[r].rv /\ seen'[r].rv # 0
    <3>1. /\ seen'[r] \in ObjectType
          /\ snapshot'[r] \in {Unavailable, SnapshotOf(r, seen'[r])}
      BY NextType DEF TypeInv, InformerType, SnapshotsTyped, SnapshotsSeen, SnapshotOf, FailClosed
    <3> QED
      BY <3>1, ObservedTypes DEF Authoritative, Unavailable
  <2>3. \/ seen'[r] = seen[r] \/ seen'[r] = Absent
        \/ queue[r] # <<>> /\ seen'[r] = Head(queue[r])
    BY InformerSteps DEF Delivered
  <2>4. ASSUME queue[r] # <<>>, seen'[r] = Head(queue[r])
        PROVE  seen'[r].rv >= seen[r].rv
    <3>1. 1 \in 1..Len(queue[r]) /\ Head(queue[r]) = queue[r][1]
      BY <2>4, CopyTypes
    <3>2. queue[r][1].rv \in Nat
      BY <3>1, CopyTypes DEF Copies
    <3> QED
      BY <2>1, <2>2, <2>4, <3>1, <3>2 DEF IInv, CopiesOrdered, InOrder
  <2> QED
    BY <2>1, <2>2, <2>3, <2>4 DEF Absent
<1> QED
  BY <1>1, Invariant, PTL DEF Spec, NoRollback

\* A change applied without the enabling phrase grants nothing on any replica
\* that the policy it replaced did not grant there, and without the pool phrase
\* it does not allow Ceph pool deletion.
THEOREM Narrow == Spec => NoUnreviewedGrant
<1> DEFINE Step == \A a \in Admin :
       admin[a].pc = "admitted" /\ admin'[a].pc # "admitted" /\ object' # object =>
         \A r \in Replica :
           LET old == Intersect(object.spec, Ceil[r])
               new == Intersect(object'.spec, Ceil[r]) IN
           /\ "enable" \notin admin[a].phrases => Grants(new) \subseteq Grants(old)
           /\ "pool" \notin admin[a].phrases /\ new.allowPoolDelete
                => old.allowPoolDelete
<1>1. TypeInv /\ IInv /\ [Next]_vars => [Step]_vars
  <2> SUFFICES ASSUME TypeInv, IInv, [Next]_vars, NEW a \in Admin, NEW r \in Replica,
                      admin[a].pc = "admitted", admin'[a].pc # "admitted", object' # object
               PROVE  LET old == Intersect(object.spec, Ceil[r])
                          new == Intersect(object'.spec, Ceil[r]) IN
                      /\ "enable" \notin admin[a].phrases => Grants(new) \subseteq Grants(old)
                      /\ "pool" \notin admin[a].phrases /\ new.allowPoolDelete
                           => old.allowPoolDelete
    OBVIOUS
  <2>1. Update(a)
    <3>1. ~Replicas /\ ~Environment /\ ~StatusWriters
      BY DEF Replicas, Observe, Relist, Resync, WatchEnds, ListFails, Restart, server,
             Environment, EditPolicy, CreatePolicy, DeletePolicy,
             StatusWriters, StatusWrite, StatusWriteFails
    <3>2. PICK x \in Admin : Update(x)
      BY <3>1 DEF Next, vars, server, Admins, Review, Submit, WaitObserved
    <3>3. x = a
      BY <3>2 DEF Update, Refuse, Return, TypeInv, AdminType
    <3> QED
      BY <3>2, <3>3
  <2>2. object.rv = admin[a].base /\ Store([WithSpec(admin[a].policy) EXCEPT !.by = a])
    BY <2>1 DEF Update, Matches, server
  <2>3. PICK d \in ChangeType : d = admin[a]
    BY DEF TypeInv, AdminType
  <2>4. object \in ObjectType /\ object'.spec = d.policy
    BY <2>2, <2>3, WithSpecType DEF Store, TypeInv, ServerType, ObjectType, ChangeType
  <2>5. /\ Normalize(d.policy) = d.policy /\ CeilingViolations(d.policy, d.ceiling) = {}
        /\ ReviewOf(d, object) /\ Asked(d) \subseteq d.phrases
    BY <2>2, <2>3 DEF IInv, ReviewsTrue, Reviewed, Open
  <2>6. /\ object.spec \in StoragePolicy /\ d.policy \in StoragePolicy
        /\ d.ceiling \in Ceiling /\ Ceil[r] \in Ceiling
    BY <2>4, PolicyAssumption DEF ObjectType, ChangeType
  <2>7. "enable" \notin d.phrases =>
          Grants(Intersect(d.policy, Ceil[r])) \subseteq Grants(Intersect(object.spec, Ceil[r]))
    BY <2>5, <2>6, NarrowEverywhere DEF Asked, ReviewOf
  <2>8. "pool" \notin d.phrases /\ Intersect(d.policy, Ceil[r]).allowPoolDelete =>
          Intersect(object.spec, Ceil[r]).allowPoolDelete
    BY <2>5, <2>6, NoPoolAnywhere DEF Asked, ReviewOf
  <2> QED
    BY <2>3, <2>4, <2>7, <2>8
<1> QED
  BY <1>1, Invariant, PTL DEF Spec, NoUnreviewedGrant
=============================================================================

----------------------- MODULE OperationAdmissionProofs -----------------------
(***************************************************************************)
(* Machine-checked proofs about OperationAdmission, for every set of       *)
(* replicas, submissions, confirmations and targets and any number of      *)
(* policy versions, target revisions and faults.                           *)
(***************************************************************************)
EXTENDS OperationAdmission, TLAPS

-----------------------------------------------------------------------------
(* Type correctness *)

\* A review in progress has its replica and its target.
ReviewsPlaced ==
  \A c \in Challenge : challenge[c].step # "none" =>
    challenge[c].at \in Replica /\ challenge[c].target \in Target

\* A submission in progress carries a challenge that was handed out.
RequestsBacked ==
  \A q \in Request : request[q].pc # "idle" =>
    /\ request[q].at \in Replica /\ request[q].by \in Challenge
    /\ Review(q).step \in {"issued", "expired"}

\* The inductive type invariant, by groups of variables.
PolicyType ==
  /\ allows \in Seq(SUBSET Grants) /\ allows # <<>>
  /\ feed \in [Replica -> Version] /\ closed \in [Replica -> BOOLEAN]

StoreType ==
  /\ target \in [Target -> Nat] /\ ops \subseteq Operation
  /\ evidence \subseteq Challenge /\ created \in [Challenge -> Nat] /\ faults \in Nat

ChallengeType == challenge \in [Challenge -> ReviewType] /\ ReviewsPlaced

HandlerType == request \in [Request -> RequestType] /\ RequestsBacked

TypeInv == PolicyType /\ StoreType /\ ChallengeType /\ HandlerType

\* A counted fault leaves the count a number.
LEMMA FaultType ==
  ASSUME faults \in Nat, Fault \/ UNCHANGED faults
  PROVE  faults' \in Nat
  BY DEF Fault

\* A version stays published when another one is.
LEMMA Published ==
  ASSUME allows \in Seq(SUBSET Grants), PublishPolicy \/ UNCHANGED allows
  PROVE  Version \subseteq Version' /\ \A v \in Version : allows'[v] = allows[v]
<1>1. CASE UNCHANGED allows
  BY <1>1 DEF Version
<1>2. CASE PublishPolicy
  <2>1. PICK g \in PolicyGrants : allows' = Append(allows, g)
    BY <1>2 DEF PublishPolicy
  <2>2. g \in SUBSET Grants
    BY AdmissionAssumption
  <2>3. Version = 1..Len(allows) /\ Version' = 1..(Len(allows) + 1)
    BY <2>1, <2>2 DEF Version
  <2> QED
    BY <2>1, <2>2, <2>3
<1> QED
  BY <1>1, <1>2

LEMMA InitType == Init => TypeInv
<1> SUFFICES ASSUME Init PROVE TypeInv
  OBVIOUS
<1>1. PolicyType
  <2>1. PICK g \in PolicyGrants : allows = <<g>>
    BY DEF Init
  <2>2. allows \in Seq(SUBSET Grants) /\ allows # <<>> /\ Version = {1}
    BY <2>1, AdmissionAssumption DEF Version
  <2> QED
    BY <2>2 DEF Init, PolicyType
<1>2. StoreType
  BY DEF Init, StoreType
<1>3. ChallengeType
  BY DEF Init, ChallengeType, ReviewsPlaced, NoReview, ReviewType, Classes
<1>4. HandlerType
  BY SMTT(40) DEF Init, HandlerType, RequestsBacked, NoRequest, RequestType
<1> QED
  BY <1>1, <1>2, <1>3, <1>4 DEF TypeInv

\* The three ways the policy moves, and the actions that leave it alone.
LEMMA PolicySteps ==
  ASSUME [Next]_vars
  PROVE  \/ PublishPolicy
         \/ \E r \in Replica : ObservePolicy(r) \/ LosePolicy(r)
         \/ UNCHANGED policy
  BY DEF Next, Policy, Reviews, Submissions, Environment, vars, Authorize, Plan, Issue,
         Expire, Submit, PlanAgain, AuthorizePlannedProvider, Verify, FindEquivalent,
         FindActiveTarget, AuditAdmit, Create, Abandon, FinishOperation,
         CollectOperation, EditTarget

LEMMA PolicyStep ==
  ASSUME PolicyType, [Next]_vars
  PROVE  /\ PolicyType' /\ Version \subseteq Version'
         /\ \A v \in Version : allows'[v] = allows[v]
         /\ \A r \in Replica : feed'[r] >= feed[r]
<1>1. Version = 1..Len(allows) /\ Len(allows) \in Nat
  BY DEF PolicyType, Version
<1>2. CASE PublishPolicy
  <2>1. PICK g \in PolicyGrants : allows' = Append(allows, g)
    BY <1>2 DEF PublishPolicy
  <2>2. allows' \in Seq(SUBSET Grants) /\ allows' # <<>>
    BY <2>1, AdmissionAssumption DEF PolicyType
  <2>3. Version \subseteq Version' /\ \A v \in Version : allows'[v] = allows[v]
    BY <1>2, Published DEF PolicyType
  <2>4. feed' = feed /\ closed' = closed
    BY <1>2 DEF PublishPolicy
  <2> QED
    BY <1>1, <2>2, <2>3, <2>4 DEF PolicyType
<1>3. ASSUME NEW r \in Replica, ObservePolicy(r) \/ LosePolicy(r)
      PROVE  PolicyType' /\ allows' = allows /\ \A s \in Replica : feed'[s] >= feed[s]
  <2>1. /\ allows' = allows /\ closed' \in [Replica -> BOOLEAN]
        /\ \E v \in Version : v >= feed[r] /\ feed' = [feed EXCEPT ![r] = v]
    <3>1. CASE ObservePolicy(r)
      <4>1. PICK v \in Version : /\ v > feed[r] \/ v = feed[r]
                                 /\ feed' = [feed EXCEPT ![r] = v]
        BY <3>1 DEF ObservePolicy
      <4>2. v \in Nat /\ feed[r] \in Nat
        BY <1>1 DEF PolicyType
      <4>3. v >= feed[r]
        BY <4>1, <4>2
      <4>4. allows' = allows /\ closed' \in [Replica -> BOOLEAN]
        BY <3>1 DEF ObservePolicy, PolicyType
      <4> QED
        BY <4>1, <4>3, <4>4
    <3>2. CASE LosePolicy(r)
      BY <1>1, <3>2 DEF LosePolicy, PolicyType
    <3> QED
      BY <1>3, <3>1, <3>2
  <2> QED
    BY <1>1, <2>1 DEF PolicyType, Version
<1>4. CASE UNCHANGED policy
  BY <1>1, <1>4 DEF policy, PolicyType, Version
<1> QED
  BY <1>2, <1>3, <1>4, PolicySteps DEF Version

\* Nothing but its expiry changes a challenge that was handed out.
Handed(c) == challenge[c].step \in {"issued", "expired"}

Kept(c) ==
  /\ Handed(c)' /\ (challenge[c].step = "expired" => challenge'[c].step = "expired")
  /\ challenge'[c].at = challenge[c].at /\ challenge'[c].class = challenge[c].class
  /\ challenge'[c].target = challenge[c].target
  /\ challenge'[c].rv = challenge[c].rv /\ challenge'[c].policy = challenge[c].policy

LEMMA ChallengeSteps ==
  ASSUME [Next]_vars
  PROVE  \/ Reviews
         \/ UNCHANGED challenge
  BY DEF Next, Policy, Submissions, Environment, vars, PublishPolicy, ObservePolicy,
         LosePolicy, Submit, PlanAgain, AuthorizePlannedProvider, Verify,
         FindEquivalent, FindActiveTarget, AuditAdmit, Create, Abandon,
         FinishOperation, CollectOperation, EditTarget

LEMMA ChallengeStep ==
  ASSUME TypeInv, [Next]_vars
  PROVE  ChallengeType' /\ \A c \in Challenge : Handed(c) => Kept(c)
<1>1. PolicyType /\ StoreType /\ ChallengeType /\ Version \subseteq Version'
  BY PolicyStep DEF TypeInv
<1>2. challenge \in [Challenge -> ReviewType']
  BY <1>1 DEF ChallengeType, ReviewType
<1>3. ASSUME NEW c \in Challenge, NEW v \in ReviewType',
             challenge' = [challenge EXCEPT ![c] = v],
             v.step # "none" => v.at \in Replica /\ v.target \in Target
      PROVE  ChallengeType'
  BY <1>1, <1>2, <1>3 DEF ChallengeType, ReviewsPlaced
<1>4. CASE UNCHANGED challenge
  BY <1>1, <1>2, <1>4 DEF ChallengeType, ReviewsPlaced, Handed, Kept
<1>5. ASSUME NEW c \in Challenge, NEW r \in Replica, NEW class \in Classes,
             NEW t \in Target, Authorize(c, r, class, t)
      PROVE  ChallengeType' /\ \A d \in Challenge : Handed(d) => Kept(d)
  <2> DEFINE v == [NoReview EXCEPT !.step = "authorized", !.at = r,
                                   !.class = class, !.target = t]
  <2>1. challenge' = [challenge EXCEPT ![c] = v] /\ challenge[c].step = "none"
    BY <1>5 DEF Authorize
  <2>2. v \in ReviewType' /\ v.at \in Replica /\ v.target \in Target
    BY DEF NoReview, ReviewType
  <2> HIDE DEF v
  <2> QED
    BY <1>1, <1>3, <2>1, <2>2 DEF Handed, Kept, ChallengeType
<1>6. ASSUME NEW c \in Challenge, Plan(c)
      PROVE  ChallengeType' /\ \A d \in Challenge : Handed(d) => Kept(d)
  <2> DEFINE v == [challenge[c] EXCEPT !.step = "planned",
                     !.rv = target[challenge[c].target],
                     !.policy = PolicyVersion(challenge[c].at)]
  <2>1. /\ challenge' = [challenge EXCEPT ![c] = v] /\ challenge[c].step = "authorized"
        /\ UNCHANGED allows
    BY <1>6 DEF Plan, policy
  <2>2. /\ challenge[c] \in ReviewType' /\ challenge[c].at \in Replica
        /\ challenge[c].target \in Target
    BY <1>1, <1>2, <2>1 DEF ChallengeType, ReviewsPlaced
  <2>3. target[challenge[c].target] \in Nat
    BY <1>1, <2>2 DEF StoreType
  <2>4. PolicyVersion(challenge[c].at) \in Version' \cup {0}
    BY <1>1, <2>2 DEF PolicyVersion, PolicyType
  <2>5. v \in ReviewType' /\ v.at \in Replica /\ v.target \in Target
    BY <2>2, <2>3, <2>4 DEF ReviewType
  <2> HIDE DEF v
  <2> QED
    BY <1>1, <1>3, <2>1, <2>5 DEF Handed, Kept, ChallengeType
<1>7. ASSUME NEW c \in Challenge, Issue(c)
      PROVE  ChallengeType' /\ \A d \in Challenge : Handed(d) => Kept(d)
  <2> DEFINE v == IF ProviderAllowed(challenge[c].at, challenge[c].class)
                  THEN [challenge[c] EXCEPT !.step = "issued"] ELSE NoReview
  <2>1. challenge' = [challenge EXCEPT ![c] = v] /\ challenge[c].step = "planned"
    BY <1>7 DEF Issue
  <2>2. /\ challenge[c] \in ReviewType' /\ challenge[c].at \in Replica
        /\ challenge[c].target \in Target
    BY <1>1, <1>2, <2>1 DEF ChallengeType, ReviewsPlaced
  <2>3. /\ v \in ReviewType'
        /\ v.step # "none" => v.at \in Replica /\ v.target \in Target
    BY <2>2 DEF ReviewType, NoReview, Classes
  <2> HIDE DEF v
  <2> QED
    BY <1>1, <1>3, <2>1, <2>3 DEF Handed, Kept, ChallengeType
<1>8. ASSUME NEW c \in Challenge, Expire(c)
      PROVE  ChallengeType' /\ \A d \in Challenge : Handed(d) => Kept(d)
  <2> DEFINE v == [challenge[c] EXCEPT !.step = "expired"]
  <2>1. challenge' = [challenge EXCEPT ![c] = v] /\ challenge[c].step = "issued"
    BY <1>8 DEF Expire
  <2>2. /\ challenge[c] \in ReviewType' /\ challenge[c].at \in Replica
        /\ challenge[c].target \in Target
    BY <1>1, <1>2, <2>1 DEF ChallengeType, ReviewsPlaced
  <2>3. /\ v \in ReviewType' /\ v.step = "expired"
        /\ v.at = challenge[c].at /\ v.class = challenge[c].class
        /\ v.target = challenge[c].target
        /\ v.rv = challenge[c].rv /\ v.policy = challenge[c].policy
    BY <2>2 DEF ReviewType
  <2> HIDE DEF v
  <2> QED
    BY <1>1, <1>3, <2>1, <2>2, <2>3 DEF Handed, Kept, ChallengeType
<1> QED
  BY <1>4, <1>5, <1>6, <1>7, <1>8, ChallengeSteps DEF Reviews

\* What every step may do to the target, the operations and the evidence.
LEMMA StoreSteps ==
  ASSUME [Next]_vars
  PROVE  \/ \E q \in Request : AuditAdmit(q) \/ Create(q)
         \/ \E o \in ops : FinishOperation(o) \/ CollectOperation(o)
         \/ \E t \in Target : EditTarget(t)
         \/ /\ UNCHANGED <<target, ops, evidence, created>>
            /\ Fault \/ UNCHANGED faults
  BY ZenonT(60) DEF Next, Policy, Reviews, Submissions, Environment, vars, PublishPolicy,
         ObservePolicy, LosePolicy, Authorize, Plan, Issue, Expire, Submit, PlanAgain,
         AuthorizePlannedProvider, Verify, FindEquivalent, FindActiveTarget, Abandon

\* The operation that Create stores.
Stored(q) == [name |-> Name(q), confirmation |-> request[q].by,
              at |-> request[q].at, class |-> Review(q).class,
              target |-> Review(q).target, rv |-> request[q].rv, phase |-> "active"]

\* Create stores the operation of its confirmation, or changes nothing.
LEMMA CreateCases ==
  ASSUME NEW q \in Request, Create(q)
  PROVE  /\ request[q].pc = "create"
         /\ UNCHANGED evidence /\ (Fault \/ UNCHANGED faults)
         /\ \/ /\ \A o \in ops : o.name # request[q].by
               /\ ops' = ops \cup {Stored(q)}
               /\ created' = [created EXCEPT ![request[q].by] = @ + 1]
            \/ UNCHANGED <<ops, created>>
<1>1. /\ request[q].pc = "create" /\ UNCHANGED evidence
      /\ \/ /\ \A o \in ops : o.name # Name(q)
            /\ ops' = ops \cup {Stored(q)}
            /\ created' = [created EXCEPT ![request[q].by] = @ + 1]
            /\ UNCHANGED faults
         \/ UNCHANGED <<ops, created, faults>>
         \/ Fault /\ UNCHANGED <<ops, created>>
  BY DEF Create, Stored
<1> QED
  BY <1>1 DEF Name

LEMMA StoredType ==
  ASSUME TypeInv, NEW q \in Request, request[q].pc = "create"
  PROVE  Stored(q) \in Operation
<1>1. request[q].at \in Replica /\ request[q].by \in Challenge /\ Handed(request[q].by)
  BY DEF TypeInv, HandlerType, RequestsBacked, Handed, Review
<1>2. request[q].rv \in Nat
  BY DEF TypeInv, HandlerType, RequestType
<1>3. Review(q).class \in Classes /\ Review(q).target \in Target
  BY <1>1 DEF TypeInv, ChallengeType, ReviewsPlaced, ReviewType, Review, Handed
<1> QED
  BY <1>1, <1>2, <1>3 DEF Stored, Name, Operation

LEMMA StoreStep ==
  ASSUME TypeInv, [Next]_vars
  PROVE  StoreType'
<1>1. StoreType
  BY DEF TypeInv
<1>2. ASSUME NEW q \in Request, AuditAdmit(q)
      PROVE  StoreType'
  <2>1. request[q].by \in Challenge
    BY <1>2 DEF AuditAdmit, TypeInv, HandlerType, RequestsBacked
  <2>2. /\ UNCHANGED <<target, ops, created>> /\ (Fault \/ UNCHANGED faults)
        /\ evidence' \in {evidence, evidence \cup {request[q].by}}
    BY <1>2 DEF AuditAdmit
  <2> QED
    BY <1>1, <2>1, <2>2, FaultType DEF StoreType
<1>3. ASSUME NEW q \in Request, Create(q)
      PROVE  StoreType'
  <2>1. Stored(q) \in Operation /\ request[q].by \in Challenge
    BY <1>3, StoredType, CreateCases DEF TypeInv, HandlerType, RequestsBacked
  <2>2. target' = target
    BY <1>3 DEF Create
  <2>3. faults' \in Nat
    BY <1>1, <1>3, CreateCases, FaultType DEF StoreType
  <2>4. ops' \subseteq Operation
    BY <1>1, <1>3, <2>1, CreateCases DEF StoreType
  <2>5. created' \in [Challenge -> Nat]
    BY <1>1, <1>3, <2>1, CreateCases DEF StoreType
  <2> QED
    BY <1>1, <1>3, <2>2, <2>3, <2>4, <2>5, CreateCases DEF StoreType
<1>4. ASSUME NEW o \in ops, FinishOperation(o)
      PROVE  StoreType'
  <2> DEFINE p == [o EXCEPT !.phase = "terminal"]
  <2>1. o \in Operation /\ p \in Operation
    BY <1>1 DEF StoreType, Operation
  <2>2. ops' = (ops \ {o}) \cup {p} /\ UNCHANGED <<evidence, created, faults>>
    BY <1>4 DEF FinishOperation
  <2>3. target' = [target EXCEPT ![o.target] = @ + 1] \/ target' = target
    BY <1>4 DEF FinishOperation
  <2>4. target' \in [Target -> Nat]
    BY <1>1, <2>1, <2>3 DEF StoreType, Operation
  <2> HIDE DEF p
  <2> QED
    BY <1>1, <2>1, <2>2, <2>4 DEF StoreType
<1>5. ASSUME NEW o \in ops, CollectOperation(o)
      PROVE  StoreType'
  BY <1>1, <1>5 DEF StoreType, CollectOperation
<1>6. ASSUME NEW t \in Target, EditTarget(t)
      PROVE  StoreType'
  BY <1>1, <1>6 DEF StoreType, EditTarget
<1>7. CASE UNCHANGED <<target, ops, evidence, created>> /\ (Fault \/ UNCHANGED faults)
  BY <1>1, <1>7, FaultType DEF StoreType
<1> QED
  BY <1>2, <1>3, <1>4, <1>5, <1>6, <1>7, StoreSteps

\* What one step may do to one submission.
Refined(q, pc) == request'[q] = [request[q] EXCEPT !.pc = pc]

Moved(q) ==
  \/ request'[q] = request[q]
  \/ request'[q] = NoRequest
  \/ /\ request[q].pc = "idle"
     /\ \E r \in Replica, c \in Challenge :
          /\ Handed(c) /\ Gated(r, challenge[c].class)
          /\ request'[q] = [NoRequest EXCEPT !.pc = "plan", !.at = r, !.by = c]
  \/ /\ request[q].pc = "plan"
     /\ request'[q] = [request[q] EXCEPT !.pc = "provider",
                                         !.rv = target[Review(q).target]]
  \/ /\ request[q].pc = "provider" /\ Refined(q, "verify")
     /\ ProviderAllowed(request[q].at, Review(q).class)
  \/ /\ request[q].pc = "verify" /\ Refined(q, "equivalent")
     /\ SamePlan(q) /\ PolicyVersion(request[q].at) = Review(q).policy /\ Fresh(q)
  \/ request[q].pc = "equivalent" /\ Refined(q, "active")
  \/ request[q].pc = "active" /\ Refined(q, "audit")
  \/ request[q].pc = "audit" /\ Refined(q, "create") /\ request[q].by \in evidence'

AllMoved ==
  request' = [q \in Request |-> request'[q]] /\ \A q \in Request : Moved(q)

LEMMA RequestSteps ==
  ASSUME [Next]_vars
  PROVE  Submissions \/ UNCHANGED request
  BY ZenonT(60) DEF Next, Policy, Reviews, Environment, vars, PublishPolicy, ObservePolicy,
         LosePolicy, Authorize, Plan, Issue, Expire, FinishOperation,
         CollectOperation, EditTarget

LEMMA Moves ==
  ASSUME request \in [Request -> RequestType], [Next]_vars
  PROVE  AllMoved
<1> USE DEF AllMoved, Moved, Refined
<1>1. CASE UNCHANGED request
  BY <1>1
<1>2. ASSUME NEW q \in Request, request' = [request EXCEPT ![q] = NoRequest]
      PROVE  AllMoved
  BY <1>2
<1>3. ASSUME NEW q \in Request, NEW r \in Replica, NEW c \in Challenge, Submit(q, r, c)
      PROVE  AllMoved
  <2>1. /\ request[q].pc = "idle" /\ Handed(c) /\ Gated(r, challenge[c].class)
        /\ request' = [request EXCEPT ![q] =
             [NoRequest EXCEPT !.pc = "plan", !.at = r, !.by = c]]
    BY <1>3 DEF Submit, Handed
  <2> QED
    BY <2>1
<1>4. ASSUME NEW q \in Request, PlanAgain(q)
      PROVE  AllMoved
  <2>1. /\ request[q].pc = "plan"
        /\ \/ request' = [request EXCEPT ![q].pc = "provider",
                                         ![q].rv = target[Review(q).target]]
           \/ request' = [request EXCEPT ![q] = NoRequest]
    BY <1>4 DEF PlanAgain, Reply
  <2> QED
    BY <1>2, <2>1, ZenonT(60)
<1>5. ASSUME NEW q \in Request, AuthorizePlannedProvider(q)
      PROVE  AllMoved
  <2>1. /\ request[q].pc = "provider"
        /\ \/ /\ ProviderAllowed(request[q].at, Review(q).class)
              /\ request' = [request EXCEPT ![q].pc = "verify"]
           \/ request' = [request EXCEPT ![q] = NoRequest]
    BY <1>5 DEF AuthorizePlannedProvider, Reply, Continue
  <2> QED
    BY <1>2, <2>1, ZenonT(60)
<1>6. ASSUME NEW q \in Request, Verify(q)
      PROVE  AllMoved
  <2>1. /\ request[q].pc = "verify"
        /\ \/ /\ SamePlan(q) /\ PolicyVersion(request[q].at) = Review(q).policy
              /\ Fresh(q) /\ request' = [request EXCEPT ![q].pc = "equivalent"]
           \/ request' = [request EXCEPT ![q] = NoRequest]
    BY <1>6 DEF Verify, Reply, Continue
  <2> QED
    BY <1>2, <2>1, ZenonT(60)
<1>7. ASSUME NEW q \in Request, FindEquivalent(q) \/ FindActiveTarget(q)
      PROVE  AllMoved
  <2>1. \/ /\ request[q].pc = "equivalent"
           /\ request' = [request EXCEPT ![q].pc = "active"]
        \/ /\ request[q].pc = "active"
           /\ request' = [request EXCEPT ![q].pc = "audit"]
        \/ request' = [request EXCEPT ![q] = NoRequest]
    BY <1>7 DEF FindEquivalent, FindActiveTarget, Reply, Continue
  <2> QED
    BY <1>2, <2>1, ZenonT(60)
<1>8. ASSUME NEW q \in Request, AuditAdmit(q)
      PROVE  AllMoved
  <2>1. \/ /\ request[q].pc = "audit" /\ evidence' = evidence \cup {request[q].by}
           /\ request' = [request EXCEPT ![q].pc = "create"]
        \/ request' = [request EXCEPT ![q] = NoRequest]
    BY <1>8 DEF AuditAdmit, Reply, Continue
  <2> QED
    BY <1>2, <2>1
<1>9. ASSUME NEW q \in Request, Create(q) \/ Abandon(q)
      PROVE  AllMoved
  BY <1>2, <1>9 DEF Create, Abandon, Reply
<1> QED
  BY <1>1, <1>3, <1>4, <1>5, <1>6, <1>7, <1>8, <1>9, RequestSteps DEF Submissions

\* The same, field by field.
Advance(q, from, to) == request[q].pc = from /\ request'[q].pc = to

Progress(q) ==
  /\ request'[q].by = request[q].by /\ request'[q].at = request[q].at
  /\ \/ Advance(q, "plan", "provider")
     \/ /\ request'[q].rv = request[q].rv
        /\ \/ /\ Advance(q, "provider", "verify")
              /\ ProviderAllowed(request[q].at, Review(q).class)
           \/ /\ Advance(q, "verify", "equivalent") /\ SamePlan(q) /\ Fresh(q)
              /\ PolicyVersion(request[q].at) = Review(q).policy
           \/ Advance(q, "equivalent", "active") \/ Advance(q, "active", "audit")
           \/ Advance(q, "audit", "create") /\ request[q].by \in evidence'

Entered(q) ==
  /\ request'[q].pc = "plan" /\ request'[q].at \in Replica
  /\ request'[q].by \in Challenge /\ Handed(request'[q].by)
  /\ Gated(request'[q].at, challenge[request'[q].by].class)

LEMMA Fields ==
  ASSUME TypeInv, [Next]_vars, NEW q \in Request
  PROVE  \/ request'[q] = request[q] \/ request'[q].pc = "idle"
         \/ Entered(q) \/ Progress(q)
<1>1. Moved(q) /\ request[q] \in RequestType
  BY Moves DEF TypeInv, HandlerType, AllMoved
<1>2. CASE request'[q] = NoRequest
  BY <1>2 DEF NoRequest
<1>3. ASSUME NEW r \in Replica, NEW c \in Challenge,
             Handed(c), Gated(r, challenge[c].class),
             request'[q] = [NoRequest EXCEPT !.pc = "plan", !.at = r, !.by = c]
      PROVE  Entered(q)
  <2>1. request'[q].pc = "plan" /\ request'[q].at = r /\ request'[q].by = c
    BY <1>3 DEF NoRequest
  <2> QED
    BY <1>3, <2>1 DEF Entered
<1>4. ASSUME request[q].pc = "plan",
             request'[q] = [request[q] EXCEPT !.pc = "provider",
                                              !.rv = target[Review(q).target]]
      PROVE  Progress(q)
  BY <1>1, <1>4 DEF RequestType, Progress, Advance
<1>5. ASSUME NEW pc, Refined(q, pc)
      PROVE  /\ request'[q].pc = pc /\ request'[q].by = request[q].by
             /\ request'[q].at = request[q].at /\ request'[q].rv = request[q].rv
  BY <1>1, <1>5 DEF Refined, RequestType
<1> QED
  BY <1>1, <1>2, <1>3, <1>4, <1>5, ZenonT(60) DEF Moved, Progress, Advance

\* A submission in progress stays backed by its challenge.
LEMMA HandlerStep ==
  ASSUME TypeInv, [Next]_vars
  PROVE  HandlerType'
<1>1. /\ request \in [Request -> RequestType] /\ RequestsBacked /\ StoreType
      /\ \A c \in Challenge : challenge[c] \in ReviewType /\ (Handed(c) => Kept(c))
      /\ AllMoved
  BY ChallengeStep, Moves DEF TypeInv, HandlerType, ChallengeType
<1>2. ASSUME NEW q \in Request
      PROVE  /\ request'[q] \in RequestType
             /\ request'[q].pc # "idle" =>
                  /\ request'[q].at \in Replica /\ request'[q].by \in Challenge
                  /\ challenge'[request'[q].by].step \in {"issued", "expired"}
  <2>1. /\ request[q] \in RequestType
        /\ request[q].pc # "idle" =>
             /\ request[q].at \in Replica /\ request[q].by \in Challenge
             /\ Handed(request[q].by)
             /\ challenge'[request[q].by].step \in {"issued", "expired"}
             /\ Review(q).target \in Target
    BY <1>1 DEF RequestsBacked, Handed, Kept, Review, TypeInv, ChallengeType,
                ReviewsPlaced
  <2>2. CASE request'[q] = request[q]
    BY <2>1, <2>2
  <2>3. CASE request'[q] = NoRequest
    BY <2>3 DEF NoRequest, RequestType
  <2>4. ASSUME NEW r \in Replica, NEW c \in Challenge, Handed(c),
               request'[q] = [NoRequest EXCEPT !.pc = "plan", !.at = r, !.by = c]
        PROVE  <1>2!2
    <3>1. challenge'[c].step \in {"issued", "expired"}
      BY <1>1, <2>4 DEF Kept, Handed
    <3>2. /\ request'[q] \in RequestType
          /\ request'[q].at = r /\ request'[q].by = c
      <4>1. request'[q] = [pc |-> "plan", at |-> r, by |-> c, rv |-> 0]
        BY <2>4 DEF NoRequest
      <4> QED
        BY <4>1 DEF RequestType
    <3> QED
      BY <3>1, <3>2
  <2>5. ASSUME request[q].pc = "plan",
               request'[q] = [request[q] EXCEPT !.pc = "provider",
                                                !.rv = target[Review(q).target]]
        PROVE  <1>2!2
    <3>1. target[Review(q).target] \in Nat
      BY <1>1, <2>1, <2>5 DEF StoreType
    <3>2. /\ request'[q] \in RequestType
          /\ request'[q].at = request[q].at /\ request'[q].by = request[q].by
      BY <2>1, <2>5, <3>1 DEF RequestType
    <3> QED
      BY <2>1, <2>5, <3>2
  <2>6. ASSUME NEW pc \in {"verify", "equivalent", "active", "audit", "create"},
               request[q].pc # "idle", Refined(q, pc)
        PROVE  <1>2!2
    <3>1. /\ request'[q] \in RequestType
          /\ request'[q].at = request[q].at /\ request'[q].by = request[q].by
      BY <2>1, <2>6 DEF RequestType, Refined
    <3> QED
      BY <2>1, <2>6, <3>1
  <2> QED
    BY <1>1, <2>2, <2>3, <2>4, <2>5, <2>6 DEF AllMoved, Moved
<1>3. request' \in [Request -> RequestType]
  BY <1>1, <1>2 DEF AllMoved
<1>4. RequestsBacked'
  BY <1>2 DEF RequestsBacked, Handed, Review, RequestType
<1> QED
  BY <1>3, <1>4 DEF HandlerType, RequestType

LEMMA TypeStep == TypeInv /\ [Next]_vars => TypeInv'
  BY PolicyStep, StoreStep, ChallengeStep, HandlerStep DEF TypeInv

\* Policies, targets, challenges, submissions and operations stay well typed;
\* every submission in progress carries a challenge some replica handed out.
THEOREM TypeCorrect == Spec => []TypeOK
<1>1. TypeInv => TypeOK
  BY DEF TypeInv, TypeOK, PolicyType, StoreType, ChallengeType, HandlerType
<1> QED
  BY <1>1, InitType, TypeStep, PTL DEF Spec

-----------------------------------------------------------------------------
(* One operation per confirmation *)

Past == {"equivalent", "active", "audit", "create"}

\* Once an operation was created for c, its object is stored, or it was
\* collected after c expired and no submission of c is past verification.
Spent(c) ==
  \/ \E o \in ops : o.name = c
  \/ /\ challenge[c].step = "expired"
     /\ \A q \in Request : request[q].by = c => request[q].pc \notin Past

OnceInv ==
  /\ TypeInv
  /\ \A o \in ops : o.name = o.confirmation
  /\ \A c \in Challenge : created[c] <= 1 /\ (created[c] = 1 => Spent(c))

\* A submission that passes verification does so with a challenge in force.
LEMMA PastStep ==
  ASSUME TypeInv, [Next]_vars, NEW c \in Challenge, challenge[c].step = "expired",
         \A q \in Request : request[q].by = c => request[q].pc \notin Past
  PROVE  /\ challenge'[c].step = "expired"
         /\ \A q \in Request : request'[q].by = c => request'[q].pc \notin Past
<1>1. challenge'[c].step = "expired"
  BY ChallengeStep DEF Kept, Handed
<1>2. ASSUME NEW q \in Request, request'[q].by = c
      PROVE  request'[q].pc \notin Past
  <2>1. request'[q].by = request[q].by => request[q].pc \notin Past /\ ~Fresh(q)
    BY <1>2 DEF Fresh, Review
  <2> QED
    BY <1>2, <2>1, Fields DEF Entered, Progress, Advance, Past
<1> QED
  BY <1>1, <1>2

LEMMA OnceStep ==
  ASSUME OnceInv, [Next]_vars
  PROVE  OnceInv'
<1>1. TypeInv /\ TypeInv' /\ StoreType
  BY TypeStep DEF OnceInv, TypeInv
<1>2. ASSUME NEW c \in Challenge, created' = created, Spent(c),
             (\E o \in ops : o.name = c) => (\E o \in ops' : o.name = c)
      PROVE  Spent(c)'
  BY <1>1, <1>2, PastStep DEF Spent
<1> DEFINE Goal ==
      /\ \A o \in ops' : o.name = o.confirmation
      /\ \A c \in Challenge : created'[c] <= 1 /\ (created'[c] = 1 => Spent(c)')
<1>3. ASSUME created' = created, \A o \in ops' : o.name = o.confirmation,
             \A c \in Challenge : created[c] = 1 => Spent(c)'
      PROVE  Goal
  BY <1>3 DEF OnceInv
<1>4. ASSUME NEW q \in Request, Create(q)
      PROVE  Goal
  <2>1. PICK c \in Challenge : c = request[q].by /\ request[q].pc = "create"
    BY <1>1, <1>4, CreateCases DEF TypeInv, HandlerType, RequestsBacked
  <2>2. CASE UNCHANGED <<ops, created>>
    BY <1>2, <1>3, <2>2 DEF OnceInv
  <2>3. CASE /\ \A o \in ops : o.name # c
             /\ ops' = ops \cup {Stored(q)}
             /\ created' = [created EXCEPT ![c] = @ + 1]
    <3>1. Stored(q).name = c /\ Stored(q).confirmation = c
      BY <2>1 DEF Stored, Name
    <3>2. ~Spent(c)
      BY <2>1, <2>3 DEF Spent, Past
    <3>3. created[c] = 0
      BY <1>1, <2>1, <3>2 DEF OnceInv, StoreType
    <3>4. created'[c] = 1 /\ Spent(c)'
      BY <1>1, <2>1, <2>3, <3>1, <3>3 DEF StoreType, Spent
    <3>5. ASSUME NEW d \in Challenge, d # c
          PROVE  created'[d] <= 1 /\ (created'[d] = 1 => Spent(d)')
      <4>1. created'[d] = created[d]
        BY <1>1, <2>3, <3>5 DEF StoreType
      <4>2. ASSUME Spent(d) PROVE Spent(d)'
        BY <1>1, <2>3, <4>2, PastStep DEF Spent
      <4> QED
        BY <4>1, <4>2 DEF OnceInv
    <3>6. \A o \in ops' : o.name = o.confirmation
      BY <2>3, <3>1 DEF OnceInv
    <3> QED
      BY <3>4, <3>5, <3>6
  <2> QED
    BY <1>4, <2>1, <2>2, <2>3, CreateCases
<1>5. ASSUME NEW o \in ops, FinishOperation(o)
      PROVE  Goal
  <2> DEFINE p == [o EXCEPT !.phase = "terminal"]
  <2>1. o \in Operation /\ ops' = (ops \ {o}) \cup {p} /\ created' = created
    BY <1>1, <1>5 DEF StoreType, FinishOperation
  <2>2. p.name = o.name /\ p.confirmation = o.confirmation
    BY <2>1 DEF Operation
  <2> HIDE DEF p
  <2> QED
    BY <1>2, <1>3, <2>1, <2>2 DEF OnceInv
<1>6. ASSUME NEW o \in ops, CollectOperation(o)
      PROVE  Goal
  <2>1. /\ ops' = ops \ {o} /\ created' = created
        /\ challenge' = challenge /\ request' = request
        /\ challenge[o.confirmation].step = "expired"
        /\ \A q \in Request : request[q].by # o.confirmation
    BY <1>6 DEF CollectOperation
  <2>2. ASSUME NEW c \in Challenge, Spent(c)
        PROVE  Spent(c)'
    <3>1. CASE c = o.name
      BY <2>1, <3>1 DEF Spent, OnceInv
    <3>2. CASE c # o.name
      BY <1>2, <2>1, <2>2, <3>2
    <3> QED
      BY <3>1, <3>2
  <2> QED
    BY <1>3, <2>1, <2>2 DEF OnceInv
<1>7. ASSUME UNCHANGED <<ops, created>>
      PROVE  Goal
  BY <1>2, <1>3, <1>7 DEF OnceInv
<1>8. Goal
  BY <1>4, <1>5, <1>6, <1>7, StoreSteps DEF AuditAdmit, EditTarget
<1> QED
  BY <1>1, <1>8 DEF OnceInv

\* A confirmation submitted any number of times, on any replicas, while lists
\* fail and the collector removes old operations, creates one operation: its
\* name is the challenge's, and it is collected only after the challenge expired.
THEOREM Once == Spec => []OneOperationPerConfirmation
<1>1. Init => OnceInv
  <2> SUFFICES ASSUME Init PROVE OnceInv
    OBVIOUS
  <2>1. ops = {} /\ \A c \in Challenge : created[c] = 0
    BY DEF Init
  <2> QED
    BY <2>1, InitType DEF OnceInv
<1>2. OnceInv /\ [Next]_vars => OnceInv'
  BY OnceStep
<1>3. OnceInv => OneOperationPerConfirmation
  BY DEF OnceInv, OneOperationPerConfirmation
<1> QED
  BY <1>1, <1>2, <1>3, PTL DEF Spec

-----------------------------------------------------------------------------
(* What the stored operations stand for *)

Terminated(o) == [o EXCEPT !.phase = "terminal"]

\* Where the operations of the next state come from.
LEMMA Origins ==
  ASSUME TypeInv, [Next]_vars, NEW p \in ops'
  PROVE  \/ p \in ops
         \/ \E q \in Request : request[q].pc = "create" /\ p = Stored(q)
         \/ \E o \in ops : /\ p.confirmation = o.confirmation
                           /\ p.rv = o.rv /\ p.at = o.at /\ p.class = o.class
<1>1. ASSUME NEW o \in ops, FinishOperation(o), p \notin ops
      PROVE  /\ p.confirmation = o.confirmation
             /\ p.rv = o.rv /\ p.at = o.at /\ p.class = o.class
  <2>1. o \in Operation /\ p = Terminated(o)
    BY <1>1 DEF TypeInv, StoreType, FinishOperation, Terminated
  <2> QED
    BY <2>1 DEF Operation, Terminated
<1>2. ASSUME NEW q \in Request, Create(q), p \notin ops
      PROVE  request[q].pc = "create" /\ p = Stored(q)
  BY <1>2, CreateCases
<1>3. ASSUME NEW o \in ops, CollectOperation(o)
      PROVE  p \in ops
  BY <1>3 DEF CollectOperation
<1> QED
  BY <1>1, <1>2, <1>3, StoreSteps DEF AuditAdmit, EditTarget

\* Evidence precedes the creation; nothing takes it back.
AdmitInv ==
  /\ TypeInv
  /\ \A q \in Request : request[q].pc = "create" => request[q].by \in evidence
  /\ AdmittedWithEvidence

LEMMA AdmitStep ==
  ASSUME AdmitInv, [Next]_vars
  PROVE  AdmitInv'
<1>1. TypeInv /\ TypeInv'
  BY TypeStep DEF AdmitInv
<1>2. evidence \subseteq evidence'
  BY StoreSteps DEF AuditAdmit, Create, FinishOperation, CollectOperation, EditTarget
<1>3. ASSUME NEW q \in Request, request'[q].pc = "create"
      PROVE  request'[q].by \in evidence'
  <2>1. \/ request'[q] = request[q]
        \/ request'[q].by = request[q].by /\ request[q].by \in evidence'
    BY <1>1, <1>3, Fields DEF Entered, Progress, Advance
  <2> QED
    BY <1>2, <1>3, <2>1 DEF AdmitInv
<1>4. ASSUME NEW p \in ops'
      PROVE  p.confirmation \in evidence'
  BY <1>1, <1>2, Origins DEF AdmitInv, AdmittedWithEvidence, Stored
<1> QED
  BY <1>1, <1>3, <1>4 DEF AdmitInv, AdmittedWithEvidence

\* No operation is stored without a durable admission event of its
\* confirmation: the append precedes Create and its failure ends the request.
THEOREM Evidenced == Spec => []AdmittedWithEvidence
<1>1. Init => AdmitInv
  <2> SUFFICES ASSUME Init PROVE AdmitInv
    OBVIOUS
  <2>1. ops = {} /\ \A q \in Request : request[q].pc = "idle"
    BY DEF Init, NoRequest
  <2> QED
    BY <2>1, InitType DEF AdmitInv, AdmittedWithEvidence
<1>2. AdmitInv /\ [Next]_vars => AdmitInv'
  BY AdmitStep
<1>3. AdmitInv => AdmittedWithEvidence
  BY DEF AdmitInv
<1> QED
  BY <1>1, <1>2, <1>3, PTL DEF Spec

\* A submission past verification, and the operation made of it, has planned on
\* the reviewed revision.
RevisionInv ==
  /\ TypeInv
  /\ \A q \in Request : request[q].pc \in Past => SamePlan(q)
  /\ \A o \in ops : o.confirmation \in Challenge /\ Handed(o.confirmation)
  /\ ApprovedIsReviewed

LEMMA RevisionStep ==
  ASSUME RevisionInv, [Next]_vars
  PROVE  RevisionInv'
<1>1. TypeInv /\ TypeInv' /\ \A c \in Challenge : Handed(c) => Kept(c)
  BY TypeStep, ChallengeStep DEF RevisionInv
<1>2. ASSUME NEW q \in Request, request'[q].pc \in Past
      PROVE  request'[q].rv = challenge'[request'[q].by].rv
  <2>1. request[q].pc # "idle" =>
          request[q].by \in Challenge /\ Handed(request[q].by)
    BY <1>1 DEF TypeInv, HandlerType, RequestsBacked, Review, Handed
  <2>2. /\ request[q].pc # "idle" /\ SamePlan(q)
        /\ request'[q].by = request[q].by /\ request'[q].rv = request[q].rv
    BY <1>1, <1>2, Fields DEF Entered, Progress, Advance, Past, RevisionInv
  <2> QED
    BY <1>1, <2>1, <2>2 DEF SamePlan, Review, Kept
<1>3. ASSUME NEW q \in Request, request[q].pc = "create"
      PROVE  /\ Stored(q).confirmation \in Challenge /\ Handed(Stored(q).confirmation)
             /\ Stored(q).rv = challenge[Stored(q).confirmation].rv
  BY <1>1, <1>3 DEF Stored, TypeInv, HandlerType, RequestsBacked, Handed, Review,
                    RevisionInv, SamePlan, Past
<1>4. ASSUME NEW p \in ops'
      PROVE  /\ p.confirmation \in Challenge /\ Handed(p.confirmation)
             /\ p.rv = challenge[p.confirmation].rv
  BY <1>1, <1>3, Origins DEF RevisionInv, ApprovedIsReviewed
<1>5. ASSUME NEW p \in ops'
      PROVE  /\ p.confirmation \in Challenge
             /\ challenge'[p.confirmation].step \in {"issued", "expired"}
             /\ p.rv = challenge'[p.confirmation].rv
  BY <1>1, <1>4 DEF Kept, Handed
<1> QED
  BY <1>1, <1>2, <1>5 DEF RevisionInv, ApprovedIsReviewed, SamePlan, Review, Handed

\* An operation is created for the revision the user reviewed, however the
\* target changed between review, submission and creation: the plan made again
\* carries the hash in the challenge.
THEOREM Reviewed == Spec => []ApprovedIsReviewed
<1>1. Init => RevisionInv
  <2> SUFFICES ASSUME Init PROVE RevisionInv
    OBVIOUS
  <2>1. ops = {} /\ \A q \in Request : request[q].pc = "idle"
    BY DEF Init, NoRequest
  <2> QED
    BY <2>1, InitType DEF RevisionInv, ApprovedIsReviewed, Past
<1>2. RevisionInv /\ [Next]_vars => RevisionInv'
  BY RevisionStep
<1>3. RevisionInv => ApprovedIsReviewed
  BY DEF RevisionInv
<1> QED
  BY <1>1, <1>2, <1>3, PTL DEF Spec

-----------------------------------------------------------------------------
(* The reviewed policy version *)

\* What version v grants to the action confirmed by c.
Opens(c, v) == challenge[c].class \in allows[v]

Serves(c, v) == challenge[c].class = "portable" => "provider" \in allows[v]

\* One replica served the review and the submission, and knew a policy then.
OneReplica(q) == request[q].at = Review(q).at /\ Review(q).policy # 0

\* A replica never goes back behind a version it planned with, so a gate that
\* was looked at later and at the reviewed version was looked at that version.
PolicyInv ==
  /\ TypeInv
  /\ \A c \in Challenge :
       challenge[c].step \in {"planned", "issued", "expired"} =>
         challenge[c].policy <= feed[challenge[c].at]
  /\ \A q \in Request :
       LET v == Review(q).policy
           reviewed == v = feed[request[q].at] \/ request[q].pc \in Past
       IN  request[q].pc # "idle" /\ OneReplica(q) /\ reviewed =>
             /\ Opens(request[q].by, v)
             /\ request[q].pc \notin {"plan", "provider"} => Serves(request[q].by, v)
  /\ \A o \in ops : o.confirmation \in Challenge /\ Handed(o.confirmation)
                    /\ o.class = challenge[o.confirmation].class
  /\ ReviewedPolicyAllows

\* Once handed out, a challenge keeps its class, its version and its replica,
\* and published versions keep their grants.
LEMMA Lasting ==
  ASSUME TypeInv, [Next]_vars, NEW c \in Challenge, Handed(c)
  PROVE  /\ challenge'[c].step \in {"issued", "expired"}
         /\ challenge'[c].at = challenge[c].at /\ challenge[c].at \in Replica
         /\ challenge'[c].policy = challenge[c].policy
         /\ challenge'[c].class = challenge[c].class
         /\ challenge[c].policy \in Nat
         /\ challenge[c].policy # 0 =>
              /\ challenge[c].policy \in Version
              /\ allows'[challenge[c].policy] = allows[challenge[c].policy]
<1>1. Kept(c) /\ challenge[c] \in ReviewType /\ challenge[c].at \in Replica
  BY ChallengeStep DEF TypeInv, ChallengeType, ReviewsPlaced, Handed
<1>2. challenge[c].policy \in Version \cup {0}
  BY <1>1 DEF ReviewType
<1>3. Version \subseteq Nat /\ \A v \in Version : allows'[v] = allows[v]
  BY PolicyStep DEF TypeInv, PolicyType, Version
<1>4. CASE challenge[c].policy = 0
  BY <1>1, <1>4 DEF Kept, Handed
<1>5. CASE challenge[c].policy \in Version
  <2>1. challenge[c].policy \in Nat
    BY <1>3, <1>5
  <2>2. allows'[challenge[c].policy] = allows[challenge[c].policy]
    BY <1>3, <1>5
  <2> QED
    BY <1>1, <1>5, <2>1, <2>2 DEF Kept, Handed
<1> QED
  BY <1>2, <1>4, <1>5

LEMMA PlannedStep ==
  ASSUME PolicyInv, [Next]_vars, NEW c \in Challenge,
         challenge'[c].step \in {"planned", "issued", "expired"}
  PROVE  challenge'[c].policy <= feed'[challenge'[c].at]
<1>1. /\ TypeInv /\ \A r \in Replica : feed'[r] >= feed[r]
      /\ \A r \in Replica : feed[r] \in Nat /\ feed'[r] \in Nat
  BY PolicyStep DEF PolicyInv, TypeInv, PolicyType, Version
<1>2. ASSUME challenge'[c] = challenge[c]
      PROVE  challenge'[c].policy <= feed'[challenge'[c].at]
  <2>1. challenge[c].at \in Replica /\ challenge[c].policy \in Nat
    BY <1>1, <1>2 DEF TypeInv, ChallengeType, ReviewsPlaced, ReviewType, PolicyType,
                      Version
  <2> QED
    BY <1>1, <1>2, <2>1 DEF PolicyInv
<1>3. challenge \in [Challenge -> ReviewType]
  BY <1>1 DEF TypeInv, ChallengeType
<1>4. ASSUME NEW d \in Challenge, Plan(d)
      PROVE  challenge'[c].policy <= feed'[challenge'[c].at]
  <2>1. CASE c # d
    BY <1>2, <1>3, <1>4, <2>1 DEF Plan
  <2>2. CASE c = d
    <3>1. /\ challenge[d].step = "authorized" /\ feed' = feed
          /\ challenge'[d] = [challenge[d] EXCEPT !.step = "planned",
               !.rv = target[challenge[d].target], !.policy = PolicyVersion(challenge[d].at)]
      BY <1>3, <1>4 DEF Plan, policy
    <3>2. /\ challenge'[d].policy = PolicyVersion(challenge[d].at)
          /\ challenge'[d].at = challenge[d].at
      BY <1>3, <3>1 DEF ReviewType
    <3>3. challenge[d].at \in Replica
      BY <1>1, <3>1 DEF TypeInv, ChallengeType, ReviewsPlaced
    <3> QED
      BY <1>1, <2>2, <3>1, <3>2, <3>3 DEF PolicyVersion
  <2> QED
    BY <2>1, <2>2
<1>5. ASSUME NEW d \in Challenge, Issue(d) \/ Expire(d)
      PROVE  challenge'[c].policy <= feed'[challenge'[c].at]
  <2>1. CASE c # d
    BY <1>2, <1>3, <1>5, <2>1 DEF Issue, Expire
  <2>2. CASE c = d
    <3>1. /\ challenge[d].step \in {"planned", "issued"} /\ feed' = feed
          /\ challenge'[d].step # "none"
      BY <1>5, <2>2 DEF Issue, Expire, policy
    <3>2. \/ challenge'[d] = NoReview
          \/ \E step \in {"issued", "expired"} :
               challenge'[d] = [challenge[d] EXCEPT !.step = step]
      BY <1>3, <1>5 DEF Issue, Expire
    <3>3. /\ challenge'[d].at = challenge[d].at
          /\ challenge'[d].policy = challenge[d].policy
      BY <1>3, <3>1, <3>2 DEF ReviewType, NoReview
    <3> QED
      BY <2>2, <3>1, <3>3 DEF PolicyInv
  <2> QED
    BY <2>1, <2>2
<1>6. ASSUME NEW d \in Challenge, NEW r \in Replica, NEW class \in Classes,
             NEW t \in Target, Authorize(d, r, class, t)
      PROVE  challenge'[c].policy <= feed'[challenge'[c].at]
  <2>1. CASE c # d
    BY <1>2, <1>3, <1>6, <2>1 DEF Authorize
  <2>2. CASE c = d
    <3>1. challenge'[d] = [NoReview EXCEPT !.step = "authorized", !.at = r,
                                           !.class = class, !.target = t]
      BY <1>3, <1>6 DEF Authorize
    <3>2. challenge'[d].step = "authorized"
      BY <3>1 DEF NoReview
    <3> QED
      BY <2>2, <3>2
  <2> QED
    BY <2>1, <2>2
<1> QED
  BY <1>2, <1>4, <1>5, <1>6, ChallengeSteps DEF Reviews

\* The version a submission reads is the reviewed one or was superseded later.
LEMMA ReadStep ==
  ASSUME PolicyInv, [Next]_vars, NEW q \in Request, request'[q].pc # "idle",
         request'[q].at = challenge'[request'[q].by].at,
         challenge'[request'[q].by].policy # 0,
         \/ challenge'[request'[q].by].policy = feed'[request'[q].at]
         \/ request'[q].pc \in Past
  PROVE  LET c == request'[q].by  v == challenge'[c].policy IN
         /\ challenge'[c].class \in allows'[v]
         /\ request'[q].pc \notin {"plan", "provider"} =>
              (challenge'[c].class = "portable" => "provider" \in allows'[v])
<1>1. TypeInv /\ HandlerType /\ RequestsBacked
  BY DEF PolicyInv, TypeInv, HandlerType
<1>2. PICK c \in Challenge : c = request'[q].by /\ Handed(c)
  BY <1>1, Fields DEF Entered, Progress, Advance, RequestsBacked, Review, Handed
<1> DEFINE v == challenge[c].policy
           k == challenge[c].class
<1>3. /\ challenge'[c].at = challenge[c].at /\ challenge[c].at \in Replica
      /\ challenge'[c].policy = v /\ challenge'[c].class = k
      /\ v \in Nat \ {0} /\ allows'[v] = allows[v]
  BY <1>1, <1>2, Lasting
<1>4. v <= feed[challenge[c].at] /\ feed[challenge[c].at] \in Nat
      /\ feed'[challenge[c].at] \in Nat /\ feed'[challenge[c].at] >= feed[challenge[c].at]
  BY <1>1, <1>2, <1>3, PolicyStep, SMTT(40) DEF PolicyInv, TypeInv, PolicyType, Version, Handed
<1>5. v = feed'[challenge[c].at] => v = feed[challenge[c].at]
  BY <1>3, <1>4
<1> HIDE DEF v, k
<1> SUFFICES /\ k \in allows[v]
             /\ request'[q].pc \notin {"plan", "provider"} =>
                  (k = "portable" => "provider" \in allows[v])
  BY <1>2, <1>3
<1>6. request'[q].at = challenge[c].at
  BY <1>2, <1>3
<1>7. v = feed[challenge[c].at] \/ request'[q].pc \in Past
  BY <1>2, <1>3, <1>5, <1>6
<1>8. /\ request[q] \in RequestType
      /\ request[q].pc # "idle" => request[q].at \in Replica
  BY <1>1 DEF HandlerType, RequestsBacked
<1>9. CASE Entered(q)
  <2>1. request'[q].pc = "plan" /\ Gated(challenge[c].at, k)
    BY <1>2, <1>6, <1>9 DEF Entered, k
  <2>2. k \in Effective(PolicyVersion(challenge[c].at))
    BY <2>1 DEF Gated, FeatureEnabled
  <2>3. v = feed[challenge[c].at]
    BY <1>7, <2>1 DEF Past
  <2>4. k \in allows[v]
    BY <2>2, <2>3 DEF Effective, PolicyVersion
  <2> QED
    BY <2>1, <2>4
<1>10. ASSUME request'[q] = request[q] \/ Progress(q)
       PROVE  request[q].pc # "idle" /\ request[q].at = challenge[c].at
              /\ request[q].by = c /\ Review(q).policy = v /\ Review(q).class = k
  BY <1>2, <1>6, <1>10 DEF Progress, Advance, Review, v, k
<1>11. CASE request'[q] = request[q]
  BY <1>3, <1>7, <1>10, <1>11 DEF PolicyInv, OneReplica, Opens, Serves, Review, v, k
<1>12. CASE Progress(q)
  <2>1. CASE Advance(q, "provider", "verify")
    <3>1. v = feed[challenge[c].at]
      BY <1>7, <2>1 DEF Advance, Past
    <3>2. k \in allows[v]
      BY <1>3, <1>10, <1>12, <3>1 DEF PolicyInv, OneReplica, Opens, Review, k, v
    <3>3. ProviderAllowed(challenge[c].at, k)
      BY <1>10, <1>12, <2>1 DEF Progress, Advance
    <3>4. k = "portable" => "provider" \in allows[v]
      BY <3>1, <3>3 DEF ProviderAllowed, Effective, PolicyVersion
    <3> QED
      BY <3>2, <3>4
  <2>2. CASE Advance(q, "verify", "equivalent")
    <3>1. PolicyVersion(challenge[c].at) = v
      BY <1>10, <1>12, <2>2 DEF Progress, Advance
    <3>2. v = feed[challenge[c].at]
      BY <1>3, <3>1 DEF PolicyVersion
    <3> QED
      BY <1>3, <1>10, <1>12, <2>2, <3>2
         DEF PolicyInv, OneReplica, Opens, Serves, Review, Advance, k, v
  <2>3. CASE Advance(q, "plan", "provider")
    <3>1. v = feed[challenge[c].at]
      BY <1>7, <2>3 DEF Advance, Past
    <3> QED
      BY <1>3, <1>10, <1>12, <2>3, <3>1
         DEF PolicyInv, OneReplica, Opens, Review, Advance, k, v
  <2>4. CASE request[q].pc \in Past
    BY <1>3, <1>10, <1>12, <2>4
       DEF PolicyInv, OneReplica, Opens, Serves, Review, Past, k, v
  <2> QED
    BY <1>12, <2>1, <2>2, <2>3, <2>4 DEF Progress, Advance, Past
<1> QED
  BY <1>1, <1>9, <1>11, <1>12, Fields

LEMMA PolicyInvStep ==
  ASSUME PolicyInv, [Next]_vars
  PROVE  PolicyInv'
<1>1. TypeInv /\ TypeInv'
  BY TypeStep DEF PolicyInv
<1>2. ASSUME NEW q \in Request, request[q].pc = "create"
      PROVE  /\ Stored(q).confirmation \in Challenge /\ Handed(Stored(q).confirmation)
             /\ Stored(q).class = challenge[Stored(q).confirmation].class
             /\ OneReplica(q) =>
                  /\ Opens(request[q].by, Review(q).policy)
                  /\ Serves(request[q].by, Review(q).policy)
  BY <1>1, <1>2 DEF Stored, TypeInv, HandlerType, RequestsBacked, Handed, Review,
                    PolicyInv, Past
<1>3. ASSUME NEW p \in ops'
      PROVE  LET c == p.confirmation IN
             /\ c \in Challenge /\ Handed(c) /\ p.class = challenge[c].class
             /\ p.at = challenge[c].at /\ challenge[c].policy # 0 =>
                  Opens(c, challenge[c].policy) /\ Serves(c, challenge[c].policy)
  <2>1. CASE p \in ops
    BY <2>1 DEF PolicyInv, ReviewedPolicyAllows, Opens, Serves
  <2>2. ASSUME NEW q \in Request, request[q].pc = "create", p = Stored(q)
        PROVE  <1>3!2
    BY <1>2, <2>2 DEF Stored, OneReplica, Review
  <2>3. ASSUME NEW o \in ops, p.confirmation = o.confirmation,
               p.rv = o.rv, p.at = o.at, p.class = o.class
        PROVE  <1>3!2
    BY <2>3 DEF PolicyInv, ReviewedPolicyAllows, Opens, Serves
  <2> QED
    BY <1>1, <2>1, <2>2, <2>3, Origins
<1>4. ASSUME NEW p \in ops'
      PROVE  LET c == p.confirmation IN
             /\ c \in Challenge /\ challenge'[c].step \in {"issued", "expired"}
             /\ p.class = challenge'[c].class
             /\ p.at = challenge'[c].at /\ challenge'[c].policy # 0 =>
                  /\ p.class \in allows'[challenge'[c].policy]
                  /\ p.class = "portable" => "provider" \in allows'[challenge'[c].policy]
  BY <1>1, <1>3, Lasting DEF Opens, Serves
<1> QED
  BY <1>1, <1>4, PlannedStep, ReadStep
     DEF PolicyInv, OneReplica, Opens, Serves, Review, Handed, ReviewedPolicyAllows

\* Although each side reads the snapshot three times without a lock, a policy
\* version confirmed on the replica that admits the operation grants it: no
\* interleaving of policy updates, outages and recoveries on that replica
\* passes an operation the reviewed version forbids.
THEOREM Allowed == Spec => []ReviewedPolicyAllows
<1>1. Init => PolicyInv
  <2> SUFFICES ASSUME Init PROVE PolicyInv
    OBVIOUS
  <2>1. /\ ops = {} /\ \A q \in Request : request[q].pc = "idle"
        /\ \A c \in Challenge : challenge[c].step = "none"
    BY DEF Init, NoRequest, NoReview
  <2> QED
    BY <2>1, InitType DEF PolicyInv, ReviewedPolicyAllows
<1>2. PolicyInv /\ [Next]_vars => PolicyInv'
  BY PolicyInvStep
<1>3. PolicyInv => ReviewedPolicyAllows
  BY DEF PolicyInv
<1> QED
  BY <1>1, <1>2, <1>3, PTL DEF Spec
=============================================================================

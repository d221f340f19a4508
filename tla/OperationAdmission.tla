-------------------------- MODULE OperationAdmission --------------------------
(***************************************************************************)
(* Admission of storage operations by the API replicas of Highland         *)
(* (apps/api/internal/storage/operations/http.go, with the parts of        *)
(* planner.go and store.go it calls).                                      *)
(*                                                                         *)
(* A user reviews a plan on one replica and gets a challenge bound to the  *)
(* plan and to the policy version.  Submissions carrying it, first ones,   *)
(* retries and duplicates, run on any replica.  Each step below is one     *)
(* read or call of the handler; policy changes, edits of the target, other *)
(* submissions and the controller fall between any two of them.            *)
(***************************************************************************)
EXTENDS Integers, Sequences

CONSTANTS
  Replica, Request, Challenge, Target,
  PolicyGrants,  \* the sets of grants the published policy versions may have
  MaxVersion,    \* bound: versions of the runtime policy
  MaxRevision,   \* bound: revisions of a target
  MaxFaults      \* bound: policy outages, failed lists, appends and creates

\* Portable Kubernetes actions are gated as a whole and by provider;
\* Longhorn and Rook/Ceph actions have one gate of their own.
Classes == {"portable", "native"}
Grants  == Classes \cup {"provider"}

ASSUME AdmissionAssumption ==
  /\ PolicyGrants \subseteq SUBSET Grants
  /\ MaxVersion \in Nat \ {0} /\ MaxRevision \in Nat /\ MaxFaults \in Nat

VARIABLES
  allows,     \* grants of each policy version published so far
  feed,       \* per replica: last policy version observed
  closed,     \* per replica: the policy snapshot is unavailable
  target,     \* per target: its current revision (uid and resourceVersion)
  challenge,  \* per confirmation: the review it stands for
  request,    \* per submission: where its handler is
  ops,        \* StorageOperations in the API server
  evidence,   \* confirmations with a durable admission event
  created,    \* history: operations created for a confirmation
  faults

policy == <<allows, feed, closed>>
vars   == <<policy, target, challenge, request, ops, evidence, created, faults>>

Nowhere == "nowhere"

NoReview == [step |-> "none", at |-> Nowhere, class |-> "native", target |-> Nowhere,
             rv |-> 0, policy |-> 0]
NoRequest == [pc |-> "idle", at |-> Nowhere, by |-> Nowhere, rv |-> 0]

Version == DOMAIN allows

Init ==
  /\ \E g \in PolicyGrants : allows = <<g>>
  /\ feed = [r \in Replica |-> 1] /\ closed = [r \in Replica |-> FALSE]
  /\ target = [t \in Target |-> 0]
  /\ challenge = [c \in Challenge |-> NoReview]
  /\ request = [q \in Request |-> NoRequest]
  /\ ops = {} /\ evidence = {} /\ created = [c \in Challenge |-> 0] /\ faults = 0

Fault == faults < MaxFaults /\ faults' = faults + 1

-----------------------------------------------------------------------------
(* The runtime policy as the replicas see it: module RuntimePolicy *)

PublishPolicy ==
  /\ Len(allows) < MaxVersion
  /\ \E g \in PolicyGrants : allows' = Append(allows, g)
  /\ UNCHANGED <<feed, closed, target, challenge, request, ops, evidence, created, faults>>

\* Snapshots follow the versions in order and may skip some.
ObservePolicy(r) ==
  /\ \E v \in Version :
       /\ v > feed[r] \/ (v = feed[r] /\ closed[r])
       /\ feed' = [feed EXCEPT ![r] = v]
  /\ closed' = [closed EXCEPT ![r] = FALSE]
  /\ UNCHANGED <<allows, target, challenge, request, ops, evidence, created, faults>>

LosePolicy(r) ==
  /\ Fault /\ closed' = [closed EXCEPT ![r] = TRUE]
  /\ UNCHANGED <<allows, feed, target, challenge, request, ops, evidence, created>>

\* PlannerConfig.PolicyVersion: every unavailable snapshot has the same version.
PolicyVersion(r) == IF closed[r] THEN 0 ELSE feed[r]

Effective(v) == IF v = 0 THEN {} ELSE allows[v]

FeatureEnabled(r, class) == class \in Effective(PolicyVersion(r))

ProviderAllowed(r, class) ==
  class = "portable" => {"portable", "provider"} \subseteq Effective(PolicyVersion(r))

-----------------------------------------------------------------------------
(* Reviews: API.CreatePlan *)

Authorize(c, r, class, t) ==
  /\ challenge[c].step = "none" /\ FeatureEnabled(r, class)
  /\ challenge' = [challenge EXCEPT ![c] =
       [NoReview EXCEPT !.step = "authorized", !.at = r, !.class = class, !.target = t]]
  /\ UNCHANGED <<policy, target, request, ops, evidence, created, faults>>

\* The plan is hashed over the target's revision; the policy version is read last.
Plan(c) ==
  /\ challenge[c].step = "authorized"
  /\ challenge' = [challenge EXCEPT ![c].step = "planned",
                     ![c].rv = target[challenge[c].target],
                     ![c].policy = PolicyVersion(challenge[c].at)]
  /\ UNCHANGED <<policy, target, request, ops, evidence, created, faults>>

Issue(c) ==
  /\ challenge[c].step = "planned"
  /\ challenge' = [challenge EXCEPT ![c] =
       IF ProviderAllowed(@.at, @.class) THEN [@ EXCEPT !.step = "issued"] ELSE NoReview]
  /\ UNCHANGED <<policy, target, request, ops, evidence, created, faults>>

\* Five minutes after Plan.
Expire(c) ==
  /\ challenge[c].step = "issued"
  /\ challenge' = [challenge EXCEPT ![c].step = "expired"]
  /\ UNCHANGED <<policy, target, request, ops, evidence, created, faults>>

-----------------------------------------------------------------------------
(* Submissions: API.submit *)

Review(q) == challenge[request[q].by]

Continue(q, pc) == request' = [request EXCEPT ![q].pc = pc]

\* The handler answers: an operation, a duplicate, a refusal or an error.
Reply(q) == request' = [request EXCEPT ![q] = NoRequest]

\* Seeded fault: the gate is looked at when planning only.
AnyFeature(r, class) == TRUE

Gated(r, class) == FeatureEnabled(r, class)

\* The challenge of a request is one that was handed out, expired or not.
Submit(q, r, c) ==
  /\ request[q].pc = "idle" /\ challenge[c].step \in {"issued", "expired"}
  /\ Gated(r, challenge[c].class)
  /\ request' = [request EXCEPT ![q] = [NoRequest EXCEPT !.pc = "plan", !.at = r, !.by = c]]
  /\ UNCHANGED <<policy, target, challenge, ops, evidence, created, faults>>

\* Planning again may also fail: the target, its dependencies or the dry run.
PlanAgain(q) ==
  /\ request[q].pc = "plan"
  /\ \/ request' = [request EXCEPT ![q].pc = "provider", ![q].rv = target[Review(q).target]]
     \/ Reply(q)
  /\ UNCHANGED <<policy, target, challenge, ops, evidence, created, faults>>

AuthorizePlannedProvider(q) ==
  /\ request[q].pc = "provider"
  /\ IF ProviderAllowed(request[q].at, Review(q).class) THEN Continue(q, "verify") ELSE Reply(q)
  /\ UNCHANGED <<policy, target, challenge, ops, evidence, created, faults>>

\* Seeded fault: the hash of the fresh plan is not compared.
AnyPlan(q) == TRUE

SamePlan(q) == request[q].rv = Review(q).rv

\* Seeded fault: the expiry of the challenge is not looked at.
AnyAge(q) == TRUE

Fresh(q) == Review(q).step = "issued"

\* Planner.Verify; a typed name or an acknowledgement may be missing, too.
Verify(q) ==
  /\ request[q].pc = "verify"
  /\ \/ /\ SamePlan(q) /\ PolicyVersion(request[q].at) = Review(q).policy
        /\ Fresh(q) /\ Continue(q, "equivalent")
     \/ Reply(q)
  /\ UNCHANGED <<policy, target, challenge, ops, evidence, created, faults>>

\* Same action, provider, parameters and target revision, and not terminal.
Equivalent(q) ==
  {o \in ops : /\ o.phase = "active" /\ o.class = Review(q).class
               /\ o.target = Review(q).target /\ o.rv = request[q].rv}

\* A list that fails counts as one that found nothing.
FindEquivalent(q) ==
  /\ request[q].pc = "equivalent"
  /\ \/ Equivalent(q) # {} /\ Reply(q) /\ UNCHANGED faults
     \/ Equivalent(q) = {} /\ Continue(q, "active") /\ UNCHANGED faults
     \/ Fault /\ Continue(q, "active")
  /\ UNCHANGED <<policy, target, challenge, ops, evidence, created>>

ActiveOn(t) == {o \in ops : o.phase = "active" /\ o.target = t}

FindActiveTarget(q) ==
  /\ request[q].pc = "active"
  /\ \/ ActiveOn(Review(q).target) # {} /\ Reply(q) /\ UNCHANGED faults
     \/ ActiveOn(Review(q).target) = {} /\ Continue(q, "audit") /\ UNCHANGED faults
     \/ Fault /\ Continue(q, "audit")
  /\ UNCHANGED <<policy, target, challenge, ops, evidence, created>>

\* Seeded fault: a failed append is logged only.
AuditBestEffort(q) ==
  /\ request[q].pc = "audit" /\ Continue(q, "create")
  /\ \/ evidence' = evidence \cup {request[q].by} /\ UNCHANGED faults
     \/ Fault /\ UNCHANGED evidence
  /\ UNCHANGED <<policy, target, challenge, ops, created>>

\* The append may fail, before or after the event became durable.
AuditAdmit(q) ==
  /\ request[q].pc = "audit"
  /\ \/ evidence' = evidence \cup {request[q].by} /\ Continue(q, "create") /\ UNCHANGED faults
     \/ Fault /\ Reply(q) /\ evidence' \in {evidence, evidence \cup {request[q].by}}
  /\ UNCHANGED <<policy, target, challenge, ops, created>>

\* Seeded fault: every request names its operation anew.
NameOfRequest(q) == q

\* The object's name is derived from the challenge.
Name(q) == request[q].by

\* Created, already existing, or failed; an answer may be lost in each case.
Create(q) ==
  /\ request[q].pc = "create" /\ Reply(q)
  /\ \/ /\ \A o \in ops : o.name # Name(q)
        /\ ops' = ops \cup {[name |-> Name(q), confirmation |-> request[q].by,
                             at |-> request[q].at, class |-> Review(q).class,
                             target |-> Review(q).target, rv |-> request[q].rv,
                             phase |-> "active"]}
        /\ created' = [created EXCEPT ![request[q].by] = @ + 1]
        /\ UNCHANGED faults
     \/ (\E o \in ops : o.name = Name(q)) /\ UNCHANGED <<ops, created, faults>>
     \/ Fault /\ UNCHANGED <<ops, created>>
  /\ UNCHANGED <<policy, target, challenge, evidence>>

\* The replica dies or the client goes away: its calls fail from then on.
Abandon(q) ==
  /\ request[q].pc # "idle" /\ Reply(q)
  /\ UNCHANGED <<policy, target, challenge, ops, evidence, created, faults>>

-----------------------------------------------------------------------------
(* The controller and other clients *)

\* Module OperationController: a run ends, and may have changed the target.
FinishOperation(o) ==
  /\ o.phase = "active"
  /\ ops' = (ops \ {o}) \cup {[o EXCEPT !.phase = "terminal"]}
  /\ \/ target[o.target] < MaxRevision /\ target' = [target EXCEPT ![o.target] = @ + 1]
     \/ UNCHANGED target
  /\ UNCHANGED <<policy, challenge, request, evidence, created, faults>>

\* Thirty days later: by then the challenge is long expired and its requests done.
CollectOperation(o) ==
  /\ o.phase = "terminal" /\ challenge[o.confirmation].step = "expired"
  /\ \A q \in Request : request[q].by # o.confirmation
  /\ ops' = ops \ {o}
  /\ UNCHANGED <<policy, target, challenge, request, evidence, created, faults>>

EditTarget(t) ==
  /\ target[t] < MaxRevision /\ target' = [target EXCEPT ![t] = @ + 1]
  /\ UNCHANGED <<policy, challenge, request, ops, evidence, created, faults>>

-----------------------------------------------------------------------------
Policy == PublishPolicy \/ \E r \in Replica : ObservePolicy(r) \/ LosePolicy(r)

Reviews ==
  \E c \in Challenge :
    \/ \E r \in Replica, class \in Classes, t \in Target : Authorize(c, r, class, t)
    \/ Plan(c) \/ Issue(c) \/ Expire(c)

Submissions ==
  \E q \in Request :
    \/ \E r \in Replica, c \in Challenge : Submit(q, r, c)
    \/ PlanAgain(q) \/ AuthorizePlannedProvider(q) \/ Verify(q)
    \/ FindEquivalent(q) \/ FindActiveTarget(q) \/ AuditAdmit(q) \/ Create(q)
    \/ Abandon(q)

Environment ==
  \/ \E o \in ops : FinishOperation(o) \/ CollectOperation(o)
  \/ \E t \in Target : EditTarget(t)

Next == Policy \/ Reviews \/ Submissions \/ Environment

Spec == Init /\ [][Next]_vars

-----------------------------------------------------------------------------
(* Properties *)

Operation == [name: Challenge, confirmation: Challenge, at: Replica, class: Classes,
              target: Target, rv: Nat, phase: {"active", "terminal"}]

ReviewType ==
  [step: {"none", "authorized", "planned", "issued", "expired"},
   at: Replica \cup {Nowhere}, class: Classes, target: Target \cup {Nowhere},
   rv: Nat, policy: Version \cup {0}]

RequestType ==
  [pc: {"idle", "plan", "provider", "verify", "equivalent", "active", "audit", "create"},
   at: Replica \cup {Nowhere}, by: Challenge \cup {Nowhere}, rv: Nat]

\* Every variable has its type; only published versions are observed or reviewed.
TypeOK ==
  /\ allows \in Seq(SUBSET Grants)
  /\ feed \in [Replica -> Version] /\ closed \in [Replica -> BOOLEAN]
  /\ target \in [Target -> Nat]
  /\ challenge \in [Challenge -> ReviewType] /\ request \in [Request -> RequestType]
  /\ ops \subseteq Operation /\ evidence \subseteq Challenge
  /\ created \in [Challenge -> Nat] /\ faults \in Nat

\* However often, wherever and for however long a confirmation is submitted, it
\* creates one operation: also when lists fail, and after the collector ran.
OneOperationPerConfirmation == \A c \in Challenge : created[c] <= 1

\* Every stored operation has a durable admission event of its confirmation,
\* whichever replica and attempt created it.
AdmittedWithEvidence == \A o \in ops : o.confirmation \in evidence

\* An operation is created for the revision of its target that was reviewed,
\* whatever happened to the target between review, planning and creation.
ApprovedIsReviewed == \A o \in ops : o.rv = challenge[o.confirmation].rv

\* If one replica served review and submission, the policy version the user
\* confirmed grants the action and, for portable actions, its provider: the
\* three unsynchronized reads of the snapshot on each side agree.
ReviewedPolicyAllows ==
  \A o \in ops :
    LET c == challenge[o.confirmation] IN
    o.at = c.at /\ c.policy # 0 =>
      /\ o.class \in allows[c.policy]
      /\ o.class = "portable" => "provider" \in allows[c.policy]

\* At most one operation that is not terminal works on a target.
OneActivePerTarget ==
  \A o, p \in ops :
    o.phase = "active" /\ p.phase = "active" /\ o.target = p.target => o = p
=============================================================================

------------------------- MODULE OperationController -------------------------
(***************************************************************************)
(* The durable storage-operation reconciler of Highland                    *)
(* (apps/api/internal/storage/operations/controller.go and store.go).      *)
(*                                                                         *)
(* One StorageOperation is followed from its creation by an API replica to *)
(* its garbage collection.  Replicas compete for a Lease; the leader lists *)
(* the operations and drives each one through Reconcile.  Every step below *)
(* is one API call of the code, so that crashes, lost leases, lost answers *)
(* and edits of the target by other people fall between any two of them.   *)
(***************************************************************************)
EXTENDS Integers

LOCAL INSTANCE TLC

CONSTANTS
  Replica,         \* API replicas running the controller
  Kinds,           \* kinds of planned mutation to explore (a subset of AllKinds)
  MaxRetries,      \* 8 in the code
  MaxRevision,     \* bound: other clients stop editing at this revision
  MaxFaults,       \* bound: transient errors, lost answers and crashes together
  MaxLosses,       \* bound: leadership losses
  ExclusiveLease,  \* TRUE: a lease is retaken only after its holder stopped leading
  PromptQueue      \* TRUE: the creator's Pending write lands before execution starts

Applies  == {"apply-claim", "apply-class", "apply-pool"}
Deletes  == {"delete", "delete-pool"}
\* Work of the Longhorn manager: on a volume, or a new one out of a backup.
Longhorns == {"longhorn", "restore"}
AllKinds == Applies \cup Deletes \cup Longhorns \cup {"update", "unsupported"}

NoReplica == "none"

\* Replicas are interchangeable, in the runs that check safety alone.
Symmetry == Permutations(Replica)

ASSUME ConstantsAssumption ==
  /\ Kinds \subseteq AllKinds /\ NoReplica \notin Replica
  /\ MaxRetries \in Nat /\ MaxRevision \in Nat
  /\ MaxFaults \in Nat /\ MaxLosses \in Nat
  /\ ExclusiveLease \in BOOLEAN /\ PromptQueue \in BOOLEAN

VARIABLES
  kind,      \* planned operation and resource kind of the immutable spec
  status,    \* .status of the StorageOperation
  exists,    \* FALSE once the StorageOperation has been garbage collected
  creator,   \* Store.Create between the object's creation and its status write
  obj,       \* the target resource as the API server stores it
  rev,       \* latest resource revision handed out
  backend,   \* uid of the CephBlockPool whose runtime pool exists, 0 when none
  lease,     \* holder of the Lease object, or NoReplica
  role,      \* leader-election state of each replica
  pc,        \* the call the replica's Reconcile makes next
  local,     \* operation.Status of the copy Reconcile works on
  active,    \* the replica counts the operation as in progress (Controller.active)
  evidence,  \* terminal phases durably written to the audit stream
  touched,   \* history: <<uid, rv>> of each object a Kubernetes mutation made or
             \* changed, rv as it was before (0: it was made)
  sends,     \* history: mutations the Longhorn manager received (2: more than one)
  meddling,  \* history: what others did that the code cannot tell from its own work
  faults, losses

opVars    == <<status, exists, creator>>
world     == <<obj, rev, backend, meddling>>
election  == <<lease, role, losses>>
history   == <<touched, sends>>
vars      == <<kind, opVars, world, election, pc, local, active, evidence,
               history, faults>>

Codes  == {"", "STALE", "OPERATION_TIMEOUT", "OTHER"}
Phases == {"", "Pending", "Running", "Succeeded", "Failed"}
Terminal == {"Succeeded", "Failed"}
Steps  == {"", "Queued", "PreflightRetrying", "PreflightComplete", "Retrying",
           "Waiting", "Terminal"}

\* aged: StartedAt lies more than thirty minutes back.
Status == [phase: Phases, step: Steps, retries: Nat, aged: BOOLEAN, code: Codes]

Blank  == [phase |-> "", step |-> "", retries |-> 0, aged |-> FALSE, code |-> ""]
Queued == [Blank EXCEPT !.phase = "Pending", !.step = "Queued"]

\* The status subresource of the CRD makes the API server drop the status
\* that Store.Create sends: a new operation has no phase.
ObjStates == {"idle", "waiting", "ready", "lost"}
Objects == [uid: Nat, rv: Nat, deleting: BOOLEAN, owned: BOOLEAN, state: ObjStates]
Absent  == [uid |-> 0, rv |-> 0, deleting |-> FALSE, owned |-> FALSE, state |-> "idle"]

\* Spec.Target.UID and Spec.Target.ResourceVersion: revision 1 for an existing
\* target, empty for a creation.
Approved == IF kind \in Applies \cup {"restore"} THEN 0 ELSE 1

PCs == {"idle", "queue", "preflight", "start", "execute", "observe", "replan",
        "inspect", "verify", "write", "finish", "audit"}

Init ==
  /\ kind \in Kinds
  /\ status = Blank /\ exists = TRUE /\ creator = "queueing"
  /\ obj = IF Approved = 0 THEN Absent ELSE [Absent EXCEPT !.uid = 1, !.rv = 1]
  /\ rev = 1
  /\ backend = IF kind = "delete-pool" THEN 1 ELSE 0
  /\ lease = NoReplica /\ role = [r \in Replica |-> "candidate"] /\ losses = 0
  /\ pc = [r \in Replica |-> "idle"] /\ local = [r \in Replica |-> Blank]
  /\ active = [r \in Replica |-> FALSE]
  /\ evidence = {} /\ touched = {} /\ sends = 0 /\ meddling = {} /\ faults = 0

-----------------------------------------------------------------------------
(* Helpers of Reconcile *)

Fault == faults < MaxFaults /\ faults' = faults + 1

\* Seeded fault: reconciliation ignores the leader context.
NeverCancelled(r) == role[r] # "candidate"

\* Contexts of a replica that lost the lease are cancelled: its calls fail.
Connected(r) == role[r] = "leading"

\* Store.UpdateStatus reads the object and replaces its status: the caller's
\* copy is never compared with what is stored.  ok is what the caller learns;
\* a failed call may have been applied.
UpdateStatus(r, s, ok) ==
  \/ /\ ok /\ Connected(r) /\ exists
     /\ status' = s
     /\ UNCHANGED faults
  \/ /\ ~ok /\ ~(Connected(r) /\ exists)
     /\ UNCHANGED <<status, faults>>
  \/ /\ ~ok /\ Connected(r) /\ exists /\ Fault
     /\ status' \in {status, s}

\* Reconcile returns to the two-second list loop.
Goto(r, label, s) ==
  /\ pc' = [pc EXCEPT ![r] = label]
  /\ local' = [local EXCEPT ![r] = IF label = "idle" THEN Blank ELSE s]

Succeed(r) ==
  Goto(r, "finish", [local[r] EXCEPT !.phase = "Succeeded", !.step = "Terminal",
                                     !.aged = FALSE])

Failed(s, code) == [s EXCEPT !.phase = "Failed", !.step = "Terminal",
                             !.aged = FALSE, !.code = code]

Fail(r, code) == Goto(r, "finish", Failed(local[r], code))

\* Seeded fault: one retry too many.
RetryOnceMore(r, step) ==
  IF local[r].retries <= MaxRetries
  THEN Goto(r, "write", [local[r] EXCEPT !.retries = @ + 1, !.step = step])
  ELSE Fail(r, "OTHER")

\* A retryable error is counted and stored while retries remain; step is the
\* step the code stores with it.
RetryOrFail(r, step) ==
  IF local[r].retries < MaxRetries
  THEN Goto(r, "write", [local[r] EXCEPT !.retries = @ + 1, !.step = step])
  ELSE Fail(r, "OTHER")

\* Seeded fault: a pending result takes the path of a finished one.
FinishWhilePending(r) == Goto(r, "finish", [local[r] EXCEPT !.step = "Waiting"])

AwaitReconciliation(r) == Goto(r, "write", [local[r] EXCEPT !.step = "Waiting"])

\* TRUE while mutationObservation, and not the final wait, calls inspect.
Recovering(r) == local[r].step # "Waiting"

\* The error of a cancelled context is retryable only in the wording of the
\* Longhorn client.
CancelledAnswer == IF kind \in Longhorns THEN "retryable" ELSE "other"

\* Reads that fail: retryable errors are counted with a cap during recovery and
\* without one in the final wait.
ReadError(r) ==
  \E answer \in {"retryable", "other"} :
    /\ \/ Connected(r) /\ Fault
       \/ ~Connected(r) /\ answer = CancelledAnswer /\ UNCHANGED faults
    /\ \/ answer = "other" /\ Fail(r, "OTHER")
       \/ answer = "retryable" /\ Recovering(r) /\ RetryOrFail(r, local[r].step)
       \/ /\ answer = "retryable" /\ ~Recovering(r)
          /\ Goto(r, "write", [local[r] EXCEPT !.retries = @ + 1])

\* Neither done nor failed: recovery stores that the mutation was observed, the
\* final wait simply ends this pass.
StillPending(r) ==
  IF Recovering(r) THEN AwaitReconciliation(r) ELSE Goto(r, "idle", Blank)

-----------------------------------------------------------------------------
(* Reconcile, one API call a step *)

\* Seeded fault: the wait has no time limit.
NeverTimedOut(s) == FALSE

\* The final wait gives up thirty minutes after StartedAt.
TimedOut(s) == s.aged

\* run lists the operations and calls Reconcile on a copy of every nonterminal
\* one; Reconcile branches on that copy.
Fetch(r) ==
  /\ pc[r] = "idle" /\ Connected(r) /\ exists
  /\ status.phase \notin Terminal
  /\ CASE status.phase = ""                -> Goto(r, "queue", status)
       [] status.phase # "" /\ kind = "unsupported"
                                           -> Goto(r, "finish", Failed(status, "OTHER"))
       [] status.phase = "Pending" /\ kind # "unsupported"
                                           -> Goto(r, "preflight", status)
       [] status.phase = "Running" /\ kind # "unsupported"
            /\ status.step # "Waiting"     -> Goto(r, "observe", status)
       [] status.phase = "Running" /\ kind # "unsupported"
            /\ status.step = "Waiting"     ->
              IF TimedOut(status)
              THEN Goto(r, "finish", Failed(status, "OPERATION_TIMEOUT"))
              ELSE Goto(r, "inspect", status)
  /\ active' = IF status.phase = "Running" /\ kind # "unsupported"
               THEN [active EXCEPT ![r] = TRUE] ELSE active
  /\ UNCHANGED <<kind, opVars, world, election, evidence, history, faults>>

Queue(r) ==
  /\ pc[r] = "queue"
  /\ \E ok \in BOOLEAN :
       /\ UpdateStatus(r, Queued, ok)
       /\ CASE ~ok                         -> Goto(r, "idle", Blank)
            [] ok /\ kind = "unsupported"  -> Goto(r, "finish", Failed(Queued, "OTHER"))
            [] ok /\ kind # "unsupported"  -> Goto(r, "preflight", Queued)
  /\ UNCHANGED <<kind, exists, creator, world, election, active, evidence, history>>

\* The plan hash covers the target's uid and resourceVersion; a creation plans
\* only an absent target.
PlanMatches == obj.uid = Approved /\ obj.rv = Approved

\* Planner.Plan before the start and again after a recovery that saw no
\* mutation.  A dependency may reject the plan whatever the target is.
Preflight(r) ==
  /\ pc[r] \in {"preflight", "replan"}
  /\ \/ /\ Connected(r) /\ PlanMatches
        /\ Goto(r, IF pc[r] = "preflight" THEN "start" ELSE "execute", local[r])
        /\ UNCHANGED faults
     \/ Connected(r) /\ Fail(r, "STALE") /\ UNCHANGED faults
     \/ Connected(r) /\ Fault /\ RetryOrFail(r, "PreflightRetrying")
     \/ ~Connected(r) /\ RetryOrFail(r, "PreflightRetrying") /\ UNCHANGED faults
  /\ UNCHANGED <<kind, opVars, world, election, active, evidence, history>>

\* Seeded fault: execution starts before the Running status is durable.
StartUnrecorded(r) ==
  /\ pc[r] = "start"
  /\ LET started == [Blank EXCEPT !.phase = "Running", !.step = "PreflightComplete"]
     IN /\ \E ok \in BOOLEAN : UpdateStatus(r, started, ok)
        /\ Goto(r, "execute", started)
        /\ active' = [active EXCEPT ![r] = TRUE]
  /\ UNCHANGED <<kind, exists, creator, world, election, evidence, history>>

\* The Running status, without the retries of the preflight, is stored before
\* anything is executed.
Start(r) ==
  /\ pc[r] = "start"
  /\ LET started == [Blank EXCEPT !.phase = "Running", !.step = "PreflightComplete"]
     IN \E ok \in BOOLEAN :
          /\ UpdateStatus(r, started, ok)
          /\ Goto(r, IF ok THEN "execute" ELSE "idle", started)
          /\ active' = [active EXCEPT ![r] = @ \/ ok]
  /\ UNCHANGED <<kind, exists, creator, world, election, evidence, history>>

-----------------------------------------------------------------------------
(* The mutation.  answer is what the API server or the Longhorn manager says. *)

IsApproved == obj.uid = Approved /\ obj.rv = Approved

\* Seeded fault: the delete carries a uid but no resourceVersion.
DeleteByUID(answer) ==
  \/ obj.uid = 0 /\ answer = "ok" /\ UNCHANGED <<world, history>>
  \/ /\ obj.uid # 0 /\ obj.uid = Approved /\ answer = "ok"
     /\ rev' = rev + 1
     /\ obj' \in {Absent, [obj EXCEPT !.deleting = TRUE, !.rv = rev + 1]}
     /\ touched' = touched \cup {<<obj.uid, obj.rv>>}
     /\ UNCHANGED <<backend, sends>>
  \/ /\ obj.uid # 0 /\ obj.uid # Approved /\ answer = "retryable"
     /\ UNCHANGED <<world, history>>

\* Delete with uid and resourceVersion preconditions.
DeleteTarget(answer) ==
  \/ /\ obj.uid = 0 /\ answer = "ok"          \* NotFound is tolerated
     /\ UNCHANGED <<world, history>>
  \/ /\ obj.uid # 0 /\ IsApproved /\ answer = "ok"
     /\ rev' = rev + 1
     /\ obj' \in {Absent, [obj EXCEPT !.deleting = TRUE, !.rv = rev + 1]}
     /\ touched' = touched \cup {<<obj.uid, obj.rv>>}
     /\ UNCHANGED <<backend, sends>>
  \/ /\ obj.uid # 0 /\ ~IsApproved /\ answer = "retryable"
     /\ UNCHANGED <<world, history>>

\* Get, compare with the approval, Update: an edit between Get and Update is a
\* retryable conflict, an earlier one a stale target, a removal NotFound.
UpdateTarget(answer) ==
  \/ /\ IsApproved /\ answer = "ok"
     /\ rev' = rev + 1
     /\ obj' = [obj EXCEPT !.state = "waiting", !.rv = rev + 1]
     /\ touched' = touched \cup {<<obj.uid, obj.rv>>}
     /\ UNCHANGED <<backend, sends>>
  \/ /\ obj.uid # 0 /\ ~IsApproved /\ answer \in {"stale", "retryable"}
     /\ UNCHANGED <<world, history>>
  \/ obj.uid = 0 /\ answer = "other" /\ UNCHANGED <<world, history>>

\* An object this operation made or changed, as the API server stores it now.
Own == \E t \in touched : t[1] = obj.uid

\* Server-side apply without force makes the object, takes over or changes what
\* somebody else made, changes nothing of its own work, or is refused.
ApplyTarget(answer) ==
  \/ /\ answer = "ok" /\ ~(obj.owned /\ Own)
     /\ rev' = rev + 1
     /\ obj' = IF obj.uid = 0
               THEN [uid |-> rev + 1, rv |-> rev + 1, deleting |-> FALSE,
                     owned |-> TRUE, state |-> "waiting"]
               ELSE [obj EXCEPT !.owned = TRUE, !.rv = rev + 1]
     /\ touched' = touched \cup {<<obj'.uid, obj.rv>>}
     /\ UNCHANGED <<backend, sends>>
  \/ /\ \/ obj.owned /\ answer = "ok"
        \/ obj.uid # 0 /\ answer \in {"retryable", "other"}
     /\ UNCHANGED <<world, history>>

Sent == sends' = IF sends < 2 THEN sends + 1 ELSE sends

\* The manager API takes no precondition; the volume may show the request late.
SendLonghorn(answer) ==
  \/ /\ kind = "longhorn" /\ obj.uid # 0 /\ answer = "ok"
     /\ Sent
     /\ \/ /\ rev' = rev + 1
           /\ obj' = [obj EXCEPT !.state = "waiting", !.rv = rev + 1]
        \/ UNCHANGED <<obj, rev>>
     /\ UNCHANGED <<backend, touched>>
  \/ /\ kind = "restore" /\ obj.uid = 0 /\ answer = "ok"
     /\ Sent
     /\ \/ /\ rev' = rev + 1
           /\ obj' = [Absent EXCEPT !.uid = rev + 1, !.rv = rev + 1]
        \/ UNCHANGED <<obj, rev>>
     /\ UNCHANGED <<backend, touched>>
  \/ /\ kind = "longhorn" <=> obj.uid = 0
     /\ answer = "other" /\ UNCHANGED <<world, history>>

Mutate(answer) ==
  \/ kind \in Deletes    /\ DeleteTarget(answer)
  \/ kind = "update"     /\ UpdateTarget(answer)
  \/ kind \in Applies    /\ ApplyTarget(answer)
  \/ kind \in Longhorns  /\ SendLonghorn(answer)

\* What Reconcile does with the answer of execute.
Executed(r, answer) ==
  CASE answer = "ok" /\ kind = "apply-class" -> Succeed(r)
    [] answer = "ok" /\ kind # "apply-class" -> AwaitReconciliation(r)
    [] answer = "retryable"                  -> RetryOrFail(r, "Retrying")
    [] answer = "stale"                      -> Fail(r, "STALE")
    [] answer = "other"                      -> Fail(r, "OTHER")

Answers == {"ok", "retryable", "stale", "other"}

Execute(r) ==
  /\ pc[r] = "execute"
  /\ \/ /\ Connected(r)                       \* the answer arrives
        /\ \E answer \in Answers : Mutate(answer) /\ Executed(r, answer)
        /\ UNCHANGED faults
     \/ /\ Connected(r) /\ Fault              \* applied, and the answer is lost
        /\ Mutate("ok")
        /\ \E answer \in {"retryable", "other"} : Executed(r, answer)
     \/ /\ Connected(r) /\ Fault              \* never applied
        /\ \E answer \in {"retryable", "other"} : Executed(r, answer)
        /\ UNCHANGED <<world, history>>
     \/ /\ ~Connected(r) /\ Executed(r, CancelledAnswer)
        /\ UNCHANGED <<world, history, faults>>
  /\ UNCHANGED <<kind, opVars, election, active, evidence, meddling>>

-----------------------------------------------------------------------------
(* Takeover and the wait for the result *)

\* The approved uid is gone, or was replaced by another object of that name.
TargetGone == obj.uid # Approved

\* Seeded fault: Rook's word is taken for the runtime pool.
TrustRook(r) == Succeed(r)

\* verifyDeletedBackend: a deleted pool needs Ceph's own answer.
AfterDeletion(r) ==
  IF kind = "delete-pool" THEN Goto(r, "verify", local[r]) ELSE Succeed(r)

\* The requested state is there; a restored volume need only exist.
LonghornReached == obj.uid # 0 /\ (kind = "restore" \/ obj.state = "ready")

\* The volume faulted or is gone; the one to be restored may still come.
LonghornFailed == kind = "longhorn" /\ (obj.uid = 0 \/ obj.state = "lost")

LonghornOutcome(r) ==
  \/ LonghornReached /\ Succeed(r)
  \/ LonghornFailed /\ Fail(r, "OTHER")

LonghornInProgress == ~LonghornReached /\ ~LonghornFailed

InProgress == obj.uid # 0 /\ obj.state \notin {"ready", "lost"}

\* Seeded fault: any object of the target's name counts as this operation's work.
AnythingVisible ==
  \/ kind = "update" /\ obj.state # "idle"
  \/ kind \in Applies /\ obj.uid # 0

\* Seeded fault: takeover does not look for an earlier mutation.
NothingVisible == FALSE

\* A grown request of the approved object, or Highland's label on a created one.
MutationVisible ==
  \/ kind = "update" /\ obj.uid = Approved /\ obj.state # "idle"
  \/ kind \in Applies /\ obj.owned

\* mutationObservation: was the mutation sent before the crash or the error?
Observed(r) ==
  \/ /\ kind \in Deletes
     /\ \/ TargetGone /\ AfterDeletion(r)
        \/ ~TargetGone /\ obj.deleting /\ AwaitReconciliation(r)
        \/ ~TargetGone /\ ~obj.deleting /\ Goto(r, "replan", local[r])
  \/ /\ kind \in Applies \cup {"update"}
     /\ Goto(r, IF MutationVisible THEN "inspect" ELSE "replan", local[r])
  \/ /\ kind \in Longhorns
     /\ \/ LonghornOutcome(r)
        \/ LonghornInProgress /\ Goto(r, "replan", local[r])

Observe(r) ==
  /\ pc[r] = "observe"
  /\ \/ Connected(r) /\ Observed(r) /\ UNCHANGED faults
     \/ ReadError(r)
  /\ UNCHANGED <<kind, opVars, world, election, active, evidence, history>>

\* inspect looks only at the name of a created or updated object.
Inspected(r) ==
  \/ /\ kind \in Deletes
     /\ IF TargetGone THEN AfterDeletion(r) ELSE StillPending(r)
  \/ /\ kind \in Applies \cup {"update"}
     /\ \/ obj.uid = 0 /\ Fail(r, "OTHER")
        \/ /\ obj.uid # 0 /\ (kind = "apply-class" \/ obj.state = "ready")
           /\ IF kind = "apply-pool" THEN Goto(r, "verify", local[r]) ELSE Succeed(r)
        \/ /\ obj.state = "lost" /\ kind # "apply-class" /\ Fail(r, "OTHER")
        \/ InProgress /\ kind # "apply-class" /\ StillPending(r)
  \/ /\ kind \in Longhorns
     /\ LonghornOutcome(r) \/ (LonghornInProgress /\ StillPending(r))

Inspect(r) ==
  /\ pc[r] = "inspect"
  /\ \/ Connected(r) /\ Inspected(r) /\ UNCHANGED faults
     \/ ReadError(r)
  /\ UNCHANGED <<kind, opVars, world, election, active, evidence, history>>

\* VerifyPoolPresent asks Ceph itself.
Verified(r) ==
  \/ kind = "delete-pool" /\ backend = 0 /\ Succeed(r)
  \/ kind = "delete-pool" /\ backend # 0 /\ StillPending(r)
  \/ kind = "apply-pool" /\ backend = 0 /\ Fail(r, "OTHER")
  \/ kind = "apply-pool" /\ backend # 0 /\ Succeed(r)

Verify(r) ==
  /\ pc[r] = "verify"
  /\ \/ Connected(r) /\ Verified(r) /\ UNCHANGED faults
     \/ ReadError(r)
  /\ UNCHANGED <<kind, opVars, world, election, active, evidence, history>>

-----------------------------------------------------------------------------
(* Status writes whose result ends the pass *)

Write(r) ==
  /\ pc[r] = "write"
  /\ \E ok \in BOOLEAN : UpdateStatus(r, local[r], ok)
  /\ Goto(r, "idle", Blank)
  /\ UNCHANGED <<kind, exists, creator, world, election, active, evidence, history>>

\* succeed and fail: the gauge is paired and the audit event follows whether or
\* not the terminal status was stored.
Finish(r) ==
  /\ pc[r] = "finish"
  /\ \E ok \in BOOLEAN : UpdateStatus(r, local[r], ok)
  /\ Goto(r, "audit", local[r])
  /\ active' = [active EXCEPT ![r] = FALSE]
  /\ UNCHANGED <<kind, exists, creator, world, election, evidence, history>>

\* auditOperation appends with a background context and ignores the error.
Audit(r) ==
  /\ pc[r] = "audit"
  /\ \/ evidence' = evidence \cup {local[r].phase} /\ UNCHANGED faults
     \/ Fault /\ UNCHANGED evidence
  /\ Goto(r, "idle", Blank)
  /\ UNCHANGED <<kind, opVars, world, election, active, history>>

Reconcile(r) ==
  \/ Fetch(r) \/ Queue(r) \/ Preflight(r) \/ Start(r) \/ Execute(r)
  \/ Observe(r) \/ Inspect(r) \/ Verify(r) \/ Write(r) \/ Finish(r) \/ Audit(r)

\* garbageCollect, thirty days on, when nothing of the operation is under way:
\* any terminal audit event of the operation's name will do.
Collect(r) ==
  /\ Connected(r) /\ exists /\ status.phase \in Terminal /\ evidence # {}
  /\ creator = "done" /\ \A q \in Replica : pc[q] = "idle"
  /\ exists' = FALSE
  /\ UNCHANGED <<kind, status, creator, world, election, pc, local, active,
                 evidence, history, faults>>

-----------------------------------------------------------------------------
(* Leader election and crashes *)

Acquire(r) ==
  /\ role[r] = "candidate"
  /\ lease = NoReplica \/ ~ExclusiveLease
  /\ lease' = r /\ role' = [role EXCEPT ![r] = "leading"]
  /\ UNCHANGED <<kind, opVars, world, losses, pc, local, active, evidence,
                 history, faults>>

\* RunOrDie returns when the lease is lost, and Start never calls it again.
LoseLease(r) ==
  /\ Connected(r) /\ losses < MaxLosses
  /\ losses' = losses + 1
  /\ role' = [role EXCEPT ![r] = "retired"]
  /\ lease' = IF lease = r THEN NoReplica ELSE lease
  /\ UNCHANGED <<kind, opVars, world, pc, local, active, evidence, history, faults>>

Crash(r) ==
  /\ Fault
  /\ role' = [role EXCEPT ![r] = "candidate"]
  /\ lease' = IF lease = r THEN NoReplica ELSE lease
  /\ Goto(r, "idle", Blank)
  /\ active' = [active EXCEPT ![r] = FALSE]
  /\ UNCHANGED <<kind, opVars, world, losses, evidence, history>>

-----------------------------------------------------------------------------
(* Store.Create, other clients of the API server, storage backends and time *)

CreatorQueues ==
  /\ creator = "queueing" /\ exists
  /\ PromptQueue => status.phase \in {"", "Pending"}
  /\ status' = Queued /\ creator' = "done"
  /\ UNCHANGED <<kind, exists, world, election, pc, local, active, evidence,
                 history, faults>>

CreatorGivesUp ==
  /\ creator = "queueing" /\ creator' = "done"
  /\ UNCHANGED <<kind, status, exists, world, election, pc, local, active,
                 evidence, history, faults>>

\* Others edit the target, mark it for deletion or remove it.
EditTarget ==
  /\ obj.uid # 0 /\ rev < MaxRevision
  /\ rev' = rev + 1
  /\ obj' \in {[obj EXCEPT !.rv = rev + 1],
               [obj EXCEPT !.rv = rev + 1, !.deleting = TRUE], Absent}
  /\ UNCHANGED <<backend, meddling>>

\* Others do what the operation is for: they grow the approved claim, put
\* Highland's label on the object, or work at the Longhorn volume.
HelpTarget ==
  /\ obj.uid # 0 /\ rev < MaxRevision
  /\ rev' = rev + 1
  /\ \/ /\ kind = "update" /\ obj.uid = Approved /\ obj.state = "idle"
        /\ obj' = [obj EXCEPT !.rv = rev + 1, !.state = "waiting"]
     \/ /\ kind \in Applies /\ ~obj.owned
        /\ obj' = [obj EXCEPT !.rv = rev + 1, !.owned = TRUE]
     \/ kind = "longhorn" /\ obj' = [obj EXCEPT !.rv = rev + 1, !.state = "ready"]
  /\ meddling' = meddling \cup {"helped"}
  /\ UNCHANGED backend

\* Others take Highland's label off the object.
UnlabelTarget ==
  /\ kind \in Applies /\ obj.owned /\ rev < MaxRevision
  /\ rev' = rev + 1
  /\ obj' = [obj EXCEPT !.rv = rev + 1, !.owned = FALSE]
  /\ meddling' = meddling \cup {"unlabelled"}
  /\ UNCHANGED backend

\* Others make an object of the target's name: perhaps through Highland, whose
\* label it then bears, perhaps the very thing that is waited for.
CreateTarget ==
  /\ obj.uid = 0 /\ rev < MaxRevision
  /\ rev' = rev + 1
  /\ \E s \in {"idle", "ready"}, label \in BOOLEAN :
       /\ label => kind \in Applies
       /\ obj' = [Absent EXCEPT !.uid = rev + 1, !.rv = rev + 1, !.state = s, !.owned = label]
       /\ meddling' = IF label \/ kind = "restore" \/ (kind = "longhorn" /\ s = "ready")
                      THEN meddling \cup {"helped"} ELSE meddling
  /\ UNCHANGED backend

FinalizeTarget == obj.deleting /\ obj' = Absent /\ UNCHANGED <<rev, backend, meddling>>

\* The storage provider works at the object, the manager at what it was sent.
ProgressTarget ==
  /\ \/ /\ obj.uid # 0
        /\ \/ obj.state = "waiting"
           \/ obj.state = "idle" /\ (kind \in Applies \/ (kind = "longhorn" /\ sends > 0))
        /\ \E s \in {"ready", "lost"} : obj' = [obj EXCEPT !.state = s, !.rv = rev + 1]
     \/ /\ kind = "restore" /\ obj.uid = 0 /\ sends > 0
        /\ obj' = [Absent EXCEPT !.uid = rev + 1, !.rv = rev + 1]
  /\ rev' = rev + 1
  /\ UNCHANGED <<backend, meddling>>

\* Rook creates or adopts the runtime pool of the CephBlockPool it sees and
\* removes a pool whose CephBlockPool is gone or being deleted.
ReconcilePool ==
  /\ kind \in {"apply-pool", "delete-pool"}
  /\ \/ obj.uid # 0 /\ ~obj.deleting /\ backend # obj.uid /\ backend' = obj.uid
     \/ backend # 0 /\ (backend # obj.uid \/ obj.deleting) /\ backend' = 0
  /\ UNCHANGED <<obj, rev, meddling>>

Environment ==
  /\ \/ EditTarget \/ HelpTarget \/ UnlabelTarget \/ CreateTarget
     \/ FinalizeTarget \/ ProgressTarget \/ ReconcilePool
  /\ UNCHANGED <<kind, opVars, election, pc, local, active, evidence, history, faults>>

\* Thirty minutes pass.
Tick ==
  LET Age(s) == [s EXCEPT !.aged = s.phase = "Running"]
  IN /\ exists /\ status.phase = "Running" /\ ~status.aged
     /\ status' = Age(status)
     /\ local' = [r \in Replica |-> Age(local[r])]
     /\ UNCHANGED <<kind, exists, creator, world, election, pc, active, evidence,
                    history, faults>>

Next ==
  \/ \E r \in Replica :
       Reconcile(r) \/ Collect(r) \/ Acquire(r) \/ LoseLease(r) \/ Crash(r)
  \/ CreatorQueues \/ CreatorGivesUp \/ Environment \/ Tick

Spec == Init /\ [][Next]_vars

\* The list loop, the election and the clock keep running.
FairSpec ==
  /\ Spec /\ WF_vars(Tick)
  /\ \A r \in Replica : WF_vars(Reconcile(r)) /\ WF_vars(Acquire(r))

-----------------------------------------------------------------------------
(* Properties *)

\* Every variable has its type and the bounded counters keep their bounds.
TypeOK ==
  /\ kind \in Kinds /\ status \in Status /\ exists \in BOOLEAN
  /\ creator \in {"queueing", "done"}
  /\ obj \in Objects /\ rev \in Nat /\ backend \in Nat
  /\ lease \in Replica \cup {NoReplica}
  /\ role \in [Replica -> {"candidate", "leading", "retired"}]
  /\ pc \in [Replica -> PCs] /\ local \in [Replica -> Status]
  /\ active \in [Replica -> BOOLEAN]
  /\ evidence \subseteq Terminal
  /\ touched \subseteq Nat \X Nat /\ sends \in Nat
  /\ meddling \subseteq {"helped", "unlabelled"}
  /\ faults \in 0..MaxFaults /\ losses \in 0..MaxLosses

\* Whatever overlaps, crashes and answers are lost, an update or a delete only
\* ever changed the object version the user approved, so it changed it once.
MutationMatchesApproval == kind \notin Applies => touched \subseteq {<<1, 1>>}

\* A deletion reported as succeeded is a fact: the approved object is gone for
\* good and, for a pool, so is the runtime pool that belonged to it.
SuccessIsTruthful ==
  status.phase = "Succeeded" /\ kind \in Deletes =>
    /\ obj.uid # Approved
    /\ kind = "delete-pool" => backend # Approved

\* What is reported as done, and is no removal, was done: by this operation, or by
\* somebody whose work mutationObservation cannot tell from it (the claim of the
\* approved uid grown, Highland's label on the object, the state of a volume).
\* An object that only came to look right is never taken for it.
NoPhantomSuccess ==
  status.phase = "Succeeded" /\ kind \notin Deletes =>
    touched # {} \/ sends > 0 \/ "helped" \in meddling

\* What is reported as done, and is no removal, this operation did: "a mutation
\* that completed before a leader crash" (controller.go:286-287).  Not so: what
\* others did to the same end is taken for it, and reported, with nothing sent.
OwnSuccess ==
  status.phase = "Succeeded" /\ kind \notin Deletes => touched # {} \/ sends > 0

\* A Longhorn mutation reaches the manager at most once, as for one approved
\* mutation with one durable identity.
LonghornSentOnce == kind \in Longhorns => sends <= 1

\* Before the final wait no write, of any replica, stores more than MaxRetries.
RetriesCapped ==
  status.step \notin {"Waiting", "Terminal"} => status.retries <= MaxRetries

\* A terminal record never changes: clients stop watching there.
TerminalIsFinal ==
  [][status.phase \in Terminal => status'.phase = status.phase]_vars

\* A takeover does not mistake the operation's own mutation for somebody else's
\* change: after a stale-plan failure the target is no object it made or changed,
\* unless somebody took Highland's label off one it had applied.
TakeoverRecognisesMutation ==
  status.phase = "Failed" /\ status.code = "STALE" => ~Own \/ "unlabelled" \in meddling

\* A collected operation leaves the audit event of its actual outcome behind.
CollectedWithEvidence == ~exists => status.phase \in evidence

\* Every created operation reaches a terminal record.
EventuallyTerminal == <>(status.phase \in Terminal)

Lifecycle == INSTANCE OperationLifecycle WITH
  phase   <- IF exists THEN status.phase ELSE "Collected",
  changed <- touched # {} \/ sends > 0,
  given   <- kind \in Deletes \/ "helped" \in meddling

\* Under one leader at a time the reconciler implements the lifecycle.
ImplementsLifecycle == Lifecycle!Spec
=============================================================================

---------------------- MODULE OperationControllerProofs ----------------------
(***************************************************************************)
(* Machine-checked proofs about OperationController, for every set of      *)
(* replicas, every kind of operation, every retry limit and every number   *)
(* of faults, leadership losses and foreign edits, with overlapping        *)
(* leaders and a late creator allowed.                                     *)
(***************************************************************************)
EXTENDS OperationController, TLAPS

-----------------------------------------------------------------------------
(* Type correctness.  Each helper of Reconcile moves one replica. *)

\* A replica that stores or audits an outcome holds a terminal copy.
PassType ==
  /\ pc \in [Replica -> PCs] /\ local \in [Replica -> Status]
  /\ \A r \in Replica : pc[r] \in {"finish", "audit"} => local[r].phase \in Terminal

FaultType == faults \in 0..MaxFaults

\* The label and the status copy that Reconcile moves to are well typed.
LEMMA GotoType ==
  ASSUME NEW r \in Replica, NEW label \in PCs, NEW s \in Status,
         label \in {"finish", "audit"} => s.phase \in Terminal,
         PassType, Goto(r, label, s)
  PROVE  PassType'
<1> DEFINE t == IF label = "idle" THEN Blank ELSE s
<1>1. t \in Status /\ (label \in {"finish", "audit"} => t.phase \in Terminal)
  BY DEF Blank, Status, Phases, Steps, Codes
<1>2. pc' = [pc EXCEPT ![r] = label] /\ local' = [local EXCEPT ![r] = t]
  BY DEF Goto
<1> HIDE DEF t
<1> QED
  BY <1>1, <1>2 DEF PassType

\* A counted fault stays within the bound of the model.
LEMMA FaultStep ==
  ASSUME FaultType, Fault \/ UNCHANGED faults
  PROVE  FaultType'
  BY ConstantsAssumption DEF FaultType, Fault

\* The terminal statuses Reconcile builds are statuses.
LEMMA FailedType ==
  ASSUME NEW s \in Status, NEW code \in Codes
  PROVE  Failed(s, code) \in Status /\ Failed(s, code).phase \in Terminal
  BY DEF Failed, Status, Phases, Steps, Terminal

LEMMA FailType ==
  ASSUME NEW r \in Replica, NEW code \in Codes, PassType, Fail(r, code)
  PROVE  PassType'
<1>1. local[r] \in Status
  BY DEF PassType
<1>2. Failed(local[r], code) \in Status /\ Failed(local[r], code).phase \in Terminal
  BY <1>1, FailedType
<1>3. Goto(r, "finish", Failed(local[r], code))
  BY DEF Fail
<1>4. "finish" \in PCs
  BY DEF PCs
<1> QED
  BY <1>2, <1>3, <1>4, GotoType

LEMMA SucceedType ==
  ASSUME NEW r \in Replica, PassType, Succeed(r)
  PROVE  PassType'
<1> DEFINE s == [local[r] EXCEPT !.phase = "Succeeded", !.step = "Terminal",
                                 !.aged = FALSE]
<1>1. s \in Status /\ s.phase \in Terminal
  BY DEF PassType, Status, Phases, Steps, Terminal
<1>2. Goto(r, "finish", s)
  BY DEF Succeed
<1>3. "finish" \in PCs
  BY DEF PCs
<1> HIDE DEF s
<1> QED
  BY <1>1, <1>2, <1>3, GotoType

LEMMA RetryOrFailType ==
  ASSUME NEW r \in Replica, NEW step \in Steps, PassType, RetryOrFail(r, step)
  PROVE  PassType'
<1> DEFINE s == [local[r] EXCEPT !.retries = @ + 1, !.step = step]
<1>1. s \in Status /\ "write" \in PCs /\ "OTHER" \in Codes
  <2>1. local[r] \in Status
    BY DEF PassType
  <2>2. local[r].retries + 1 \in Nat
    BY <2>1 DEF Status
  <2> QED
    BY <2>1, <2>2 DEF Status, PCs, Codes
<1>2. Goto(r, "write", s) \/ Fail(r, "OTHER")
  BY DEF RetryOrFail
<1> HIDE DEF s
<1> QED
  BY <1>1, <1>2, GotoType, FailType

LEMMA AwaitType ==
  ASSUME NEW r \in Replica, PassType, AwaitReconciliation(r)
  PROVE  PassType'
<1> DEFINE s == [local[r] EXCEPT !.step = "Waiting"]
<1>1. s \in Status /\ "write" \in PCs
  BY DEF PassType, Status, Steps, PCs
<1>2. Goto(r, "write", s)
  BY DEF AwaitReconciliation
<1> HIDE DEF s
<1> QED
  BY <1>1, <1>2, GotoType

LEMMA IdleType ==
  ASSUME NEW r \in Replica, PassType, Goto(r, "idle", Blank)
  PROVE  PassType'
<1>1. Blank \in Status /\ "idle" \in PCs
  BY DEF Blank, Status, Phases, Steps, Codes, PCs
<1> QED
  BY <1>1, GotoType

LEMMA StillPendingType ==
  ASSUME NEW r \in Replica, PassType, StillPending(r)
  PROVE  PassType'
  BY AwaitType, IdleType DEF StillPending

LEMMA ReadErrorType ==
  ASSUME NEW r \in Replica, PassType, FaultType, ReadError(r)
  PROVE  PassType' /\ FaultType'
<1>1. FaultType'
  BY FaultStep DEF ReadError
<1>2. PassType'
  <2> DEFINE s == [local[r] EXCEPT !.retries = @ + 1]
  <2>1. /\ s \in Status /\ "write" \in PCs /\ "OTHER" \in Codes
        /\ local[r].step \in Steps
    <3>1. local[r] \in Status
      BY DEF PassType
    <3>2. local[r].retries + 1 \in Nat
      BY <3>1 DEF Status
    <3> QED
      BY <3>1, <3>2 DEF Status, PCs, Codes
  <2>2. \/ Fail(r, "OTHER") \/ RetryOrFail(r, local[r].step)
        \/ Goto(r, "write", s)
    BY DEF ReadError
  <2> HIDE DEF s
  <2> QED
    BY <2>1, <2>2, FailType, RetryOrFailType, GotoType
<1> QED
  BY <1>1, <1>2

\* What Reconcile keeps of the copy when it moves on to another call.
LEMMA MoveType ==
  ASSUME NEW r \in Replica, NEW label \in PCs \ {"finish", "audit"}, PassType,
         Goto(r, label, local[r])
  PROVE  PassType'
  BY GotoType DEF PassType

LEMMA ExecutedType ==
  ASSUME NEW r \in Replica, NEW answer \in Answers, PassType, Executed(r, answer)
  PROVE  PassType'
<1>1. "Retrying" \in Steps /\ "STALE" \in Codes /\ "OTHER" \in Codes
  BY DEF Steps, Codes
<1>2. \/ Succeed(r) \/ AwaitReconciliation(r) \/ RetryOrFail(r, "Retrying")
      \/ Fail(r, "STALE") \/ Fail(r, "OTHER")
  BY DEF Executed, Answers
<1> QED
  BY <1>1, <1>2, SucceedType, AwaitType, RetryOrFailType, FailType

LEMMA AfterDeletionType ==
  ASSUME NEW r \in Replica, PassType, AfterDeletion(r)
  PROVE  PassType'
<1>1. "verify" \in PCs \ {"finish", "audit"}
  BY DEF PCs
<1> QED
  BY <1>1, MoveType, SucceedType DEF AfterDeletion

LEMMA LonghornOutcomeType ==
  ASSUME NEW r \in Replica, PassType, LonghornOutcome(r)
  PROVE  PassType'
<1>1. "OTHER" \in Codes
  BY DEF Codes
<1> QED
  BY <1>1, SucceedType, FailType DEF LonghornOutcome

LEMMA ObservedType ==
  ASSUME NEW r \in Replica, PassType, Observed(r)
  PROVE  PassType'
<1>1. {"replan", "inspect"} \subseteq PCs \ {"finish", "audit"}
  BY DEF PCs
<1>2. \/ AfterDeletion(r) \/ AwaitReconciliation(r) \/ LonghornOutcome(r)
      \/ Goto(r, "replan", local[r]) \/ Goto(r, "inspect", local[r])
  BY DEF Observed
<1> QED
  BY <1>1, <1>2, AfterDeletionType, AwaitType, LonghornOutcomeType, MoveType

LEMMA InspectedType ==
  ASSUME NEW r \in Replica, PassType, Inspected(r)
  PROVE  PassType'
<1>1. "verify" \in PCs \ {"finish", "audit"} /\ "OTHER" \in Codes
  BY DEF PCs, Codes
<1>2. \/ AfterDeletion(r) \/ StillPending(r) \/ LonghornOutcome(r)
      \/ Fail(r, "OTHER") \/ Succeed(r) \/ Goto(r, "verify", local[r])
  BY DEF Inspected
<1> QED
  BY <1>1, <1>2, AfterDeletionType, StillPendingType, LonghornOutcomeType,
     FailType, SucceedType, MoveType

LEMMA VerifiedType ==
  ASSUME NEW r \in Replica, PassType, Verified(r)
  PROVE  PassType'
<1>1. "OTHER" \in Codes
  BY DEF Codes
<1> QED
  BY <1>1, SucceedType, StillPendingType, FailType DEF Verified

-----------------------------------------------------------------------------
(* Type correctness of the whole state, action by action *)

WorldType   == obj \in Objects /\ rev \in Nat /\ backend \in Nat
HistoryType == touched \subseteq Nat \X Nat /\ sends \in Nat

ElectionType ==
  /\ lease \in Replica \cup {NoReplica}
  /\ role \in [Replica -> {"candidate", "leading", "retired"}]
  /\ losses \in 0..MaxLosses

RecordType ==
  /\ kind \in Kinds /\ status \in Status /\ exists \in BOOLEAN
  /\ creator \in {"queueing", "done"}

CountType ==
  /\ active \in [Replica -> BOOLEAN] /\ evidence \subseteq Terminal
  /\ meddling \subseteq {"helped", "unlabelled"}

\* TypeOK, strengthened with what a replica about to audit knows.
TypeInv ==
  /\ RecordType /\ WorldType /\ ElectionType /\ PassType /\ CountType
  /\ HistoryType /\ FaultType

LEMMA TypeInvImpliesTypeOK ==
  ASSUME TypeInv PROVE TypeOK
  BY DEF TypeInv, TypeOK, RecordType, WorldType, ElectionType, PassType, CountType,
         HistoryType, FaultType

\* Whatever the caller learns, the stored status is the old or the new one.
LEMMA UpdateStatusType ==
  ASSUME NEW r \in Replica, NEW s \in Status, NEW ok \in BOOLEAN,
         status \in Status, FaultType, UpdateStatus(r, s, ok)
  PROVE  status' \in {status, s} /\ status' \in Status /\ FaultType'
<1>1. status' \in {status, s}
  BY DEF UpdateStatus
<1>2. FaultType'
  BY FaultStep DEF UpdateStatus
<1> QED
  BY <1>1, <1>2

LEMMA AbsentType == Absent \in Objects
  BY DEF Absent, Objects, ObjStates

LEMMA DeleteTargetType ==
  ASSUME NEW answer, WorldType, HistoryType, DeleteTarget(answer)
  PROVE  WorldType' /\ HistoryType'
<1>1. CASE UNCHANGED <<world, history>>
  BY <1>1 DEF WorldType, HistoryType, world, history
<1>2. CASE /\ rev' = rev + 1
           /\ obj' \in {Absent, [obj EXCEPT !.deleting = TRUE, !.rv = rev + 1]}
           /\ touched' = touched \cup {<<obj.uid, obj.rv>>}
           /\ UNCHANGED <<backend, sends>>
  <2>1. rev + 1 \in Nat /\ obj \in Objects
    BY DEF WorldType
  <2>2. [obj EXCEPT !.deleting = TRUE, !.rv = rev + 1] \in Objects
    BY <2>1 DEF Objects
  <2>3. obj' \in Objects
    BY <1>2, <2>2, AbsentType
  <2> QED
    BY <1>2, <2>1, <2>3 DEF WorldType, HistoryType, Objects
<1> QED
  BY <1>1, <1>2 DEF DeleteTarget

LEMMA UpdateTargetType ==
  ASSUME NEW answer, WorldType, HistoryType, UpdateTarget(answer)
  PROVE  WorldType' /\ HistoryType'
<1>1. CASE UNCHANGED <<world, history>>
  BY <1>1 DEF WorldType, HistoryType, world, history
<1>2. CASE /\ rev' = rev + 1
           /\ obj' = [obj EXCEPT !.state = "waiting", !.rv = rev + 1]
           /\ touched' = touched \cup {<<obj.uid, obj.rv>>}
           /\ UNCHANGED <<backend, sends>>
  <2>1. rev + 1 \in Nat /\ obj \in Objects
    BY DEF WorldType
  <2>2. obj' \in Objects
    BY <1>2, <2>1 DEF Objects, ObjStates
  <2> QED
    BY <1>2, <2>1, <2>2 DEF WorldType, HistoryType, Objects
<1> QED
  BY <1>1, <1>2 DEF UpdateTarget

LEMMA ApplyTargetType ==
  ASSUME NEW answer, WorldType, HistoryType, ApplyTarget(answer)
  PROVE  WorldType' /\ HistoryType'
<1>1. CASE UNCHANGED <<world, history>>
  BY <1>1 DEF WorldType, HistoryType, world, history
<1>2. CASE /\ rev' = rev + 1
           /\ obj' = IF obj.uid = 0
                     THEN [uid |-> rev + 1, rv |-> rev + 1, deleting |-> FALSE,
                           owned |-> TRUE, state |-> "waiting"]
                     ELSE [obj EXCEPT !.owned = TRUE, !.rv = rev + 1]
           /\ touched' = touched \cup {<<obj'.uid, obj.rv>>}
           /\ UNCHANGED <<backend, sends>>
  <2>1. rev + 1 \in Nat /\ obj \in Objects
    BY DEF WorldType
  <2>2. obj' \in Objects
    BY <1>2, <2>1 DEF Objects, ObjStates
  <2> QED
    BY <1>2, <2>1, <2>2 DEF WorldType, HistoryType, Objects
<1> QED
  BY <1>1, <1>2 DEF ApplyTarget

LEMMA SendLonghornType ==
  ASSUME NEW answer, WorldType, HistoryType, SendLonghorn(answer)
  PROVE  WorldType' /\ HistoryType'
<1>1. CASE UNCHANGED <<world, history>>
  BY <1>1 DEF WorldType, HistoryType, world, history
<1>2. CASE /\ Sent
           /\ \/ /\ rev' = rev + 1
                 /\ obj' \in {[obj EXCEPT !.state = "waiting", !.rv = rev + 1],
                              [Absent EXCEPT !.uid = rev + 1, !.rv = rev + 1]}
              \/ UNCHANGED <<obj, rev>>
           /\ UNCHANGED <<backend, touched>>
  <2>1. rev + 1 \in Nat /\ sends + 1 \in Nat /\ obj \in Objects
    BY DEF WorldType, HistoryType
  <2>2. /\ [obj EXCEPT !.state = "waiting", !.rv = rev + 1] \in Objects
        /\ [Absent EXCEPT !.uid = rev + 1, !.rv = rev + 1] \in Objects
    BY <2>1, AbsentType DEF Objects, ObjStates
  <2>3. obj' \in Objects /\ rev' \in Nat
    BY <1>2, <2>1, <2>2 DEF WorldType
  <2> QED
    BY <1>2, <2>1, <2>3 DEF WorldType, HistoryType, Sent
<1> QED
  BY <1>1, <1>2 DEF SendLonghorn

LEMMA MutateType ==
  ASSUME NEW answer, WorldType, HistoryType, Mutate(answer)
  PROVE  WorldType' /\ HistoryType'
  BY DeleteTargetType, UpdateTargetType, ApplyTargetType, SendLonghornType
     DEF Mutate

-----------------------------------------------------------------------------
(* Type correctness: one lemma per call of Reconcile *)

\* What a call of Reconcile on one replica leaves alone, or may change.
LEMMA QuietPassType ==
  ASSUME TypeInv, PassType', FaultType',
         UNCHANGED <<kind, opVars, world, election, active, evidence, history>>
  PROVE  TypeInv'
  BY DEF TypeInv, RecordType, WorldType, ElectionType, CountType, HistoryType,
         opVars, world, election, history

LEMMA FetchType ==
  ASSUME NEW r \in Replica, TypeInv, Fetch(r)
  PROVE  TypeInv'
<1>1. status \in Status /\ PassType /\ FaultType
  BY DEF TypeInv, RecordType
<1>2. PassType'
  <2>1. {"queue", "preflight", "observe", "inspect"} \subseteq PCs \ {"finish", "audit"}
    BY DEF PCs
  <2>2. "finish" \in PCs /\ "OTHER" \in Codes /\ "OPERATION_TIMEOUT" \in Codes
    BY DEF PCs, Codes
  <2>3. \/ \E label \in {"queue", "preflight", "observe", "inspect"} :
             Goto(r, label, status)
        \/ \E code \in {"OTHER", "OPERATION_TIMEOUT"} :
             Goto(r, "finish", Failed(status, code))
    BY <1>1 DEF Fetch, Status, Phases, Terminal
  <2>4. CASE \E label \in {"queue", "preflight", "observe", "inspect"} :
               Goto(r, label, status)
    BY <1>1, <2>1, <2>4, GotoType
  <2>5. CASE \E code \in {"OTHER", "OPERATION_TIMEOUT"} :
               Goto(r, "finish", Failed(status, code))
    BY <1>1, <2>2, <2>5, FailedType, GotoType
  <2> QED
    BY <2>3, <2>4, <2>5
<1>3. CountType' /\ FaultType'
  BY <1>1 DEF Fetch, TypeInv, CountType, FaultType, world
<1> QED
  BY <1>2, <1>3 DEF Fetch, TypeInv, RecordType, WorldType, ElectionType,
                    HistoryType, opVars, world, election, history

LEMMA QueuedType == Queued \in Status
  BY DEF Queued, Blank, Status, Phases, Steps, Codes

LEMMA QueueType ==
  ASSUME NEW r \in Replica, TypeInv, Queue(r)
  PROVE  TypeInv'
<1>1. status \in Status /\ PassType /\ FaultType
  BY DEF TypeInv, RecordType
<1>2. PICK ok \in BOOLEAN :
        /\ UpdateStatus(r, Queued, ok)
        /\ \/ Goto(r, "idle", Blank)
           \/ Goto(r, "finish", Failed(Queued, "OTHER"))
           \/ Goto(r, "preflight", Queued)
  BY DEF Queue
<1>3. status' \in Status /\ FaultType'
  BY <1>1, <1>2, QueuedType, UpdateStatusType
<1>4. PassType'
  <2>1. "finish" \in PCs /\ "preflight" \in PCs /\ "OTHER" \in Codes
    BY DEF PCs, Codes
  <2> QED
    BY <1>1, <1>2, <2>1, QueuedType, FailedType, GotoType, IdleType
<1> QED
  BY <1>3, <1>4 DEF Queue, TypeInv, RecordType, WorldType, ElectionType, CountType,
                    HistoryType, world, election, history

LEMMA PreflightType ==
  ASSUME NEW r \in Replica, TypeInv, Preflight(r)
  PROVE  TypeInv'
<1>1. PassType /\ FaultType
  BY DEF TypeInv
<1>2. PassType'
  <2>1. {"start", "execute"} \subseteq PCs \ {"finish", "audit"}
    BY DEF PCs
  <2>2. "STALE" \in Codes /\ "PreflightRetrying" \in Steps
    BY DEF Codes, Steps
  <2>3. \/ \E label \in {"start", "execute"} : Goto(r, label, local[r])
        \/ Fail(r, "STALE") \/ RetryOrFail(r, "PreflightRetrying")
    BY DEF Preflight
  <2> QED
    BY <1>1, <2>1, <2>2, <2>3, MoveType, FailType, RetryOrFailType
<1>3. FaultType'
  BY <1>1, FaultStep DEF Preflight
<1> QED
  BY <1>2, <1>3, QuietPassType DEF Preflight

LEMMA StartType ==
  ASSUME NEW r \in Replica, TypeInv, Start(r)
  PROVE  TypeInv'
<1> DEFINE started == [Blank EXCEPT !.phase = "Running", !.step = "PreflightComplete"]
<1>1. status \in Status /\ PassType /\ FaultType
  BY DEF TypeInv, RecordType
<1>2. started \in Status
  BY DEF Blank, Status, Phases, Steps, Codes
<1>3. PICK ok \in BOOLEAN :
        /\ UpdateStatus(r, started, ok)
        /\ Goto(r, IF ok THEN "execute" ELSE "idle", started)
        /\ active' = [active EXCEPT ![r] = @ \/ ok]
  BY DEF Start
<1> HIDE DEF started
<1>4. status' \in Status /\ FaultType'
  BY <1>1, <1>2, <1>3, UpdateStatusType
<1>5. PassType'
  <2>1. (IF ok THEN "execute" ELSE "idle") \in PCs \ {"finish", "audit"}
    BY DEF PCs
  <2> QED
    BY <1>1, <1>2, <1>3, <2>1, GotoType
<1>6. active' \in [Replica -> BOOLEAN]
  BY <1>3 DEF TypeInv, CountType
<1> QED
  BY <1>4, <1>5, <1>6 DEF Start, TypeInv, RecordType, WorldType, ElectionType,
                          CountType, HistoryType, world, election, history

LEMMA ExecuteType ==
  ASSUME NEW r \in Replica, TypeInv, Execute(r)
  PROVE  TypeInv'
<1>1. PassType /\ FaultType /\ WorldType /\ HistoryType
  BY DEF TypeInv
<1>2. \E answer \in Answers : Executed(r, answer)
  BY DEF Execute, Answers, CancelledAnswer
<1>3. PassType'
  BY <1>1, <1>2, ExecutedType
<1>4. FaultType'
  BY <1>1, FaultStep DEF Execute
<1>5. (\E answer \in Answers : Mutate(answer)) \/ UNCHANGED <<world, history>>
  BY DEF Execute, Answers
<1>6. WorldType' /\ HistoryType'
  <2>1. CASE \E answer \in Answers : Mutate(answer)
    BY <1>1, <2>1, MutateType
  <2>2. CASE UNCHANGED <<world, history>>
    BY <1>1, <2>2 DEF WorldType, HistoryType, world, history
  <2> QED
    BY <1>5, <2>1, <2>2
<1> QED
  BY <1>3, <1>4, <1>6 DEF Execute, TypeInv, RecordType, ElectionType, CountType,
                          opVars, election

LEMMA ObserveType ==
  ASSUME NEW r \in Replica, TypeInv, Observe(r)
  PROVE  TypeInv'
<1>1. PassType /\ FaultType
  BY DEF TypeInv
<1>2. PassType' /\ FaultType'
  BY <1>1, ObservedType, ReadErrorType, FaultStep DEF Observe
<1> QED
  BY <1>2, QuietPassType DEF Observe

LEMMA InspectType ==
  ASSUME NEW r \in Replica, TypeInv, Inspect(r)
  PROVE  TypeInv'
<1>1. PassType /\ FaultType
  BY DEF TypeInv
<1>2. PassType' /\ FaultType'
  BY <1>1, InspectedType, ReadErrorType, FaultStep DEF Inspect
<1> QED
  BY <1>2, QuietPassType DEF Inspect

LEMMA VerifyType ==
  ASSUME NEW r \in Replica, TypeInv, Verify(r)
  PROVE  TypeInv'
<1>1. PassType /\ FaultType
  BY DEF TypeInv
<1>2. PassType' /\ FaultType'
  BY <1>1, VerifiedType, ReadErrorType, FaultStep DEF Verify
<1> QED
  BY <1>2, QuietPassType DEF Verify

LEMMA WriteType ==
  ASSUME NEW r \in Replica, TypeInv, Write(r)
  PROVE  TypeInv'
<1>1. status \in Status /\ PassType /\ FaultType /\ local[r] \in Status
  BY DEF TypeInv, RecordType, PassType
<1>2. status' \in Status /\ FaultType'
  BY <1>1, UpdateStatusType DEF Write
<1>3. PassType'
  BY <1>1, IdleType DEF Write
<1> QED
  BY <1>2, <1>3 DEF Write, TypeInv, RecordType, WorldType, ElectionType, CountType,
                    HistoryType, world, election, history

LEMMA FinishType ==
  ASSUME NEW r \in Replica, TypeInv, Finish(r)
  PROVE  TypeInv'
<1>1. /\ status \in Status /\ PassType /\ FaultType /\ local[r] \in Status
      /\ local[r].phase \in Terminal
  BY DEF TypeInv, RecordType, PassType, Finish
<1>2. status' \in Status /\ FaultType'
  BY <1>1, UpdateStatusType DEF Finish
<1>3. PassType'
  <2>1. "audit" \in PCs
    BY DEF PCs
  <2> QED
    BY <1>1, <2>1, GotoType DEF Finish
<1>4. active' \in [Replica -> BOOLEAN]
  BY DEF Finish, TypeInv, CountType
<1> QED
  BY <1>2, <1>3, <1>4 DEF Finish, TypeInv, RecordType, WorldType, ElectionType,
                          CountType, HistoryType, world, election, history

LEMMA AuditType ==
  ASSUME NEW r \in Replica, TypeInv, Audit(r)
  PROVE  TypeInv'
<1>1. PassType /\ FaultType /\ local[r].phase \in Terminal
  BY DEF TypeInv, PassType, Audit
<1>2. PassType' /\ FaultType'
  BY <1>1, IdleType, FaultStep DEF Audit
<1>3. CountType'
  BY <1>1 DEF Audit, TypeInv, CountType, world
<1> QED
  BY <1>2, <1>3 DEF Audit, TypeInv, RecordType, WorldType, ElectionType,
                    HistoryType, opVars, world, election, history

LEMMA ReconcileType ==
  ASSUME NEW r \in Replica, TypeInv, Reconcile(r)
  PROVE  TypeInv'
  BY FetchType, QueueType, PreflightType, StartType, ExecuteType, ObserveType,
     InspectType, VerifyType, WriteType, FinishType, AuditType DEF Reconcile

-----------------------------------------------------------------------------
(* Type correctness: elections, crashes, the creator, the world and time *)

LEMMA InitType == ASSUME Init PROVE TypeInv
<1>1. Blank \in Status
  BY DEF Blank, Status, Phases, Steps, Codes
<1>2. obj \in Objects
  <2>1. [Absent EXCEPT !.uid = 1, !.rv = 1] \in Objects
    BY AbsentType DEF Objects
  <2>2. obj \in {Absent, [Absent EXCEPT !.uid = 1, !.rv = 1]}
    BY DEF Init
  <2> QED
    BY <2>1, <2>2, AbsentType
<1>3. WorldType /\ HistoryType /\ CountType /\ FaultType
  BY <1>2, ConstantsAssumption
     DEF Init, WorldType, HistoryType, CountType, FaultType, Terminal
<1>4. RecordType
  BY <1>1 DEF Init, RecordType
<1>5. ElectionType
  BY ConstantsAssumption DEF Init, ElectionType
<1>6. PassType
  BY <1>1 DEF Init, PassType, PCs
<1> QED
  BY <1>3, <1>4, <1>5, <1>6 DEF TypeInv

LEMMA CollectType ==
  ASSUME NEW r \in Replica, TypeInv, Collect(r)
  PROVE  TypeInv'
  BY DEF TypeInv, Collect, RecordType, WorldType, ElectionType, PassType, CountType,
         HistoryType, FaultType, world, election, history

LEMMA AcquireType ==
  ASSUME NEW r \in Replica, TypeInv, Acquire(r)
  PROVE  TypeInv'
<1>1. ElectionType'
  BY DEF TypeInv, Acquire, ElectionType
<1> QED
  BY <1>1 DEF TypeInv, Acquire, RecordType, WorldType, PassType, CountType,
              HistoryType, FaultType, opVars, world, history

LEMMA LoseLeaseType ==
  ASSUME NEW r \in Replica, TypeInv, LoseLease(r)
  PROVE  TypeInv'
<1>1. ElectionType'
  BY ConstantsAssumption DEF TypeInv, LoseLease, ElectionType
<1> QED
  BY <1>1 DEF TypeInv, LoseLease, RecordType, WorldType, PassType, CountType,
              HistoryType, FaultType, opVars, world, history

LEMMA CrashType ==
  ASSUME NEW r \in Replica, TypeInv, Crash(r)
  PROVE  TypeInv'
<1>1. PassType /\ FaultType
  BY DEF TypeInv
<1>2. PassType' /\ FaultType'
  BY <1>1, IdleType, FaultStep DEF Crash
<1>3. ElectionType' /\ CountType'
  BY DEF TypeInv, Crash, ElectionType, CountType, world
<1> QED
  BY <1>2, <1>3 DEF TypeInv, Crash, RecordType, WorldType, HistoryType,
                    opVars, world, history

LEMMA CreatorType ==
  ASSUME TypeInv, CreatorQueues \/ CreatorGivesUp
  PROVE  TypeInv'
<1>1. RecordType'
  BY QueuedType DEF TypeInv, RecordType, CreatorQueues, CreatorGivesUp
<1> QED
  BY <1>1 DEF TypeInv, CreatorQueues, CreatorGivesUp, WorldType, ElectionType,
              PassType, CountType, HistoryType, FaultType, world, election, history

LEMMA EnvironmentType ==
  ASSUME TypeInv, Environment
  PROVE  TypeInv'
<1> DEFINE Meddled == meddling' \subseteq {"helped", "unlabelled"}
<1>1. /\ rev \in Nat /\ rev + 1 \in Nat /\ obj \in Objects /\ backend \in Nat
      /\ meddling \subseteq {"helped", "unlabelled"}
  BY DEF TypeInv, WorldType, CountType
<1>2. ASSUME EditTarget PROVE WorldType' /\ Meddled
  <2>1. /\ [obj EXCEPT !.rv = rev + 1] \in Objects
        /\ [obj EXCEPT !.rv = rev + 1, !.deleting = TRUE] \in Objects
    BY <1>1 DEF Objects
  <2> QED
    BY <1>1, <1>2, <2>1, AbsentType DEF EditTarget, WorldType
<1>3. ASSUME HelpTarget \/ UnlabelTarget PROVE WorldType' /\ Meddled
  <2>1. /\ [obj EXCEPT !.rv = rev + 1, !.state = "waiting"] \in Objects
        /\ [obj EXCEPT !.rv = rev + 1, !.state = "ready"] \in Objects
        /\ [obj EXCEPT !.rv = rev + 1, !.owned = TRUE] \in Objects
        /\ [obj EXCEPT !.rv = rev + 1, !.owned = FALSE] \in Objects
    BY <1>1 DEF Objects, ObjStates
  <2> QED
    BY <1>1, <1>3, <2>1 DEF HelpTarget, UnlabelTarget, WorldType
<1>4. ASSUME CreateTarget PROVE WorldType' /\ Meddled
  <2>1. \A s \in {"idle", "ready"}, label \in BOOLEAN :
          [Absent EXCEPT !.uid = rev + 1, !.rv = rev + 1, !.state = s, !.owned = label]
            \in Objects
    BY <1>1, AbsentType DEF Objects, ObjStates
  <2> QED
    BY <1>1, <1>4, <2>1 DEF CreateTarget, WorldType
<1>5. ASSUME FinalizeTarget PROVE WorldType' /\ Meddled
  BY <1>1, <1>5, AbsentType DEF FinalizeTarget, WorldType
<1>6. ASSUME ProgressTarget PROVE WorldType' /\ Meddled
  <2>1. /\ \A s \in {"ready", "lost"} :
             [obj EXCEPT !.state = s, !.rv = rev + 1] \in Objects
        /\ [Absent EXCEPT !.uid = rev + 1, !.rv = rev + 1] \in Objects
    BY <1>1, AbsentType DEF Objects, ObjStates
  <2> QED
    BY <1>1, <1>6, <2>1 DEF ProgressTarget, WorldType
<1>7. ASSUME ReconcilePool PROVE WorldType' /\ Meddled
  BY <1>1, <1>7 DEF ReconcilePool, WorldType, Objects
<1>8. WorldType' /\ Meddled
  BY <1>2, <1>3, <1>4, <1>5, <1>6, <1>7 DEF Environment
<1> QED
  BY <1>8 DEF TypeInv, Environment, RecordType, ElectionType, PassType, CountType,
              HistoryType, FaultType, opVars, election, history

LEMMA TickType ==
  ASSUME TypeInv, Tick
  PROVE  TypeInv'
<1> DEFINE Age(s) == [s EXCEPT !.aged = s.phase = "Running"]
<1>1. status \in Status /\ PassType
  BY DEF TypeInv, RecordType
<1>2. \A s \in Status : Age(s) \in Status /\ Age(s).phase = s.phase
  BY DEF Status
<1>3. /\ status' = Age(status) /\ local' = [r \in Replica |-> Age(local[r])]
      /\ pc' = pc
  BY DEF Tick
<1> HIDE DEF Age
<1>4. status' \in Status /\ PassType'
  BY <1>1, <1>2, <1>3 DEF PassType
<1> QED
  BY <1>4 DEF Tick, TypeInv, RecordType, WorldType, ElectionType, CountType,
              HistoryType, FaultType, world, election, history

LEMMA TypeInvStep ==
  ASSUME TypeInv, [Next]_vars
  PROVE  TypeInv'
<1>1. ASSUME NEW r \in Replica,
             Reconcile(r) \/ Collect(r) \/ Acquire(r) \/ LoseLease(r) \/ Crash(r)
      PROVE  TypeInv'
  BY <1>1, ReconcileType, CollectType, AcquireType, LoseLeaseType, CrashType
<1>2. CASE CreatorQueues \/ CreatorGivesUp
  BY <1>2, CreatorType
<1>3. CASE Environment
  BY <1>3, EnvironmentType
<1>4. CASE Tick
  BY <1>4, TickType
<1>5. CASE UNCHANGED vars
  BY <1>5 DEF vars, opVars, world, election, history, TypeInv, RecordType,
              WorldType, ElectionType, PassType, CountType, HistoryType, FaultType
<1> QED
  BY <1>1, <1>2, <1>3, <1>4, <1>5 DEF Next

\* Every state of the reconciler, of the record and of the target is of its
\* type, and a replica about to finish holds a terminal status.
THEOREM TypeInvariance == Spec => []TypeInv
<1>1. Init => TypeInv
  BY InitType
<1>2. TypeInv /\ [Next]_vars => TypeInv'
  BY TypeInvStep
<1> QED
  BY <1>1, <1>2, PTL DEF Spec

\* The type invariant of the runs, for every value of the constants.
THEOREM TypeCorrect == Spec => []TypeOK
<1>1. TypeInv => TypeOK
  BY TypeInvImpliesTypeOK
<1> QED
  BY <1>1, TypeInvariance, PTL

-----------------------------------------------------------------------------
(* Only the approved version is changed *)

LEMMA MutateApproved ==
  ASSUME NEW answer, MutationMatchesApproval, Mutate(answer), kind' = kind
  PROVE  MutationMatchesApproval'
<1>1. CASE kind \in Applies
  BY <1>1 DEF MutationMatchesApproval
<1>2. CASE kind \notin Applies
  <2>1. kind # "restore" => Approved = 1
    BY <1>2 DEF Approved
  <2>2. kind \in Longhorns => UNCHANGED touched
    BY <1>2 DEF Mutate, SendLonghorn, history, Longhorns, Deletes, Applies
  <2>3. touched' \in {touched, touched \cup {<<1, 1>>}}
    BY <1>2, <2>1, <2>2 DEF Mutate, DeleteTarget, UpdateTarget, IsApproved, history,
                            Longhorns
  <2> QED
    BY <1>2, <2>3 DEF MutationMatchesApproval
<1> QED
  BY <1>1, <1>2

LEMMA ApprovedStep ==
  ASSUME MutationMatchesApproval, [Next]_vars
  PROVE  MutationMatchesApproval'
<1>1. ASSUME NEW r \in Replica, Execute(r)
      PROVE  MutationMatchesApproval'
  <2>1. kind' = kind
    BY <1>1 DEF Execute
  <2>2. CASE \E answer \in Answers : Mutate(answer)
    BY <2>1, <2>2, MutateApproved
  <2>3. CASE UNCHANGED <<world, history>>
    BY <2>1, <2>3 DEF history, MutationMatchesApproval
  <2> QED
    BY <1>1, <2>2, <2>3 DEF Execute, Answers
<1>2. ASSUME NEW r \in Replica, Reconcile(r), ~Execute(r)
      PROVE  UNCHANGED <<kind, touched>>
  BY <1>2 DEF Reconcile, Fetch, Queue, Preflight, Start, Observe, Inspect, Verify,
              Write, Finish, Audit, history
<1>3. ASSUME NEW r \in Replica,
             Collect(r) \/ Acquire(r) \/ LoseLease(r) \/ Crash(r)
      PROVE  UNCHANGED <<kind, touched>>
  BY <1>3 DEF Collect, Acquire, LoseLease, Crash, history
<1>4. CASE CreatorQueues \/ CreatorGivesUp \/ Environment \/ Tick \/ UNCHANGED vars
  <2>1. UNCHANGED <<kind, touched>>
    BY <1>4 DEF CreatorQueues, CreatorGivesUp, Environment, Tick, vars, history
  <2> QED
    BY <2>1 DEF MutationMatchesApproval
<1>5. UNCHANGED <<kind, touched>> => MutationMatchesApproval'
  BY DEF MutationMatchesApproval
<1> QED
  BY <1>1, <1>2, <1>3, <1>4, <1>5 DEF Next

\* However many leaders overlap, crash and lose answers, the reconciler updates
\* or deletes only the version of the target that the user approved.
THEOREM ApprovedOnly == Spec => []MutationMatchesApproval
<1>1. Init => MutationMatchesApproval
  BY DEF Init, MutationMatchesApproval
<1> QED
  BY <1>1, ApprovedStep, PTL DEF Spec

-----------------------------------------------------------------------------
(* A deletion that succeeded is a fact *)

\* What any step does to the target: uids are never reused and Rook only ever
\* builds the pool of the object it sees.
WorldStep ==
  /\ rev' \in Nat /\ rev' >= rev /\ kind' = kind
  /\ obj'.uid \in {0, obj.uid, rev + 1}
  /\ backend' \in {0, backend, obj.uid}

LEMMA MutateWorld ==
  ASSUME NEW answer, WorldType, Mutate(answer), kind' = kind
  PROVE  WorldStep
<1>1. rev \in Nat /\ obj \in Objects
  BY DEF WorldType
<1>2. /\ rev' \in {rev, rev + 1} /\ backend' = backend
      /\ obj' \in {obj, Absent, [obj EXCEPT !.deleting = TRUE, !.rv = rev + 1],
                   [obj EXCEPT !.state = "waiting", !.rv = rev + 1],
                   [obj EXCEPT !.owned = TRUE, !.rv = rev + 1],
                   [Absent EXCEPT !.uid = rev + 1, !.rv = rev + 1],
                   [uid |-> rev + 1, rv |-> rev + 1, deleting |-> FALSE,
                    owned |-> TRUE, state |-> "waiting"]}
  BY DEF Mutate, DeleteTarget, UpdateTarget, ApplyTarget, SendLonghorn, world
<1>3. obj'.uid \in {0, obj.uid, rev + 1}
  <2>1. /\ Absent.uid = 0
        /\ [obj EXCEPT !.deleting = TRUE, !.rv = rev + 1].uid = obj.uid
        /\ [obj EXCEPT !.state = "waiting", !.rv = rev + 1].uid = obj.uid
        /\ [obj EXCEPT !.owned = TRUE, !.rv = rev + 1].uid = obj.uid
        /\ [Absent EXCEPT !.uid = rev + 1, !.rv = rev + 1].uid = rev + 1
        /\ [uid |-> rev + 1, rv |-> rev + 1, deleting |-> FALSE,
            owned |-> TRUE, state |-> "waiting"].uid = rev + 1
    BY <1>1 DEF Objects, Absent
  <2> QED
    BY <1>2, <2>1
<1> QED
  BY <1>1, <1>2, <1>3 DEF WorldStep

LEMMA EnvironmentWorld ==
  ASSUME WorldType, Environment
  PROVE  WorldStep
<1>1. rev \in Nat /\ obj \in Objects
  BY DEF WorldType
<1>2. rev' \in {rev, rev + 1} /\ kind' = kind
  BY DEF Environment, EditTarget, HelpTarget, UnlabelTarget, CreateTarget,
         FinalizeTarget, ProgressTarget, ReconcilePool
<1>3. backend' \in {0, backend, obj.uid}
  BY DEF Environment, EditTarget, HelpTarget, UnlabelTarget, CreateTarget,
         FinalizeTarget, ProgressTarget, ReconcilePool
<1>4. obj'.uid \in {0, obj.uid, rev + 1}
  <2>1. CASE EditTarget
    <3>1. /\ Absent.uid = 0 /\ [obj EXCEPT !.rv = rev + 1].uid = obj.uid
          /\ [obj EXCEPT !.rv = rev + 1, !.deleting = TRUE].uid = obj.uid
      BY <1>1 DEF Objects, Absent
    <3> QED
      BY <2>1, <3>1 DEF EditTarget
  <2>2. CASE HelpTarget
    BY <1>1, <2>2 DEF HelpTarget, Objects
  <2>3. CASE UnlabelTarget
    BY <1>1, <2>3 DEF UnlabelTarget, Objects
  <2>4. CASE CreateTarget
    BY <1>1, <2>4 DEF CreateTarget, Objects, Absent
  <2>5. CASE FinalizeTarget
    BY <1>1, <2>5 DEF FinalizeTarget, Objects, Absent
  <2>6. CASE ProgressTarget
    BY <1>1, <2>6 DEF ProgressTarget, Objects, Absent
  <2>7. CASE ReconcilePool
    BY <2>7 DEF ReconcilePool
  <2> QED
    BY <2>1, <2>2, <2>3, <2>4, <2>5, <2>6, <2>7 DEF Environment
<1> QED
  BY <1>1, <1>2, <1>3, <1>4 DEF WorldStep

LEMMA NextWorld ==
  ASSUME TypeInv, [Next]_vars
  PROVE  WorldStep
<1>1. WorldType /\ rev \in Nat
  BY DEF TypeInv, WorldType
<1>2. UNCHANGED <<kind, world>> => WorldStep
  BY <1>1 DEF WorldStep, world
<1>3. ASSUME NEW r \in Replica, Execute(r)
      PROVE  WorldStep
  <2>1. kind' = kind
    BY <1>3 DEF Execute
  <2>2. (\E answer \in Answers : Mutate(answer)) \/ UNCHANGED world
    BY <1>3 DEF Execute, Answers
  <2> QED
    BY <1>1, <1>2, <2>1, <2>2, MutateWorld
<1>4. ASSUME NEW r \in Replica, Reconcile(r), ~Execute(r)
      PROVE  UNCHANGED <<kind, world>>
  BY <1>4 DEF Reconcile, Fetch, Queue, Preflight, Start, Observe, Inspect, Verify,
              Write, Finish, Audit
<1>5. ASSUME NEW r \in Replica,
             Collect(r) \/ Acquire(r) \/ LoseLease(r) \/ Crash(r)
      PROVE  UNCHANGED <<kind, world>>
  BY <1>5 DEF Collect, Acquire, LoseLease, Crash
<1>6. CreatorQueues \/ CreatorGivesUp \/ Tick \/ UNCHANGED vars
        => UNCHANGED <<kind, world>>
  BY DEF CreatorQueues, CreatorGivesUp, Tick, vars
<1>7. Environment => WorldStep
  BY <1>1, EnvironmentWorld
<1> QED
  BY <1>2, <1>3, <1>4, <1>5, <1>6, <1>7 DEF Next

\* The deleted target is gone, and the runtime pool with it.
Gone == obj.uid # 1 /\ (kind = "delete-pool" => backend # 1)

\* A status that reports a successful deletion tells the truth.
Claim(s) == s.phase = "Succeeded" /\ kind \in Deletes => Gone

\* Ceph is asked about the pool only once the CephBlockPool is gone.
AsksLast(label) == label = "verify" /\ kind = "delete-pool" => obj.uid # 1

\* Every copy in the hands of a replica is truthful too, even of a replica that
\* no longer leads: its late writes may still land.
TruthInv ==
  /\ TypeInv /\ rev >= 1
  /\ Claim(status)
  /\ \A r \in Replica : Claim(local[r]) /\ AsksLast(pc[r])

\* Reconcile moves on with a truthful copy.
Honest(r) ==
  \E label \in PCs, s \in Status :
    Goto(r, label, s) /\ Claim(s) /\ AsksLast(label)

\* Once gone, gone for good.
LEMMA GoneStable ==
  ASSUME TypeInv, rev >= 1, WorldStep
  PROVE  /\ obj.uid # 1 => obj'.uid # 1
         /\ Gone => Gone'
<1>1. rev \in Nat /\ obj.uid \in Nat /\ backend \in Nat
  BY DEF TypeInv, WorldType, Objects
<1>2. rev + 1 # 1
  BY <1>1
<1> QED
  BY <1>1, <1>2 DEF WorldStep, Gone

LEMMA HonestPass ==
  ASSUME TruthInv, WorldStep, NEW r \in Replica, Honest(r)
  PROVE  \A q \in Replica : Claim(local[q])' /\ AsksLast(pc[q])'
<1>1. PICK label \in PCs, s \in Status :
        Goto(r, label, s) /\ Claim(s) /\ AsksLast(label)
  BY DEF Honest
<1> DEFINE t == IF label = "idle" THEN Blank ELSE s
<1>2. Claim(t)
  BY <1>1 DEF Claim, Blank
<1>3. local' = [local EXCEPT ![r] = t] /\ pc' = [pc EXCEPT ![r] = label]
  BY <1>1 DEF Goto
<1> HIDE DEF t
<1>4. local \in [Replica -> Status] /\ pc \in [Replica -> PCs]
  BY DEF TruthInv, TypeInv, PassType
<1> SUFFICES ASSUME NEW q \in Replica
             PROVE  Claim(local[q])' /\ AsksLast(pc[q])'
  OBVIOUS
<1>5. local'[q] \in {local[q], t} /\ pc'[q] \in {pc[q], label}
  BY <1>3, <1>4
<1>6. Claim(local[q]) /\ AsksLast(pc[q])
  BY DEF TruthInv
<1>7. kind' = kind /\ (obj.uid # 1 => obj'.uid # 1) /\ (Gone => Gone')
  BY GoneStable DEF TruthInv, WorldStep
<1>8. Claim(local[q])'
  BY <1>2, <1>5, <1>6, <1>7 DEF Claim
<1>9. AsksLast(pc[q])'
  BY <1>1, <1>5, <1>6, <1>7 DEF AsksLast
<1> QED
  BY <1>8, <1>9

\* Replicas that do not move stay truthful.
LEMMA IdlePass ==
  ASSUME TruthInv, WorldStep, UNCHANGED <<pc, local>>
  PROVE  \A q \in Replica : Claim(local[q])' /\ AsksLast(pc[q])'
  BY GoneStable DEF TruthInv, WorldStep, Claim, AsksLast

LEMMA ClaimStored ==
  ASSUME TruthInv, WorldStep, NEW s \in Status, Claim(s), status' \in {status, s}
  PROVE  Claim(status)'
<1>1. kind' = kind /\ (Gone => Gone') /\ Claim(status)
  BY GoneStable DEF TruthInv, WorldStep
<1> QED
  BY <1>1 DEF Claim

\* The helpers of Reconcile are honest.
LEMMA HonestGoto ==
  ASSUME NEW r \in Replica, NEW label \in PCs, NEW s \in Status,
         s.phase # "Succeeded", label # "verify", Goto(r, label, s)
  PROVE  Honest(r)
  BY DEF Honest, Claim, AsksLast

LEMMA HonestFail ==
  ASSUME TruthInv, NEW r \in Replica, NEW code \in Codes, Fail(r, code)
  PROVE  Honest(r)
<1>1. local[r] \in Status
  BY DEF TruthInv, TypeInv, PassType
<1>2. Failed(local[r], code) \in Status /\ Failed(local[r], code).phase # "Succeeded"
  BY <1>1, FailedType DEF Failed, Status
<1>3. "finish" \in PCs /\ Goto(r, "finish", Failed(local[r], code))
  BY DEF PCs, Fail
<1> QED
  BY <1>2, <1>3, HonestGoto

\* The copy a replica holds may go anywhere with its phase unchanged.
LEMMA HonestKeep ==
  ASSUME TruthInv, NEW r \in Replica, NEW label \in PCs, NEW s \in Status,
         s.phase = local[r].phase, AsksLast(label), Goto(r, label, s)
  PROVE  Honest(r)
<1>1. Claim(s)
  BY DEF TruthInv, Claim
<1> QED
  BY <1>1 DEF Honest

LEMMA HonestRetry ==
  ASSUME TruthInv, NEW r \in Replica, NEW step \in Steps, RetryOrFail(r, step)
  PROVE  Honest(r)
<1> DEFINE s == [local[r] EXCEPT !.retries = @ + 1, !.step = step]
<1>1. local[r] \in Status /\ local[r].retries + 1 \in Nat
  BY DEF TruthInv, TypeInv, PassType, Status
<1>2. s \in Status /\ s.phase = local[r].phase
  BY <1>1 DEF Status
<1>3. Goto(r, "write", s) \/ Fail(r, "OTHER")
  BY DEF RetryOrFail
<1> HIDE DEF s
<1>4. "write" \in PCs /\ "OTHER" \in Codes /\ AsksLast("write")
  BY DEF PCs, Codes, AsksLast
<1> QED
  BY <1>2, <1>3, <1>4, HonestKeep, HonestFail

LEMMA HonestAwait ==
  ASSUME TruthInv, NEW r \in Replica, AwaitReconciliation(r)
  PROVE  Honest(r)
<1> DEFINE s == [local[r] EXCEPT !.step = "Waiting"]
<1>1. local[r] \in Status
  BY DEF TruthInv, TypeInv, PassType
<1>2. s \in Status /\ s.phase = local[r].phase
  BY <1>1 DEF Status, Steps
<1>3. Goto(r, "write", s)
  BY DEF AwaitReconciliation
<1> HIDE DEF s
<1>4. "write" \in PCs /\ AsksLast("write")
  BY DEF PCs, AsksLast
<1> QED
  BY <1>2, <1>3, <1>4, HonestKeep

LEMMA HonestIdle ==
  ASSUME TruthInv, NEW r \in Replica, Goto(r, "idle", Blank)
  PROVE  Honest(r)
<1>1. Blank \in Status /\ Blank.phase # "Succeeded" /\ "idle" \in PCs
  BY DEF Blank, Status, Phases, Steps, Codes, PCs
<1> QED
  BY <1>1, HonestGoto

LEMMA HonestPending ==
  ASSUME TruthInv, NEW r \in Replica, StillPending(r)
  PROVE  Honest(r)
  BY HonestAwait, HonestIdle DEF StillPending

\* Success may be reported of a deletion only once the target is gone.
LEMMA HonestSucceed ==
  ASSUME TruthInv, NEW r \in Replica, Succeed(r), kind \in Deletes => Gone
  PROVE  Honest(r)
<1> DEFINE s == [local[r] EXCEPT !.phase = "Succeeded", !.step = "Terminal",
                                 !.aged = FALSE]
<1>1. local[r] \in Status
  BY DEF TruthInv, TypeInv, PassType
<1>2. s \in Status
  BY <1>1 DEF Status, Phases, Steps
<1>3. Goto(r, "finish", s)
  BY DEF Succeed
<1> HIDE DEF s
<1>4. "finish" \in PCs /\ AsksLast("finish") /\ Claim(s)
  BY DEF PCs, AsksLast, Claim
<1> QED
  BY <1>2, <1>3, <1>4 DEF Honest

LEMMA HonestMove ==
  ASSUME TruthInv, NEW r \in Replica, NEW label \in PCs, AsksLast(label),
         Goto(r, label, local[r])
  PROVE  Honest(r)
<1>1. local[r] \in Status
  BY DEF TruthInv, TypeInv, PassType
<1> QED
  BY <1>1, HonestKeep

LEMMA HonestReadError ==
  ASSUME TruthInv, NEW r \in Replica, ReadError(r)
  PROVE  Honest(r)
<1> DEFINE s == [local[r] EXCEPT !.retries = @ + 1]
<1>1. local[r] \in Status /\ local[r].retries + 1 \in Nat /\ local[r].step \in Steps
  BY DEF TruthInv, TypeInv, PassType, Status
<1>2. s \in Status /\ s.phase = local[r].phase
  BY <1>1 DEF Status
<1>3. Fail(r, "OTHER") \/ RetryOrFail(r, local[r].step) \/ Goto(r, "write", s)
  BY DEF ReadError
<1> HIDE DEF s
<1>4. "write" \in PCs /\ "OTHER" \in Codes /\ AsksLast("write")
  BY DEF PCs, Codes, AsksLast
<1> QED
  BY <1>1, <1>2, <1>3, <1>4, HonestFail, HonestRetry, HonestKeep

LEMMA HonestAfterDeletion ==
  ASSUME TruthInv, NEW r \in Replica, kind \in Deletes, TargetGone, AfterDeletion(r)
  PROVE  Honest(r)
<1>1. obj.uid # 1
  BY DEF Approved, TargetGone, Deletes, Applies
<1>2. CASE kind = "delete-pool"
  <2>1. AsksLast("verify") /\ "verify" \in PCs
    BY <1>1 DEF AsksLast, PCs
  <2> QED
    BY <1>2, <2>1, HonestMove DEF AfterDeletion
<1>3. CASE kind # "delete-pool"
  BY <1>1, <1>3, HonestSucceed DEF AfterDeletion, Gone
<1> QED
  BY <1>2, <1>3

LEMMA HonestExecuted ==
  ASSUME TruthInv, NEW r \in Replica, NEW answer \in Answers, Executed(r, answer)
  PROVE  Honest(r)
<1>1. "Retrying" \in Steps /\ "STALE" \in Codes /\ "OTHER" \in Codes
  BY DEF Steps, Codes
<1>2. \/ kind = "apply-class" /\ Succeed(r)
      \/ AwaitReconciliation(r) \/ RetryOrFail(r, "Retrying")
      \/ Fail(r, "STALE") \/ Fail(r, "OTHER")
  BY DEF Executed, Answers
<1>3. kind = "apply-class" => kind \notin Deletes
  BY DEF Deletes
<1> QED
  BY <1>1, <1>2, <1>3, HonestSucceed, HonestAwait, HonestRetry, HonestFail

LEMMA HonestLonghorn ==
  ASSUME TruthInv, NEW r \in Replica, kind \in Longhorns, LonghornOutcome(r)
  PROVE  Honest(r)
<1>1. kind \notin Deletes /\ "OTHER" \in Codes
  BY DEF Deletes, Longhorns, Codes
<1> QED
  BY <1>1, HonestSucceed, HonestFail DEF LonghornOutcome

LEMMA HonestObserved ==
  ASSUME TruthInv, NEW r \in Replica, Observed(r)
  PROVE  Honest(r)
<1>1. /\ "replan" \in PCs /\ "inspect" \in PCs
      /\ AsksLast("replan") /\ AsksLast("inspect")
  BY DEF PCs, AsksLast
<1>2. \/ kind \in Deletes /\ TargetGone /\ AfterDeletion(r)
      \/ AwaitReconciliation(r)
      \/ Goto(r, "replan", local[r]) \/ Goto(r, "inspect", local[r])
      \/ kind \in Longhorns /\ LonghornOutcome(r)
  BY DEF Observed
<1> QED
  BY <1>1, <1>2, HonestAfterDeletion, HonestAwait, HonestMove, HonestLonghorn

LEMMA HonestInspected ==
  ASSUME TruthInv, NEW r \in Replica, Inspected(r)
  PROVE  Honest(r)
<1>1. "verify" \in PCs /\ "OTHER" \in Codes
  BY DEF PCs, Codes
<1>2. \/ kind \in Deletes /\ TargetGone /\ AfterDeletion(r)
      \/ StillPending(r) \/ Fail(r, "OTHER")
      \/ kind \in Longhorns /\ LonghornOutcome(r)
      \/ kind = "apply-pool" /\ Goto(r, "verify", local[r])
      \/ kind \in Applies \cup {"update"} /\ Succeed(r)
  BY DEF Inspected
<1>3. kind = "apply-pool" => AsksLast("verify")
  BY DEF AsksLast
<1>4. kind \in Applies \cup {"update"} => kind \notin Deletes
  BY DEF Applies, Deletes
<1> QED
  BY <1>1, <1>2, <1>3, <1>4, HonestAfterDeletion, HonestPending, HonestFail,
     HonestLonghorn, HonestMove, HonestSucceed

LEMMA HonestVerified ==
  ASSUME TruthInv, NEW r \in Replica, pc[r] = "verify", Verified(r)
  PROVE  Honest(r)
<1>1. "OTHER" \in Codes
  BY DEF Codes
<1>2. kind = "delete-pool" => obj.uid # 1
  BY DEF TruthInv, AsksLast
<1>3. CASE kind = "delete-pool" /\ backend = 0 /\ Succeed(r)
  BY <1>2, <1>3, HonestSucceed DEF Gone
<1>4. CASE kind = "apply-pool" /\ Succeed(r)
  BY <1>4, HonestSucceed DEF Deletes
<1>5. CASE StillPending(r) \/ Fail(r, "OTHER")
  BY <1>1, <1>5, HonestPending, HonestFail
<1> QED
  BY <1>3, <1>4, <1>5 DEF Verified

\* Every call of Reconcile is honest, and so is whatever it stores.
LEMMA HonestReconcile ==
  ASSUME TruthInv, NEW r \in Replica, Reconcile(r)
  PROVE  Honest(r)
<1>1. status \in Status /\ local[r] \in Status
  BY DEF TruthInv, TypeInv, RecordType, PassType
<1>2. Queued \in Status /\ Queued.phase # "Succeeded"
  BY QueuedType DEF Queued, Blank
<1>3. {"queue", "preflight", "observe", "inspect", "finish", "start", "execute",
       "audit", "idle"} \subseteq PCs \ {"verify"}
  BY DEF PCs
<1>4. \A label \in PCs \ {"verify"} : AsksLast(label)
  BY DEF AsksLast
<1>5. "OTHER" \in Codes /\ "STALE" \in Codes /\ "OPERATION_TIMEOUT" \in Codes
      /\ "PreflightRetrying" \in Steps
  BY DEF Codes, Steps
<1>6. \A s \in Status, code \in Codes :
        Failed(s, code) \in Status /\ Failed(s, code).phase # "Succeeded"
  BY FailedType DEF Failed, Status
<1>7. CASE Fetch(r)
  <2>1. \/ /\ status.phase # "Succeeded"
           /\ \E label \in {"queue", "preflight", "observe", "inspect"} :
                Goto(r, label, status)
        \/ \E code \in {"OTHER", "OPERATION_TIMEOUT"} :
             Goto(r, "finish", Failed(status, code))
    BY <1>1, <1>7 DEF Fetch, Status, Phases, Terminal
  <2> QED
    BY <1>1, <1>3, <1>5, <1>6, <2>1, HonestGoto
<1>8. CASE Queue(r)
  <2>1. \/ Goto(r, "idle", Blank) \/ Goto(r, "preflight", Queued)
        \/ Goto(r, "finish", Failed(Queued, "OTHER"))
    BY <1>8 DEF Queue
  <2> QED
    BY <1>2, <1>3, <1>5, <1>6, <2>1, HonestIdle, HonestGoto
<1>9. CASE Preflight(r)
  <2>1. \/ \E label \in {"start", "execute"} : Goto(r, label, local[r])
        \/ Fail(r, "STALE") \/ RetryOrFail(r, "PreflightRetrying")
    BY <1>9 DEF Preflight
  <2> QED
    BY <1>3, <1>4, <1>5, <2>1, HonestMove, HonestFail, HonestRetry
<1>10. CASE Start(r)
  <2> DEFINE started == [Blank EXCEPT !.phase = "Running", !.step = "PreflightComplete"]
  <2>1. started \in Status /\ started.phase # "Succeeded"
    BY DEF Blank, Status, Phases, Steps, Codes
  <2>2. Goto(r, "execute", started) \/ Goto(r, "idle", started)
    BY <1>10 DEF Start
  <2> HIDE DEF started
  <2> QED
    BY <1>3, <2>1, <2>2, HonestGoto
<1>11. CASE Execute(r)
  <2>1. \E answer \in Answers : Executed(r, answer)
    BY <1>11 DEF Execute, Answers, CancelledAnswer
  <2> QED
    BY <2>1, HonestExecuted
<1>12. CASE Observe(r)
  BY <1>12, HonestObserved, HonestReadError DEF Observe
<1>13. CASE Inspect(r)
  BY <1>13, HonestInspected, HonestReadError DEF Inspect
<1>14. CASE Verify(r)
  BY <1>14, HonestVerified, HonestReadError DEF Verify
<1>15. CASE Write(r)
  BY <1>15, HonestIdle DEF Write
<1>16. CASE Finish(r)
  BY <1>3, <1>4, <1>16, HonestMove DEF Finish
<1>17. CASE Audit(r)
  BY <1>17, HonestIdle DEF Audit
<1> QED
  BY <1>7, <1>8, <1>9, <1>10, <1>11, <1>12, <1>13, <1>14, <1>15, <1>16, <1>17
     DEF Reconcile

LEMMA ReconcileStored ==
  ASSUME TruthInv, WorldStep, NEW r \in Replica, Reconcile(r)
  PROVE  Claim(status)'
<1>1. local[r] \in Status /\ Claim(local[r])
  BY DEF TruthInv, TypeInv, PassType
<1>2. CASE Queue(r)
  <2>1. status' \in {status, Queued}
    BY <1>2 DEF Queue, UpdateStatus
  <2>2. Claim(Queued)
    BY DEF Claim, Queued, Blank
  <2> QED
    BY <2>1, <2>2, QueuedType, ClaimStored
<1>3. CASE Start(r)
  <2> DEFINE started == [Blank EXCEPT !.phase = "Running", !.step = "PreflightComplete"]
  <2>1. started \in Status /\ Claim(started)
    BY DEF Claim, Blank, Status, Phases, Steps, Codes
  <2>2. status' \in {status, started}
    BY <1>3 DEF Start, UpdateStatus
  <2> HIDE DEF started
  <2> QED
    BY <2>1, <2>2, ClaimStored
<1>4. CASE Write(r) \/ Finish(r)
  <2>1. status' \in {status, local[r]}
    BY <1>4 DEF Write, Finish, UpdateStatus
  <2> QED
    BY <1>1, <2>1, ClaimStored
<1>5. CASE Fetch(r) \/ Preflight(r) \/ Execute(r) \/ Observe(r) \/ Inspect(r)
           \/ Verify(r) \/ Audit(r)
  <2>1. status' = status
    BY <1>5 DEF Fetch, Preflight, Execute, Observe, Inspect, Verify, Audit, opVars
  <2> QED
    BY <1>1, <2>1, ClaimStored
<1> QED
  BY <1>2, <1>3, <1>4, <1>5 DEF Reconcile

LEMMA TruthStep ==
  ASSUME TruthInv, [Next]_vars
  PROVE  TruthInv'
<1>1. TypeInv /\ TypeInv'
  BY TypeInvStep DEF TruthInv
<1>2. WorldStep
  BY <1>1, NextWorld
<1>3. rev' >= 1
  BY <1>1, <1>2 DEF TruthInv, WorldStep, TypeInv, WorldType
<1> DEFINE Others == \A q \in Replica : Claim(local[q])' /\ AsksLast(pc[q])'
<1>4. ASSUME NEW r \in Replica, Reconcile(r)
      PROVE  Claim(status)' /\ Others
  BY <1>2, <1>4, HonestReconcile, HonestPass, ReconcileStored
<1>5. UNCHANGED <<status, pc, local>> => Claim(status)' /\ Others
  BY <1>2, IdlePass, GoneStable DEF TruthInv, WorldStep, Claim
<1>6. ASSUME NEW r \in Replica, Crash(r)
      PROVE  Claim(status)' /\ Others
  <2>1. Honest(r) /\ status' = status
    BY <1>6, HonestIdle DEF Crash, opVars
  <2> QED
    BY <1>2, <2>1, HonestPass, GoneStable DEF TruthInv, WorldStep, Claim
<1>7. ASSUME NEW r \in Replica, Collect(r) \/ Acquire(r) \/ LoseLease(r)
      PROVE  UNCHANGED <<status, pc, local>>
  BY <1>7 DEF Collect, Acquire, LoseLease, opVars
<1>8. ASSUME CreatorQueues
      PROVE  Claim(status)' /\ Others
  <2>1. status' = Queued /\ UNCHANGED <<pc, local>>
    BY <1>8 DEF CreatorQueues
  <2>2. Claim(status)'
    BY <2>1 DEF Claim, Queued, Blank
  <2> QED
    BY <1>2, <2>1, <2>2, IdlePass
<1>9. ASSUME CreatorGivesUp \/ Environment \/ UNCHANGED vars
      PROVE  Claim(status)' /\ Others
  BY <1>5, <1>9 DEF CreatorGivesUp, Environment, vars, opVars
<1>10. ASSUME Tick
       PROVE  Claim(status)' /\ Others
  <2> DEFINE Age(s) == [s EXCEPT !.aged = s.phase = "Running"]
  <2>1. status \in Status /\ \A q \in Replica : local[q] \in Status
    BY <1>1 DEF TypeInv, RecordType, PassType
  <2>2. \A s \in Status : Age(s).phase = s.phase
    BY DEF Status
  <2>3. status' = Age(status) /\ local' = [q \in Replica |-> Age(local[q])]
        /\ pc' = pc
    BY <1>10 DEF Tick
  <2> HIDE DEF Age
  <2>4. /\ status'.phase = status.phase
        /\ \A q \in Replica : local'[q].phase = local[q].phase
    BY <2>1, <2>2, <2>3
  <2>5. kind' = kind /\ (Gone => Gone') /\ (obj.uid # 1 => obj'.uid # 1)
    BY <1>2, GoneStable DEF TruthInv, WorldStep
  <2>6. Claim(status)'
    BY <2>4, <2>5 DEF TruthInv, Claim
  <2>7. Others
    BY <2>3, <2>4, <2>5 DEF TruthInv, Claim, AsksLast
  <2> QED
    BY <2>6, <2>7
<1>11. Claim(status)' /\ Others
  BY <1>4, <1>5, <1>6, <1>7, <1>8, <1>9, <1>10 DEF Next
<1> QED
  BY <1>1, <1>3, <1>11 DEF TruthInv

\* A deletion reported as succeeded is a fact, in the record and in every
\* replica's hands, through crashes, overlapping leaders and lost answers; the
\* uid check and Ceph's own answer are what it rests on.
THEOREM Truthful == Spec => []SuccessIsTruthful
<1>1. Init => TruthInv
  <2> SUFFICES ASSUME Init PROVE TruthInv
    OBVIOUS
  <2>1. TypeInv
    BY InitType
  <2>2. rev >= 1 /\ Claim(status)
    <3>1. rev = 1 /\ status = Blank
      BY DEF Init
    <3>2. rev >= 1
      BY <3>1
    <3>3. Claim(status)
      BY <3>1 DEF Claim, Blank
    <3> QED
      BY <3>2, <3>3
  <2>3. \A r \in Replica : Claim(local[r]) /\ AsksLast(pc[r])
    BY DEF Init, Claim, AsksLast, Blank
  <2> QED
    BY <2>1, <2>2, <2>3 DEF TruthInv
<1>2. TruthInv /\ [Next]_vars => TruthInv'
  BY TruthStep
<1>3. TruthInv => SuccessIsTruthful
  BY DEF TruthInv, Claim, Gone, SuccessIsTruthful, Approved, Applies, Deletes
<1> QED
  BY <1>1, <1>2, <1>3, PTL DEF Spec

-----------------------------------------------------------------------------
(* One call of Reconcile at a time: where it leads and with which copy.  What *)
(* follows rests on this relation, not on the calls themselves.               *)

Started == [Blank EXCEPT !.phase = "Running", !.step = "PreflightComplete"]

\* The copies that a call makes of its own.
Retried(s, step) == [s EXCEPT !.retries = @ + 1, !.step = step]
Awaiting(s)      == [s EXCEPT !.step = "Waiting"]
Success(s)       == [s EXCEPT !.phase = "Succeeded", !.step = "Terminal", !.aged = FALSE]

Working == {"execute", "observe", "inspect", "verify"}
Calling == Working \cup {"preflight", "replan"}

\* Kinds whose success means that the target was made or changed: by the operation,
\* or by others in a way that passes for its work.
Makes == kind \notin Deletes

Work == touched # {} \/ sends > 0 \/ "helped" \in meddling

\* run picks the operation up, or gives it up at once.
Picked(label, s) ==
  /\ exists /\ status.phase \notin Terminal
  /\ \/ label = "queue" /\ status.phase = "" /\ s = status
     \/ label = "preflight" /\ status.phase = "Pending" /\ s = status
     \/ label = "observe" /\ status.phase = "Running" /\ s = status
     \/ label = "inspect" /\ status.phase = "Running" /\ status.step = "Waiting" /\ s = status
     \/ /\ label = "finish" /\ status.phase # ""
        /\ s \in {Failed(status, "OTHER"), Failed(status, "OPERATION_TIMEOUT")}

\* The copy is the one just stored.
Recorded(r, label, s) ==
  \/ pc[r] = "queue" /\ status' = Queued /\ label = "preflight" /\ s = Queued
  \/ pc[r] = "queue" /\ status' = Queued /\ label = "finish" /\ s = Failed(Queued, "OTHER")
  \/ pc[r] = "start" /\ status' = Started /\ label = "execute" /\ s = Started

\* The copy is kept.
Passed(r, label) ==
  \/ pc[r] = "preflight" /\ label = "start"
  \/ pc[r] = "replan" /\ label = "execute"
  \/ /\ pc[r] = "observe" /\ label = "replan"
     /\ kind \in Deletes => ~TargetGone /\ ~obj.deleting
     /\ kind \in Applies \cup {"update"} => ~MutationVisible
  \/ /\ pc[r] = "observe" /\ label = "inspect"
     /\ kind \in Applies \cup {"update"} /\ MutationVisible
  \/ pc[r] \in {"observe", "inspect"} /\ label = "verify" /\ kind = "delete-pool"
  \/ pc[r] = "inspect" /\ label = "verify" /\ kind = "apply-pool"
  \/ pc[r] = "finish" /\ label = "audit"

\* A result is awaited or reported: of a change that was made in this very call,
\* that an earlier call has seen, or that a Longhorn volume shows.
Shown(r) ==
  \/ pc[r] \in {"inspect", "verify"}
  \/ pc[r] = "execute" /\ Mutate("ok")
  \/ kind \in Longhorns /\ LonghornReached

Reported(r, label, s) ==
  /\ pc[r] \in Working
  /\ \/ label = "write" /\ s = Awaiting(local[r])
     \/ label = "finish" /\ s = Success(local[r])
  /\ Makes => Shown(r)

\* A call that went wrong is tried again while retries remain, and without a
\* limit in the final wait.
Repeated(r, label, s) ==
  /\ pc[r] \in Calling /\ label = "write"
  /\ \/ /\ local[r].retries < MaxRetries
        /\ \E step \in Steps \ {"Waiting"} : s = Retried(local[r], step)
     \/ local[r].step = "Waiting" /\ s = Retried(local[r], "Waiting")

\* It fails for good: only a plan or an update finds its target stale.
GivenUp(r, label, s) ==
  /\ label = "finish"
  /\ \/ pc[r] \in Calling /\ s = Failed(local[r], "OTHER")
     \/ pc[r] \in {"preflight", "replan"} /\ s = Failed(local[r], "STALE")
     \/ pc[r] = "execute" /\ s = Failed(local[r], "STALE") /\ UNCHANGED <<world, history>>

Hop(r, label, s) ==
  \/ label = "idle" /\ s = Blank
  \/ pc[r] = "idle" /\ Picked(label, s)
  \/ Recorded(r, label, s)
  \/ Passed(r, label) /\ s = local[r]
  \/ Reported(r, label, s)
  \/ Repeated(r, label, s)
  \/ GivenUp(r, label, s)

Hops(r) == \E label \in PCs, s \in Status : Goto(r, label, s) /\ Hop(r, label, s)

LEMMA IdleHops ==
  ASSUME NEW r \in Replica, NEW s, Goto(r, "idle", s)
  PROVE  Hops(r)
<1>1. Blank \in Status /\ "idle" \in PCs
  BY DEF Blank, Status, Phases, Steps, Codes, PCs
<1>2. Goto(r, "idle", Blank)
  BY DEF Goto
<1> QED
  BY <1>1, <1>2 DEF Hops, Hop

LEMMA FailHops ==
  ASSUME TypeInv, NEW r \in Replica, pc[r] \in Calling, Fail(r, "OTHER")
  PROVE  Hops(r)
<1>1. local[r] \in Status /\ "OTHER" \in Codes /\ "finish" \in PCs
  BY DEF TypeInv, PassType, Codes, PCs
<1>2. Failed(local[r], "OTHER") \in Status
  BY <1>1, FailedType
<1> QED
  BY <1>1, <1>2 DEF Fail, Hops, Hop, GivenUp

LEMMA RetryHops ==
  ASSUME TypeInv, NEW r \in Replica, pc[r] \in Calling,
         NEW step \in Steps \ {"Waiting"}, RetryOrFail(r, step)
  PROVE  Hops(r)
<1>1. CASE local[r].retries < MaxRetries /\ Goto(r, "write", Retried(local[r], step))
  <2>1. local[r] \in Status /\ local[r].retries + 1 \in Nat /\ "write" \in PCs
    BY DEF TypeInv, PassType, Status, PCs
  <2>2. Retried(local[r], step) \in Status
    BY <2>1 DEF Retried, Status
  <2>3. Repeated(r, "write", Retried(local[r], step))
    BY <1>1 DEF Repeated
  <2> QED
    BY <1>1, <2>1, <2>2, <2>3 DEF Hops, Hop
<1>2. CASE Fail(r, "OTHER")
  BY <1>2, FailHops
<1> QED
  BY <1>1, <1>2 DEF RetryOrFail, Retried

LEMMA ReportHops ==
  ASSUME TypeInv, NEW r \in Replica, pc[r] \in Working,
         AwaitReconciliation(r) \/ Succeed(r),
         Makes => Shown(r)
  PROVE  Hops(r)
<1>1. local[r] \in Status /\ {"write", "finish"} \subseteq PCs
  BY DEF TypeInv, PassType, PCs
<1>2. Awaiting(local[r]) \in Status /\ Success(local[r]) \in Status
  BY <1>1 DEF Awaiting, Success, Status, Phases, Steps
<1>3. CASE AwaitReconciliation(r)
  <2>1. Goto(r, "write", Awaiting(local[r]))
    BY <1>3 DEF AwaitReconciliation, Awaiting
  <2>2. Reported(r, "write", Awaiting(local[r]))
    BY DEF Reported
  <2> QED
    BY <1>1, <1>2, <2>1, <2>2 DEF Hops, Hop
<1>4. CASE Succeed(r)
  <2>1. Goto(r, "finish", Success(local[r]))
    BY <1>4 DEF Succeed, Success
  <2>2. Reported(r, "finish", Success(local[r]))
    BY DEF Reported
  <2> QED
    BY <1>1, <1>2, <2>1, <2>2 DEF Hops, Hop
<1> QED
  BY <1>3, <1>4

LEMMA PassHops ==
  ASSUME TypeInv, NEW r \in Replica, NEW label \in PCs, Passed(r, label),
         Goto(r, label, local[r])
  PROVE  Hops(r)
<1>1. local[r] \in Status
  BY DEF TypeInv, PassType
<1> QED
  BY <1>1 DEF Hops, Hop

LEMMA ReadErrorHops ==
  ASSUME TypeInv, NEW r \in Replica, pc[r] \in Calling, ReadError(r)
  PROVE  Hops(r)
<1>1. /\ local[r] \in Status /\ local[r].step \in Steps /\ local[r].retries + 1 \in Nat
      /\ "write" \in PCs
  BY DEF TypeInv, PassType, Status, PCs
<1>2. CASE Fail(r, "OTHER")
  BY <1>2, FailHops
<1>3. CASE Recovering(r) /\ RetryOrFail(r, local[r].step)
  BY <1>1, <1>3, RetryHops DEF Recovering
<1>4. CASE ~Recovering(r) /\ Goto(r, "write", [local[r] EXCEPT !.retries = @ + 1])
  <2> DEFINE s == Retried(local[r], "Waiting")
  <2>1. local[r].step = "Waiting"
    BY <1>4 DEF Recovering
  <2>2. s \in Status
    BY <1>1 DEF Retried, Status, Steps
  <2>3. s = [local[r] EXCEPT !.retries = @ + 1]
    BY <1>1, <2>1 DEF Retried, Status
  <2>4. Repeated(r, "write", s)
    BY <2>1 DEF Repeated
  <2>5. Goto(r, "write", s)
    BY <1>4, <2>3
  <2> HIDE DEF s
  <2> QED
    BY <1>1, <2>2, <2>4, <2>5 DEF Hops, Hop
<1> QED
  BY <1>2, <1>3, <1>4 DEF ReadError

LEMMA PendingHops ==
  ASSUME TypeInv, NEW r \in Replica, pc[r] \in {"inspect", "verify"}, StillPending(r)
  PROVE  Hops(r)
  BY ReportHops, IdleHops DEF StillPending, Working, Shown

LEMMA DeletionHops ==
  ASSUME TypeInv, NEW r \in Replica, pc[r] \in {"observe", "inspect"}, kind \in Deletes,
         AfterDeletion(r)
  PROVE  Hops(r)
<1>1. "verify" \in PCs /\ pc[r] \in Working
  BY DEF PCs, Working
<1>2. CASE kind = "delete-pool" /\ Goto(r, "verify", local[r])
  BY <1>1, <1>2, PassHops DEF Passed
<1>3. CASE Succeed(r)
  BY <1>1, <1>3, ReportHops DEF Makes
<1> QED
  BY <1>2, <1>3 DEF AfterDeletion

LEMMA LonghornHops ==
  ASSUME TypeInv, NEW r \in Replica, pc[r] \in {"observe", "inspect"}, kind \in Longhorns,
         LonghornOutcome(r)
  PROVE  Hops(r)
<1>1. pc[r] \in Working /\ pc[r] \in Calling
  BY DEF Working, Calling
<1> QED
  BY <1>1, ReportHops, FailHops DEF LonghornOutcome, Shown

LEMMA FetchHops ==
  ASSUME TypeInv, NEW r \in Replica, Fetch(r)
  PROVE  Hops(r)
<1>1. status \in Status /\ {"queue", "preflight", "observe", "inspect", "finish"} \subseteq PCs
  BY DEF TypeInv, RecordType, PCs
<1>2. Failed(status, "OTHER") \in Status /\ Failed(status, "OPERATION_TIMEOUT") \in Status
  BY <1>1, FailedType DEF Codes
<1>3. \E label \in PCs, s \in Status : Goto(r, label, s) /\ Picked(label, s)
  <2>1. exists /\ status.phase \notin Terminal
    BY DEF Fetch
  <2>2. CASE status.phase = ""
    BY <1>1, <2>1, <2>2 DEF Fetch, Picked
  <2>3. CASE status.phase # "" /\ kind = "unsupported"
    BY <1>1, <1>2, <2>1, <2>3 DEF Fetch, Picked
  <2>4. CASE status.phase = "Pending" /\ kind # "unsupported"
    BY <1>1, <2>1, <2>4 DEF Fetch, Picked
  <2>5. CASE status.phase = "Running" /\ kind # "unsupported" /\ status.step # "Waiting"
    BY <1>1, <2>1, <2>5 DEF Fetch, Picked
  <2>6. CASE status.phase = "Running" /\ kind # "unsupported" /\ status.step = "Waiting"
    <3>1. IF TimedOut(status) THEN Goto(r, "finish", Failed(status, "OPERATION_TIMEOUT"))
                              ELSE Goto(r, "inspect", status)
      BY <2>6 DEF Fetch
    <3>2. CASE TimedOut(status)
      BY <1>1, <1>2, <2>1, <2>6, <3>1, <3>2 DEF Picked
    <3>3. CASE ~TimedOut(status)
      BY <1>1, <2>1, <2>6, <3>1, <3>3 DEF Picked
    <3> QED
      BY <3>2, <3>3
  <2> QED
    BY <1>1, <2>1, <2>2, <2>3, <2>4, <2>5, <2>6 DEF Status, Phases, Terminal
<1> QED
  BY <1>3 DEF Fetch, Hops, Hop

LEMMA QueueHops ==
  ASSUME TypeInv, NEW r \in Replica, Queue(r)
  PROVE  Hops(r)
<1>1. {"preflight", "finish"} \subseteq PCs /\ "OTHER" \in Codes
  BY DEF PCs, Codes
<1>2. Queued \in Status /\ Failed(Queued, "OTHER") \in Status
  BY <1>1, QueuedType, FailedType
<1>3. PICK ok \in BOOLEAN :
        /\ UpdateStatus(r, Queued, ok)
        /\ ok => status' = Queued
        /\ \/ ~ok /\ Goto(r, "idle", Blank)
           \/ ok /\ Goto(r, "finish", Failed(Queued, "OTHER"))
           \/ ok /\ Goto(r, "preflight", Queued)
  BY DEF Queue, UpdateStatus
<1>4. CASE ~ok
  BY <1>3, <1>4, IdleHops
<1>5. CASE ok
  <2>1. /\ Recorded(r, "finish", Failed(Queued, "OTHER"))
        /\ Recorded(r, "preflight", Queued)
    BY <1>3, <1>5 DEF Queue, Recorded
  <2> QED
    BY <1>1, <1>2, <1>3, <1>5, <2>1 DEF Hops, Hop
<1> QED
  BY <1>4, <1>5

LEMMA PreflightHops ==
  ASSUME TypeInv, NEW r \in Replica, Preflight(r)
  PROVE  Hops(r)
<1>1. pc[r] \in {"preflight", "replan"} /\ pc[r] \in Calling
  BY DEF Preflight, Calling
<1>2. CASE Goto(r, IF pc[r] = "preflight" THEN "start" ELSE "execute", local[r])
  <2>1. {"start", "execute"} \subseteq PCs
    BY DEF PCs
  <2>2. Passed(r, IF pc[r] = "preflight" THEN "start" ELSE "execute")
    BY <1>1 DEF Passed
  <2> QED
    BY <1>2, <2>1, <2>2, PassHops
<1>3. CASE Fail(r, "STALE")
  <2>1. local[r] \in Status /\ "STALE" \in Codes /\ "finish" \in PCs
    BY DEF TypeInv, PassType, Codes, PCs
  <2>2. Failed(local[r], "STALE") \in Status
    BY <2>1, FailedType
  <2>3. GivenUp(r, "finish", Failed(local[r], "STALE"))
    BY <1>1 DEF GivenUp
  <2> QED
    BY <1>3, <2>1, <2>2, <2>3 DEF Fail, Hops, Hop
<1>4. CASE RetryOrFail(r, "PreflightRetrying")
  BY <1>1, <1>4, RetryHops DEF Steps
<1> QED
  BY <1>2, <1>3, <1>4 DEF Preflight

LEMMA StartHops ==
  ASSUME TypeInv, NEW r \in Replica, Start(r)
  PROVE  Hops(r)
<1>1. Started \in Status /\ "execute" \in PCs
  BY DEF Started, Blank, Status, Phases, Steps, Codes, PCs
<1>2. PICK ok \in BOOLEAN :
        /\ ok => status' = Started
        /\ Goto(r, IF ok THEN "execute" ELSE "idle", Started)
  BY DEF Start, Started, UpdateStatus
<1>3. CASE ok
  <2>1. Recorded(r, "execute", Started)
    BY <1>2, <1>3 DEF Start, Recorded
  <2> QED
    BY <1>1, <1>2, <1>3, <2>1 DEF Hops, Hop
<1>4. CASE ~ok
  BY <1>2, <1>4, IdleHops
<1> QED
  BY <1>3, <1>4

\* Answers other than ok, whatever became of the request.
LEMMA RefusedHops ==
  ASSUME TypeInv, NEW r \in Replica, pc[r] = "execute",
         NEW answer \in {"retryable", "other"}, Executed(r, answer)
  PROVE  Hops(r)
<1>1. pc[r] \in Calling /\ "Retrying" \in Steps \ {"Waiting"}
  BY DEF Calling, Working, Steps
<1>2. RetryOrFail(r, "Retrying") \/ Fail(r, "OTHER")
  BY DEF Executed
<1> QED
  BY <1>1, <1>2, RetryHops, FailHops

LEMMA ExecuteHops ==
  ASSUME TypeInv, NEW r \in Replica, Execute(r)
  PROVE  Hops(r)
<1>1. pc[r] = "execute" /\ pc[r] \in Working
  BY DEF Execute, Working
<1>2. CASE \E answer \in {"retryable", "other"} : Executed(r, answer)
  BY <1>1, <1>2, RefusedHops
<1>3. CASE Mutate("ok") /\ Executed(r, "ok")
  <2>1. Succeed(r) \/ AwaitReconciliation(r)
    BY <1>3 DEF Executed
  <2> QED
    BY <1>1, <1>3, <2>1, ReportHops DEF Shown
<1>4. CASE Mutate("stale") /\ Executed(r, "stale")
  <2>1. UNCHANGED <<world, history>>
    BY <1>4 DEF Mutate, DeleteTarget, UpdateTarget, ApplyTarget, SendLonghorn
  <2>2. Fail(r, "STALE")
    BY <1>4 DEF Executed
  <2>3. local[r] \in Status /\ "STALE" \in Codes /\ "finish" \in PCs
    BY DEF TypeInv, PassType, Codes, PCs
  <2>4. Failed(local[r], "STALE") \in Status
    BY <2>3, FailedType
  <2>5. GivenUp(r, "finish", Failed(local[r], "STALE"))
    BY <1>1, <2>1 DEF GivenUp
  <2> QED
    BY <2>2, <2>3, <2>4, <2>5 DEF Fail, Hops, Hop
<1> QED
  BY <1>2, <1>3, <1>4 DEF Execute, Answers, CancelledAnswer

LEMMA ObserveHops ==
  ASSUME TypeInv, NEW r \in Replica, Observe(r)
  PROVE  Hops(r)
<1>1. /\ pc[r] = "observe" /\ pc[r] \in Working /\ pc[r] \in Calling
      /\ {"replan", "inspect"} \subseteq PCs
  BY DEF Observe, Working, Calling, PCs
<1>2. CASE ReadError(r)
  BY <1>1, <1>2, ReadErrorHops
<1>3. CASE Observed(r)
  <2>1. CASE kind \in Deletes
    <3>1. CASE AfterDeletion(r)
      BY <1>1, <2>1, <3>1, DeletionHops
    <3>2. CASE AwaitReconciliation(r)
      BY <1>1, <2>1, <3>2, ReportHops DEF Makes
    <3>3. CASE ~TargetGone /\ ~obj.deleting /\ Goto(r, "replan", local[r])
      <4>1. kind \notin Applies \cup {"update"}
        BY <2>1 DEF Deletes, Applies
      <4> QED
        BY <1>1, <3>3, <4>1, PassHops DEF Passed
    <3> QED
      BY <1>3, <2>1, <3>1, <3>2, <3>3 DEF Observed, Deletes, Applies, Longhorns
  <2>2. CASE kind \in Applies \cup {"update"}
    <3>1. kind \notin Deletes /\ Goto(r, IF MutationVisible THEN "inspect" ELSE "replan", local[r])
      BY <1>3, <2>2 DEF Observed, Deletes, Applies, Longhorns
    <3> QED
      BY <1>1, <2>2, <3>1, PassHops DEF Passed
  <2>3. CASE kind \in Longhorns
    <3>1. kind \notin Deletes /\ kind \notin Applies \cup {"update"}
      BY <2>3 DEF Deletes, Applies, Longhorns
    <3>2. CASE LonghornOutcome(r)
      BY <1>1, <2>3, <3>2, LonghornHops
    <3>3. CASE Goto(r, "replan", local[r])
      BY <1>1, <3>1, <3>3, PassHops DEF Passed
    <3> QED
      BY <1>3, <3>1, <3>2, <3>3 DEF Observed
  <2> QED
    BY <1>3, <2>1, <2>2, <2>3 DEF Observed
<1> QED
  BY <1>2, <1>3 DEF Observe

LEMMA InspectHops ==
  ASSUME TypeInv, NEW r \in Replica, Inspect(r)
  PROVE  Hops(r)
<1>1. /\ pc[r] = "inspect" /\ pc[r] \in Working /\ pc[r] \in Calling
      /\ "verify" \in PCs
  BY DEF Inspect, Working, Calling, PCs
<1>2. \/ ReadError(r)
      \/ kind \in Deletes /\ AfterDeletion(r)
      \/ StillPending(r) \/ Fail(r, "OTHER") \/ Succeed(r)
      \/ kind = "apply-pool" /\ Goto(r, "verify", local[r])
      \/ kind \in Longhorns /\ LonghornOutcome(r)
  BY DEF Inspect, Inspected
<1>3. CASE kind = "apply-pool" /\ Goto(r, "verify", local[r])
  BY <1>1, <1>3, PassHops DEF Passed
<1> QED
  BY <1>1, <1>2, <1>3, ReadErrorHops, DeletionHops, PendingHops, FailHops, ReportHops,
     LonghornHops DEF Shown

LEMMA VerifyHops ==
  ASSUME TypeInv, NEW r \in Replica, Verify(r)
  PROVE  Hops(r)
<1>1. pc[r] = "verify" /\ pc[r] \in Working /\ pc[r] \in Calling
  BY DEF Verify, Working, Calling
<1> QED
  BY <1>1, ReadErrorHops, PendingHops, FailHops, ReportHops DEF Verify, Verified, Shown

LEMMA ReconcileHops ==
  ASSUME TypeInv, NEW r \in Replica, Reconcile(r)
  PROVE  Hops(r)
<1>1. CASE Write(r) \/ Audit(r)
  BY <1>1, IdleHops DEF Write, Audit
<1>2. CASE Finish(r)
  <2>1. "audit" \in PCs /\ Passed(r, "audit")
    BY <1>2 DEF PCs, Finish, Passed
  <2> QED
    BY <1>2, <2>1, PassHops DEF Finish
<1> QED
  BY <1>1, <1>2, FetchHops, QueueHops, PreflightHops, StartHops, ExecuteHops, ObserveHops,
     InspectHops, VerifyHops DEF Reconcile

\* What a call may store, and that it must be connected to store it.
Stores(r) ==
  \/ UNCHANGED status
  \/ /\ Connected(r) /\ exists
     /\ \/ pc[r] = "queue" /\ status' = Queued
        \/ pc[r] = "start" /\ status' = Started
        \/ pc[r] \in {"write", "finish"} /\ status' = local[r]

LEMMA ReconcileStores ==
  ASSUME NEW r \in Replica, Reconcile(r)
  PROVE  Stores(r)
<1>1. CASE Queue(r) \/ Start(r) \/ Write(r) \/ Finish(r)
  BY <1>1 DEF Queue, Start, Started, Write, Finish, UpdateStatus, Stores
<1>2. CASE Fetch(r) \/ Preflight(r) \/ Execute(r) \/ Observe(r) \/ Inspect(r)
           \/ Verify(r) \/ Audit(r)
  BY <1>2 DEF Fetch, Preflight, Execute, Observe, Inspect, Verify, Audit, opVars, Stores
<1> QED
  BY <1>1, <1>2 DEF Reconcile

-----------------------------------------------------------------------------
(* Any step, as seen by one replica's copy and by the record *)

\* Time makes a copy older and changes nothing else of it.
Alike(s, t) ==
  s.phase = t.phase /\ s.step = t.step /\ s.retries = t.retries /\ s.code = t.code

CopyStep(q) ==
  \/ pc'[q] = pc[q] /\ Alike(local'[q], local[q])
  \/ pc'[q] = "idle" /\ local'[q] = Blank
  \/ Reconcile(q) /\ Hop(q, pc'[q], local'[q])

RecordStep ==
  \/ Alike(status', status)
  \/ status' = Queued /\ CreatorQueues
  \/ \E r \in Replica : Reconcile(r) /\ Stores(r)

LEMMA GotoCopies ==
  ASSUME TypeInv, NEW r \in Replica, NEW label \in PCs, NEW s \in Status, Goto(r, label, s),
         NEW q \in Replica
  PROVE  IF q = r THEN pc'[q] = label /\ local'[q] = IF label = "idle" THEN Blank ELSE s
                  ELSE pc'[q] = pc[q] /\ local'[q] = local[q]
BY DEF TypeInv, PassType, Goto

LEMMA Moves ==
  ASSUME TypeInv, [Next]_vars
  PROVE  (\A q \in Replica : CopyStep(q)) /\ RecordStep
<1>1. ASSUME NEW r \in Replica, Reconcile(r)
      PROVE  (\A q \in Replica : CopyStep(q)) /\ RecordStep
  <2>1. PICK label \in PCs, s \in Status : Goto(r, label, s) /\ Hop(r, label, s)
    BY <1>1, ReconcileHops DEF Hops
  <2>2. label = "idle" => s = Blank
    BY <2>1 DEF Hop, Picked, Recorded, Passed, Reported, Repeated, GivenUp
  <2>3. ASSUME NEW q \in Replica PROVE CopyStep(q)
    <3>1. CASE q = r
      <4>1. pc'[q] = label /\ local'[q] = s
        BY <2>1, <2>2, <3>1, GotoCopies
      <4> QED
        BY <1>1, <2>1, <3>1, <4>1 DEF CopyStep
    <3>2. CASE q # r
      BY <2>1, <3>2, GotoCopies DEF CopyStep, Alike
    <3> QED
      BY <3>1, <3>2
  <2>4. RecordStep
    BY <1>1, ReconcileStores DEF RecordStep
  <2> QED
    BY <2>3, <2>4
<1>2. UNCHANGED <<pc, local>> => \A q \in Replica : CopyStep(q)
  BY DEF CopyStep, Alike
<1>3. UNCHANGED status => RecordStep
  BY DEF RecordStep, Alike
<1>4. ASSUME NEW r \in Replica, Crash(r)
      PROVE  (\A q \in Replica : CopyStep(q)) /\ RecordStep
  <2>1. Goto(r, "idle", Blank) /\ UNCHANGED status
    BY <1>4 DEF Crash, opVars
  <2>2. "idle" \in PCs /\ Blank \in Status
    BY DEF PCs, Blank, Status, Phases, Steps, Codes
  <2>3. ASSUME NEW q \in Replica PROVE CopyStep(q)
    BY <2>1, <2>2, GotoCopies DEF CopyStep, Alike
  <2> QED
    BY <1>3, <2>1, <2>3
<1>5. ASSUME NEW r \in Replica, Collect(r) \/ Acquire(r) \/ LoseLease(r)
      PROVE  UNCHANGED <<status, pc, local>>
  BY <1>5 DEF Collect, Acquire, LoseLease, opVars
<1>6. CreatorGivesUp \/ Environment \/ UNCHANGED vars => UNCHANGED <<status, pc, local>>
  BY DEF CreatorGivesUp, Environment, vars, opVars
<1>7. CASE CreatorQueues
  BY <1>2, <1>7 DEF CreatorQueues, RecordStep
<1>8. CASE Tick
  <2> DEFINE Age(s) == [s EXCEPT !.aged = s.phase = "Running"]
  <2>1. status \in Status /\ \A q \in Replica : local[q] \in Status
    BY DEF TypeInv, RecordType, PassType
  <2>2. \A s \in Status : Alike(Age(s), s)
    BY DEF Status, Alike
  <2>3. status' = Age(status) /\ local' = [q \in Replica |-> Age(local[q])] /\ pc' = pc
    BY <1>8 DEF Tick
  <2> HIDE DEF Age
  <2>4. Alike(status', status) /\ \A q \in Replica : Alike(local'[q], local[q])
    BY <2>1, <2>2, <2>3
  <2> QED
    BY <2>3, <2>4 DEF CopyStep, RecordStep
<1> QED
  BY <1>1, <1>2, <1>3, <1>4, <1>5, <1>6, <1>7, <1>8 DEF Next

-----------------------------------------------------------------------------
(* Retries are capped *)

Capped(s) == s.step \notin {"Waiting", "Terminal"} => s.retries <= MaxRetries

\* The record is capped because every copy that a replica might still write is.
CappedInv == Capped(status) /\ \A r \in Replica : Capped(local[r])

LEMMA CappedFresh == Capped(Blank) /\ Capped(Queued) /\ Capped(Started)
BY ConstantsAssumption DEF Capped, Blank, Queued, Started

LEMMA CappedHop ==
  ASSUME TypeInv, CappedInv, NEW r \in Replica, NEW label, NEW s, Hop(r, label, s)
  PROVE  Capped(s)
<1>1. local[r] \in Status /\ local[r].retries \in Nat /\ Capped(local[r]) /\ Capped(status)
  BY DEF TypeInv, PassType, Status, CappedInv
<1>2. status \in Status /\ Queued \in Status
  BY QueuedType DEF TypeInv, RecordType
<1>3. \A t \in Status : \A code : Failed(t, code).step = "Terminal"
  BY DEF Failed, Status
<1>4. \A t \in Status : \A code : Capped(Failed(t, code))
  BY <1>3 DEF Capped
<1>5. CASE label = "idle" /\ s = Blank
  BY <1>5, CappedFresh
<1>6. CASE Picked(label, s)
  BY <1>1, <1>2, <1>4, <1>6 DEF Picked
<1>7. CASE Recorded(r, label, s)
  BY <1>2, <1>4, <1>7, CappedFresh DEF Recorded
<1>8. CASE Reported(r, label, s)
  <2>1. Awaiting(local[r]).step = "Waiting" /\ Success(local[r]).step = "Terminal"
    BY <1>1 DEF Awaiting, Success, Status
  <2> QED
    BY <1>8, <2>1 DEF Reported, Capped
<1>9. CASE Repeated(r, label, s)
  <2>1. ASSUME local[r].retries < MaxRetries, NEW step, s = Retried(local[r], step)
        PROVE  Capped(s)
    <3>1. s.retries = local[r].retries + 1
      BY <1>1, <2>1 DEF Retried, Status
    <3> QED
      BY <1>1, <2>1, <3>1, ConstantsAssumption DEF Capped
  <2>2. Capped(Retried(local[r], "Waiting"))
    BY <1>1 DEF Retried, Status, Capped
  <2> QED
    BY <1>9, <2>1, <2>2 DEF Repeated
<1>10. CASE GivenUp(r, label, s)
  BY <1>1, <1>4, <1>10 DEF GivenUp
<1> QED
  BY <1>1, <1>5, <1>6, <1>7, <1>8, <1>9, <1>10 DEF Hop

LEMMA CappedStep ==
  ASSUME TypeInv, CappedInv, [Next]_vars
  PROVE  CappedInv'
<1>1. \A s, t : Alike(s, t) /\ Capped(t) => Capped(s)
  BY DEF Alike, Capped
<1>2. ASSUME NEW q \in Replica PROVE Capped(local'[q])
  <2>1. CopyStep(q)
    BY Moves
  <2> QED
    BY <1>1, <2>1, CappedFresh, CappedHop DEF CopyStep, CappedInv
<1>3. Capped(status')
  <2>1. RecordStep
    BY Moves
  <2> QED
    BY <1>1, <2>1, CappedFresh DEF RecordStep, Stores, CappedInv
<1> QED
  BY <1>2, <1>3 DEF CappedInv, Capped

\* Until the result is awaited no replica, leader or not, ever stores more
\* retries than the code allows, however its reads and writes fail.
THEOREM Retries == Spec => []RetriesCapped
<1>1. Init => TypeInv /\ CappedInv
  <2>1. Init => CappedInv
    BY CappedFresh DEF Init, CappedInv
  <2> QED
    BY <2>1, InitType
<1>2. TypeInv /\ CappedInv /\ [Next]_vars => (TypeInv /\ CappedInv)'
  BY TypeInvStep, CappedStep
<1>3. CappedInv => RetriesCapped
  BY DEF CappedInv, Capped, RetriesCapped
<1> QED
  BY <1>1, <1>2, <1>3, PTL DEF Spec

-----------------------------------------------------------------------------
(* No success without a change *)

\* A copy whose result is awaited or reported: there is work to show for it.
Earned(s) == Makes /\ (s.step = "Waiting" \/ s.phase = "Succeeded") => Work

\* What passes for the operation's work at the target.
Evident ==
  /\ kind \in Applies /\ obj.owned => Work
  /\ kind = "update" /\ obj.uid = 1 /\ obj.state # "idle" => Work
  /\ kind = "longhorn" /\ obj.state # "idle" => Work
  /\ kind = "restore" /\ obj.uid # 0 => Work

Inspecting(r) == Makes /\ pc[r] \in {"inspect", "verify"} => Work

\* The record is earned because every copy is, because the wait begins only with
\* the answer to the change or with a target that shows it.
EarnedInv ==
  /\ Earned(status) /\ Evident
  /\ \A r \in Replica : Earned(local[r]) /\ Inspecting(r)

\* Work done is never undone.
LEMMA WorkKept ==
  ASSUME touched \subseteq touched', meddling \subseteq meddling', sends > 0 => sends' > 0,
         Work
  PROVE  Work'
BY DEF Work

LEMMA MutateEvident ==
  ASSUME WorldType, HistoryType, Evident, NEW answer, Mutate(answer), kind' = kind,
         meddling' = meddling
  PROVE  /\ Evident' /\ (Work => Work')
         /\ Makes /\ answer = "ok" => Work'
<1>1. obj \in Objects /\ rev \in Nat /\ sends \in Nat
  BY DEF WorldType, HistoryType
<1>2. UNCHANGED <<world, history>> => Evident' /\ (Work => Work')
  BY DEF world, history, Evident, Work
<1>3. CASE kind \in Deletes /\ DeleteTarget(answer)
  <2>1. kind \notin Applies \cup {"update", "longhorn", "restore"} /\ ~Makes
    BY <1>3 DEF Deletes, Applies, Makes
  <2>2. touched \subseteq touched' /\ sends' = sends
    BY <1>3 DEF DeleteTarget, history
  <2> QED
    BY <2>1, <2>2, WorkKept DEF Evident
<1>4. CASE kind = "update" /\ UpdateTarget(answer)
  <2>1. CASE UNCHANGED <<world, history>> /\ answer # "ok"
    BY <1>2, <2>1
  <2>2. CASE touched' = touched \cup {<<obj.uid, obj.rv>>}
    <3>1. Work'
      BY <2>2 DEF Work
    <3> QED
      BY <3>1 DEF Evident
  <2> QED
    BY <1>4, <2>1, <2>2 DEF UpdateTarget
<1>5. CASE kind \in Applies /\ ApplyTarget(answer)
  <2>1. CASE UNCHANGED <<world, history>> /\ (answer = "ok" => obj.owned)
    BY <1>2, <1>5, <2>1 DEF Evident
  <2>2. CASE touched' = touched \cup {<<obj'.uid, obj.rv>>}
    <3>1. Work'
      BY <2>2 DEF Work
    <3> QED
      BY <3>1 DEF Evident
  <2> QED
    BY <1>5, <2>1, <2>2 DEF ApplyTarget
<1>6. CASE kind \in Longhorns /\ SendLonghorn(answer)
  <2>1. CASE UNCHANGED <<world, history>> /\ answer # "ok"
    BY <1>2, <2>1
  <2>2. CASE Sent
    <3>1. Work'
      BY <1>1, <2>2 DEF Sent, Work
    <3> QED
      BY <3>1 DEF Evident
  <2> QED
    BY <1>6, <2>1, <2>2 DEF SendLonghorn
<1> QED
  BY <1>3, <1>4, <1>5, <1>6 DEF Mutate

LEMMA EnvironmentEvident ==
  ASSUME WorldType, HistoryType, rev >= 1, Evident, Environment
  PROVE  Evident' /\ (Work => Work')
<1>1. obj \in Objects /\ rev \in Nat /\ rev + 1 # 1 /\ sends \in Nat
  BY DEF WorldType, HistoryType
<1>2. UNCHANGED <<kind, touched, sends>>
  BY DEF Environment, history
<1>3. meddling \subseteq meddling'
  BY DEF Environment, EditTarget, HelpTarget, UnlabelTarget, CreateTarget, FinalizeTarget,
         ProgressTarget, ReconcilePool
<1>4. Work => Work'
  BY <1>2, <1>3, WorkKept
<1>5. "helped" \in meddling' => Evident'
  BY DEF Evident, Work
<1>6. obj' = Absent => Evident'
  BY DEF Absent, Evident
<1>7. /\ obj'.uid = obj.uid /\ (obj'.owned => obj.owned)
      /\ (obj'.state # "idle" => obj.state # "idle")
      => Evident'
  BY <1>2, <1>4 DEF Evident
<1>8. CASE EditTarget
  <2>1. CASE obj' \in {[obj EXCEPT !.rv = rev + 1], [obj EXCEPT !.rv = rev + 1, !.deleting = TRUE]}
    <3>1. obj'.owned = obj.owned /\ obj'.uid = obj.uid /\ obj'.state = obj.state
      BY <1>1, <2>1 DEF Objects
    <3> QED
      BY <1>4, <1>7, <3>1
  <2> QED
    BY <1>4, <1>6, <1>8, <2>1 DEF EditTarget
<1>9. CASE HelpTarget
  BY <1>4, <1>5, <1>9 DEF HelpTarget
<1>10. CASE UnlabelTarget
  <2>1. ~obj'.owned /\ obj'.uid = obj.uid /\ obj'.state = obj.state
    BY <1>1, <1>10 DEF UnlabelTarget, Objects
  <2> QED
    BY <1>4, <1>7, <2>1
<1>11. CASE CreateTarget
  <2>1. CASE "helped" \in meddling'
    BY <1>4, <1>5, <2>1
  <2>2. CASE "helped" \notin meddling'
    <3>1. PICK s \in {"idle", "ready"}, label \in BOOLEAN :
            /\ obj' = [Absent EXCEPT !.uid = rev + 1, !.rv = rev + 1, !.state = s, !.owned = label]
            /\ meddling' = IF label \/ kind = "restore" \/ (kind = "longhorn" /\ s = "ready")
                           THEN meddling \cup {"helped"} ELSE meddling
      BY <1>11 DEF CreateTarget
    <3>2. ~label /\ kind # "restore" /\ (kind = "longhorn" => s = "idle")
      BY <2>2, <3>1
    <3>3. obj'.uid # 1 /\ obj'.owned = label /\ obj'.state = s
      BY <1>1, <3>1 DEF Absent
    <3> QED
      BY <1>2, <1>4, <3>2, <3>3 DEF Evident
  <2> QED
    BY <2>1, <2>2
<1>12. CASE FinalizeTarget
  BY <1>4, <1>6, <1>12 DEF FinalizeTarget
<1>13. CASE ProgressTarget
  <2>1. CASE sends > 0
    BY <1>2, <1>4, <2>1 DEF Evident, Work
  <2>2. CASE ~(sends > 0)
    <3>1. /\ obj.state = "waiting" \/ kind \in Applies
          /\ \E s \in {"ready", "lost"} : obj' = [obj EXCEPT !.state = s, !.rv = rev + 1]
      BY <1>13, <2>2 DEF ProgressTarget
    <3>2. obj'.owned = obj.owned /\ obj'.uid = obj.uid
      BY <1>1, <3>1 DEF Objects
    <3>3. CASE obj.state = "waiting"
      BY <1>4, <1>7, <3>2, <3>3
    <3>4. CASE kind \in Applies
      BY <1>2, <1>4, <3>2, <3>4 DEF Evident, Applies
    <3> QED
      BY <3>1, <3>3, <3>4
  <2> QED
    BY <2>1, <2>2
<1>14. CASE ReconcilePool
  BY <1>4, <1>7, <1>14 DEF ReconcilePool
<1> QED
  BY <1>8, <1>9, <1>10, <1>11, <1>12, <1>13, <1>14 DEF Environment

\* What any step does to the evidence at the target.
LEMMA EvidentStep ==
  ASSUME TypeInv, rev >= 1, Evident, [Next]_vars
  PROVE  Evident' /\ (Work => Work') /\ kind' = kind
<1>1. WorldType /\ HistoryType
  BY DEF TypeInv
<1>2. ASSUME NEW r \in Replica, Execute(r)
      PROVE  Evident' /\ (Work => Work') /\ kind' = kind
  <2>1. kind' = kind /\ meddling' = meddling
    BY <1>2 DEF Execute
  <2>2. CASE \E answer \in Answers : Mutate(answer)
    BY <1>1, <2>1, <2>2, MutateEvident
  <2>3. CASE UNCHANGED <<world, history>>
    BY <2>1, <2>3 DEF world, history, Evident, Work
  <2> QED
    BY <1>2, <2>2, <2>3 DEF Execute, Answers
<1>3. ASSUME NEW r \in Replica, Reconcile(r), ~Execute(r)
      PROVE  UNCHANGED <<kind, world, history>>
  BY <1>3 DEF Reconcile, Fetch, Queue, Preflight, Start, Observe, Inspect, Verify,
              Write, Finish, Audit
<1>4. ASSUME NEW r \in Replica,
             Collect(r) \/ Acquire(r) \/ LoseLease(r) \/ Crash(r)
      PROVE  UNCHANGED <<kind, world, history>>
  BY <1>4 DEF Collect, Acquire, LoseLease, Crash
<1>5. CreatorQueues \/ CreatorGivesUp \/ Tick \/ UNCHANGED vars
        => UNCHANGED <<kind, world, history>>
  BY DEF CreatorQueues, CreatorGivesUp, Tick, vars
<1>6. UNCHANGED <<kind, world, history>>
        => Evident' /\ (Work => Work') /\ kind' = kind
  BY DEF world, history, Evident, Work
<1>7. CASE Environment
  <2>1. Evident' /\ (Work => Work')
    BY <1>1, <1>7, EnvironmentEvident
  <2> QED
    BY <1>7, <2>1 DEF Environment, history
<1> QED
  BY <1>2, <1>3, <1>4, <1>5, <1>6, <1>7 DEF Next

LEMMA EarnedHop ==
  ASSUME TypeInv, EarnedInv, NEW r \in Replica, NEW label, NEW s, Hop(r, label, s),
         Work => Work', kind' = kind, pc[r] = "execute" => meddling' = meddling
  PROVE  /\ Makes /\ (s.step = "Waiting" \/ s.phase = "Succeeded") => Work'
         /\ Makes /\ label \in {"inspect", "verify"} => Work'
<1> USE DEF Earned
<1>1. /\ local[r] \in Status /\ Earned(local[r]) /\ Earned(status) /\ Inspecting(r) /\ Evident
      /\ status \in Status /\ WorldType /\ HistoryType
  BY DEF TypeInv, PassType, RecordType, EarnedInv
<1>2. \A t \in Status : \A code : Failed(t, code).step = "Terminal" /\ Failed(t, code).phase = "Failed"
  BY DEF Failed, Status
<1>3. /\ Queued.step = "Queued" /\ Queued.phase = "Pending"
      /\ Started.step = "PreflightComplete" /\ Started.phase = "Running"
      /\ Blank.step = "" /\ Blank.phase = ""
  BY DEF Queued, Started, Blank
<1>4. CASE label = "idle" /\ s = Blank
  BY <1>3, <1>4
<1>5. CASE Picked(label, s)
  BY <1>1, <1>2, <1>5 DEF Picked
<1>6. CASE Recorded(r, label, s)
  BY <1>2, <1>3, <1>6, QueuedType DEF Recorded
<1>7. CASE Passed(r, label) /\ s = local[r]
  <2>1. Makes /\ label \in {"inspect", "verify"} => Work
    BY <1>1, <1>7 DEF Passed, Inspecting, Evident, MutationVisible, Makes, Deletes, Approved,
                      Applies
  <2> QED
    BY <1>1, <1>7, <2>1
<1>8. CASE Reported(r, label, s)
  <2>1. kind \in Longhorns /\ LonghornReached => Work
    BY <1>1 DEF LonghornReached, Longhorns, Evident
  <2>2. pc[r] = "execute" /\ Mutate("ok") /\ Makes => Work'
    BY <1>1, MutateEvident
  <2>3. Makes => Work'
    BY <1>1, <1>8, <2>1, <2>2 DEF Reported, Shown, Inspecting
  <2>4. label \notin {"inspect", "verify"}
    BY <1>8 DEF Reported
  <2> QED
    BY <2>3, <2>4
<1>9. CASE Repeated(r, label, s)
  <2>1. \A step : Retried(local[r], step).step = step /\ Retried(local[r], step).phase = local[r].phase
    BY <1>1 DEF Retried, Status
  <2>2. label = "write"
    BY <1>9 DEF Repeated
  <2> QED
    BY <1>1, <1>9, <2>1, <2>2 DEF Repeated
<1>10. CASE GivenUp(r, label, s)
  BY <1>1, <1>2, <1>10 DEF GivenUp
<1> QED
  BY <1>4, <1>5, <1>6, <1>7, <1>8, <1>9, <1>10 DEF Hop

LEMMA EarnedStep ==
  ASSUME TypeInv, rev >= 1, EarnedInv, [Next]_vars
  PROVE  EarnedInv'
<1>1. Evident' /\ (Work => Work') /\ kind' = kind
  BY EvidentStep DEF EarnedInv
<1>2. ASSUME NEW q \in Replica PROVE (Earned(local[q]) /\ Inspecting(q))'
  <2>1. CopyStep(q) /\ Earned(local[q]) /\ Inspecting(q)
    BY Moves DEF EarnedInv
  <2>2. CASE pc'[q] = pc[q] /\ Alike(local'[q], local[q])
    BY <1>1, <2>1, <2>2 DEF Alike, Earned, Inspecting, Makes
  <2>3. CASE pc'[q] = "idle" /\ local'[q] = Blank
    <3>1. Blank.step = "" /\ Blank.phase = ""
      BY DEF Blank
    <3>2. local'[q].step = "" /\ local'[q].phase = ""
      BY <2>3, <3>1
    <3> QED
      BY <2>3, <3>2 DEF Earned, Inspecting
  <2>4. CASE Reconcile(q) /\ Hop(q, pc'[q], local'[q])
    <3>1. pc[q] = "execute" => meddling' = meddling
      BY <2>4 DEF Reconcile, Fetch, Queue, Preflight, Start, Execute, Observe, Inspect,
                  Verify, Write, Finish, Audit
    <3> QED
      BY <1>1, <2>4, <3>1, EarnedHop DEF Earned, Inspecting, Makes
  <2> QED
    BY <2>1, <2>2, <2>3, <2>4 DEF CopyStep
<1>3. Earned(status)'
  <2>1. RecordStep /\ Earned(status) /\ \A r \in Replica : Earned(local[r])
    BY Moves DEF EarnedInv
  <2>2. CASE Alike(status', status)
    BY <1>1, <2>1, <2>2 DEF Alike, Earned, Makes
  <2>3. CASE status' \in {Queued, Started}
    BY <2>3 DEF Queued, Started, Blank, Earned
  <2>4. CASE \E r \in Replica : status' = local[r]
    BY <1>1, <2>1, <2>4 DEF Earned, Makes
  <2>5. CASE UNCHANGED status
    BY <1>1, <2>1, <2>5 DEF Earned, Makes
  <2> QED
    BY <2>1, <2>2, <2>3, <2>4, <2>5 DEF RecordStep, Stores
<1> QED
  BY <1>1, <1>2, <1>3 DEF EarnedInv

LEMMA RevGrows ==
  ASSUME TypeInv, rev >= 1, [Next]_vars
  PROVE  rev' >= 1
<1>1. WorldStep
  BY NextWorld
<1> QED
  BY <1>1 DEF WorldStep, TypeInv, WorldType

\* What is no removal is reported as succeeded only when it was made, changed or sent,
\* or when somebody else did what the code takes for it, however the target came to
\* look right and whoever's write landed.
THEOREM NoPhantom == Spec => []NoPhantomSuccess
<1>1. Init => TypeInv /\ rev >= 1 /\ EarnedInv
  <2> SUFFICES ASSUME Init PROVE TypeInv /\ rev >= 1 /\ EarnedInv
    OBVIOUS
  <2>1. TypeInv
    BY InitType
  <2>2. rev >= 1 /\ Evident
    BY DEF Init, Evident, Absent, Approved, Applies
  <2>3. Earned(status) /\ \A r \in Replica : Earned(local[r]) /\ Inspecting(r)
    BY DEF Init, Blank, Earned, Inspecting
  <2> QED
    BY <2>1, <2>2, <2>3 DEF EarnedInv
<1>2. TypeInv /\ rev >= 1 /\ EarnedInv /\ [Next]_vars => (TypeInv /\ rev >= 1 /\ EarnedInv)'
  BY TypeInvStep, EarnedStep, RevGrows
<1>3. EarnedInv => NoPhantomSuccess
  BY DEF EarnedInv, Earned, Makes, Work, NoPhantomSuccess
<1> QED
  BY <1>1, <1>2, <1>3, PTL DEF Spec

-----------------------------------------------------------------------------
(* From here on: one leader at a time, and a creator whose write lands       *)
(* before the execution starts, which is what the lease and the order of     *)
(* Store.Create are there for.                                               *)

-----------------------------------------------------------------------------
(* One leader, and where it stands with the record *)

\* The lease names the leader, and whoever campaigns has no pass under way.
Elected ==
  \A r \in Replica : /\ role[r] = "leading" <=> lease = r
                     /\ role[r] = "candidate" => pc[r] = "idle"

\* The phase of the record, p, and of the copy, l, at each call of the leader.
Fit(label, p, l) ==
  /\ label = "queue" => p \in {"", "Pending"}
  /\ label \in {"preflight", "start"} => p = "Pending" /\ l = "Pending"
  /\ label \in Working \cup {"replan"} => p = "Running" /\ l = "Running"
  /\ label = "write" => p \in {"Pending", "Running"} /\ l = p
  /\ label = "finish" => p \in {"Pending", "Running"} /\ (l = "Succeeded" => p = "Running")

Fits == \A r \in Replica : Connected(r) => Fit(pc[r], status.phase, local[r].phase)

\* Nothing was changed before the record says Running.
Untouched == status.phase \in {"", "Pending"} => touched = {} /\ sends = 0

\* A collected operation is at rest.
Settled == ~exists => status.phase \in Terminal /\ \A r \in Replica : pc[r] = "idle"

LeaderInv == TypeInv /\ Elected /\ Fits /\ Untouched /\ Settled

LEMMA Sole ==
  ASSUME Elected, NEW r \in Replica, NEW q \in Replica, Connected(r), Connected(q)
  PROVE  q = r
BY DEF Elected, Connected

\* Who makes a step: a pass of a replica that is not a candidate, or the election.
LEMMA ReconcileElection ==
  ASSUME Elected, NEW r \in Replica, Reconcile(r)
  PROVE  /\ UNCHANGED <<lease, role, exists, kind>> /\ role[r] # "candidate"
         /\ pc[r] = "idle" => exists
<1>1. UNCHANGED <<lease, role, exists, kind>>
  BY DEF Reconcile, Fetch, Queue, Preflight, Start, Execute, Observe, Inspect, Verify,
         Write, Finish, Audit, election, opVars
<1>2. pc[r] = "idle" => Connected(r) /\ exists
  BY DEF Reconcile, Fetch, Queue, Preflight, Start, Execute, Observe, Inspect, Verify,
         Write, Finish, Audit
<1> QED
  BY <1>1, <1>2 DEF Elected, Connected

LEMMA ElectedStep ==
  ASSUME ExclusiveLease, TypeInv, Elected, [Next]_vars
  PROVE  Elected'
<1>1. /\ role \in [Replica -> {"candidate", "leading", "retired"}]
      /\ lease \in Replica \cup {NoReplica} /\ NoReplica \notin Replica
      /\ pc \in [Replica -> PCs] /\ "idle" \in PCs
  BY ConstantsAssumption DEF TypeInv, ElectionType, PassType, PCs
<1>2. ASSUME NEW r \in Replica, Reconcile(r)
      PROVE  Elected'
  <2>1. UNCHANGED <<lease, role>> /\ role[r] # "candidate"
    BY <1>2, ReconcileElection
  <2>2. \A q \in Replica : q # r => pc'[q] = pc[q]
    BY <1>2, ReconcileHops, GotoCopies DEF Hops
  <2> QED
    BY <2>1, <2>2 DEF Elected
<1>3. ASSUME NEW r \in Replica, Acquire(r)
      PROVE  Elected'
  BY <1>1, <1>3 DEF Acquire, Elected
<1>4. ASSUME NEW r \in Replica, LoseLease(r)
      PROVE  Elected'
  BY <1>1, <1>4 DEF LoseLease, Connected, Elected
<1>5. ASSUME NEW r \in Replica, Crash(r)
      PROVE  Elected'
  BY <1>1, <1>5 DEF Crash, Goto, Elected
<1>6. UNCHANGED <<lease, role, pc>> => Elected'
  BY DEF Elected
<1>7. ASSUME NEW r \in Replica, Collect(r)
      PROVE  UNCHANGED <<lease, role, pc>>
  BY <1>7 DEF Collect, election
<1>8. CreatorQueues \/ CreatorGivesUp \/ Environment \/ Tick \/ UNCHANGED vars
        => UNCHANGED <<lease, role, pc>>
  BY DEF CreatorQueues, CreatorGivesUp, Environment, Tick, vars, election
<1> QED
  BY <1>2, <1>3, <1>4, <1>5, <1>6, <1>7, <1>8 DEF Next

\* A replica becomes connected only with nothing under way.
LEMMA Connects ==
  ASSUME TypeInv, Elected, [Next]_vars, NEW q \in Replica, Connected(q)', ~Connected(q)
  PROVE  pc[q] = "idle" /\ pc'[q] = "idle"
<1>1. role \in [Replica -> {"candidate", "leading", "retired"}]
  BY DEF TypeInv, ElectionType
<1>2. ASSUME NEW r \in Replica, Reconcile(r) \/ Collect(r)
      PROVE  UNCHANGED role
  BY <1>2, ReconcileElection DEF Collect, election
<1>3. CreatorQueues \/ CreatorGivesUp \/ Environment \/ Tick \/ UNCHANGED vars
        => UNCHANGED role
  BY DEF CreatorQueues, CreatorGivesUp, Environment, Tick, vars, election
<1>4. ASSUME NEW r \in Replica, LoseLease(r) \/ Crash(r)
      PROVE  ~(Connected(q)' /\ ~Connected(q))
  BY <1>1, <1>4 DEF LoseLease, Crash, Connected
<1>5. ASSUME NEW r \in Replica, Acquire(r), Connected(q)', ~Connected(q)
      PROVE  r = q /\ role[q] = "candidate" /\ UNCHANGED pc
  BY <1>1, <1>5 DEF Acquire, Connected
<1> QED
  BY <1>2, <1>3, <1>4, <1>5 DEF Next, Connected, Elected

\* A copy may change hands only in a pass of its own replica; the record is
\* written by the connected one, which is the same.
LEMMA FitHop ==
  ASSUME LeaderInv, NEW r \in Replica, Connected(r), NEW label, NEW s,
         Hop(r, label, s), Stores(r)
  PROVE  Fit(label, status'.phase, s.phase)
<1>1. /\ local[r] \in Status /\ status \in Status /\ Queued \in Status
      /\ Fit(pc[r], status.phase, local[r].phase)
  BY QueuedType DEF LeaderInv, TypeInv, PassType, RecordType, Fits
<1>2. \A t \in Status : \A code : Failed(t, code).phase = "Failed"
  BY DEF Failed, Status
<1>3. Queued.phase = "Pending" /\ Started.phase = "Running"
  BY DEF Queued, Started, Blank
<1>4. CASE label = "idle"
  BY <1>4 DEF Fit, Working
<1>5. CASE pc[r] = "idle" /\ Picked(label, s)
  <2>1. UNCHANGED status
    BY <1>5 DEF Stores
  <2>2. status.phase \in {"", "Pending", "Running"}
    BY <1>1, <1>5 DEF Picked, Status, Phases, Terminal
  <2> QED
    BY <1>1, <1>2, <1>5, <2>1, <2>2 DEF Picked, Fit, Working
<1>6. CASE Recorded(r, label, s)
  BY <1>1, <1>2, <1>3, <1>6 DEF Recorded, Fit, Working
<1>7. CASE Passed(r, label) /\ s = local[r]
  <2>1. CASE pc[r] = "finish"
    BY <1>7, <2>1 DEF Passed, Fit, Working
  <2>2. CASE pc[r] # "finish"
    <3>1. UNCHANGED status
      BY <1>7, <2>2 DEF Passed, Stores
    <3> QED
      BY <1>1, <1>7, <2>2, <3>1 DEF Passed, Fit, Working
  <2> QED
    BY <2>1, <2>2
<1>8. CASE Reported(r, label, s)
  <2>1. UNCHANGED status /\ status.phase = "Running" /\ local[r].phase = "Running"
    BY <1>1, <1>8 DEF Reported, Working, Stores, Fit
  <2>2. Awaiting(local[r]).phase = local[r].phase
    BY <1>1 DEF Awaiting, Status
  <2> QED
    BY <1>8, <2>1, <2>2 DEF Reported, Fit, Working
<1>9. CASE Repeated(r, label, s)
  <2>1. /\ UNCHANGED status /\ status.phase \in {"Pending", "Running"}
        /\ local[r].phase = status.phase
    BY <1>1, <1>9 DEF Repeated, Calling, Working, Stores, Fit
  <2>2. \A step : Retried(local[r], step).phase = local[r].phase
    BY <1>1 DEF Retried, Status
  <2> QED
    BY <1>9, <2>1, <2>2 DEF Repeated, Fit, Working
<1>10. CASE GivenUp(r, label, s)
  <2>1. UNCHANGED status /\ status.phase \in {"Pending", "Running"}
    BY <1>1, <1>10 DEF GivenUp, Calling, Working, Stores, Fit
  <2> QED
    BY <1>1, <1>2, <1>10, <2>1 DEF GivenUp, Fit, Working
<1> QED
  BY <1>4, <1>5, <1>6, <1>7, <1>8, <1>9, <1>10 DEF Hop

\* Steps of the record that no replica makes.
LEMMA RecordMoves ==
  ASSUME TypeInv, Elected, [Next]_vars
  PROVE  \/ status'.phase = status.phase
         \/ CreatorQueues
         \/ \E r \in Replica : Reconcile(r) /\ Stores(r) /\ Connected(r) /\ exists
<1>1. RecordStep
  BY Moves
<1> QED
  BY <1>1 DEF RecordStep, Alike, Stores

LEMMA FitsStep ==
  ASSUME ExclusiveLease, PromptQueue, LeaderInv, [Next]_vars
  PROVE  Fits'
<1> SUFFICES ASSUME NEW q \in Replica, Connected(q)'
             PROVE  Fit(pc'[q], status'.phase, local'[q].phase)
  BY DEF Fits
<1>1. TypeInv /\ Elected
  BY DEF LeaderInv
<1>2. CASE ~Connected(q)
  BY <1>1, <1>2, Connects DEF Fit, Working
<1>3. CASE Connected(q) /\ Reconcile(q)
  <2>1. PICK label \in PCs, s \in Status : Goto(q, label, s) /\ Hop(q, label, s)
    BY <1>1, <1>3, ReconcileHops DEF Hops
  <2>2. Fit(label, status'.phase, s.phase)
    BY <1>3, <2>1, FitHop, ReconcileStores
  <2>3. pc'[q] = label /\ local'[q] = IF label = "idle" THEN Blank ELSE s
    BY <1>1, <2>1, GotoCopies
  <2>4. CASE label = "idle"
    BY <2>3, <2>4 DEF Fit, Working
  <2>5. CASE label # "idle"
    BY <2>2, <2>3, <2>5
  <2> QED
    BY <2>4, <2>5
<1>4. CASE Connected(q) /\ ~Reconcile(q)
  <2>1. Fit(pc[q], status.phase, local[q].phase)
    BY <1>4 DEF LeaderInv, Fits
  <2>2. \/ pc'[q] = "idle"
        \/ pc'[q] = pc[q] /\ local'[q].phase = local[q].phase
    BY <1>1, <1>4, Moves DEF CopyStep, Alike
  <2>3. status'.phase = status.phase \/ CreatorQueues
    BY <1>1, <1>4, Sole, RecordMoves
  <2>4. CASE pc'[q] = "idle"
    BY <2>4 DEF Fit, Working
  <2>5. CASE /\ pc'[q] = pc[q] /\ local'[q].phase = local[q].phase
             /\ status'.phase = status.phase
    BY <2>1, <2>5
  <2>6. CASE pc'[q] = pc[q] /\ local'[q].phase = local[q].phase /\ CreatorQueues
    <3>1. status.phase \in {"", "Pending"} /\ status'.phase = "Pending"
      BY <2>6 DEF CreatorQueues, Queued, Blank
    <3> QED
      BY <2>1, <2>6, <3>1 DEF Fit
  <2> QED
    BY <2>2, <2>3, <2>4, <2>5, <2>6
<1> QED
  BY <1>2, <1>3, <1>4

\* The target and the history change only by an execution of the leader, and the
\* target otherwise by its own doing.
Executing == \E r \in Replica :
  Execute(r) /\ Connected(r) /\ \E answer \in Answers : Mutate(answer)

LEMMA WorldSteps ==
  ASSUME [Next]_vars
  PROVE  UNCHANGED <<kind, world, history>> \/ Environment \/ Executing
<1>1. ASSUME NEW r \in Replica, Execute(r)
      PROVE  UNCHANGED <<kind, world, history>> \/ Executing
  BY <1>1 DEF Execute, Executing, Answers
<1>2. ASSUME NEW r \in Replica, Reconcile(r), ~Execute(r)
      PROVE  UNCHANGED <<kind, world, history>>
  BY <1>2 DEF Reconcile, Fetch, Queue, Preflight, Start, Observe, Inspect, Verify,
              Write, Finish, Audit
<1>3. ASSUME NEW r \in Replica,
             Collect(r) \/ Acquire(r) \/ LoseLease(r) \/ Crash(r)
      PROVE  UNCHANGED <<kind, world, history>>
  BY <1>3 DEF Collect, Acquire, LoseLease, Crash
<1>4. CreatorQueues \/ CreatorGivesUp \/ Tick \/ UNCHANGED vars
        => UNCHANGED <<kind, world, history>>
  BY DEF CreatorQueues, CreatorGivesUp, Tick, vars
<1> QED
  BY <1>1, <1>2, <1>3, <1>4 DEF Next

LEMMA ExecutingRuns ==
  ASSUME LeaderInv, Executing
  PROVE  /\ status.phase = "Running" /\ UNCHANGED opVars /\ kind' = kind
         /\ \E r \in Replica : Connected(r) /\ pc[r] = "execute" /\ Execute(r)
<1>1. PICK r \in Replica : Execute(r) /\ Connected(r)
  BY DEF Executing
<1>2. pc[r] = "execute" /\ UNCHANGED opVars /\ kind' = kind
  BY <1>1 DEF Execute
<1>3. status.phase = "Running"
  BY <1>1, <1>2 DEF LeaderInv, Fits, Fit, Working
<1> QED
  BY <1>1, <1>2, <1>3

LEMMA UntouchedStep ==
  ASSUME ExclusiveLease, PromptQueue, LeaderInv, [Next]_vars
  PROVE  Untouched'
<1> SUFFICES ASSUME status'.phase \in {"", "Pending"}
             PROVE  touched' = {} /\ sends' = 0
  BY DEF Untouched
<1>1. TypeInv /\ Elected
  BY DEF LeaderInv
<1>2. status.phase \in {"", "Pending"}
  <2>1. CASE CreatorQueues
    BY <2>1 DEF CreatorQueues
  <2>2. ASSUME NEW r \in Replica, Stores(r), Connected(r)
        PROVE  status.phase \in {"", "Pending"}
    <3>1. Fit(pc[r], status.phase, local[r].phase)
      BY <2>2 DEF LeaderInv, Fits
    <3>2. pc[r] = "finish" => local[r].phase \in Terminal
      BY <1>1 DEF TypeInv, PassType
    <3> QED
      BY <2>2, <3>1, <3>2 DEF Stores, Fit, Started, Blank, Terminal
  <2> QED
    BY <1>1, <2>1, <2>2, RecordMoves
<1>3. ~Executing
  BY <1>2, ExecutingRuns
<1>4. UNCHANGED <<touched, sends>>
  BY <1>3, WorldSteps DEF history, Environment
<1> QED
  BY <1>2, <1>4 DEF LeaderInv, Untouched

\* Who collects the record, and what is left to do then.
LEMMA Collects ==
  ASSUME Elected, [Next]_vars
  PROVE  \/ exists' = exists
         \/ /\ exists /\ ~exists' /\ status' = status /\ status.phase \in Terminal
            /\ UNCHANGED <<pc, history, kind>> /\ \A r \in Replica : pc[r] = "idle"
<1>1. ASSUME NEW r \in Replica, Reconcile(r)
      PROVE  exists' = exists
  BY <1>1, ReconcileElection
<1>2. ASSUME NEW r \in Replica, Acquire(r) \/ LoseLease(r) \/ Crash(r)
      PROVE  exists' = exists
  BY <1>2 DEF Acquire, LoseLease, Crash, opVars
<1>3. CreatorQueues \/ CreatorGivesUp \/ Environment \/ Tick \/ UNCHANGED vars
        => exists' = exists
  BY DEF CreatorQueues, CreatorGivesUp, Environment, Tick, vars, opVars
<1>4. ASSUME NEW r \in Replica, Collect(r)
      PROVE  /\ exists /\ ~exists' /\ status' = status /\ status.phase \in Terminal
             /\ UNCHANGED <<pc, history, kind>> /\ \A q \in Replica : pc[q] = "idle"
  BY <1>4 DEF Collect
<1> QED
  BY <1>1, <1>2, <1>3, <1>4 DEF Next

LEMMA SettledStep ==
  ASSUME LeaderInv, [Next]_vars
  PROVE  Settled'
<1>1. TypeInv /\ Elected
  BY DEF LeaderInv
<1>2. CASE exists' # exists
  BY <1>1, <1>2, Collects DEF Settled
<1>3. CASE exists' = exists /\ ~exists
  <2>1. status.phase \in Terminal /\ \A r \in Replica : pc[r] = "idle"
    BY <1>3 DEF LeaderInv, Settled
  <2>2. \A r \in Replica : ~Reconcile(r)
    BY <1>1, <1>3, <2>1, ReconcileElection
  <2>3. status'.phase = status.phase
    BY <1>1, <1>3, <2>2, RecordMoves DEF CreatorQueues
  <2>4. \A r \in Replica : pc'[r] = "idle"
    BY <1>1, <2>1, <2>2, Moves DEF CopyStep
  <2> QED
    BY <2>1, <2>3, <2>4 DEF Settled
<1>4. CASE exists' = exists /\ exists
  BY <1>4 DEF Settled
<1> QED
  BY <1>2, <1>3, <1>4

LEMMA LeaderInit == ASSUME Init PROVE LeaderInv
<1>1. TypeInv
  BY InitType
<1>2. Elected /\ Fits
  BY ConstantsAssumption DEF Init, Elected, Fits, Fit, Connected
<1>3. Untouched /\ Settled
  BY DEF Init, Untouched, Settled
<1> QED
  BY <1>1, <1>2, <1>3 DEF LeaderInv

LEMMA LeaderStep ==
  ASSUME ExclusiveLease, PromptQueue, LeaderInv, [Next]_vars
  PROVE  LeaderInv'
<1>1. TypeInv /\ Elected
  BY DEF LeaderInv
<1> QED
  BY <1>1, TypeInvStep, ElectedStep, FitsStep, UntouchedStep, SettledStep DEF LeaderInv

-----------------------------------------------------------------------------
(* A terminal record never changes *)

LEMMA FinalStep ==
  ASSUME PromptQueue, LeaderInv, [Next]_vars, status.phase \in Terminal
  PROVE  status'.phase = status.phase
<1>1. TypeInv /\ Elected
  BY DEF LeaderInv
<1>2. ASSUME NEW r \in Replica, Stores(r), Connected(r)
      PROVE  UNCHANGED status
  <2>1. Fit(pc[r], status.phase, local[r].phase)
    BY <1>2 DEF LeaderInv, Fits
  <2> QED
    BY <1>2, <2>1 DEF Stores, Fit, Terminal
<1>3. ~CreatorQueues
  BY DEF CreatorQueues, Terminal
<1> QED
  BY <1>1, <1>2, <1>3, RecordMoves

\* Clients stop watching at a terminal phase, and rightly so: with one leader at a
\* time and a prompt creator the record never leaves it.
THEOREM Final ==
  ASSUME ExclusiveLease, PromptQueue
  PROVE  Spec => TerminalIsFinal
<1>1. Init => LeaderInv
  BY LeaderInit
<1>2. LeaderInv /\ [Next]_vars => LeaderInv'
  BY LeaderStep
<1>3. LeaderInv /\ [Next]_vars => (status.phase \in Terminal => status'.phase = status.phase)
  BY FinalStep
<1>4. LeaderInv /\ [Next]_vars => [status.phase \in Terminal => status'.phase = status.phase]_vars
  BY <1>3
<1> QED
  BY <1>1, <1>2, <1>4, PTL DEF Spec, TerminalIsFinal

-----------------------------------------------------------------------------
(* A takeover recognises the operation's own change *)

\* The target as it stands is not this operation's work, for all that can be seen.
Unmade == ~Own \/ "unlabelled" \in meddling

\* A change that was made can be seen: takeover looks for exactly this.
Traces ==
  Own => /\ kind \in Deletes \cup {"update"} => obj.uid = 1
         /\ kind = "update" => obj.state # "idle"
         /\ kind \in Deletes => obj.deleting
         /\ kind \in Applies => obj.owned \/ "unlabelled" \in meddling

\* Objects are numbered in the order they are made, so a new one is nobody's work.
Numbered == obj.uid \in 0..rev /\ \A t \in touched : t[1] \in 1..rev

Seen ==
  /\ Traces /\ Numbered
  /\ kind \in Longhorns \cup {"unsupported"} => touched = {}

Stale(s) == s.phase = "Failed" /\ s.code = "STALE"

\* Only whoever found nothing plans again, executes, or calls the plan stale.
Suspects(r) ==
  pc[r] \in {"replan", "execute"} \/ (pc[r] = "finish" /\ Stale(local[r])) => Unmade

StaleInv ==
  /\ LeaderInv /\ rev >= 1 /\ Seen
  /\ \A r \in Replica : Connected(r) => Suspects(r)
  /\ Stale(status) => Unmade

\* No object, and an object made just now, is not the operation's work.
LEMMA FreshUnmade ==
  ASSUME WorldType, Numbered, UNCHANGED touched, obj'.uid \in {0, rev + 1}
  PROVE  ~Own'
<1>1. rev \in Nat
  BY DEF WorldType
<1> QED
  BY <1>1 DEF Numbered, Own

LEMMA SeenUnchanged ==
  ASSUME Seen, UNCHANGED <<kind, world, history>>
  PROVE  Seen'
BY DEF Seen, Traces, Numbered, Own, world, history

LEMMA DeleteSeen ==
  ASSUME WorldType, Seen, NEW answer, kind \in Deletes, DeleteTarget(answer), kind' = kind
  PROVE  Seen'
<1>1. obj \in Objects /\ rev \in Nat
  BY DEF WorldType
<1>2. kind \notin Longhorns \cup {"unsupported", "update"} \cup Applies /\ Approved = 1
  BY DEF Deletes, Applies, Longhorns, Approved
<1>3. CASE UNCHANGED <<world, history>>
  BY <1>3, SeenUnchanged
<1>4. CASE /\ obj.uid = 1 /\ rev' = rev + 1
           /\ obj' \in {Absent, [obj EXCEPT !.deleting = TRUE, !.rv = rev + 1]}
           /\ touched' = touched \cup {<<obj.uid, obj.rv>>}
  <2>1. \A t \in touched' : t[1] \in 1..rev
    BY <1>1, <1>4 DEF Seen, Numbered
  <2>2. obj'.uid = 0 \/ (obj'.uid = 1 /\ obj'.deleting)
    <3>1. CASE obj' = Absent
      BY <3>1 DEF Absent
    <3>2. CASE obj' = [obj EXCEPT !.deleting = TRUE, !.rv = rev + 1]
      BY <1>1, <1>4, <3>2 DEF Objects
    <3> QED
      BY <1>4, <3>1, <3>2
  <2>3. Numbered'
    BY <1>1, <1>4, <2>1, <2>2 DEF Numbered
  <2>4. Own' => obj'.uid # 0
    BY <1>1, <2>1 DEF Own
  <2>5. Traces'
    BY <1>2, <2>2, <2>4 DEF Traces
  <2> QED
    BY <1>2, <2>3, <2>5 DEF Seen
<1> QED
  BY <1>2, <1>3, <1>4 DEF DeleteTarget, IsApproved

LEMMA UpdateSeen ==
  ASSUME WorldType, Seen, NEW answer, kind = "update", UpdateTarget(answer), kind' = kind
  PROVE  Seen'
<1>1. obj \in Objects /\ rev \in Nat
  BY DEF WorldType
<1>2. kind \notin Longhorns \cup {"unsupported"} \cup Applies \cup Deletes /\ Approved = 1
  BY DEF Deletes, Applies, Longhorns, Approved
<1>3. CASE UNCHANGED <<world, history>>
  BY <1>3, SeenUnchanged
<1>4. CASE /\ obj.uid = 1 /\ rev' = rev + 1
           /\ obj' = [obj EXCEPT !.state = "waiting", !.rv = rev + 1]
           /\ touched' = touched \cup {<<obj.uid, obj.rv>>}
  <2>1. \A t \in touched' : t[1] \in 1..rev'
    BY <1>1, <1>4 DEF Seen, Numbered
  <2>2. obj'.uid = 1 /\ obj'.state # "idle"
    BY <1>1, <1>4 DEF Objects
  <2>3. Numbered' /\ Traces'
    BY <1>1, <1>2, <1>4, <2>1, <2>2 DEF Numbered, Traces
  <2> QED
    BY <1>2, <2>3 DEF Seen
<1> QED
  BY <1>2, <1>3, <1>4 DEF UpdateTarget, IsApproved

LEMMA ApplySeen ==
  ASSUME WorldType, Seen, NEW answer, kind \in Applies, ApplyTarget(answer), kind' = kind
  PROVE  Seen'
<1>1. obj \in Objects /\ rev \in Nat
  BY DEF WorldType
<1>2. kind \notin Longhorns \cup {"unsupported", "update"} \cup Deletes
  BY DEF Deletes, Applies, Longhorns
<1>3. CASE UNCHANGED <<world, history>>
  BY <1>3, SeenUnchanged
<1>4. CASE /\ rev' = rev + 1
           /\ obj' = IF obj.uid = 0
                     THEN [uid |-> rev + 1, rv |-> rev + 1, deleting |-> FALSE,
                           owned |-> TRUE, state |-> "waiting"]
                     ELSE [obj EXCEPT !.owned = TRUE, !.rv = rev + 1]
           /\ touched' = touched \cup {<<obj'.uid, obj.rv>>}
  <2>1. obj'.owned /\ obj'.uid \in 1..(rev + 1)
    BY <1>1, <1>4 DEF Objects, Seen, Numbered
  <2>2. \A t \in touched' : t[1] \in 1..rev'
    BY <1>1, <1>4, <2>1 DEF Seen, Numbered
  <2>3. Numbered' /\ Traces'
    BY <1>1, <1>2, <1>4, <2>1, <2>2 DEF Numbered, Traces
  <2> QED
    BY <1>2, <2>3 DEF Seen
<1> QED
  BY <1>3, <1>4 DEF ApplyTarget

LEMMA SendSeen ==
  ASSUME WorldType, Seen, NEW answer, kind \in Longhorns, SendLonghorn(answer), kind' = kind
  PROVE  Seen'
<1>1. obj \in Objects /\ rev \in Nat
  BY DEF WorldType
<1>2. touched = {} /\ obj.uid \in 0..rev
  BY DEF Seen, Numbered
<1>3. touched' = {}
  BY <1>2 DEF SendLonghorn, history
<1>4. obj'.uid \in 0..rev'
  <2>1. CASE UNCHANGED <<obj, rev>>
    BY <1>2, <2>1
  <2>2. CASE rev' = rev + 1 /\ obj' = [obj EXCEPT !.state = "waiting", !.rv = rev + 1]
    <3>1. obj'.uid = obj.uid
      BY <1>1, <2>2 DEF Objects
    <3> QED
      BY <1>1, <1>2, <2>2, <3>1
  <2>3. CASE rev' = rev + 1 /\ obj' = [Absent EXCEPT !.uid = rev + 1, !.rv = rev + 1]
    <3>1. obj'.uid = rev + 1
      BY <2>3 DEF Absent
    <3> QED
      BY <1>1, <2>3, <3>1
  <2> QED
    BY <2>1, <2>2, <2>3 DEF SendLonghorn, world
<1> QED
  BY <1>3, <1>4 DEF Seen, Traces, Numbered, Own

LEMMA MutateSeen ==
  ASSUME WorldType, Seen, NEW answer, Mutate(answer), kind' = kind
  PROVE  Seen'
BY DeleteSeen, UpdateSeen, ApplySeen, SendSeen DEF Mutate

\* What the surroundings leave of the target: no object, a new one, or the same one
\* with every trace of the operation, unless somebody takes Highland's label off.
LEMMA EnvironmentTraces ==
  ASSUME WorldType, Environment
  PROVE  /\ UNCHANGED <<kind, touched, sends>> /\ meddling \subseteq meddling'
         /\ rev' \in {rev, rev + 1}
         /\ \/ obj'.uid = 0
            \/ obj'.uid = rev + 1 /\ rev' = rev + 1
            \/ /\ obj'.uid = obj.uid /\ (obj.deleting => obj'.deleting)
               /\ obj.state # "idle" => obj'.state # "idle"
               /\ obj.owned => obj'.owned \/ "unlabelled" \in meddling'
<1>1. obj \in Objects /\ rev \in Nat
  BY DEF WorldType
<1>2. UNCHANGED <<kind, touched, sends>>
  BY DEF Environment, history
<1>3. meddling \subseteq meddling' /\ rev' \in {rev, rev + 1}
  BY DEF Environment, EditTarget, HelpTarget, UnlabelTarget, CreateTarget, FinalizeTarget,
         ProgressTarget, ReconcilePool
<1>4. obj' = Absent => obj'.uid = 0
  BY DEF Absent
<1>5. CASE EditTarget
  <2>1. CASE obj' \in {[obj EXCEPT !.rv = rev + 1], [obj EXCEPT !.rv = rev + 1, !.deleting = TRUE]}
    BY <1>1, <1>2, <1>3, <2>1 DEF Objects
  <2> QED
    BY <1>2, <1>3, <1>4, <1>5, <2>1 DEF EditTarget
<1>6. CASE HelpTarget
  <2>1. /\ obj'.uid = obj.uid /\ obj'.deleting = obj.deleting /\ (obj.owned => obj'.owned)
        /\ obj.state # "idle" => obj'.state # "idle"
    BY <1>1, <1>6 DEF HelpTarget, Objects
  <2> QED
    BY <1>2, <1>3, <2>1
<1>7. CASE UnlabelTarget
  <2>1. /\ obj'.uid = obj.uid /\ obj'.deleting = obj.deleting /\ obj'.state = obj.state
        /\ "unlabelled" \in meddling'
    BY <1>1, <1>7 DEF UnlabelTarget, Objects
  <2> QED
    BY <1>2, <1>3, <2>1
<1>8. CASE CreateTarget
  <2>1. obj'.uid = rev + 1 /\ rev' = rev + 1
    BY <1>1, <1>8 DEF CreateTarget, Absent
  <2> QED
    BY <1>2, <1>3, <2>1
<1>9. CASE FinalizeTarget
  BY <1>2, <1>3, <1>4, <1>9 DEF FinalizeTarget
<1>10. CASE ProgressTarget
  <2>1. CASE \E s \in {"ready", "lost"} : obj' = [obj EXCEPT !.state = s, !.rv = rev + 1]
    BY <1>1, <1>2, <1>3, <2>1 DEF Objects
  <2>2. CASE obj' = [Absent EXCEPT !.uid = rev + 1, !.rv = rev + 1]
    <3>1. obj'.uid = rev + 1 /\ rev' = rev + 1
      BY <1>10, <2>2 DEF ProgressTarget, Absent
    <3> QED
      BY <1>2, <1>3, <3>1
  <2> QED
    BY <1>10, <2>1, <2>2 DEF ProgressTarget
<1>11. CASE ReconcilePool
  BY <1>2, <1>3, <1>11 DEF ReconcilePool
<1> QED
  BY <1>5, <1>6, <1>7, <1>8, <1>9, <1>10, <1>11 DEF Environment

LEMMA SeenStep ==
  ASSUME TypeInv, Seen, [Next]_vars
  PROVE  Seen'
<1>1. WorldType /\ rev \in Nat
  BY DEF TypeInv, WorldType
<1>2. CASE UNCHANGED <<kind, world, history>>
  BY <1>2, SeenUnchanged
<1>3. CASE Environment
  <2>1. UNCHANGED <<kind, touched>> /\ meddling \subseteq meddling' /\ rev' \in {rev, rev + 1}
    BY <1>1, <1>3, EnvironmentTraces
  <2>2. \A t \in touched' : t[1] \in 1..rev'
    BY <1>1, <2>1 DEF Seen, Numbered
  <2>3. CASE obj'.uid \in {0, rev + 1} /\ (obj'.uid = 0 \/ rev' = rev + 1)
    <3>1. ~Own'
      BY <1>1, <2>1, <2>3, FreshUnmade DEF Seen
    <3> QED
      BY <1>1, <2>1, <2>2, <2>3, <3>1 DEF Seen, Traces, Numbered
  <2>4. CASE /\ obj'.uid = obj.uid /\ (obj.deleting => obj'.deleting)
             /\ obj.state # "idle" => obj'.state # "idle"
             /\ obj.owned => obj'.owned \/ "unlabelled" \in meddling'
    <3>1. Numbered'
      BY <1>1, <2>1, <2>2, <2>4 DEF Seen, Numbered
    <3>2. Own' = Own
      BY <2>1, <2>4 DEF Own
    <3>3. Traces'
      BY <2>1, <2>4, <3>2 DEF Seen, Traces
    <3> QED
      BY <2>1, <3>1, <3>3 DEF Seen
  <2> QED
    BY <1>1, <1>3, <2>3, <2>4, EnvironmentTraces
<1>4. CASE Executing
  BY <1>1, <1>4, MutateSeen DEF Executing, Execute
<1> QED
  BY <1>2, <1>3, <1>4, WorldSteps

\* What is not this operation's work does not become it by itself.
LEMMA UnmadeKept ==
  ASSUME TypeInv, Seen, Unmade, [Next]_vars, ~Executing
  PROVE  Unmade'
<1>1. WorldType
  BY DEF TypeInv
<1>2. CASE UNCHANGED <<kind, world, history>>
  BY <1>2 DEF world, history, Unmade, Own
<1>3. CASE Environment
  <2>1. UNCHANGED touched /\ meddling \subseteq meddling'
    BY <1>1, <1>3, EnvironmentTraces
  <2>2. CASE obj'.uid \in {0, rev + 1}
    BY <1>1, <2>1, <2>2, FreshUnmade DEF Seen, Unmade
  <2>3. CASE obj'.uid = obj.uid
    BY <2>1, <2>3 DEF Unmade, Own
  <2> QED
    BY <1>1, <1>3, <2>2, <2>3, EnvironmentTraces
<1> QED
  BY <1>2, <1>3, WorldSteps

\* An execution ends its pass.
LEMMA ExecuteEnds ==
  ASSUME TypeInv, NEW r \in Replica, Execute(r)
  PROVE  pc'[r] \in {"idle", "write", "finish"}
<1>1. PICK label \in PCs, s \in Status : Goto(r, label, s) /\ Hop(r, label, s)
  BY ReconcileHops DEF Hops, Reconcile
<1>2. pc[r] = "execute"
  BY DEF Execute
<1>3. pc'[r] = label
  BY <1>1, GotoCopies
<1> QED
  BY <1>1, <1>2, <1>3 DEF Hop, Recorded, Passed, Reported, Repeated, GivenUp

\* The leader alone executes: while it does something else, nobody does.
LEMMA LeaderElsewhere ==
  ASSUME LeaderInv, NEW r \in Replica, Connected(r), pc[r] # "execute"
  PROVE  ~Executing
<1>1. Elected
  BY DEF LeaderInv
<1> QED
  BY <1>1, ExecutingRuns, Sole

\* Before the record says Running there is nothing to mistake.
LEMMA UntouchedUnmade ==
  ASSUME LeaderInv, status.phase \in {"", "Pending"}
  PROVE  Unmade
BY DEF LeaderInv, Untouched, Unmade, Own

LEMMA SuspectsStep ==
  ASSUME StaleInv, [Next]_vars, NEW q \in Replica, Connected(q)'
  PROVE  Suspects(q)'
<1>1. /\ LeaderInv /\ TypeInv /\ Elected /\ rev >= 1 /\ Seen
      /\ status \in Status /\ local[q] \in Status
  BY DEF StaleInv, LeaderInv, TypeInv, RecordType, PassType
<1>2. \A t \in Status : \A code : Failed(t, code).code = code /\ Failed(t, code).phase = "Failed"
  BY DEF Failed, Status
<1>3. CASE pc'[q] = "idle"
  BY <1>3 DEF Suspects
<1>4. CASE ~Connected(q)
  BY <1>1, <1>4, <1>3, Connects
<1>5. CASE Connected(q) /\ pc'[q] = pc[q] /\ Alike(local'[q], local[q])
  <2> SUFFICES ASSUME pc[q] \in {"replan", "execute"} \/ (pc[q] = "finish" /\ Stale(local[q]))
               PROVE  Unmade'
    BY <1>5 DEF Suspects, Alike, Stale
  <2>1. Unmade
    BY <1>5 DEF StaleInv, Suspects
  <2>2. ~Executing
    <3>1. SUFFICES ASSUME Executing PROVE FALSE
      OBVIOUS
    <3>2. Execute(q) /\ pc[q] = "execute"
      BY <1>1, <1>5, <3>1, ExecutingRuns, Sole
    <3> QED
      BY <1>1, <1>5, <3>2, ExecuteEnds
  <2> QED
    BY <1>1, <2>1, <2>2, UnmadeKept
<1>6. CASE Connected(q) /\ Reconcile(q) /\ Hop(q, pc'[q], local'[q])
  <2> DEFINE label == pc'[q]
             s == local'[q]
  <2>1. /\ Hop(q, label, s) /\ Fit(pc[q], status.phase, local[q].phase) /\ Suspects(q)
        /\ Queued \in Status
    BY <1>6, QueuedType DEF StaleInv, LeaderInv, Fits
  <2> HIDE DEF label, s
  <2>2. SUFFICES ASSUME label \in {"replan", "execute"} \/ (label = "finish" /\ Stale(s))
                 PROVE  Unmade'
    BY DEF Suspects, Stale, label, s
  <2>3. \/ Unmade /\ pc[q] # "execute"
        \/ Unmade /\ UNCHANGED <<kind, world, history>>
    <3>1. CASE pc[q] = "idle" /\ Picked(label, s)
      <4>1. label = "finish" /\ s.code = "STALE"
        BY <2>2, <3>1 DEF Picked, Stale
      <4>2. s \in {Failed(status, "OTHER"), Failed(status, "OPERATION_TIMEOUT")}
        BY <3>1, <4>1 DEF Picked
      <4>3. s.code \in {"OTHER", "OPERATION_TIMEOUT"}
        BY <1>1, <1>2, <4>2
      <4> QED
        BY <4>1, <4>3
    <3>2. CASE Recorded(q, label, s)
      <4>1. label = "execute" /\ pc[q] = "start"
        BY <1>2, <2>1, <2>2, <3>2 DEF Recorded, Stale
      <4> QED
        BY <1>1, <2>1, <4>1, UntouchedUnmade DEF Fit
    <3>3. CASE Passed(q, label) /\ s = local[q]
      <4>1. CASE pc[q] = "replan"
        BY <2>1, <4>1 DEF Suspects
      <4>2. CASE pc[q] = "observe" /\ label = "replan"
        <5>1. /\ kind \in Deletes => ~TargetGone /\ ~obj.deleting
              /\ kind \in Applies \cup {"update"} => ~MutationVisible
          BY <3>3, <4>2 DEF Passed
        <5>2. Traces
          BY <1>1 DEF Seen
        <5>3. kind \in Deletes => ~Own
          BY <5>1, <5>2 DEF Traces
        <5>4. kind = "update" => ~Own
          BY <5>1, <5>2 DEF Traces, MutationVisible, Approved, Applies
        <5>5. kind \in Applies => Unmade
          BY <5>1, <5>2 DEF Traces, MutationVisible, Unmade
        <5>6. kind \in Longhorns \cup {"unsupported"} => ~Own
          BY <1>1 DEF Seen, Own
        <5>7. kind \in Deletes \cup Applies \cup Longhorns \cup {"update", "unsupported"}
          BY <1>1, ConstantsAssumption DEF TypeInv, RecordType, AllKinds
        <5> QED
          BY <4>2, <5>3, <5>4, <5>5, <5>6, <5>7 DEF Unmade
      <4> QED
        BY <2>2, <3>3, <4>1, <4>2 DEF Passed
    <3>4. CASE Reported(q, label, s)
      <4>1. Success(local[q]).phase = "Succeeded"
        BY <1>1 DEF Success, Status
      <4> QED
        BY <2>2, <3>4, <4>1 DEF Reported, Stale
    <3>5. CASE Repeated(q, label, s)
      BY <2>2, <3>5 DEF Repeated
    <3>6. CASE GivenUp(q, label, s)
      <4>1. s # Failed(local[q], "OTHER")
        BY <1>1, <1>2, <2>2, <3>6 DEF GivenUp, Stale
      <4>2. CASE pc[q] = "preflight"
        BY <1>1, <2>1, <4>2, UntouchedUnmade DEF Fit
      <4>3. CASE pc[q] = "replan"
        BY <2>1, <4>3 DEF Suspects
      <4>4. CASE pc[q] = "execute" /\ UNCHANGED <<world, history>>
        <5>1. kind' = kind
          BY <1>6, ReconcileElection, <1>1
        <5> QED
          BY <2>1, <4>4, <5>1 DEF Suspects
      <4> QED
        BY <3>6, <4>1, <4>2, <4>3, <4>4 DEF GivenUp
    <3> QED
      BY <2>1, <2>2, <3>1, <3>2, <3>3, <3>4, <3>5, <3>6 DEF Hop
  <2>4. CASE Unmade /\ pc[q] # "execute"
    BY <1>1, <1>6, <2>4, LeaderElsewhere, UnmadeKept
  <2>5. CASE Unmade /\ UNCHANGED <<kind, world, history>>
    BY <2>5 DEF Unmade, Own, world, history
  <2> QED
    BY <2>3, <2>4, <2>5
<1> QED
  BY <1>1, <1>3, <1>4, <1>5, <1>6, Moves DEF CopyStep

LEMMA StaleStep ==
  ASSUME ExclusiveLease, PromptQueue, StaleInv, [Next]_vars
  PROVE  StaleInv'
<1>1. LeaderInv /\ TypeInv /\ Elected /\ rev >= 1 /\ Seen
  BY DEF StaleInv, LeaderInv
<1>2. LeaderInv' /\ rev' >= 1 /\ Seen'
  BY <1>1, LeaderStep, RevGrows, SeenStep
<1>3. \A r \in Replica : Connected(r)' => Suspects(r)'
  BY SuspectsStep
<1>4. ASSUME Stale(status)' PROVE Unmade'
  <2>1. CASE Stale(status)
    <3>1. ~Executing
      BY <1>1, <2>1, ExecutingRuns DEF Stale
    <3> QED
      BY <1>1, <2>1, <3>1, UnmadeKept DEF StaleInv
  <2>2. CASE ~Stale(status)
    <3>1. \/ Alike(status', status) \/ status' \in {status, Queued}
          \/ \E r \in Replica : Reconcile(r) /\ Stores(r) /\ Connected(r)
      BY <1>1, Moves DEF RecordStep, Stores
    <3>2. ~(Alike(status', status) \/ status' \in {status, Queued})
      BY <1>4, <2>2 DEF Alike, Stale, Queued, Blank
    <3>3. PICK r \in Replica : Stores(r) /\ Connected(r)
      BY <3>1, <3>2
    <3>4. pc[r] \in {"write", "finish"} /\ Stale(local[r])
      BY <1>4, <3>2, <3>3 DEF Stores, Stale, Started, Queued, Blank
    <3>5. pc[r] = "finish"
      <4>1. Fit(pc[r], status.phase, local[r].phase)
        BY <1>1, <3>3 DEF LeaderInv, Fits
      <4> QED
        BY <3>4, <4>1 DEF Fit, Stale
    <3>6. Unmade /\ ~Executing
      BY <1>1, <3>3, <3>4, <3>5, LeaderElsewhere DEF StaleInv, Suspects
    <3> QED
      BY <1>1, <3>6, UnmadeKept
  <2> QED
    BY <2>1, <2>2
<1> QED
  BY <1>2, <1>3, <1>4 DEF StaleInv

\* A new leader that calls the plan stale is right: the target it found is no object
\* this operation made or changed before the crash or the lost answer, unless
\* somebody took Highland's label off it.
THEOREM Takeover ==
  ASSUME ExclusiveLease, PromptQueue
  PROVE  Spec => []TakeoverRecognisesMutation
<1>1. Init => StaleInv
  <2> SUFFICES ASSUME Init PROVE StaleInv
    OBVIOUS
  <2>1. LeaderInv
    BY LeaderInit
  <2>2. rev >= 1 /\ Seen
    BY DEF Init, Seen, Traces, Numbered, Own, Absent
  <2>3. ~Stale(status) /\ \A r \in Replica : ~Connected(r)
    BY DEF Init, Stale, Blank, Connected
  <2> QED
    BY <2>1, <2>2, <2>3 DEF StaleInv
<1>2. StaleInv /\ [Next]_vars => StaleInv'
  BY StaleStep
<1>3. StaleInv => TakeoverRecognisesMutation
  BY DEF StaleInv, Stale, Unmade, TakeoverRecognisesMutation
<1> QED
  BY <1>1, <1>2, <1>3, PTL DEF Spec

-----------------------------------------------------------------------------
(* The reconciler implements the lifecycle *)

Changed == touched # {} \/ sends > 0
Given   == kind \in Deletes \/ "helped" \in meddling

LifeInv == LeaderInv /\ rev >= 1 /\ EarnedInv

LEMMA MutateChanges ==
  ASSUME HistoryType, NEW answer, Mutate(answer)
  PROVE  UNCHANGED history \/ Changed'
<1>1. sends \in Nat
  BY DEF HistoryType
<1> QED
  BY <1>1 DEF Mutate, DeleteTarget, UpdateTarget, ApplyTarget, SendLonghorn, Sent, history,
              Changed

\* What the surroundings do: somebody else's work is a Give, the rest a stutter.
LEMMA EnvironmentGives ==
  ASSUME TypeInv, Environment
  PROVE  UNCHANGED <<opVars, history, kind>> /\ (Given => Given')
<1>1. WorldType
  BY DEF TypeInv
<1> QED
  BY <1>1, EnvironmentTraces DEF Environment, Given

\* A step that changes the target, or in which others do the operation's work, is a
\* step of the lifecycle.
LEMMA ChangeStep ==
  ASSUME LifeInv, [Next]_vars
  PROVE  \/ UNCHANGED <<Changed, Given>>
         \/ Lifecycle!Change
         \/ Lifecycle!Give
<1>1. CASE Executing
  <2>1. /\ status.phase = "Running" /\ UNCHANGED opVars /\ kind' = kind
        /\ meddling' = meddling
    BY <1>1, ExecutingRuns DEF LifeInv, Execute
  <2>2. exists
    BY <2>1 DEF LifeInv, LeaderInv, Settled, Terminal
  <2>3. UNCHANGED history \/ Changed'
    BY <1>1, MutateChanges DEF LifeInv, LeaderInv, TypeInv, Executing
  <2> QED
    BY <2>1, <2>2, <2>3 DEF Changed, Given, Lifecycle!Change, opVars, history
<1>2. CASE Environment
  <2>1. UNCHANGED <<opVars, history, kind>> /\ (Given => Given')
    BY <1>2, EnvironmentGives DEF LifeInv, LeaderInv
  <2> QED
    BY <2>1 DEF Changed, Given, Lifecycle!Give, opVars, history
<1>3. CASE UNCHANGED <<kind, world, history>>
  BY <1>3 DEF Changed, Given, world, history
<1> QED
  BY <1>1, <1>2, <1>3, WorldSteps

LEMMA LifeStep ==
  ASSUME PromptQueue, LifeInv, [Next]_vars
  PROVE  [Lifecycle!Next]_(Lifecycle!vars)
<1> USE DEF Lifecycle!Next, Lifecycle!vars
<1>1. LeaderInv /\ TypeInv /\ Elected /\ kind \in Kinds /\ kind' = kind
  BY EvidentStep DEF LifeInv, LeaderInv, TypeInv, RecordType, EarnedInv
<1>2. CASE Lifecycle!Change \/ Lifecycle!Give
  BY <1>2
<1>3. CASE UNCHANGED <<Changed, Given>> /\ exists' # exists
  <2>1. /\ exists /\ ~exists' /\ status' = status /\ status.phase \in Terminal
    BY <1>1, <1>3, Collects
  <2> QED
    BY <1>1, <1>3, <2>1 DEF Lifecycle!Collect, Changed, Given, Terminal
<1>4. CASE UNCHANGED <<Changed, Given>> /\ exists' = exists /\ status'.phase = status.phase
  BY <1>1, <1>4 DEF Changed, Given
<1>5. CASE UNCHANGED <<Changed, Given>> /\ exists' = exists /\ CreatorQueues
  <2>1. exists /\ status.phase \in {"", "Pending"} /\ status'.phase = "Pending"
    BY <1>5 DEF CreatorQueues, Queued, Blank
  <2> QED
    BY <1>1, <1>5, <2>1 DEF Lifecycle!Queue, Changed, Given
<1>6. ASSUME UNCHANGED <<Changed, Given>>, exists' = exists, exists,
             NEW r \in Replica, Stores(r), Connected(r), status'.phase # status.phase
      PROVE  Lifecycle!Next
  <2>1. /\ Fit(pc[r], status.phase, local[r].phase) /\ Earned(local[r])
        /\ pc[r] = "finish" => local[r].phase \in Terminal
    BY <1>1, <1>6 DEF LeaderInv, Fits, LifeInv, EarnedInv, TypeInv, PassType
  <2>2. CASE pc[r] = "queue" /\ status' = Queued
    <3>1. status.phase = "" /\ status'.phase = "Pending"
      BY <1>6, <2>1, <2>2 DEF Fit, Queued, Blank
    <3> QED
      BY <1>1, <1>6, <3>1 DEF Lifecycle!Queue, Changed, Given
  <2>3. CASE pc[r] = "start" /\ status' = Started
    <3>1. status.phase = "Pending" /\ status'.phase = "Running"
      BY <1>6, <2>1, <2>3 DEF Fit, Started, Blank
    <3> QED
      BY <1>1, <1>6, <3>1 DEF Lifecycle!Begin, Changed, Given
  <2>4. CASE pc[r] = "finish" /\ status' = local[r] /\ local[r].phase = "Failed"
    <3>1. status.phase \in {"Pending", "Running"} /\ status'.phase = "Failed"
      BY <2>1, <2>4 DEF Fit
    <3> QED
      BY <1>1, <1>6, <3>1 DEF Lifecycle!Fail, Changed, Given
  <2>5. CASE pc[r] = "finish" /\ status' = local[r] /\ local[r].phase = "Succeeded"
    <3>1. status.phase = "Running" /\ status'.phase = "Succeeded"
      BY <2>1, <2>5 DEF Fit
    <3>2. Changed \/ Given
      BY <2>1, <2>5 DEF Earned, Makes, Work, Changed, Given
    <3> QED
      BY <1>1, <1>6, <3>1, <3>2 DEF Lifecycle!Succeed, Changed, Given
  <2>6. pc[r] # "write"
    BY <1>6, <2>1 DEF Stores, Fit
  <2>7. local[r].phase \in {"Succeeded", "Failed"} \/ pc[r] # "finish"
    BY <2>1 DEF Terminal
  <2>8. \/ pc[r] = "queue" /\ status' = Queued
        \/ pc[r] = "start" /\ status' = Started
        \/ pc[r] = "finish" /\ status' = local[r]
    BY <1>6, <2>6 DEF Stores
  <2> QED
    BY <2>2, <2>3, <2>4, <2>5, <2>7, <2>8
<1> QED
  BY <1>1, <1>2, <1>3, <1>4, <1>5, <1>6, ChangeStep, RecordMoves

LEMMA LifeBegins ==
  ASSUME Init
  PROVE  LifeInv /\ Lifecycle!Init
<1>1. exists = TRUE /\ status = Blank /\ touched = {} /\ sends = 0 /\ meddling = {}
  BY DEF Init
<1>2. (IF exists THEN status.phase ELSE "Collected") = ""
  <2>1. Blank.phase = ""
    BY DEF Blank
  <2> QED
    BY <1>1, <2>1
<1>3. (touched # {} \/ sends > 0) = FALSE
  <2>1. ~(touched # {} \/ sends > 0)
    BY <1>1
  <2> QED
    BY <2>1, Zenon
<1>4. (kind \in Deletes \/ "helped" \in meddling) \in BOOLEAN
  OBVIOUS
<1>5. Lifecycle!Init
  BY <1>2, <1>3, <1>4, Zenon DEF Lifecycle!Init
<1>6. LeaderInv /\ rev >= 1 /\ Evident
  BY LeaderInit DEF Init, Evident, Absent, Approved, Applies
<1>7. Earned(status) /\ \A r \in Replica : Earned(local[r]) /\ Inspecting(r)
  BY DEF Init, Blank, Earned, Inspecting
<1> QED
  BY <1>5, <1>6, <1>7 DEF LifeInv, EarnedInv

LEMMA LifeKept ==
  ASSUME ExclusiveLease, PromptQueue, LifeInv, [Next]_vars
  PROVE  LifeInv'
BY LeaderStep, EarnedStep, RevGrows DEF LifeInv, LeaderInv

\* Whatever crashes, fails and is edited, the record of every operation lives the
\* life its users are told of: queued, running, changing its target only then,
\* settled once, collected last, with a success of work done, of a removal, or of
\* what somebody else did in a way that the code takes for its own work.
THEOREM Implements ==
  ASSUME ExclusiveLease, PromptQueue
  PROVE  Spec => ImplementsLifecycle
<1>1. Init => LifeInv /\ Lifecycle!Init
  BY LifeBegins
<1>2. LifeInv /\ [Next]_vars => LifeInv'
  BY LifeKept
<1>3. LifeInv /\ [Next]_vars => [Lifecycle!Next]_(Lifecycle!vars)
  BY LifeStep
<1> QED
  BY <1>1, <1>2, <1>3, PTL DEF Spec, ImplementsLifecycle, Lifecycle!Spec
=============================================================================

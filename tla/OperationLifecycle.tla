------------------------- MODULE OperationLifecycle -------------------------
(***************************************************************************)
(* What a durable storage operation promises to the user who approved it   *)
(* (the phases of the StorageOperation CRD and the comments of             *)
(* controller.go): it is queued, runs, changes the cluster only while its  *)
(* record says Running, settles once, claims success only for work it did  *)
(* or for a result that is there without it, and is collected only after   *)
(* it settled.                                                             *)
(***************************************************************************)

VARIABLES
  phase,    \* .status.phase, "Collected" once the record is deleted
  changed,  \* the operation changed its target
  given     \* the approved result may be there without the operation's work: it is
            \* a removal, or somebody else brought it about

vars == <<phase, changed, given>>

Init == phase = "" /\ changed = FALSE /\ given \in BOOLEAN

Queue == phase = "" /\ phase' = "Pending" /\ UNCHANGED <<changed, given>>

Begin == phase = "Pending" /\ phase' = "Running" /\ UNCHANGED <<changed, given>>

Change ==
  /\ phase = "Running" /\ ~changed
  /\ changed' = TRUE
  /\ UNCHANGED <<phase, given>>

Give ==
  /\ ~given /\ given' = TRUE
  /\ UNCHANGED <<phase, changed>>

Succeed ==
  /\ phase = "Running" /\ (changed \/ given)
  /\ phase' = "Succeeded"
  /\ UNCHANGED <<changed, given>>

Fail ==
  /\ phase \in {"Pending", "Running"}
  /\ phase' = "Failed"
  /\ UNCHANGED <<changed, given>>

Collect ==
  /\ phase \in {"Succeeded", "Failed"}
  /\ phase' = "Collected"
  /\ UNCHANGED <<changed, given>>

Next == Queue \/ Begin \/ Change \/ Give \/ Succeed \/ Fail \/ Collect

Spec == Init /\ [][Next]_vars
=============================================================================

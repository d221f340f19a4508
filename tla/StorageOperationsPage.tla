----------------------- MODULE StorageOperationsPage -----------------------
(***************************************************************************)
(* The pages of the operation pipeline: the catalogue with the history of  *)
(* operations, the page that plans and submits one action, and the page    *)
(* that follows one operation.  The server's side is OperationAdmission.   *)
(***************************************************************************)
EXTENDS Naturals

CONSTANTS Actions,   \* registered actions
          Typed,     \* those confirmed by typing the target's name
          Kind,      \* the provider kind of a native action, None of a portable one
          Providers, \* providers the catalogue can be scoped to
          Portable,  \* those the policy allows portable actions for
          Names,     \* names of targets
          None,
          MaxPlans   \* plans asked for during a visit (bound)

VARIABLES query, \* what the queries brought: available actions, one operation
          ui,    \* the page and its state
          calls  \* plans and submissions that have not been answered

operationVars == <<query, ui, calls>>

Terminal == {"Succeeded", "Failed", "Cancelled"}

\* defaultParameters, actionProvider and the first namespace of an action: all
\* the fields but the name are one here.
EmptyForm == [name |-> "", parameters |-> "default"]

\* The state of a StorageActionPage, at first and for another action.
Fresh(a, plans) ==
  [view |-> "action", action |-> a, form |-> EmptyForm, plan |-> None, ack |-> 0, typed |-> "",
   confirmOpen |-> FALSE, plans |-> plans, since |-> plans]

Catalogue(scope, plans) == [view |-> "list", scope |-> scope, plans |-> plans]

OperationInit ==
  /\ query = [available |-> Actions, phase |-> None]
  /\ ui = Catalogue(None, 0)
  /\ calls = {}

Show(next) == ui' = next /\ UNCHANGED <<query, calls>>

---------------------------------------------------------------------------
(* StorageOperationsPage: catalogue and history *)

\* A portable action is disabled for a provider the policy leaves out; native
\* ones are listed for their own provider, or all together.
Linked(scope) ==
  {a \in query.available :
     IF Kind[a] = None THEN scope \in Portable \cup {None}
                       ELSE scope \in {Kind[a], None}}

\* setFilter of the provider; the other filters, and the history each selects,
\* change nothing else.
SetFilter(scope) == ui.view = "list" /\ Show(Catalogue(scope, ui.plans))

ActionsAnswered(available) ==
  /\ query' = [query EXCEPT !.available = available]
  /\ UNCHANGED <<ui, calls>>

OpenAction(a) ==
  /\ ui.view = "list" /\ a \in Linked(ui.scope)
  /\ Show(Fresh(a, ui.plans))

---------------------------------------------------------------------------
(* StorageActionPage *)

\* The useEffect on actionId: the component stays, and so does a plan that is
\* still being made.
SwitchAction(a) ==
  /\ ui.view = "action" /\ a # ui.action
  /\ Show([Fresh(a, ui.plans) EXCEPT !.since = ui.since])

\* The answer to a plan is for the component that asked for it.
Leave ==
  /\ ui.view # "list"
  /\ ui' = Catalogue(None, ui.plans)
  /\ calls' = {c \in calls : c.op # "plan"}
  /\ UNCHANGED query

FormShown == ui.view = "action" /\ ui.action \in query.available

\* The fields: each drops the plan, and with it the confirmation.
Edit(form) ==
  /\ FormShown /\ form # ui.form
  /\ Show([ui EXCEPT !.form = form, !.plan = None, !.confirmOpen = FALSE])

EditName == \E n \in Names : Edit([ui.form EXCEPT !.name = n])
EditParameter == \E p \in {"default", "edited"} : Edit([ui.form EXCEPT !.parameters = p])
planning == \E c \in calls : c.op = "plan"

request == [action |-> ui.action, form |-> ui.form]

createPlan ==
  /\ FormShown /\ ui.form.name # "" /\ ~planning /\ ui.plans < MaxPlans
  /\ ui' = [ui EXCEPT !.plan = None, !.plans = @ + 1]
  /\ calls' = calls \cup {[op |-> "plan", request |-> request, nr |-> ui.plans + 1]}
  /\ UNCHANGED query

\* Seeded fault: the answers given to the last plan are kept for the next.
PlanShown(plan) == [ui EXCEPT !.plan = plan, !.confirmOpen = FALSE]

\* Nothing that was confirmed about an earlier plan holds for this one.
setPlan(plan) ==
  [ui EXCEPT !.plan = plan, !.ack = 0, !.typed = "", !.confirmOpen = FALSE]

PlanAnswered(c) ==
  /\ c.op = "plan" /\ ui.view = "action"
  /\ \/ \E warned \in BOOLEAN :
          ui' = setPlan([of |-> c.request, nr |-> c.nr, warned |-> warned])
     \/ UNCHANGED ui
  /\ calls' = calls \ {c}
  /\ UNCHANGED query

\* PlanReview's button
RequestConfirmation ==
  /\ FormShown /\ ui.plan # None /\ ~ui.confirmOpen
  /\ Show([ui EXCEPT !.confirmOpen = TRUE])

\* The dialog is outside of what an unavailable action hides.
DialogShown == ui.view = "action" /\ ui.plan # None /\ ui.confirmOpen

CancelConfirmation == DialogShown /\ Show([ui EXCEPT !.confirmOpen = FALSE])

Acknowledge ==
  /\ DialogShown /\ ui.plan.warned
  /\ Show([ui EXCEPT !.ack = IF @ = 0 THEN ui.plan.nr ELSE 0])

TypeName(n) ==
  /\ DialogShown /\ ui.action \in Typed /\ n # ui.typed
  /\ Show([ui EXCEPT !.typed = n])

\* Of this mount of the component.
submitting == \E c \in calls : c.op = "submit" /\ c.plan.nr > ui.since

\* OperationApprovalDialog's disabled
CanConfirm ==
  /\ ~submitting
  /\ ui.plan.warned => ui.ack # 0
  /\ ui.plan.of.action \in Typed => ui.typed = ui.plan.of.form.name

\* The form's request with the plan's target and challenge.
submit ==
  /\ DialogShown /\ CanConfirm
  /\ calls' = calls \cup {[op |-> "submit", plan |-> ui.plan, ack |-> ui.ack,
                           request |-> [request EXCEPT !.form.name = ui.plan.of.form.name]]}
  /\ UNCHANGED <<query, ui>>

\* Wherever the user is by then, an accepted submission shows its operation.
SubmitAnswered(c) ==
  /\ c.op = "submit"
  /\ \/ /\ ui' = [view |-> "detail", plans |-> ui.plans]
        /\ calls' = {d \in calls : d.op # "plan"} \ {c}
        /\ query' = [query EXCEPT !.phase = None]
     \/ /\ calls' = calls \ {c}
        /\ UNCHANGED <<query, ui>>

---------------------------------------------------------------------------
(* StorageOperationDetailPage *)

\* useStorageOperation polls until it was brought a terminal phase.
OperationPolled(phase) ==
  /\ ui.view = "detail" /\ query.phase \notin Terminal
  /\ phase = "Pending" => query.phase \in {None, "Pending"}
  /\ query' = [query EXCEPT !.phase = phase]
  /\ UNCHANGED <<ui, calls>>

---------------------------------------------------------------------------
OperationNext ==
  \/ \E scope \in Providers \cup {None} : SetFilter(scope)
  \/ \E available \in SUBSET Actions : ActionsAnswered(available)
  \/ \E a \in Actions : OpenAction(a)
  \/ \E a \in Actions : SwitchAction(a)
  \/ Leave
  \/ EditName
  \/ EditParameter
  \/ createPlan
  \/ \E c \in calls : PlanAnswered(c)
  \/ RequestConfirmation
  \/ CancelConfirmation
  \/ Acknowledge
  \/ \E n \in Names : TypeName(n)
  \/ submit
  \/ \E c \in calls : SubmitAnswered(c)
  \/ \E phase \in Terminal \cup {"Pending", "Running"} : OperationPolled(phase)

OperationSpec == OperationInit /\ [][OperationNext]_operationVars

---------------------------------------------------------------------------
TypeOK ==
  /\ query.available \subseteq Actions
  /\ query.phase \in Terminal \cup {"Pending", "Running", None}
  /\ ui.view \in {"list", "action", "detail"}
  /\ ui.view = "action" => ui.action \in Actions /\ ui.ack \in 0 .. MaxPlans
  /\ \A c \in calls : c.op \in {"plan", "submit"}

\* Warnings are acknowledged for the very plan that is submitted: not for one
\* that was on the screen before it, whatever was edited, planned again or
\* answered late in between.
WarningsReviewed ==
  \A c \in calls : c.op = "submit" /\ c.plan.warned => c.ack = c.plan.nr

\* "confirm the exact approved plan": what is submitted is the request that was
\* planned.  It does not hold: a field edited, or an action switched, while the
\* plan is being made stays edited when the plan arrives.
SubmitsWhatWasPlanned ==
  \A c \in calls : c.op = "submit" => c.request = c.plan.of
============================================================================

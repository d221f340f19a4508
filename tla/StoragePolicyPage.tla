-------------------------- MODULE StoragePolicyPage --------------------------
(***************************************************************************)
(* The administrator's page of the runtime storage policy: a draft made    *)
(* from presets, gates and provider scopes, its review by the server, and  *)
(* the confirmation that applies it.  The server's side is RuntimePolicy.  *)
(***************************************************************************)
EXTENDS Naturals

CONSTANTS Detected,    \* providers with drivers, as the cluster reports them
          Requests,    \* policies that other clients write
          Ceilings,    \* capabilities an installation may permit
          None,
          MaxRevision  \* changes of the policy object (bound)

VARIABLES query, \* the policy as last brought, its ceiling, and whether it may be edited
          ui,    \* draft, plan and confirmation
          calls  \* reviews and changes that have not been answered

policyVars == <<query, ui, calls>>

Wildcard == "*"
Scopes == {"portable", "longhorn", "rook", "classDelete", "poolDelete"}
Fields == Scopes \cup {"accept"}

Disabled == [on |-> {}, ids |-> {}]

Native == [on |-> {"accept", "longhorn"}, ids |-> {}]
Full == [on |-> {"accept", "longhorn", "portable"}, ids |-> {"longhorn"}]

\* storagePolicyPreset, and the capabilities whose absence disables its button
Presets == {<<Disabled, {}>>, <<Native, {"longhorn"}>>, <<Full, {"longhorn", "portable"}>>}

\* The acknowledgement with the cluster's identity and the enabling phrase, and
\* the phrase for deleting pools.
Phrases == {"enablement", "pool"}

NoPlan == [policy |-> None]

PolicyInit ==
  /\ query \in [requested : Requests, revision : {0}, mutable : BOOLEAN, ceiling : Ceilings]
  /\ ui = [draft |-> query.requested, plan |-> NoPlan, open |-> FALSE, confirmed |-> {}]
  /\ calls = {}

Show(next) == ui' = next /\ UNCHANGED <<query, calls>>

---------------------------------------------------------------------------
(* The draft *)

Parent(key) == IF key \in {"classDelete", "poolDelete"} THEN {"accept", "rook"} ELSE {"accept"}

\* Seeded fault: a gate that is closed leaves the gates below it open.
FieldOnly(p, key, checked) ==
  [p EXCEPT !.on = IF checked THEN @ \cup {key} ELSE @ \ {key}]

\* Closing a gate closes what it is the parent of.
updatePolicyField(p, key, checked) ==
  IF checked THEN [p EXCEPT !.on = @ \cup {key}]
  ELSE CASE key = "accept" -> Disabled
         [] key = "rook" -> [p EXCEPT !.on = @ \ {"rook", "classDelete", "poolDelete"}]
         [] OTHER -> [p EXCEPT !.on = @ \ {key}]

WithIds(p, ids) ==
  [on |-> IF ids = {} THEN p.on \ {"portable"} ELSE p.on \cup {"portable"}, ids |-> ids]

\* The legacy wildcard gives way to the providers that are detected now.
updatePortableProvider(p, id, checked) ==
  LET explicit == IF Wildcard \in p.ids THEN Detected ELSE p.ids
  IN  WithIds(p, (IF checked THEN explicit \cup {id} ELSE explicit \ {id}) \ {Wildcard})

SetDraft(p) == Show([ui EXCEPT !.draft = p])

UsePreset ==
  /\ ~ui.open
  /\ \E preset \in Presets : preset[2] \subseteq query.ceiling /\ SetDraft(preset[1])

\* The global gate, and the cards of the three scopes.
ToggleField(key) ==
  /\ ~ui.open /\ query.mutable /\ key # "portable"
  /\ key # "accept" => Parent(key) \subseteq ui.draft.on /\ key \in query.ceiling
  /\ SetDraft(updatePolicyField(ui.draft, key, key \notin ui.draft.on))

Scoped == query.mutable /\ "portable" \in query.ceiling

ToggleProvider(id) ==
  /\ ~ui.open /\ Scoped /\ "accept" \in ui.draft.on
  /\ SetDraft(updatePortableProvider(ui.draft, id, {id, Wildcard} \cap ui.draft.ids = {}))

\* onMigrate
Migrate ==
  /\ ~ui.open /\ Scoped /\ Wildcard \in ui.draft.ids
  /\ SetDraft(WithIds(ui.draft, Detected))

changed == ui.draft # query.requested

Reset == ~ui.open /\ changed /\ SetDraft(query.requested)

---------------------------------------------------------------------------
(* The policy arrives *)

\* The useEffect on the requested policy and its resourceVersion: what was
\* being edited gives way, also to a version that only has another status.
Arrives(requested, now) ==
  /\ query.revision < MaxRevision
  /\ query' = [query EXCEPT !.requested = requested, !.revision = @ + 1]
  /\ ui' = [now EXCEPT !.draft = requested]

PolicyPolled(requested) == Arrives(requested, ui) /\ UNCHANGED calls

---------------------------------------------------------------------------
(* Review and confirmation *)

Waiting(op) == \E c \in calls : c.op = op

review ==
  /\ ~ui.open /\ changed /\ query.mutable /\ ~Waiting("plan")
  /\ calls' = calls \cup {[op |-> "plan", policy |-> ui.draft, revision |-> query.revision,
                           broadening |-> ~(ui.draft.on \subseteq query.requested.on),
                           pool |-> "poolDelete" \in ui.draft.on \ query.requested.on]}
  /\ UNCHANGED <<query, ui>>

\* A plan for the policy that was drafted, and compared with the one it was
\* drafted for, when review was pressed.
ReviewAnswered(c) ==
  /\ c.op = "plan"
  /\ \/ ui' = [ui EXCEPT !.plan = [policy |-> c.policy, revision |-> c.revision,
                                   broadening |-> c.broadening, pool |-> c.pool],
                         !.open = TRUE, !.confirmed = {}]
     \/ UNCHANGED ui
  /\ calls' = calls \ {c}
  /\ UNCHANGED query

Required(plan) ==
  (IF plan.broadening THEN {"enablement"} ELSE {})
    \cup (IF plan.pool THEN {"pool"} ELSE {})

Confirm(k) ==
  /\ ui.open /\ k \in Required(ui.plan)
  /\ Show([ui EXCEPT !.confirmed = IF k \in @ THEN @ \ {k} ELSE @ \cup {k}])

\* A plan that is not shown is not used again.
Closed(now) == [now EXCEPT !.open = FALSE, !.plan = NoPlan, !.confirmed = {}]

Cancel == ui.open /\ Show(Closed(ui))

\* The draft of now, for the version of now, with the plan's challenge.
apply ==
  /\ ui.open /\ ~Waiting("apply")
  /\ Required(ui.plan) \subseteq ui.confirmed
  /\ calls' = calls \cup {[op |-> "apply", policy |-> ui.draft, reviewed |->
                ui.plan.policy = ui.draft /\ ui.plan.revision = query.revision]}
  /\ UNCHANGED <<query, ui>>

\* The server takes only what the challenge was given for; then the policy is
\* fetched anew and the dialog that is open by then closed.
ApplyAnswered(c) ==
  /\ c.op = "apply"
  /\ \/ /\ c.reviewed
        /\ Arrives(c.policy, Closed(ui))
     \/ UNCHANGED <<query, ui>>
  /\ calls' = calls \ {c}

---------------------------------------------------------------------------
PolicyNext ==
  \/ UsePreset
  \/ \E key \in Fields : ToggleField(key)
  \/ \E id \in Detected : ToggleProvider(id)
  \/ Migrate
  \/ Reset
  \/ \E p \in Requests : PolicyPolled(p)
  \/ review
  \/ \E c \in calls : ReviewAnswered(c)
  \/ \E k \in Phrases : Confirm(k)
  \/ Cancel
  \/ apply
  \/ \E c \in calls : ApplyAnswered(c)

PolicySpec == PolicyInit /\ [][PolicyNext]_policyVars

---------------------------------------------------------------------------
\* Providers that others entered need not be detected.
IsPolicy(p) ==
  p.on \subseteq Fields /\ p.ids \subseteq Detected \cup {"longhorn", Wildcard} \cup UNION {r.ids : r \in Requests}

TypeOK ==
  /\ IsPolicy(query.requested) /\ query.revision \in 0 .. MaxRevision
  /\ IsPolicy(ui.draft) /\ ui.confirmed \subseteq Phrases
  /\ ui.open => IsPolicy(ui.plan.policy)
  /\ \A c \in calls : c.op \in {"plan", "apply"} /\ IsPolicy(c.policy)

\* What Validate of the API demands: no scope without the global gate, no
\* deletion of Ceph resources without its native scope, and common workflows
\* exactly with providers to use them on.
Admissible(p) ==
  /\ p.on \cap Scopes # {} => "accept" \in p.on
  /\ {"classDelete", "poolDelete"} \cap p.on # {} => "rook" \in p.on
  /\ "portable" \in p.on <=> p.ids # {}

\* Whatever sequence of presets, gates, providers, polls and late answers a
\* draft went through, it is one that the API's validation accepts.
DraftAdmissible == Admissible(ui.draft)
============================================================================

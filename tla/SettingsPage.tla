---------------------------- MODULE SettingsPage ----------------------------
(***************************************************************************)
(* The page of settings: drafts of their values, one by one for the        *)
(* engines of a setting that has a value for each, and a dialog before a   *)
(* dangerous one is applied.  It is the page of a user who may change them. *)
(***************************************************************************)
EXTENDS FiniteSets

CONSTANTS Lists, \* the lists that may arrive: by name, [category, readOnly, byEngine, value]
          Names,
          Values,
          None

VARIABLES query, \* the settings as the cache has them
          ui,    \* the drafts and the dialog
          calls  \* the saves waiting for their answers

settingsVars == <<query, ui, calls>>

\* A value is a text, or an object with a text for each engine.
Text(v) == [engines |-> {}, of |-> <<v>>]

Engines == {"v1", "v2"}

\* A draft is of a setting, or of an engine of one; None is none.
SettingsInit ==
  /\ query \in [settings : Lists]
  /\ ui = [drafts |-> [k \in Names \X (Engines \cup {None}) |-> None],
           dangerTarget |-> None, dangerValue |-> None, typed |-> None]
  /\ calls = {}

Setting(n) == query.settings[n]

\* The category that says so; "danger zone" stands for all of them.
isDanger(n) == Setting(n).category = "danger zone"

\* An object with a value for an engine, or one that says it has; a text that
\* says it has gets a single input.
engineMapOf(n) ==
  LET v == Setting(n).value
  IN  IF v.engines # {} /\ (Setting(n).byEngine \/ v.engines \cap {"v1", "v2"} # {})
      THEN v.engines ELSE {}

Draft(n, e) == ui.drafts[<<n, e>>]

valueOf(n) == IF Draft(n, None) # None THEN Text(Draft(n, None)) ELSE Setting(n).value

engineValueOf(n, e) == IF Draft(n, e) # None THEN Draft(n, e) ELSE Setting(n).value.of[e]

\* The drafts over what the list holds by now.
serializeEngineMap(n) ==
  [engines |-> engineMapOf(n), of |-> [e \in engineMapOf(n) |-> engineValueOf(n, e)]]

isEngineDirty(n) ==
  \E e \in engineMapOf(n) : Draft(n, e) \notin {None, Setting(n).value.of[e]}

Dirty(n) ==
  IF engineMapOf(n) # {} THEN isEngineDirty(n)
  ELSE Draft(n, None) # None /\ Text(Draft(n, None)) # Setting(n).value

NewValue(n) == IF engineMapOf(n) # {} THEN serializeEngineMap(n) ELSE valueOf(n)

isPending == calls # {}

---------------------------------------------------------------------------
Poll(settings) == query' = [settings |-> settings] /\ UNCHANGED <<ui, calls>>

\* One input for a text, one for each engine of an object.
EnterDraft(n, e, v) ==
  /\ ui.dangerTarget = None /\ ~Setting(n).readOnly
  /\ e \in IF engineMapOf(n) = {} THEN {None} ELSE engineMapOf(n)
  /\ ui' = [ui EXCEPT !.drafts[<<n, e>>] = v]
  /\ UNCHANGED <<query, calls>>

\* The new value is in the list until the answer; a refusal brings that list back.
Apply(n, value) ==
  /\ calls' = calls \cup {[setting |-> n, value |-> value, engines |-> engineMapOf(n),
                           before |-> query.settings]}
  /\ query' = [query EXCEPT !.settings[n].value = value]
  /\ UNCHANGED ui

Ask(n) ==
  /\ ui' = [ui EXCEPT !.dangerTarget = n, !.dangerValue = NewValue(n)]
  /\ UNCHANGED <<query, calls>>

\* Seeded fault: a setting may be saved while the save of another waits.
SaveAnyTime(n) ==
  /\ ui.dangerTarget = None
  /\ ~Setting(n).readOnly /\ Dirty(n)
  /\ IF isDanger(n) THEN Ask(n) ELSE Apply(n, NewValue(n))

\* A dangerous one is asked for, with the value it has when the button is pressed.
save(n) ==
  /\ ui.dangerTarget = None
  /\ ~Setting(n).readOnly /\ Dirty(n) /\ ~isPending
  /\ IF isDanger(n) THEN Ask(n) ELSE Apply(n, NewValue(n))

\* The name typed survives the Cancel button.
DismissDanger ==
  /\ ui.dangerTarget # None
  /\ \/ ui' = [ui EXCEPT !.dangerTarget = None, !.dangerValue = None, !.typed = None]
     \/ ~isPending /\ ui' = [ui EXCEPT !.dangerTarget = None, !.dangerValue = None]
  /\ UNCHANGED <<query, calls>>

TypeName(n) ==
  /\ ui.dangerTarget # None
  /\ ui' = [ui EXCEPT !.typed = n]
  /\ UNCHANGED <<query, calls>>

ConfirmDanger ==
  /\ ui.dangerTarget # None /\ ui.typed = ui.dangerTarget /\ ~isPending
  /\ Apply(ui.dangerTarget, ui.dangerValue)

\* The drafts of the setting go, those entered while it waited too; so does
\* the dialog that is open by then.  The list is as it was answered, or is not yet.
SaveAnswered(c) ==
  /\ calls' = calls \ {c}
  /\ \/ /\ ui' = [ui EXCEPT !.dangerTarget = None, !.dangerValue = None,
                            !.drafts = [k \in DOMAIN @ |-> IF k[1] = c.setting /\ k[2] \in c.engines \cup {None}
                                                           THEN None ELSE @[k]]]
        /\ UNCHANGED query
     \/ query' = [settings |-> c.before] /\ UNCHANGED ui

---------------------------------------------------------------------------
SettingsNext ==
  \/ \E settings \in Lists : Poll(settings)
  \/ \E n \in Names, e \in Engines \cup {None}, v \in Values : EnterDraft(n, e, v)
  \/ \E n \in Names : save(n)
  \/ DismissDanger
  \/ \E n \in Names : TypeName(n)
  \/ ConfirmDanger
  \/ \E c \in calls : SaveAnswered(c)

SettingsSpec == SettingsInit /\ [][SettingsNext]_settingsVars

---------------------------------------------------------------------------
TypeOK ==
  /\ DOMAIN query.settings = Names
  /\ ui.drafts \in [Names \X (Engines \cup {None}) -> Values \cup {None}]
  /\ {ui.dangerTarget, ui.typed} \subseteq Names \cup {None}
  /\ \A c \in calls : c.setting \in Names

\* The dialog that asks for a dangerous setting is never closed by the answer
\* to the save of another: while it is open, only what it asked for waits.
AnswerIsItsOwn ==
  ui.dangerTarget # None => \A c \in calls : c.setting = ui.dangerTarget /\ c.value = ui.dangerValue

\* A dangerous setting is given the value its dialog showed, which leaves an
\* engine nothing was entered for as it is.  (It does not: what another wrote
\* since the dialog was opened is written back.)
KeepsOtherEngine ==
  \A c \in calls : \A e \in c.engines :
    ui.drafts[<<c.setting, e>>] = None => c.value.of[e] = c.before[c.setting].value.of[e]
=============================================================================

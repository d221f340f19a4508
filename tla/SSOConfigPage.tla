--------------------------- MODULE SSOConfigPage ---------------------------
(***************************************************************************)
(* The form of the OIDC configuration, as an administrator sees it: loaded *)
(* when it is shown and whenever the language changes, saved as a whole.   *)
(***************************************************************************)
EXTENDS Naturals

CONSTANTS Configs,  \* what the fields may hold, Empty among them
          Empty,
          MaxLoads  \* loads under way at once (bound)

VARIABLES query, \* the configuration the server holds, and whether it has a client secret
          ui,    \* the form
          calls  \* requests waiting for their answers

ssoVars == <<query, ui, calls>>

Load(n) == [op |-> "load", nth |-> n, cancelled |-> FALSE, read |-> query.stored]

\* The page asks as it is shown.
SSOInit ==
  /\ query \in [stored : Configs, secret : BOOLEAN]
  /\ ui = [form |-> Empty, clientSecret |-> FALSE, secretSet |-> FALSE, loading |-> TRUE,
           saving |-> FALSE, error |-> FALSE]
  /\ calls = {Load(1)}

Loads == {c \in calls : c.op = "load"}

\* A change of the language makes the effect run again: the load before is
\* cancelled, what was entered is hidden and then overwritten.
ChangeLanguage ==
  /\ \E n \in 1..MaxLoads :
       /\ \A c \in Loads : c.nth # n
       /\ calls' = (calls \ Loads) \cup {[c EXCEPT !.cancelled = TRUE] : c \in Loads} \cup {Load(n)}
  /\ ui' = [ui EXCEPT !.loading = TRUE, !.error = FALSE]
  /\ UNCHANGED query

\* As it was read between the request and the answer.
Loaded(read) ==
  [ui EXCEPT !.form = read, !.clientSecret = FALSE, !.secretSet = query.secret, !.loading = FALSE]

\* Seeded fault: a load that failed keeps the page loading.
FailureForgotten(c) ==
  /\ c.op = "load"
  /\ calls' = calls \ {c}
  /\ IF c.cancelled THEN UNCHANGED ui
     ELSE \/ \E read \in {c.read, query.stored} : ui' = Loaded(read)
          \/ ui' = [ui EXCEPT !.error = TRUE]
  /\ UNCHANGED query

\* Failed, the form is shown as it is: empty the first time.
LoadAnswered(c) ==
  /\ c.op = "load"
  /\ calls' = calls \ {c}
  /\ IF c.cancelled THEN UNCHANGED ui
     ELSE \/ \E read \in {c.read, query.stored} : ui' = Loaded(read)
          \/ ui' = [ui EXCEPT !.error = TRUE, !.loading = FALSE]
  /\ UNCHANGED query

\* The fields are hidden while the page loads, not while it saves.
Enter ==
  /\ ~ui.loading
  /\ \/ \E form \in Configs : ui' = [ui EXCEPT !.form = form]
     \/ \E secret \in BOOLEAN : ui' = [ui EXCEPT !.clientSecret = secret]
  /\ UNCHANGED <<query, calls>>

onSave ==
  /\ ~ui.loading /\ ~ui.saving
  /\ calls' = calls \cup {[op |-> "save", form |-> ui.form, secret |-> ui.clientSecret, written |-> FALSE]}
  /\ ui' = [ui EXCEPT !.saving = TRUE, !.error = FALSE]
  /\ UNCHANGED query

\* An empty secret keeps the one that is stored.
Write(c) ==
  /\ c.op = "save" /\ ~c.written
  /\ query' = [stored |-> c.form, secret |-> query.secret \/ c.secret]
  /\ calls' = (calls \ {c}) \cup {[c EXCEPT !.written = TRUE]}
  /\ UNCHANGED ui

\* The answer is shown, over what was entered since; an answer that is lost or
\* a refusal leaves the form.
SaveAnswered(c) ==
  /\ c.op = "save"
  /\ calls' = calls \ {c}
  /\ \/ c.written /\ ui' = [ui EXCEPT !.form = c.form, !.clientSecret = FALSE, !.secretSet = query.secret,
                                      !.saving = FALSE]
     \/ ui' = [ui EXCEPT !.error = TRUE, !.saving = FALSE]
  /\ UNCHANGED query

---------------------------------------------------------------------------
SSONext ==
  \/ ChangeLanguage
  \/ \E c \in calls : LoadAnswered(c)
  \/ Enter
  \/ onSave
  \/ \E c \in calls : Write(c)
  \/ \E c \in calls : SaveAnswered(c)

SSOSpec == SSOInit /\ [][SSONext]_ssoVars

---------------------------------------------------------------------------
TypeOK ==
  /\ query \in [stored : Configs, secret : BOOLEAN]
  /\ ui.form \in Configs
  /\ \A c \in calls : c.op \in {"load", "save"}

\* The page loads only as long as the load it shows waits, and saves only as
\* long as the save does: neither a failure nor a load cancelled by a change
\* of the language leaves it without its fields or its button.
PageReleased ==
  /\ ui.loading => \E c \in Loads : ~c.cancelled
  /\ ui.saving => \E c \in calls : c.op = "save"
=============================================================================

----------------------------- MODULE ShellState -----------------------------
(***************************************************************************)
(* What surrounds every page: the theme, the boundary that catches a page  *)
(* that fails, the messages that pass.                                     *)
(***************************************************************************)
EXTENDS Naturals, Sequences, SequencesExt

CONSTANTS Paths,     \* of pages, each loaded when it is first opened
          Kept,      \* messages that stay when another one comes
          MaxToasts, \* (bound)
          None,
          Visits     \* what a visit is for (bound): "theme", "pages", "messages"

VARIABLES query, \* the browser: the stored theme, the preference of the system; the server: its release
          ui,    \* the theme, the document, the boundary, the messages
          calls  \* the messages whose timers run, the oldest first

shellVars == <<query, ui, calls>>

Modes == <<"light", "dark", "system">>

---------------------------------------------------------------------------
(* The theme *)

resolveTheme(mode) == IF mode = "system" THEN query.osDark ELSE mode = "dark"

\* Anything else, or a storage that cannot be read, is the theme of the system.
readStored == IF query.stored \in {"light", "dark", "system"} /\ ~query.blocked THEN query.stored ELSE "system"

Applied(s, mode) == [s EXCEPT !.resolved = resolveTheme(mode), !.document = resolveTheme(mode)]

\* The class of the document before the application runs.
Painted == ~query.blocked /\ (query.stored = "dark" \/ (query.stored = "system" /\ query.osDark))

Started(visit, path) ==
  [visit |-> visit, theme |-> readStored, resolved |-> resolveTheme(readStored), document |-> Painted,
   effects |-> TRUE, listening |-> FALSE, path |-> path, error |-> None, resetKey |-> path,
   loaded |-> {path}, broken |-> {}, release |-> query.release, toasts |-> <<>>]

\* The effects of another theme run once it is shown.
setTheme(mode) ==
  /\ query' = IF query.blocked THEN query ELSE [query EXCEPT !.stored = mode]
  /\ ui' = Applied([ui EXCEPT !.theme = mode, !.effects = @ \/ mode # ui.theme], mode)
  /\ UNCHANGED calls

cycleTheme ==
  /\ ui.visit = "theme"
  /\ LET i == CHOOSE i \in 1..3 : Modes[i] = ui.theme
     IN  setTheme(Modes[(i % 3) + 1])

\* Seeded fault: the effect only minds the listener.
Subscribed ==
  /\ ui.effects /\ ui' = [ui EXCEPT !.effects = FALSE, !.listening = ui.theme = "system"]
  /\ UNCHANGED <<query, calls>>

ThemeEffects ==
  /\ ui.effects
  /\ ui' = Applied([ui EXCEPT !.effects = FALSE, !.listening = ui.theme = "system"], ui.theme)
  /\ UNCHANGED <<query, calls>>

\* Heard by the listener, which outlives its theme until the effects run.
SystemChanges ==
  /\ ui.visit = "theme"
  /\ query' = [query EXCEPT !.osDark = ~@]
  /\ ui' = IF ui.listening THEN [ui EXCEPT !.resolved = ~query.osDark, !.document = ~query.osDark] ELSE ui
  /\ UNCHANGED calls

\* With the release of the server by then.
Reload ==
  /\ ui' = Started(ui.visit, ui.path) /\ calls' = <<>>
  /\ UNCHANGED query

---------------------------------------------------------------------------
(* The boundary around the pages *)

\* A page that was not opened before is loaded, by the names its release gave
\* it; a failure to load is remembered for as long as the application runs.
Loads(s, p) ==
  IF p \in s.broken \/ (p \notin s.loaded /\ s.release # query.release)
  THEN [s EXCEPT !.error = "chunk", !.broken = @ \cup {p}]
  ELSE [s EXCEPT !.loaded = @ \cup {p}]

\* Seeded fault: another page does not clear the failure of the one before.
KeepsError(s, p) == [s EXCEPT !.path = p, !.resetKey = p]

\* getDerivedStateFromProps
Reset(s, p) == [s EXCEPT !.path = p, !.error = IF p # s.resetKey THEN None ELSE @, !.resetKey = p]

Navigate(p) ==
  /\ ui.visit = "pages" /\ p # ui.path
  /\ ui' = Loads(Reset(ui, p), p)
  /\ UNCHANGED <<query, calls>>

PageThrows ==
  /\ ui.visit = "pages" /\ ui.error = None
  /\ ui' = [ui EXCEPT !.error = ui.path]
  /\ UNCHANGED <<query, calls>>

\* Only a reload loads a page again.
TryAgain ==
  /\ ui.error # None
  /\ IF ui.error = "chunk" THEN Reload ELSE ui' = Loads([ui EXCEPT !.error = None], ui.path) /\ UNCHANGED <<query, calls>>

Redeploy ==
  /\ ui.visit = "pages" /\ query.release = 1
  /\ query' = [query EXCEPT !.release = 2]
  /\ UNCHANGED <<ui, calls>>

---------------------------------------------------------------------------
(* The messages *)

Ids(messages) == {messages[i] : i \in DOMAIN messages}

\* An id is of one message only; a timer may find it gone.
dismiss(id) ==
  \/ \E i \in DOMAIN ui.toasts : ui.toasts[i] = id /\ ui' = [ui EXCEPT !.toasts = RemoveAt(@, i)]
  \/ id \notin Ids(ui.toasts) /\ UNCHANGED ui

\* Seeded fault: a message takes over the timer of the one before.
TakesTimer(id) ==
  /\ ui' = [ui EXCEPT !.toasts = Append(@, id)] /\ calls' = <<id>>
  /\ UNCHANGED query

\* The oldest ones make room.
Shows(id) ==
  /\ ui' = [ui EXCEPT !.toasts = Append(SubSeq(@, IF Len(@) > Kept THEN Len(@) - Kept + 1 ELSE 1, Len(@)), id)]
  /\ calls' = Append(calls, id)
  /\ UNCHANGED query

toast(id) == ui.visit = "messages" /\ id \notin Ids(calls) \cup Ids(ui.toasts) /\ Shows(id)

\* All wait as long, so the first to come is the first to go.
TimerFires ==
  /\ calls # <<>>
  /\ dismiss(Head(calls)) /\ calls' = Tail(calls)
  /\ UNCHANGED query

Dismiss(i) == i \in DOMAIN ui.toasts /\ dismiss(ui.toasts[i]) /\ UNCHANGED <<query, calls>>

---------------------------------------------------------------------------
ShellInit ==
  /\ query \in [stored : {"light", "dark", "system", "other"}, blocked : BOOLEAN, osDark : BOOLEAN, release : {1}]
  /\ \E v \in Visits, p \in Paths :
       /\ v # "theme" => query.stored = "light" /\ ~query.blocked /\ ~query.osDark
       /\ ui = Started(v, p)
  /\ calls = <<>>

ShellNext ==
  \/ cycleTheme
  \/ ThemeEffects
  \/ SystemChanges
  \/ Reload
  \/ \E p \in Paths : Navigate(p)
  \/ PageThrows
  \/ TryAgain
  \/ Redeploy
  \/ \E id \in 1..MaxToasts : toast(id)
  \/ TimerFires
  \/ \E i \in DOMAIN ui.toasts : Dismiss(i)

ShellSpec == ShellInit /\ [][ShellNext]_shellVars

---------------------------------------------------------------------------
TypeOK ==
  /\ {ui.path, ui.resetKey} \cup ui.loaded \cup ui.broken \subseteq Paths
  /\ ui.error \in {None, "chunk"} \cup Paths /\ Ids(calls) \subseteq 1..MaxToasts

\* The document is dark as the theme says, whenever no effect is about to run:
\* whichever of the theme and the system's preference changed, and in whichever
\* order with the listener.  (A theme that was chosen is stored if it can be.)
ThemeApplied ==
  ~ui.effects => ui.document = resolveTheme(ui.theme) /\ ui.resolved = ui.document

\* "Reset the boundary on navigation": a failure is that of the page on show.
FailureOfItsPage ==
  ui.error # None => ui.resetKey = ui.path /\ (IF ui.error = "chunk" THEN ui.path \in ui.broken ELSE ui.error = ui.path)

\* Each message on show has a timer of its own to take it away.
MessagesPass == Len(ui.toasts) <= Kept + 1 /\ \A i \in DOMAIN ui.toasts : ui.toasts[i] \in Ids(calls)
=============================================================================

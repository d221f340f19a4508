--------------------------- MODULE CephDashboard ----------------------------
(***************************************************************************)
(* The card of Ceph's own dashboard: the link that leads there, and the    *)
(* login that an administrator may reveal, which hides again by itself.    *)
(***************************************************************************)
EXTENDS Naturals

CONSTANTS Providers, \* records of publicUrl, gatewayPath (Nowhere, or an address) and release
          Kinds,     \* of resources: the card stands on the page of one
          Nowhere,   \* no address
          HideAfter, \* the time a login is shown
          TickAfter, \* the time a copy is confirmed, shorter
          MaxTime,   \* (bound)
          None

VARIABLES query, \* the provider, the time
          ui,    \* the card
          calls  \* requests and timers

cephVars == <<query, ui, calls>>

---------------------------------------------------------------------------
(* cephDashboardHandoff.  An address is a record of its protocol, of its   *)
(* path under the gateway's prefix or not, and of whether it carries       *)
(* nothing else: credentials, a search, a fragment, a malformed host.      *)

verifiedRoutes == [r \in {"19.2", "20.2"} |-> {"pools", "osds", "filesystems", "rbd-images"}]

validRoot(url, gateway) ==
  /\ url.protocol \in {"https:", "http:"} /\ url.bare
  /\ gateway => url.underPrefix

cephDashboardHandoff(provider, kind) ==
  LET gateway == provider.publicUrl = Nowhere
      url == IF gateway THEN provider.gatewayPath ELSE provider.publicUrl
  IN  IF url = Nowhere \/ ~validRoot(url, gateway) THEN None
      ELSE [gateway |-> gateway,
            deepLinked |-> provider.release \in DOMAIN verifiedRoutes /\ kind \in verifiedRoutes[provider.release],
            insecure |-> ~gateway /\ url.protocol = "http:"]

handoff == cephDashboardHandoff(query.provider, ui.kind)

---------------------------------------------------------------------------
(* The card.  A login is known by the time it was revealed at.             *)

CephInit ==
  /\ query \in [provider : Providers, now : {0}]
  /\ ui \in [kind : Kinds, credential : {None}, credentialError : {FALSE}, revealing : {FALSE}, copied : {None}]
  /\ calls = {}

Timers == {c \in calls : c.op \in {"hide", "untick"}}

Hides(t) == [op |-> "hide", at |-> t + HideAfter]

\* Seeded fault: the timer of the login before is left to run.
Stacked(credential) == calls \cup IF credential = None THEN {} ELSE {Hides(credential)}

\* The effect of another login: its own timer instead of the one before.
Rescheduled(credential) ==
  {c \in calls : c.op # "hide"} \cup IF credential = None THEN {} ELSE {Hides(credential)}

canReveal == handoff # None /\ ~ui.revealing

canCopy == handoff # None /\ ui.credential # None

revealCredential ==
  /\ canReveal
  /\ \/ /\ ui.credential # None
        /\ ui' = [ui EXCEPT !.credential = None, !.copied = None]
        /\ calls' = Rescheduled(None)
     \/ /\ ui.credential = None
        /\ ui' = [ui EXCEPT !.credentialError = FALSE, !.revealing = TRUE]
        /\ calls' = calls \cup {[op |-> "reveal"]}
  /\ UNCHANGED query

RevealAnswered(c) ==
  /\ c.op = "reveal"
  /\ \/ /\ ui' = [ui EXCEPT !.credential = query.now, !.revealing = FALSE]
        /\ calls' = Rescheduled(query.now) \ {c}
     \/ /\ ui' = [ui EXCEPT !.credentialError = TRUE, !.revealing = FALSE]
        /\ calls' = calls \ {c}
  /\ UNCHANGED query

copyCredential ==
  /\ canCopy
  /\ calls' = calls \cup {[op |-> "copy", of |-> ui.credential]}
  /\ UNCHANGED <<query, ui>>

\* Confirmed for a while, whatever is shown by then.
CopyAnswered(c) ==
  /\ c.op = "copy"
  /\ \/ /\ ui' = [ui EXCEPT !.copied = c.of]
        /\ calls' = (calls \ {c}) \cup {[op |-> "untick", at |-> query.now + TickAfter]}
     \/ /\ ui' = [ui EXCEPT !.credentialError = TRUE]
        /\ calls' = calls \ {c}
  /\ UNCHANGED query

TimerFires(c) ==
  /\ c \in Timers /\ c.at = query.now
  /\ ui' = IF c.op = "hide" THEN [ui EXCEPT !.credential = None, !.copied = None] ELSE [ui EXCEPT !.copied = None]
  /\ calls' = calls \ {c}
  /\ UNCHANGED query

Tick ==
  /\ query.now < MaxTime /\ \A c \in Timers : c.at > query.now
  /\ query' = [query EXCEPT !.now = @ + 1]
  /\ UNCHANGED <<ui, calls>>

\* A poll of the provider, or the page of another kind: the card stays the same.
Changes(p, k) ==
  /\ p # query.provider \/ k # ui.kind
  /\ query' = [query EXCEPT !.provider = p]
  /\ ui' = [ui EXCEPT !.kind = k]
  /\ UNCHANGED calls

---------------------------------------------------------------------------
CephNext ==
  \/ revealCredential
  \/ \E c \in calls : RevealAnswered(c)
  \/ copyCredential
  \/ \E c \in calls : CopyAnswered(c)
  \/ \E c \in calls : TimerFires(c)
  \/ Tick
  \/ \E p \in Providers, k \in Kinds : Changes(p, k)

CephSpec == CephInit /\ [][CephNext]_cephVars

---------------------------------------------------------------------------
TypeOK ==
  /\ query.provider \in Providers /\ query.now \in 0..MaxTime
  /\ ui.kind \in Kinds /\ {ui.credential, ui.copied} \subseteq {None} \cup 0..MaxTime
  /\ \A c \in Timers : c.at >= query.now

\* "automatically hidden after 30 seconds": a login on show is hidden by the
\* one timer that its own revealing started, neither later nor, by the timer of
\* a login before, sooner.
HiddenInTime ==
  ui.credential # None
  => query.now <= ui.credential + HideAfter /\ {c \in calls : c.op = "hide"} = {Hides(ui.credential)}

\* The tick confirms that the login on show was copied.  (Not after a copy that
\* was answered once its login was hidden and another one revealed.)
TickOfItsLogin == ui.credential # None /\ ui.copied # None => ui.copied = ui.credential
=============================================================================

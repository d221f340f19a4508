---------------------------- MODULE SnapshotTree ----------------------------
(***************************************************************************)
(* The order in which a volume's snapshots are drawn, newest on top.  A    *)
(* listing maps each snapshot (the head of the volume is none) to its      *)
(* parent, the children that are reported for it, its time of creation and *)
(* whether it is a system one.  Nothing makes the listing agree with       *)
(* itself: parents may be gone, children reported for some snapshots only, *)
(* either may form a circle.                                               *)
(***************************************************************************)
EXTENDS Naturals, Sequences, SequencesExt

\* Seeded fault: nothing is done for managers that report no children.
ReportedChildren(snaps) ==
  [s \in DOMAIN snaps |-> snaps[s].children \cap DOMAIN snaps]

\* childrenMap: the reported children that are listed.  One such child anywhere
\* is enough for no snapshot to be given those whose parent it is.
ChildrenMap(snaps) ==
  IF \E s \in DOMAIN snaps : snaps[s].children \cap DOMAIN snaps # {}
    THEN [s \in DOMAIN snaps |-> snaps[s].children \cap DOMAIN snaps]
    ELSE [s \in DOMAIN snaps |-> {c \in DOMAIN snaps : snaps[c].parent = s}]

\* sortDesc: the last created goes first, one of them if they are several.
Newest(snaps, names) ==
  CHOOSE s \in names : \A t \in names : snaps[t].created <= snaps[s].created

Roots(snaps) == {s \in DOMAIN snaps : snaps[s].parent \notin DOMAIN snaps}

Drawn(rows) == {rows[i].snap : i \in DOMAIN rows}

\* A call of walk for each of these names in turn.
Call(names, depth, seen) == [names |-> names, depth |-> depth, seen |-> seen]

Calls(snaps) == [names : SUBSET DOMAIN snaps, depth : Nat, seen : SUBSET DOMAIN snaps]

\* The children of a snapshot, then itself; only siblings are indented.
Below(snaps, walk, name, depth, seen) ==
  LET kids == ChildrenMap(snaps)[name]
      deeper == IF Cardinality(kids) > 1 THEN depth + 1 ELSE depth
  IN  Append(walk[Call(kids, deeper, seen \cup {name})], [snap |-> name, depth |-> depth])

\* What was seen is what is drawn, and what it is drawn below.
InTurn(snaps, walk, c) ==
  IF c.names = {} THEN << >>
  ELSE LET name == Newest(snaps, c.names)
           rows == IF name \in c.seen THEN << >> ELSE Below(snaps, walk, name, c.depth, c.seen)
       IN  rows \o walk[Call(c.names \ {name}, c.depth, c.seen \cup Drawn(rows))]

Walk(snaps) ==
  LET walk[c \in Calls(snaps)] == InTurn(snaps, walk, c)
  IN  walk

\* buildOrder: the trees in order, then, in any order of their own, those that no
\* root reaches: last, even if their parents are drawn above.
BuildOrder(snaps) ==
  LET walked == Walk(snaps)[Call(Roots(snaps), 0, {})]
      orphans == SetToSeq(DOMAIN snaps \ Drawn(walked))
  IN  walked \o [i \in DOMAIN orphans |-> [snap |-> orphans[i], depth |-> 0]]

\* The rows drawn: the system ones only when they are asked for.
VisibleRows(snaps, showSystem) ==
  SelectSeq(BuildOrder(snaps), LAMBDA row : showSystem \/ ~snaps[row.snap].system)
============================================================================

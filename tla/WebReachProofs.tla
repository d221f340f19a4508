--------------------------- MODULE WebReachProofs ---------------------------
(***************************************************************************)
(* Machine-checked proofs that nothing is out of reach on the pages: the   *)
(* tree of a volume's snapshots, and the links between the pages, for any  *)
(* snapshots, listings and providers; and that the state of every page has *)
(* its type.                                                               *)
(***************************************************************************)
EXTENDS WebPagesProofs, FunctionTheorems, WellFoundedInduction

-----------------------------------------------------------------------------
(* Induction: a set of numbers has a least one *)

LEMMA NatOrder ==
  \E R : IsWellFoundedOn(R, Nat) /\ \A a, b \in Nat : a < b => <<a, b>> \in R
<1> DEFINE R == OpToRel(<, Nat)
<1>1. IsWellFoundedOn(R, Nat)
  BY NatLessThanWellFounded
<1>2. \A a, b \in Nat : a < b => <<a, b>> \in R
  BY DEF OpToRel
<1> HIDE DEF R
<1> QED
  BY <1>1, <1>2

LEMMA Least ==
  ASSUME NEW T, T \subseteq Nat, T # {}
  PROVE  \E m \in T : \A k \in T : m <= k
<1>1. PICK R : IsWellFoundedOn(R, Nat) /\ \A a, b \in Nat : a < b => <<a, b>> \in R
  BY NatOrder
<1>2. IsWellFoundedOn(R, Nat)
  BY <1>1, Zenon
<1>3. \E m \in T : \A k \in T : ~ (<<k, m>> \in R)
  BY <1>2, WFMin, Zenon
<1>4. PICK m \in T : \A k \in T : ~ (<<k, m>> \in R)
  BY <1>3, Zenon
<1>5. \A k \in T : ~(k < m)
  BY <1>1, <1>4
<1> QED
  BY <1>5

-----------------------------------------------------------------------------
(* SnapshotTree: the walk is defined *)

LEMMA SameSize == \A S : detail!Tree!Cardinality(S) = Cardinality(S)
BY DEF detail!Tree!Cardinality, Cardinality

\* The children a snapshot is drawn below.
Kids(snaps, s) == detail!Tree!ChildrenMap(snaps)[s]

\* A listing of snapshots: finitely many, taken at some time.
Listing(snaps) ==
  /\ IsFiniteSet(DOMAIN snaps)
  /\ \A s \in DOMAIN snaps : snaps[s].created \in Nat

TreeRows(snaps) == Seq([snap : DOMAIN snaps, depth : Nat])

Rank(snaps, c) ==
  Cardinality(DOMAIN snaps \ c.seen) * (Cardinality(DOMAIN snaps) + 1) + Cardinality(c.names)

\* Of finitely many some snapshot has the most that are not newer.
LEMMA NewestIs ==
  ASSUME NEW snaps, Listing(snaps), NEW names \in SUBSET DOMAIN snaps, names # {}
  PROVE  /\ detail!Tree!Newest(snaps, names) \in names
         /\ \A t \in names : snaps[t].created <= snaps[detail!Tree!Newest(snaps, names)].created
<1> DEFINE older(s) == {t \in names : snaps[t].created <= snaps[s].created}
           gaps == {Cardinality(names) - Cardinality(older(s)) : s \in names}
<1>1. IsFiniteSet(names) /\ Cardinality(names) \in Nat
  BY FS_Subset, FS_CardinalityType DEF Listing
<1>2. \A s \in names : older(s) \in SUBSET names
  OBVIOUS
<1>3. \A s \in names : snaps[s].created \in Nat
  BY DEF Listing
<1>4. \A s, t \in names : snaps[s].created < snaps[t].created => older(s) \subseteq older(t) /\ t \notin older(s) /\ t \in older(t)
  BY <1>3
<1> HIDE DEF older
<1>5. \A s \in names : /\ IsFiniteSet(older(s)) /\ Cardinality(older(s)) \in Nat
                       /\ Cardinality(older(s)) <= Cardinality(names)
  BY <1>1, <1>2, FS_Subset, FS_CardinalityType
<1>6. gaps \subseteq Nat /\ gaps # {}
  BY <1>1, <1>5
<1>7. \A s \in names : Cardinality(names) - Cardinality(older(s)) \in gaps
  OBVIOUS
<1>8. \A m \in gaps : \E s \in names : m = Cardinality(names) - Cardinality(older(s))
  OBVIOUS
<1> HIDE DEF gaps
<1>9. PICK m \in gaps : \A k \in gaps : m <= k
  BY <1>6, Least
<1>10. PICK s \in names : m = Cardinality(names) - Cardinality(older(s))
  BY <1>8, <1>9
<1>11. ASSUME NEW t \in names
       PROVE  snaps[t].created <= snaps[s].created
  <2>1. ASSUME snaps[s].created < snaps[t].created
        PROVE  FALSE
    <3>1. older(s) \in SUBSET older(t) /\ older(s) # older(t)
      BY <1>4, <2>1
    <3>2. Cardinality(older(s)) <= Cardinality(older(t)) /\ Cardinality(older(s)) # Cardinality(older(t))
      BY <1>5, <3>1, FS_Subset
    <3>3. Cardinality(names) - Cardinality(older(t)) < m
      BY <1>1, <1>5, <1>10, <3>2
    <3>4. m <= Cardinality(names) - Cardinality(older(t))
      BY <1>7, <1>9
    <3> QED
      BY <1>1, <1>5, <1>6, <3>3, <3>4
  <2> QED
    BY <1>3, <2>1
<1>12. \E x \in names : \A t \in names : snaps[t].created <= snaps[x].created
  BY <1>11
<1> QED
  BY <1>12 DEF detail!Tree!Newest

LEMMA RankIsNat ==
  ASSUME NEW snaps, IsFiniteSet(DOMAIN snaps), NEW c \in detail!Tree!Calls(snaps)
  PROVE  /\ Rank(snaps, c) \in Nat
         /\ Cardinality(c.names) \in Nat /\ Cardinality(c.names) <= Cardinality(DOMAIN snaps)
         /\ Cardinality(DOMAIN snaps \ c.seen) \in Nat
         /\ Cardinality(DOMAIN snaps) \in Nat
         /\ Cardinality(DOMAIN snaps \ c.seen) <= Cardinality(DOMAIN snaps)
<1>1. c.names \in SUBSET DOMAIN snaps /\ DOMAIN snaps \ c.seen \in SUBSET DOMAIN snaps
  BY DEF detail!Tree!Calls
<1>2. /\ IsFiniteSet(c.names) /\ IsFiniteSet(DOMAIN snaps \ c.seen)
      /\ Cardinality(c.names) <= Cardinality(DOMAIN snaps)
      /\ Cardinality(DOMAIN snaps \ c.seen) <= Cardinality(DOMAIN snaps)
  BY <1>1, FS_Subset
<1>3. Cardinality(c.names) \in Nat /\ Cardinality(DOMAIN snaps) \in Nat /\ Cardinality(DOMAIN snaps \ c.seen) \in Nat
  BY <1>2, FS_CardinalityType
<1>4. \A a, b \in Nat : a * (b + 1) \in Nat
  OBVIOUS
<1> QED
  BY <1>2, <1>3, <1>4 DEF Rank

LEMMA Lower ==
  ASSUME NEW a \in Nat, NEW b \in Nat, NEW a2 \in Nat, NEW b2 \in Nat, NEW n \in Nat,
         b2 <= n, a2 < a
  PROVE  a2 * (n + 1) + b2 < a * (n + 1) + b
<1>1. PICK d \in Nat : a = a2 + 1 + d
  <2>1. a - a2 - 1 \in Nat /\ a = a2 + 1 + (a - a2 - 1)
    OBVIOUS
  <2> QED
    BY <2>1
<1>2. (a2 + 1 + d) * (n + 1) = a2 * (n + 1) + (n + 1) + d * (n + 1)
  OBVIOUS
<1>3. d * (n + 1) \in Nat /\ a2 * (n + 1) \in Nat
  OBVIOUS
<1> QED
  BY <1>1, <1>2, <1>3

LEMMA NotMore ==
  ASSUME NEW a \in Nat, NEW b \in Nat, NEW a2 \in Nat, NEW b2 \in Nat, NEW n \in Nat,
         b2 < b, a2 <= a
  PROVE  a2 * (n + 1) + b2 < a * (n + 1) + b
<1>1. PICK d \in Nat : a = a2 + d
  <2>1. a - a2 \in Nat /\ a = a2 + (a - a2)
    OBVIOUS
  <2> QED
    BY <2>1
<1>2. (a2 + d) * (n + 1) = a2 * (n + 1) + d * (n + 1)
  OBVIOUS
<1>3. d * (n + 1) \in Nat /\ a2 * (n + 1) \in Nat
  OBVIOUS
<1> QED
  BY <1>1, <1>2, <1>3

\* One more snapshot was seen.
LEMMA RankBelow ==
  ASSUME NEW snaps, IsFiniteSet(DOMAIN snaps), NEW c \in detail!Tree!Calls(snaps),
         NEW name \in DOMAIN snaps \ c.seen, NEW kids \in SUBSET DOMAIN snaps, NEW depth \in Nat
  PROVE  /\ detail!Tree!Call(kids, depth, c.seen \cup {name}) \in detail!Tree!Calls(snaps)
         /\ Rank(snaps, detail!Tree!Call(kids, depth, c.seen \cup {name})) < Rank(snaps, c)
<1> DEFINE d == detail!Tree!Call(kids, depth, c.seen \cup {name})
           left == DOMAIN snaps \ c.seen
<1>1. d \in detail!Tree!Calls(snaps) /\ d.names = kids /\ d.seen = c.seen \cup {name}
  BY DEF detail!Tree!Calls, detail!Tree!Call
<1>2. DOMAIN snaps \ d.seen = left \ {name}
  BY <1>1
<1>3. IsFiniteSet(left)
  BY FS_Subset
<1>4. Cardinality(left \ {name}) = Cardinality(left) - 1
  BY <1>3, FS_RemoveElement
<1> HIDE DEF d
<1>5. /\ Cardinality(d.names) \in Nat /\ Cardinality(DOMAIN snaps \ d.seen) \in Nat
      /\ Cardinality(d.names) <= Cardinality(DOMAIN snaps)
      /\ Cardinality(c.names) \in Nat /\ Cardinality(left) \in Nat
      /\ Cardinality(DOMAIN snaps) \in Nat
  BY <1>1, RankIsNat
<1> HIDE DEF left
<1>8. Cardinality(DOMAIN snaps \ d.seen) = Cardinality(left) - 1
  BY <1>2, <1>4
<1>6. Cardinality(DOMAIN snaps \ d.seen) < Cardinality(left)
  BY <1>5, <1>8
<1>7. Rank(snaps, d) < Rank(snaps, c)
  BY <1>5, <1>6, Lower DEF Rank, left
<1> QED
  BY <1>1, <1>7 DEF d

\* One less is asked for.
LEMMA RankNext ==
  ASSUME NEW snaps, IsFiniteSet(DOMAIN snaps), NEW c \in detail!Tree!Calls(snaps),
         NEW name \in c.names, NEW drawn \in SUBSET DOMAIN snaps
  PROVE  /\ detail!Tree!Call(c.names \ {name}, c.depth, c.seen \cup drawn) \in detail!Tree!Calls(snaps)
         /\ Rank(snaps, detail!Tree!Call(c.names \ {name}, c.depth, c.seen \cup drawn)) < Rank(snaps, c)
<1> DEFINE d == detail!Tree!Call(c.names \ {name}, c.depth, c.seen \cup drawn)
           left == DOMAIN snaps \ c.seen
<1>1. d \in detail!Tree!Calls(snaps) /\ d.names = c.names \ {name} /\ d.seen = c.seen \cup drawn
  BY DEF detail!Tree!Calls, detail!Tree!Call
<1>2. DOMAIN snaps \ d.seen \in SUBSET left
  BY <1>1
<1>3. IsFiniteSet(left) /\ IsFiniteSet(c.names)
  BY FS_Subset DEF detail!Tree!Calls
<1>4. Cardinality(DOMAIN snaps \ d.seen) <= Cardinality(left)
  BY <1>2, <1>3, FS_Subset
<1>5. Cardinality(c.names \ {name}) = Cardinality(c.names) - 1
  BY <1>3, FS_RemoveElement
<1> HIDE DEF d
<1>7. /\ Cardinality(d.names) \in Nat /\ Cardinality(DOMAIN snaps \ d.seen) \in Nat
      /\ Cardinality(c.names) \in Nat /\ Cardinality(DOMAIN snaps \ c.seen) \in Nat
      /\ Cardinality(DOMAIN snaps) \in Nat
  BY <1>1, RankIsNat
<1>6. Cardinality(d.names) < Cardinality(c.names)
  BY <1>1, <1>5, <1>7
<1>8. Rank(snaps, d) < Rank(snaps, c)
  BY <1>4, <1>6, <1>7, NotMore DEF Rank
<1> QED
  BY <1>1, <1>8 DEF d

-----------------------------------------------------------------------------

\* What a walk of lower calls returns.
Walks(snaps, w, n) ==
  \A c \in detail!Tree!Calls(snaps) : Rank(snaps, c) < n => w[c] = detail!Tree!InTurn(snaps, w, c) /\ w[c] \in TreeRows(snaps)

LEMMA DrawnThere ==
  ASSUME NEW snaps, NEW rows \in TreeRows(snaps)
  PROVE  detail!Tree!Drawn(rows) \in SUBSET DOMAIN snaps
<1> DEFINE Row == [snap : DOMAIN snaps, depth : Nat]
<1>2. \A r \in Row : r.snap \in DOMAIN snaps
  OBVIOUS
<1> HIDE DEF Row
<1>3. rows \in Seq(Row)
  BY DEF TreeRows, Row
<1>4. \A i \in DOMAIN rows : rows[i] \in Row
  BY <1>3
<1>1. \A i \in DOMAIN rows : rows[i].snap \in DOMAIN snaps
  BY <1>2, <1>4
<1> QED
  BY <1>1 DEF detail!Tree!Drawn

LEMMA KidsAre ==
  ASSUME NEW snaps, NEW s \in DOMAIN snaps
  PROVE  Kids(snaps, s) \in SUBSET DOMAIN snaps
<1>1. CASE \E x \in DOMAIN snaps : snaps[x].children \cap DOMAIN snaps # {}
  BY <1>1 DEF Kids, detail!Tree!ChildrenMap
<1>2. CASE ~ \E x \in DOMAIN snaps : snaps[x].children \cap DOMAIN snaps # {}
  BY <1>2 DEF Kids, detail!Tree!ChildrenMap
<1> QED
  BY <1>1, <1>2

LEMMA RowAppended ==
  ASSUME NEW snaps, NEW rows \in TreeRows(snaps), NEW name \in DOMAIN snaps, NEW depth \in Nat
  PROVE  Append(rows, [snap |-> name, depth |-> depth]) \in TreeRows(snaps)
<1>1. [snap |-> name, depth |-> depth] \in [snap : DOMAIN snaps, depth : Nat]
  OBVIOUS
<1> QED
  BY <1>1 DEF TreeRows

\* A call is answered from calls of lower rank.
LEMMA TurnLocal ==
  ASSUME NEW snaps, Listing(snaps), NEW c \in detail!Tree!Calls(snaps), NEW w, NEW u,
         \A x \in detail!Tree!Calls(snaps) : Rank(snaps, x) < Rank(snaps, c) => w[x] = u[x] /\ w[x] \in TreeRows(snaps)
  PROVE  detail!Tree!InTurn(snaps, w, c) = detail!Tree!InTurn(snaps, u, c) /\ detail!Tree!InTurn(snaps, w, c) \in TreeRows(snaps)
<1>1. CASE c.names = {}
  BY <1>1 DEF detail!Tree!InTurn, TreeRows
<1>2. CASE c.names # {}
  <2> DEFINE name == detail!Tree!Newest(snaps, c.names)
             deeper == IF Cardinality(detail!Tree!ChildrenMap(snaps)[name]) > 1 THEN c.depth + 1 ELSE c.depth
             down == detail!Tree!Call(detail!Tree!ChildrenMap(snaps)[name], deeper, c.seen \cup {name})
             rows == IF name \in c.seen THEN << >> ELSE detail!Tree!Below(snaps, w, name, c.depth, c.seen)
             next == detail!Tree!Call(c.names \ {name}, c.depth, c.seen \cup detail!Tree!Drawn(rows))
  <2>1. c.names \in SUBSET DOMAIN snaps /\ c.depth \in Nat /\ IsFiniteSet(DOMAIN snaps)
    BY DEF detail!Tree!Calls, Listing
  <2>2. name \in c.names
    BY <1>2, <2>1, NewestIs
  <2>3. detail!Tree!ChildrenMap(snaps)[name] \in SUBSET DOMAIN snaps
    BY <2>1, <2>2, KidsAre DEF Kids
  <2>4. deeper \in Nat
    BY <2>1
  <2> HIDE DEF name, deeper
  <2>5. name \notin c.seen => down \in detail!Tree!Calls(snaps) /\ Rank(snaps, down) < Rank(snaps, c)
    BY <2>1, <2>2, <2>3, <2>4, RankBelow
  <2>6. name \notin c.seen => w[down] = u[down] /\ w[down] \in TreeRows(snaps)
    BY <2>5
  <2>7. detail!Tree!Below(snaps, w, name, c.depth, c.seen) = Append(w[down], [snap |-> name, depth |-> c.depth])
    BY SameSize DEF detail!Tree!Below, deeper
  <2>8. detail!Tree!Below(snaps, u, name, c.depth, c.seen) = Append(u[down], [snap |-> name, depth |-> c.depth])
    BY SameSize DEF detail!Tree!Below, deeper
  <2> HIDE DEF down
  <2>9. rows \in TreeRows(snaps)
    <3>1. CASE name \in c.seen
      BY <3>1 DEF TreeRows
    <3>2. CASE name \notin c.seen
      BY <3>2, <2>1, <2>2, <2>6, <2>7, RowAppended
    <3> QED
      BY <3>1, <3>2
  <2>10. rows = IF name \in c.seen THEN << >> ELSE detail!Tree!Below(snaps, u, name, c.depth, c.seen)
    BY <2>6, <2>7, <2>8
  <2>11. detail!Tree!InTurn(snaps, w, c) = rows \o w[next]
    BY <1>2 DEF detail!Tree!InTurn, name
  <2>12. detail!Tree!InTurn(snaps, u, c) = rows \o u[next]
    BY <1>2, <2>10 DEF detail!Tree!InTurn, name
  <2> HIDE DEF rows
  <2>13. next \in detail!Tree!Calls(snaps) /\ Rank(snaps, next) < Rank(snaps, c)
    BY <2>1, <2>2, <2>9, DrawnThere, RankNext
  <2>14. w[next] = u[next] /\ w[next] \in TreeRows(snaps)
    BY <2>13
  <2>15. \A r, s \in TreeRows(snaps) : r \o s \in TreeRows(snaps)
    BY DEF TreeRows
  <2> HIDE DEF next
  <2> QED
    BY <2>9, <2>11, <2>12, <2>14, <2>15
<1> QED
  BY <1>1, <1>2

\* Of any rank: there is a function that is a walk of the calls below it.
LEMMA WalksExist ==
  ASSUME NEW snaps, Listing(snaps)
  PROVE  \A n \in Nat : \E w : w = [c \in detail!Tree!Calls(snaps) |-> w[c]] /\ Walks(snaps, w, n)
<1> DEFINE Fcn(w) == w = [c \in detail!Tree!Calls(snaps) |-> w[c]]
           T == {n \in Nat : ~ \E w : Fcn(w) /\ Walks(snaps, w, n)}
<1>1. SUFFICES ASSUME T # {} PROVE FALSE
  OBVIOUS
<1> HIDE DEF T
<1>2. PICK n \in T : \A k \in T : n <= k
  <2>1. T \subseteq Nat
    BY DEF T
  <2> QED
    BY <1>1, <2>1, Least
<1>3. n \in Nat /\ ~ \E w : Fcn(w) /\ Walks(snaps, w, n)
  BY DEF T
<1>4. n # 0
  <2>1. ASSUME n = 0
        PROVE  FALSE
    <3> DEFINE w == [c \in detail!Tree!Calls(snaps) |-> << >>]
    <3>1. Fcn(w)
      OBVIOUS
    <3>4. IsFiniteSet(DOMAIN snaps)
      BY DEF Listing
    <3>5. \A c \in detail!Tree!Calls(snaps) : Rank(snaps, c) \in Nat
      BY <3>4, RankIsNat
    <3>2. \A c \in detail!Tree!Calls(snaps) : ~(Rank(snaps, c) < 0)
      BY <3>5
    <3> HIDE DEF w
    <3>3. Walks(snaps, w, 0)
      BY <3>2 DEF Walks
    <3> QED
      BY <1>3, <2>1, <3>1, <3>3
  <2> QED
    BY <2>1
<1>5. PICK w : Fcn(w) /\ Walks(snaps, w, n - 1)
  <2>1. n - 1 \in Nat /\ ~(n <= n - 1)
    BY <1>3, <1>4
  <2>2. n - 1 \notin T
    BY <1>2, <2>1
  <2> QED
    BY <2>1, <2>2 DEF T
<1> DEFINE u == [c \in detail!Tree!Calls(snaps) |-> IF Rank(snaps, c) < n - 1 THEN w[c] ELSE detail!Tree!InTurn(snaps, w, c)]
<1>6. Fcn(u)
  OBVIOUS
<1>7. \A c \in detail!Tree!Calls(snaps) : u[c] = IF Rank(snaps, c) < n - 1 THEN w[c] ELSE detail!Tree!InTurn(snaps, w, c)
  OBVIOUS
<1> HIDE DEF u
<1>8. ASSUME NEW c \in detail!Tree!Calls(snaps), Rank(snaps, c) < n
      PROVE  u[c] = detail!Tree!InTurn(snaps, u, c) /\ u[c] \in TreeRows(snaps)
  <2>1. Rank(snaps, c) \in Nat /\ \A x \in detail!Tree!Calls(snaps) : Rank(snaps, x) \in Nat
    BY RankIsNat DEF Listing
  <2>2. \A x \in detail!Tree!Calls(snaps) : Rank(snaps, x) < Rank(snaps, c) => Rank(snaps, x) < n - 1
    BY <1>3, <1>8, <2>1
  <2>3. \A x \in detail!Tree!Calls(snaps) : Rank(snaps, x) < Rank(snaps, c) => w[x] = u[x] /\ w[x] \in TreeRows(snaps)
    BY <1>5, <1>7, <2>2 DEF Walks
  <2>4. detail!Tree!InTurn(snaps, w, c) = detail!Tree!InTurn(snaps, u, c) /\ detail!Tree!InTurn(snaps, w, c) \in TreeRows(snaps)
    BY <2>3, TurnLocal
  <2>5. u[c] = detail!Tree!InTurn(snaps, w, c)
    BY <1>5, <1>7 DEF Walks
  <2> QED
    BY <2>4, <2>5
<1>9. Walks(snaps, u, n)
  BY <1>8 DEF Walks
<1> QED
  BY <1>3, <1>6, <1>9

LEMMA WalkUnfolds ==
  ASSUME NEW snaps, Listing(snaps), NEW c \in detail!Tree!Calls(snaps)
  PROVE  detail!Tree!Walk(snaps)[c] = detail!Tree!InTurn(snaps, detail!Tree!Walk(snaps), c)
<1> DEFINE m == Cardinality(DOMAIN snaps)
           n == m * (m + 1) + m + 1
<1>1. m \in Nat
  BY FS_CardinalityType DEF Listing
<1>2. n \in Nat
  BY <1>1
<1>3. ASSUME NEW d \in detail!Tree!Calls(snaps)
      PROVE  Rank(snaps, d) < n
  <2> DEFINE a == Cardinality(DOMAIN snaps \ d.seen)
             b == Cardinality(d.names)
  <2>1. a \in Nat /\ b \in Nat /\ a <= m /\ b <= m
    BY RankIsNat DEF Listing
  <2>2. Rank(snaps, d) = a * (m + 1) + b
    BY DEF Rank
  <2> HIDE DEF a, b, m
  <2>3. b < m + 1 /\ m + 1 \in Nat
    BY <1>1, <2>1
  <2>4. a * (m + 1) + b < m * (m + 1) + (m + 1)
    BY <1>1, <2>1, <2>3, NotMore
  <2>5. m * (m + 1) + (m + 1) = m * (m + 1) + m + 1
    BY <1>1
  <2> QED
    BY <2>2, <2>4, <2>5
<1> HIDE DEF n
<1>4. PICK w : w = [d \in detail!Tree!Calls(snaps) |-> w[d]] /\ Walks(snaps, w, n)
  BY <1>2, WalksExist
<1>5. \A d \in detail!Tree!Calls(snaps) : w[d] = detail!Tree!InTurn(snaps, w, d)
  BY <1>3, <1>4 DEF Walks
<1>6. w = [d \in detail!Tree!Calls(snaps) |-> detail!Tree!InTurn(snaps, w, d)]
  BY <1>4, <1>5
<1>7. detail!Tree!Walk(snaps) = [d \in detail!Tree!Calls(snaps) |-> detail!Tree!InTurn(snaps, detail!Tree!Walk(snaps), d)]
  BY <1>6, Zenon DEF detail!Tree!Walk
<1> DEFINE v == detail!Tree!Walk(snaps)
<1>8. v = [d \in detail!Tree!Calls(snaps) |-> detail!Tree!InTurn(snaps, v, d)]
  BY <1>7
<1> HIDE DEF v
<1>9. v[c] = detail!Tree!InTurn(snaps, v, c)
  BY <1>8
<1> QED
  BY <1>9 DEF v

-----------------------------------------------------------------------------
(* What is drawn *)

\* What some snapshots are drawn with is the least set that has them and the
\* children of each of its members.
LEMMA FromLeast ==
  ASSUME NEW snaps, NEW start \in SUBSET DOMAIN snaps
  PROVE  /\ start \subseteq detail!From(snaps, start)
         /\ detail!From(snaps, start) \in SUBSET DOMAIN snaps
         /\ \A s \in detail!From(snaps, start) : Kids(snaps, s) \subseteq detail!From(snaps, start)
         /\ \A reach \in SUBSET DOMAIN snaps :
              start \subseteq reach /\ (\A r \in reach : Kids(snaps, r) \subseteq reach)
                => detail!From(snaps, start) \subseteq reach
<1>1. \A s \in DOMAIN snaps : Kids(snaps, s) \in SUBSET DOMAIN snaps
  BY KidsAre
<1>2. \A s : s \in detail!From(snaps, start) <=>
        /\ s \in DOMAIN snaps
        /\ \A reach \in SUBSET DOMAIN snaps :
             start \subseteq reach /\ (\A r \in reach : Kids(snaps, r) \subseteq reach) => s \in reach
  BY Zenon DEF detail!From, Kids
<1>3. start \subseteq detail!From(snaps, start)
  BY <1>2
<1>4. detail!From(snaps, start) \in SUBSET DOMAIN snaps
  BY <1>2
<1>5. ASSUME NEW s \in detail!From(snaps, start), NEW k \in Kids(snaps, s)
      PROVE  k \in detail!From(snaps, start)
  <2>1. k \in DOMAIN snaps
    BY <1>1, <1>4, <1>5
  <2>2. ASSUME NEW reach \in SUBSET DOMAIN snaps, start \subseteq reach,
               \A r \in reach : Kids(snaps, r) \subseteq reach
        PROVE  k \in reach
    <3>1. s \in reach
      BY <1>2, <1>5, <2>2
    <3> QED
      BY <1>5, <2>2, <3>1
  <2> QED
    BY <1>2, <2>1, <2>2
<1>6. ASSUME NEW reach \in SUBSET DOMAIN snaps, start \subseteq reach,
             \A r \in reach : Kids(snaps, r) \subseteq reach
      PROVE  detail!From(snaps, start) \subseteq reach
  BY <1>2, <1>6
<1> QED
  BY <1>3, <1>4, <1>5, <1>6

LEMMA FromMore ==
  ASSUME NEW snaps, NEW more \in SUBSET DOMAIN snaps, NEW names \in SUBSET more
  PROVE  detail!From(snaps, names) \subseteq detail!From(snaps, more)
<1>1. PICK all : all = detail!From(snaps, more)
  OBVIOUS
<1>2. all \in SUBSET DOMAIN snaps /\ more \subseteq all /\ \A s \in all : Kids(snaps, s) \subseteq all
  BY <1>1, FromLeast
<1>3. names \in SUBSET DOMAIN snaps /\ names \subseteq all
  BY <1>2
<1>4. detail!From(snaps, names) \subseteq all
  BY <1>2, <1>3, FromLeast
<1> QED
  BY <1>1, <1>4

LEMMA FromKids ==
  ASSUME NEW snaps, NEW name \in DOMAIN snaps
  PROVE  detail!From(snaps, Kids(snaps, name)) \subseteq detail!From(snaps, {name})
<1>1. PICK all : all = detail!From(snaps, {name})
  OBVIOUS
<1>2. {name} \in SUBSET DOMAIN snaps
  OBVIOUS
<1>3. all \in SUBSET DOMAIN snaps /\ name \in all /\ \A s \in all : Kids(snaps, s) \subseteq all
  BY <1>1, <1>2, FromLeast
<1>4. Kids(snaps, name) \in SUBSET DOMAIN snaps /\ Kids(snaps, name) \subseteq all
  BY <1>3, KidsAre
<1>5. detail!From(snaps, Kids(snaps, name)) \subseteq all
  BY <1>3, <1>4, FromLeast
<1> QED
  BY <1>1, <1>5

\* s is drawn with k.
LeadsTo(snaps, k, s) == s \in detail!From(snaps, {k})

\* Every row once, none that was seen, and after its children unless these were
\* seen or lead back to it.
Tidy(snaps, rows, seen) ==
  /\ rows \in TreeRows(snaps)
  /\ \A i, j \in DOMAIN rows : rows[i].snap = rows[j].snap => i = j
  /\ \A i \in DOMAIN rows : rows[i].snap \notin seen
  /\ \A i \in DOMAIN rows : \A k \in Kids(snaps, rows[i].snap) :
       k \in seen \/ \E j \in DOMAIN rows : rows[j].snap = k /\ (j < i \/ LeadsTo(snaps, k, rows[i].snap))

\* A call draws what it asks for, and what is drawn with it.
Answers(snaps, c, rows) ==
  /\ Tidy(snaps, rows, c.seen)
  /\ c.names \subseteq c.seen \cup detail!Tree!Drawn(rows)
  /\ \A i \in DOMAIN rows : rows[i].snap \in detail!From(snaps, c.names)

\* t is r, whose length is n, and then s.
Joined(t, r, n, s) == t = r \o s /\ n = Len(r)

LEMMA Indices ==
  ASSUME NEW snaps, NEW r, NEW s, NEW t, NEW n, Joined(t, r, n, s),
         r \in TreeRows(snaps), s \in TreeRows(snaps)
  PROVE  /\ t \in TreeRows(snaps) /\ n \in Nat /\ DOMAIN r = 1 .. n /\ DOMAIN t \subseteq Nat
         /\ \A i \in DOMAIN r : i \in DOMAIN t /\ t[i] = r[i]
         /\ \A i \in DOMAIN s : i \in Nat /\ n + i \in DOMAIN t /\ t[n + i] = s[i]
         /\ \A i \in DOMAIN t : \/ i \in DOMAIN r /\ t[i] = r[i]
                                \/ i - n \in DOMAIN s /\ i > n /\ t[i] = s[i - n]
<1> DEFINE Row == [snap : DOMAIN snaps, depth : Nat]
<1> HIDE DEF Row
<1>1. r \in Seq(Row) /\ s \in Seq(Row)
  BY DEF TreeRows, Row
<1>2. t \in Seq(Row) /\ Len(t) = Len(r) + Len(s) /\ Len(r) \in Nat /\ Len(s) \in Nat
  BY <1>1 DEF Joined
<1>3. DOMAIN r = 1 .. Len(r) /\ DOMAIN s = 1 .. Len(s) /\ DOMAIN t = 1 .. Len(r) + Len(s)
  BY <1>1, <1>2
<1>4. \A i \in 1 .. Len(r) + Len(s) : t[i] = IF i <= Len(r) THEN r[i] ELSE s[i - Len(r)]
  BY <1>1 DEF Joined
<1>5. t \in TreeRows(snaps)
  BY <1>2 DEF TreeRows, Row
<1>6. \A i \in DOMAIN r : i \in DOMAIN t /\ t[i] = r[i]
  BY <1>2, <1>3, <1>4 DEF Joined
<1>7. \A i \in DOMAIN s : i \in Nat /\ n + i \in DOMAIN t /\ t[n + i] = s[i]
  BY <1>2, <1>3, <1>4 DEF Joined
<1>8. \A i \in DOMAIN t : \/ i \in DOMAIN r /\ t[i] = r[i]
                          \/ i - n \in DOMAIN s /\ i > n /\ t[i] = s[i - n]
  BY <1>2, <1>3, <1>4 DEF Joined
<1> QED
  BY <1>2, <1>3, <1>5, <1>6, <1>7, <1>8 DEF Joined

LEMMA DrawnBoth ==
  ASSUME NEW snaps, NEW r \in TreeRows(snaps), NEW s \in TreeRows(snaps)
  PROVE  detail!Tree!Drawn(r \o s) = detail!Tree!Drawn(r) \cup detail!Tree!Drawn(s)
<1>t. PICK t, n : Joined(t, r, n, s)
  BY DEF Joined
<1>0. /\ \A i \in DOMAIN r : i \in DOMAIN t /\ t[i] = r[i]
      /\ \A i \in DOMAIN s : n + i \in DOMAIN t /\ t[n + i] = s[i]
      /\ \A i \in DOMAIN t : \/ i \in DOMAIN r /\ t[i] = r[i]
                             \/ i - n \in DOMAIN s /\ t[i] = s[i - n]
  BY <1>t, Indices
<1>1. \A i \in DOMAIN t : t[i].snap \in detail!Tree!Drawn(r) \cup detail!Tree!Drawn(s)
  BY <1>0 DEF detail!Tree!Drawn
<1>2. \A i \in DOMAIN r : r[i].snap \in detail!Tree!Drawn(t)
  BY <1>0 DEF detail!Tree!Drawn
<1>3. \A i \in DOMAIN s : s[i].snap \in detail!Tree!Drawn(t)
  BY <1>0 DEF detail!Tree!Drawn
<1>4. detail!Tree!Drawn(t) = detail!Tree!Drawn(r) \cup detail!Tree!Drawn(s)
  BY <1>1, <1>2, <1>3 DEF detail!Tree!Drawn
<1> QED
  BY <1>t, <1>4 DEF Joined

LEMMA TidyTogether ==
  ASSUME NEW snaps, NEW seen, NEW r, NEW s, Tidy(snaps, r, seen), Tidy(snaps, s, seen \cup detail!Tree!Drawn(r))
  PROVE  Tidy(snaps, r \o s, seen)
<1>t. PICK t, n : Joined(t, r, n, s)
  BY DEF Joined
<1>1. r \in TreeRows(snaps) /\ s \in TreeRows(snaps)
  BY DEF Tidy
<1>2. /\ t \in TreeRows(snaps) /\ n \in Nat /\ DOMAIN r = 1 .. n /\ DOMAIN t \subseteq Nat
      /\ \A i \in DOMAIN r : i \in DOMAIN t /\ t[i] = r[i]
      /\ \A i \in DOMAIN s : i \in Nat /\ n + i \in DOMAIN t /\ t[n + i] = s[i]
      /\ \A i \in DOMAIN t : \/ i \in DOMAIN r /\ t[i] = r[i]
                             \/ i - n \in DOMAIN s /\ i > n /\ t[i] = s[i - n]
  BY <1>t, <1>1, Indices
<1>3. \A i \in DOMAIN r : r[i].snap \in detail!Tree!Drawn(r)
  BY DEF detail!Tree!Drawn
<1>4. \A i \in DOMAIN s : s[i].snap \notin seen /\ s[i].snap \notin detail!Tree!Drawn(r)
  BY DEF Tidy
<1>5. ASSUME NEW i \in DOMAIN t, NEW j \in DOMAIN t, t[i].snap = t[j].snap
      PROVE  i = j
  <2>1. CASE i \in DOMAIN r /\ t[i] = r[i]
    <3>1. t[j].snap \in detail!Tree!Drawn(r)
      BY <1>3, <1>5, <2>1
    <3>2. j \in DOMAIN r /\ t[j] = r[j]
      BY <1>2, <1>4, <3>1
    <3> QED
      BY <1>5, <2>1, <3>2 DEF Tidy
  <2>2. CASE i - n \in DOMAIN s /\ i > n /\ t[i] = s[i - n]
    <3>1. t[j].snap \notin detail!Tree!Drawn(r)
      BY <1>4, <1>5, <2>2
    <3>2. j - n \in DOMAIN s /\ j > n /\ t[j] = s[j - n]
      BY <1>2, <1>3, <3>1
    <3>3. i - n = j - n
      BY <1>5, <2>2, <3>2 DEF Tidy
    <3> QED
      BY <1>2, <3>3
  <2> QED
    BY <1>2, <2>1, <2>2
<1>6. \A i \in DOMAIN t : t[i].snap \notin seen
  BY <1>2, <1>4 DEF Tidy
<1>7. ASSUME NEW i \in DOMAIN t, NEW k \in Kids(snaps, t[i].snap)
      PROVE  k \in seen \/ \E j \in DOMAIN t : t[j].snap = k /\ (j < i \/ LeadsTo(snaps, k, t[i].snap))
  <2>1. CASE i \in DOMAIN r /\ t[i] = r[i]
    <3>1. k \in seen \/ \E j \in DOMAIN r : r[j].snap = k /\ (j < i \/ LeadsTo(snaps, k, r[i].snap))
      BY <1>7, <2>1, Zenon DEF Tidy
    <3> QED
      BY <1>2, <2>1, <3>1
  <2>2. CASE i - n \in DOMAIN s /\ i > n /\ t[i] = s[i - n]
    <3>1. PICK h : h = i - n
      OBVIOUS
    <3>2. h \in DOMAIN s /\ t[i] = s[h] /\ h \in Nat /\ i = n + h
      BY <1>2, <2>2, <3>1
    <3>3. k \in seen \cup detail!Tree!Drawn(r)
            \/ \E j \in DOMAIN s : s[j].snap = k /\ (j < h \/ LeadsTo(snaps, k, s[h].snap))
      BY <1>7, <3>2, Zenon DEF Tidy
    <3>4. CASE k \in detail!Tree!Drawn(r)
      <4>1. PICK j \in DOMAIN r : r[j].snap = k
        BY <3>4 DEF detail!Tree!Drawn
      <4>2. j < i /\ j \in DOMAIN t /\ t[j].snap = k
        BY <1>2, <2>2, <4>1
      <4> QED
        BY <4>2
    <3>5. CASE \E j \in DOMAIN s : s[j].snap = k /\ (j < h \/ LeadsTo(snaps, k, s[h].snap))
      <4>1. PICK j \in DOMAIN s : s[j].snap = k /\ (j < h \/ LeadsTo(snaps, k, s[h].snap))
        BY <3>5
      <4>2. n + j \in DOMAIN t /\ t[n + j].snap = k /\ (j < h => n + j < i)
        BY <1>2, <3>2, <4>1
      <4>3. n + j < i \/ LeadsTo(snaps, k, t[i].snap)
        BY <3>2, <4>1, <4>2
      <4> QED
        BY <4>2, <4>3
    <3> QED
      BY <3>3, <3>4, <3>5
  <2> QED
    BY <1>2, <2>1, <2>2
<1>8. t \in TreeRows(snaps)
  BY <1>2
<1>9. Tidy(snaps, t, seen)
  BY <1>5, <1>6, <1>7, <1>8 DEF Tidy
<1> QED
  BY <1>t, <1>9 DEF Joined

LEMMA NoRows ==
  ASSUME NEW snaps, NEW seen
  PROVE  Tidy(snaps, << >>, seen) /\ detail!Tree!Drawn(<< >>) = {} /\ DOMAIN << >> = {}
<1>1. << >> \in TreeRows(snaps)
  BY DEF TreeRows
<1> QED
  BY <1>1 DEF Tidy, detail!Tree!Drawn

\* The rows of others, then a row of its own.
Ends(rows, below, name, depth) == rows = Append(below, [snap |-> name, depth |-> depth])

\* A snapshot below its children.
LEMMA TidyBelow ==
  ASSUME NEW snaps, NEW seen, NEW name, NEW depth \in Nat, NEW below, NEW rows, NEW more,
         \A s \in more : s \in seen \/ s = name, \A s \in seen : s \in more, name \in more,
         name \in DOMAIN snaps, name \notin seen,
         Ends(rows, below, name, depth),
         Tidy(snaps, below, more),
         \A k \in Kids(snaps, name) : k \in more \/ k \in detail!Tree!Drawn(below),
         LeadsTo(snaps, name, name),
         \A i \in DOMAIN below : LeadsTo(snaps, name, below[i].snap)
  PROVE  Tidy(snaps, rows, seen) /\ detail!Tree!Drawn(rows) = detail!Tree!Drawn(below) \cup {name}
<1> DEFINE Row == [snap : DOMAIN snaps, depth : Nat]
<1>1. PICK row : row = [snap |-> name, depth |-> depth]
  OBVIOUS
<1>2. row \in Row /\ row.snap = name
  BY <1>1
<1> HIDE DEF Row
<1>3. below \in Seq(Row)
  BY DEF Tidy, TreeRows, Row
<1>4. PICK n : n = Len(below)
  OBVIOUS
<1>5. PICK t : t = Append(below, row)
  OBVIOUS
<1>6. /\ n \in Nat /\ t \in Seq(Row) /\ DOMAIN below = 1 .. n /\ DOMAIN t = 1 .. n + 1
      /\ \A i \in 1 .. n : t[i] = below[i]
      /\ t[n + 1] = row
  BY <1>2, <1>3, <1>4, <1>5
<1>7. /\ \A i \in DOMAIN below : i \in DOMAIN t /\ t[i] = below[i] /\ i < n + 1
      /\ n + 1 \in DOMAIN t /\ t[n + 1].snap = name
      /\ \A i \in DOMAIN t : (i \in DOMAIN below /\ t[i] = below[i]) \/ i = n + 1
  BY <1>2, <1>6
<1>8. t \in TreeRows(snaps)
  BY <1>6 DEF TreeRows, Row
<1>9. \A i \in DOMAIN below : below[i].snap \notin seen /\ below[i].snap # name
  BY DEF Tidy
<1>10. ASSUME NEW i \in DOMAIN t, NEW j \in DOMAIN t, t[i].snap = t[j].snap
       PROVE  i = j
  BY <1>7, <1>9, <1>10 DEF Tidy
<1>11. \A i \in DOMAIN t : t[i].snap \notin seen
  BY <1>7, <1>9
<1>12. ASSUME NEW i \in DOMAIN t, NEW k \in Kids(snaps, t[i].snap), k \notin seen
       PROVE  \E j \in DOMAIN t : t[j].snap = k /\ (j < i \/ LeadsTo(snaps, k, t[i].snap))
  <2>1. CASE k = name
    <3>1. LeadsTo(snaps, name, t[i].snap)
      BY <1>7
    <3> QED
      BY <1>7, <2>1, <3>1
  <2>2. CASE k # name /\ i \in DOMAIN below /\ t[i] = below[i]
    <3>1. k \notin more
      BY <1>12, <2>2
    <3>2. \E j \in DOMAIN below : below[j].snap = k /\ (j < i \/ LeadsTo(snaps, k, below[i].snap))
      BY <1>12, <2>2, <3>1, Zenon DEF Tidy
    <3> QED
      BY <1>7, <2>2, <3>2
  <2>3. CASE k # name /\ i = n + 1
    <3>1. k \in detail!Tree!Drawn(below)
      BY <1>7, <1>12, <2>3
    <3>2. \E j \in DOMAIN below : below[j].snap = k
      BY <3>1 DEF detail!Tree!Drawn
    <3> QED
      BY <1>7, <2>3, <3>2
  <2> QED
    BY <1>7, <2>1, <2>2, <2>3
<1>13. Tidy(snaps, t, seen)
  BY <1>8, <1>10, <1>11, <1>12 DEF Tidy
<1>14. detail!Tree!Drawn(t) = detail!Tree!Drawn(below) \cup {name}
  <2>1. \A i \in DOMAIN t : t[i].snap \in detail!Tree!Drawn(below) \cup {name}
    BY <1>7 DEF detail!Tree!Drawn
  <2>2. \A i \in DOMAIN below : below[i].snap \in detail!Tree!Drawn(t)
    BY <1>7 DEF detail!Tree!Drawn
  <2>3. name \in detail!Tree!Drawn(t)
    BY <1>7 DEF detail!Tree!Drawn
  <2> QED
    BY <2>1, <2>2, <2>3 DEF detail!Tree!Drawn
<1> QED
  BY <1>1, <1>5, <1>13, <1>14 DEF Ends

\* What a call draws itself: the newest of its names, below its children.
LEMMA OneDrawn ==
  ASSUME NEW snaps, Listing(snaps), NEW c \in detail!Tree!Calls(snaps), NEW w, NEW name \in c.names, NEW rows,
         rows = IF name \in c.seen THEN << >> ELSE detail!Tree!Below(snaps, w, name, c.depth, c.seen),
         \A x \in detail!Tree!Calls(snaps) : Rank(snaps, x) < Rank(snaps, c) => Answers(snaps, x, w[x])
  PROVE  /\ Tidy(snaps, rows, c.seen)
         /\ name \in c.seen \cup detail!Tree!Drawn(rows)
         /\ \A i \in DOMAIN rows : LeadsTo(snaps, name, rows[i].snap)
<1>1. CASE name \in c.seen
  BY <1>1, NoRows
<1>2. CASE name \notin c.seen
  <2> DEFINE deeper == IF Cardinality(detail!Tree!ChildrenMap(snaps)[name]) > 1 THEN c.depth + 1 ELSE c.depth
             down == detail!Tree!Call(Kids(snaps, name), deeper, c.seen \cup {name})
             below == w[down]
  <2>1. c.names \in SUBSET DOMAIN snaps /\ c.depth \in Nat /\ IsFiniteSet(DOMAIN snaps)
    BY DEF detail!Tree!Calls, Listing
  <2>2. name \in DOMAIN snaps \ c.seen /\ deeper \in Nat
    BY <1>2, <2>1
  <2>3. detail!Tree!ChildrenMap(snaps)[name] = Kids(snaps, name) /\ Kids(snaps, name) \in SUBSET DOMAIN snaps
    BY <2>2, KidsAre DEF Kids
  <2>4. rows = Append(below, [snap |-> name, depth |-> c.depth])
    BY <1>2, <2>3, SameSize DEF detail!Tree!Below
  <2>5. down.seen = c.seen \cup {name} /\ down.names = Kids(snaps, name)
    BY DEF detail!Tree!Call
  <2> HIDE DEF deeper
  <2>6. down \in detail!Tree!Calls(snaps) /\ Rank(snaps, down) < Rank(snaps, c)
    BY <2>1, <2>2, <2>3, RankBelow
  <2> HIDE DEF down
  <2>7. Answers(snaps, down, below)
    BY <2>6
  <2> HIDE DEF below
  <2>8. LeadsTo(snaps, name, name)
    <3>1. {name} \in SUBSET DOMAIN snaps
      BY <2>2
    <3> QED
      BY <3>1, FromLeast DEF LeadsTo
  <2>9. \A i \in DOMAIN below : LeadsTo(snaps, name, below[i].snap)
    <3>1. \A i \in DOMAIN below : below[i].snap \in detail!From(snaps, Kids(snaps, name))
      BY <2>5, <2>7 DEF Answers
    <3> QED
      BY <2>2, <3>1, FromKids DEF LeadsTo
  <2>13. \A k \in Kids(snaps, name) : k \in c.seen \cup {name} \/ k \in detail!Tree!Drawn(below)
    BY <2>5, <2>7 DEF Answers
  <2>14. Tidy(snaps, below, c.seen \cup {name})
    BY <2>5, <2>7 DEF Answers
  <2>15. Tidy(snaps, rows, c.seen) /\ detail!Tree!Drawn(rows) = detail!Tree!Drawn(below) \cup {name}
    <3>1. PICK depth \in Nat : depth = c.depth
      BY <2>1
    <3>2. PICK seen : seen = c.seen
      OBVIOUS
    <3>3. name \in DOMAIN snaps /\ name \notin seen /\ Ends(rows, below, name, depth)
      BY <2>2, <2>4, <3>1, <3>2 DEF Ends
    <3>5. PICK more : more = seen \cup {name}
      OBVIOUS
    <3>4. \A k \in Kids(snaps, name) : k \in more \/ k \in detail!Tree!Drawn(below)
      BY <2>13, <3>2, <3>5
    <3>7. /\ Tidy(snaps, below, more)
          /\ \A s \in more : s \in seen \/ s = name
          /\ \A s \in seen : s \in more
          /\ name \in more
      BY <2>14, <3>2, <3>5
    <3>6. Tidy(snaps, rows, seen) /\ detail!Tree!Drawn(rows) = detail!Tree!Drawn(below) \cup {name}
      BY <2>8, <2>9, <3>1, <3>3, <3>4, <3>7, TidyBelow
    <3> QED
      BY <3>2, <3>6
  <2>16. \A s \in detail!Tree!Drawn(rows) : LeadsTo(snaps, name, s)
    BY <2>8, <2>9, <2>15 DEF detail!Tree!Drawn
  <2>17. \A i \in DOMAIN rows : rows[i].snap \in detail!Tree!Drawn(rows)
    BY DEF detail!Tree!Drawn
  <2> QED
    BY <2>15, <2>16, <2>17
<1> QED
  BY <1>1, <1>2

LEMMA TurnAnswers ==
  ASSUME NEW snaps, Listing(snaps), NEW c \in detail!Tree!Calls(snaps), NEW w, w[c] = detail!Tree!InTurn(snaps, w, c),
         \A x \in detail!Tree!Calls(snaps) : Rank(snaps, x) < Rank(snaps, c) => Answers(snaps, x, w[x])
  PROVE  Answers(snaps, c, w[c])
<1>1. CASE c.names = {}
  <2>1. w[c] = << >>
    BY <1>1 DEF detail!Tree!InTurn
  <2> QED
    BY <1>1, <2>1, NoRows DEF Answers
<1>2. CASE c.names # {}
  <2>1. PICK name : name = detail!Tree!Newest(snaps, c.names)
    OBVIOUS
  <2>2. PICK rows : rows = IF name \in c.seen THEN << >> ELSE detail!Tree!Below(snaps, w, name, c.depth, c.seen)
    OBVIOUS
  <2>3. PICK next : next = detail!Tree!Call(c.names \ {name}, c.depth, c.seen \cup detail!Tree!Drawn(rows))
    OBVIOUS
  <2>4. PICK rest : rest = w[next]
    OBVIOUS
  <2>5. w[c] = rows \o rest
    BY <1>2, <2>1, <2>2, <2>3, <2>4 DEF detail!Tree!InTurn
  <2>6. c.names \in SUBSET DOMAIN snaps /\ IsFiniteSet(DOMAIN snaps)
    BY DEF detail!Tree!Calls, Listing
  <2>7. name \in c.names
    BY <1>2, <2>1, <2>6, NewestIs
  <2>8. /\ Tidy(snaps, rows, c.seen)
        /\ name \in c.seen \cup detail!Tree!Drawn(rows)
        /\ \A i \in DOMAIN rows : LeadsTo(snaps, name, rows[i].snap)
    BY <2>2, <2>7, OneDrawn
  <2>9. rows \in TreeRows(snaps) /\ detail!Tree!Drawn(rows) \in SUBSET DOMAIN snaps
    BY <2>8, DrawnThere DEF Tidy
  <2>10. next \in detail!Tree!Calls(snaps) /\ Rank(snaps, next) < Rank(snaps, c)
    BY <2>3, <2>6, <2>7, <2>9, RankNext
  <2>11. next.names = c.names \ {name} /\ next.seen = c.seen \cup detail!Tree!Drawn(rows)
    BY <2>3 DEF detail!Tree!Call
  <2>12. Answers(snaps, next, rest)
    BY <2>4, <2>10
  <2>13. Tidy(snaps, rest, c.seen \cup detail!Tree!Drawn(rows))
    BY <2>11, <2>12 DEF Answers
  <2>14. rest \in TreeRows(snaps)
    BY <2>13 DEF Tidy
  <2>15. Tidy(snaps, rows \o rest, c.seen)
    BY <2>8, <2>13, TidyTogether
  <2>16. detail!Tree!Drawn(rows \o rest) = detail!Tree!Drawn(rows) \cup detail!Tree!Drawn(rest)
    BY <2>9, <2>14, DrawnBoth
  <2>17. c.names \subseteq c.seen \cup detail!Tree!Drawn(rows \o rest)
    <3>1. c.names \ {name} \subseteq c.seen \cup detail!Tree!Drawn(rows) \cup detail!Tree!Drawn(rest)
      BY <2>11, <2>12 DEF Answers
    <3> QED
      BY <2>8, <2>16, <3>1
  <2>18. \A i \in DOMAIN rest : rest[i].snap \in detail!From(snaps, c.names)
    <3>1. c.names \ {name} \in SUBSET c.names
      OBVIOUS
    <3>2. detail!From(snaps, c.names \ {name}) \subseteq detail!From(snaps, c.names)
      BY <2>6, <3>1, FromMore
    <3>3. \A i \in DOMAIN rest : rest[i].snap \in detail!From(snaps, c.names \ {name})
      BY <2>11, <2>12 DEF Answers
    <3> QED
      BY <3>2, <3>3
  <2>19. \A i \in DOMAIN rows : rows[i].snap \in detail!From(snaps, c.names)
    <3>1. {name} \in SUBSET c.names
      BY <2>7
    <3>2. detail!From(snaps, {name}) \subseteq detail!From(snaps, c.names)
      BY <2>6, <3>1, FromMore
    <3> QED
      BY <2>8, <3>2 DEF LeadsTo
  <2>20. \A s \in detail!Tree!Drawn(rows \o rest) : s \in detail!From(snaps, c.names)
    BY <2>16, <2>18, <2>19 DEF detail!Tree!Drawn
  <2>21. \A i \in DOMAIN (rows \o rest) : (rows \o rest)[i].snap \in detail!From(snaps, c.names)
    BY <2>20 DEF detail!Tree!Drawn
  <2> QED
    BY <2>5, <2>15, <2>17, <2>21 DEF Answers
<1> QED
  BY <1>1, <1>2

LEMMA WalkAnswers ==
  ASSUME NEW snaps, Listing(snaps), NEW c \in detail!Tree!Calls(snaps)
  PROVE  Answers(snaps, c, detail!Tree!Walk(snaps)[c])
<1> DEFINE Wrong(d) == ~Answers(snaps, d, detail!Tree!Walk(snaps)[d])
           T == {n \in Nat : \E d \in detail!Tree!Calls(snaps) : Rank(snaps, d) = n /\ Wrong(d)}
<1>1. \A d \in detail!Tree!Calls(snaps) : Rank(snaps, d) \in Nat
  BY RankIsNat DEF Listing
<1>2. ASSUME Wrong(c)
      PROVE  FALSE
  <2>1. T # {} /\ T \subseteq Nat
    BY <1>1, <1>2
  <2> HIDE DEF T, Wrong
  <2>2. PICK n \in T : \A k \in T : n <= k
    BY <2>1, Least
  <2>3. PICK d \in detail!Tree!Calls(snaps) : Rank(snaps, d) = n /\ Wrong(d)
    BY <2>2 DEF T
  <2>4. ASSUME NEW x \in detail!Tree!Calls(snaps), Rank(snaps, x) < Rank(snaps, d)
        PROVE  Answers(snaps, x, detail!Tree!Walk(snaps)[x])
    <3>1. Rank(snaps, x) \in Nat /\ Rank(snaps, d) \in Nat
      BY <1>1
    <3>2. Rank(snaps, x) \notin T
      BY <2>2, <2>3, <2>4, <3>1
    <3>3. ~Wrong(x)
      BY <3>1, <3>2 DEF T
    <3> QED
      BY <3>3 DEF Wrong
  <2>5. Answers(snaps, d, detail!Tree!Walk(snaps)[d])
    BY <2>4, WalkUnfolds, TurnAnswers
  <2> QED
    BY <2>3, <2>5 DEF Wrong
<1> QED
  BY <1>2

\* The walk draws what the roots reach.
LEMMA ReachedDrawn ==
  ASSUME NEW snaps, Listing(snaps)
  PROVE  \E rows : /\ rows = detail!Tree!Walk(snaps)[detail!Tree!Call(detail!Tree!Roots(snaps), 0, {})]
                   /\ Tidy(snaps, rows, {})
                   /\ detail!Tree!Drawn(rows) = detail!From(snaps, detail!Tree!Roots(snaps))
<1>1. PICK c : c = detail!Tree!Call(detail!Tree!Roots(snaps), 0, {})
  OBVIOUS
<1>2. c \in detail!Tree!Calls(snaps) /\ c.names = detail!Tree!Roots(snaps) /\ c.seen = {}
  BY <1>1 DEF detail!Tree!Call, detail!Tree!Calls, detail!Tree!Roots
<1>3. PICK rows : rows = detail!Tree!Walk(snaps)[c]
  OBVIOUS
<1>4. Answers(snaps, c, rows)
  BY <1>2, <1>3, WalkAnswers
<1>5. Tidy(snaps, rows, {}) /\ detail!Tree!Roots(snaps) \subseteq detail!Tree!Drawn(rows)
  BY <1>2, <1>4 DEF Answers
<1>6. detail!Tree!Drawn(rows) \in SUBSET DOMAIN snaps
  BY <1>5, DrawnThere DEF Tidy
<1>7. detail!Tree!Drawn(rows) \subseteq detail!From(snaps, detail!Tree!Roots(snaps))
  BY <1>2, <1>4 DEF Answers, detail!Tree!Drawn
<1>8. \A r \in detail!Tree!Drawn(rows) : Kids(snaps, r) \subseteq detail!Tree!Drawn(rows)
  <2> SUFFICES ASSUME NEW i \in DOMAIN rows, NEW k \in Kids(snaps, rows[i].snap)
               PROVE  k \in detail!Tree!Drawn(rows)
    BY DEF detail!Tree!Drawn
  <2>1. \E j \in DOMAIN rows : rows[j].snap = k
    BY <1>5 DEF Tidy
  <2> QED
    BY <2>1 DEF detail!Tree!Drawn
<1>9. detail!Tree!Roots(snaps) \in SUBSET DOMAIN snaps
  BY DEF detail!Tree!Roots
<1>10. detail!From(snaps, detail!Tree!Roots(snaps)) \subseteq detail!Tree!Drawn(rows)
  BY <1>5, <1>6, <1>8, <1>9, FromLeast
<1> QED
  BY <1>1, <1>3, <1>5, <1>7, <1>10

\* What SetToSeq makes of a finite set: each of its members once.
LEMMA Enumerated ==
  ASSUME NEW S, IsFiniteSet(S), NEW q, q = detail!Tree!SetToSeq(S)
  PROVE  /\ DOMAIN q = 1 .. Cardinality(S) /\ Cardinality(S) \in Nat
         /\ \A i \in DOMAIN q : q[i] \in S
         /\ \A i, j \in DOMAIN q : q[i] = q[j] => i = j
         /\ \A x \in S : \E i \in DOMAIN q : q[i] = x
<1>1. PICK n : n = Cardinality(S) /\ n = detail!Tree!Cardinality(S)
  BY SameSize
<1>2. n \in Nat /\ ExistsBijection(1 .. n, S)
  BY <1>1, FS_CardinalityType
<1>3. \E f \in [1 .. n -> S] : detail!Tree!IsInjective(f)
  <2>1. PICK f \in [1 .. n -> S] : \A a, b \in 1 .. n : f[a] = f[b] => a = b
    BY <1>2 DEF ExistsBijection, Bijection, Injection, IsInjective
  <2>2. detail!Tree!IsInjective(f)
    BY <2>1 DEF detail!Tree!IsInjective
  <2> QED
    BY <2>2
<1>4. q = CHOOSE f \in [1 .. n -> S] : detail!Tree!IsInjective(f)
  BY <1>1 DEF detail!Tree!SetToSeq
<1>5. q \in [1 .. n -> S] /\ detail!Tree!IsInjective(q)
  BY <1>3, <1>4, Zenon
<1>6. DOMAIN q = 1 .. n /\ (\A i \in 1 .. n : q[i] \in S) /\ (\A i, j \in 1 .. n : q[i] = q[j] => i = j)
  BY <1>5 DEF detail!Tree!IsInjective
<1>7. PICK T : T = {q[i] : i \in 1 .. n}
  OBVIOUS
<1>8. T \in SUBSET S
  BY <1>6, <1>7
<1>9. ExistsBijection(1 .. n, T)
  <2>1. q \in Bijection(1 .. n, T)
    BY <1>5, <1>6, <1>7 DEF Bijection, Injection, Surjection, IsInjective
  <2> QED
    BY <2>1 DEF ExistsBijection
<1>10. Cardinality(T) = n
  BY <1>2, <1>9, FS_CountingElements
<1>11. T = S
  BY <1>1, <1>8, <1>10, FS_Subset
<1>12. \A x \in S : \E i \in DOMAIN q : q[i] = x
  BY <1>6, <1>7, <1>11
<1> QED
  BY <1>1, <1>2, <1>6, <1>12

DrawnAs(snaps, order) == order = detail!Tree!BuildOrder(snaps)

Reached(snaps) == detail!From(snaps, detail!Tree!Roots(snaps))

\* The walk, and then the others.
LEMMA OrderDrawn ==
  ASSUME NEW snaps, Listing(snaps), NEW order, DrawnAs(snaps, order)
  PROVE  /\ order \in TreeRows(snaps)
         /\ \A i, j \in DOMAIN order : order[i].snap = order[j].snap => i = j
         /\ detail!Tree!Drawn(order) = DOMAIN snaps
         /\ \A i, j \in DOMAIN order :
              order[i].snap \in Reached(snaps) /\ order[j].snap \notin Reached(snaps) => i < j
         /\ \A i \in DOMAIN order : order[i].snap \in Reached(snaps) =>
              \A k \in Kids(snaps, order[i].snap) :
                \E j \in DOMAIN order : order[j].snap = k /\ (j < i \/ LeadsTo(snaps, k, order[i].snap))
<1>1. PICK rows : /\ rows = detail!Tree!Walk(snaps)[detail!Tree!Call(detail!Tree!Roots(snaps), 0, {})]
                  /\ Tidy(snaps, rows, {}) /\ detail!Tree!Drawn(rows) = Reached(snaps)
  BY ReachedDrawn DEF Reached
<1>2. PICK others : others = DOMAIN snaps \ detail!Tree!Drawn(rows)
  OBVIOUS
<1>3. PICK q : q = detail!Tree!SetToSeq(others)
  OBVIOUS
<1>4. IsFiniteSet(others)
  BY <1>2, FS_Subset DEF Listing
<1>5. PICK m \in Nat : /\ DOMAIN q = 1 .. m
                       /\ \A i \in DOMAIN q : q[i] \in others
                       /\ \A i, j \in DOMAIN q : q[i] = q[j] => i = j
                       /\ \A x \in others : \E i \in DOMAIN q : q[i] = x
  BY <1>3, <1>4, Enumerated
<1>6. PICK rest : rest = [i \in DOMAIN q |-> [snap |-> q[i], depth |-> 0]]
  OBVIOUS
<1>7. order = rows \o rest
  BY <1>1, <1>2, <1>3, <1>6 DEF DrawnAs, detail!Tree!BuildOrder
<1>8. DOMAIN rest = 1 .. m /\ \A i \in 1 .. m : rest[i] = [snap |-> q[i], depth |-> 0] /\ rest[i].snap = q[i]
  BY <1>5, <1>6
<1>9. rest \in TreeRows(snaps)
  <2> DEFINE Row == [snap : DOMAIN snaps, depth : Nat]
  <2>1. \A i \in 1 .. m : rest[i] \in Row
    BY <1>2, <1>5, <1>8
  <2> HIDE DEF Row
  <2>2. rest \in [1 .. m -> Row]
    BY <1>6, <1>8, <2>1
  <2>3. rest \in Seq(Row)
    BY <2>2
  <2> QED
    BY <2>3 DEF TreeRows, Row
<1>10. rows \in TreeRows(snaps)
  BY <1>1 DEF Tidy
<1>11. PICK n : Joined(order, rows, n, rest)
  BY <1>7 DEF Joined
<1>12. /\ order \in TreeRows(snaps) /\ n \in Nat /\ DOMAIN rows = 1 .. n /\ DOMAIN order \subseteq Nat
       /\ \A i \in DOMAIN rows : i \in DOMAIN order /\ order[i] = rows[i]
       /\ \A i \in DOMAIN rest : i \in Nat /\ n + i \in DOMAIN order /\ order[n + i] = rest[i]
       /\ \A i \in DOMAIN order : \/ i \in DOMAIN rows /\ order[i] = rows[i]
                                  \/ i - n \in DOMAIN rest /\ i > n /\ order[i] = rest[i - n]
  BY <1>9, <1>10, <1>11, Indices
<1>13. \A i \in DOMAIN rows : rows[i].snap \in Reached(snaps)
  BY <1>1 DEF detail!Tree!Drawn
<1>14. \A i \in DOMAIN rest : rest[i].snap = q[i] /\ rest[i].snap \notin Reached(snaps)
  BY <1>1, <1>2, <1>5, <1>8
<1>15. ASSUME NEW i \in DOMAIN order, NEW j \in DOMAIN order, order[i].snap = order[j].snap
       PROVE  i = j
  <2>1. CASE order[i].snap \in Reached(snaps)
    <3>1. /\ i \in DOMAIN rows /\ order[i] = rows[i]
          /\ j \in DOMAIN rows /\ order[j] = rows[j]
      BY <1>12, <1>14, <1>15, <2>1
    <3> QED
      BY <1>1, <1>15, <3>1 DEF Tidy
  <2>2. CASE order[i].snap \notin Reached(snaps)
    <3>1. /\ i - n \in DOMAIN rest /\ order[i] = rest[i - n]
          /\ j - n \in DOMAIN rest /\ order[j] = rest[j - n]
      BY <1>12, <1>13, <1>15, <2>2
    <3>2. q[i - n] = q[j - n] /\ i - n \in DOMAIN q /\ j - n \in DOMAIN q
      BY <1>5, <1>8, <1>14, <1>15, <3>1
    <3>3. i - n = j - n
      BY <1>5, <3>2
    <3> QED
      BY <1>12, <3>3
  <2> QED
    BY <2>1, <2>2
<1>16. detail!Tree!Drawn(order) = DOMAIN snaps
  <2>1. detail!Tree!Drawn(order) \in SUBSET DOMAIN snaps
    BY <1>12, DrawnThere
  <2>2. ASSUME NEW x \in DOMAIN snaps
        PROVE  x \in detail!Tree!Drawn(order)
    <3>1. CASE x \in others
      <4>1. PICK i \in DOMAIN q : q[i] = x
        BY <1>5, <3>1
      <4>2. n + i \in DOMAIN order /\ order[n + i].snap = x
        BY <1>5, <1>8, <1>12, <1>14, <4>1
      <4> QED
        BY <4>2 DEF detail!Tree!Drawn
    <3>2. CASE x \notin others
      <4>1. x \in detail!Tree!Drawn(rows)
        BY <1>2, <2>2, <3>2
      <4>2. PICK i \in DOMAIN rows : rows[i].snap = x
        BY <4>1 DEF detail!Tree!Drawn
      <4>3. i \in DOMAIN order /\ order[i].snap = x
        BY <1>12, <4>2
      <4> QED
        BY <4>3 DEF detail!Tree!Drawn
    <3> QED
      BY <3>1, <3>2
  <2> QED
    BY <2>1, <2>2
<1>17. ASSUME NEW i \in DOMAIN order, NEW j \in DOMAIN order,
              order[i].snap \in Reached(snaps), order[j].snap \notin Reached(snaps)
       PROVE  i < j
  <2>1. i \in DOMAIN rows
    BY <1>12, <1>14, <1>17
  <2>2. j > n
    BY <1>12, <1>13, <1>17
  <2> QED
    BY <1>12, <2>1, <2>2
<1>18. ASSUME NEW i \in DOMAIN order, order[i].snap \in Reached(snaps), NEW k \in Kids(snaps, order[i].snap)
       PROVE  \E j \in DOMAIN order : order[j].snap = k /\ (j < i \/ LeadsTo(snaps, k, order[i].snap))
  <2>1. i \in DOMAIN rows /\ order[i] = rows[i]
    BY <1>12, <1>14, <1>18
  <2>2. \E j \in DOMAIN rows : rows[j].snap = k /\ (j < i \/ LeadsTo(snaps, k, rows[i].snap))
    BY <1>1, <1>18, <2>1 DEF Tidy
  <2> QED
    BY <1>12, <2>1, <2>2
<1> QED
  BY <1>12, <1>15, <1>16, <1>17, <1>18

\* If the children agree with the parents and nothing goes in a circle, the roots
\* reach everything, and no snapshot leads back to its parent.
LEMMA TreesReachAll ==
  ASSUME NEW snaps, detail!ChildrenAgree(snaps), detail!NoCircle(snaps)
  PROVE  /\ \A s \in DOMAIN snaps : s \in Reached(snaps)
         /\ \A s \in DOMAIN snaps : snaps[s].parent \in DOMAIN snaps =>
              s \in Kids(snaps, snaps[s].parent) /\ ~LeadsTo(snaps, s, snaps[s].parent)
<1>1. \A p \in DOMAIN snaps : Kids(snaps, p) = {c \in DOMAIN snaps : snaps[c].parent = p}
  <2>1. CASE \A s \in DOMAIN snaps : snaps[s].children \cap DOMAIN snaps = {}
    BY <2>1, Zenon DEF Kids, detail!Tree!ChildrenMap
  <2>2. CASE /\ \E s \in DOMAIN snaps : snaps[s].children \cap DOMAIN snaps # {}
             /\ \A s \in DOMAIN snaps :
                  snaps[s].children \cap DOMAIN snaps = {c \in DOMAIN snaps : snaps[c].parent = s}
    <3>1. \A p \in DOMAIN snaps : Kids(snaps, p) = snaps[p].children \cap DOMAIN snaps
      BY <2>2, Zenon DEF Kids, detail!Tree!ChildrenMap
    <3> QED
      BY <2>2, <3>1, Zenon
  <2> QED
    BY <2>1, <2>2, Zenon DEF detail!ChildrenAgree
<1>2. detail!Tree!Roots(snaps) \in SUBSET DOMAIN snaps
  BY DEF detail!Tree!Roots
<1>3. /\ detail!Tree!Roots(snaps) \subseteq Reached(snaps)
      /\ \A p \in Reached(snaps) : p \in DOMAIN snaps /\ Kids(snaps, p) \subseteq Reached(snaps)
  BY <1>2, FromLeast DEF Reached
<1>4. ASSUME NEW x \in DOMAIN snaps, x \notin Reached(snaps)
      PROVE  FALSE
  <2>1. PICK some : some = DOMAIN snaps \ Reached(snaps)
    OBVIOUS
  <2>2. some \in SUBSET DOMAIN snaps /\ some # {}
    BY <1>4, <2>1
  <2>3. PICK s \in some : snaps[s].parent \notin some
    BY <2>2 DEF detail!NoCircle
  <2>4. s \in DOMAIN snaps /\ s \notin Reached(snaps)
    BY <2>1
  <2>5. CASE snaps[s].parent \notin DOMAIN snaps
    BY <1>3, <2>4, <2>5 DEF detail!Tree!Roots
  <2>6. CASE snaps[s].parent \in DOMAIN snaps
    <3>1. PICK p \in DOMAIN snaps : p = snaps[s].parent
      BY <2>6
    <3>2. p \in Reached(snaps)
      BY <2>1, <2>3, <3>1
    <3>3. s \in Kids(snaps, p)
      BY <1>1, <2>4, <3>1
    <3> QED
      BY <1>3, <2>4, <3>2, <3>3
  <2> QED
    BY <2>5, <2>6
<1>5. ASSUME NEW s \in DOMAIN snaps, NEW p \in DOMAIN snaps, snaps[s].parent = p, LeadsTo(snaps, s, p)
      PROVE  FALSE
  <2>1. PICK some : some = detail!From(snaps, {s})
    OBVIOUS
  <2>2. {s} \in SUBSET DOMAIN snaps
    OBVIOUS
  <2>3. some \in SUBSET DOMAIN snaps /\ s \in some /\ \A r \in some : Kids(snaps, r) \subseteq some
    BY <2>1, <2>2, FromLeast
  <2>4. p \in some
    BY <1>5, <2>1 DEF LeadsTo
  <2>5. PICK reach : reach = {s} \cup {x \in some : \E y \in some : x \in Kids(snaps, y)}
    OBVIOUS
  <2>6. reach \in SUBSET DOMAIN snaps /\ {s} \subseteq reach /\ \A r \in reach : Kids(snaps, r) \subseteq reach
    BY <2>3, <2>5
  <2>7. some \subseteq reach
    BY <2>1, <2>2, <2>6, FromLeast
  <2>8. ASSUME NEW x \in some
        PROVE  snaps[x].parent \in some
    <3>1. CASE x = s
      BY <1>5, <2>4, <3>1
    <3>2. CASE x # s
      <4>1. PICK y \in some : x \in Kids(snaps, y)
        BY <2>5, <2>7, <3>2
      <4>2. snaps[x].parent = y
        BY <1>1, <2>3, <4>1
      <4> QED
        BY <4>2
    <3> QED
      BY <3>1, <3>2
  <2> QED
    BY <2>3, <2>8 DEF detail!NoCircle
<1>6. \A s \in DOMAIN snaps : snaps[s].parent \in DOMAIN snaps => s \in Kids(snaps, snaps[s].parent)
  BY <1>1
<1> QED
  BY <1>4, <1>5, <1>6

\* Of any finite listing, whatever parents and children it reports: buildOrder
\* draws every snapshot exactly once; what the roots reach first, each below its
\* children unless they lead back to it, and the rest last.  If the children agree
\* with the parents and these form no circle, each is above the one it was taken
\* from.
THEOREM OrderFaithful ==
  ASSUME NEW snaps, Listing(snaps)
  PROVE  detail!Faithful(snaps)
<1>1. PICK order : DrawnAs(snaps, order)
  BY DEF DrawnAs
<1>2. /\ order \in TreeRows(snaps)
      /\ \A i, j \in DOMAIN order : order[i].snap = order[j].snap => i = j
      /\ detail!Tree!Drawn(order) = DOMAIN snaps
      /\ \A i, j \in DOMAIN order :
           order[i].snap \in Reached(snaps) /\ order[j].snap \notin Reached(snaps) => i < j
      /\ \A i \in DOMAIN order : order[i].snap \in Reached(snaps) =>
           \A k \in Kids(snaps, order[i].snap) :
             \E j \in DOMAIN order : order[j].snap = k /\ (j < i \/ LeadsTo(snaps, k, order[i].snap))
  BY <1>1, OrderDrawn
<1>3. Len(order) = Cardinality(DOMAIN snaps)
  <2> DEFINE Row == [snap : DOMAIN snaps, depth : Nat]
  <2> HIDE DEF Row
  <2>1. order \in Seq(Row)
    BY <1>2 DEF TreeRows, Row
  <2>2. PICK n : n = Len(order)
    OBVIOUS
  <2>3. n \in Nat /\ DOMAIN order = 1 .. n
    BY <2>1, <2>2
  <2> DEFINE f == [i \in 1 .. n |-> order[i].snap]
  <2>4. \A i \in 1 .. n : order[i].snap \in DOMAIN snaps
    BY <1>2, <2>3 DEF detail!Tree!Drawn
  <2>5. \A s \in DOMAIN snaps : \E i \in 1 .. n : order[i].snap = s
    BY <1>2, <2>3 DEF detail!Tree!Drawn
  <2>6. \A i, j \in 1 .. n : order[i].snap = order[j].snap => i = j
    BY <1>2, <2>3
  <2>7. f \in Bijection(1 .. n, DOMAIN snaps)
    BY <2>4, <2>5, <2>6 DEF Bijection, Injection, Surjection, IsInjective
  <2>8. ExistsBijection(1 .. n, DOMAIN snaps)
    BY <2>7 DEF ExistsBijection
  <2> QED
    BY <2>2, <2>3, <2>8, FS_CountingElements
<1>4. {order[i].snap : i \in DOMAIN order} = DOMAIN snaps
  BY <1>2 DEF detail!Tree!Drawn
<1>5. \A s \in DOMAIN snaps : detail!At(order, s) \in DOMAIN order /\ order[detail!At(order, s)].snap = s
  BY <1>4 DEF detail!At
<1>6. ASSUME NEW s \in Reached(snaps), NEW c \in Kids(snaps, s), ~LeadsTo(snaps, c, s)
      PROVE  detail!At(order, c) < detail!At(order, s)
  <2>1. s \in DOMAIN snaps
    BY DEF Reached, detail!From
  <2>2. c \in DOMAIN snaps
    BY <2>1, KidsAre
  <2>3. PICK i : i = detail!At(order, s)
    OBVIOUS
  <2>4. i \in DOMAIN order /\ order[i].snap = s
    BY <1>5, <2>1, <2>3
  <2>5. PICK j \in DOMAIN order : order[j].snap = c /\ j < i
    BY <1>2, <1>6, <2>4
  <2>6. PICK h : h = detail!At(order, c)
    OBVIOUS
  <2>7. h \in DOMAIN order /\ order[h].snap = c
    BY <1>5, <2>2, <2>6
  <2>8. h = j
    BY <1>2, <2>5, <2>7
  <2> QED
    BY <2>3, <2>5, <2>6, <2>8
<1>7. ASSUME NEW s \in Reached(snaps), NEW o \in DOMAIN snaps \ Reached(snaps)
      PROVE  detail!At(order, s) < detail!At(order, o)
  <2>1. s \in DOMAIN snaps
    BY DEF Reached, detail!From
  <2> QED
    BY <1>2, <1>5, <2>1
<1>8. ASSUME detail!ChildrenAgree(snaps), detail!NoCircle(snaps),
             NEW s \in DOMAIN snaps, snaps[s].parent \in DOMAIN snaps
      PROVE  detail!At(order, s) < detail!At(order, snaps[s].parent)
  <2>1. /\ snaps[s].parent \in Reached(snaps) /\ s \in Kids(snaps, snaps[s].parent)
        /\ ~LeadsTo(snaps, s, snaps[s].parent)
    BY <1>8, TreesReachAll
  <2> QED
    BY <1>6, <2>1
<1>9. detail!Cardinality(DOMAIN snaps) = Cardinality(DOMAIN snaps)
  BY DEF detail!Cardinality, Cardinality
<1>10. \A s \in Reached(snaps) : \A c \in detail!Tree!ChildrenMap(snaps)[s] :
         s \in detail!From(snaps, {c}) \/ detail!At(order, c) < detail!At(order, s)
  BY <1>6, Zenon DEF Kids, LeadsTo
<1>11. detail!ChildrenAgree(snaps) /\ detail!NoCircle(snaps) =>
         \A s \in DOMAIN snaps :
           snaps[s].parent \in DOMAIN snaps => detail!At(order, s) < detail!At(order, snaps[s].parent)
  BY <1>8
<1>12. \A s \in Reached(snaps) : \A o \in DOMAIN snaps \ Reached(snaps) :
         detail!At(order, s) < detail!At(order, o)
  BY <1>7
<1>13. Len(order) = detail!Cardinality(DOMAIN snaps)
  BY <1>3, <1>9
<1>14. order = detail!Tree!BuildOrder(snaps)
  BY <1>1 DEF DrawnAs
<1> QED
  BY <1>4, <1>10, <1>11, <1>12, <1>13, <1>14, Zenon DEF detail!Faithful, Reached

-----------------------------------------------------------------------------
(* VolumeDetailPage: what is shown is a listing *)

LEMMA AnswerListed ==
  ASSUME NEW task, NEW listing \in detail!ListingsOf(task)
  PROVE  Listing(listing) /\ DOMAIN listing \subseteq NamesAt("detail")
<1>1. listing \in ListsAt("detail")
  BY Zenon DEF detail!ListingsOf
<1>2. DOMAIN listing \in SUBSET NamesAt("detail") /\ \A s \in DOMAIN listing : listing[s].created \in Nat
  BY <1>1, SnapshotsAreListed
<1>3. IsFiniteSet(DOMAIN listing)
  BY <1>2, ListsAreFinite, FS_Subset
<1> QED
  BY <1>2, <1>3 DEF Listing

LEMMA NothingListed == Listing(<< >>)
<1>1. DOMAIN << >> = {}
  OBVIOUS
<1> QED
  BY <1>1, FS_EmptySet DEF Listing

\* What is shown is nothing or one listing, whole.
TreeInv == "snaps" \in DOMAIN ui /\ Listing(ui.snaps)

LEMMA TreeStart ==
  ASSUME detail!DetailInit
  PROVE  TreeInv
BY NothingListed DEF detail!DetailInit, TreeInv

LEMMA ClosedKeeps ==
  ASSUME NEW next, NEW kind
  PROVE  /\ DOMAIN detail!Closed(next, kind) = DOMAIN next
         /\ "snaps" \in DOMAIN next => detail!Closed(next, kind).snaps = next.snaps
BY DEF detail!Closed

\* Most actions leave the listing on show.
KeepsSnaps == DOMAIN ui' = DOMAIN ui /\ ui'.snaps = ui.snaps

\* A volume that carries its snapshots shows them.
LEMMA InlineShows ==
  ASSUME NEW next, DOMAIN next = DOMAIN ui, "snaps" \in DOMAIN ui, next.snaps = ui.snaps,
         ui' \in detail!Inline(next)
  PROVE  /\ DOMAIN ui' = DOMAIN ui
         /\ KeepsSnaps \/ \E listing \in detail!ListingsOf(ui.task) : ui'.snaps = listing
         /\ "name" \in DOMAIN ui => ui'.name = next.name
<1>1. CASE ui' = next
  BY <1>1 DEF KeepsSnaps
<1>2. ASSUME NEW listing \in detail!ListingsOf(ui.task), ui' = [next EXCEPT !.snaps = listing]
      PROVE  DOMAIN ui' = DOMAIN ui /\ ui'.snaps = listing /\ ("name" \in DOMAIN ui => ui'.name = next.name)
  BY <1>2
<1> QED
  BY <1>1, <1>2 DEF detail!Inline

LEMMA RefreshShows ==
  ASSUME TreeInv, NEW closes, NEW others, detail!refreshSnapshots(closes, others, ui)
  PROVE  TreeInv'
<1>1. CASE ui' = [ui EXCEPT !.snapLoading = TRUE]
  BY <1>1 DEF TreeInv
<1>2. CASE ui' \in detail!Inline(detail!Closed(ui, closes))
  <2>1. PICK next : next = detail!Closed(ui, closes)
    OBVIOUS
  <2>2. DOMAIN next = DOMAIN ui /\ next.snaps = ui.snaps /\ "snaps" \in DOMAIN ui
    BY <2>1, ClosedKeeps DEF TreeInv
  <2>3. DOMAIN ui' = DOMAIN ui /\ (KeepsSnaps \/ \E listing \in detail!ListingsOf(ui.task) : ui'.snaps = listing)
    BY <1>2, <2>1, <2>2, InlineShows
  <2>4. Listing(ui'.snaps)
    BY <2>3, AnswerListed DEF TreeInv, KeepsSnaps
  <2> QED
    BY <2>2, <2>3, <2>4 DEF TreeInv
<1> QED
  BY <1>1, <1>2 DEF detail!refreshSnapshots

LEMMA TreeStep ==
  ASSUME TreeInv, detail!DetailNext
  PROVE  TreeInv'
<1>1. ASSUME KeepsSnaps
      PROVE  TreeInv'
  BY <1>1 DEF TreeInv, KeepsSnaps
<1>2. ASSUME NEW c \in calls, detail!ListAnswered(c)
      PROVE  TreeInv'
  <2>1. PICK shown : shown = detail!Closed([ui EXCEPT !.snapLoading = FALSE], c.closes)
    OBVIOUS
  <2>2. DOMAIN shown = DOMAIN ui /\ shown.snaps = ui.snaps
    BY <2>1, ClosedKeeps DEF TreeInv
  <2>3. \/ ui' = shown
        \/ \E listing \in detail!ListingsOf(ui.task) :
             ui' = [shown EXCEPT !.snaps = listing]
    BY <1>2, <2>1, Zenon DEF detail!ListAnswered
  <2>4. CASE ui' = shown
    BY <1>1, <2>2, <2>4 DEF KeepsSnaps
  <2>5. ASSUME NEW listing \in detail!ListingsOf(ui.task),
               ui' = [shown EXCEPT !.snaps = listing]
        PROVE  TreeInv'
    <3>1. Listing(listing)
      BY AnswerListed
    <3>2. "snaps" \in DOMAIN ui' /\ ui'.snaps = listing
      BY <2>2, <2>5 DEF TreeInv
    <3> QED
      BY <3>1, <3>2 DEF TreeInv
  <2> QED
    BY <2>3, <2>4, <2>5
<1>3. CASE detail!Poll
  <2>1. CASE ui' = [ui EXCEPT !.snapLoading = TRUE]
    BY <2>1 DEF TreeInv
  <2>2. CASE ui' \in detail!Inline(ui)
    <3>1. DOMAIN ui' = DOMAIN ui /\ (KeepsSnaps \/ \E listing \in detail!ListingsOf(ui.task) : ui'.snaps = listing)
      BY <2>2, InlineShows DEF TreeInv
    <3>2. Listing(ui'.snaps)
      BY <3>1, AnswerListed DEF TreeInv, KeepsSnaps
    <3> QED
      BY <3>1, <3>2 DEF TreeInv
  <2> QED
    BY <1>3, <2>1, <2>2 DEF detail!Poll
<1>4. CASE detail!RefreshSnapshots
  BY <1>4, RefreshShows DEF detail!RefreshSnapshots
<1>5. ASSUME NEW c \in calls, detail!ActionAnswered(c)
      PROVE  TreeInv'
  <2>1. detail!refreshSnapshots(c.closes, calls \ {c}, ui) \/ ui' = detail!Closed(ui, c.closes)
    BY <1>5 DEF detail!ActionAnswered
  <2>2. CASE ui' = detail!Closed(ui, c.closes)
    BY <1>1, <2>2, ClosedKeeps DEF TreeInv, KeepsSnaps
  <2>3. CASE detail!refreshSnapshots(c.closes, calls \ {c}, ui)
    BY <2>3, RefreshShows
  <2> QED
    BY <2>1, <2>2, <2>3
<1>6. ASSUME NEW action, NEW name, NEW closes, detail!runAction(action, name, closes)
      PROVE  TreeInv'
  BY <1>1, <1>6 DEF detail!runAction, KeepsSnaps
<1>7. CASE detail!CloseDialog
  BY <1>1, <1>7, ClosedKeeps, SMTT(40) DEF detail!CloseDialog, detail!Show, TreeInv, KeepsSnaps
<1>8. CASE detail!ToggleSystem \/ detail!OpenFromMenu \/ detail!OpenSnapshotCreate \/ detail!EnterBackup
  BY <1>1, <1>8 DEF detail!ToggleSystem, detail!OpenFromMenu, detail!OpenSnapshotCreate,
     detail!EnterBackup, detail!Show, TreeInv, KeepsSnaps
<1>9. CASE \/ detail!RunExtra \/ detail!SubmitForm \/ detail!CreateSnapshot \/ detail!RunBackup
           \/ detail!DeleteSnapshot \/ \E s \in NamesAt("detail") : detail!RevertTo(s)
  BY <1>6, <1>9, Zenon DEF detail!RunExtra, detail!SubmitForm, detail!CreateSnapshot,
     detail!RunBackup, detail!DeleteSnapshot, detail!RevertTo
<1>10. CASE detail!AttachJob
  <2>1. CASE detail!runAction("recurringJobAdd", None, "job")
    BY <1>6, <2>1
  <2>2. CASE detail!Show([ui EXCEPT !.jobName = ~ui.jobName])
    BY <1>1, <2>2, SMTT(40) DEF detail!Show, KeepsSnaps, TreeInv
  <2> QED
    BY <1>10, <2>1, <2>2 DEF detail!AttachJob
<1>11. ASSUME NEW s \in NamesAt("detail"), detail!OpenBackup(s)
      PROVE  TreeInv'
  <2>1. CASE detail!runAction("snapshotBackup", s, "backup")
    BY <1>6, <2>1
  <2>2. ASSUME NEW first, detail!Show([ui EXCEPT !.dialog = "backup", !.name = s, !.backupTarget = first,
                                                 !.backupMode = "incremental"])
        PROVE  TreeInv'
    BY <1>1, <2>2 DEF detail!Show, KeepsSnaps, TreeInv
  <2> QED
    BY <1>11, <2>1, <2>2 DEF detail!OpenBackup
<1>12. ASSUME NEW s \in NamesAt("detail"), detail!OpenDeleteSnapshot(s)
      PROVE  TreeInv'
  BY <1>1, <1>12 DEF detail!OpenDeleteSnapshot, detail!Show, KeepsSnaps, TreeInv
<1>13. CASE detail!RemoveReplica
  <2>1. CASE detail!runAction("replicaRemove", None, "removeReplica")
    BY <1>6, <2>1
  <2>2. CASE detail!Show([ui EXCEPT !.dialog = "removeReplica"])
    BY <1>1, <2>2 DEF detail!Show, KeepsSnaps, TreeInv
  <2> QED
    BY <1>13, <2>1, <2>2 DEF detail!RemoveReplica
<1> QED
  BY <1>2, <1>3, <1>4, <1>5, <1>7, <1>8, <1>9, <1>10, <1>11, <1>12, <1>13 DEF detail!DetailNext

LEMMA TreeShown ==
  ASSUME TreeInv
  PROVE  detail!TreeFaithful
BY OrderFaithful DEF TreeInv, detail!TreeFaithful

LEMMA TreeInductive ==
  /\ (detail!DetailInit => TreeInv)
  /\ (TreeInv /\ [detail!DetailNext]_(detail!detailVars) => TreeInv')
  /\ (TreeInv => detail!TreeFaithful)
<1>1. detail!DetailInit => TreeInv
  BY TreeStart
<1>2. TreeInv /\ [detail!DetailNext]_(detail!detailVars) => TreeInv'
  <2>1. CASE detail!DetailNext
    BY <2>1, TreeStep
  <2>2. CASE UNCHANGED detail!detailVars
    BY <2>2 DEF detail!detailVars, TreeInv
  <2> QED
    BY <2>1, <2>2
<1>3. TreeInv => detail!TreeFaithful
  BY TreeShown
<1> QED
  BY <1>1, <1>2, <1>3

\* Whichever of the listings under way comes last, whatever it reports, and whatever
\* was taken, deleted and reverted to: the tree on show is faithful to its listing.
THEOREM TreeDrawn == detail!DetailSpec => []detail!TreeFaithful
BY TreeInductive, PTL DEF detail!DetailSpec

-----------------------------------------------------------------------------
(* ProviderWorkspace: paths *)

\* A path is a sequence, of whatever its segments are.
IsPath(path) == \E S : path \in Seq(S)

LEMMA SamePath ==
  ASSUME NEW s, NEW t, IsPath(s), IsPath(t), Len(s) = Len(t), \A i \in 1 .. Len(t) : s[i] = t[i]
  PROVE  s = t
<1>1. PICK S : s \in Seq(S)
  BY DEF IsPath
<1>2. PICK T : t \in Seq(T)
  BY DEF IsPath
<1>3. PICK n \in Nat : n = Len(s)
  BY <1>1
<1>4. s = [i \in 1 .. n |-> s[i]] /\ t = [i \in 1 .. n |-> t[i]]
  BY <1>1, <1>2, <1>3
<1> QED
  BY <1>3, <1>4

LEMMA PathLength ==
  ASSUME NEW s, IsPath(s)
  PROVE  Len(s) \in Nat
BY DEF IsPath

LEMMA Starts ==
  ASSUME NEW s, NEW t, IsPath(s), IsPath(t)
  PROVE  workspace!StartsWith(s, t) <=> Len(t) <= Len(s) /\ \A i \in 1 .. Len(t) : s[i] = t[i]
<1>1. PICK S : s \in Seq(S)
  BY DEF IsPath
<1>2. PICK n \in Nat : n = Len(t)
  BY PathLength
<1>3. ASSUME n <= Len(s)
      PROVE  /\ IsPath(SubSeq(s, 1, n)) /\ Len(SubSeq(s, 1, n)) = n
             /\ \A i \in 1 .. n : SubSeq(s, 1, n)[i] = s[i]
  <2>1. SubSeq(s, 1, n) \in Seq(S)
    BY <1>1, <1>2, <1>3
  <2>2. Len(SubSeq(s, 1, n)) = n /\ \A i \in 1 .. n : SubSeq(s, 1, n)[i] = s[i]
    BY <1>1, <1>2, <1>3
  <2> QED
    BY <2>1, <2>2 DEF IsPath
<1>4. ASSUME workspace!StartsWith(s, t)
      PROVE  Len(t) <= Len(s) /\ \A i \in 1 .. Len(t) : s[i] = t[i]
  <2>1. n <= Len(s) /\ SubSeq(s, 1, n) = t
    BY <1>2, <1>4 DEF workspace!StartsWith
  <2> QED
    BY <1>2, <1>3, <2>1
<1>5. ASSUME Len(t) <= Len(s), \A i \in 1 .. Len(t) : s[i] = t[i]
      PROVE  workspace!StartsWith(s, t)
  <2>1. n <= Len(s) /\ \A i \in 1 .. n : s[i] = t[i]
    BY <1>2, <1>5
  <2>2. SubSeq(s, 1, n) = t
    BY <1>2, <1>3, <2>1, SamePath
  <2> QED
    BY <1>2, <2>1, <2>2 DEF workspace!StartsWith
<1> QED
  BY <1>4, <1>5

LEMMA Path1 ==
  ASSUME NEW a
  PROVE  IsPath(<<a>>) /\ Len(<<a>>) = 1 /\ <<a>>[1] = a
<1>1. <<a>> \in Seq({a})
  OBVIOUS
<1> QED
  BY <1>1 DEF IsPath

LEMMA Path2 ==
  ASSUME NEW a, NEW b
  PROVE  IsPath(<<a, b>>) /\ Len(<<a, b>>) = 2 /\ <<a, b>>[1] = a /\ <<a, b>>[2] = b
<1>1. <<a, b>> \in Seq({a, b})
  OBVIOUS
<1> QED
  BY <1>1 DEF IsPath

LEMMA Path3 ==
  ASSUME NEW a, NEW b, NEW c
  PROVE  /\ IsPath(<<a, b, c>>) /\ Len(<<a, b, c>>) = 3
         /\ <<a, b, c>>[1] = a /\ <<a, b, c>>[2] = b /\ <<a, b, c>>[3] = c
<1>1. <<a, b, c>> \in Seq({a, b, c})
  OBVIOUS
<1> QED
  BY <1>1 DEF IsPath

LEMMA Path4 ==
  ASSUME NEW a, NEW b, NEW c, NEW d
  PROVE  /\ IsPath(<<a, b, c, d>>) /\ Len(<<a, b, c, d>>) = 4
         /\ <<a, b, c, d>>[1] = a /\ <<a, b, c, d>>[2] = b
         /\ <<a, b, c, d>>[3] = c /\ <<a, b, c, d>>[4] = d
<1>1. <<a, b, c, d>> \in Seq({a, b, c, d})
  OBVIOUS
<1> QED
  BY <1>1 DEF IsPath

\* One after the other.
Goes(u, s, t) == u = s \o t

LEMMA Further ==
  ASSUME NEW s, NEW t, NEW u, IsPath(s), IsPath(t), Goes(u, s, t)
  PROVE  /\ IsPath(u) /\ Len(u) = Len(s) + Len(t)
         /\ \A i \in 1 .. Len(s) : u[i] = s[i]
         /\ \A i \in 1 .. Len(t) : u[Len(s) + i] = t[i]
<1>1. PICK n \in Nat, m \in Nat : n = Len(s) /\ m = Len(t)
  BY PathLength
<1>2. PICK S, T : s \in Seq(S) /\ t \in Seq(T)
  BY DEF IsPath
<1>3. PICK U : U = S \cup T
  OBVIOUS
<1>4. s \in Seq(U) /\ t \in Seq(U)
  BY <1>2, <1>3
<1>5. /\ u \in Seq(U) /\ Len(u) = n + m
      /\ \A i \in 1 .. n + m : u[i] = IF i <= n THEN s[i] ELSE t[i - n]
  BY <1>1, <1>4, ConcatProperties DEF Goes
<1>6. IsPath(u)
  BY <1>5 DEF IsPath
<1>7. \A i \in 1 .. n : i \in 1 .. n + m /\ i <= n
  OBVIOUS
<1>8. \A i \in 1 .. m : n + i \in 1 .. n + m /\ ~(n + i <= n) /\ n + i - n = i
  OBVIOUS
<1> QED
  BY <1>1, <1>5, <1>6, <1>7, <1>8

LEMMA PageIs ==
  ASSUME NEW id
  PROVE  /\ IsPath(workspace!Page(id)) /\ Len(workspace!Page(id)) = 3
         /\ workspace!Page(id)[1] = "storage" /\ workspace!Page(id)[2] = "providers" /\ workspace!Page(id)[3] = id
BY Path3 DEF workspace!Page

\* Below the page of a provider.
OfProvider(u, id) ==
  IsPath(u) /\ Len(u) >= 3 /\ u[1] = "storage" /\ u[2] = "providers" /\ u[3] = id

LEMMA BelowPage ==
  ASSUME NEW id, NEW t, NEW u, IsPath(t), Goes(u, workspace!Page(id), t)
  PROVE  /\ OfProvider(u, id) /\ Len(u) = 3 + Len(t)
         /\ \A i \in 1 .. Len(t) : u[3 + i] = t[i]
<1>1. PICK s : s = workspace!Page(id)
  OBVIOUS
<1>2. IsPath(s) /\ Len(s) = 3 /\ s[1] = "storage" /\ s[2] = "providers" /\ s[3] = id
  BY <1>1, PageIs
<1>3. IsPath(s) /\ Goes(u, s, t)
  BY <1>1, <1>2
<1>4. /\ IsPath(u) /\ Len(u) = Len(s) + Len(t)
      /\ \A i \in 1 .. Len(s) : u[i] = s[i]
      /\ \A i \in 1 .. Len(t) : u[Len(s) + i] = t[i]
  BY <1>3, Further
<1>5. Len(u) = 3 + Len(t) /\ \A i \in 1 .. Len(t) : u[3 + i] = t[i]
  BY <1>2, <1>4
<1>6. u[1] = s[1] /\ u[2] = s[2] /\ u[3] = s[3]
  BY <1>2, <1>4
<1>7. Len(u) >= 3
  BY <1>5, PathLength
<1> QED
  BY <1>2, <1>4, <1>5, <1>6, <1>7 DEF OfProvider

LEMMA Below1 ==
  ASSUME NEW id, NEW a, NEW u, Goes(u, workspace!Page(id), <<a>>)
  PROVE  OfProvider(u, id) /\ Len(u) = 4 /\ u[4] = a
<1>1. PICK t : t = <<a>>
  OBVIOUS
<1>2. IsPath(t) /\ Len(t) = 1 /\ t[1] = a
  BY <1>1, Path1
<1>3. IsPath(t) /\ Goes(u, workspace!Page(id), t)
  BY <1>1, <1>2
<1>4. OfProvider(u, id) /\ Len(u) = 3 + Len(t) /\ \A i \in 1 .. Len(t) : u[3 + i] = t[i]
  BY <1>3, BelowPage
<1> QED
  BY <1>2, <1>4

LEMMA Below2 ==
  ASSUME NEW id, NEW a, NEW b, NEW u, Goes(u, workspace!Page(id), <<a, b>>)
  PROVE  OfProvider(u, id) /\ Len(u) = 5 /\ u[4] = a /\ u[5] = b
<1>1. PICK t : t = <<a, b>>
  OBVIOUS
<1>2. IsPath(t) /\ Len(t) = 2 /\ t[1] = a /\ t[2] = b
  BY <1>1, Path2
<1>3. IsPath(t) /\ Goes(u, workspace!Page(id), t)
  BY <1>1, <1>2
<1>4. OfProvider(u, id) /\ Len(u) = 3 + Len(t) /\ \A i \in 1 .. Len(t) : u[3 + i] = t[i]
  BY <1>3, BelowPage
<1> QED
  BY <1>2, <1>4

LEMMA Below3 ==
  ASSUME NEW id, NEW a, NEW b, NEW c, NEW u, Goes(u, workspace!Page(id), <<a, b, c>>)
  PROVE  OfProvider(u, id) /\ Len(u) = 6 /\ u[4] = a
<1>1. PICK t : t = <<a, b, c>>
  OBVIOUS
<1>2. IsPath(t) /\ Len(t) = 3 /\ t[1] = a
  BY <1>1, Path3
<1>3. IsPath(t) /\ Goes(u, workspace!Page(id), t)
  BY <1>1, <1>2
<1>4. OfProvider(u, id) /\ Len(u) = 3 + Len(t) /\ \A i \in 1 .. Len(t) : u[3 + i] = t[i]
  BY <1>3, BelowPage
<1> QED
  BY <1>2, <1>4

-----------------------------------------------------------------------------
(* Routes *)

LEMMA RoutedBy ==
  ASSUME NEW path, NEW r \in workspace!Routes, Len(r) = Len(path),
         \A i \in 1 .. Len(r) : r[i] = ":" \/ r[i] = path[i]
  PROVE  workspace!Routed(path)
BY DEF workspace!Routed

LEMMA Route1 ==
  ASSUME NEW path, Len(path) = 1,
         path[1] \in {"dashboard", "volumes", "nodes", "backups", "backup-targets", "recurring-jobs",
                      "system-backups", "settings", "support-bundle", "engine-images", "backing-images",
                      "instance-managers", "orphans", "performance", "benchmarks", "admin", "account",
                      "preflight", "status"}
  PROVE  workspace!Routed(path)
<1>1. PICK page : page = path[1]
  OBVIOUS
<1>2. <<page>> \in workspace!Routes
  BY <1>1 DEF workspace!Routes
<1>3. PICK r \in workspace!Routes : r = <<page>>
  BY <1>2
<1>4. Len(r) = 1 /\ r[1] = page
  BY <1>3
<1>5. \A i \in 1 .. 1 : i = 1
  OBVIOUS
<1> QED
  BY <1>1, <1>4, <1>5, RoutedBy

LEMMA Route2 ==
  ASSUME NEW path, Len(path) = 2,
         \/ path[1] = "storage" /\ path[2] \in {"providers", "inventory", "classes", "claims", "volumes",
              "snapshots", "attachments", "capacity", "events", "insights", "operations"}
         \/ path[1] \in {"volumes", "nodes"}
  PROVE  workspace!Routed(path)
<1>1. PICK a, b : a = path[1] /\ b = path[2]
  OBVIOUS
<1>2. <<a, b>> \in workspace!Routes \/ <<a, ":">> \in workspace!Routes
  BY <1>1 DEF workspace!Routes
<1>3. PICK r \in workspace!Routes : r = <<a, b>> \/ r = <<a, ":">>
  BY <1>2
<1>4. Len(r) = 2 /\ r[1] = a /\ r[2] \in {b, ":"}
  BY <1>3
<1>5. \A i \in 1 .. 2 : i = 1 \/ i = 2
  OBVIOUS
<1> QED
  BY <1>1, <1>4, <1>5, RoutedBy

LEMMA Route3 ==
  ASSUME NEW path, Len(path) = 3, path[1] = "storage", path[2] \in {"providers", "volumes"}
  PROVE  workspace!Routed(path)
<1>1. PICK b : b = path[2]
  OBVIOUS
<1>2. <<"storage", b, ":">> \in workspace!Routes
  BY <1>1 DEF workspace!Routes
<1>3. PICK r \in workspace!Routes : r = <<"storage", b, ":">>
  BY <1>2
<1>4. Len(r) = 3 /\ r[1] = "storage" /\ r[2] = b /\ r[3] = ":"
  BY <1>3
<1>5. \A i \in 1 .. 3 : i = 1 \/ i = 2 \/ i = 3
  OBVIOUS
<1> QED
  BY <1>1, <1>4, <1>5, RoutedBy

LEMMA Route4 ==
  ASSUME NEW path, Len(path) = 4, path[1] = "storage",
         path[2] \in {"claims", "relationships"} \/ (path[2] = "providers" /\ path[4] = "context")
  PROVE  workspace!Routed(path)
<1>1. PICK b, d : b = path[2] /\ d = path[4]
  OBVIOUS
<1>2. <<"storage", b, ":", ":">> \in workspace!Routes \/ <<"storage", b, ":", d>> \in workspace!Routes
  BY <1>1 DEF workspace!Routes
<1>3. PICK r \in workspace!Routes : r = <<"storage", b, ":", ":">> \/ r = <<"storage", b, ":", d>>
  BY <1>2
<1>4. Len(r) = 4 /\ r[1] = "storage" /\ r[2] = b /\ r[3] = ":" /\ r[4] \in {d, ":"}
  BY <1>3
<1>5. \A i \in 1 .. 4 : i = 1 \/ i = 2 \/ i = 3 \/ i = 4
  OBVIOUS
<1> QED
  BY <1>1, <1>4, <1>5, RoutedBy

Products == {"ceph", "openebs", "linstor"}

LEMMA Route5 ==
  ASSUME NEW path, Len(path) = 5, path[1] = "storage", path[2] = "providers", path[4] \in Products
  PROVE  workspace!Routed(path)
<1>1. PICK d : d = path[4]
  OBVIOUS
<1>2. <<"storage", "providers", ":", d, ":">> \in workspace!Routes
  BY <1>1 DEF workspace!Routes, Products
<1>3. PICK r \in workspace!Routes : r = <<"storage", "providers", ":", d, ":">>
  BY <1>2
<1>4. Len(r) = 5 /\ r[1] = "storage" /\ r[2] = "providers" /\ r[3] = ":" /\ r[4] = d /\ r[5] = ":"
  BY <1>3
<1>5. \A i \in 1 .. 5 : i = 1 \/ i = 2 \/ i = 3 \/ i = 4 \/ i = 5
  OBVIOUS
<1> QED
  BY <1>1, <1>4, <1>5, RoutedBy

LEMMA Route6 ==
  ASSUME NEW path, Len(path) = 6, path[1] = "storage", path[2] = "providers", path[4] \in Products
  PROVE  workspace!Routed(path)
<1>1. PICK d : d = path[4]
  OBVIOUS
<1>2. <<"storage", "providers", ":", d, ":", ":">> \in workspace!Routes
  BY <1>1 DEF workspace!Routes, Products
<1>3. PICK r \in workspace!Routes : r = <<"storage", "providers", ":", d, ":", ":">>
  BY <1>2
<1>4. /\ Len(r) = 6 /\ r[1] = "storage" /\ r[2] = "providers" /\ r[3] = ":"
      /\ r[4] = d /\ r[5] = ":" /\ r[6] = ":"
  BY <1>3
<1>5. \A i \in 1 .. 6 : i = 1 \/ i = 2 \/ i = 3 \/ i = 4 \/ i = 5 \/ i = 6
  OBVIOUS
<1> QED
  BY <1>1, <1>4, <1>5, RoutedBy

\* What lists the objects of a provider is a page of its product.
LEMMA ProductPage ==
  ASSUME NEW path, workspace!Routed(path), Len(path) = 5
  PROVE  path[4] \in Products
<1>1. PICK r \in workspace!Routes : Len(r) = 5 /\ \A i \in 1 .. 5 : r[i] \in {":", path[i]}
  BY DEF workspace!Routed
<1>2. \E d \in Products : r = <<"storage", "providers", ":", d, ":">>
  <2>1. \/ \E a : r = <<a>>
        \/ \E a, b : r = <<a, b>>
        \/ \E a, b, c : r = <<a, b, c>>
        \/ \E a, b, c, d : r = <<a, b, c, d>>
        \/ \E d \in Products : r = <<"storage", "providers", ":", d, ":">>
        \/ \E d \in Products : r = <<"storage", "providers", ":", d, ":", ":">>
    BY Zenon DEF workspace!Routes, Products
  <2>2. (\A a : Len(<<a>>) = 1) /\ (\A a, b : Len(<<a, b>>) = 2) /\ (\A a, b, c : Len(<<a, b, c>>) = 3)
    OBVIOUS
  <2>3. \A a, b, c, d : Len(<<a, b, c, d>>) = 4
    OBVIOUS
  <2>4. \A d : Len(<<"storage", "providers", ":", d, ":", ":">>) = 6
    OBVIOUS
  <2> QED
    BY <1>1, <2>1, <2>2, <2>3, <2>4
<1>3. r[4] \in Products
  BY <1>2
<1>4. r[4] # ":" /\ r[4] \in {":", path[4]}
  BY <1>1, <1>3 DEF Products
<1> QED
  BY <1>3, <1>4

-----------------------------------------------------------------------------
(* The workspace of a location *)

LonghornPages ==
  {"dashboard", "volumes", "nodes", "backups", "backup-targets", "recurring-jobs",
   "system-backups", "performance", "backing-images", "engine-images",
   "instance-managers", "orphans", "support-bundle", "preflight", "settings"}

LEMMA AtProviders ==
  ASSUME NEW path, IsPath(path)
  PROVE  workspace!StartsWith(path, <<"storage", "providers">>)
           <=> Len(path) >= 2 /\ path[1] = "storage" /\ path[2] = "providers"
<1>1. PICK t : t = <<"storage", "providers">>
  OBVIOUS
<1>2. IsPath(t) /\ Len(t) = 2 /\ t[1] = "storage" /\ t[2] = "providers"
  BY <1>1, Path2
<1>3. \A i \in 1 .. 2 : i = 1 \/ i = 2
  OBVIOUS
<1>4. 1 \in 1 .. 2 /\ 2 \in 1 .. 2 /\ Len(path) \in Nat
  BY PathLength
<1>5. workspace!StartsWith(path, t) <=> Len(t) <= Len(path) /\ \A i \in 1 .. Len(t) : path[i] = t[i]
  BY <1>2, Starts, SMTT(40)
<1>6. workspace!StartsWith(path, t) <=> 2 <= Len(path) /\ \A i \in 1 .. 2 : path[i] = t[i]
  BY <1>2, <1>5
<1>7. (\A i \in 1 .. 2 : path[i] = t[i]) <=> path[1] = "storage" /\ path[2] = "providers"
  BY <1>2, <1>3, <1>4
<1>8. 2 <= Len(path) <=> Len(path) >= 2
  BY <1>4
<1> QED
  BY <1>1, <1>6, <1>7, <1>8

LEMMA AtPage ==
  ASSUME NEW path, IsPath(path), NEW a
  PROVE  workspace!StartsWith(path, <<a>>) <=> Len(path) >= 1 /\ path[1] = a
<1>1. PICK t : t = <<a>>
  OBVIOUS
<1>2. IsPath(t) /\ Len(t) = 1 /\ t[1] = a
  BY <1>1, Path1
<1>4. 1 \in 1 .. 1 /\ Len(path) \in Nat /\ \A i \in 1 .. 1 : i = 1
  BY PathLength
<1>5. workspace!StartsWith(path, t) <=> Len(t) <= Len(path) /\ \A i \in 1 .. Len(t) : path[i] = t[i]
  BY <1>2, Starts
<1>6. workspace!StartsWith(path, t) <=> 1 <= Len(path) /\ \A i \in 1 .. 1 : path[i] = t[i]
  BY <1>2, <1>5
<1>7. (\A i \in 1 .. 1 : path[i] = t[i]) <=> path[1] = a
  BY <1>2, <1>4
<1>8. 1 <= Len(path) <=> Len(path) >= 1
  BY <1>4
<1> QED
  BY <1>1, <1>6, <1>7, <1>8

LEMMA LonghornItems ==
  workspace!longhorn =
    {workspace!Exact(workspace!At(workspace!Page("longhorn"))), workspace!Exact(workspace!At(workspace!Page("longhorn") \o <<"context">>)),
     workspace!Item(workspace!providerFilter(<<"storage", "operations">>, "longhorn")),
     workspace!Item(workspace!providerFilter(<<"benchmarks">>, "longhorn"))}
      \cup {workspace!Item(workspace!At(<<page>>)) : page \in LonghornPages}
<1>1. <<"storage", "providers", "longhorn", "context">> = workspace!Page("longhorn") \o <<"context">>
  <2>1. PICK u : Goes(u, workspace!Page("longhorn"), <<"context">>)
    BY DEF Goes
  <2>2. OfProvider(u, "longhorn") /\ Len(u) = 4 /\ u[4] = "context"
    BY <2>1, Below1
  <2>3. PICK v : v = <<"storage", "providers", "longhorn", "context">>
    OBVIOUS
  <2>4. /\ IsPath(v) /\ Len(v) = 4 /\ v[1] = "storage" /\ v[2] = "providers"
        /\ v[3] = "longhorn" /\ v[4] = "context"
    BY <2>3, Path4
  <2>5. \A i \in 1 .. 4 : i = 1 \/ i = 2 \/ i = 3 \/ i = 4
    OBVIOUS
  <2>6. u = v
    BY <2>2, <2>4, <2>5, SamePath DEF OfProvider
  <2> QED
    BY <2>1, <2>3, <2>6 DEF Goes
<1>2. <<"storage", "providers", "longhorn">> = workspace!Page("longhorn")
  BY DEF workspace!Page
<1> QED
  BY <1>1, <1>2, Zenon DEF workspace!longhorn, LonghornPages

LEMMA ItemIs ==
  ASSUME NEW to
  PROVE  /\ workspace!Item(to).to = to /\ workspace!Item(to).end = FALSE /\ workspace!Item(to).admin = FALSE
         /\ workspace!Exact(to).to = to /\ workspace!Exact(to).end = TRUE /\ workspace!Exact(to).admin = FALSE
BY DEF workspace!Item, workspace!Exact

LEMMA LegacyPaths ==
  workspace!legacyLonghornPaths =
    {workspace!Page("longhorn"), workspace!Page("longhorn") \o <<"context">>} \cup {<<page>> : page \in LonghornPages}
<1> DEFINE paths == {item.to.path : item \in workspace!longhorn}
<1>1. paths = {workspace!Page("longhorn"), workspace!Page("longhorn") \o <<"context">>, <<"storage", "operations">>, <<"benchmarks">>}
                \cup {<<page>> : page \in LonghornPages}
  <2>1. \A path : /\ workspace!Item(workspace!At(path)).to.path = path /\ workspace!Exact(workspace!At(path)).to.path = path
                  /\ \A id : workspace!Item(workspace!providerFilter(path, id)).to.path = path
    <3>1. \A path : workspace!At(path).path = path /\ \A id : workspace!providerFilter(path, id).path = path
      BY DEF workspace!At, workspace!providerFilter
    <3>2. \A path : workspace!Item(workspace!At(path)).to = workspace!At(path) /\ workspace!Exact(workspace!At(path)).to = workspace!At(path)
      BY ItemIs
    <3>3. \A path, id : workspace!Item(workspace!providerFilter(path, id)).to = workspace!providerFilter(path, id)
      BY ItemIs
    <3> QED
      BY <3>1, <3>2, <3>3
  <2>2. ASSUME NEW item \in workspace!longhorn
        PROVE  item.to.path \in {workspace!Page("longhorn"), workspace!Page("longhorn") \o <<"context">>,
                 <<"storage", "operations">>, <<"benchmarks">>} \cup {<<page>> : page \in LonghornPages}
    <3>1. \/ item = workspace!Exact(workspace!At(workspace!Page("longhorn")))
          \/ item = workspace!Exact(workspace!At(workspace!Page("longhorn") \o <<"context">>))
          \/ item = workspace!Item(workspace!providerFilter(<<"storage", "operations">>, "longhorn"))
          \/ item = workspace!Item(workspace!providerFilter(<<"benchmarks">>, "longhorn"))
          \/ \E page \in LonghornPages : item = workspace!Item(workspace!At(<<page>>))
      BY <2>2, LonghornItems
    <3>2. ASSUME NEW path, item = workspace!Exact(workspace!At(path)) \/ \E id : item = workspace!Item(workspace!providerFilter(path, id))
          PROVE  item.to.path = path
      BY <2>1, <3>2
    <3>3. \A path : workspace!At(path) = workspace!providerFilter(path, None)
      BY DEF workspace!At, workspace!providerFilter
    <3> QED
      BY <3>1, <3>2, <3>3
  <2>3. /\ workspace!Page("longhorn") \in paths /\ workspace!Page("longhorn") \o <<"context">> \in paths
        /\ <<"storage", "operations">> \in paths /\ <<"benchmarks">> \in paths
    BY <2>1, LonghornItems, Zenon
  <2>4. ASSUME NEW page \in LonghornPages
        PROVE  <<page>> \in paths
    BY <2>1, LonghornItems, Zenon
  <2> QED
    BY <2>2, <2>3, <2>4, Zenon
<1>2. \A page \in LonghornPages : <<page>> # <<"storage", "operations">> /\ <<page>> # <<"benchmarks">>
  <2> SUFFICES ASSUME NEW page \in LonghornPages
               PROVE  <<page>> # <<"storage", "operations">> /\ <<page>> # <<"benchmarks">>
    OBVIOUS
  <2>1. page # "storage" /\ page # "benchmarks"
    BY DEF LonghornPages
  <2>2. <<page>>[1] = page /\ <<"storage", "operations">>[1] = "storage" /\ <<"benchmarks">>[1] = "benchmarks"
    OBVIOUS
  <2> QED
    BY <2>1, <2>2
<1>3. PICK u : Goes(u, workspace!Page("longhorn"), <<"context">>)
  BY DEF Goes
<1>4. OfProvider(u, "longhorn") /\ Len(u) = 4
  BY <1>3, Below1
<1>5. Len(workspace!Page("longhorn")) = 3 /\ Len(<<"storage", "operations">>) = 2 /\ Len(<<"benchmarks">>) = 1
  BY PageIs
<1>6. u # <<"storage", "operations">> /\ u # <<"benchmarks">>
  BY <1>4, <1>5
<1>7. workspace!Page("longhorn") # <<"storage", "operations">> /\ workspace!Page("longhorn") # <<"benchmarks">>
  BY <1>5
<1>8. u = workspace!Page("longhorn") \o <<"context">>
  BY <1>3 DEF Goes
<1>9. workspace!legacyLonghornPaths = paths \ {<<"storage", "operations">>, <<"benchmarks">>}
  BY DEF workspace!legacyLonghornPaths
<1> HIDE DEF paths
<1> QED
  BY <1>1, <1>2, <1>6, <1>7, <1>8, <1>9

\* What counts as a page of Longhorn.
LEMMA Legacy ==
  ASSUME NEW path, IsPath(path),
         NEW q \in workspace!legacyLonghornPaths, workspace!StartsWith(path, q)
  PROVE  /\ Len(path) >= 1
         /\ path[1] \in LonghornPages \/ (Len(path) >= 3 /\ path[1] = "storage" /\ path[2] = "providers")
<1>1. CASE \E page \in LonghornPages : q = <<page>>
  BY <1>1, AtPage
<1>2. CASE q \in {workspace!Page("longhorn"), workspace!Page("longhorn") \o <<"context">>}
  <2>1. PICK u : Goes(u, workspace!Page("longhorn"), <<"context">>)
    BY DEF Goes
  <2>2. OfProvider(u, "longhorn")
    BY <2>1, Below1
  <2>3. OfProvider(workspace!Page("longhorn"), "longhorn")
    BY PageIs DEF OfProvider
  <2>4. u = workspace!Page("longhorn") \o <<"context">>
    BY <2>1 DEF Goes
  <2>5. OfProvider(q, "longhorn")
    BY <1>2, <2>2, <2>3, <2>4
  <2>6. IsPath(q) /\ Len(q) >= 3 /\ q[1] = "storage" /\ q[2] = "providers"
    BY <2>5 DEF OfProvider
  <2>7. Len(q) <= Len(path) /\ \A i \in 1 .. Len(q) : path[i] = q[i]
    BY <2>6, Starts
  <2>8. Len(q) \in Nat /\ Len(path) \in Nat
    BY <2>6, PathLength
  <2>9. 1 \in 1 .. Len(q) /\ 2 \in 1 .. Len(q)
    BY <2>6, <2>8
  <2> QED
    BY <2>6, <2>7, <2>8, <2>9
<1> QED
  BY <1>1, <1>2, LegacyPaths

LEMMA CandidateOf ==
  ASSUME NEW l, NEW id, OfProvider(l.path, id)
  PROVE  workspace!candidateProviderId(l) = id
<1>1. IsPath(l.path) /\ Len(l.path) \in Nat
  BY PathLength DEF OfProvider
<1>2. workspace!StartsWith(l.path, <<"storage", "providers">>) /\ Len(l.path) > 2
  BY <1>1, AtProviders DEF OfProvider
<1> QED
  BY <1>2 DEF workspace!candidateProviderId, OfProvider

\* A page that is of no provider by its path.
LEMMA CandidateNamed ==
  ASSUME NEW l, IsPath(l.path), l.path[1] \notin LonghornPages,
         l.path[1] # "storage" \/ l.path[2] # "providers" \/ Len(l.path) = 2
  PROVE  workspace!candidateProviderId(l) = l.provider
<1>1. Len(l.path) \in Nat
  BY PathLength
<1>2. ~(workspace!StartsWith(l.path, <<"storage", "providers">>) /\ Len(l.path) > 2)
  <2>1. workspace!StartsWith(l.path, <<"storage", "providers">>) => l.path[1] = "storage" /\ l.path[2] = "providers"
    BY AtProviders
  <2>2. (l.path[1] = "storage" /\ l.path[2] = "providers") => ~(Len(l.path) > 2)
    <3>1. PICK n \in Nat : n = Len(l.path)
      BY <1>1
    <3>2. n = 2 => ~(n > 2)
      OBVIOUS
    <3> QED
      BY <3>1, <3>2
  <2> QED
    BY <2>1, <2>2
<1>3. ~ \E path \in workspace!legacyLonghornPaths : workspace!StartsWith(l.path, path)
  <2> SUFFICES ASSUME NEW path \in workspace!legacyLonghornPaths, workspace!StartsWith(l.path, path)
               PROVE  FALSE
    OBVIOUS
  <2>1. l.path[1] \in LonghornPages \/ (Len(l.path) >= 3 /\ l.path[1] = "storage" /\ l.path[2] = "providers")
    BY Legacy
  <2>2. Len(l.path) >= 3 => Len(l.path) > 2
    BY <1>1
  <2>3. workspace!StartsWith(l.path, <<"storage", "providers">>) <=>
          Len(l.path) >= 2 /\ l.path[1] = "storage" /\ l.path[2] = "providers"
    BY AtProviders
  <2>4. Len(l.path) >= 3 => Len(l.path) >= 2
    BY <1>1
  <2> QED
    BY <1>2, <2>1, <2>2, <2>3, <2>4
<1> QED
  BY <1>2, <1>3 DEF workspace!candidateProviderId

LEMMA CandidateLonghorn ==
  ASSUME NEW l, IsPath(l.path), Len(l.path) >= 1, l.path[1] \in LonghornPages, l.provider = None
  PROVE  workspace!candidateProviderId(l) = "longhorn"
<1>1. l.path[1] # "storage"
  BY DEF LonghornPages
<1>2. ~workspace!StartsWith(l.path, <<"storage", "providers">>)
  BY <1>1, AtProviders
<1>3. <<l.path[1]>> \in workspace!legacyLonghornPaths
  BY LegacyPaths
<1>4. workspace!StartsWith(l.path, <<l.path[1]>>)
  BY AtPage
<1>5. \E path \in workspace!legacyLonghornPaths : workspace!StartsWith(l.path, path)
  BY <1>3, <1>4
<1> QED
  BY <1>2, <1>5 DEF workspace!candidateProviderId

\* Discovery finds one Longhorn.
Known == query # None => \A p \in query : p.kind = "longhorn" => p.id = "longhorn"

LEMMA SameWorkspace ==
  ASSUME NEW l, NEW m, workspace!candidateProviderId(l) = workspace!candidateProviderId(m)
  PROVE  workspace!Workspace(l) = workspace!Workspace(m)
BY DEF workspace!Workspace

LEMMA NoWorkspace ==
  ASSUME NEW l, workspace!candidateProviderId(l) = None
  PROVE  workspace!Workspace(l) = None
BY DEF workspace!Workspace

LEMMA WorkspaceIs ==
  ASSUME Known, NEW l, workspace!Workspace(l) # None
  PROVE  /\ workspace!candidateProviderId(l) # None
         /\ workspace!Workspace(l).id = workspace!candidateProviderId(l)
         /\ workspace!Workspace(l).kind = "longhorn" => workspace!Workspace(l).id = "longhorn"
<1> DEFINE id == workspace!candidateProviderId(l)
<1>1. id # None
  BY NoWorkspace
<1> HIDE DEF id
<1>2. CASE query = None
  <2>1. workspace!Workspace(l) = workspace!placeholderProvider(id)
    BY <1>1, <1>2 DEF workspace!Workspace, id
  <2>2. /\ workspace!placeholderProvider(id).id = id
        /\ workspace!placeholderProvider(id).kind = "longhorn" => id = "longhorn"
    BY DEF workspace!placeholderProvider
  <2> QED
    BY <1>1, <2>1, <2>2 DEF id
<1>3. CASE query # None
  <2>1. \E p \in query : p.id = id
    BY <1>1, <1>3 DEF workspace!Workspace, id
  <2>2. workspace!Workspace(l) = CHOOSE p \in query : p.id = id
    BY <1>1, <1>3, <2>1 DEF workspace!Workspace, id
  <2>3. workspace!Workspace(l) \in query /\ workspace!Workspace(l).id = id
    BY <2>1, <2>2
  <2> QED
    BY <1>1, <1>3, <2>3 DEF Known, id
<1> QED
  BY <1>2, <1>3

-----------------------------------------------------------------------------
(* The items of a workspace *)

\* The provider in the query of an item of the workspace of q.
Prov(path, q) ==
  IF path[1] = "benchmarks" \/ (path[1] = "storage" /\ path[2] # "providers") THEN q ELSE None

EndsAt(path) == path[1] = "storage" /\ path[2] = "providers" /\ Len(path) \in {2, 3, 4}

\* The one item that a workspace may have for a path.
Marked(path, q) ==
  IF path[1] = "admin" THEN [workspace!Exact(workspace!providerFilter(path, Prov(path, q))) EXCEPT !.admin = TRUE]
  ELSE IF EndsAt(path) THEN workspace!Exact(workspace!providerFilter(path, Prov(path, q)))
  ELSE workspace!Item(workspace!providerFilter(path, Prov(path, q)))

Shaped(path, q) ==
  /\ IsPath(path)
  /\ \/ Len(path) = 1 /\ path[1] # "storage"
     \/ Len(path) = 2 /\ path[1] = "storage"
     \/ OfProvider(path, q) /\ Len(path) \in {3, 4, 5}

Fits(item, q) == Shaped(item.to.path, q) /\ item = Marked(item.to.path, q)

LEMMA MarkedIs ==
  ASSUME NEW path, NEW q
  PROVE  /\ Marked(path, q).to.path = path
         /\ Marked(path, q).to.provider = Prov(path, q)
         /\ Marked(path, q).end = IF path[1] = "admin" \/ EndsAt(path) THEN TRUE ELSE FALSE
<1>1. PICK to : to = workspace!providerFilter(path, Prov(path, q))
  OBVIOUS
<1>2. to.path = path /\ to.provider = Prov(path, q)
  BY <1>1 DEF workspace!providerFilter
<1>3. [workspace!Exact(to) EXCEPT !.admin = TRUE].to = to /\ [workspace!Exact(to) EXCEPT !.admin = TRUE].end = TRUE
  BY DEF workspace!Exact, workspace!Item
<1>4. workspace!Exact(to).to = to /\ workspace!Exact(to).end = TRUE /\ workspace!Item(to).to = to /\ workspace!Item(to).end = FALSE
  BY ItemIs
<1> QED
  BY <1>1, <1>2, <1>3, <1>4 DEF Marked

LEMMA FitsBy ==
  ASSUME NEW path, NEW q, NEW item, Shaped(path, q), item = Marked(path, q)
  PROVE  Fits(item, q) /\ item.to.path = path /\ item.to.provider = Prov(path, q)
BY MarkedIs, ZenonT(60) DEF Fits

LEMMA OneActive ==
  ASSUME NEW q, NEW i, NEW j, Fits(i, q), Fits(j, q)
  PROVE  workspace!isActive(j, i.to) <=> j = i
<1>1. PICK s, t : s = i.to.path /\ t = j.to.path
  OBVIOUS
<1>2. Shaped(s, q) /\ Shaped(t, q) /\ i = Marked(s, q) /\ j = Marked(t, q)
  BY <1>1 DEF Fits
<1>3. IsPath(s) /\ IsPath(t) /\ Len(s) \in Nat /\ Len(t) \in Nat
  BY <1>2, PathLength DEF Shaped
<1>4. s = t => i = j
  BY <1>2
<1>5. s = t <=> j = i
  BY <1>1, <1>4
<1>6. j.end = IF t[1] = "admin" \/ EndsAt(t) THEN TRUE ELSE FALSE
  BY <1>2, MarkedIs
<1>7. CASE t[1] = "admin" \/ EndsAt(t)
  <2>1. workspace!isActive(j, i.to) <=> s = t
    BY <1>1, <1>6, <1>7 DEF workspace!isActive
  <2> QED
    BY <1>5, <2>1
<1>8. CASE ~(t[1] = "admin" \/ EndsAt(t))
  <2>1. workspace!isActive(j, i.to) <=> workspace!StartsWith(s, t)
    BY <1>1, <1>6, <1>8 DEF workspace!isActive
  <2>2. workspace!StartsWith(s, t) <=> Len(t) <= Len(s) /\ \A k \in 1 .. Len(t) : s[k] = t[k]
    BY <1>3, Starts
  <2>3. s = t => workspace!StartsWith(s, t)
    BY <1>3, <2>2
  <2>4. ASSUME workspace!StartsWith(s, t)
        PROVE  s = t
    <3>1. Len(t) <= Len(s) /\ \A k \in 1 .. Len(t) : s[k] = t[k]
      BY <2>2, <2>4
    <3>2. Len(t) = 1 \/ Len(t) = 2 \/ Len(t) = 3 \/ Len(t) = 4 \/ Len(t) = 5
      BY <1>2 DEF Shaped
    <3>3. s[1] = t[1]
      BY <1>3, <3>1, <3>2
    <3>4. CASE Len(t) = 1
      <4>1. t[1] # "storage"
        BY <1>2, <3>4 DEF Shaped, OfProvider
      <4>2. Len(s) = 1
        BY <1>2, <3>3, <4>1 DEF Shaped, OfProvider
      <4> QED
        BY <1>3, <3>1, <3>4, <4>2, SamePath
    <3>5. CASE Len(t) = 2
      <4>1. t[1] = "storage" /\ t[2] # "providers"
        BY <1>2, <1>8, <3>5 DEF Shaped, OfProvider, EndsAt
      <4>2. s[2] = t[2]
        BY <3>1, <3>5
      <4>3. Len(s) = 2
        BY <1>2, <3>1, <3>3, <3>5, <4>1, <4>2 DEF Shaped, OfProvider
      <4> QED
        BY <1>3, <3>1, <3>5, <4>3, SamePath
    <3>6. CASE Len(t) \in {3, 4, 5}
      <4>1. t[1] = "storage" /\ t[2] = "providers"
        BY <1>2, <3>6 DEF Shaped, OfProvider
      <4>2. Len(t) = 5
        BY <1>8, <3>6, <4>1 DEF EndsAt
      <4>3. Len(s) = 5
        BY <1>2, <3>1, <4>2 DEF Shaped
      <4> QED
        BY <1>3, <3>1, <4>2, <4>3, SamePath
    <3> QED
      BY <3>2, <3>4, <3>5, <3>6
  <2> QED
    BY <1>5, <2>1, <2>3, <2>4
<1> QED
  BY <1>7, <1>8

\* An item leads to a page, of the workspace of q or of none.
Arrives(item, q) ==
  /\ Fits(item, q)
  /\ workspace!Routed(item.to.path)
  /\ workspace!candidateProviderId(item.to) = IF item.to.path[1] \in {"status", "admin"} THEN None ELSE q

LEMMA ArrivesPage ==
  ASSUME NEW a \in LonghornPages
  PROVE  Arrives(workspace!Item(workspace!At(<<a>>)), "longhorn")
<1>1. PICK u : u = <<a>>
  OBVIOUS
<1>2. IsPath(u) /\ Len(u) = 1 /\ u[1] = a
  BY <1>1, Path1
<1>3. a \notin {"storage", "admin", "benchmarks", "status"}
  BY DEF LonghornPages
<1>4. PICK item : item = workspace!Item(workspace!At(u))
  OBVIOUS
<1>5. Shaped(u, "longhorn") /\ item = Marked(u, "longhorn")
  BY <1>2, <1>3, <1>4 DEF Shaped, Marked, EndsAt, Prov, workspace!At, workspace!providerFilter
<1>6. Fits(item, "longhorn") /\ item.to.path = u /\ item.to.provider = None
  BY <1>2, <1>3, <1>5, FitsBy DEF Prov
<1>7. workspace!Routed(u)
  BY <1>2, Route1 DEF LonghornPages
<1>11. IsPath(item.to.path) /\ Len(item.to.path) >= 1 /\ item.to.path[1] \in LonghornPages
  BY <1>2, <1>6, SMTT(40)
<1>8. workspace!candidateProviderId(item.to) = "longhorn"
  BY <1>6, <1>11, CandidateLonghorn
<1> QED
  BY <1>1, <1>2, <1>3, <1>4, <1>6, <1>7, <1>8 DEF Arrives

LEMMA ArrivesStorage ==
  ASSUME NEW q, NEW k \in {"inventory", "operations", "events", "insights", "classes", "claims",
                           "volumes", "snapshots", "attachments", "capacity"}
  PROVE  Arrives(workspace!Item(workspace!providerFilter(<<"storage", k>>, q)), q)
<1>1. PICK u : u = <<"storage", k>>
  OBVIOUS
<1>2. IsPath(u) /\ Len(u) = 2 /\ u[1] = "storage" /\ u[2] = k /\ k # "providers"
  BY <1>1, Path2
<1>4. PICK item : item = workspace!Item(workspace!providerFilter(u, q))
  OBVIOUS
<1>5. Shaped(u, q) /\ item = Marked(u, q)
  BY <1>2, <1>4 DEF Shaped, Marked, EndsAt, Prov
<1>6. Fits(item, q) /\ item.to.path = u /\ item.to.provider = q
  BY <1>2, <1>5, FitsBy DEF Prov
<1>7. workspace!Routed(u)
  BY <1>2, Route2
<1>8. workspace!candidateProviderId(item.to) = q
  BY <1>2, <1>6, CandidateNamed DEF LonghornPages
<1> QED
  BY <1>1, <1>2, <1>4, <1>6, <1>7, <1>8 DEF Arrives

LEMMA ArrivesBenchmarks ==
  ASSUME NEW q
  PROVE  Arrives(workspace!Item(workspace!providerFilter(<<"benchmarks">>, q)), q)
<1>1. PICK u : u = <<"benchmarks">>
  OBVIOUS
<1>2. IsPath(u) /\ Len(u) = 1 /\ u[1] = "benchmarks"
  BY <1>1, Path1
<1>4. PICK item : item = workspace!Item(workspace!providerFilter(u, q))
  OBVIOUS
<1>5. Shaped(u, q) /\ item = Marked(u, q)
  BY <1>2, <1>4 DEF Shaped, Marked, EndsAt, Prov
<1>6. Fits(item, q) /\ item.to.path = u /\ item.to.provider = q
  BY <1>2, <1>5, FitsBy DEF Prov
<1>7. workspace!Routed(u)
  BY <1>2, Route1
<1>8. workspace!candidateProviderId(item.to) = q
  BY <1>2, <1>6, CandidateNamed DEF LonghornPages
<1> QED
  BY <1>1, <1>2, <1>4, <1>6, <1>7, <1>8 DEF Arrives

LEMMA ArrivesProviders == Arrives(workspace!Exact(workspace!At(<<"storage", "providers">>)), None)
<1>1. PICK u : u = <<"storage", "providers">>
  OBVIOUS
<1>2. IsPath(u) /\ Len(u) = 2 /\ u[1] = "storage" /\ u[2] = "providers"
  BY <1>1, Path2
<1>4. PICK item : item = workspace!Exact(workspace!At(u))
  OBVIOUS
<1>5. Shaped(u, None) /\ item = Marked(u, None)
  BY <1>2, <1>4 DEF Shaped, Marked, EndsAt, Prov, workspace!At, workspace!providerFilter
<1>6. Fits(item, None) /\ item.to.path = u /\ item.to.provider = None
  BY <1>2, <1>5, FitsBy DEF Prov
<1>7. workspace!Routed(u)
  BY <1>2, Route2
<1>8. workspace!candidateProviderId(item.to) = None
  BY <1>2, <1>6, CandidateNamed DEF LonghornPages
<1> QED
  BY <1>1, <1>2, <1>4, <1>6, <1>7, <1>8 DEF Arrives

LEMMA ArrivesSystem ==
  ASSUME NEW q, NEW item \in workspace!system
  PROVE  Arrives(item, q)
<1>1. PICK a : a \in {"status", "admin"} /\ item = IF a = "admin" THEN [workspace!Exact(workspace!At(<<a>>)) EXCEPT !.admin = TRUE]
                                                                 ELSE workspace!Item(workspace!At(<<a>>))
  BY DEF workspace!system
<1>2. PICK u : u = <<a>>
  OBVIOUS
<1>3. IsPath(u) /\ Len(u) = 1 /\ u[1] = a
  BY <1>2, Path1
<1>4. a \notin {"storage", "benchmarks"} /\ a \notin LonghornPages
  BY <1>1 DEF LonghornPages
<1>9. item = IF a = "admin" THEN [workspace!Exact(workspace!At(u)) EXCEPT !.admin = TRUE] ELSE workspace!Item(workspace!At(u))
  BY <1>1, <1>2
<1>10. workspace!At(u) = workspace!providerFilter(u, Prov(u, q))
  BY <1>3, <1>4 DEF workspace!At, workspace!providerFilter, Prov
<1>5. Shaped(u, q) /\ item = Marked(u, q)
  BY <1>3, <1>4, <1>9, <1>10 DEF Shaped, Marked, EndsAt
<1>6. Fits(item, q) /\ item.to.path = u /\ item.to.provider = None
  BY <1>3, <1>4, <1>5, FitsBy DEF Prov
<1>7. workspace!Routed(u)
  BY <1>1, <1>3, Route1
<1>8. workspace!candidateProviderId(item.to) = None
  BY <1>3, <1>4, <1>6, CandidateNamed
<1> QED
  BY <1>1, <1>3, <1>6, <1>7, <1>8 DEF Arrives

LEMMA ArrivesOverview ==
  ASSUME NEW q
  PROVE  /\ Arrives(workspace!Exact(workspace!At(workspace!Page(q))), q)
         /\ Arrives(workspace!Exact(workspace!At(workspace!Page(q) \o <<"context">>)), q)
<1>1. ASSUME NEW u, OfProvider(u, q), Len(u) = 3 \/ (Len(u) = 4 /\ u[4] = "context")
      PROVE  Arrives(workspace!Exact(workspace!At(u)), q)
  <2>1. IsPath(u) /\ u[1] = "storage" /\ u[2] = "providers"
    BY <1>1 DEF OfProvider
  <2>2. PICK item : item = workspace!Exact(workspace!At(u))
    OBVIOUS
  <2>3. Shaped(u, q)
    BY <1>1, <2>1 DEF Shaped
  <2>9. EndsAt(u) /\ Prov(u, q) = None
    BY <1>1, <2>1 DEF EndsAt, Prov
  <2>4. item = Marked(u, q)
    BY <2>1, <2>2, <2>9 DEF Marked, workspace!At, workspace!providerFilter
  <2>5. Fits(item, q) /\ item.to.path = u
    BY <2>3, <2>4, FitsBy
  <2>6. workspace!Routed(u)
    BY <1>1, <2>1, Route3, Route4
  <2>7. workspace!candidateProviderId(item.to) = q
    BY <1>1, <2>5, CandidateOf
  <2> QED
    BY <2>1, <2>2, <2>5, <2>6, <2>7 DEF Arrives
<1>2. PICK u : u = workspace!Page(q)
  OBVIOUS
<1>3. OfProvider(u, q) /\ Len(u) = 3
  BY <1>2, PageIs DEF OfProvider
<1>4. PICK v : Goes(v, workspace!Page(q), <<"context">>)
  BY DEF Goes
<1>5. OfProvider(v, q) /\ Len(v) = 4 /\ v[4] = "context"
  BY <1>4, Below1
<1> QED
  BY <1>1, <1>2, <1>3, <1>4, <1>5 DEF Goes

LEMMA ArrivesKind ==
  ASSUME NEW q, NEW product \in Products, NEW kind
  PROVE  Arrives(workspace!Item(workspace!At(workspace!Page(q) \o <<product, kind>>)), q)
<1>1. PICK u : Goes(u, workspace!Page(q), <<product, kind>>)
  BY DEF Goes
<1>2. OfProvider(u, q) /\ Len(u) = 5 /\ u[4] = product
  BY <1>1, Below2
<1>3. IsPath(u) /\ u[1] = "storage" /\ u[2] = "providers"
  BY <1>2 DEF OfProvider
<1>4. PICK item : item = workspace!Item(workspace!At(u))
  OBVIOUS
<1>5. Shaped(u, q)
  BY <1>2, <1>3 DEF Shaped
<1>6. ~EndsAt(u) /\ Prov(u, q) = None
  BY <1>2, <1>3 DEF EndsAt, Prov
<1>7. item = Marked(u, q)
  BY <1>3, <1>4, <1>6 DEF Marked, workspace!At, workspace!providerFilter
<1>8. Fits(item, q) /\ item.to.path = u
  BY <1>5, <1>7, FitsBy
<1>9. workspace!Routed(u)
  BY <1>2, <1>3, Route5
<1>10. workspace!candidateProviderId(item.to) = q
  BY <1>2, <1>8, CandidateOf
<1>11. Arrives(item, q)
  BY <1>3, <1>8, <1>9, <1>10 DEF Arrives
<1> QED
  BY <1>1, <1>4, <1>11 DEF Goes

-----------------------------------------------------------------------------
\* Whose workspace it is.
Own(p) == IF p = None THEN None ELSE p.id

LEMMA ArrivesAll ==
  ASSUME NEW item \in workspace!allStorage
  PROVE  Arrives(item, None)
<1>1. \A path : workspace!At(path) = workspace!providerFilter(path, None)
  BY DEF workspace!At, workspace!providerFilter
<1>2. \/ item = workspace!Exact(workspace!At(<<"storage", "providers">>))
      \/ item = workspace!Item(workspace!providerFilter(<<"benchmarks">>, None))
      \/ \E k \in {"inventory", "operations", "events", "insights"} :
           item = workspace!Item(workspace!providerFilter(<<"storage", k>>, None))
  BY <1>1 DEF workspace!allStorage
<1>3. CASE item = workspace!Exact(workspace!At(<<"storage", "providers">>))
  BY <1>3, ArrivesProviders
<1>4. CASE item = workspace!Item(workspace!providerFilter(<<"benchmarks">>, None))
  BY <1>4, ArrivesBenchmarks
<1>5. ASSUME NEW k \in {"inventory", "operations", "events", "insights"},
             item = workspace!Item(workspace!providerFilter(<<"storage", k>>, None))
      PROVE  Arrives(item, None)
  BY <1>5, ArrivesStorage
<1> QED
  BY <1>2, <1>3, <1>4, <1>5

LEMMA ArrivesLonghorn ==
  ASSUME NEW item \in workspace!longhorn
  PROVE  Arrives(item, "longhorn")
<1>1. \/ item = workspace!Exact(workspace!At(workspace!Page("longhorn")))
      \/ item = workspace!Exact(workspace!At(workspace!Page("longhorn") \o <<"context">>))
      \/ item = workspace!Item(workspace!providerFilter(<<"storage", "operations">>, "longhorn"))
      \/ item = workspace!Item(workspace!providerFilter(<<"benchmarks">>, "longhorn"))
      \/ \E page \in LonghornPages : item = workspace!Item(workspace!At(<<page>>))
  BY LonghornItems
<1>2. /\ Arrives(workspace!Exact(workspace!At(workspace!Page("longhorn"))), "longhorn")
      /\ Arrives(workspace!Exact(workspace!At(workspace!Page("longhorn") \o <<"context">>)), "longhorn")
  BY ArrivesOverview
<1>3. Arrives(workspace!Item(workspace!providerFilter(<<"storage", "operations">>, "longhorn")), "longhorn")
  BY ArrivesStorage
<1>4. Arrives(workspace!Item(workspace!providerFilter(<<"benchmarks">>, "longhorn")), "longhorn")
  BY ArrivesBenchmarks
<1>5. \A page \in LonghornPages : Arrives(workspace!Item(workspace!At(<<page>>)), "longhorn")
  BY ArrivesPage
<1> QED
  BY <1>1, <1>2, <1>3, <1>4, <1>5, Zenon

LEMMA ArrivesCommon ==
  ASSUME NEW p, NEW item, item \in workspace!Overview(p) \/ item \in workspace!commonInventoryItems(p)
  PROVE  Arrives(item, p.id)
<1>1. PICK q : q = p.id
  OBVIOUS
<1>2. \/ item = workspace!Exact(workspace!At(workspace!Page(q)))
      \/ item = workspace!Exact(workspace!At(workspace!Page(q) \o <<"context">>))
      \/ \E k \in {"operations", "classes", "claims", "volumes", "snapshots", "attachments",
                   "capacity", "events"} : item = workspace!Item(workspace!providerFilter(<<"storage", k>>, q))
  BY <1>1 DEF workspace!Overview, workspace!commonInventoryItems
<1>3. /\ Arrives(workspace!Exact(workspace!At(workspace!Page(q))), q)
      /\ Arrives(workspace!Exact(workspace!At(workspace!Page(q) \o <<"context">>)), q)
  BY ArrivesOverview
<1>4. \A k \in {"operations", "classes", "claims", "volumes", "snapshots", "attachments",
                "capacity", "events"} : Arrives(workspace!Item(workspace!providerFilter(<<"storage", k>>, q)), q)
  BY ArrivesStorage
<1>5. Arrives(item, q)
  BY <1>2, <1>3, <1>4, Zenon
<1> QED
  BY <1>1, <1>5

LEMMA ArrivesKinds ==
  ASSUME NEW p, NEW product \in Products, NEW kinds, NEW item \in workspace!Kinds(p, product, kinds)
  PROVE  Arrives(item, p.id)
<1>1. PICK q : q = p.id
  OBVIOUS
<1>2. PICK kind : item = workspace!Item(workspace!At(workspace!Page(q) \o <<product, kind>>))
  BY <1>1, Zenon DEF workspace!Kinds
<1>3. Arrives(item, q)
  BY <1>2, ArrivesKind, Zenon
<1> QED
  BY <1>1, <1>3

LEMMA NavigationArrives ==
  ASSUME NEW p, NEW r, p # None /\ p.kind = "longhorn" => p.id = "longhorn",
         NEW item \in workspace!navigationForWorkspace(p, r)
  PROVE  Arrives(item, Own(p))
<1>1. CASE item \in workspace!system
  BY <1>1, ArrivesSystem
<1>2. CASE item \notin workspace!system /\ p = None
  <2>1. item \in workspace!allStorage
    BY <1>2, Zenon DEF workspace!navigationForWorkspace
  <2> QED
    BY <1>2, <2>1, ArrivesAll DEF Own
<1>3. CASE item \notin workspace!system /\ p # None
  <2>1. \/ p.id = "longhorn" /\ item \in workspace!longhorn
        \/ item \in workspace!Overview(p) \/ item \in workspace!commonInventoryItems(p)
        \/ \E product \in Products : \E kinds : item \in workspace!Kinds(p, product, kinds)
    <3>1. \/ (p.kind = "longhorn" \/ p.id = "longhorn") /\ item \in workspace!longhorn
          \/ item \in workspace!rookCephGroups(p) \/ item \in workspace!openEBSGroups(p) \/ item \in workspace!linstorGroups(p)
          \/ item \in workspace!genericProviderGroups(p)
      BY <1>3, Zenon DEF workspace!navigationForWorkspace
    <3>2. CASE (p.kind = "longhorn" \/ p.id = "longhorn") /\ item \in workspace!longhorn
      BY <1>3, <3>2
    <3>3. CASE item \in workspace!rookCephGroups(p)
      BY <3>3, Zenon DEF workspace!rookCephGroups, Products
    <3>4. CASE item \in workspace!openEBSGroups(p)
      BY <3>4, Zenon DEF workspace!openEBSGroups, Products
    <3>5. CASE item \in workspace!linstorGroups(p)
      BY <3>5, Zenon DEF workspace!linstorGroups, Products
    <3>6. CASE item \in workspace!genericProviderGroups(p)
      BY <3>6, Zenon DEF workspace!genericProviderGroups
    <3> QED
      BY <3>1, <3>2, <3>3, <3>4, <3>5, <3>6, Zenon
  <2>2. CASE p.id = "longhorn" /\ item \in workspace!longhorn
    BY <1>3, <2>2, ArrivesLonghorn DEF Own
  <2>3. CASE item \in workspace!Overview(p) \/ item \in workspace!commonInventoryItems(p)
    BY <1>3, <2>3, ArrivesCommon DEF Own
  <2>4. ASSUME NEW product \in Products, NEW kinds, item \in workspace!Kinds(p, product, kinds)
        PROVE  Arrives(item, Own(p))
    BY <1>3, <2>4, ArrivesKinds DEF Own
  <2> QED
    BY <2>1, <2>2, <2>3, <2>4, Zenon
<1> QED
  BY <1>1, <1>2, <1>3

LEMMA OfferedArrive ==
  ASSUME Known, NEW l, NEW item \in workspace!Offered(l)
  PROVE  Arrives(item, Own(workspace!Workspace(l)))
<1>1. PICK p : p = workspace!Workspace(l)
  OBVIOUS
<1>2. p # None /\ p.kind = "longhorn" => p.id = "longhorn"
  BY <1>1, WorkspaceIs
<1>3. item \in workspace!navigationForWorkspace(p, calls)
  BY <1>1 DEF workspace!Offered
<1>4. Arrives(item, Own(p))
  BY <1>2, <1>3, NavigationArrives
<1> QED
  BY <1>1, <1>4

\* An item is in the workspace that it leads to.
LEMMA ItemKept ==
  ASSUME Known, NEW l, NEW item \in workspace!Offered(l)
  PROVE  \E q : /\ Fits(item, q)
                /\ item \in workspace!Offered(item.to)
                /\ \A other \in workspace!Offered(item.to) : Fits(other, q)
<1>1. PICK path : path = item.to.path
  OBVIOUS
<1>2. PICK p : p = workspace!Workspace(l)
  OBVIOUS
<1>3. Arrives(item, Own(p))
  BY <1>2, OfferedArrive
<1>4. Fits(item, Own(p)) /\ workspace!candidateProviderId(item.to) = IF path[1] \in {"status", "admin"} THEN None ELSE Own(p)
  BY <1>1, <1>3 DEF Arrives
<1>5. CASE path[1] \in {"status", "admin"}
  <2>1. workspace!Workspace(item.to) = None
    BY <1>4, <1>5, NoWorkspace
  <2>2. item \in workspace!system
    <3>1. Shaped(path, Own(p)) /\ item = Marked(path, Own(p))
      BY <1>1, <1>4 DEF Fits
    <3>2. IsPath(path) /\ Len(path) = 1
      BY <1>5, <3>1 DEF Shaped, OfProvider
    <3>3. PICK a \in {"status", "admin"} : a = path[1]
      BY <1>5
    <3>4. IsPath(<<a>>) /\ Len(<<a>>) = 1 /\ <<a>>[1] = a
      BY Path1
    <3>5. path = <<a>>
      <4>1. PICK t : t = <<a>>
        OBVIOUS
      <4>2. IsPath(t) /\ Len(t) = 1 /\ t[1] = a
        BY <3>4, <4>1
      <4>3. \A i \in 1 .. 1 : i = 1
        OBVIOUS
      <4>4. path = t
        BY <3>2, <3>3, <4>2, <4>3, SamePath
      <4> QED
        BY <4>1, <4>4
    <3>6. item = IF a = "admin" THEN [workspace!Exact(workspace!At(path)) EXCEPT !.admin = TRUE] ELSE workspace!Item(workspace!At(path))
      BY <3>1, <3>3 DEF Marked, EndsAt, Prov, workspace!At, workspace!providerFilter
    <3>7. item = IF a = "admin" THEN [workspace!Exact(workspace!At(<<a>>)) EXCEPT !.admin = TRUE] ELSE workspace!Item(workspace!At(<<a>>))
      BY <3>5, <3>6
    <3>8. a = "status" \/ a = "admin"
      OBVIOUS
    <3> QED
      BY <3>7, <3>8 DEF workspace!system
  <2>3. item.admin => calls = "admin"
    BY Zenon DEF workspace!Offered, workspace!navigationForWorkspace
  <2>4. item \in workspace!Offered(item.to)
    BY <2>2, <2>3, Zenon DEF workspace!Offered, workspace!navigationForWorkspace
  <2>5. Fits(item, None)
    BY <2>2, ArrivesSystem DEF Arrives
  <2>6. \A other \in workspace!Offered(item.to) : Fits(other, None)
    <3> SUFFICES ASSUME NEW other \in workspace!Offered(item.to)
                 PROVE  Fits(other, None)
      OBVIOUS
    <3>1. Arrives(other, Own(workspace!Workspace(item.to)))
      BY OfferedArrive
    <3> QED
      BY <2>1, <3>1 DEF Arrives, Own
  <2> QED
    BY <2>4, <2>5, <2>6
<1>6. CASE path[1] \notin {"status", "admin"}
  <2>1. workspace!candidateProviderId(item.to) = Own(p)
    BY <1>4, <1>6
  <2>2. workspace!Workspace(item.to) = p
    <3>1. CASE p = None
      BY <2>1, <3>1, NoWorkspace DEF Own
    <3>2. CASE p # None
      <4>1. p.id = workspace!candidateProviderId(l)
        BY <1>2, <3>2, WorkspaceIs
      <4>2. workspace!candidateProviderId(item.to) = workspace!candidateProviderId(l)
        BY <2>1, <3>2, <4>1 DEF Own
      <4> QED
        BY <1>2, <4>2, SameWorkspace
    <3> QED
      BY <3>1, <3>2
  <2>3. workspace!Offered(item.to) = workspace!Offered(l)
    BY <1>2, <2>2 DEF workspace!Offered
  <2>4. \A other \in workspace!Offered(item.to) : Fits(other, Own(p))
    BY <1>2, <2>3, OfferedArrive DEF Arrives
  <2> QED
    BY <1>4, <2>3, <2>4
<1> QED
  BY <1>5, <1>6

LEMMA ItemsArrive ==
  ASSUME Known, NEW l, NEW item \in workspace!Offered(l)
  PROVE  /\ workspace!Routed(item.to.path)
         /\ {other \in workspace!Offered(item.to) : workspace!isActive(other, item.to)} = {item}
<1>1. workspace!Routed(item.to.path)
  BY OfferedArrive DEF Arrives
<1>2. PICK q : /\ Fits(item, q)
               /\ item \in workspace!Offered(item.to)
               /\ \A other \in workspace!Offered(item.to) : Fits(other, q)
  BY ItemKept
<1>3. \A other \in workspace!Offered(item.to) : workspace!isActive(other, item.to) <=> other = item
  BY <1>2, OneActive
<1> QED
  BY <1>1, <1>2, <1>3

-----------------------------------------------------------------------------
(* The places of the program, and the links between them *)

\* Only a page of the inventory, and the benchmarks, take a provider in the query.
Place(l) ==
  /\ l = workspace!providerFilter(l.path, l.provider)
  /\ IsPath(l.path)
  /\ workspace!Routed(l.path)
  /\ l.provider # None => l.path[1] = "benchmarks" \/ (l.path[1] = "storage" /\ l.path[2] # "providers")

\* A place that the path or the query puts in the workspace of q.
Leads(m, q) == Place(m) /\ workspace!candidateProviderId(m) = q

LEMMA LeadsBelow ==
  ASSUME NEW u, NEW q, OfProvider(u, q), workspace!Routed(u)
  PROVE  Leads(workspace!At(u), q)
<1>1. PICK m : m = workspace!At(u)
  OBVIOUS
<1>2. m.path = u /\ m.provider = None /\ m = workspace!providerFilter(u, None)
  BY <1>1 DEF workspace!At, workspace!providerFilter
<1>3. OfProvider(m.path, q) /\ workspace!Routed(m.path)
  BY <1>2
<1>4. workspace!candidateProviderId(m) = q
  BY <1>3, CandidateOf
<1>5. IsPath(m.path)
  BY <1>3 DEF OfProvider
<1>6. Place(m)
  BY <1>2, <1>3, <1>5 DEF Place
<1> QED
  BY <1>1, <1>4, <1>6 DEF Leads

LEMMA LeadsNamed ==
  ASSUME NEW u, NEW q, IsPath(u), u[1] = "storage", u[2] # "providers", workspace!Routed(u)
  PROVE  Leads(workspace!providerFilter(u, q), q)
<1>1. PICK m : m = workspace!providerFilter(u, q)
  OBVIOUS
<1>2. m.path = u /\ m.provider = q /\ m = workspace!providerFilter(u, q)
  BY <1>1 DEF workspace!providerFilter
<1>3. IsPath(m.path) /\ workspace!Routed(m.path) /\ m.path[1] = "storage" /\ m.path[2] # "providers"
  BY <1>2
<1>4. "storage" \notin LonghornPages
  BY DEF LonghornPages
<1>5. workspace!candidateProviderId(m) = m.provider
  BY <1>3, <1>4, CandidateNamed
<1>6. Place(m)
  BY <1>2, <1>3 DEF Place
<1> QED
  BY <1>1, <1>2, <1>5, <1>6 DEF Leads

LEMMA LeadsLonghorn ==
  ASSUME NEW u, IsPath(u), Len(u) >= 1, u[1] \in LonghornPages, workspace!Routed(u)
  PROVE  Leads(workspace!At(u), "longhorn")
<1>1. PICK m : m = workspace!At(u)
  OBVIOUS
<1>2. m.path = u /\ m.provider = None /\ m = workspace!providerFilter(u, None)
  BY <1>1 DEF workspace!At, workspace!providerFilter
<1>3. IsPath(m.path) /\ Len(m.path) >= 1 /\ m.path[1] \in LonghornPages /\ workspace!Routed(m.path)
  BY <1>2
<1>4. workspace!candidateProviderId(m) = "longhorn"
  BY <1>2, <1>3, CandidateLonghorn
<1>5. Place(m)
  BY <1>2, <1>3 DEF Place
<1> QED
  BY <1>1, <1>4, <1>5 DEF Leads

LEMMA LeadsPage ==
  ASSUME NEW q
  PROVE  Leads(workspace!At(workspace!Page(q)), q)
<1>1. PICK u : u = workspace!Page(q)
  OBVIOUS
<1>2. OfProvider(u, q) /\ Len(u) = 3
  BY <1>1, PageIs DEF OfProvider
<1>3. workspace!Routed(u)
  BY <1>2, Route3 DEF OfProvider
<1>4. Leads(workspace!At(u), q)
  BY <1>2, <1>3, LeadsBelow
<1> QED
  BY <1>1, <1>4

LEMMA LeadsContext ==
  ASSUME NEW q
  PROVE  Leads(workspace!At(workspace!Page(q) \o <<"context">>), q)
<1>1. PICK u : Goes(u, workspace!Page(q), <<"context">>)
  BY DEF Goes
<1>2. OfProvider(u, q) /\ Len(u) = 4 /\ u[4] = "context"
  BY <1>1, Below1
<1>3. workspace!Routed(u)
  BY <1>2, Route4 DEF OfProvider
<1>4. Leads(workspace!At(u), q)
  BY <1>2, <1>3, LeadsBelow
<1> QED
  BY <1>1, <1>4 DEF Goes

LEMMA LeadsKind ==
  ASSUME NEW q, NEW product \in Products, NEW kind
  PROVE  /\ Leads(workspace!At(workspace!Page(q) \o <<product, kind>>), q)
         /\ Leads(workspace!At(workspace!Page(q) \o <<product, kind, "x">>), q)
<1>1. PICK u : Goes(u, workspace!Page(q), <<product, kind>>)
  BY DEF Goes
<1>2. PICK v : Goes(v, workspace!Page(q), <<product, kind, "x">>)
  BY DEF Goes
<1>3. OfProvider(u, q) /\ Len(u) = 5 /\ u[4] = product
  BY <1>1, Below2
<1>4. OfProvider(v, q) /\ Len(v) = 6 /\ v[4] = product
  BY <1>2, Below3
<1>5. workspace!Routed(u)
  BY <1>3, Route5 DEF OfProvider
<1>6. workspace!Routed(v)
  BY <1>4, Route6 DEF OfProvider
<1>7. Leads(workspace!At(u), q)
  BY <1>3, <1>5, LeadsBelow
<1>8. Leads(workspace!At(v), q)
  BY <1>4, <1>6, LeadsBelow
<1> QED
  BY <1>1, <1>2, <1>7, <1>8 DEF Goes

InventoryPages ==
  {"inventory", "classes", "claims", "volumes", "snapshots", "attachments", "capacity", "events",
   "insights", "operations"}

LEMMA LeadsStorage ==
  ASSUME NEW q, NEW k \in InventoryPages
  PROVE  Leads(workspace!providerFilter(<<"storage", k>>, q), q)
<1>1. PICK u : u = <<"storage", k>>
  OBVIOUS
<1>2. IsPath(u) /\ Len(u) = 2 /\ u[1] = "storage" /\ u[2] = k
  BY <1>1, Path2
<1>3. workspace!Routed(u)
  BY <1>2, Route2 DEF InventoryPages
<1>4. k # "providers"
  BY DEF InventoryPages
<1>5. Leads(workspace!providerFilter(u, q), q)
  BY <1>2, <1>3, <1>4, LeadsNamed
<1> QED
  BY <1>1, <1>5

LEMMA LeadsObject ==
  ASSUME NEW q
  PROVE  /\ Leads(workspace!ContextLink(q), q)
         /\ Leads(workspace!providerFilter(<<"storage", "claims", "x", "y">>, q), q)
         /\ Leads(workspace!providerFilter(<<"storage", "volumes", "x">>, q), q)
<1>1. PICK u, v, w : /\ u = <<"storage", "relationships", "kind", "x">>
                     /\ v = <<"storage", "claims", "x", "y">>
                     /\ w = <<"storage", "volumes", "x">>
  OBVIOUS
<1>2. IsPath(u) /\ Len(u) = 4 /\ u[1] = "storage" /\ u[2] = "relationships"
  BY <1>1, Path4
<1>3. IsPath(v) /\ Len(v) = 4 /\ v[1] = "storage" /\ v[2] = "claims"
  BY <1>1, Path4
<1>4. IsPath(w) /\ Len(w) = 3 /\ w[1] = "storage" /\ w[2] = "volumes"
  BY <1>1, Path3
<1>5. workspace!Routed(u) /\ workspace!Routed(v)
  BY <1>2, <1>3, Route4
<1>6. workspace!Routed(w)
  BY <1>4, Route3
<1>7. Leads(workspace!providerFilter(u, q), q)
  BY <1>2, <1>5, LeadsNamed
<1>8. Leads(workspace!providerFilter(v, q), q)
  BY <1>3, <1>5, LeadsNamed
<1>9. Leads(workspace!providerFilter(w, q), q)
  BY <1>4, <1>6, LeadsNamed
<1> QED
  BY <1>1, <1>7, <1>8, <1>9 DEF workspace!ContextLink

LEMMA LeadsVolumes == Leads(workspace!At(<<"volumes", "x">>), "longhorn")
<1>1. PICK u : u = <<"volumes", "x">>
  OBVIOUS
<1>2. IsPath(u) /\ Len(u) = 2 /\ u[1] = "volumes"
  BY <1>1, Path2
<1>3. workspace!Routed(u)
  BY <1>2, Route2
<1>4. u[1] \in LonghornPages
  BY <1>2 DEF LonghornPages
<1>5. Leads(workspace!At(u), "longhorn")
  BY <1>2, <1>3, <1>4, LeadsLonghorn
<1> QED
  BY <1>1, <1>5

\* What a page shows of a provider, and where it says that a volume is backed.
LEMMA LeadsDashboard ==
  ASSUME NEW p, NEW m \in workspace!DashboardLinks(p)
  PROVE  Leads(m, p.id)
<1>1. PICK q : q = p.id
  OBVIOUS
<1>2. \/ m = workspace!At(workspace!Page(q) \o <<"context">>)
      \/ \E k \in InventoryPages : m = workspace!providerFilter(<<"storage", k>>, q)
      \/ \E product \in Products : \E kind : m = workspace!At(workspace!Page(q) \o <<product, kind>>)
  <2>1. m \in workspace!rookLinks(p) \/ m \in workspace!openEBSLinks(p) \/ m \in workspace!linstorLinks(p) \/ m \in workspace!otherLinks(p)
    BY Zenon DEF workspace!DashboardLinks
  <2>2. "ceph" \in Products /\ "openebs" \in Products /\ "linstor" \in Products
    BY DEF Products
  <2>3. /\ "operations" \in InventoryPages /\ "classes" \in InventoryPages
        /\ "claims" \in InventoryPages /\ "volumes" \in InventoryPages
    BY DEF InventoryPages
  <2>4. CASE m \in workspace!rookLinks(p)
    BY <1>1, <2>2, <2>3, <2>4, Zenon DEF workspace!rookLinks
  <2>5. CASE m \in workspace!openEBSLinks(p)
    BY <1>1, <2>2, <2>3, <2>5, Zenon DEF workspace!openEBSLinks
  <2>6. CASE m \in workspace!linstorLinks(p)
    BY <1>1, <2>2, <2>3, <2>6, Zenon DEF workspace!linstorLinks
  <2>7. CASE m \in workspace!otherLinks(p)
    BY <1>1, <2>2, <2>3, <2>7, Zenon DEF workspace!otherLinks
  <2> QED
    BY <2>1, <2>4, <2>5, <2>6, <2>7
<1>3. Leads(m, q)
  BY <1>2, LeadsContext, LeadsStorage, LeadsKind, Zenon
<1> QED
  BY <1>1, <1>3

LEMMA LeadsReference ==
  ASSUME NEW p, p.kind = "longhorn" => p.id = "longhorn", NEW m \in workspace!ProviderReferenceLink(p)
  PROVE  Leads(m, p.id)
<1>1. PICK q : q = p.id
  OBVIOUS
<1>2. \/ q = "longhorn" /\ m = workspace!At(<<"volumes", "x">>)
      \/ \E product \in Products : \E kind : m = workspace!At(workspace!Page(q) \o <<product, kind, "x">>)
  <2>1. "ceph" \in Products /\ "openebs" \in Products /\ "linstor" \in Products
    BY DEF Products
  <2>2. \/ p.kind = "longhorn" /\ m = workspace!At(<<"volumes", "x">>)
        \/ \E product \in Products : \E kind : m = workspace!At(workspace!Page(p.id) \o <<product, kind, "x">>)
    BY <2>1, Zenon DEF workspace!ProviderReferenceLink
  <2> QED
    BY <1>1, <2>2, Zenon
<1>3. Leads(m, q)
  BY <1>2, LeadsVolumes, LeadsKind, Zenon
<1> QED
  BY <1>1, <1>3

\* A link to m does not leave the workspace of l.
Stays(l, m) == workspace!Workspace(l) = None \/ workspace!candidateProviderId(l) = workspace!candidateProviderId(m)

LEMMA NamedPlace ==
  ASSUME NEW l, Place(l), l.path[1] = "storage", l.path[2] # "providers" \/ Len(l.path) = 2
  PROVE  workspace!candidateProviderId(l) = l.provider
<1>1. IsPath(l.path)
  BY DEF Place
<1>2. "storage" \notin LonghornPages
  BY DEF LonghornPages
<1> QED
  BY <1>1, <1>2, CandidateNamed

LEMMA LonghornPlace ==
  ASSUME NEW l, Place(l), Len(l.path) >= 1, l.path[1] \in LonghornPages
  PROVE  workspace!candidateProviderId(l) = "longhorn"
<1>1. l.path[1] # "benchmarks" /\ l.path[1] # "storage"
  BY DEF LonghornPages
<1>2. l.provider = None /\ IsPath(l.path)
  BY <1>1 DEF Place
<1> QED
  BY <1>2, CandidateLonghorn

LEMMA ListedStays ==
  ASSUME NEW l, Place(l), l.path[1] = "storage", l.path[2] # "providers",
         NEW p \in workspace!Listed(l), NEW m, workspace!candidateProviderId(m) = p.id
  PROVE  Stays(l, m)
<1>1. workspace!candidateProviderId(l) = l.provider
  BY NamedPlace
<1>2. l.provider = None \/ l.provider = p.id
  BY DEF workspace!Listed
<1>3. CASE l.provider = None
  BY <1>1, <1>3, NoWorkspace DEF Stays
<1>4. CASE l.provider = p.id
  BY <1>1, <1>4 DEF Stays
<1> QED
  BY <1>2, <1>3, <1>4

LEMMA CardsArrive ==
  ASSUME NEW m \in workspace!providerCards
  PROVE  Place(m)
<1>1. PICK p : m = workspace!At(workspace!Page(p.id))
  BY DEF workspace!providerCards
<1>2. PICK q : q = p.id
  OBVIOUS
<1>3. Leads(workspace!At(workspace!Page(q)), q)
  BY LeadsPage
<1> QED
  BY <1>1, <1>2, <1>3 DEF Leads

\* The rows of a list of objects lead to the page of the object.
LEMMA RowsArrive ==
  ASSUME NEW l, Place(l), NEW m \in workspace!resourceRows(l),
         \/ Len(l.path) = 1 /\ l.path[1] \in {"volumes", "nodes"}
         \/ Len(l.path) = 5 /\ l.path[1] = "storage" /\ l.path[2] = "providers"
  PROVE  Place(m) /\ Stays(l, m)
<1>1. PICK s, u : s = l.path /\ u = Append(s, "x")
  OBVIOUS
<1>2. m = workspace!At(u)
  BY <1>1 DEF workspace!resourceRows
<1>3. IsPath(s) /\ workspace!Routed(s)
  BY <1>1 DEF Place
<1>4. /\ IsPath(u) /\ Len(u) = Len(s) + 1
      /\ \A i \in 1 .. Len(s) : u[i] = s[i]
  <2>1. PICK S : s \in Seq(S)
    BY <1>3 DEF IsPath
  <2>2. PICK n \in Nat : n = Len(s)
    BY <1>3, PathLength
  <2>3. PICK T : T = S \cup {"x"}
    OBVIOUS
  <2>4. s \in Seq(T) /\ "x" \in T
    BY <2>1, <2>3
  <2>5. u \in Seq(T) /\ Len(u) = n + 1 /\ \A i \in 1 .. n : u[i] = s[i]
    BY <1>1, <2>2, <2>4, AppendProperties
  <2>6. IsPath(u)
    BY <2>5 DEF IsPath
  <2> QED
    BY <2>2, <2>5, <2>6
<1>5. CASE Len(s) = 1 /\ s[1] \in {"volumes", "nodes"}
  <2>1. Len(u) = 2 /\ u[1] = s[1]
    BY <1>4, <1>5
  <2>2. u[1] \in {"volumes", "nodes"} /\ u[1] \in LonghornPages
    BY <1>5, <2>1 DEF LonghornPages
  <2>3. workspace!Routed(u)
    BY <2>1, <2>2, Route2
  <2>4. Len(u) >= 1
    BY <2>1
  <2>5. Leads(workspace!At(u), "longhorn")
    BY <1>4, <2>2, <2>3, <2>4, LeadsLonghorn
  <2>6. Len(l.path) >= 1 /\ l.path[1] \in LonghornPages
    BY <1>1, <1>5, <2>1, <2>2
  <2>7. workspace!candidateProviderId(l) = "longhorn"
    BY <2>6, LonghornPlace
  <2> QED
    BY <1>2, <2>5, <2>7 DEF Leads, Stays
<1>6. CASE Len(s) = 5 /\ s[1] = "storage" /\ s[2] = "providers"
  <2>1. PICK q : q = s[3]
    OBVIOUS
  <2>2. OfProvider(s, q)
    BY <1>3, <1>6, <2>1 DEF OfProvider
  <2>3. s[4] \in Products
    BY <1>3, <1>6, ProductPage
  <2>4. Len(u) = 6 /\ u[1] = "storage" /\ u[2] = "providers" /\ u[3] = q /\ u[4] = s[4]
    BY <1>4, <1>6, <2>1
  <2>5. OfProvider(u, q)
    BY <1>4, <2>4 DEF OfProvider
  <2>6. workspace!Routed(u)
    BY <2>3, <2>4, Route6
  <2>7. Leads(workspace!At(u), q)
    BY <2>5, <2>6, LeadsBelow
  <2>8. workspace!candidateProviderId(l) = q
    BY <1>1, <2>2, CandidateOf
  <2> QED
    BY <1>2, <2>7, <2>8 DEF Leads, Stays
<1> QED
  BY <1>1, <1>5, <1>6

LEMMA ReferencesArrive ==
  ASSUME Known, NEW l, Place(l), l.path[1] = "storage", l.path[2] # "providers",
         NEW m, NEW p \in workspace!Listed(l),
         \/ m = workspace!ContextLink(p.id)
         \/ m = workspace!providerFilter(<<"storage", "volumes", "x">>, p.id)
         \/ m = workspace!providerFilter(<<"storage", "claims", "x", "y">>, p.id)
         \/ m = workspace!providerFilter(<<"storage", "attachments">>, p.id)
         \/ m \in workspace!ProviderReferenceLink(p)
  PROVE  Place(m) /\ Stays(l, m)
<1>1. PICK q : q = p.id
  OBVIOUS
<1>2. p.kind = "longhorn" => p.id = "longhorn"
  BY DEF Known, workspace!Listed, workspace!Discovered
<1>3. CASE m \in workspace!ProviderReferenceLink(p)
  <2>1. Leads(m, p.id)
    BY <1>2, <1>3, LeadsReference
  <2>2. Stays(l, m)
    BY <2>1, ListedStays DEF Leads
  <2> QED
    BY <2>1, <2>2 DEF Leads
<1>4. CASE m \notin workspace!ProviderReferenceLink(p)
  <2>1. "attachments" \in InventoryPages
    BY DEF InventoryPages
  <2>2. Leads(m, q)
    BY <1>1, <1>4, <2>1, LeadsObject, LeadsStorage, Zenon
  <2>3. workspace!candidateProviderId(m) = p.id
    BY <1>1, <2>2 DEF Leads
  <2>4. Stays(l, m)
    BY <2>3, ListedStays
  <2> QED
    BY <2>2, <2>4 DEF Leads
<1> QED
  BY <1>3, <1>4

LEMMA LinkArrives ==
  ASSUME Known, NEW l, Place(l), NEW m \in workspace!PageLinks(l)
  PROVE  Place(m) /\ Stays(l, m)
<1>1. PICK path : path = l.path
  OBVIOUS
<1>2. IsPath(path) /\ workspace!Routed(path) /\ Len(path) \in Nat
  BY <1>1, PathLength DEF Place
<1> DEFINE own == {p \in workspace!Discovered : Len(path) > 2 /\ p.id = path[3]}
<1>3. \/ path = <<"storage", "providers">> /\ m \in workspace!providerCards
      \/ /\ path = <<"dashboard">> /\ m \in workspace!providerCards
         /\ query # None /\ "longhorn" \notin {p.id : p \in query}
      \/ path = <<"storage", "inventory">> /\ m \in workspace!inventoryCards(l)
      \/ /\ path \in {<<"storage", "classes">>, <<"storage", "snapshots">>, <<"storage", "attachments">>}
         /\ m \in workspace!relationshipRows(l)
      \/ path = <<"storage", "claims">> /\ m \in workspace!claimRows(l)
      \/ path = <<"storage", "volumes">> /\ m \in workspace!volumeRows(l)
      \/ workspace!StartsWith(path, <<"storage", "claims">>) /\ Len(path) = 4 /\ m \in workspace!claimLinks(l)
      \/ workspace!StartsWith(path, <<"storage", "volumes">>) /\ Len(path) = 3 /\ m \in workspace!volumeLinks(l)
      \/ /\ workspace!StartsWith(path, <<"storage", "providers">>) /\ Len(path) = 3
         /\ m \in UNION {workspace!DashboardLinks(p) : p \in own}
      \/ /\ workspace!StartsWith(path, <<"storage", "providers">>) /\ Len(path) = 5
         /\ m \in workspace!resourceRows(l)
      \/ /\ workspace!StartsWith(path, <<"storage", "providers">>) /\ Len(path) = 6
         /\ m \in {workspace!ContextLink(p.id) : p \in own}
      \/ path \in {<<"volumes">>, <<"nodes">>} /\ m \in workspace!resourceRows(l)
  BY <1>1, ZenonT(60) DEF workspace!PageLinks
<1> HIDE DEF own
<1>4. CASE path = <<"storage", "providers">> /\ m \in workspace!providerCards
  <2>1. Len(path) = 2 /\ path[1] = "storage" /\ path[2] = "providers"
    BY <1>4
  <2>2. Len(l.path) = 2 /\ l.path[1] = "storage" /\ l.path[2] = "providers"
    BY <1>1, <2>1
  <2>3. l.provider = None
    BY <2>2 DEF Place
  <2>4. workspace!candidateProviderId(l) = l.provider
    BY <2>2, NamedPlace
  <2>5. workspace!Workspace(l) = None
    BY <2>3, <2>4, NoWorkspace
  <2> QED
    BY <1>4, <2>5, CardsArrive DEF Stays
<1>5. CASE /\ path = <<"dashboard">> /\ m \in workspace!providerCards
           /\ query # None /\ "longhorn" \notin {p.id : p \in query}
  <2>1. Len(path) = 1 /\ path[1] = "dashboard"
    BY <1>5
  <2>2. Len(l.path) >= 1 /\ l.path[1] \in LonghornPages
    BY <1>1, <2>1 DEF LonghornPages
  <2>3. workspace!candidateProviderId(l) = "longhorn"
    BY <2>2, LonghornPlace
  <2>4. workspace!Workspace(l) = None
    BY <1>5, <2>3 DEF workspace!Workspace
  <2> QED
    BY <1>5, <2>4, CardsArrive DEF Stays
<1>6. CASE path = <<"storage", "inventory">> /\ m \in workspace!inventoryCards(l)
  <2>1. path[1] = "storage" /\ path[2] = "inventory"
    BY <1>6
  <2>2. workspace!candidateProviderId(l) = l.provider
    BY <1>1, <2>1, NamedPlace
  <2>3. PICK q : q = l.provider
    OBVIOUS
  <2>4. PICK k \in InventoryPages : m = workspace!providerFilter(<<"storage", k>>, q)
    BY <1>6, <2>3 DEF workspace!inventoryCards, InventoryPages
  <2>5. Leads(m, q)
    BY <2>4, LeadsStorage, Zenon
  <2> QED
    BY <2>2, <2>3, <2>5 DEF Leads, Stays
<1>7. CASE /\ path \in {<<"storage", "classes">>, <<"storage", "snapshots">>, <<"storage", "attachments">>}
           /\ m \in workspace!relationshipRows(l)
  <2>1. path[1] = "storage" /\ path[2] # "providers"
    BY <1>7
  <2>2. PICK p \in workspace!Listed(l) : m = workspace!ContextLink(p.id)
    BY <1>7 DEF workspace!relationshipRows
  <2> QED
    BY <1>1, <2>1, <2>2, ReferencesArrive
<1>8. CASE \/ path = <<"storage", "claims">> /\ m \in workspace!claimRows(l)
           \/ path = <<"storage", "volumes">> /\ m \in workspace!volumeRows(l)
  <2>1. path[1] = "storage" /\ path[2] # "providers"
    BY <1>8
  <2>2. workspace!candidateProviderId(l) = l.provider
    BY <1>1, <2>1, NamedPlace
  <2>3. PICK q : q = l.provider
    OBVIOUS
  <2>4. \/ m = workspace!providerFilter(<<"storage", "claims", "x", "y">>, q)
        \/ m = workspace!providerFilter(<<"storage", "volumes", "x">>, q)
    BY <1>8, <2>3 DEF workspace!claimRows, workspace!volumeRows
  <2>5. Leads(m, q)
    BY <2>4, LeadsObject, Zenon
  <2> QED
    BY <2>2, <2>3, <2>5 DEF Leads, Stays
<1>9. CASE \/ workspace!StartsWith(path, <<"storage", "claims">>) /\ Len(path) = 4 /\ m \in workspace!claimLinks(l)
           \/ workspace!StartsWith(path, <<"storage", "volumes">>) /\ Len(path) = 3 /\ m \in workspace!volumeLinks(l)
  <2>1. path[1] = "storage" /\ path[2] # "providers"
    <3>1. ASSUME NEW k, k # "providers", workspace!StartsWith(path, <<"storage", k>>)
          PROVE  path[1] = "storage" /\ path[2] # "providers"
      <4>1. PICK t : t = <<"storage", k>>
        OBVIOUS
      <4>2. IsPath(t) /\ Len(t) = 2 /\ t[1] = "storage" /\ t[2] = k
        BY <4>1, Path2
      <4>3. workspace!StartsWith(path, t)
        BY <3>1, <4>1
      <4>4. \A i \in 1 .. Len(t) : path[i] = t[i]
        BY <1>2, <4>2, <4>3, Starts
      <4> QED
        BY <3>1, <4>2, <4>4
    <3> QED
      BY <1>9, <3>1
  <2>2. PICK p \in workspace!Listed(l) :
          \/ m = workspace!ContextLink(p.id)
          \/ m = workspace!providerFilter(<<"storage", "volumes", "x">>, p.id)
          \/ m = workspace!providerFilter(<<"storage", "claims", "x", "y">>, p.id)
          \/ m = workspace!providerFilter(<<"storage", "attachments">>, p.id)
          \/ m \in workspace!ProviderReferenceLink(p)
    BY <1>9, Zenon DEF workspace!claimLinks, workspace!volumeLinks
  <2> QED
    BY <1>1, <2>1, <2>2, ReferencesArrive
<1>10. CASE \/ /\ workspace!StartsWith(path, <<"storage", "providers">>) /\ Len(path) = 3
               /\ m \in UNION {workspace!DashboardLinks(p) : p \in own}
            \/ /\ workspace!StartsWith(path, <<"storage", "providers">>) /\ Len(path) = 6
               /\ m \in {workspace!ContextLink(p.id) : p \in own}
  <2>9. path[1] = "storage" /\ path[2] = "providers"
    BY <1>2, <1>10, AtProviders
  <2>1. Len(path) >= 3 /\ path[1] = "storage" /\ path[2] = "providers"
    <3>1. Len(path) = 3 \/ Len(path) = 6
      BY <1>10, Zenon
    <3>2. PICK n \in Nat : n = Len(path)
      BY <1>2
    <3>3. n >= 3
      BY <3>1, <3>2
    <3> QED
      BY <2>9, <3>2, <3>3
  <2>2. PICK q : q = path[3]
    OBVIOUS
  <2>3. OfProvider(path, q)
    BY <1>2, <2>1, <2>2 DEF OfProvider
  <2>4. workspace!candidateProviderId(l) = q
    BY <1>1, <2>3, CandidateOf
  <2>5. Leads(m, q)
    <3>1. PICK p \in own : m \in workspace!DashboardLinks(p) \/ m = workspace!ContextLink(p.id)
      BY <1>10, Zenon
    <3>2. p.id = q
      BY <2>2, <3>1 DEF own
    <3>3. CASE m \in workspace!DashboardLinks(p)
      BY <3>2, <3>3, LeadsDashboard
    <3>4. CASE m = workspace!ContextLink(p.id)
      BY <3>2, <3>4, LeadsObject
    <3> QED
      BY <3>1, <3>3, <3>4
  <2> QED
    BY <2>4, <2>5 DEF Leads, Stays
<1>11. CASE workspace!StartsWith(path, <<"storage", "providers">>) /\ Len(path) = 5 /\ m \in workspace!resourceRows(l)
  <2>1. Len(path) = 5 /\ path[1] = "storage" /\ path[2] = "providers"
    BY <1>2, <1>11, AtProviders
  <2> QED
    BY <1>1, <1>11, <2>1, RowsArrive
<1>12. CASE path \in {<<"volumes">>, <<"nodes">>} /\ m \in workspace!resourceRows(l)
  <2>1. Len(path) = 1 /\ path[1] \in {"volumes", "nodes"}
    BY <1>12
  <2> QED
    BY <1>1, <1>12, <2>1, RowsArrive
<1> QED
  BY <1>3, <1>4, <1>5, <1>6, <1>7, <1>8, <1>9, <1>10, <1>11, <1>12

\* From any place of the program, whichever providers are discovered: the items of
\* the sidebar and the links of the page arrive where they should.
THEOREM LinksLead ==
  ASSUME Known, Place(ui)
  PROVE  workspace!LinksArrive
<1>1. ASSUME NEW item \in workspace!Offered(ui)
      PROVE  /\ workspace!Routed(item.to.path)
             /\ {other \in workspace!Offered(item.to) : workspace!isActive(other, item.to)} = {item}
  BY <1>1, ItemsArrive
<1>2. ASSUME NEW l \in workspace!PageLinks(ui)
      PROVE  /\ workspace!Routed(l.path)
             /\ workspace!Workspace(ui) # None => workspace!Workspace(l) = workspace!Workspace(ui)
  <2>1. Place(l) /\ Stays(ui, l)
    BY <1>2, LinkArrives
  <2> QED
    BY <2>1, SameWorkspace DEF Place, Stays
<1> QED
  BY <1>1, <1>2 DEF workspace!LinksArrive

-----------------------------------------------------------------------------
(* Every step leads to a place *)

LEMMA ItemPlace ==
  ASSUME NEW item, NEW q, Arrives(item, q)
  PROVE  Place(item.to)
<1>1. PICK path : path = item.to.path
  OBVIOUS
<1>2. Shaped(path, q) /\ workspace!Routed(path) /\ item = Marked(path, q)
  BY <1>1 DEF Arrives, Fits
<1>3. item.to = workspace!providerFilter(path, Prov(path, q))
  <2>1. PICK to : to = workspace!providerFilter(path, Prov(path, q))
    OBVIOUS
  <2>2. [workspace!Exact(to) EXCEPT !.admin = TRUE].to = to
    BY DEF workspace!Exact, workspace!Item
  <2>3. workspace!Exact(to).to = to /\ workspace!Item(to).to = to
    BY ItemIs
  <2> QED
    BY <1>2, <2>1, <2>2, <2>3 DEF Marked
<1>4. PICK id : id = Prov(path, q)
  OBVIOUS
<1>5. item.to = workspace!providerFilter(path, id) /\ item.to.path = path /\ item.to.provider = id
  BY <1>3, <1>4 DEF workspace!providerFilter
<1>6. id # None => path[1] = "benchmarks" \/ (path[1] = "storage" /\ path[2] # "providers")
  BY <1>4 DEF Prov
<1> QED
  BY <1>2, <1>5, <1>6 DEF Place, Shaped

LEMMA PagePlace ==
  ASSUME NEW a, a \in LonghornPages \cup {"status"}
  PROVE  Place(workspace!At(<<a>>))
<1>1. CASE a \in LonghornPages
  <2>1. Arrives(workspace!Item(workspace!At(<<a>>)), "longhorn")
    BY <1>1, ArrivesPage
  <2>2. Place(workspace!Item(workspace!At(<<a>>)).to)
    BY <2>1, ItemPlace
  <2>3. workspace!Item(workspace!At(<<a>>)).to = workspace!At(<<a>>)
    BY ItemIs
  <2> QED
    BY <2>2, <2>3
<1>2. CASE a = "status"
  <2>1. workspace!Item(workspace!At(<<a>>)) \in workspace!system
    BY <1>2 DEF workspace!system
  <2>2. Arrives(workspace!Item(workspace!At(<<a>>)), None)
    BY <2>1, ArrivesSystem
  <2>3. Place(workspace!Item(workspace!At(<<a>>)).to)
    BY <2>2, ItemPlace
  <2>4. workspace!Item(workspace!At(<<a>>)).to = workspace!At(<<a>>)
    BY ItemIs
  <2> QED
    BY <2>3, <2>4
<1> QED
  BY <1>1, <1>2

LEMMA LandingPlace ==
  ASSUME NEW p
  PROVE  Place(workspace!workspaceLanding(p)) /\ Place(workspace!supportPath(p))
<1>1. "dashboard" \in LonghornPages /\ "support-bundle" \in LonghornPages
  BY DEF LonghornPages
<1>2. Place(workspace!At(<<"dashboard">>)) /\ Place(workspace!At(<<"support-bundle">>)) /\ Place(workspace!At(<<"status">>))
  BY <1>1, PagePlace
<1>3. Place(workspace!At(<<"storage", "providers">>))
  <2>1. Arrives(workspace!Exact(workspace!At(<<"storage", "providers">>)), None)
    BY ArrivesProviders
  <2>2. Place(workspace!Exact(workspace!At(<<"storage", "providers">>)).to)
    BY <2>1, ItemPlace
  <2> QED
    BY <2>2, ItemIs
<1>4. PICK q : q = p.id
  OBVIOUS
<1>5. Place(workspace!At(workspace!Page(q)))
  BY LeadsPage DEF Leads
<1> QED
  BY <1>2, <1>3, <1>4, <1>5 DEF workspace!workspaceLanding, workspace!supportPath

LEMMA FilterPlace ==
  ASSUME NEW l, Place(l), l.path[1] = "storage", l.path[2] # "providers", NEW id
  PROVE  Place([l EXCEPT !.provider = id])
<1>1. PICK path, old : path = l.path /\ old = l.provider
  OBVIOUS
<1>2. l = [path |-> path, provider |-> old]
  BY <1>1 DEF Place, workspace!providerFilter
<1>3. PICK m : m = [l EXCEPT !.provider = id]
  OBVIOUS
<1>4. m = [path |-> path, provider |-> id]
  BY <1>2, <1>3
<1>5. m = workspace!providerFilter(path, id) /\ m.path = path /\ m.provider = id
  BY <1>4 DEF workspace!providerFilter
<1>6. IsPath(path) /\ workspace!Routed(path) /\ path[1] = "storage" /\ path[2] # "providers"
  BY <1>1 DEF Place
<1> QED
  BY <1>3, <1>5, <1>6 DEF Place

LEMMA StartPlace ==
  ASSUME workspace!WorkspaceInit
  PROVE  Known /\ Place(ui)
<1>1. Known
  BY DEF workspace!WorkspaceInit, Known
<1>2. "dashboard" \in LonghornPages
  BY DEF LonghornPages
<1>3. Place(workspace!At(<<"dashboard">>))
  BY <1>2, PagePlace
<1>4. \A id : Place(workspace!At(workspace!Page(id)))
  BY LeadsPage DEF Leads
<1>5. ui = workspace!At(<<"dashboard">>) \/ \E id : ui = workspace!At(workspace!Page(id))
  BY DEF workspace!WorkspaceInit
<1> QED
  BY <1>1, <1>3, <1>4, <1>5

LEMMA StepPlace ==
  ASSUME \A list \in ListsAt("workspace") : \A p \in list : p.kind = "longhorn" => p.id = "longhorn",
         Known, Place(ui), workspace!WorkspaceNext
  PROVE  Known' /\ Place(ui')
<1>1. ASSUME NEW providers \in ListsAt("workspace"), workspace!Discover(providers)
      PROVE  Known' /\ Place(ui')
  BY <1>1 DEF workspace!Discover, Known
<1>2. ASSUME NEW l, workspace!GoTo(l), Place(l)
      PROVE  Known' /\ Place(ui')
  BY <1>2 DEF workspace!GoTo, Known
<1>3. CASE workspace!FollowItem
  <2>1. PICK item \in workspace!Offered(ui) : workspace!GoTo(item.to)
    BY <1>3 DEF workspace!FollowItem
  <2>2. Place(item.to)
    BY OfferedArrive, ItemPlace
  <2> QED
    BY <1>2, <2>1, <2>2
<1>4. CASE workspace!FollowLink
  <2>1. PICK l \in workspace!PageLinks(ui) : workspace!GoTo(l)
    BY <1>4 DEF workspace!FollowLink
  <2>2. Place(l)
    BY LinkArrives
  <2> QED
    BY <1>2, <2>1, <2>2
<1>5. CASE workspace!changeWorkspace
  <2>1. PICK p : workspace!GoTo(workspace!workspaceLanding(p))
    BY <1>5 DEF workspace!changeWorkspace
  <2> QED
    BY <1>2, <2>1, LandingPlace
<1>6. CASE workspace!Support
  BY <1>2, <1>6, LandingPlace DEF workspace!Support
<1>7. CASE workspace!SetProviderFilter \/ workspace!SetScope
  <2>1. PICK kind, id : /\ ui.path = <<"storage", kind>> /\ kind # "providers"
                        /\ workspace!GoTo([ui EXCEPT !.provider = id])
    BY <1>7 DEF workspace!SetProviderFilter, workspace!SetScope
  <2>2. ui.path[1] = "storage" /\ ui.path[2] # "providers"
    BY <2>1
  <2>3. Place([ui EXCEPT !.provider = id])
    BY <2>2, FilterPlace
  <2> QED
    BY <1>2, <2>1, <2>3
<1> QED
  BY <1>1, <1>3, <1>4, <1>5, <1>6, <1>7 DEF workspace!WorkspaceNext

LinksInv == Known /\ Place(ui)

LEMMA LinksInductive ==
  /\ (workspace!WorkspaceInit => LinksInv)
  /\ (LinksInv /\ [workspace!WorkspaceNext]_(workspace!workspaceVars) => LinksInv')
  /\ (LinksInv => workspace!LinksArrive)
<1>1. workspace!WorkspaceInit => LinksInv
  BY StartPlace DEF LinksInv
<1>2. LinksInv /\ [workspace!WorkspaceNext]_(workspace!workspaceVars) => LinksInv'
  <2>1. CASE workspace!WorkspaceNext
    <3>1. ASSUME LinksInv
          PROVE  Known' /\ Place(ui')
      BY <2>1, <3>1, StepPlace, LonghornIsItself DEF LinksInv
    <3> QED
      BY <3>1 DEF LinksInv
  <2>2. CASE UNCHANGED workspace!workspaceVars
    <3>1. query' = query /\ ui' = ui
      BY <2>2 DEF workspace!workspaceVars
    <3> QED
      BY <3>1 DEF LinksInv, Known
  <2> QED
    BY <2>1, <2>2
<1>3. LinksInv => workspace!LinksArrive
  BY LinksLead DEF LinksInv
<1> QED
  BY <1>1, <1>2, <1>3

\* Wherever a user went before, and whichever providers are discovered meanwhile:
\* every item of the sidebar and every link of the page arrives.
THEOREM Arrived == workspace!WorkspaceSpec => []workspace!LinksArrive
BY LinksInductive, PTL DEF workspace!WorkspaceSpec

-----------------------------------------------------------------------------
(* A visit stays on its page *)

ReachInv ==
  /\ route = "detail" => TreeInv
  /\ route = "workspace" => LinksInv

LEMMA ReachBegins ==
  ASSUME PagesInit
  PROVE  ReachInv
<1>1. ASSUME route = "detail"
      PROVE  TreeInv
  <2>1. detail!DetailInit
    BY <1>1 DEF PagesInit
  <2> QED
    BY <2>1, TreeInductive
<1>2. ASSUME route = "workspace"
      PROVE  LinksInv
  <2>1. workspace!WorkspaceInit
    BY <1>2 DEF PagesInit
  <2> QED
    BY <2>1, LinksInductive
<1> QED
  BY <1>1, <1>2 DEF ReachInv

LEMMA ReachStep ==
  ASSUME ReachInv, [PagesNext]_pagesVars
  PROVE  ReachInv'
<1>1. route' = route
  BY DEF PagesNext, pagesVars, At
<1>2. ASSUME route = "detail"
      PROVE  TreeInv'
  <2>1. detail!DetailNext \/ UNCHANGED detail!detailVars
    BY <1>2 DEF PagesNext, pagesVars, At, detail!detailVars
  <2> QED
    BY <1>2, <2>1, TreeInductive DEF ReachInv
<1>3. ASSUME route = "workspace"
      PROVE  LinksInv'
  <2>1. workspace!WorkspaceNext \/ UNCHANGED workspace!workspaceVars
    BY <1>3 DEF PagesNext, pagesVars, At, workspace!workspaceVars
  <2> QED
    BY <1>3, <2>1, LinksInductive DEF ReachInv
<1> QED
  BY <1>1, <1>2, <1>3 DEF ReachInv

\* Whichever listing of the snapshots comes last, and wherever the links lead:
\* the tree draws every snapshot once, those the roots reach below their children
\* and the rest last, and every link arrives at a page that is routed, in the
\* workspace it is shown in.
THEOREM AllInReach == PagesSpec => []NothingOutOfReach
<1>1. PagesInit => ReachInv
  BY ReachBegins
<1>2. ReachInv /\ [PagesNext]_pagesVars => ReachInv'
  BY ReachStep
<1>3. ReachInv => NothingOutOfReach
  BY TreeInductive, LinksInductive DEF ReachInv, NothingOutOfReach
<1> QED
  BY <1>1, <1>2, <1>3, PTL DEF PagesSpec
-----------------------------------------------------------------------------
(* The types of the pages: the others are in WebPagesProofs                  *)

-----------------------------------------------------------------------------
(* VolumeDetailPage                                                          *)

DetailName(n) == n \in NamesAt("detail") \cup detail!FormActions \cup {None}

DetailCalls(some) == \A c \in some : "op" \in DOMAIN c /\ c.op \in {"list", "action"}

DetailTypes ==
  /\ "acts" \in DOMAIN query /\ query.acts \in {detail!Modern, detail!Legacy, detail!Detached}
  /\ {"snaps", "name", "dialog", "showSystem", "jobName", "snapLoading", "backupTarget", "backupMode"} \subseteq DOMAIN ui
  /\ DOMAIN ui.snaps \subseteq NamesAt("detail") /\ DetailName(ui.name)
  /\ DetailCalls(calls)

\* A step that leaves the listing and the actions of the volume.
LEMMA DetailKept ==
  ASSUME DetailTypes, UNCHANGED query, KeepsSnaps, DetailName(ui'.name), DetailCalls(calls')
  PROVE  DetailTypes'
BY DEF DetailTypes, KeepsSnaps, DetailName, DetailCalls

LEMMA ActionRuns ==
  ASSUME DetailTypes, NEW action, NEW name, NEW closes, detail!runAction(action, name, closes)
  PROVE  DetailTypes'
<1>1. PICK c : /\ c = [op |-> "action", action |-> action, name |-> name, closes |-> closes,
                       target |-> ui.backupTarget, mode |-> ui.backupMode]
               /\ calls' = calls \cup {c} /\ UNCHANGED <<query, ui>>
  BY DEF detail!runAction
<1>2. "op" \in DOMAIN c /\ c.op = "action"
  BY <1>1
<1>3. DetailCalls(calls')
  BY <1>1, <1>2 DEF DetailTypes, DetailCalls
<1> QED
  BY <1>1, <1>3, DetailKept DEF DetailTypes, KeepsSnaps

LEMMA ClosedName ==
  ASSUME NEW next, {"snaps", "name", "dialog"} \subseteq DOMAIN next, DetailName(next.name), NEW kind
  PROVE  DetailName(detail!Closed(next, kind).name)
BY DEF detail!Closed, DetailName

\* A step that may show the listing that the volume carries.
LEMMA DetailInline ==
  ASSUME DetailTypes, "acts" \in DOMAIN query', query'.acts \in {detail!Modern, detail!Legacy, detail!Detached},
         DetailCalls(calls'), NEW next, DOMAIN next = DOMAIN ui, next.snaps = ui.snaps, DetailName(next.name),
         ui' \in detail!Inline(next)
  PROVE  DetailTypes'
<1>1. /\ DOMAIN ui' = DOMAIN ui
      /\ KeepsSnaps \/ \E listing \in detail!ListingsOf(ui.task) : ui'.snaps = listing
      /\ ui'.name = next.name
  BY InlineShows DEF DetailTypes
<1>2. DOMAIN ui'.snaps \subseteq NamesAt("detail")
  BY <1>1, AnswerListed DEF DetailTypes, KeepsSnaps
<1> QED
  BY <1>1, <1>2 DEF DetailTypes, DetailName, DetailCalls

LEMMA DetailRefreshes ==
  ASSUME DetailTypes, UNCHANGED query, NEW closes, NEW others, DetailCalls(others),
         detail!refreshSnapshots(closes, others, ui)
  PROVE  DetailTypes'
<1>1. CASE ui' \in detail!Inline(detail!Closed(ui, closes)) /\ calls' = others
  <2>1. PICK next : next = detail!Closed(ui, closes)
    OBVIOUS
  <2>2. DOMAIN next = DOMAIN ui /\ next.snaps = ui.snaps /\ DetailName(next.name)
    BY <2>1, ClosedKeeps, ClosedName DEF DetailTypes
  <2>3. DetailCalls(calls') /\ ui' \in detail!Inline(next)
    BY <1>1, <2>1
  <2>4. "acts" \in DOMAIN query' /\ query'.acts \in {detail!Modern, detail!Legacy, detail!Detached}
    BY DEF DetailTypes
  <2> QED
    BY <2>2, <2>3, <2>4, DetailInline
<1>2. ASSUME NEW by, ui' = [ui EXCEPT !.snapLoading = TRUE],
             calls' = others \cup {[op |-> "list", by |-> by, closes |-> closes]}
      PROVE  DetailTypes'
  <2>1. DetailCalls(calls')
    BY <1>2 DEF DetailCalls
  <2> QED
    BY <1>2, <2>1, DetailKept DEF DetailTypes, KeepsSnaps
<1> QED
  BY <1>1, <1>2 DEF detail!refreshSnapshots

LEMMA DetailShown ==
  ASSUME DetailTypes, NEW next, detail!Show(next), DOMAIN next = DOMAIN ui, next.snaps = ui.snaps,
         DetailName(next.name)
  PROVE  DetailTypes'
BY DetailKept DEF DetailTypes, KeepsSnaps, detail!Show

LEMMA DetailTyped ==
  /\ (detail!DetailInit => DetailTypes)
  /\ (DetailTypes /\ [detail!DetailNext]_(detail!detailVars) => DetailTypes')
  /\ (DetailTypes => detail!TypeOK)
<1>1. detail!DetailInit => DetailTypes

  BY DEF detail!DetailInit, DetailTypes, DetailName, DetailCalls
<1>2. ASSUME DetailTypes, detail!DetailNext
      PROVE  DetailTypes'
  <2>1. CASE detail!Poll
    <3>1. "acts" \in DOMAIN query' /\ query'.acts \in {detail!Modern, detail!Legacy, detail!Detached}
      BY <1>2, <2>1 DEF detail!Poll, DetailTypes
    <3>2. CASE ui' \in detail!Inline(ui) /\ UNCHANGED calls
      <4>1. DetailCalls(calls') /\ DetailName(ui.name)
        BY <1>2, <3>2 DEF DetailTypes, DetailCalls
      <4> QED
        BY <1>2, <3>1, <3>2, <4>1, DetailInline
    <3>3. ASSUME NEW by, ui' = [ui EXCEPT !.snapLoading = TRUE],
                 calls' = calls \cup {[op |-> "list", by |-> by, closes |-> "poll"]}
          PROVE  DetailTypes'
      <4>1. DetailCalls(calls')
        BY <1>2, <3>3 DEF DetailTypes, DetailCalls
      <4>2. DOMAIN ui' = DOMAIN ui /\ ui'.snaps = ui.snaps /\ ui'.name = ui.name
        BY <1>2, <3>3 DEF DetailTypes
      <4> QED
        BY <1>2, <3>1, <4>1, <4>2 DEF DetailTypes, DetailName
    <3> QED
      BY <2>1, <3>2, <3>3 DEF detail!Poll
  <2>2. CASE detail!RefreshSnapshots
    BY <1>2, <2>2, DetailRefreshes DEF detail!RefreshSnapshots, DetailTypes
  <2>3. CASE detail!ToggleSystem
    BY <1>2, <2>3, DetailShown, SMTT(40) DEF detail!ToggleSystem, DetailTypes, DetailName
  <2>4. CASE detail!OpenFromMenu
    <3>1. CASE detail!Show([ui EXCEPT !.dialog = "snapCreate"])
      BY <1>2, <3>1, DetailShown DEF DetailTypes
    <3>2. CASE detail!Show([ui EXCEPT !.dialog = "job"])
      BY <1>2, <3>2, DetailShown DEF DetailTypes
    <3>3. ASSUME NEW key \in detail!FormActions, detail!Show([[ui EXCEPT !.dialog = "form"] EXCEPT !.name = key])
          PROVE  DetailTypes'
      BY <1>2, <3>3, DetailShown DEF DetailTypes, DetailName
    <3> QED
      BY <2>4, <3>1, <3>2, <3>3 DEF detail!OpenFromMenu
  <2>5. CASE detail!RunExtra
    BY <1>2, <2>5, ActionRuns, Zenon DEF detail!RunExtra
  <2>6. CASE detail!SubmitForm
    BY <1>2, <2>6, ActionRuns, Zenon DEF detail!SubmitForm
  <2>7. CASE detail!OpenSnapshotCreate
    BY <1>2, <2>7, DetailShown DEF detail!OpenSnapshotCreate, DetailTypes, DetailName
  <2>8. CASE detail!CreateSnapshot
    BY <1>2, <2>8, ActionRuns, Zenon DEF detail!CreateSnapshot
  <2>9. CASE detail!AttachJob
    <3>1. CASE detail!runAction("recurringJobAdd", None, "job")
      BY <1>2, <3>1, ActionRuns
    <3>2. CASE detail!Show([ui EXCEPT !.jobName = ~ui.jobName])
      BY <1>2, <3>2, DetailShown DEF DetailTypes
    <3> QED
      BY <2>9, <3>1, <3>2 DEF detail!AttachJob
  <2>10. CASE detail!CloseDialog
    BY <1>2, <2>10, ClosedKeeps, ClosedName, DetailShown DEF detail!CloseDialog, DetailTypes
  <2>11. ASSUME NEW s \in NamesAt("detail"), detail!RevertTo(s)
         PROVE  DetailTypes'
    BY <1>2, <2>11, ActionRuns, Zenon DEF detail!RevertTo
  <2>12. ASSUME NEW s \in NamesAt("detail"), detail!OpenBackup(s)
         PROVE  DetailTypes'
    <3>1. CASE detail!runAction("snapshotBackup", s, "backup")
      BY <1>2, <3>1, ActionRuns
    <3>2. ASSUME NEW first, detail!Show([ui EXCEPT !.dialog = "backup", !.name = s, !.backupTarget = first,
                                                   !.backupMode = "incremental"])
          PROVE  DetailTypes'
      BY <1>2, <3>2, DetailShown DEF DetailTypes, DetailName
    <3> QED
      BY <2>12, <3>1, <3>2 DEF detail!OpenBackup
  <2>13. CASE detail!EnterBackup
    BY <1>2, <2>13, DetailShown DEF detail!EnterBackup, DetailTypes, DetailName
  <2>14. CASE detail!RunBackup
    BY <1>2, <2>14, ActionRuns, Zenon DEF detail!RunBackup
  <2>15. ASSUME NEW s \in NamesAt("detail"), detail!OpenDeleteSnapshot(s)
         PROVE  DetailTypes'
    BY <1>2, <2>15, DetailShown DEF detail!OpenDeleteSnapshot, DetailTypes, DetailName
  <2>16. CASE detail!DeleteSnapshot
    BY <1>2, <2>16, ActionRuns, Zenon DEF detail!DeleteSnapshot
  <2>17. CASE detail!RemoveReplica
    <3>1. CASE detail!runAction("replicaRemove", None, "removeReplica")
      BY <1>2, <3>1, ActionRuns
    <3>2. CASE detail!Show([ui EXCEPT !.dialog = "removeReplica"])
      BY <1>2, <3>2, DetailShown DEF DetailTypes
    <3> QED
      BY <2>17, <3>1, <3>2 DEF detail!RemoveReplica
  <2>18. ASSUME NEW c \in calls, detail!ListAnswered(c)
         PROVE  DetailTypes'
    <3>1. PICK shown : shown = detail!Closed([ui EXCEPT !.snapLoading = FALSE], c.closes)
      OBVIOUS
    <3>2. DOMAIN shown = DOMAIN ui /\ shown.snaps = ui.snaps /\ DetailName(shown.name)
      <4>1. PICK next : next = [ui EXCEPT !.snapLoading = FALSE]
        OBVIOUS
      <4>2. DOMAIN next = DOMAIN ui /\ next.snaps = ui.snaps /\ next.name = ui.name /\ next.dialog = ui.dialog
        BY <1>2, <4>1 DEF DetailTypes
      <4>3. {"snaps", "name", "dialog"} \subseteq DOMAIN next /\ DetailName(next.name)
        BY <1>2, <4>2 DEF DetailTypes
      <4>4. shown = detail!Closed(next, c.closes)
        BY <3>1, <4>1
      <4> QED
        BY <4>2, <4>3, <4>4, ClosedKeeps, ClosedName
    <3>3. DetailCalls(calls') /\ UNCHANGED query
      BY <1>2, <2>18 DEF DetailTypes, DetailCalls, detail!ListAnswered
    <3>4. \/ ui' = shown
          \/ \E listing \in detail!ListingsOf(ui.task) :
               ui' = [shown EXCEPT !.snaps = listing]
      BY <2>18, <3>1, Zenon DEF detail!ListAnswered
    <3>5. CASE ui' = shown
      BY <1>2, <3>2, <3>3, <3>5, DetailKept DEF KeepsSnaps
    <3>6. ASSUME NEW listing \in detail!ListingsOf(ui.task),
                 ui' = [shown EXCEPT !.snaps = listing]
          PROVE  DetailTypes'
      <4>1. DOMAIN listing \subseteq NamesAt("detail")
        BY AnswerListed
      <4>2. DOMAIN ui' = DOMAIN ui /\ ui'.snaps = listing /\ ui'.name = shown.name
        BY <1>2, <3>2, <3>6 DEF DetailTypes
      <4> QED
        BY <1>2, <3>2, <3>3, <4>1, <4>2 DEF DetailTypes, DetailName, DetailCalls
    <3> QED
      BY <3>4, <3>5, <3>6
  <2>19. ASSUME NEW c \in calls, detail!ActionAnswered(c)
         PROVE  DetailTypes'
    <3>1. DetailCalls(calls \ {c}) /\ UNCHANGED query
      BY <1>2, <2>19 DEF detail!ActionAnswered, DetailTypes, DetailCalls
    <3>2. CASE detail!refreshSnapshots(c.closes, calls \ {c}, ui)
      BY <1>2, <3>1, <3>2, DetailRefreshes
    <3>3. CASE ui' = detail!Closed(ui, c.closes) /\ calls' = calls \ {c}
      <4>1. KeepsSnaps /\ DetailName(ui'.name)
        BY <1>2, <3>3, ClosedKeeps, ClosedName DEF DetailTypes, KeepsSnaps
      <4> QED
        BY <1>2, <3>1, <3>3, <4>1, DetailKept
    <3> QED
      BY <2>19, <3>2, <3>3 DEF detail!ActionAnswered
  <2> QED
    BY <1>2, <2>1, <2>2, <2>3, <2>4, <2>5, <2>6, <2>7, <2>8, <2>9, <2>10, <2>11, <2>12, <2>13, <2>14, <2>15,
       <2>16, <2>17, <2>18, <2>19 DEF
       detail!DetailNext
<1>3. DetailTypes /\ UNCHANGED detail!detailVars => DetailTypes'
  BY DEF detail!detailVars, DetailTypes, DetailName, DetailCalls
<1>4. DetailTypes => detail!TypeOK

  BY DEF DetailTypes, DetailName, DetailCalls, detail!TypeOK
<1> QED
  BY <1>1, <1>2, <1>3, <1>4

-----------------------------------------------------------------------------
(* TablePage                                                                 *)

TableState ==
  [search : Searches, descending : BOOLEAN, page : Nat, size : PageSizes, selected : SUBSET RowIds]

TableTypes == query \subseteq RowIds /\ ui \in TableState /\ calls \in dataTable!TablePrefs

LEMMA PickedColumns == dataTable!PickerColumns \subseteq AllColumns
BY DEF dataTable!PickerColumns, dataTable!resolveColumns

\* The pages are no more than the rows.
LEMMA PageInRange ==
  ASSUME PageBegun, ui \in TableState
  PROVE  ui.page \in 0..dataTable!Cardinality(RowIds)
<1>1. Count <= Cardinality(RowIds) /\ Count \in Nat /\ Cardinality(RowIds) \in Nat
  BY FilteredFinite, ListsAreFinite, FS_Subset, FS_CardinalityType DEF Count, PageBegun, dataTable!Filtered
<1>2. ui.page \in Nat /\ ui.size \in Nat \ {0} /\ (ui.page = 0 \/ ui.page * ui.size < Count)
  BY DEF PageBegun
<1>3. ui.page <= ui.page * ui.size
  BY <1>2
<1> QED
  BY <1>1, <1>2, <1>3, SameNumber

LEMMA TableTyped ==
  /\ (dataTable!TableInit => TableTypes)
  /\ (TableTypes /\ [dataTable!TableNext]_(dataTable!tableVars) => TableTypes')
  /\ (PageBegun /\ TableTypes => dataTable!TypeOK)
<1> USE DEF dataTable!TablePrefs
<1>1. dataTable!TableInit => TableTypes
  <2> SUFFICES ASSUME dataTable!TableInit PROVE TableTypes
    OBVIOUS
  <2>1. \A size \in PageSizes :
          [search |-> "", descending |-> FALSE, page |-> 0, size |-> size, selected |-> {}] \in TableState
    BY NothingMayBeSearched DEF TableState
  <2>2. ui \in TableState
    BY <2>1 DEF dataTable!TableInit
  <2>3. calls \in dataTable!TablePrefs
    BY DEF dataTable!TableInit
  <2> QED
    BY <2>2, <2>3 DEF dataTable!TableInit, TableTypes
<1>2. ASSUME TableTypes, dataTable!TableNext
      PROVE  TableTypes'
  <2>1. CASE dataTable!DataChanges
    BY <1>2, <2>1 DEF dataTable!DataChanges, TableTypes, TableState
  <2>2. ASSUME NEW text \in Searches, dataTable!Search(text)
        PROVE  TableTypes'
    BY <1>2, <2>2 DEF dataTable!Search, TableTypes, TableState
  <2>3. CASE dataTable!Sort
    BY <1>2, <2>3 DEF dataTable!Sort, TableTypes, TableState
  <2>4. ASSUME NEW size \in PageSizes, dataTable!SetPageSize(size)
        PROVE  TableTypes'
    <3>1. PICK page : ui' = [[ui EXCEPT !.size = size] EXCEPT !.page = page] /\ page = (ui.page * ui.size) \div size
      BY <1>2, <2>4 DEF dataTable!SetPageSize, TableTypes, TableState
    <3>2. ui.page * ui.size \in Nat /\ size \in Nat \ {0}
      <4>1. ui.page \in Nat /\ ui.size \in Nat /\ size \in Nat \ {0}
        BY <1>2, SizesAreSome DEF TableTypes, TableState
      <4> QED
        BY <4>1
    <3>3. page \in Nat
      BY <3>1, <3>2
    <3> QED
      BY <1>2, <2>4, <3>1, <3>3 DEF dataTable!SetPageSize, TableTypes, TableState
  <2>5. CASE dataTable!TurnPage
    BY <1>2, <2>5 DEF dataTable!TurnPage, TableTypes, TableState
  <2>6. ASSUME NEW r \in RowIds, dataTable!ToggleRow(r)
        PROVE  TableTypes'
    BY <1>2, <2>6 DEF dataTable!ToggleRow, dataTable!PageRows, dataTable!Filtered, TableTypes, TableState
  <2>7. CASE dataTable!TogglePage
    BY <1>2, <2>7 DEF dataTable!TogglePage, dataTable!PageRows, dataTable!Filtered, TableTypes, TableState
  <2>8. CASE dataTable!ClearSelection
    BY <1>2, <2>8 DEF dataTable!ClearSelection, TableTypes, TableState
  <2>9. ASSUME NEW density \in {"comfortable", "compact"}, dataTable!SetDensity(density)
        PROVE  TableTypes'
    BY <1>2, <2>9 DEF dataTable!SetDensity, TableTypes, TableState
  <2>10. ASSUME NEW c \in AllColumns, dataTable!ToggleColumn(c)
         PROVE  TableTypes'
    BY <1>2, <2>10, PickedColumns DEF dataTable!ToggleColumn, TableTypes, TableState
  <2>11. ASSUME NEW name \in ViewNames, dataTable!SaveView(name)
         PROVE  TableTypes'
    BY <1>2, <2>11, PickedColumns DEF dataTable!SaveView, dataTable!View, TableTypes, TableState
  <2>12. ASSUME NEW view \in calls.views, dataTable!ApplyView(view)
         PROVE  TableTypes'
    BY <1>2, <2>12 DEF dataTable!ApplyView, dataTable!View, TableTypes, TableState
  <2>13. ASSUME NEW view \in calls.views, dataTable!DeleteView(view)
         PROVE  TableTypes'
    BY <1>2, <2>13 DEF dataTable!DeleteView, TableTypes, TableState
  <2>14. CASE dataTable!Reload
    <3>1. \A size \in PageSizes :
            [search |-> "", descending |-> FALSE, page |-> 0, size |-> size, selected |-> {}] \in TableState
      BY NothingMayBeSearched DEF TableState
    <3>2. (ui \in TableState)'
      BY <2>14, <3>1 DEF dataTable!Reload, TableState
    <3> QED
      BY <1>2, <2>14, <3>2 DEF dataTable!Reload, TableTypes
  <2> QED
    BY <1>2, <2>1, <2>2, <2>3, <2>4, <2>5, <2>6, <2>7, <2>8, <2>9, <2>10, <2>11, <2>12, <2>13, <2>14 DEF
       dataTable!TableNext
<1>3. TableTypes /\ UNCHANGED dataTable!tableVars => TableTypes'
  BY DEF dataTable!tableVars, TableTypes
<1>4. PageBegun /\ TableTypes => dataTable!TypeOK
  BY PageInRange DEF TableTypes, TableState, dataTable!TypeOK
<1> QED
  BY <1>1, <1>2, <1>3, <1>4

-----------------------------------------------------------------------------
(* StorageOperationsPage                                                     *)

OperationTypes ==
  /\ {"available", "phase"} \subseteq DOMAIN query
  /\ {"view", "plans"} \subseteq DOMAIN ui /\ ui.plans \in 0..MaxPlans
  /\ ui.view = "action" =>
       /\ {"action", "form", "plan", "ack", "typed", "confirmOpen", "since"} \subseteq DOMAIN ui
       /\ ui.plan # None => ui.plan.nr \in 0..MaxPlans
  /\ \A c \in calls : "op" \in DOMAIN c /\ (c.op = "plan" => c.nr \in 0..MaxPlans)
  /\ operations!TypeOK

LEMMA OperationTyped ==
  /\ (operations!OperationInit => OperationTypes)
  /\ (OperationTypes /\ [operations!OperationNext]_(operations!operationVars) => OperationTypes')
  /\ (OperationTypes => operations!TypeOK)
<1> USE DEF operations!TypeOK, operations!Show, operations!Terminal
<1>1. operations!OperationInit => OperationTypes
  BY BoundsAreNumbers DEF operations!OperationInit, operations!Catalogue, OperationTypes
<1>2. ASSUME OperationTypes, operations!OperationNext
      PROVE  OperationTypes'
  <2>1. ASSUME NEW scope \in Providers \cup {None}, operations!SetFilter(scope)
        PROVE  OperationTypes'
    BY <1>2, <2>1 DEF operations!SetFilter, operations!Catalogue, OperationTypes
  <2>2. ASSUME NEW available \in SUBSET ActionsOffered, operations!ActionsAnswered(available)
        PROVE  OperationTypes'
    BY <1>2, <2>2 DEF operations!ActionsAnswered, OperationTypes
  <2>3. ASSUME NEW a \in ActionsOffered, operations!OpenAction(a)
        PROVE  OperationTypes'
    <3>1. ui' = operations!Fresh(a, ui.plans) /\ UNCHANGED <<query, calls>>
      BY <2>3 DEF operations!OpenAction
    <3>2. {"view", "plans", "action", "form", "plan", "ack", "typed", "confirmOpen", "since"} \subseteq DOMAIN ui'
          /\ ui'.view = "action" /\ ui'.plans = ui.plans /\ ui'.action = a /\ ui'.ack = 0 /\ ui'.plan = None
      BY <3>1 DEF operations!Fresh
    <3> QED
      BY <1>2, <3>1, <3>2, BoundsAreNumbers DEF OperationTypes
  <2>4. ASSUME NEW a \in ActionsOffered, operations!SwitchAction(a)
        PROVE  OperationTypes'
    <3>1. UNCHANGED <<query, calls>>
      BY <2>4 DEF operations!SwitchAction
    <3>2. {"view", "plans", "action", "form", "plan", "ack", "typed", "confirmOpen", "since"} \subseteq DOMAIN ui'
          /\ ui'.view = "action" /\ ui'.plans = ui.plans /\ ui'.action = a /\ ui'.ack = 0 /\ ui'.plan = None
      BY <2>4 DEF operations!SwitchAction, operations!Fresh
    <3> QED
      BY <1>2, <3>1, <3>2, BoundsAreNumbers DEF OperationTypes
  <2>5. CASE operations!Leave
    BY <1>2, <2>5 DEF operations!Leave, operations!Catalogue, OperationTypes
  <2>6. CASE operations!EditName
    BY <1>2, <2>6 DEF operations!EditName, operations!Edit, operations!FormShown, OperationTypes
  <2>7. CASE operations!EditParameter
    BY <1>2, <2>7 DEF operations!EditParameter, operations!Edit, operations!FormShown, OperationTypes
  <2>8. CASE operations!createPlan
    <3> DEFINE c == [op |-> "plan", request |-> operations!request, nr |-> ui.plans + 1]
    <3>1. /\ UNCHANGED query /\ calls' = calls \cup {c} /\ ui.view = "action" /\ ui.plans < MaxPlans
          /\ ui' = [[ui EXCEPT !.plan = None] EXCEPT !.plans = ui.plans + 1]
      BY <1>2, <2>8 DEF operations!createPlan, operations!FormShown, OperationTypes
    <3>2. "op" \in DOMAIN c /\ c.op = "plan" /\ c.nr = ui.plans + 1
      OBVIOUS
    <3> HIDE DEF c
    <3>3. ui.plans + 1 \in 0..MaxPlans
      BY <1>2, <3>1, BoundsAreNumbers DEF OperationTypes
    <3>4. DOMAIN ui' = DOMAIN ui /\ ui'.plans = ui.plans + 1 /\ ui'.plan = None /\ ui'.view = ui.view
          /\ ui'.action = ui.action /\ ui'.ack = ui.ack
      BY <1>2, <3>1 DEF OperationTypes
    <3> QED
      BY <1>2, <3>1, <3>2, <3>3, <3>4 DEF OperationTypes
  <2>9. ASSUME NEW c \in calls, operations!PlanAnswered(c)
        PROVE  OperationTypes'
    <3>1. UNCHANGED query /\ calls' = calls \ {c} /\ c.op = "plan" /\ ui.view = "action"
      BY <2>9 DEF operations!PlanAnswered
    <3>2. ASSUME NEW plan, plan.nr = c.nr, ui' = operations!setPlan(plan)
          PROVE  OperationTypes'
      <4>1. DOMAIN ui' = DOMAIN ui /\ ui'.plans = ui.plans /\ ui'.plan = plan /\ ui'.view = ui.view
            /\ ui'.action = ui.action /\ ui'.ack = 0
        BY <1>2, <3>1, <3>2 DEF OperationTypes, operations!setPlan
      <4> QED
        BY <1>2, <3>1, <3>2, <4>1, BoundsAreNumbers DEF OperationTypes
    <3>3. CASE UNCHANGED ui
      BY <1>2, <3>1, <3>3 DEF OperationTypes
    <3> QED
      BY <2>9, <3>2, <3>3 DEF operations!PlanAnswered
  <2>10. CASE operations!RequestConfirmation
    BY <1>2, <2>10 DEF operations!RequestConfirmation, operations!FormShown, OperationTypes
  <2>11. CASE operations!CancelConfirmation
    BY <1>2, <2>11 DEF operations!CancelConfirmation, operations!DialogShown, OperationTypes
  <2>12. CASE operations!Acknowledge
    BY <1>2, <2>12, BoundsAreNumbers DEF operations!Acknowledge, operations!DialogShown, OperationTypes
  <2>13. ASSUME NEW n \in NamesAt("operations"), operations!TypeName(n)
         PROVE  OperationTypes'
    BY <1>2, <2>13 DEF operations!TypeName, operations!DialogShown, OperationTypes
  <2>14. CASE operations!submit
    BY <1>2, <2>14, BoundsAreNumbers DEF operations!submit, operations!DialogShown, OperationTypes
  <2>15. ASSUME NEW c \in calls, operations!SubmitAnswered(c)
         PROVE  OperationTypes'
    BY <1>2, <2>15 DEF operations!SubmitAnswered, OperationTypes
  <2>16. ASSUME NEW phase \in operations!Terminal \cup {"Pending", "Running"}, operations!OperationPolled(phase)
         PROVE  OperationTypes'
    BY <1>2, <2>16 DEF operations!OperationPolled, OperationTypes
  <2> QED
    BY <1>2, <2>1, <2>2, <2>3, <2>4, <2>5, <2>6, <2>7, <2>8, <2>9, <2>10, <2>11, <2>12, <2>13, <2>14, <2>15,
       <2>16 DEF
       operations!OperationNext
<1>3. OperationTypes /\ UNCHANGED operations!operationVars => OperationTypes'
  BY DEF operations!operationVars, OperationTypes
<1>4. OperationTypes => operations!TypeOK
  BY DEF OperationTypes
<1> QED
  BY <1>1, <1>2, <1>3, <1>4

-----------------------------------------------------------------------------
(* StoragePolicyPage                                                         *)

PolicyTypes ==
  /\ {"requested", "revision", "mutable", "ceiling"} \subseteq DOMAIN query
  /\ {"draft", "plan", "open", "confirmed"} \subseteq DOMAIN ui
  /\ \A c \in calls : {"op", "policy"} \subseteq DOMAIN c
  /\ policy!TypeOK

\* The draft is replaced.
LEMMA PolicyDrafted ==
  ASSUME PolicyTypes, NEW p, policy!SetDraft(p), policy!IsPolicy(p)
  PROVE  PolicyTypes'
BY DEF PolicyTypes, policy!TypeOK, policy!SetDraft, policy!Show, policy!IsPolicy

LEMMA PolicyKept ==
  ASSUME PolicyTypes, UNCHANGED query, DOMAIN ui' = DOMAIN ui, ui'.draft = ui.draft,
         ui'.confirmed \subseteq policy!Phrases, ui'.open => policy!IsPolicy(ui'.plan.policy),
         \A c \in calls' : {"op", "policy"} \subseteq DOMAIN c /\ c.op \in {"plan", "apply"} /\ policy!IsPolicy(c.policy)
  PROVE  PolicyTypes'
BY DEF PolicyTypes, policy!TypeOK, policy!IsPolicy

LEMMA PolicyArrives ==
  ASSUME PolicyTypes, NEW p, NEW now, policy!Arrives(p, now), policy!IsPolicy(p), calls' \subseteq calls,
         {"draft", "plan", "open", "confirmed"} \subseteq DOMAIN now, now.confirmed \subseteq policy!Phrases,
         now.open => policy!IsPolicy(now.plan.policy)
  PROVE  PolicyTypes'
BY BoundsAreNumbers DEF PolicyTypes, policy!TypeOK, policy!Arrives, policy!IsPolicy

LEMMA PolicyTyped ==
  /\ (policy!PolicyInit => PolicyTypes)
  /\ (PolicyTypes /\ [policy!PolicyNext]_(policy!policyVars) => PolicyTypes')
  /\ (PolicyTypes => policy!TypeOK)
<1> USE DEF policy!Show
<1>1. policy!PolicyInit => PolicyTypes
  BY BoundsAreNumbers, RequestsAreFields DEF policy!PolicyInit, policy!TypeOK, policy!IsPolicy, PolicyTypes
<1>2. ASSUME PolicyTypes, policy!PolicyNext
      PROVE  PolicyTypes'
  <2>1. CASE policy!UsePreset
    <3>1. PICK preset \in policy!Presets : policy!SetDraft(preset[1])
      BY <2>1 DEF policy!UsePreset
    <3>2. policy!IsPolicy(preset[1])
      BY DEF policy!Presets, policy!Disabled, policy!Native, policy!Full, policy!IsPolicy, policy!Fields,
         policy!Scopes
    <3> QED
      BY <1>2, <3>1, <3>2, PolicyDrafted
  <2>2. ASSUME NEW key \in policy!Fields, policy!ToggleField(key)
        PROVE  PolicyTypes'
    <3>1. policy!SetDraft(policy!updatePolicyField(ui.draft, key, key \notin ui.draft.on))
      BY <2>2 DEF policy!ToggleField
    <3>2. policy!IsPolicy(policy!updatePolicyField(ui.draft, key, key \notin ui.draft.on))
      BY <1>2 DEF PolicyTypes, policy!TypeOK, policy!IsPolicy, policy!updatePolicyField, policy!Disabled
    <3> QED
      BY <1>2, <3>1, <3>2, PolicyDrafted
  <2>3. ASSUME NEW id \in Detected, policy!ToggleProvider(id)
        PROVE  PolicyTypes'
    <3> DEFINE p == policy!updatePortableProvider(ui.draft, id, {id, policy!Wildcard} \cap ui.draft.ids = {})
    <3>1. policy!SetDraft(p)
      BY <2>3 DEF policy!ToggleProvider
    <3>2. policy!IsPolicy(p)
      BY <1>2 DEF PolicyTypes, policy!TypeOK, policy!IsPolicy, policy!updatePortableProvider,
         policy!WithIds, policy!Fields, policy!Scopes
    <3> HIDE DEF p
    <3> QED
      BY <1>2, <3>1, <3>2, PolicyDrafted
  <2>4. CASE policy!Migrate
    <3>1. policy!SetDraft(policy!WithIds(ui.draft, Detected))
      BY <2>4 DEF policy!Migrate
    <3>2. policy!IsPolicy(policy!WithIds(ui.draft, Detected))
      BY <1>2 DEF PolicyTypes, policy!TypeOK, policy!IsPolicy, policy!WithIds, policy!Fields, policy!Scopes
    <3> QED
      BY <1>2, <3>1, <3>2, PolicyDrafted
  <2>5. CASE policy!Reset
    <3>1. policy!SetDraft(query.requested) /\ policy!IsPolicy(query.requested)
      BY <1>2, <2>5 DEF policy!Reset, PolicyTypes, policy!TypeOK
    <3> QED
      BY <1>2, <3>1, PolicyDrafted
  <2>6. ASSUME NEW p \in Requests, policy!PolicyPolled(p)
        PROVE  PolicyTypes'
    <3>1. policy!IsPolicy(p)
      BY RequestsAreFields DEF policy!IsPolicy
    <3> QED
      BY <1>2, <2>6, <3>1, PolicyArrives DEF policy!PolicyPolled, PolicyTypes, policy!TypeOK
  <2>7. CASE policy!review
    <3> DEFINE c == [op |-> "plan", policy |-> ui.draft, revision |-> query.revision,
                     broadening |-> ~(ui.draft.on \subseteq query.requested.on),
                     pool |-> "poolDelete" \in ui.draft.on \ query.requested.on]
    <3>1. calls' = calls \cup {c} /\ UNCHANGED <<query, ui>>
      BY <2>7 DEF policy!review
    <3>2. {"op", "policy"} \subseteq DOMAIN c /\ c.op = "plan" /\ c.policy = ui.draft
      OBVIOUS
    <3> HIDE DEF c
    <3> QED
      BY <1>2, <3>1, <3>2, PolicyKept DEF PolicyTypes, policy!TypeOK
  <2>8. ASSUME NEW c \in calls, policy!ReviewAnswered(c)
        PROVE  PolicyTypes'
    <3>1. CASE ui' = [[[ui EXCEPT !.plan = [policy |-> c.policy, revision |-> c.revision, broadening |-> c.broadening,
                                            pool |-> c.pool]] EXCEPT !.open = TRUE] EXCEPT !.confirmed = {}]
      BY <1>2, <2>8, <3>1, PolicyKept DEF policy!ReviewAnswered, PolicyTypes, policy!TypeOK
    <3>2. CASE UNCHANGED ui
      BY <1>2, <2>8, <3>2, PolicyKept DEF policy!ReviewAnswered, PolicyTypes, policy!TypeOK
    <3> QED
      BY <2>8, <3>1, <3>2 DEF policy!ReviewAnswered
  <2>9. ASSUME NEW k \in policy!Phrases, policy!Confirm(k)
        PROVE  PolicyTypes'
    BY <1>2, <2>9, PolicyKept DEF policy!Confirm, policy!TypeOK, policy!Required, policy!Phrases, PolicyTypes
  <2>10. CASE policy!Cancel
    BY <1>2, <2>10, PolicyKept DEF policy!Cancel, policy!TypeOK, policy!Closed, policy!NoPlan, PolicyTypes
  <2>11. CASE policy!apply
    <3> DEFINE c == [op |-> "apply", policy |-> ui.draft,
                     reviewed |-> ui.plan.policy = ui.draft /\ ui.plan.revision = query.revision]
    <3>1. calls' = calls \cup {c} /\ UNCHANGED <<query, ui>>
      BY <2>11 DEF policy!apply
    <3>2. {"op", "policy"} \subseteq DOMAIN c /\ c.op = "apply" /\ c.policy = ui.draft
      OBVIOUS
    <3> HIDE DEF c
    <3> QED
      BY <1>2, <3>1, <3>2, PolicyKept DEF PolicyTypes, policy!TypeOK
  <2>12. ASSUME NEW c \in calls, policy!ApplyAnswered(c)
         PROVE  PolicyTypes'
    <3>1. CASE policy!Arrives(c.policy, policy!Closed(ui)) /\ calls' = calls \ {c}
      <4> DEFINE now == policy!Closed(ui)
      <4>1. {"draft", "plan", "open", "confirmed"} \subseteq DOMAIN now /\ now.confirmed = {} /\ now.open = FALSE
        BY <1>2 DEF policy!Closed, PolicyTypes
      <4>2. policy!IsPolicy(c.policy) /\ policy!Arrives(c.policy, now)
        BY <1>2, <3>1 DEF PolicyTypes, policy!TypeOK
      <4> HIDE DEF now
      <4> QED
        BY <1>2, <3>1, <4>1, <4>2, PolicyArrives
    <3>2. CASE UNCHANGED <<query, ui>> /\ calls' = calls \ {c}
      BY <1>2, <3>2, PolicyKept DEF PolicyTypes, policy!TypeOK
    <3> QED
      BY <2>12, <3>1, <3>2 DEF policy!ApplyAnswered
  <2> QED
    BY <1>2, <2>1, <2>2, <2>3, <2>4, <2>5, <2>6, <2>7, <2>8, <2>9, <2>10, <2>11, <2>12 DEF policy!PolicyNext
<1>3. PolicyTypes /\ UNCHANGED policy!policyVars => PolicyTypes'
  BY DEF policy!policyVars, PolicyTypes, policy!TypeOK, policy!IsPolicy
<1>4. PolicyTypes => policy!TypeOK
  BY DEF PolicyTypes
<1> QED
  BY <1>1, <1>2, <1>3, <1>4

-----------------------------------------------------------------------------
(* StorageQueries                                                            *)

LEMMA QueriesTyped == QueriesInv => queries!TypeOK
BY DEF QueriesInv, InTheURL, UnderWay, Keys, queries!TypeOK, queries!Current, queries!Key

-----------------------------------------------------------------------------
(* BenchmarksPage                                                            *)

BenchmarkRuns == [name : benchmarks!Names, phase : benchmarks!Phases]

BenchmarkKeys == {"list", "detail", "entry"}

\* A cache is a sequence of some entries, each with a key.
KeyedEntries(entries) == \A e \in entries : "key" \in DOMAIN e /\ e.key.kind \in BenchmarkKeys
Keyed(cache) == \E entries : cache \in Seq(entries) /\ KeyedEntries(entries)

KeyedCall(c) ==
  "op" \in DOMAIN c /\ (c.op = "fetch" => "key" \in DOMAIN c /\ c.key.kind \in BenchmarkKeys)

BenchmarkTypes ==
  /\ {"runs", "named", "frames", "cache", "classes"} \subseteq DOMAIN query
  /\ query.runs \in Seq(BenchmarkRuns)
  /\ query.frames \in Seq([deleted : BOOLEAN, run : BenchmarkRuns]) /\ Len(query.frames) <= MaxFrames
  /\ Keyed(query.cache)
  /\ query.classes \subseteq Classes
  /\ {"visit", "open", "cursor", "expanded", "deleteBench", "storageClass", "retain", "confirmed"} \subseteq DOMAIN ui
  /\ {ui.expanded, ui.deleteBench} \subseteq benchmarks!Names \cup {None}
  /\ \A c \in calls : KeyedCall(c)

\* What a sequence has after one of its elements was removed.
LEMMA BenchmarkRemoved ==
  ASSUME NEW S, NEW s \in Seq(S), NEW i \in DOMAIN s
  PROVE  benchmarks!RemoveAt(s, i) \in Seq(S)
<1>1. i \in 1..Len(s) /\ Len(s) \in Nat
  OBVIOUS
<1>2. SubSeq(s, 1, i - 1) \in Seq(S) /\ SubSeq(s, i + 1, Len(s)) \in Seq(S)
  BY <1>1
<1> QED
  BY <1>2 DEF benchmarks!RemoveAt

LEMMA BenchmarkRunsTyped ==
  ASSUME BenchmarkTypes
  PROVE  /\ benchmarks!Named(query.runs) \subseteq benchmarks!Names
         /\ \A i \in DOMAIN query.runs : query.runs[i] \in BenchmarkRuns
<1>1. \A i \in DOMAIN query.runs : query.runs[i] \in BenchmarkRuns
  BY DEF BenchmarkTypes
<1>2. \A i \in DOMAIN query.runs : query.runs[i].name \in benchmarks!Names
  BY <1>1 DEF BenchmarkRuns
<1> QED
  BY <1>1, <1>2 DEF benchmarks!Named

LEMMA KeyAdded ==
  ASSUME NEW cache, Keyed(cache), NEW key, key.kind \in BenchmarkKeys
  PROVE  Keyed(benchmarks!Added(cache, key))
<1>1. CASE benchmarks!Has(cache, key)
  BY <1>1 DEF benchmarks!Added
<1>2. CASE ~benchmarks!Has(cache, key)
  <2> DEFINE e == [key |-> key, data |-> None]
  <2>1. PICK entries : cache \in Seq(entries) /\ KeyedEntries(entries)
    BY DEF Keyed
  <2>2. "key" \in DOMAIN e /\ e.key.kind \in BenchmarkKeys /\ benchmarks!Added(cache, key) = Append(cache, e)
    BY <1>2 DEF benchmarks!Added
  <2> HIDE DEF e
  <2>3. KeyedEntries(entries \cup {e})
    BY <2>1, <2>2 DEF KeyedEntries
  <2>4. cache \in Seq(entries \cup {e})
    BY <2>1
  <2>5. Append(cache, e) \in Seq(entries \cup {e})
    BY <2>4
  <2> QED
    BY <2>2, <2>3, <2>5 DEF Keyed
<1> QED
  BY <1>1, <1>2

\* A function over the places of a cache is one, if its values have keys.
LEMMA KeysWritten ==
  ASSUME NEW cache, Keyed(cache), NEW f, DOMAIN f = DOMAIN cache, f = [i \in DOMAIN f |-> f[i]],
         \A i \in DOMAIN cache : "key" \in DOMAIN f[i] /\ f[i].key.kind \in BenchmarkKeys
  PROVE  Keyed(f)
<1> DEFINE entries == {f[i] : i \in DOMAIN f}
<1>1. PICK n \in Nat : DOMAIN cache = 1..n
  BY DEF Keyed
<1>2. f \in [1..n -> entries]
  BY <1>1
<1>3. f \in Seq(entries)
  BY <1>2
<1>4. KeyedEntries(entries)
  BY DEF KeyedEntries
<1> QED
  BY <1>3, <1>4 DEF Keyed

LEMMA KeyedAt ==
  ASSUME NEW cache, Keyed(cache), NEW i \in DOMAIN cache
  PROVE  "key" \in DOMAIN cache[i] /\ cache[i].key.kind \in BenchmarkKeys
BY DEF Keyed, KeyedEntries

LEMMA KeyPut ==
  ASSUME NEW cache, Keyed(cache), NEW key, key.kind \in BenchmarkKeys, NEW data
  PROVE  Keyed(benchmarks!Put(cache, key, data))
<1> DEFINE added == benchmarks!Added(cache, key)
           e == [key |-> key, data |-> data]
           f == [i \in DOMAIN added |-> IF added[i].key = key THEN e ELSE added[i]]
<1>1. Keyed(added)
  BY KeyAdded
<1>2. "key" \in DOMAIN e /\ e.key.kind \in BenchmarkKeys
  OBVIOUS
<1>3. benchmarks!Put(cache, key, data) = f
  BY DEF benchmarks!Put
<1> HIDE DEF added, e
<1>4. \A i \in DOMAIN added : "key" \in DOMAIN f[i] /\ f[i].key.kind \in BenchmarkKeys
  BY <1>1, <1>2, KeyedAt
<1>5. DOMAIN f = DOMAIN added /\ f = [i \in DOMAIN f |-> f[i]]
  OBVIOUS
<1> HIDE DEF f
<1>6. Keyed(f)
  BY <1>1, <1>4, <1>5, KeysWritten
<1> QED
  BY <1>3, <1>6

LEMMA KeyDropped ==
  ASSUME NEW cache, Keyed(cache), NEW key
  PROVE  Keyed(benchmarks!Dropped(cache, key))
<1>1. CASE ~benchmarks!Has(cache, key)
  BY <1>1 DEF benchmarks!Dropped
<1>2. CASE benchmarks!Has(cache, key)
  <2> DEFINE at == benchmarks!Found(cache, key)
  <2>1. at \in DOMAIN cache
    BY <1>2 DEF benchmarks!Has, benchmarks!Found
  <2>2. benchmarks!Dropped(cache, key) = benchmarks!RemoveAt(cache, at)
    BY <1>2 DEF benchmarks!Dropped
  <2> HIDE DEF at
  <2>3. PICK entries : cache \in Seq(entries) /\ KeyedEntries(entries)
    BY DEF Keyed
  <2>4. benchmarks!RemoveAt(cache, at) \in Seq(entries)
    BY <2>1, <2>3, BenchmarkRemoved
  <2> QED
    BY <2>2, <2>3, <2>4 DEF Keyed
<1> QED
  BY <1>1, <1>2

LEMMA KeysBeheld ==
  ASSUME NEW cache, Keyed(cache), NEW s
  PROVE  Keyed(benchmarks!Beheld(cache, s))
<1>1. benchmarks!List(s.cursor).kind \in BenchmarkKeys /\ benchmarks!Detail(s.expanded).kind \in BenchmarkKeys
  BY DEF benchmarks!List, benchmarks!Detail, BenchmarkKeys
<1>2. Keyed(benchmarks!Added(cache, benchmarks!List(s.cursor)))
  BY <1>1, KeyAdded
<1>3. Keyed(benchmarks!Added(benchmarks!Added(cache, benchmarks!List(s.cursor)), benchmarks!Detail(s.expanded)))
  BY <1>1, <1>2, KeyAdded
<1> QED
  BY <1>2, <1>3 DEF benchmarks!Beheld

\* What is asked for has a key.
LEMMA FetchKeyed ==
  ASSUME NEW s, NEW key \in benchmarks!Observed(s)
  PROVE  KeyedCall(benchmarks!Fetch(key))
<1>1. key.kind \in BenchmarkKeys
  BY DEF benchmarks!Observed, benchmarks!List, benchmarks!Detail, BenchmarkKeys
<1> QED
  BY <1>1 DEF KeyedCall, benchmarks!Fetch

LEMMA AskedKeyed ==
  ASSUME BenchmarkTypes, NEW s
  PROVE  /\ \A c \in benchmarks!Asked(s) : KeyedCall(c)
         /\ \A c \in benchmarks!Refetched(s) : KeyedCall(c)
BY FetchKeyed DEF BenchmarkTypes, benchmarks!Asked, benchmarks!Refetched

\* Steps that leave the server's runs and the cache alone.
LEMMA BenchmarkShows ==
  ASSUME BenchmarkTypes, UNCHANGED query, DOMAIN ui' = DOMAIN ui,
         {ui'.expanded, ui'.deleteBench} \subseteq benchmarks!Names \cup {None}, \A c \in calls' : KeyedCall(c)
  PROVE  BenchmarkTypes'
BY DEF BenchmarkTypes, Keyed, KeyedEntries, KeyedCall

LEMMA BenchmarkGoes ==
  ASSUME BenchmarkTypes, NEW s, benchmarks!Shown(s), DOMAIN s = DOMAIN ui,
         {s.expanded, s.deleteBench} \subseteq benchmarks!Names \cup {None}
  PROVE  BenchmarkTypes'
<1>1. Keyed(query'.cache) /\ DOMAIN query' = DOMAIN query /\ query'.runs = query.runs
      /\ query'.frames = query.frames /\ query'.classes = query.classes
  BY KeysBeheld DEF BenchmarkTypes, benchmarks!Shown
<1>2. \A c \in calls' : KeyedCall(c)
  BY AskedKeyed DEF benchmarks!Shown
<1> QED
  BY <1>1, <1>2 DEF BenchmarkTypes, benchmarks!Shown, Keyed, KeyedEntries, KeyedCall

\* Steps of the server: its runs change, and a frame says so.
LEMMA BenchmarkPublishes ==
  ASSUME BenchmarkTypes, UNCHANGED ui, \A c \in calls' : KeyedCall(c), DOMAIN query' = DOMAIN query,
         query'.cache = query.cache, query'.classes = query.classes, query'.runs \in Seq(BenchmarkRuns),
         NEW frame \in [deleted : BOOLEAN, run : BenchmarkRuns], Len(query.frames) < MaxFrames,
         query'.frames = Append(query.frames, frame)
  PROVE  BenchmarkTypes'
<1>1. Len(query.frames) \in Nat /\ MaxFrames \in Nat
  BY BoundsAreNumbers DEF BenchmarkTypes
<1>2. query'.frames \in Seq([deleted : BOOLEAN, run : BenchmarkRuns]) /\ Len(query'.frames) = Len(query.frames) + 1
  BY DEF BenchmarkTypes
<1>3. Len(query'.frames) <= MaxFrames
  BY <1>1, <1>2
<1> QED
  BY <1>2, <1>3 DEF BenchmarkTypes, Keyed, KeyedEntries, KeyedCall

LEMMA BenchmarkCreated ==
  ASSUME BenchmarkTypes, NEW n \in benchmarks!Names, benchmarks!Created(n), UNCHANGED ui,
         \A c \in calls' : KeyedCall(c)
  PROVE  BenchmarkTypes'
<1> DEFINE row == benchmarks!Row(n, "Pending")
           frame == [deleted |-> FALSE, run |-> row]
<1>1. row \in BenchmarkRuns
  BY DEF benchmarks!Row, BenchmarkRuns, benchmarks!Phases
<1>2. frame \in [deleted : BOOLEAN, run : BenchmarkRuns]
  BY <1>1
<1>3. /\ DOMAIN query' = DOMAIN query /\ query'.cache = query.cache /\ query'.classes = query.classes
      /\ query'.runs = <<row>> \o query.runs /\ query'.frames = Append(query.frames, frame)
      /\ Len(query.frames) < MaxFrames
  BY DEF benchmarks!Created, benchmarks!Publish, BenchmarkTypes
<1> HIDE DEF row, frame
<1>4. query'.runs \in Seq(BenchmarkRuns)
  BY <1>1, <1>3 DEF BenchmarkTypes
<1> QED
  BY <1>2, <1>3, <1>4, BenchmarkPublishes

LEMMA BenchmarkDeleted ==
  ASSUME BenchmarkTypes, NEW n \in benchmarks!Named(query.runs), benchmarks!Deleted(n), UNCHANGED ui,
         \A c \in calls' : KeyedCall(c)
  PROVE  BenchmarkTypes'
<1> DEFINE row == benchmarks!Row(n, "Pending")
           frame == [deleted |-> TRUE, run |-> row]
           at == benchmarks!Position(query.runs, n)
<1>1. row \in BenchmarkRuns
  BY BenchmarkRunsTyped DEF benchmarks!Row, BenchmarkRuns, benchmarks!Phases
<1>2. frame \in [deleted : BOOLEAN, run : BenchmarkRuns]
  BY <1>1
<1>3. /\ DOMAIN query' = DOMAIN query /\ query'.cache = query.cache /\ query'.classes = query.classes
      /\ query'.runs = benchmarks!RemoveAt(query.runs, at) /\ query'.frames = Append(query.frames, frame)
      /\ Len(query.frames) < MaxFrames
  BY DEF benchmarks!Deleted, benchmarks!Publish, BenchmarkTypes
<1>4. at \in DOMAIN query.runs
  BY DEF benchmarks!Position, benchmarks!Named
<1> HIDE DEF row, frame, at
<1>5. query'.runs \in Seq(BenchmarkRuns)
  BY <1>3, <1>4, BenchmarkRemoved DEF BenchmarkTypes
<1> QED
  BY <1>2, <1>3, <1>5, BenchmarkPublishes

\* A class is chosen, and nothing else.
LEMMA PreselectedKeeps ==
  ASSUME NEW s
  PROVE  /\ DOMAIN benchmarks!Preselected(s) = DOMAIN s
         /\ benchmarks!Preselected(s).expanded = s.expanded
         /\ benchmarks!Preselected(s).deleteBench = s.deleteBench
BY DEF benchmarks!Preselected

LEMMA BenchmarksTyped ==
  /\ (benchmarks!BenchmarksInit => BenchmarkTypes)
  /\ (BenchmarkTypes /\ [benchmarks!BenchmarksNext]_(benchmarks!benchmarksVars) => BenchmarkTypes')
  /\ (BenchmarkTypes => benchmarks!TypeOK)
<1>1. benchmarks!BenchmarksInit => BenchmarkTypes

  <2> SUFFICES ASSUME benchmarks!BenchmarksInit PROVE BenchmarkTypes
    OBVIOUS
  <2>1. <<>> \in Seq({}) /\ KeyedEntries({}) /\ MaxFrames \in Nat
    BY BoundsAreNumbers DEF KeyedEntries
  <2>2. Keyed(<<>>)
    BY <2>1 DEF Keyed
  <2>3. Len(<<>>) <= MaxFrames
    BY <2>1
  <2>4. /\ {"runs", "named", "frames", "cache", "classes"} \subseteq DOMAIN query
        /\ query.runs = <<>> /\ query.frames = <<>> /\ query.cache = <<>> /\ query.classes \subseteq Classes
    BY DEF benchmarks!BenchmarksInit
  <2>5. /\ {"visit", "open", "cursor", "expanded", "deleteBench", "storageClass", "retain", "confirmed"} \subseteq DOMAIN ui
        /\ {ui.expanded, ui.deleteBench} \subseteq benchmarks!Names \cup {None}
    BY DEF benchmarks!BenchmarksInit
  <2>6. /\ query.runs \in Seq(BenchmarkRuns) /\ query.frames \in Seq([deleted : BOOLEAN, run : BenchmarkRuns])
        /\ Len(query.frames) <= MaxFrames /\ Keyed(query.cache)
    BY <2>2, <2>3, <2>4
  <2>7. \A c \in calls : KeyedCall(c)
    BY DEF benchmarks!BenchmarksInit
  <2> QED
    BY <2>4, <2>5, <2>6, <2>7 DEF BenchmarkTypes
<1>2. ASSUME BenchmarkTypes, benchmarks!BenchmarksNext
      PROVE  BenchmarkTypes'
  <2>1. ASSUME NEW n \in benchmarks!Names, benchmarks!OtherCreates(n)
        PROVE  BenchmarkTypes'
    BY <1>2, <2>1, BenchmarkCreated DEF benchmarks!OtherCreates, BenchmarkTypes
  <2>2. ASSUME NEW i \in DOMAIN query.runs, benchmarks!Runs(i)
        PROVE  BenchmarkTypes'
    <3> DEFINE row == benchmarks!Row(query.runs[i].name, "Ended")
               frame == [deleted |-> FALSE, run |-> row]
    <3>1. query.runs[i] \in BenchmarkRuns
      BY <1>2, BenchmarkRunsTyped
    <3>2. row \in BenchmarkRuns /\ [query.runs[i] EXCEPT !.phase = "Ended"] \in BenchmarkRuns
      BY <3>1 DEF benchmarks!Row, BenchmarkRuns, benchmarks!Phases
    <3>3. frame \in [deleted : BOOLEAN, run : BenchmarkRuns]
      BY <3>2
    <3>4. /\ DOMAIN query' = DOMAIN query /\ query'.cache = query.cache /\ query'.classes = query.classes
          /\ query'.runs = [query.runs EXCEPT ![i].phase = "Ended"] /\ query'.frames = Append(query.frames, frame)
          /\ Len(query.frames) < MaxFrames
      BY <1>2, <2>2 DEF benchmarks!Runs, benchmarks!Becomes, benchmarks!Publish, BenchmarkTypes
    <3> HIDE DEF row, frame
    <3>5. query'.runs \in Seq(BenchmarkRuns)
      BY <1>2, <3>2, <3>4 DEF BenchmarkTypes
    <3> QED
      BY <1>2, <2>2, <3>3, <3>4, <3>5, BenchmarkPublishes DEF benchmarks!Runs, BenchmarkTypes
  <2>3. ASSUME NEW n \in benchmarks!Names, benchmarks!OtherDeletes(n)
        PROVE  BenchmarkTypes'
    BY <1>2, <2>3, BenchmarkDeleted DEF benchmarks!OtherDeletes, BenchmarkTypes
  <2>4. CASE benchmarks!FrameArrives
    <3> DEFINE frame == Head(query.frames)
               lists == benchmarks!ListsWritten(frame)
    <3>1. /\ query.frames # <<>> /\ DOMAIN query' = DOMAIN query /\ query'.frames = Tail(query.frames)
          /\ query'.runs = query.runs /\ query'.classes = query.classes /\ UNCHANGED <<ui, calls>>
          /\ \/ query'.cache = lists
             \/ query'.cache = benchmarks!EntryWritten(frame, lists)
      BY <1>2, <2>4 DEF benchmarks!FrameArrives, BenchmarkTypes
    <3>2. query'.frames \in Seq([deleted : BOOLEAN, run : BenchmarkRuns]) /\ Len(query'.frames) <= MaxFrames
      <4>1. Len(query.frames) \in Nat /\ MaxFrames \in Nat /\ Len(query'.frames) = Len(query.frames) - 1
            /\ query'.frames \in Seq([deleted : BOOLEAN, run : BenchmarkRuns])
        BY <1>2, <3>1, BoundsAreNumbers DEF BenchmarkTypes
      <4> QED
        BY <1>2, <4>1 DEF BenchmarkTypes
    <3>3. Keyed(lists)
      <4>1. DOMAIN lists = DOMAIN query.cache /\ lists = [i \in DOMAIN lists |-> lists[i]]
        BY DEF benchmarks!ListsWritten
      <4>2. ASSUME NEW i \in DOMAIN query.cache
            PROVE  "key" \in DOMAIN lists[i] /\ lists[i].key.kind \in BenchmarkKeys
        <5>1. "key" \in DOMAIN query.cache[i] /\ query.cache[i].key.kind \in BenchmarkKeys
          BY <1>2, KeyedAt DEF BenchmarkTypes
        <5>2. \/ lists[i] = query.cache[i]
              \/ lists[i] = [query.cache[i] EXCEPT !.data = benchmarks!Applied(frame, @)]
          BY DEF benchmarks!ListsWritten
        <5> HIDE DEF lists
        <5> QED
          BY <5>1, <5>2
      <4> HIDE DEF lists
      <4> QED
        BY <1>2, <4>1, <4>2, KeysWritten DEF BenchmarkTypes
    <3> HIDE DEF lists, frame
    <3>4. Keyed(benchmarks!EntryWritten(frame, lists))
      <4>1. benchmarks!Entry(frame.run.name).kind \in BenchmarkKeys
        BY DEF benchmarks!Entry, BenchmarkKeys
      <4> QED
        BY <3>3, <4>1, KeyPut, KeyDropped DEF benchmarks!EntryWritten
    <3>5. Keyed(query'.cache)
      BY <3>1, <3>3, <3>4
    <3> QED
      BY <1>2, <3>1, <3>2, <3>5 DEF BenchmarkTypes, Keyed, KeyedEntries, KeyedCall
  <2>5. CASE benchmarks!Poll
    BY <1>2, <2>5, BenchmarkShows, AskedKeyed DEF benchmarks!Poll, BenchmarkTypes
  <2>6. ASSUME NEW c \in calls, benchmarks!ServerReads(c)
        PROVE  BenchmarkTypes'
    <3>1. PICK data : calls' = (calls \ {c}) \cup {[c EXCEPT !.read = TRUE, !.data = data]}
      BY <2>6 DEF benchmarks!ServerReads
    <3>2. KeyedCall(c) /\ c.op = "fetch"
      BY <1>2, <2>6 DEF BenchmarkTypes, benchmarks!ServerReads
    <3>3. KeyedCall([c EXCEPT !.read = TRUE, !.data = data])
      BY <3>2 DEF KeyedCall
    <3>4. \A d \in calls' : KeyedCall(d)
      BY <1>2, <3>1, <3>3 DEF BenchmarkTypes
    <3> QED
      BY <1>2, <2>6, <3>4, BenchmarkShows DEF benchmarks!ServerReads, BenchmarkTypes
  <2>7. ASSUME NEW c \in calls, benchmarks!FetchAnswered(c)
        PROVE  BenchmarkTypes'
    <3>1. c.key.kind \in BenchmarkKeys
      BY <1>2, <2>7 DEF BenchmarkTypes, KeyedCall, benchmarks!FetchAnswered
    <3>2. \A d \in calls' : KeyedCall(d)
      BY <1>2, <2>7 DEF BenchmarkTypes, benchmarks!FetchAnswered
    <3>3. Keyed(benchmarks!Put(query.cache, c.key, c.data))
      BY <1>2, <3>1, KeyPut DEF BenchmarkTypes
    <3>4. /\ DOMAIN query' = DOMAIN query /\ query'.runs = query.runs /\ query'.frames = query.frames
          /\ query'.classes = query.classes /\ UNCHANGED ui
          /\ query'.cache \in {query.cache, benchmarks!Put(query.cache, c.key, c.data)}
      BY <1>2, <2>7 DEF BenchmarkTypes, benchmarks!FetchAnswered
    <3>5. Keyed(query'.cache)
      BY <1>2, <3>3, <3>4 DEF BenchmarkTypes
    <3> QED
      BY <1>2, <3>2, <3>4, <3>5 DEF BenchmarkTypes, Keyed, KeyedEntries, KeyedCall
  <2>8. ASSUME NEW i \in DOMAIN query.cache, benchmarks!Forget(query.cache[i].key)
        PROVE  BenchmarkTypes'
    <3> DEFINE key == query.cache[i].key
    <3>1. /\ DOMAIN query' = DOMAIN query /\ query'.runs = query.runs /\ query'.frames = query.frames
          /\ query'.classes = query.classes /\ UNCHANGED <<ui, calls>>
          /\ query'.cache = benchmarks!Dropped(query.cache, key)
      BY <1>2, <2>8 DEF BenchmarkTypes, benchmarks!Forget
    <3> HIDE DEF key
    <3>2. Keyed(query'.cache)
      BY <1>2, <3>1, KeyDropped DEF BenchmarkTypes
    <3> QED
      BY <1>2, <3>1, <3>2 DEF BenchmarkTypes, Keyed, KeyedEntries, KeyedCall
  <2>9. CASE benchmarks!Open
    BY <1>2, <2>9, BenchmarkGoes, PreselectedKeeps DEF benchmarks!Open, BenchmarkTypes
  <2>10. CASE benchmarks!Leave
    BY <1>2, <2>10, BenchmarkGoes DEF benchmarks!Leave, BenchmarkTypes
  <2>11. CASE benchmarks!NextPage
    BY <1>2, <2>11, BenchmarkGoes DEF benchmarks!NextPage, BenchmarkTypes
  <2>12. CASE benchmarks!FirstPage
    BY <1>2, <2>12, BenchmarkGoes DEF benchmarks!FirstPage, BenchmarkTypes
  <2>13. ASSUME NEW n \in benchmarks!Names, benchmarks!onToggle(n)
         PROVE  BenchmarkTypes'
    BY <1>2, <2>13, BenchmarkGoes DEF benchmarks!onToggle, BenchmarkTypes
  <2>14. ASSUME NEW class \in Classes \cup {None}, benchmarks!EnterClass(class)
         PROVE  BenchmarkTypes'
    BY <1>2, <2>14, BenchmarkShows, PreselectedKeeps DEF benchmarks!EnterClass, benchmarks!Form,
       BenchmarkTypes
  <2>15. ASSUME NEW retain \in BOOLEAN, benchmarks!EnterRetain(retain)
         PROVE  BenchmarkTypes'
    BY <1>2, <2>15, BenchmarkShows DEF benchmarks!EnterRetain, benchmarks!Form, BenchmarkTypes
  <2>16. ASSUME NEW confirmed \in BOOLEAN, benchmarks!EnterConfirmation(confirmed)
         PROVE  BenchmarkTypes'
    BY <1>2, <2>16, BenchmarkShows DEF benchmarks!EnterConfirmation, benchmarks!Form, BenchmarkTypes
  <2>17. ASSUME NEW classes \in {{}} \cup {{class} : class \in Classes}, benchmarks!ClassesChange(classes)
         PROVE  BenchmarkTypes'
    BY <1>2, <2>17 DEF benchmarks!ClassesChange, BenchmarkTypes, Keyed, KeyedEntries, KeyedCall
  <2>18. CASE benchmarks!Run
    <3> DEFINE c == [op |-> "create", done |-> FALSE, class |-> ui.storageClass, retain |-> ui.retain,
                     retainConfirmation |-> ui.retain /\ ui.confirmed]
    <3>1. calls' = calls \cup {c} /\ UNCHANGED <<query, ui>>
      BY <2>18 DEF benchmarks!Run
    <3>2. KeyedCall(c)
      BY DEF KeyedCall
    <3> HIDE DEF c
    <3> QED
      BY <1>2, <3>1, <3>2, BenchmarkShows DEF BenchmarkTypes
  <2>19. ASSUME NEW c \in calls, NEW n \in benchmarks!Names, benchmarks!RunCreated(c, n)
         PROVE  BenchmarkTypes'
    <3>1. KeyedCall([c EXCEPT !.done = TRUE])
      BY <1>2, <2>19 DEF BenchmarkTypes, KeyedCall, benchmarks!RunCreated
    <3>2. \A d \in calls' : KeyedCall(d)
      BY <1>2, <2>19, <3>1 DEF BenchmarkTypes, benchmarks!RunCreated
    <3> QED
      BY <1>2, <2>19, <3>2, BenchmarkCreated DEF benchmarks!RunCreated
  <2>20. ASSUME NEW c \in calls, benchmarks!RunAnswered(c)
         PROVE  BenchmarkTypes'
    <3>1. \A d \in calls' : KeyedCall(d)
      BY <1>2, <2>20, AskedKeyed DEF benchmarks!RunAnswered, BenchmarkTypes
    <3> QED
      BY <1>2, <2>20, <3>1, BenchmarkShows DEF benchmarks!RunAnswered, BenchmarkTypes
  <2>21. ASSUME NEW n \in benchmarks!Names, benchmarks!OpenDelete(n)
         PROVE  BenchmarkTypes'
    BY <1>2, <2>21, BenchmarkShows DEF benchmarks!OpenDelete, benchmarks!Form, BenchmarkTypes
  <2>22. CASE benchmarks!CloseDelete
    BY <1>2, <2>22, BenchmarkShows DEF benchmarks!CloseDelete, benchmarks!Form, BenchmarkTypes
  <2>23. CASE benchmarks!ConfirmDelete
    <3> DEFINE c == [op |-> "delete", name |-> ui.deleteBench, done |-> FALSE]
    <3>1. calls' = calls \cup {c} /\ UNCHANGED <<query, ui>>
      BY <2>23 DEF benchmarks!ConfirmDelete
    <3>2. KeyedCall(c)
      BY DEF KeyedCall
    <3> HIDE DEF c
    <3> QED
      BY <1>2, <3>1, <3>2, BenchmarkShows DEF BenchmarkTypes
  <2>24. ASSUME NEW c \in calls, benchmarks!RunDeleted(c)
         PROVE  BenchmarkTypes'
    <3>1. KeyedCall([c EXCEPT !.done = TRUE])
      BY <1>2, <2>24 DEF BenchmarkTypes, KeyedCall, benchmarks!RunDeleted
    <3>2. \A d \in calls' : KeyedCall(d)
      BY <1>2, <2>24, <3>1 DEF BenchmarkTypes, benchmarks!RunDeleted
    <3> QED
      BY <1>2, <2>24, <3>2, BenchmarkDeleted DEF benchmarks!RunDeleted
  <2>25. ASSUME NEW c \in calls, benchmarks!DeleteAnswered(c)
         PROVE  BenchmarkTypes'
    <3>1. \A d \in calls' : KeyedCall(d)
      BY <1>2, <2>25, AskedKeyed DEF benchmarks!DeleteAnswered, BenchmarkTypes
    <3> QED
      BY <1>2, <2>25, <3>1, BenchmarkShows DEF benchmarks!DeleteAnswered, BenchmarkTypes
  <2> QED
    BY <1>2, <2>1, <2>2, <2>3, <2>4, <2>5, <2>6, <2>7, <2>8, <2>9, <2>10, <2>11, <2>12, <2>13, <2>14, <2>15,
       <2>16, <2>17, <2>18, <2>19, <2>20, <2>21, <2>22, <2>23, <2>24, <2>25 DEF
       benchmarks!BenchmarksNext
<1>3. BenchmarkTypes /\ UNCHANGED benchmarks!benchmarksVars => BenchmarkTypes'
  BY DEF benchmarks!benchmarksVars, BenchmarkTypes, Keyed, KeyedEntries, KeyedCall
<1>4. BenchmarkTypes => benchmarks!TypeOK

  BY BenchmarkRunsTyped, KeyedAt DEF BenchmarkTypes, benchmarks!TypeOK, BenchmarkRuns, BenchmarkKeys
<1> QED
  BY <1>1, <1>2, <1>3, <1>4

-----------------------------------------------------------------------------
(* MetricsPages                                                              *)

\* A series has the label of a node, and one that is of no volume is of gauges.
Labelled(key, s) ==
  /\ "node" \in DOMAIN s /\ s.node \in NamesAt("metrics") /\ Len(s.points) <= Window
  /\ key \notin Volumes => \A i \in DOMAIN s.points : s.points[i].of \in Gauges

Charted ==
  /\ {"page", "node", "volumes", "series", "capacity", "health"} \subseteq DOMAIN ui
  /\ ui.page \in metrics!Pages /\ ui.health \in {None, TRUE, FALSE} /\ ui.capacity \subseteq Gauges

SeriesTypes ==
  /\ query.ok <= query.now /\ query.now <= MaxTimeAt("metrics") /\ query.lastErr \in BOOLEAN
  /\ \A key \in DOMAIN query.series : Labelled(key, query.series[key])

MetricsTypes == SeriesInv /\ SeriesTypes /\ Charted

LEMMA RingWithin ==
  ASSUME NEW points \in Seq(Sample)
  PROVE  /\ metrics!Ring(points) \in Seq(Sample) /\ Len(metrics!Ring(points)) <= Window
         /\ \A i \in DOMAIN metrics!Ring(points) : \E j \in DOMAIN points : metrics!Ring(points)[i] = points[j]
<1>1. CASE Len(points) > Window
  <2> DEFINE m == Len(points) - Window + 1
             ring == SubSeq(points, m, Len(points))
  <2>1. m \in Int /\ Len(points) \in Int /\ m >= 1 /\ m <= Len(points) /\ Len(points) - m + 1 <= Window
    BY <1>1, SizesAreSome
  <2>2. \A i \in m .. Len(points) : i \in DOMAIN points /\ points[i] \in Sample
    BY <2>1
  <2> HIDE DEF m
  <2>3. ring \in Seq(Sample) /\ Len(ring) = Len(points) - m + 1
        /\ \A i \in 1 .. Len(points) - m + 1 : ring[i] = points[m + i - 1]
    BY <2>1, <2>2, SubSeqProperties
  <2> HIDE DEF ring
  <2>4. \A i \in DOMAIN ring : m + i - 1 \in DOMAIN points /\ ring[i] = points[m + i - 1]
    <3>1. DOMAIN ring = 1 .. Len(points) - m + 1 /\ DOMAIN points = 1 .. Len(points)
      BY <2>1, <2>3
    <3> QED
      BY <2>1, <2>3, <3>1
  <2>5. metrics!Ring(points) = ring
    BY <1>1 DEF metrics!Ring, ring, m
  <2>6. Len(ring) <= Window
    BY <2>1, <2>3, SizesAreSome
  <2> QED
    BY <2>3, <2>4, <2>5, <2>6
<1>2. CASE ~(Len(points) > Window)
  BY <1>2, SizesAreSome DEF metrics!Ring
<1> QED
  BY <1>1, <1>2

LEMMA AppendedLabelled ==
  ASSUME MetricsTypes, NEW key \in DOMAIN metrics!Appended
  PROVE  Labelled(key, metrics!Appended[key])
<1> DEFINE new == metrics!Sampled(key)
<1>1. SeriesInv /\ SeriesTypes
  BY DEF MetricsTypes
<1>2. new \in Seq(Sample) /\ (key \notin Volumes => \A i \in DOMAIN new : new[i].of \in Gauges)
  <2>1. new \in Seq(Sample) /\ \A i \in DOMAIN new : metrics!Key(new[i].of) = key
    BY <1>1, SampledNow
  <2> HIDE DEF new
  <2>2. \A i \in DOMAIN new : new[i].of \in metrics!Things
    <3>1. \A i \in DOMAIN new : new[i] \in Sample
      BY <2>1
    <3> QED
      BY <3>1 DEF Sample
  <2> QED
    BY <2>1, <2>2 DEF metrics!Key, metrics!Things
<1> HIDE DEF new
<1>3. CASE key \in DOMAIN query.series
  <2> DEFINE old == query.series[key].points
             both == old \o new
  <2>1. /\ "points" \in DOMAIN query.series[key] /\ old \in Seq(Sample) /\ Labelled(key, query.series[key])
        /\ (key \notin Volumes => \A i \in DOMAIN old : old[i].of \in Gauges)
    BY <1>1, <1>3 DEF SeriesInv, SeriesTypes, InOrder, Labelled
  <2> HIDE DEF old
  <2>2. both \in Seq(Sample) /\ (key \notin Volumes => \A i \in DOMAIN both : both[i].of \in Gauges)
    <3>1. /\ both \in Seq(Sample) /\ Len(both) = Len(old) + Len(new)
          /\ \A i \in 1 .. Len(old) + Len(new) : both[i] = IF i <= Len(old) THEN old[i] ELSE new[i - Len(old)]
      BY <1>2, <2>1, ConcatProperties
    <3> HIDE DEF both
    <3>2. ASSUME NEW i \in DOMAIN both
          PROVE  (i \in DOMAIN old /\ both[i] = old[i]) \/ (i - Len(old) \in DOMAIN new /\ both[i] = new[i - Len(old)])
      <4>1. i \in 1 .. Len(old) + Len(new) /\ Len(old) \in Nat /\ Len(new) \in Nat
        BY <1>2, <2>1, <3>1
      <4>2. DOMAIN old = 1 .. Len(old) /\ DOMAIN new = 1 .. Len(new)
        BY <1>2, <2>1
      <4>3. CASE i <= Len(old)
        BY <3>1, <4>1, <4>2, <4>3
      <4>4. CASE i > Len(old)
        <5>1. i - Len(old) \in 1 .. Len(new)
          BY <4>1, <4>4
        <5> QED
          BY <3>1, <4>1, <4>2, <4>4, <5>1
      <4> QED
        BY <4>1, <4>3, <4>4
    <3> QED
      BY <1>2, <2>1, <3>1, <3>2
  <2> HIDE DEF both
  <2> DEFINE ring == metrics!Ring(both)
  <2>3. Len(ring) <= Window /\ (key \notin Volumes => \A i \in DOMAIN ring : ring[i].of \in Gauges)
    BY <2>2, RingWithin
  <2>4. metrics!Appended[key] = [query.series[key] EXCEPT !.points = ring]
    BY <1>3 DEF metrics!Appended, both, old, new
  <2> HIDE DEF ring
  <2> QED
    BY <2>1, <2>3, <2>4 DEF Labelled
<1>4. CASE key \notin DOMAIN query.series
  <2> DEFINE ring == metrics!Ring(new)
             node == IF key \in Volumes THEN query.there[key].node ELSE key
  <2>1. Len(ring) <= Window /\ (key \notin Volumes => \A i \in DOMAIN ring : ring[i].of \in Gauges)
    BY <1>2, RingWithin
  <2>2. PICK k \in DOMAIN query.there : key = IF k \in Volumes THEN k ELSE query.there[k].node
    BY <1>4 DEF metrics!Appended, metrics!Key
  <2>3. \A j \in DOMAIN query.there : query.there[j].node \in NamesAt("metrics")
    BY <1>1 DEF SeriesInv, Reported
  <2>4. node \in NamesAt("metrics")
    BY <2>2, <2>3, VolumesAreNoNodes
  <2>5. metrics!Appended[key] = [node |-> node, points |-> ring]
    BY <1>4 DEF metrics!Appended, new
  <2> HIDE DEF ring, node
  <2> QED
    BY <2>1, <2>4, <2>5 DEF Labelled
<1> QED
  BY <1>3, <1>4

LEMMA MetricsTyped ==
  /\ (metrics!MetricsInit => MetricsTypes)
  /\ (MetricsTypes /\ [metrics!MetricsNext]_(metrics!metricsVars) => MetricsTypes')
  /\ (MetricsTypes => metrics!TypeOK)
<1>1. metrics!MetricsInit => MetricsTypes
  <2> SUFFICES ASSUME metrics!MetricsInit PROVE MetricsTypes
    OBVIOUS
  <2>1. SeriesInv
    BY GhostsDroppedInductive
  <2>2. SeriesTypes
    BY BoundsAreNumbers DEF metrics!MetricsInit, SeriesTypes
  <2>3. Charted
    BY DEF metrics!MetricsInit, Charted
  <2> QED
    BY <2>1, <2>2, <2>3 DEF MetricsTypes
<1>2. ASSUME MetricsTypes, metrics!MetricsNext
      PROVE  MetricsTypes'
  <2>1. SeriesInv /\ SeriesInv' /\ SeriesTypes /\ Charted
    BY <1>2, SeriesStep DEF MetricsTypes
  <2>2. ASSUME UNCHANGED ui, DOMAIN query' = DOMAIN query, query'.ok = query.ok, query'.now = query.now,
               query'.lastErr = query.lastErr, query'.series = query.series
        PROVE  MetricsTypes'
    BY <2>1, <2>2 DEF MetricsTypes, SeriesTypes, Charted
  <2>3. ASSUME NEW v \in Volumes, NEW n \in NamesAt("metrics"), metrics!Moves(v, n)
        PROVE  MetricsTypes'
    <3>1. UNCHANGED ui /\ \E there : query' = [query EXCEPT !.there = there]
      BY <2>3 DEF metrics!Moves
    <3> QED
      BY <2>1, <2>2, <3>1 DEF SeriesInv
  <2>4. ASSUME NEW v \in Volumes, metrics!Degrades(v)
        PROVE  MetricsTypes'
    <3>1. UNCHANGED ui /\ \E there : query' = [query EXCEPT !.there = there]
      BY <2>4 DEF metrics!Degrades
    <3> QED
      BY <2>1, <2>2, <3>1 DEF SeriesInv
  <2>5. ASSUME NEW k \in metrics!Things, metrics!Removed(k)
        PROVE  MetricsTypes'
    <3>1. UNCHANGED ui /\ \E there : query' = [query EXCEPT !.there = there]
      BY <2>5 DEF metrics!Removed
    <3> QED
      BY <2>1, <2>2, <3>1 DEF SeriesInv
  <2>6. CASE metrics!Scrape
    <3> DEFINE after == metrics!Pruned(metrics!Appended)
    <3>1. query' = [[[[query EXCEPT !.now = query.now + 1] EXCEPT !.lastErr = FALSE]
                        EXCEPT !.ok = query.now + 1] EXCEPT !.series = after]
      BY <2>1, <2>6 DEF metrics!Scrape, SeriesInv
    <3>2. \A key \in DOMAIN after : Labelled(key, after[key])
      <4>1. \A key \in DOMAIN after : key \in DOMAIN metrics!Appended /\ after[key] = metrics!Appended[key]
        BY DEF metrics!Pruned
      <4> QED
        BY <1>2, <4>1, AppendedLabelled
    <3> HIDE DEF after
    <3>3. query'.now = query.now + 1 /\ query'.ok = query.now + 1 /\ query'.series = after /\ query'.lastErr = FALSE
      BY <2>1, <3>1 DEF SeriesInv
    <3>4. query.now < MaxTimeAt("metrics") /\ query.now \in Nat /\ UNCHANGED ui
      BY <2>1, <2>6 DEF metrics!Scrape, SeriesInv
    <3>5. query'.ok <= query'.now /\ query'.now <= MaxTimeAt("metrics")
      BY <3>3, <3>4, BoundsAreNumbers
    <3>6. SeriesTypes'
      BY <3>2, <3>3, <3>5 DEF SeriesTypes, Labelled
    <3> QED
      BY <2>1, <3>4, <3>6 DEF MetricsTypes, Charted
  <2>7. CASE metrics!ScrapeFails
    <3>1. query' = [[query EXCEPT !.now = query.now + 1] EXCEPT !.lastErr = TRUE]
      BY <2>1, <2>7 DEF metrics!ScrapeFails, SeriesInv
    <3>2. query'.now = query.now + 1 /\ query'.ok = query.ok /\ query'.series = query.series /\ query'.lastErr = TRUE
      BY <2>1, <3>1 DEF SeriesInv
    <3>3. query.now < MaxTimeAt("metrics") /\ query.now \in Nat /\ query.ok \in Nat /\ UNCHANGED ui
      BY <2>1, <2>7 DEF metrics!ScrapeFails, SeriesInv
    <3>4. query'.ok <= query'.now /\ query'.now <= MaxTimeAt("metrics")
      BY <2>1, <3>2, <3>3, BoundsAreNumbers DEF SeriesTypes
    <3>5. SeriesTypes'
      BY <2>1, <3>2, <3>4 DEF SeriesTypes, Labelled
    <3> QED
      BY <2>1, <3>3, <3>5 DEF MetricsTypes, Charted
  <2>8. ASSUME UNCHANGED query, Charted'
        PROVE  MetricsTypes'
    BY <2>1, <2>8 DEF MetricsTypes, SeriesTypes, Labelled
  <2>9. CASE metrics!VolumesFetched
    BY <2>1, <2>8, <2>9 DEF metrics!VolumesFetched, Charted
  <2>10. CASE metrics!SeriesFetched
    <3> DEFINE capacity == {sample.of : sample \in UNION {metrics!latest(query.series, n) : n \in NamesAt("metrics")}}
    <3>1. ui' = [[ui EXCEPT !.series = query.series] EXCEPT !.capacity = capacity] /\ UNCHANGED query
      BY <2>1, <2>10 DEF metrics!SeriesFetched, Charted
    <3>2. \A n \in NamesAt("metrics") : \A sample \in metrics!latest(query.series, n) : sample.of \in Gauges
      <4> SUFFICES ASSUME NEW n \in NamesAt("metrics"), n \in DOMAIN query.series
                   PROVE  query.series[n].points[Len(query.series[n].points)].of \in Gauges
        BY DEF metrics!latest
      <4> DEFINE points == query.series[n].points
      <4>1. points \in Seq(Sample) /\ points # <<>>
        BY <2>1 DEF SeriesInv, InOrder
      <4>2. \A i \in DOMAIN points : points[i].of \in Gauges
        BY <2>1, VolumesAreNoNodes DEF SeriesTypes, Labelled
      <4> HIDE DEF points
      <4>3. Len(points) \in DOMAIN points
        BY <4>1
      <4> QED
        BY <4>2, <4>3 DEF points
    <3>3. capacity \subseteq Gauges
      BY <3>2
    <3> HIDE DEF capacity
    <3> QED
      BY <2>1, <2>8, <3>1, <3>3 DEF Charted
  <2>11. CASE metrics!HealthFetched
    BY <2>1, <2>8, <2>11 DEF metrics!HealthFetched, Charted, SeriesTypes
  <2> QED
    BY <1>2, <2>3, <2>4, <2>5, <2>6, <2>7, <2>9, <2>10, <2>11 DEF metrics!MetricsNext
<1>3. MetricsTypes /\ UNCHANGED metrics!metricsVars => MetricsTypes'
  <2>1. ASSUME MetricsTypes, UNCHANGED metrics!metricsVars
        PROVE  SeriesInv' /\ SeriesTypes' /\ Charted'
    <3>1. SeriesInv'
      BY <2>1, GhostsDroppedInductive DEF MetricsTypes
    <3>2. UNCHANGED <<query, ui>>
      BY <2>1 DEF metrics!metricsVars
    <3> QED
      BY <2>1, <3>1, <3>2 DEF MetricsTypes, SeriesTypes, Labelled, Charted
  <2> QED
    BY <2>1 DEF MetricsTypes
<1>4. MetricsTypes => metrics!TypeOK
  BY DEF MetricsTypes, SeriesInv, Reported, SeriesTypes, Labelled, Charted, metrics!TypeOK
<1> QED
  BY <1>1, <1>2, <1>3, <1>4

-----------------------------------------------------------------------------
(* CephDashboard                                                             *)

CephTypes ==
  /\ {"provider", "now"} \subseteq DOMAIN query
  /\ {"kind", "credential", "credentialError", "revealing", "copied"} \subseteq DOMAIN ui
  /\ \A c \in calls :
       /\ "op" \in DOMAIN c
       /\ c.op = "copy" => c.of \in 0..MaxTimeAt("ceph")
       /\ c.op \in {"hide", "untick"} => c.at \in Nat
  /\ ceph!TypeOK

\* A timer of this time or later is added, others are dropped.
LEMMA CephKept ==
  ASSUME CephTypes, UNCHANGED query, DOMAIN ui' = DOMAIN ui, ui'.kind = ui.kind,
         ui'.credential \in {None} \cup 0..MaxTimeAt("ceph"), ui'.copied \in {None} \cup 0..MaxTimeAt("ceph"),
         NEW new, calls' \subseteq calls \cup {new},
         "op" \in DOMAIN new /\ (new.op = "copy" => new.of \in 0..MaxTimeAt("ceph"))
           /\ (new.op \in {"hide", "untick"} => new.at \in Nat /\ new.at >= query.now)
  PROVE  CephTypes'
BY DEF CephTypes, ceph!TypeOK, ceph!Timers

LEMMA CephShown ==
  ASSUME CephTypes, UNCHANGED query, DOMAIN ui' = DOMAIN ui, ui'.kind = ui.kind,
         ui'.credential \in {None} \cup 0..MaxTimeAt("ceph"), ui'.copied \in {None} \cup 0..MaxTimeAt("ceph"),
         calls' \subseteq calls
  PROVE  CephTypes'
BY DEF CephTypes, ceph!TypeOK, ceph!Timers

LEMMA CephTyped ==
  /\ (ceph!CephInit => CephTypes)
  /\ (CephTypes /\ [ceph!CephNext]_(ceph!cephVars) => CephTypes')
  /\ (CephTypes => ceph!TypeOK)
<1> USE DEF ceph!TypeOK, ceph!Timers
<1>1. ceph!CephInit => CephTypes
  BY BoundsAreNumbers DEF ceph!CephInit, CephTypes
<1>2. ASSUME CephTypes, ceph!CephNext
      PROVE  CephTypes'
  <2>1. CASE ceph!revealCredential
    <3>1. CASE ui' = [[ui EXCEPT !.credential = None] EXCEPT !.copied = None] /\ calls' = ceph!Rescheduled(None) /\ UNCHANGED query
      BY <1>2, <3>1, CephShown, SMTT(40) DEF ceph!Rescheduled, CephTypes
    <3>2. CASE ui' = [[ui EXCEPT !.credentialError = FALSE] EXCEPT !.revealing = TRUE] /\ UNCHANGED query
               /\ calls' = calls \cup {[op |-> "reveal"]}
      <4> DEFINE c == [op |-> "reveal"]
      <4>1. "op" \in DOMAIN c /\ c.op = "reveal" /\ calls' = calls \cup {c}
        BY <3>2
      <4> HIDE DEF c
      <4> QED
        BY <1>2, <3>2, <4>1, CephKept DEF CephTypes
    <3> QED
      BY <1>2, <2>1, <3>1, <3>2 DEF ceph!revealCredential, CephTypes
  <2>2. ASSUME NEW c \in calls, ceph!RevealAnswered(c)
        PROVE  CephTypes'
    <3>1. CASE ui' = [[ui EXCEPT !.credential = query.now] EXCEPT !.revealing = FALSE] /\ UNCHANGED query
               /\ calls' = ceph!Rescheduled(query.now) \ {c}
      <4>1. \E t : t = ceph!Hides(query.now)
        OBVIOUS
      <4>2. PICK t : t = ceph!Hides(query.now)
        BY <4>1
      <4>3. "op" \in DOMAIN t /\ t.op = "hide" /\ t.at \in Nat /\ t.at >= query.now
        BY <1>2, <4>2, HidesLater, BoundsAreNumbers, TimesAreNumbers DEF CephTypes
      <4>4. calls' \subseteq calls \cup {t}
        BY <3>1, <4>2 DEF ceph!Rescheduled
      <4>5. DOMAIN ui' = DOMAIN ui /\ ui'.kind = ui.kind /\ ui'.credential \in 0..MaxTimeAt("ceph")
            /\ ui'.copied = ui.copied
        BY <1>2, <3>1 DEF CephTypes
      <4>6. UNCHANGED query /\ ui.copied \in {None} \cup 0..MaxTimeAt("ceph")
        BY <1>2, <3>1 DEF CephTypes
      <4> QED
        BY ONLY <1>2, <4>3, <4>4, <4>5, <4>6, CephKept
    <3>2. CASE ui' = [[ui EXCEPT !.credentialError = TRUE] EXCEPT !.revealing = FALSE] /\ UNCHANGED query
               /\ calls' = calls \ {c}
      BY <1>2, <3>2, CephShown DEF CephTypes
    <3> QED
      BY <1>2, <2>2, <3>1, <3>2 DEF ceph!RevealAnswered, CephTypes
  <2>3. CASE ceph!copyCredential
    <3> DEFINE c == [op |-> "copy", of |-> ui.credential]
    <3>1. "op" \in DOMAIN c /\ c.op = "copy" /\ c.of = ui.credential /\ calls' = calls \cup {c}
      BY <2>3 DEF ceph!copyCredential
    <3> HIDE DEF c
    <3> QED
      BY <1>2, <2>3, <3>1, CephKept DEF ceph!copyCredential, ceph!canCopy, CephTypes
  <2>4. ASSUME NEW c \in calls, ceph!CopyAnswered(c)
        PROVE  CephTypes'
    <3>1. CASE ui' = [ui EXCEPT !.copied = c.of] /\ calls' = (calls \ {c}) \cup {[op |-> "untick", at |-> query.now + TickAfter]}
               /\ UNCHANGED query
      <4> DEFINE t == [op |-> "untick", at |-> query.now + TickAfter]
      <4>1. "op" \in DOMAIN t /\ t.op = "untick" /\ t.at = query.now + TickAfter /\ calls' \subseteq calls \cup {t}
        BY <3>1
      <4> HIDE DEF t
      <4>2. t.at \in Nat /\ t.at >= query.now
        BY <1>2, <4>1, TimesAreNumbers, BoundsAreNumbers DEF CephTypes
      <4> QED
        BY <1>2, <2>4, <3>1, <4>1, <4>2, CephKept DEF CephTypes, ceph!CopyAnswered
    <3>2. CASE ui' = [ui EXCEPT !.credentialError = TRUE] /\ calls' = calls \ {c} /\ UNCHANGED query
      BY <1>2, <3>2, CephShown DEF CephTypes
    <3> QED
      BY <2>4, <3>1, <3>2 DEF ceph!CopyAnswered
  <2>5. ASSUME NEW c \in calls, ceph!TimerFires(c)
        PROVE  CephTypes'
    <3>1. CASE ui' = [[ui EXCEPT !.credential = None] EXCEPT !.copied = None]
      BY <1>2, <2>5, <3>1, CephShown DEF CephTypes, ceph!TimerFires
    <3>2. CASE ui' = [ui EXCEPT !.copied = None]
      BY <1>2, <2>5, <3>2, CephShown DEF CephTypes, ceph!TimerFires
    <3> QED
      BY <1>2, <2>5, <3>1, <3>2 DEF ceph!TimerFires, CephTypes
  <2>6. CASE ceph!Tick
    BY <1>2, <2>6, BoundsAreNumbers DEF ceph!Tick, CephTypes
  <2>7. ASSUME NEW p \in ListsAt("ceph"), NEW k \in CephKinds, ceph!Changes(p, k)
        PROVE  CephTypes'
    BY <1>2, <2>7 DEF ceph!Changes, CephTypes
  <2> QED
    BY <1>2, <2>1, <2>2, <2>3, <2>4, <2>5, <2>6, <2>7 DEF ceph!CephNext
<1>3. CephTypes /\ UNCHANGED ceph!cephVars => CephTypes'
  BY DEF ceph!cephVars, CephTypes
<1>4. CephTypes => ceph!TypeOK
  BY DEF CephTypes
<1> QED
  BY <1>1, <1>2, <1>3, <1>4

-----------------------------------------------------------------------------
(* ProviderWorkspace                                                         *)

PlaceTypes ==
  /\ LinksInv
  /\ query \in ListsAt("workspace") \cup {None}
  /\ calls \in {"admin", "operator", "viewer"}

LEMMA PlacesTyped ==
  /\ (workspace!WorkspaceInit => PlaceTypes)
  /\ (PlaceTypes /\ [workspace!WorkspaceNext]_(workspace!workspaceVars) => PlaceTypes')
  /\ (PlaceTypes => workspace!TypeOK)
<1>1. workspace!WorkspaceInit => PlaceTypes
  BY LinksInductive DEF workspace!WorkspaceInit, PlaceTypes
<1>2. ASSUME PlaceTypes, [workspace!WorkspaceNext]_(workspace!workspaceVars)
      PROVE  PlaceTypes'
  <2>1. LinksInv'
    BY <1>2, LinksInductive DEF PlaceTypes
  <2>2. query' \in ListsAt("workspace") \cup {None} /\ calls' = calls
    <3>1. ASSUME NEW providers \in ListsAt("workspace"), workspace!Discover(providers)
          PROVE  query' \in ListsAt("workspace") \cup {None} /\ calls' = calls
      BY <3>1 DEF workspace!Discover
    <3>2. ASSUME NEW l, workspace!GoTo(l)
          PROVE  query' \in ListsAt("workspace") \cup {None} /\ calls' = calls
      BY <1>2, <3>2 DEF workspace!GoTo, PlaceTypes
    <3>3. CASE \/ workspace!FollowItem \/ workspace!FollowLink \/ workspace!changeWorkspace \/ workspace!Support
               \/ workspace!SetProviderFilter \/ workspace!SetScope
      BY <3>2, <3>3, Zenon DEF workspace!FollowItem, workspace!FollowLink, workspace!changeWorkspace,
         workspace!Support, workspace!SetProviderFilter, workspace!SetScope
    <3>4. CASE UNCHANGED workspace!workspaceVars
      BY <1>2, <3>4 DEF workspace!workspaceVars, PlaceTypes
    <3> QED
      BY <1>2, <3>1, <3>3, <3>4 DEF workspace!WorkspaceNext
  <2> QED
    BY <1>2, <2>1, <2>2 DEF PlaceTypes
<1>3. PlaceTypes => workspace!TypeOK
  BY DEF PlaceTypes, LinksInv, Place, workspace!TypeOK
<1> QED
  BY <1>1, <1>2, <1>3

-----------------------------------------------------------------------------
(* SupportPages                                                              *)

BundleTimes ==
  /\ {"longhorn", "bundles", "fetching", "now", "timer", "readAt", "failedAt", "flippedAt", "connected", "managers"}
       \subseteq DOMAIN query
  /\ {query.now, query.timer} \subseteq Nat /\ query.timer <= query.now /\ query.now <= MaxTimeAt("support")
  /\ DOMAIN query.bundles \subseteq Bundles /\ DOMAIN query.longhorn \subseteq Bundles
  /\ query.managers \in ListsAt("support")

BundleDialogs ==
  /\ {"error", "selected"} \subseteq DOMAIN ui
  /\ ui.selected # None => ui.selected.report \in Reports
  /\ calls = {} \/ \E b \in Bundles : calls = {b}

SupportTypes == BundleTimes /\ BundleDialogs

LEMMA OneCall == \A b : support!Cardinality({}) = 0 /\ support!Cardinality({b}) = 1
<1>1. \A S : support!Cardinality(S) = Cardinality(S)
  BY DEF support!Cardinality, Cardinality
<1> QED
  BY <1>1, FS_EmptySet, FS_Singleton

LEMMA SupportTyped ==
  /\ (support!SupportInit => SupportTypes)
  /\ (SupportTypes /\ [support!SupportNext]_(support!supportVars) => SupportTypes')
  /\ (SupportTypes => support!TypeOK)
<1> USE DEF support!Changes, support!Restarted
<1>1. support!SupportInit => SupportTypes
  BY BoundsAreNumbers DEF support!SupportInit, SupportTypes, BundleTimes, BundleDialogs
<1>2. ASSUME SupportTypes, support!SupportNext
      PROVE  SupportTypes'
  <2>1. CASE support!Tick
    BY <1>2, <2>1, BoundsAreNumbers, SMTT(40) DEF support!Tick, SupportTypes, BundleTimes, BundleDialogs
  <2>2. CASE support!Refetch
    BY <1>2, <2>2 DEF support!Refetch, SupportTypes, BundleTimes, BundleDialogs
  <2>3. CASE support!Fetched
    BY <1>2, <2>3 DEF support!Fetched, SupportTypes, BundleTimes, BundleDialogs
  <2>4. CASE support!FetchFails
    BY <1>2, <2>4 DEF support!FetchFails, SupportTypes, BundleTimes, BundleDialogs
  <2>5. CASE support!ConnectedChanges
    BY <1>2, <2>5 DEF support!ConnectedChanges, SupportTypes, BundleTimes, BundleDialogs
  <2>6. ASSUME NEW b \in Bundles, support!Advances(b)
        PROVE  SupportTypes'
    BY <1>2, <2>6 DEF support!Advances, SupportTypes, BundleTimes, BundleDialogs
  <2>7. CASE support!create
    BY <1>2, <2>7 DEF support!create, SupportTypes, BundleTimes, BundleDialogs
  <2>8. ASSUME NEW b \in Bundles, support!Created(b)
        PROVE  SupportTypes'
    BY <1>2, <2>8 DEF support!Created, support!With, SupportTypes, BundleTimes, BundleDialogs
  <2>9. ASSUME NEW b \in Bundles, support!CreateFails(b)
        PROVE  SupportTypes'
    <3>1. PICK longhorn \in {query.longhorn, support!With(b)} : query' = [query EXCEPT !.longhorn = longhorn]
      BY <2>9 DEF support!CreateFails
    <3>2. DOMAIN longhorn \subseteq Bundles
      BY <1>2 DEF SupportTypes, BundleTimes, support!With
    <3>3. BundleTimes'
      BY <1>2, <3>1, <3>2 DEF SupportTypes, BundleTimes
    <3>4. BundleDialogs'
      BY <1>2, <2>9 DEF support!CreateFails, SupportTypes, BundleDialogs
    <3> QED
      BY <3>3, <3>4 DEF SupportTypes
  <2>10. ASSUME NEW list \in ListsAt("support"), support!ManagersListed(list)
         PROVE  SupportTypes'
    BY <1>2, <2>10 DEF support!ManagersListed, SupportTypes, BundleTimes, BundleDialogs
  <2>11. ASSUME NEW m \in NamesAt("support"), support!Select(m)
         PROVE  SupportTypes'
    BY <1>2, <2>11, ReportsAreListed DEF support!Select, SupportTypes, BundleTimes, BundleDialogs
  <2>12. CASE support!CloseInstances
    BY <1>2, <2>12 DEF support!CloseInstances, SupportTypes, BundleTimes, BundleDialogs
  <2> QED
    BY <1>2, <2>1, <2>2, <2>3, <2>4, <2>5, <2>6, <2>7, <2>8, <2>9, <2>10, <2>11, <2>12 DEF support!SupportNext
<1>3. SupportTypes /\ UNCHANGED support!supportVars => SupportTypes'
  BY DEF support!supportVars, SupportTypes, BundleTimes, BundleDialogs
<1>4. SupportTypes => support!TypeOK
  <2> SUFFICES ASSUME SupportTypes PROVE support!TypeOK
    OBVIOUS
  <2>1. calls \subseteq Bundles /\ support!Cardinality(calls) <= 1
    <3>1. CASE calls = {}
      BY <3>1, OneCall
    <3>2. ASSUME NEW b \in Bundles, calls = {b}
          PROVE  calls \subseteq Bundles /\ support!Cardinality(calls) <= 1
      BY <3>2, OneCall, SMTT(40)
    <3> QED
      BY <3>1, <3>2 DEF SupportTypes, BundleDialogs
  <2> QED
    BY <2>1 DEF SupportTypes, BundleTimes, BundleDialogs, support!TypeOK
<1> QED
  BY <1>1, <1>2, <1>3, <1>4

-----------------------------------------------------------------------------
(* ShellState                                                                *)

ShellTypes ==
  /\ {"visit", "theme", "resolved", "document", "effects", "listening", "path", "error", "resetKey", "loaded",
      "broken", "release", "toasts"} \subseteq DOMAIN ui
  /\ shell!Ids(calls) \subseteq 1..MaxToasts /\ calls \in Seq(Nat)
  /\ shell!TypeOK

\* A step about the theme or the messages leaves the pages as they are.
LEMMA ShellKept ==
  ASSUME ShellTypes, DOMAIN ui' = DOMAIN ui, ui'.path = ui.path, ui'.resetKey = ui.resetKey,
         ui'.loaded = ui.loaded,
         ui'.broken = ui.broken, ui'.error = ui.error, calls' \in Seq(Nat), shell!Ids(calls') \subseteq 1..MaxToasts
  PROVE  ShellTypes'
BY DEF ShellTypes, shell!TypeOK

LEMMA ShellStarted ==
  ASSUME NEW visit, NEW path \in Paths, ui' = shell!Started(visit, path), calls' = <<>>
  PROVE  ShellTypes'
<1>1. /\ {"visit", "theme", "resolved", "document", "effects", "listening", "path", "error", "resetKey", "loaded",
          "broken", "release", "toasts"} \subseteq DOMAIN ui'
      /\ ui'.path = path /\ ui'.resetKey = path /\ ui'.loaded = {path} /\ ui'.broken = {} /\ ui'.error = None
  BY DEF shell!Started
<1>2. calls' \in Seq(Nat) /\ shell!Ids(calls)' = {}
  BY DEF shell!Ids
<1> QED
  BY <1>1, <1>2 DEF ShellTypes, shell!TypeOK

\* A page is loaded, or its failure to load is remembered.
LEMMA ShellLoads ==
  ASSUME ShellTypes, UNCHANGED calls, NEW p \in Paths, NEW s, ui' = shell!Loads(s, p),
         DOMAIN s = DOMAIN ui, {s.path, s.resetKey} \subseteq Paths, s.loaded = ui.loaded, s.broken = ui.broken,
         s.error \in {None, ui.error}
  PROVE  ShellTypes'
<1>1. /\ DOMAIN ui' = DOMAIN ui /\ ui'.path = s.path /\ ui'.resetKey = s.resetKey
      /\ ui'.loaded \subseteq ui.loaded \cup {p} /\ ui'.broken \subseteq ui.broken \cup {p}
      /\ ui'.error \in {None, ui.error, "chunk"}
  <2>1. CASE ui' = [[s EXCEPT !.error = "chunk"] EXCEPT !.broken = s.broken \cup {p}]
    BY <2>1 DEF ShellTypes
  <2>2. CASE ui' = [s EXCEPT !.loaded = s.loaded \cup {p}]
    BY <2>2 DEF ShellTypes
  <2> QED
    BY <2>1, <2>2 DEF shell!Loads, ShellTypes
<1> QED
  BY <1>1 DEF ShellTypes, shell!TypeOK

LEMMA ShellTyped ==
  /\ (shell!ShellInit => ShellTypes)
  /\ (ShellTypes /\ [shell!ShellNext]_(shell!shellVars) => ShellTypes')
  /\ (ShellTypes => shell!TypeOK)
<1>1. shell!ShellInit => ShellTypes
  <2> SUFFICES ASSUME shell!ShellInit PROVE ShellTypes
    OBVIOUS
  <2>1. PICK v, p : p \in Paths /\ ui = shell!Started(v, p)
    BY DEF shell!ShellInit
  <2>2. /\ {"visit", "theme", "resolved", "document", "effects", "listening", "path", "error", "resetKey", "loaded",
            "broken", "release", "toasts"} \subseteq DOMAIN ui
        /\ ui.path = p /\ ui.resetKey = p /\ ui.loaded = {p} /\ ui.broken = {} /\ ui.error = None
    BY <2>1 DEF shell!Started
  <2>3. calls \in Seq(Nat) /\ shell!Ids(calls) = {}
    BY DEF shell!ShellInit, shell!Ids
  <2> QED
    BY <2>1, <2>2, <2>3 DEF ShellTypes, shell!TypeOK
<1>2. ASSUME ShellTypes, shell!ShellNext
      PROVE  ShellTypes'
  <2>1. CASE shell!cycleTheme
    <3>1. PICK mode : shell!setTheme(mode)
      BY <2>1 DEF shell!cycleTheme
    <3>2. DOMAIN ui' = DOMAIN ui /\ ui'.path = ui.path /\ ui'.resetKey = ui.resetKey /\ ui'.loaded = ui.loaded
          /\ ui'.broken = ui.broken /\ ui'.error = ui.error /\ calls' = calls
      <4>1. PICK e, r, d : calls' = calls
                           /\ ui' = [[[[ui EXCEPT !.theme = mode] EXCEPT !.effects = e] EXCEPT !.resolved = r] EXCEPT !.document = d]
        BY <1>2, <3>1 DEF shell!setTheme, shell!Applied, ShellTypes
      <4> QED
        BY <1>2, <4>1 DEF ShellTypes
    <3> QED
      BY <1>2, <3>2, ShellKept DEF ShellTypes
  <2>2. CASE shell!ThemeEffects
    <3>1. DOMAIN ui' = DOMAIN ui /\ ui'.path = ui.path /\ ui'.resetKey = ui.resetKey /\ ui'.loaded = ui.loaded
          /\ ui'.broken = ui.broken /\ ui'.error = ui.error /\ calls' = calls
      <4>1. PICK l, r, d : calls' = calls
                           /\ ui' = [[[[ui EXCEPT !.effects = FALSE] EXCEPT !.listening = l] EXCEPT !.resolved = r] EXCEPT !.document = d]
        BY <1>2, <2>2 DEF shell!ThemeEffects, shell!Applied, ShellTypes
      <4> QED
        BY <1>2, <4>1 DEF ShellTypes
    <3> QED
      BY <1>2, <3>1, ShellKept DEF ShellTypes
  <2>3. CASE shell!SystemChanges
    <3>1. DOMAIN ui' = DOMAIN ui /\ ui'.path = ui.path /\ ui'.resetKey = ui.resetKey /\ ui'.loaded = ui.loaded
          /\ ui'.broken = ui.broken /\ ui'.error = ui.error /\ calls' = calls
      <4>1. CASE ui' = ui
        BY <2>3, <4>1 DEF shell!SystemChanges
      <4>2. CASE ui' = [[ui EXCEPT !.resolved = ~query.osDark] EXCEPT !.document = ~query.osDark]
        BY <1>2, <2>3, <4>2 DEF shell!SystemChanges, ShellTypes
      <4> QED
        BY <1>2, <2>3, <4>1, <4>2 DEF shell!SystemChanges, ShellTypes
    <3> QED
      BY <1>2, <3>1, ShellKept DEF ShellTypes
  <2>4. CASE shell!Reload
    <3> QED
      BY <1>2, <2>4, ShellStarted DEF shell!Reload, ShellTypes, shell!TypeOK
  <2>5. ASSUME NEW p \in Paths, shell!Navigate(p)
        PROVE  ShellTypes'
    <3> DEFINE s == shell!Reset(ui, p)
    <3>1. \E e \in {None, ui.error} : s = [[[ui EXCEPT !.path = p] EXCEPT !.error = e] EXCEPT !.resetKey = p]
      BY <1>2 DEF shell!Reset, ShellTypes
    <3>2. DOMAIN s = DOMAIN ui /\ s.path = p /\ s.resetKey = p /\ s.loaded = ui.loaded /\ s.broken = ui.broken
          /\ s.error \in {None, ui.error}
      BY <1>2, <3>1 DEF ShellTypes
    <3>3. ui' = shell!Loads(s, p) /\ UNCHANGED calls
      BY <2>5 DEF shell!Navigate
    <3> HIDE DEF s
    <3> QED
      BY <1>2, <3>2, <3>3, ShellLoads
  <2>6. CASE shell!PageThrows
    <3> QED
      BY <1>2, <2>6 DEF shell!PageThrows, ShellTypes, shell!TypeOK
  <2>7. CASE shell!TryAgain
    <3>1. CASE shell!Reload
      BY <1>2, <3>1, ShellStarted DEF shell!Reload, ShellTypes, shell!TypeOK
    <3>2. CASE ui' = shell!Loads([ui EXCEPT !.error = None], ui.path) /\ UNCHANGED <<query, calls>>
      <4> DEFINE s == [ui EXCEPT !.error = None]
      <4>1. DOMAIN s = DOMAIN ui /\ s.path = ui.path /\ s.resetKey = ui.resetKey /\ s.loaded = ui.loaded /\ s.broken = ui.broken
            /\ s.error = None /\ {ui.path, ui.resetKey} \subseteq Paths
        BY <1>2 DEF ShellTypes, shell!TypeOK
      <4>2. ui' = shell!Loads(s, ui.path) /\ UNCHANGED calls
        BY <3>2
      <4> HIDE DEF s
      <4> QED
        BY <1>2, <4>1, <4>2, ShellLoads
    <3> QED
      BY <2>7, <3>1, <3>2 DEF shell!TryAgain
  <2>8. CASE shell!Redeploy
    BY <1>2, <2>8, ShellKept DEF shell!Redeploy, ShellTypes
  <2>9. ASSUME NEW id \in 1..MaxToasts, shell!toast(id)
        PROVE  ShellTypes'
    <3>1. id \in Nat /\ calls' = Append(calls, id)
      BY <2>9 DEF shell!toast, shell!Shows
    <3>2. calls' \in Seq(Nat) /\ shell!Ids(calls') \subseteq 1..MaxToasts
      <4>1. Len(calls') = Len(calls) + 1 /\ \A i \in 1..Len(calls') : calls'[i] \in {id} \cup shell!Ids(calls)
        BY <1>2, <3>1 DEF ShellTypes, shell!Ids
      <4> QED
        BY <1>2, <3>1, <4>1 DEF ShellTypes, shell!Ids
    <3>3. \E t : ui' = [ui EXCEPT !.toasts = t]
      BY <2>9 DEF shell!toast, shell!Shows
    <3>4. DOMAIN ui' = DOMAIN ui /\ ui'.path = ui.path /\ ui'.resetKey = ui.resetKey /\ ui'.loaded = ui.loaded
          /\ ui'.broken = ui.broken /\ ui'.error = ui.error
      BY <1>2, <3>3 DEF ShellTypes
    <3> QED
      BY <1>2, <3>2, <3>4, ShellKept
  <2>10. CASE shell!TimerFires
    <3>1. calls # <<>> /\ calls' = Tail(calls) /\ shell!dismiss(Head(calls))
      BY <2>10 DEF shell!TimerFires
    <3>2. calls' \in Seq(Nat) /\ shell!Ids(calls') \subseteq 1..MaxToasts
      <4>1. Len(calls') = Len(calls) - 1 /\ \A i \in 1..Len(calls') : calls'[i] = calls[i + 1]
        BY <1>2, <3>1 DEF ShellTypes
      <4>2. \A i \in 1..Len(calls') : calls'[i] \in shell!Ids(calls)
        BY <1>2, <4>1, SMTT(40) DEF ShellTypes, shell!Ids
      <4> QED
        BY <1>2, <3>1, <4>1, <4>2 DEF ShellTypes, shell!Ids
    <3>3. ui' = ui \/ \E t : ui' = [ui EXCEPT !.toasts = t]
      BY <3>1 DEF shell!dismiss
    <3>4. DOMAIN ui' = DOMAIN ui /\ ui'.path = ui.path /\ ui'.resetKey = ui.resetKey /\ ui'.loaded = ui.loaded
          /\ ui'.broken = ui.broken /\ ui'.error = ui.error
      BY <1>2, <3>3 DEF ShellTypes
    <3> QED
      BY <1>2, <3>2, <3>4, ShellKept
  <2>11. ASSUME NEW i \in DOMAIN ui.toasts, shell!Dismiss(i)
         PROVE  ShellTypes'
    <3>1. calls' = calls /\ (ui' = ui \/ \E t : ui' = [ui EXCEPT !.toasts = t])
      BY <2>11 DEF shell!Dismiss, shell!dismiss
    <3>2. DOMAIN ui' = DOMAIN ui /\ ui'.path = ui.path /\ ui'.resetKey = ui.resetKey /\ ui'.loaded = ui.loaded
          /\ ui'.broken = ui.broken /\ ui'.error = ui.error
      BY <1>2, <3>1 DEF ShellTypes
    <3> QED
      BY <1>2, <3>1, <3>2, ShellKept DEF ShellTypes
  <2> QED
    BY <1>2, <2>1, <2>2, <2>3, <2>4, <2>5, <2>6, <2>7, <2>8, <2>9, <2>10, <2>11 DEF shell!ShellNext
<1>3. ShellTypes /\ UNCHANGED shell!shellVars => ShellTypes'
  BY DEF shell!shellVars, ShellTypes, shell!TypeOK, shell!Ids
<1>4. ShellTypes => shell!TypeOK
  BY DEF ShellTypes
<1> QED
  BY <1>1, <1>2, <1>3, <1>4

-----------------------------------------------------------------------------
(* A visit keeps to the types of its page                                    *)

TypesInv ==
  /\ route = "images" => ImageTypes
  /\ route = "systemBackups" => SystemBackupTypes
  /\ route = "engineImages" => EngineImageTypes
  /\ route = "orphans" => OrphanTypes
  /\ route = "backupTargets" => BackupTargetTypes
  /\ route = "backups" => BackupTypes
  /\ route = "recurringJobs" => JobTypes
  /\ route = "settings" => SettingTypes
  /\ route = "sso" => SSOTypes
  /\ route = "users" => UserTypes
  /\ route = "nodes" => NodeTypes
  /\ route = "volumes" => VolumeTypes
  /\ route = "detail" => DetailTypes
  /\ route = "dataTable" => TableTypes
  /\ route = "operations" => OperationTypes
  /\ route = "policy" => PolicyTypes
  /\ route = "benchmarks" => BenchmarkTypes
  /\ route = "metrics" => MetricsTypes
  /\ route = "ceph" => CephTypes
  /\ route = "workspace" => PlaceTypes
  /\ route = "support" => SupportTypes
  /\ route = "shell" => ShellTypes

LEMMA TypesBegin ==
  ASSUME PagesInit
  PROVE  TypesInv
<1>1. ASSUME route = "images"
      PROVE  ImageTypes
  <2>1. images!ImagesInit
    BY <1>1 DEF PagesInit
  <2> QED
    BY <2>1, ImagesTyped
<1>2. ASSUME route = "systemBackups"
      PROVE  SystemBackupTypes
  <2>1. systemBackups!SystemBackupsInit
    BY <1>2 DEF PagesInit
  <2> QED
    BY <2>1, SystemBackupsTyped
<1>3. ASSUME route = "engineImages"
      PROVE  EngineImageTypes
  <2>1. engineImages!EngineImagesInit
    BY <1>3 DEF PagesInit
  <2> QED
    BY <2>1, EngineImagesTyped
<1>4. ASSUME route = "orphans"
      PROVE  OrphanTypes
  <2>1. orphans!OrphansInit
    BY <1>4 DEF PagesInit
  <2> QED
    BY <2>1, OrphansTyped
<1>5. ASSUME route = "backupTargets"
      PROVE  BackupTargetTypes
  <2>1. backupTargets!BackupTargetsInit
    BY <1>5 DEF PagesInit
  <2> QED
    BY <2>1, BackupTargetsTyped
<1>6. ASSUME route = "backups"
      PROVE  BackupTypes
  <2>1. backups!BackupsInit
    BY <1>6 DEF PagesInit
  <2> QED
    BY <2>1, BackupsTyped
<1>7. ASSUME route = "recurringJobs"
      PROVE  JobTypes
  <2>1. recurringJobs!JobsInit
    BY <1>7 DEF PagesInit
  <2> QED
    BY <2>1, JobsTyped
<1>8. ASSUME route = "settings"
      PROVE  SettingTypes
  <2>1. settings!SettingsInit
    BY <1>8 DEF PagesInit
  <2> QED
    BY <2>1, SettingsTyped
<1>9. ASSUME route = "sso"
      PROVE  SSOTypes
  <2>1. sso!SSOInit
    BY <1>9 DEF PagesInit
  <2> QED
    BY <2>1, SSOTyped
<1>10. ASSUME route = "users"
       PROVE  UserTypes
  <2>1. users!UsersInit
    BY <1>10 DEF PagesInit
  <2> QED
    BY <2>1, UsersTyped
<1>11. ASSUME route = "nodes"
       PROVE  NodeTypes
  <2>1. nodes!NodesInit
    BY <1>11 DEF PagesInit
  <2> QED
    BY <2>1, NodesTyped
<1>12. ASSUME route = "volumes"
       PROVE  VolumeTypes
  <2>1. volumes!VolumesInit
    BY <1>12 DEF PagesInit
  <2> QED
    BY <2>1, VolumesTyped
<1>13. ASSUME route = "detail"
       PROVE  DetailTypes
  <2>1. detail!DetailInit
    BY <1>13 DEF PagesInit
  <2> QED
    BY <2>1, DetailTyped
<1>14. ASSUME route = "dataTable"
       PROVE  TableTypes
  <2>1. dataTable!TableInit
    BY <1>14 DEF PagesInit
  <2> QED
    BY <2>1, TableTyped
<1>15. ASSUME route = "operations"
       PROVE  OperationTypes
  <2>1. operations!OperationInit
    BY <1>15 DEF PagesInit
  <2> QED
    BY <2>1, OperationTyped
<1>16. ASSUME route = "policy"
       PROVE  PolicyTypes
  <2>1. policy!PolicyInit
    BY <1>16 DEF PagesInit
  <2> QED
    BY <2>1, PolicyTyped
<1>17. ASSUME route = "benchmarks"
       PROVE  BenchmarkTypes
  <2>1. benchmarks!BenchmarksInit
    BY <1>17 DEF PagesInit
  <2> QED
    BY <2>1, BenchmarksTyped
<1>18. ASSUME route = "metrics"
       PROVE  MetricsTypes
  <2>1. metrics!MetricsInit
    BY <1>18 DEF PagesInit
  <2> QED
    BY <2>1, MetricsTyped
<1>19. ASSUME route = "ceph"
       PROVE  CephTypes
  <2>1. ceph!CephInit
    BY <1>19 DEF PagesInit
  <2> QED
    BY <2>1, CephTyped
<1>20. ASSUME route = "workspace"
       PROVE  PlaceTypes
  <2>1. workspace!WorkspaceInit
    BY <1>20 DEF PagesInit
  <2> QED
    BY <2>1, PlacesTyped
<1>21. ASSUME route = "support"
       PROVE  SupportTypes
  <2>1. support!SupportInit
    BY <1>21 DEF PagesInit
  <2> QED
    BY <2>1, SupportTyped
<1>22. ASSUME route = "shell"
       PROVE  ShellTypes
  <2>1. shell!ShellInit
    BY <1>22 DEF PagesInit
  <2> QED
    BY <2>1, ShellTyped
<1> QED
  BY <1>1, <1>2, <1>3, <1>4, <1>5, <1>6, <1>7, <1>8, <1>9, <1>10, <1>11, <1>12, <1>13, <1>14, <1>15, <1>16,
     <1>17, <1>18, <1>19, <1>20, <1>21, <1>22 DEF TypesInv

LEMMA TypesStep ==
  ASSUME TypesInv, [PagesNext]_pagesVars
  PROVE  TypesInv'
<1>1. ASSUME route = "images"
      PROVE  ImageTypes'
  <2>1. images!ImagesNext \/ UNCHANGED images!imagesVars
    BY <1>1 DEF PagesNext, pagesVars, At, images!imagesVars
  <2> QED
    BY <1>1, <2>1, ImagesTyped DEF TypesInv
<1>2. ASSUME route = "systemBackups"
      PROVE  SystemBackupTypes'
  <2>1. systemBackups!SystemBackupsNext \/ UNCHANGED systemBackups!listVars
    BY <1>2 DEF PagesNext, pagesVars, At, systemBackups!listVars
  <2> QED
    BY <1>2, <2>1, SystemBackupsTyped DEF TypesInv
<1>3. ASSUME route = "engineImages"
      PROVE  EngineImageTypes'
  <2>1. engineImages!EngineImagesNext \/ UNCHANGED engineImages!listVars
    BY <1>3 DEF PagesNext, pagesVars, At, engineImages!listVars
  <2> QED
    BY <1>3, <2>1, EngineImagesTyped DEF TypesInv
<1>4. ASSUME route = "orphans"
      PROVE  OrphanTypes'
  <2>1. orphans!OrphansNext \/ UNCHANGED orphans!listVars
    BY <1>4 DEF PagesNext, pagesVars, At, orphans!listVars
  <2> QED
    BY <1>4, <2>1, OrphansTyped DEF TypesInv
<1>5. ASSUME route = "backupTargets"
      PROVE  BackupTargetTypes'
  <2>1. backupTargets!BackupTargetsNext \/ UNCHANGED backupTargets!listVars
    BY <1>5 DEF PagesNext, pagesVars, At, backupTargets!listVars
  <2> QED
    BY <1>5, <2>1, BackupTargetsTyped DEF TypesInv
<1>6. ASSUME route = "backups"
      PROVE  BackupTypes'
  <2>1. backups!BackupsNext \/ UNCHANGED backups!backupsVars
    BY <1>6 DEF PagesNext, pagesVars, At, backups!backupsVars
  <2> QED
    BY <1>6, <2>1, BackupsTyped DEF TypesInv
<1>7. ASSUME route = "recurringJobs"
      PROVE  JobTypes'
  <2>1. recurringJobs!JobsNext \/ UNCHANGED recurringJobs!jobsVars
    BY <1>7 DEF PagesNext, pagesVars, At, recurringJobs!jobsVars
  <2> QED
    BY <1>7, <2>1, JobsTyped DEF TypesInv
<1>8. ASSUME route = "settings"
      PROVE  SettingTypes'
  <2>1. settings!SettingsNext \/ UNCHANGED settings!settingsVars
    BY <1>8 DEF PagesNext, pagesVars, At, settings!settingsVars
  <2> QED
    BY <1>8, <2>1, SettingsTyped DEF TypesInv
<1>9. ASSUME route = "sso"
      PROVE  SSOTypes'
  <2>1. sso!SSONext \/ UNCHANGED sso!ssoVars
    BY <1>9 DEF PagesNext, pagesVars, At, sso!ssoVars
  <2> QED
    BY <1>9, <2>1, SSOTyped DEF TypesInv
<1>10. ASSUME route = "users"
       PROVE  UserTypes'
  <2>1. users!UsersNext \/ UNCHANGED users!usersVars
    BY <1>10 DEF PagesNext, pagesVars, At, users!usersVars
  <2> QED
    BY <1>10, <2>1, UsersTyped DEF TypesInv
<1>11. ASSUME route = "nodes"
       PROVE  NodeTypes'
  <2>1. nodes!NodesNext \/ UNCHANGED nodes!nodesVars
    BY <1>11 DEF PagesNext, pagesVars, At, nodes!nodesVars
  <2> QED
    BY <1>11, <2>1, NodesTyped DEF TypesInv
<1>12. ASSUME route = "volumes"
       PROVE  VolumeTypes'
  <2>1. volumes!VolumesNext \/ UNCHANGED volumes!volumesVars
    BY <1>12 DEF PagesNext, pagesVars, At, volumes!volumesVars
  <2> QED
    BY <1>12, <2>1, VolumesTyped DEF TypesInv
<1>13. ASSUME route = "detail"
       PROVE  DetailTypes'
  <2>1. detail!DetailNext \/ UNCHANGED detail!detailVars
    BY <1>13 DEF PagesNext, pagesVars, At, detail!detailVars
  <2> QED
    BY <1>13, <2>1, DetailTyped DEF TypesInv
<1>14. ASSUME route = "dataTable"
       PROVE  TableTypes'
  <2>1. dataTable!TableNext \/ UNCHANGED dataTable!tableVars
    BY <1>14 DEF PagesNext, pagesVars, At, dataTable!tableVars
  <2> QED
    BY <1>14, <2>1, TableTyped DEF TypesInv
<1>15. ASSUME route = "operations"
       PROVE  OperationTypes'
  <2>1. operations!OperationNext \/ UNCHANGED operations!operationVars
    BY <1>15 DEF PagesNext, pagesVars, At, operations!operationVars
  <2> QED
    BY <1>15, <2>1, OperationTyped DEF TypesInv
<1>16. ASSUME route = "policy"
       PROVE  PolicyTypes'
  <2>1. policy!PolicyNext \/ UNCHANGED policy!policyVars
    BY <1>16 DEF PagesNext, pagesVars, At, policy!policyVars
  <2> QED
    BY <1>16, <2>1, PolicyTyped DEF TypesInv
<1>17. ASSUME route = "benchmarks"
       PROVE  BenchmarkTypes'
  <2>1. benchmarks!BenchmarksNext \/ UNCHANGED benchmarks!benchmarksVars
    BY <1>17 DEF PagesNext, pagesVars, At, benchmarks!benchmarksVars
  <2> QED
    BY <1>17, <2>1, BenchmarksTyped DEF TypesInv
<1>18. ASSUME route = "metrics"
       PROVE  MetricsTypes'
  <2>1. metrics!MetricsNext \/ UNCHANGED metrics!metricsVars
    BY <1>18 DEF PagesNext, pagesVars, At, metrics!metricsVars
  <2> QED
    BY <1>18, <2>1, MetricsTyped DEF TypesInv
<1>19. ASSUME route = "ceph"
       PROVE  CephTypes'
  <2>1. ceph!CephNext \/ UNCHANGED ceph!cephVars
    BY <1>19 DEF PagesNext, pagesVars, At, ceph!cephVars
  <2> QED
    BY <1>19, <2>1, CephTyped DEF TypesInv
<1>20. ASSUME route = "workspace"
       PROVE  PlaceTypes'
  <2>1. workspace!WorkspaceNext \/ UNCHANGED workspace!workspaceVars
    BY <1>20 DEF PagesNext, pagesVars, At, workspace!workspaceVars
  <2> QED
    BY <1>20, <2>1, PlacesTyped DEF TypesInv
<1>21. ASSUME route = "support"
       PROVE  SupportTypes'
  <2>1. support!SupportNext \/ UNCHANGED support!supportVars
    BY <1>21 DEF PagesNext, pagesVars, At, support!supportVars
  <2> QED
    BY <1>21, <2>1, SupportTyped DEF TypesInv
<1>22. ASSUME route = "shell"
       PROVE  ShellTypes'
  <2>1. shell!ShellNext \/ UNCHANGED shell!shellVars
    BY <1>22 DEF PagesNext, pagesVars, At, shell!shellVars
  <2> QED
    BY <1>22, <2>1, ShellTyped DEF TypesInv
<1>23. route' = route
  BY StaysOnItsPage
<1> QED
  BY <1>1, <1>2, <1>3, <1>4, <1>5, <1>6, <1>7, <1>8, <1>9, <1>10, <1>11, <1>12, <1>13, <1>14, <1>15, <1>16,
     <1>17, <1>18, <1>19, <1>20, <1>21, <1>22, <1>23 DEF TypesInv

LEMMA TypesHold ==
  ASSUME TypesInv, VisitInv
  PROVE  TypeOK
<1>1. route = "images" => images!TypeOK
  BY ImagesTyped DEF TypesInv
<1>2. route = "systemBackups" => systemBackups!TypeOK
  BY SystemBackupsTyped DEF TypesInv
<1>3. route = "engineImages" => engineImages!TypeOK
  BY EngineImagesTyped DEF TypesInv
<1>4. route = "orphans" => orphans!TypeOK
  BY OrphansTyped DEF TypesInv
<1>5. route = "backupTargets" => backupTargets!TypeOK
  BY BackupTargetsTyped DEF TypesInv
<1>6. route = "backups" => backups!TypeOK
  BY BackupsTyped DEF TypesInv
<1>7. route = "recurringJobs" => recurringJobs!TypeOK
  BY JobsTyped DEF TypesInv
<1>8. route = "settings" => settings!TypeOK
  BY SettingsTyped DEF TypesInv
<1>9. route = "sso" => sso!TypeOK
  BY SSOTyped DEF TypesInv
<1>10. route = "users" => users!TypeOK
  BY UsersTyped DEF TypesInv
<1>11. route = "nodes" => nodes!TypeOK
  BY NodesTyped DEF TypesInv
<1>12. route = "volumes" => volumes!TypeOK
  BY VolumesTyped DEF TypesInv
<1>13. route = "detail" => detail!TypeOK
  BY DetailTyped DEF TypesInv
<1>14. route = "dataTable" => dataTable!TypeOK
  BY TableTyped DEF TypesInv, VisitInv
<1>15. route = "operations" => operations!TypeOK
  BY OperationTyped DEF TypesInv
<1>16. route = "policy" => policy!TypeOK
  BY PolicyTyped DEF TypesInv
<1>17. route = "benchmarks" => benchmarks!TypeOK
  BY BenchmarksTyped DEF TypesInv
<1>18. route = "metrics" => metrics!TypeOK
  BY MetricsTyped DEF TypesInv
<1>19. route = "ceph" => ceph!TypeOK
  BY CephTyped DEF TypesInv
<1>20. route = "workspace" => workspace!TypeOK
  BY PlacesTyped DEF TypesInv
<1>21. route = "support" => support!TypeOK
  BY SupportTyped DEF TypesInv
<1>22. route = "shell" => shell!TypeOK
  BY ShellTyped DEF TypesInv
<1>23. route = "queries" => queries!TypeOK
  BY QueriesTyped DEF VisitInv
<1> QED
  BY <1>1, <1>2, <1>3, <1>4, <1>5, <1>6, <1>7, <1>8, <1>9, <1>10, <1>11, <1>12, <1>13, <1>14, <1>15, <1>16,
     <1>17, <1>18, <1>19, <1>20, <1>21, <1>22, <1>23 DEF TypeOK

\* Whichever page is visited, and whatever is entered, answered and polled in
\* whatever order: the state of the page has its type.
THEOREM PagesTyped == PagesSpec => []TypeOK
<1>1. PagesInit => TypesInv
  BY TypesBegin
<1>2. TypesInv /\ [PagesNext]_pagesVars => TypesInv'
  BY TypesStep
<1>3. TypesInv /\ VisitInv => TypeOK
  BY TypesHold
<1> QED
  BY <1>1, <1>2, <1>3, VisitsKeep, PTL DEF PagesSpec
=============================================================================

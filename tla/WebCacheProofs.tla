--------------------------- MODULE WebCacheProofs ---------------------------
(***************************************************************************)
(* The list a page shows is well typed, and is never older than the page's *)
(* own answered mutations.  The induction rests on one fact: the step that *)
(* acknowledges a mutation also starts a new fetch, so whatever has been   *)
(* read by a fetch under way was read after every acknowledged change.     *)
(***************************************************************************)
EXTENDS WebCache, TLAPS

\* What a fetch has read, and a pending mutation may acknowledge, lies between
\* the acknowledged changes and the server's last one.
Fresh ==
  /\ acked <= server.version
  /\ fetch.state = "read" => fetch.asOf >= acked
  /\ \A m \in muts : m.at <= server.version

CacheInv == TypeOK /\ Fresh /\ ReadYourWrites

\* The part of a step that a change of the server makes.
LEMMA ChangesTyped ==
  ASSUME TypeOK, NEW rows \in Rows, Changes(rows)
  PROVE  /\ server' \in [rows : Rows, version : Nat]
         /\ server'.version = server.version + 1
         /\ stream' \in [up : BOOLEAN, frame : BOOLEAN]
BY DEF TypeOK, Changes

\* A mutation writes a row of the list's type.
LEMMA WrittenTyped ==
  ASSUME TypeOK, NEW m \in Mutations, NEW row \in Values \cup {Gone}
  PROVE  Written(m, row) \in Values \cup {Gone}
BY CacheAssumption DEF TypeOK, Mutations, Written

\* A performed mutation keeps its kind.
LEMMA DoneTyped ==
  ASSUME NEW m \in Mutations, NEW k \in Nat
  PROVE  /\ [m EXCEPT !.state = "done", !.at = k] \in Mutations
         /\ [m EXCEPT !.state = "done", !.at = k].at = k
         /\ [m EXCEPT !.state = "done", !.at = k].op = m.op
BY DEF Mutations

\* The page starts with rows the server has just sent.
LEMMA InitInv == CacheInit => CacheInv
<1> SUFFICES ASSUME CacheInit PROVE CacheInv
  OBVIOUS
<1>1. PICK rows \in [Names -> Values \ {Deleting}] : server = [rows |-> rows, version |-> 0]
  BY DEF CacheInit
<1>2. rows \in Rows /\ server \in [rows : Rows, version : Nat]
  BY <1>1 DEF Rows
<1>3. cache \in [rows : Rows, asOf : Nat, error : BOOLEAN] /\ cache.asOf = 0
  BY <1>1, <1>2 DEF CacheInit
<1>4. TypeOK
  BY <1>2, <1>3 DEF CacheInit, TypeOK, Idle, Sent
<1>5. Fresh
  BY <1>1 DEF CacheInit, Fresh, Idle
<1>6. ReadYourWrites
  BY <1>3 DEF CacheInit, ReadYourWrites
<1>7. QED BY <1>4, <1>5, <1>6 DEF CacheInv

---------------------------------------------------------------------------
(* The steps *)

\* A change of the server only moves its version ahead.
LEMMA OtherChangeInv ==
  ASSUME CacheInv, NEW n \in Names, NEW v \in Values \cup {Gone}, OtherChange(n, v)
  PROVE  CacheInv'
<1> DEFINE rows == [server.rows EXCEPT ![n] = v]
<1>1. rows \in Rows /\ Changes(rows)
  BY DEF CacheInv, TypeOK, Rows, OtherChange
<1>2. /\ server' \in [rows : Rows, version : Nat]
      /\ server'.version = server.version + 1
      /\ stream' \in [up : BOOLEAN, frame : BOOLEAN]
  BY <1>1, ChangesTyped DEF CacheInv
<1>3. UNCHANGED <<cache, fetch, muts, acked, refetch>>
  BY DEF OtherChange
<1>4. TypeOK'
  BY <1>2, <1>3 DEF CacheInv, TypeOK
<1>5. Fresh'
  <2>1. \A m \in muts : m.at \in Nat
    BY DEF CacheInv, TypeOK, Mutations
  <2>2. QED BY <1>2, <1>3, <2>1 DEF CacheInv, TypeOK, Fresh
<1>6. ReadYourWrites'
  BY <1>3 DEF CacheInv, ReadYourWrites, OptimisticWrite
<1>7. QED BY <1>4, <1>5, <1>6 DEF CacheInv

\* A performed mutation is numbered by the change it made.
LEMMA PerformsInv ==
  ASSUME CacheInv, NEW m \in muts, Performs(m)
  PROVE  CacheInv'
<1> DEFINE row == Written(m, server.rows[m.name])
           rows == [server.rows EXCEPT ![m.name] = row]
           done == [m EXCEPT !.state = "done", !.at = server.version + 1]
<1>1. m \in Mutations
  BY DEF CacheInv, TypeOK
<1>2. server.rows[m.name] \in Values \cup {Gone}
  BY <1>1 DEF CacheInv, TypeOK, Rows, Mutations
<1>3. row \in Values \cup {Gone}
  BY <1>1, <1>2, WrittenTyped DEF CacheInv
<1>4. rows \in Rows
  BY <1>3 DEF CacheInv, TypeOK, Rows
<1>5. Changes(rows) /\ muts' = (muts \ {m}) \cup {done} /\ UNCHANGED <<cache, fetch, acked, refetch>>
  BY DEF Performs
<1>6. /\ server' \in [rows : Rows, version : Nat]
      /\ server'.version = server.version + 1
      /\ stream' \in [up : BOOLEAN, frame : BOOLEAN]
  BY <1>4, <1>5, ChangesTyped DEF CacheInv
<1>7. done \in Mutations /\ done.at = server.version + 1 /\ done.op = m.op
  <2>1. server.version + 1 \in Nat
    BY DEF CacheInv, TypeOK
  <2>2. QED BY <1>1, <2>1, DoneTyped
<1> HIDE DEF row, rows, done
<1>8. TypeOK'
  BY <1>5, <1>6, <1>7 DEF CacheInv, TypeOK
<1>9. Fresh'
  <2>1. \A c \in muts : c.at \in Nat
    BY DEF CacheInv, TypeOK, Mutations
  <2>2. server.version \in Nat /\ server'.version >= server.version
    BY <1>6 DEF CacheInv, TypeOK
  <2>3. \A c \in muts' : c.at <= server'.version
    BY <1>5, <1>6, <1>7, <2>1, <2>2 DEF CacheInv, Fresh
  <2>4. acked' <= server'.version /\ (fetch'.state = "read" => fetch'.asOf >= acked')
    BY <1>5, <1>6 DEF CacheInv, TypeOK, Fresh
  <2>5. QED BY <2>3, <2>4 DEF Fresh
<1>10. ReadYourWrites'
  <2>1. OptimisticWrite' => OptimisticWrite
    BY <1>5, <1>7 DEF OptimisticWrite
  <2>2. OptimisticWrite => OptimisticWrite'
    BY <1>5, <1>7 DEF OptimisticWrite
  <2>3. QED BY <1>5, <2>1, <2>2 DEF CacheInv, ReadYourWrites
<1>11. QED BY <1>8, <1>9, <1>10 DEF CacheInv

\* The steps of a fetch: what it reads, and then shows, is at least as fresh
\* as every acknowledged change.
LEMMA FetchInv ==
  ASSUME CacheInv, Poll \/ ServerReads \/ FetchAnswered \/ FetchFails
  PROVE  CacheInv'
<1>1. CASE Poll
  <2>1. fetch' = Sent /\ UNCHANGED <<server, cache, muts, stream, acked, refetch>>
    BY <1>1 DEF Poll
  <2>2. QED BY <2>1 DEF CacheInv, TypeOK, Fresh, ReadYourWrites, Sent, Idle
<1>2. CASE ServerReads
  <2>1. /\ fetch' = [state |-> "read", rows |-> server.rows, asOf |-> server.version]
        /\ UNCHANGED <<server, cache, muts, stream, acked, refetch>>
    BY <1>2 DEF ServerReads
  <2>2. TypeOK'
    BY <2>1 DEF CacheInv, TypeOK
  <2>3. Fresh'
    BY <2>1 DEF CacheInv, TypeOK, Fresh
  <2>4. fetch' # Idle
    BY <2>1 DEF Idle
  <2>5. ReadYourWrites'
    BY <2>1, <2>4 DEF ReadYourWrites
  <2>6. QED BY <2>2, <2>3, <2>5 DEF CacheInv
<1>3. CASE FetchAnswered
  <2>1. fetch \in [state : {"read"}, rows : Rows, asOf : Nat]
    BY <1>3 DEF FetchAnswered, CacheInv, TypeOK, Idle, Sent
  <2>2. /\ cache' = [rows |-> fetch.rows, asOf |-> fetch.asOf, error |-> FALSE]
        /\ fetch' = Idle /\ UNCHANGED <<server, muts, stream, acked, refetch>>
    BY <1>3 DEF FetchAnswered
  <2>3. TypeOK'
    BY <2>1, <2>2 DEF CacheInv, TypeOK
  <2>4. Fresh'
    BY <2>2 DEF CacheInv, Fresh, Idle
  <2>5. cache'.asOf >= acked'
    BY <2>1, <2>2 DEF CacheInv, Fresh
  <2>6. ReadYourWrites'
    BY <2>5 DEF ReadYourWrites
  <2>7. QED BY <2>3, <2>4, <2>6 DEF CacheInv
<1>4. CASE FetchFails
  <2>1. /\ cache' = [cache EXCEPT !.error = TRUE]
        /\ fetch' = Idle /\ UNCHANGED <<server, muts, stream, acked, refetch>>
    BY <1>4 DEF FetchFails
  <2>2. cache' \in [rows : Rows, asOf : Nat, error : BOOLEAN] /\ cache'.error
    BY <2>1 DEF CacheInv, TypeOK
  <2>3. QED BY <2>1, <2>2 DEF CacheInv, TypeOK, Fresh, ReadYourWrites, Idle
<1>5. QED BY <1>1, <1>2, <1>3, <1>4

\* The stream never touches the rows; a frame only starts a fetch.
LEMMA StreamInv ==
  ASSUME CacheInv, StreamOpens \/ StreamErrs \/ FrameArrives
  PROVE  CacheInv'
<1>1. CASE StreamOpens
  BY <1>1 DEF StreamOpens, CacheInv, TypeOK, Fresh, ReadYourWrites, OptimisticWrite
<1>2. CASE StreamErrs
  BY <1>2 DEF StreamErrs, CacheInv, TypeOK, Fresh, ReadYourWrites, OptimisticWrite
<1>3. CASE FrameArrives
  <2>1. /\ stream' = [stream EXCEPT !.frame = FALSE] /\ fetch' = Sent
        /\ UNCHANGED <<server, cache, muts, acked, refetch>>
    BY <1>3 DEF FrameArrives, Invalidated
  <2>2. TypeOK'
    BY <2>1 DEF CacheInv, TypeOK
  <2>3. Fresh' /\ ReadYourWrites'
    BY <2>1 DEF CacheInv, Fresh, ReadYourWrites, Sent, Idle
  <2>4. QED BY <2>2, <2>3 DEF CacheInv
<1>4. QED BY <1>1, <1>2, <1>3

\* What a handler remembers is a list of the cache.
LEMMA PendingTyped ==
  ASSUME TypeOK, NEW op \in {"remove", "patch", "create"}, NEW n \in Names,
         NEW v \in Values \cup {Gone}
  PROVE  Pending(op, n, v) \in Mutations /\ Pending(op, n, v).at = 0 /\ Pending(op, n, v).op = op
BY DEF TypeOK, Pending, Mutations

\* While an optimistic write is on the screen nothing is promised of its age.
LEMMA OptimisticInv ==
  ASSUME CacheInv, NEW op \in {"remove", "patch"}, NEW n \in Names,
         NEW v \in Values \cup {Gone}, Optimistic(op, n, v)
  PROVE  CacheInv'
<1>1. /\ fetch' = Idle /\ muts' = muts \cup {Pending(op, n, v)}
      /\ cache' = [cache EXCEPT !.rows[n] = v, !.error = FALSE]
      /\ UNCHANGED <<server, stream, acked, refetch>>
  BY DEF Optimistic
<1>2. Pending(op, n, v) \in Mutations /\ Pending(op, n, v).at = 0 /\ Pending(op, n, v).op = op
  BY PendingTyped DEF CacheInv
<1>3. cache' \in [rows : Rows, asOf : Nat, error : BOOLEAN]
  BY <1>1 DEF CacheInv, TypeOK, Rows
<1>4. TypeOK'
  BY <1>1, <1>2, <1>3 DEF CacheInv, TypeOK
<1>5. Fresh'
  BY <1>1, <1>2 DEF CacheInv, TypeOK, Fresh, Idle
<1>6. OptimisticWrite'
  BY <1>1, <1>2 DEF OptimisticWrite
<1>7. QED BY <1>4, <1>5, <1>6 DEF CacheInv, ReadYourWrites

LEMMA CreateInv ==
  ASSUME CacheInv, NEW n \in Names, NEW v \in Values, Create(n, v)
  PROVE  CacheInv'
<1>1. /\ muts' = muts \cup {Pending("create", n, v)}
      /\ UNCHANGED <<server, cache, fetch, stream, acked, refetch>>
  BY DEF Create
<1>2. /\ Pending("create", n, v) \in Mutations /\ Pending("create", n, v).at = 0
      /\ Pending("create", n, v).op = "create"
  BY PendingTyped DEF CacheInv
<1>3. TypeOK'
  BY <1>1, <1>2 DEF CacheInv, TypeOK
<1>4. Fresh'
  BY <1>1, <1>2 DEF CacheInv, TypeOK, Fresh
<1>5. OptimisticWrite => OptimisticWrite'
  BY <1>1 DEF OptimisticWrite
<1>6. ReadYourWrites'
  BY <1>1, <1>5 DEF CacheInv, ReadYourWrites
<1>7. QED BY <1>3, <1>4, <1>6 DEF CacheInv

\* An acknowledgement starts the fetch that will show it.
LEMMA SucceedsInv ==
  ASSUME CacheInv, NEW m \in muts, Succeeds(m)
  PROVE  CacheInv'
<1>1. m \in Mutations /\ m.at \in Nat /\ m.at <= server.version
  BY DEF CacheInv, TypeOK, Mutations, Fresh
<1>2. muts' = muts \ {m} /\ UNCHANGED <<server, cache, stream, refetch>>
  BY DEF Succeeds
<1>3. CASE m.op = "remove" /\ ~refetch
  <2>1. UNCHANGED <<fetch, acked>>
    BY <1>3 DEF Succeeds
  <2>2. TypeOK' /\ Fresh'
    BY <1>2, <2>1 DEF CacheInv, TypeOK, Fresh
  <2>3. ReadYourWrites'
    BY <1>2, <1>3 DEF ReadYourWrites
  <2>4. QED BY <2>2, <2>3 DEF CacheInv
<1>4. CASE ~(m.op = "remove" /\ ~refetch)
  <2>1. fetch' = Sent /\ acked' = IF m.at > acked THEN m.at ELSE acked
    BY <1>4 DEF Succeeds, Invalidated
  <2>2. acked' \in Nat /\ acked' <= server'.version
    BY <1>1, <1>2, <2>1 DEF CacheInv, TypeOK, Fresh
  <2>3. TypeOK'
    BY <1>2, <2>1, <2>2 DEF CacheInv, TypeOK
  <2>4. Fresh'
    BY <1>2, <2>1, <2>2 DEF CacheInv, Fresh, Sent
  <2>5. ReadYourWrites'
    BY <2>1 DEF ReadYourWrites, Sent, Idle
  <2>6. QED BY <2>3, <2>4, <2>5 DEF CacheInv
<1>5. QED BY <1>3, <1>4

\* A rollback brings back an older list together with the fetch that replaces it.
LEMMA FailsInv ==
  ASSUME CacheInv, NEW m \in muts, Fails(m)
  PROVE  CacheInv'
<1>1. m \in Mutations
  BY DEF CacheInv, TypeOK
<1>2. muts' = muts \ {m} /\ UNCHANGED <<server, stream, acked, refetch>>
  BY DEF Fails
<1>3. CASE m.op = "create"
  <2>1. UNCHANGED <<cache, fetch>>
    BY <1>3 DEF Fails
  <2>2. TypeOK' /\ Fresh'
    BY <1>2, <2>1 DEF CacheInv, TypeOK, Fresh
  <2>3. OptimisticWrite => OptimisticWrite'
    BY <1>2, <1>3 DEF OptimisticWrite
  <2>4. ReadYourWrites'
    BY <1>2, <2>1, <2>3 DEF CacheInv, ReadYourWrites
  <2>5. QED BY <2>2, <2>4 DEF CacheInv
<1>4. CASE m.op # "create"
  <2>1. /\ cache' = [rows |-> m.prev, asOf |-> m.prevAsOf, error |-> FALSE]
        /\ fetch' = Sent
    BY <1>4 DEF Fails, Invalidated
  <2>2. cache' \in [rows : Rows, asOf : Nat, error : BOOLEAN]
    BY <1>1, <2>1 DEF Mutations
  <2>3. TypeOK'
    BY <1>2, <2>1, <2>2 DEF CacheInv, TypeOK
  <2>4. Fresh' /\ ReadYourWrites'
    BY <1>2, <2>1 DEF CacheInv, Fresh, ReadYourWrites, Sent, Idle
  <2>5. QED BY <2>3, <2>4 DEF CacheInv
<1>5. QED BY <1>3, <1>4

\* Every step keeps the invariant.
LEMMA StepInv == CacheInv /\ [CacheNext]_cacheVars => CacheInv'
<1> SUFFICES ASSUME CacheInv, [CacheNext]_cacheVars PROVE CacheInv'
  OBVIOUS
<1>1. CASE UNCHANGED cacheVars
  BY <1>1 DEF cacheVars, CacheInv, TypeOK, Fresh, ReadYourWrites, OptimisticWrite
<1>2. ASSUME NEW n \in Names, NEW v \in Values \cup {Gone}, OtherChange(n, v) PROVE CacheInv'
  BY <1>2, OtherChangeInv
<1>3. ASSUME NEW m \in muts, Performs(m) PROVE CacheInv'
  BY <1>3, PerformsInv
<1>4. CASE Poll \/ ServerReads \/ FetchAnswered \/ FetchFails
  BY <1>4, FetchInv
<1>5. CASE StreamOpens \/ StreamErrs \/ FrameArrives
  BY <1>5, StreamInv
<1>6. ASSUME NEW n \in Names, Remove(n) PROVE CacheInv'
  BY <1>6, OptimisticInv DEF Remove
<1>7. ASSUME NEW n \in Names, NEW v \in Values, Patch(n, v) PROVE CacheInv'
  BY <1>7, OptimisticInv DEF Patch
<1>8. ASSUME NEW n \in Names, NEW v \in Values, Create(n, v) PROVE CacheInv'
  BY <1>8, CreateInv
<1>9. ASSUME NEW m \in muts, Succeeds(m) PROVE CacheInv'
  BY <1>9, SucceedsInv
<1>10. ASSUME NEW m \in muts, Fails(m) PROVE CacheInv'
  BY <1>10, FailsInv
<1>11. QED BY <1>1, <1>2, <1>3, <1>4, <1>5, <1>6, <1>7, <1>8, <1>9, <1>10 DEF CacheNext

---------------------------------------------------------------------------
\* Every value the cache, the fetch under way and the pending mutations hold is
\* of the declared type, for every set of rows and any number of mutations.
THEOREM CacheTypeOK == CacheSpec => []TypeOK
<1>1. CacheInv => TypeOK
  BY DEF CacheInv
<1>2. QED BY <1>1, InitInv, StepInv, PTL DEF CacheSpec

\* A page that shows no unanswered write and no error, and fetches nothing,
\* shows rows at least as new as its own answered mutations.
THEOREM CacheReadYourWrites == CacheSpec => []ReadYourWrites
<1>1. CacheInv => ReadYourWrites
  BY DEF CacheInv
<1>2. QED BY <1>1, InitInv, StepInv, PTL DEF CacheSpec
============================================================================

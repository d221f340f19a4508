------------------------------ MODULE WebCache ------------------------------
(***************************************************************************)
(* One list of the web application's query cache: the polls, refetches and *)
(* change frames that bring the server's rows, and the mutations that      *)
(* write rows before the server has answered.  Rows are numbered by the    *)
(* server's changes, so that a copy is as fresh as the change it was read  *)
(* at.  The query library is external: one fetch at a time, a cancelled    *)
(* fetch changes nothing, an invalidation cancels the fetch under way and  *)
(* starts another.                                                         *)
(***************************************************************************)
EXTENDS Naturals, FiniteSets

CONSTANTS Names,       \* what a row is keyed by
          Values,      \* what a row may hold
          Gone,        \* no such row
          Deleting,    \* the row of a resource whose deletion has not ended
          MaxVersion,  \* changes of the server (bound)
          MaxPending   \* mutations waiting at once (bound)

ASSUME CacheAssumption ==
  /\ Gone \notin Values /\ Deleting \in Values
  /\ MaxVersion \in Nat /\ MaxPending \in Nat

VARIABLES server,   \* its rows, and how many changes led to them
          cache,    \* the list the page shows, how fresh it is, its error
          fetch,    \* the fetch under way and what it has read
          muts,     \* mutations that have not been answered
          stream,   \* the change stream: up, and a frame on its way
          acked,    \* the latest own change the page knows was performed
          refetch   \* refetchOnSuccess: FALSE for volumes and backing images

cacheVars == <<server, cache, fetch, muts, stream, acked, refetch>>

Rows == [Names -> Values \cup {Gone}]

Idle == [state |-> "idle"]
Sent == [state |-> "sent"]

\* invalidateQueries
Invalidated == Sent

CacheInit ==
  /\ server \in [rows : [Names -> Values \ {Deleting}], version : {0}]
  /\ cache = [rows |-> server.rows, asOf |-> 0, error |-> FALSE]
  /\ fetch = Idle
  /\ muts = {}
  /\ stream = [up |-> FALSE, frame |-> FALSE]
  /\ acked = 0
  /\ refetch \in BOOLEAN

---------------------------------------------------------------------------
(* The server *)

\* A change, with the frame it sends to a connected page.
Changes(rows) ==
  /\ server.version < MaxVersion
  /\ server' = [rows |-> rows, version |-> server.version + 1]
  /\ stream' = [stream EXCEPT !.frame = stream.up]

\* Somebody else's change, or the end of a deletion.
OtherChange(n, v) ==
  /\ v # server.rows[n] /\ v # Deleting
  /\ server.rows[n] = Deleting => v = Gone
  /\ Changes([server.rows EXCEPT ![n] = v])
  /\ UNCHANGED <<cache, fetch, muts, acked, refetch>>

\* What a mutation makes of a row.  Longhorn deletions end later.
Written(m, row) ==
  CASE m.op = "remove" -> IF refetch \/ row = Gone THEN Gone ELSE Deleting
    [] m.op = "patch" /\ row \in Values -> m.value
    [] m.op = "create" -> m.value
    [] OTHER -> row

Performs(m) ==
  /\ m.state = "sent"
  /\ Changes([server.rows EXCEPT ![m.name] = Written(m, server.rows[m.name])])
  /\ muts' = (muts \ {m}) \cup {[m EXCEPT !.state = "done", !.at = server.version + 1]}
  /\ UNCHANGED <<cache, fetch, acked, refetch>>

---------------------------------------------------------------------------
(* Fetches: usePoll, window focus, the Refresh buttons *)

\* Seeded fault: the stream replaces the polls.
PollWhileDown ==
  /\ fetch = Idle /\ ~stream.up
  /\ fetch' = Sent
  /\ UNCHANGED <<server, cache, muts, stream, acked, refetch>>

Poll ==
  /\ fetch = Idle
  /\ fetch' = Sent
  /\ UNCHANGED <<server, cache, muts, stream, acked, refetch>>

ServerReads ==
  /\ fetch = Sent
  /\ fetch' = [state |-> "read", rows |-> server.rows, asOf |-> server.version]
  /\ UNCHANGED <<server, cache, muts, stream, acked, refetch>>

FetchAnswered ==
  /\ fetch.state = "read"
  /\ cache' = [rows |-> fetch.rows, asOf |-> fetch.asOf, error |-> FALSE]
  /\ fetch' = Idle
  /\ UNCHANGED <<server, muts, stream, acked, refetch>>

\* Seeded fault: the rows go.
ErrorDropsRows ==
  /\ fetch # Idle
  /\ cache' = [cache EXCEPT !.rows = << >>, !.error = TRUE]
  /\ fetch' = Idle
  /\ UNCHANGED <<server, muts, stream, acked, refetch>>

\* After its one retry the rows stay, with an error.
FetchFails ==
  /\ fetch # Idle
  /\ cache' = [cache EXCEPT !.error = TRUE]
  /\ fetch' = Idle
  /\ UNCHANGED <<server, muts, stream, acked, refetch>>

---------------------------------------------------------------------------
(* The change stream *)

StreamOpens ==
  /\ ~stream.up
  /\ stream' = [up |-> TRUE, frame |-> FALSE]
  /\ UNCHANGED <<server, cache, fetch, muts, acked, refetch>>

StreamErrs ==
  /\ stream.up
  /\ stream' = [up |-> FALSE, frame |-> FALSE]
  /\ UNCHANGED <<server, cache, fetch, muts, acked, refetch>>

\* onChange, for a list that frames only invalidate.
FrameArrives ==
  /\ stream.frame
  /\ stream' = [stream EXCEPT !.frame = FALSE]
  /\ fetch' = Invalidated
  /\ UNCHANGED <<server, cache, muts, acked, refetch>>

---------------------------------------------------------------------------
(* Mutations *)

Pending(op, n, v) ==
  [op |-> op, name |-> n, value |-> v, state |-> "sent", at |-> 0,
   prev |-> cache.rows, prevAsOf |-> cache.asOf]

\* onMutate of optimisticRemove and optimisticPatch: the fetch under way is
\* cancelled, the list is remembered, then written.
Optimistic(op, n, v) ==
  /\ cache.rows[n] # Gone
  /\ Cardinality(muts) < MaxPending
  /\ fetch' = Idle
  /\ muts' = muts \cup {Pending(op, n, v)}
  /\ cache' = [cache EXCEPT !.rows[n] = v, !.error = FALSE]
  /\ UNCHANGED <<server, stream, acked, refetch>>

Remove(n) == Optimistic("remove", n, Gone)

\* Nodes, settings and recurring jobs.
Patch(n, v) == refetch /\ v # Deleting /\ Optimistic("patch", n, v)

\* A mutation that writes nothing before it is answered.
Create(n, v) ==
  /\ cache.rows[n] = Gone /\ v # Deleting
  /\ Cardinality(muts) < MaxPending
  /\ muts' = muts \cup {Pending("create", n, v)}
  /\ UNCHANGED <<server, cache, fetch, stream, acked, refetch>>

\* The list is invalidated, except after a deletion that ends later.
Succeeds(m) ==
  /\ m.state = "done"
  /\ muts' = muts \ {m}
  /\ IF m.op = "remove" /\ ~refetch
       THEN UNCHANGED <<fetch, acked>>
       ELSE /\ fetch' = Invalidated
            /\ acked' = IF m.at > acked THEN m.at ELSE acked
  /\ UNCHANGED <<server, cache, stream, refetch>>

\* Seeded fault: an answer rolls back and does not refetch.
RollsBackOnly(m) ==
  /\ muts' = muts \ {m}
  /\ IF m.op = "create"
       THEN UNCHANGED cache
       ELSE cache' = [rows |-> m.prev, asOf |-> m.prevAsOf, error |-> FALSE]
  /\ UNCHANGED <<server, fetch, stream, acked, refetch>>

\* Refused, or performed and the answer lost: an optimistic write is rolled
\* back to the list it found, and the list invalidated.
Fails(m) ==
  /\ muts' = muts \ {m}
  /\ IF m.op = "create"
       THEN UNCHANGED <<cache, fetch>>
       ELSE /\ cache' = [rows |-> m.prev, asOf |-> m.prevAsOf, error |-> FALSE]
            /\ fetch' = Invalidated
  /\ UNCHANGED <<server, stream, acked, refetch>>

---------------------------------------------------------------------------
CacheNext ==
  \/ \E n \in Names, v \in Values \cup {Gone} : OtherChange(n, v)
  \/ \E m \in muts : Performs(m)
  \/ Poll
  \/ ServerReads
  \/ FetchAnswered
  \/ FetchFails
  \/ StreamOpens
  \/ StreamErrs
  \/ FrameArrives
  \/ \E n \in Names : Remove(n)
  \/ \E n \in Names, v \in Values : Patch(n, v)
  \/ \E n \in Names, v \in Values : Create(n, v)
  \/ \E m \in muts : Succeeds(m)
  \/ \E m \in muts : Fails(m)

\* usePoll has one interval for a stream that is up and another for one that is
\* down, and the query library starts its timer anew when the interval changes:
\* polls are certain to come round only if the stream does not go up and down
\* for ever.
PollsComeRound == ([]<>stream.up /\ []<>~stream.up) \/ WF_cacheVars(Poll)

\* The server answers what it was asked, and fetches do not fail, or get
\* cancelled, for ever.  Nothing is assumed of the stream, of other clients or
\* of the user.
CacheFairness ==
  /\ PollsComeRound
  /\ SF_cacheVars(ServerReads)
  /\ SF_cacheVars(FetchAnswered)

CacheSpec == CacheInit /\ [][CacheNext]_cacheVars /\ CacheFairness

---------------------------------------------------------------------------
Mutations ==
  [op : {"remove", "patch", "create"}, name : Names, value : Values \cup {Gone},
   state : {"sent", "done"}, at : Nat, prev : Rows, prevAsOf : Nat]

TypeOK ==
  /\ server \in [rows : Rows, version : Nat]
  /\ cache \in [rows : Rows, asOf : Nat, error : BOOLEAN]
  /\ fetch \in {Idle, Sent} \cup [state : {"read"}, rows : Rows, asOf : Nat]
  /\ muts \subseteq Mutations
  /\ stream \in [up : BOOLEAN, frame : BOOLEAN]
  /\ acked \in Nat /\ refetch \in BOOLEAN

\* A write the server has not answered is on the screen.
OptimisticWrite == \E m \in muts : m.op # "create"

\* Once a mutation was answered, a page that shows no unanswered write and no
\* error and fetches nothing shows rows read at that change or later: neither
\* a poll started before it, nor a rollback, nor a fetch another mutation
\* cancelled leaves older rows on the screen.  For the lists that refetch after
\* a success.
ReadYourWrites ==
  refetch /\ ~OptimisticWrite /\ fetch = Idle /\ ~cache.error => cache.asOf >= acked

StreamRests == <>[]stream.up \/ <>[]~stream.up

\* If the user, the other clients, the server and the stream come to rest, the
\* page ends up with the server's rows and keeps them, whatever frames were
\* lost and whatever was rolled back to.
Converges ==
  <>[](muts = {}) /\ StreamRests => <>[](cache.rows = server.rows)

\* "Purely additive -- if the stream drops, the existing query polling still
\* refreshes everything" (realtime.tsx:34).  It does not hold: a stream that
\* is opened and dropped again within each interval keeps every poll from
\* coming round, and opening it refreshes nothing.
PollingStillRefreshes ==
  <>[](muts = {}) => <>[](cache.rows = server.rows)

\* "onMutate cancels in-flight polls (so a refetch can't clobber the write)":
\* a row stays removed while its removal waits for the server.  It does not
\* hold: the cancellation covers the fetch under way, and a poll, a frame or
\* another mutation's refetch starts the next one before the answer.
RemovalNotClobbered ==
  \A m \in muts : m.op = "remove" => cache.rows[m.name] = Gone
============================================================================

---------------------------- MODULE MetricsPages ----------------------------
(***************************************************************************)
(* The scraper that samples the manager's metrics into a ring of points    *)
(* for each series, and the pages that chart them: the dashboard, the live *)
(* volumes, the details of a node.                                         *)
(***************************************************************************)
EXTENDS Naturals, Sequences, FiniteSets

CONSTANTS Volumes,    \* reported with the label of a volume and that of its node
          Gauges,     \* of nodes and of their disks: reported with the label of a node only
          Nodes,
          Window,     \* points of a series
          StaleAfter, \* scrapes a series outlives what it is about
          MaxTime,    \* scrapes (bound)
          None

VARIABLES query, \* what the manager reports, the scraper, what a page has fetched
          ui     \* the page

metricsVars == <<query, ui>>

Things == Volumes \cup Gauges

Pages == {"dashboard", "live", "node"}

---------------------------------------------------------------------------
(* What the manager reports: where each thing is and, of volumes, whether  *)
(* it is healthy                                                           *)

\* Only the page of a node tells nodes apart (bound).
Moves(v, n) ==
  /\ v \in DOMAIN query.there /\ ui.page = "node" /\ n # query.there[v].node
  /\ query' = [query EXCEPT !.there[v].node = n]
  /\ UNCHANGED ui

Degrades(v) ==
  /\ v \in DOMAIN query.there /\ ui.page = "dashboard"
  /\ query' = [query EXCEPT !.there[v].healthy = ~@]
  /\ UNCHANGED ui

Removed(k) ==
  /\ k \in DOMAIN query.there
  /\ query' = [query EXCEPT !.there = [j \in DOMAIN query.there \ {k} |-> query.there[j]]]
  /\ UNCHANGED ui

---------------------------------------------------------------------------
(* poll.  A sample is its time, its thing and where that was             *)

Key(k) == IF k \in Volumes THEN k ELSE query.there[k].node

Ring(points) == IF Len(points) > Window THEN SubSeq(points, Len(points) - Window + 1, Len(points)) ELSE points

\* The samples of one scrape of the things with a key, in the order reported.
Sampled(key) ==
  LET things == {k \in DOMAIN query.there : Key(k) = key}
      order == CHOOSE f \in [1..Cardinality(things) -> things] : \A i, j \in DOMAIN f : i # j => f[i] # f[j]
  IN  [i \in DOMAIN order |-> [t |-> query.now + 1, of |-> order[i], node |-> query.there[order[i]].node]]

\* A series has the labels of its first sample for as long as it lasts.
Appended ==
  [key \in DOMAIN query.series \cup {Key(k) : k \in DOMAIN query.there} |->
     IF key \in DOMAIN query.series
     THEN [query.series[key] EXCEPT !.points = Ring(@ \o Sampled(key))]
     ELSE [node |-> IF key \in Volumes THEN query.there[key].node ELSE key, points |-> Ring(Sampled(key))]]

LastTime(s) == s.points[Len(s.points)].t

\* Seeded fault: no series is dropped.
Unpruned(series) == series

\* A series that stopped is dropped, by a scrape that works.
Pruned(series) ==
  [key \in {k \in DOMAIN series : LastTime(series[k]) + StaleAfter >= query.now + 1} |-> series[key]]

Scrape ==
  /\ query.now < MaxTime
  /\ query' = [query EXCEPT !.now = @ + 1, !.lastErr = FALSE, !.ok = query.now + 1, !.series = Pruned(Appended)]
  /\ UNCHANGED ui

ScrapeFails ==
  /\ query.now < MaxTime
  /\ query' = [query EXCEPT !.now = @ + 1, !.lastErr = TRUE]
  /\ UNCHANGED ui

---------------------------------------------------------------------------
(* A page, with its own copies of the volumes, the series and the health   *)

MetricsInit ==
  /\ \E where \in [Things -> Nodes] :
       query = [there |-> [k \in Things |-> [node |-> where[k], healthy |-> TRUE]],
                now |-> 0, ok |-> 0, lastErr |-> FALSE, series |-> <<>>]
  /\ \E p \in Pages, n \in Nodes :
       /\ p # "node" => n = CHOOSE m \in Nodes : TRUE
       /\ ui = [page |-> p, node |-> n, volumes |-> None, series |-> None, capacity |-> {}, health |-> None]

VolumesFetched ==
  /\ ui.page # "node"
  /\ ui' = [ui EXCEPT !.volumes = [v \in DOMAIN query.there \cap Volumes |-> query.there[v].healthy]]
  /\ UNCHANGED query

\* What the gauge of a node shows: the last sample of the series of the node.
latest(series, n) == IF n \in DOMAIN series THEN {series[n].points[Len(series[n].points)]} ELSE {}

\* With the capacity, for which the server adds the last point of each series.
SeriesFetched ==
  /\ ui' = [ui EXCEPT !.series = query.series,
                      !.capacity = {sample.of : sample \in UNION {latest(query.series, n) : n \in Nodes}}]
  /\ UNCHANGED query

\* The server's account of the health warns of a scrape that failed, and of
\* nothing else.
HealthFetched == ui.page = "dashboard" /\ ui' = [ui EXCEPT !.health = query.lastErr] /\ UNCHANGED query

\* Volumes that were not fetched yet are none, and so is a health that was not.
healthy == ui.volumes # None => \A v \in DOMAIN ui.volumes : ui.volumes[v]

providerHealthy == healthy /\ ui.health # TRUE

\* The live page leaves out series whose volume is gone.
byVolume == {v \in DOMAIN ui.series \cap Volumes : ui.volumes # None /\ v \in DOMAIN ui.volumes}

nodeThroughput == {v \in DOMAIN ui.series \cap Volumes : ui.series[v].node = ui.node}

Longest(keys) ==
  IF keys = {} THEN 0
  ELSE Len(ui.series[CHOOSE k \in keys : \A j \in keys : Len(ui.series[j].points) <= Len(ui.series[k].points)].points)

\* The samples added up into each point: the last points of all series meet.
aggregateSeries(keys) ==
  [i \in 1..Longest(keys) |->
     {ui.series[k].points[i - (Longest(keys) - Len(ui.series[k].points))] :
        k \in {j \in keys : i > Longest(keys) - Len(ui.series[j].points)}}]

\* The live page charts each volume on its own, the dashboard all of them.
LiveCharts == {aggregateSeries({v}) : v \in byVolume}

NodeCharts == {aggregateSeries(nodeThroughput)}

ClusterCharts == {aggregateSeries(DOMAIN ui.series \cap Volumes)}

Charts ==
  CASE ui.page = "live" -> LiveCharts
    [] ui.page = "node" -> NodeCharts
    [] ui.page = "dashboard" -> ClusterCharts

---------------------------------------------------------------------------
MetricsNext ==
  \/ \E v \in Volumes, n \in Nodes : Moves(v, n)
  \/ \E v \in Volumes : Degrades(v)
  \/ \E k \in Things : Removed(k)
  \/ Scrape
  \/ ScrapeFails
  \/ VolumesFetched
  \/ SeriesFetched
  \/ HealthFetched

MetricsSpec == MetricsInit /\ [][MetricsNext]_metricsVars

---------------------------------------------------------------------------
TypeOK ==
  /\ DOMAIN query.there \subseteq Things /\ query.ok <= query.now /\ query.now <= MaxTime
  /\ \A key \in DOMAIN query.series : query.series[key].node \in Nodes /\ Len(query.series[key].points) <= Window
  /\ ui.page \in Pages /\ ui.health \in {None, TRUE, FALSE} /\ ui.capacity \subseteq Gauges

\* After a scrape that worked no series is a ghost: each was sampled within
\* StaleAfter scrapes, and a point is never older than the ring.
NoGhosts ==
  \A key \in DOMAIN query.series :
    LET points == query.series[key].points
    IN  /\ points # <<>> /\ LastTime(query.series[key]) + StaleAfter >= query.ok
        /\ \A i, j \in DOMAIN points : i < j => points[i].t <= points[j].t

\* "Sum matching throughput series point-wise": what is added up into one point
\* was sampled at one time.  (It is not so once a volume is gone, or missing
\* from a scrape: its last sample is added to the newest of the others.)
PointWise ==
  ui.series # None => \A chart \in Charts : \A i \in DOMAIN chart : \A a, b \in chart[i] : a.t = b.t

\* "Sum matching volume-throughput series for one node": all of it was sampled
\* there.  (It is not so once a volume has moved: its series keeps the label of
\* its first sample, and is charted for the node the volume left.)
NodeOfItsVolumes ==
  ui.series # None /\ ui.page = "node"
  => \A chart \in Charts : \A i \in DOMAIN chart : \A sample \in chart[i] : sample.node = ui.node

\* Each gauge the manager reports is the last point of a series after a scrape,
\* and is counted in the capacity.  (Disks of one node share a series.)
EachGaugeCounted ==
  [][query'.ok # query.ok
     => Gauges \cap DOMAIN query.there
          \subseteq {sample.of : sample \in UNION {latest(query'.series, n) : n \in Nodes}}]_metricsVars

\* A dashboard that finds the provider healthy has asked for its health.
HealthyWhenAsked == ui.page = "dashboard" /\ ui.volumes # None /\ providerHealthy => ui.health # None
=============================================================================

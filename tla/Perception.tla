----------------------------- MODULE Perception -----------------------------
(***************************************************************************)
(* Drishti (services/api/app/engines/drishti.py): what a poll or a push    *)
(* harvested goes through the ingestion buffer to the event store, then    *)
(* through the detector, the graph and the correlator.                     *)
(*                                                                         *)
(* One engine serves several handlers: the thread that polls and the ones  *)
(* that are pushed to share its buffer, its baselines and the rules it     *)
(* has met.  A handler's calls to the store, to the graph and to the       *)
(* buffer, down to each query of the correlator, are separate steps,       *)
(* between which others run, the store raises or the process dies.         *)
(***************************************************************************)
EXTENDS Topology, Baselines, IngestionBuffer

CONSTANTS
  Handlers,           \* calls of poll and receive_otlp
  Harvests,           \* what each of them may bring
  CorrelationWindow,  \* DEFAULT_WINDOW, in ticks
  MaxDepth,           \* DEFAULT_MAX_DEPTH
  Backends,           \* the stores a deployment may have
  MaxFaults,          \* bound: restarts of the process and prunings
  Retired             \* the entities a pruning may find stale

Classes == {"alert", "metric", "trace", "change"}

ASSUME PerceptionAssumption ==
  /\ Backends \subseteq {"memory", "postgres"}
  /\ CorrelationWindow \in Nat /\ MaxDepth \in Nat
  /\ MaxFaults \in Nat
  /\ IsFiniteSet(Handlers) /\ DOMAIN Harvests = Handlers
  /\ \A h \in Handlers : \A v \in Harvests[h] :
       /\ v.quarantined \in Nat /\ v.errors \in Nat
       /\ v.events \in Seq(Range(v.events))
       /\ \A i \in DOMAIN v.events : v.events[i].class \in Classes /\ v.events[i].value \in Int
                                  /\ v.events[i].at \in Int

VARIABLES
  backend,     \* the store of this deployment
  stored,      \* the event table
  quarantined, \* events held aside, counted
  buffer,      \* ingestion.buffer
  baselines,   \* BaselineStore._baselines
  claims,      \* UpstreamRules._claimed
  graph,       \* the topology tables, or their mirror in memory
  pruning,     \* candidates a prune_stale has read and not yet deleted
  prunes,
  crashes,
  pc,          \* where each handler is
  harvest,     \* what it brought, each event under a fresh id
  hand,        \* the batch it has drained and not yet written
  todo,        \* the events it has yet to detect on, by their place in its harvest
  asking,      \* what its correlator has still to ask of the graph, and was told
  result,      \* its PollResult
  shown,       \* the buffer's drops as the newest observation on the trail has them
  views,       \* history: the graphs there have been since its correlation began
  untold       \* history: drops and failed batches on results that nobody got

engine == <<buffer, baselines, claims>>
durable == <<stored, quarantined, graph>>
bounds == <<backend, pruning, prunes, crashes>>
told == <<shown, untold>>
correlator == <<asking, views>>
locals == <<pc, harvest, hand, todo, result>>
vars == <<engine, durable, bounds, locals, correlator, told>>

Ended == {"new", "done", "failed", "lost"}
Steps == {"flush", "writing", "quarantine", "detect", "edges", "correlate", "audit"}

NoResult == [dropped |-> 0, written |-> 0, failed |-> 0, findings |-> <<>>, incidents |-> {}]
NothingToAsk == [pairs |-> {}, turned |-> FALSE, related |-> {}]
NoHarvest == [events |-> <<>>, edges |-> <<>>, quarantined |-> 0, errors |-> 0]

\* Normalisation gives every event an id of its own (new_event_id), also the
\* second time the same sample is polled.
Identified(id, e) ==
  [id |-> id, class |-> e.class, entity |-> e.entity, signal |-> e.signal, value |-> e.value,
   at |-> e.at, hops |-> e.hops]
Normalised(h, v) ==
  [events |-> [i \in DOMAIN v.events |-> Identified(<<h, i>>, v.events[i])],
   edges |-> v.edges, quarantined |-> v.quarantined, errors |-> v.errors]

Goto(h, next) == pc' = [pc EXCEPT ![h] = next]

\* The exception leaves _absorb with everything that was on its result.
Raise(h) ==
  /\ Goto(h, "failed")
  /\ untold' = [dropped |-> untold.dropped + result[h].dropped,
                failed |-> untold.failed + result[h].failed]
  /\ result' = [result EXCEPT ![h] = NoResult]
  /\ asking' = [asking EXCEPT ![h] = NothingToAsk]
  /\ views' = [views EXCEPT ![h] = {}]
  /\ UNCHANGED <<harvest, hand, todo>>

\* Whoever is correlating may meet the graph as it now is.
Witnessed == views' = [h \in Handlers |-> IF pc[h] = "correlate" THEN views[h] \cup {graph'} ELSE views[h]]

-----------------------------------------------------------------------------
Init ==
  /\ backend \in Backends
  /\ stored = {} /\ quarantined = 0 /\ graph = EmptyGraph
  /\ buffer = EmptyBuffer
  /\ baselines = [k \in {} |-> <<>>]
  /\ claims = {}
  /\ pruning = {} /\ prunes = 0 /\ crashes = 0
  /\ pc = [h \in Handlers |-> "new"]
  /\ harvest = [h \in Handlers |-> NoHarvest]
  /\ hand = [h \in Handlers |-> <<>>]
  /\ todo = [h \in Handlers |-> {}]
  /\ asking = [h \in Handlers |-> NothingToAsk]
  /\ result = [h \in Handlers |-> NoResult]
  /\ shown = 0 /\ untold = [dropped |-> 0, failed |-> 0]
  /\ views = [h \in Handlers |-> {}]

\* The harvest is in and submitted to the buffer, and what is pushed out is
\* counted.  The errors of a PollResult are its harvest's, the note of its
\* drops and one for each batch that failed: the last two are its `dropped`
\* and `failed` here.
Submit(h, v) ==
  /\ pc[h] = "new"
  /\ LET nv == Normalised(h, v)
         out == PushedOut(buffer, nv.events)
     IN /\ harvest' = [harvest EXCEPT ![h] = nv]
        /\ buffer' = Offer(buffer, nv.events)
        /\ result' = [result EXCEPT ![h].dropped = out]
  /\ Goto(h, "flush")
  /\ UNCHANGED <<baselines, claims, durable, bounds, hand, todo, correlator, told>>

\* drain_all: the next batch, until there is none; whoever drains writes,
\* whichever handler submitted it.
Drain(h) ==
  /\ pc[h] = "flush"
  /\ hand' = [hand EXCEPT ![h] = Batch(buffer)]
  /\ buffer' = Drained(buffer)
  /\ Goto(h, IF buffer.items = <<>> THEN "quarantine" ELSE "writing")
  /\ UNCHANGED <<baselines, claims, durable, bounds, harvest, todo, result, correlator, told>>

HandSet(h) == {hand[h][i] : i \in DOMAIN hand[h]}

\* Slip: a flush is one batch.
WriteOnce(h) ==
  /\ pc[h] = "writing"
  /\ stored' = stored \cup HandSet(h)
  /\ result' = [result EXCEPT ![h].written = @ + Len(hand[h])]
  /\ hand' = [hand EXCEPT ![h] = <<>>]
  /\ Goto(h, "quarantine")
  /\ UNCHANGED <<engine, quarantined, graph, bounds, harvest, todo, correlator, told>>

\* save_events: one transaction per batch.
Write(h) ==
  /\ pc[h] = "writing"
  /\ stored' = stored \cup HandSet(h)
  /\ result' = [result EXCEPT ![h].written = @ + Len(hand[h])]
  /\ hand' = [hand EXCEPT ![h] = <<>>]
  /\ Goto(h, "flush")
  /\ UNCHANGED <<engine, quarantined, graph, bounds, harvest, todo, correlator, told>>

\* Slip: the failure is logged somewhere else and not put on the result.
WriteFailsQuietly(h) ==
  /\ pc[h] = "writing" /\ backend = "postgres"
  /\ stored' \in {stored, stored \cup HandSet(h)}
  /\ hand' = [hand EXCEPT ![h] = <<>>]
  /\ Goto(h, "flush")
  /\ UNCHANGED <<engine, quarantined, graph, bounds, harvest, todo, result, correlator, told>>

\* The write raises, before or after it committed: the batch is reported and
\* given up, and the drain goes on.
WriteFails(h) ==
  /\ pc[h] = "writing" /\ backend = "postgres"
  /\ stored' \in {stored, stored \cup HandSet(h)}
  /\ result' = [result EXCEPT ![h].failed = @ + 1]
  /\ hand' = [hand EXCEPT ![h] = <<>>]
  /\ Goto(h, "flush")
  /\ UNCHANGED <<engine, quarantined, graph, bounds, harvest, todo, correlator, told>>

ClassOf(h, i) == harvest[h].events[i].class

\* store.quarantine; then detection starts, on what was harvested, whether
\* or not it was stored.
Quarantine(h) ==
  /\ pc[h] = "quarantine"
  /\ quarantined' = IF backend = "postgres" THEN quarantined + harvest[h].quarantined
                                            ELSE quarantined
  /\ todo' = [todo EXCEPT ![h] = {i \in DOMAIN harvest[h].events : ClassOf(h, i) \in {"alert", "metric"}}]
  /\ Goto(h, "detect")
  /\ UNCHANGED <<engine, stored, graph, bounds, harvest, hand, result, correlator, told>>

-----------------------------------------------------------------------------
Pair(e) == <<e.entity, e.signal>>
Samples(k) == IF k \in DOMAIN baselines THEN baselines[k] ELSE <<>>

FindingOf(e, source) ==
  [entity |-> e.entity, signal |-> e.signal, at |-> e.at, source |-> source, id |-> e.id]

\* Slip: the events are taken in the order they came.
InOrder(h, i) == i \in todo[h] /\ \A j \in todo[h] : i <= j

\* Detector.process: every alert of the batch before any of its metrics.
AlertsFirst(h, i) ==
  /\ i \in todo[h]
  /\ \A j \in todo[h] : IF ClassOf(h, j) = ClassOf(h, i) THEN i <= j ELSE ClassOf(h, i) = "alert"

\* Its i-th event is over; it found something, or nothing.
Detected(h, i, found) ==
  /\ todo' = [todo EXCEPT ![h] = @ \ {i}]
  /\ result' = [result EXCEPT ![h].findings =
                  IF found = {} THEN @ ELSE Append(@, CHOOSE f \in found : TRUE)]
  /\ UNCHANGED <<buffer, durable, bounds, pc, harvest, hand, correlator, told>>

\* _from_alert: the rule claims the pair also when the alert is resolved.
DetectAlert(h, i) ==
  /\ pc[h] = "detect" /\ AlertsFirst(h, i) /\ ClassOf(h, i) = "alert"
  /\ LET e == harvest[h].events[i]
     IN /\ claims' = claims \cup {Pair(e)}
        /\ Detected(h, i, IF e.value = 0 THEN {} ELSE {FindingOf(e, "upstream")})
  /\ UNCHANGED baselines

\* _from_metric: learn always; judge, before learning, only what no upstream
\* rule owns.
DetectMetric(h, i) ==
  /\ pc[h] = "detect" /\ AlertsFirst(h, i) /\ ClassOf(h, i) = "metric"
  /\ LET e == harvest[h].events[i]
         j == Judged(Samples(Pair(e)), e.value)
     IN /\ baselines' = [k \in DOMAIN baselines \cup {Pair(e)} |->
                           IF k = Pair(e) THEN j.next ELSE baselines[k]]
        /\ Detected(h, i, IF Pair(e) \notin claims /\ IsAnomalous(j.band)
                         THEN {FindingOf(e, "baseline")} ELSE {})
  /\ UNCHANGED claims

-----------------------------------------------------------------------------
\* The services of a trace's consecutive hops; a self-call is no dependency.
HopEdges(e) ==
  IF e.class # "trace" THEN {}
  ELSE {<<e.hops[i], e.hops[i + 1]>> : i \in {j \in 1..Len(e.hops) - 1 : e.hops[j] # e.hops[j + 1]}}

\* TopologyBuilder.build: a node for every event and every hop, then the
\* observed edges in order, whose targets are added if their sources are there.
Delta(v) ==
  LET evs == {v.events[i] : i \in DOMAIN v.events}
      hops == UNION {HopEdges(e) : e \in evs}
      fromEvents == [nodes |-> {e.entity : e \in evs} \cup UNION {{x[1], x[2]} : x \in hops},
                     edges |-> hops]
  IN FoldLeft(LAMBDA d, x :
                [nodes |-> IF x[1] \in d.nodes THEN d.nodes \cup {x[2]} ELSE d.nodes,
                 edges |-> d.edges \cup {x}], fromEvents, v.edges)

\* Detection is over and the delta of the harvest is built.
UpsertNodes(h) ==
  /\ pc[h] = "detect" /\ todo[h] = {}
  /\ graph' = [graph EXCEPT !.nodes = @ \cup Delta(harvest[h]).nodes]
  /\ Goto(h, "edges")
  /\ Witnessed
  /\ UNCHANGED <<engine, stored, quarantined, bounds, harvest, hand, todo, result, asking, told>>

EndpointsKnown(edges, nodes) == \A x \in edges : x[1] \in nodes /\ x[2] \in nodes

\* Postgres refuses a batch with an edge to a node that is not there (it was
\* pruned in between); the mirror in memory takes any.
UpsertEdges(h) ==
  /\ pc[h] = "edges"
  /\ backend = "postgres" => EndpointsKnown(Delta(harvest[h]).edges, graph.nodes)
  /\ graph' = [graph EXCEPT !.edges = @ \cup Delta(harvest[h]).edges]
  /\ IF result[h].findings = <<>>
       THEN Goto(h, "audit") /\ Witnessed /\ UNCHANGED asking
       ELSE /\ Goto(h, "correlate")
            /\ asking' = [asking EXCEPT ![h] = Opening(ByTime(result[h].findings), CorrelationWindow)]
            /\ views' = [k \in Handlers |-> IF k = h THEN {graph'}
                                           ELSE IF pc[k] = "correlate" THEN views[k] \cup {graph'}
                                           ELSE views[k]]
  /\ UNCHANGED <<engine, stored, quarantined, bounds, harvest, hand, todo, result, told>>

EdgesRefused(h) ==
  /\ pc[h] = "edges" /\ backend = "postgres"
  /\ ~EndpointsKnown(Delta(harvest[h]).edges, graph.nodes)
  /\ Raise(h)
  /\ UNCHANGED <<engine, durable, bounds, shown>>

\* The pair the double loop has come to.
IsNext(p, pairs) ==
  p \in pairs /\ \A q \in pairs : p[1] < q[1] \/ (p[1] = q[1] /\ p[2] <= q[2])

\* What a query says of the pair, and what there is then to ask.
Related(a, p) == [pairs |-> a.pairs \ {p}, turned |-> FALSE, related |-> a.related \cup {p}]
Unrelated(a, p) == [pairs |-> a.pairs \ {p}, turned |-> FALSE, related |-> a.related]
Turned(a) == [pairs |-> a.pairs, turned |-> TRUE, related |-> a.related]

Asks(h, next) ==
  /\ asking' = [asking EXCEPT ![h] = next]
  /\ UNCHANGED <<engine, durable, bounds, locals, views, told>>

\* Slip: the radius is asked for in one direction only.
AskForwardOnly(h, p) ==
  /\ pc[h] = "correlate" /\ IsNext(p, asking[h].pairs) /\ ~asking[h].turned
  /\ LET fs == ByTime(result[h].findings)
     IN Asks(h, IF fs[p[2]].entity \in BlastRadius(graph, fs[p[1]].entity, MaxDepth)
                THEN Related(asking[h], p) ELSE Unrelated(asking[h], p))

\* TopologyStore.adjacent makes two queries on connections of their own: the
\* radius of the first entity, and that of the second if need be.
AskForward(h, p) ==
  /\ pc[h] = "correlate" /\ IsNext(p, asking[h].pairs) /\ ~asking[h].turned
  /\ LET fs == ByTime(result[h].findings)
     IN Asks(h, IF fs[p[2]].entity \in BlastRadius(graph, fs[p[1]].entity, MaxDepth)
                THEN Related(asking[h], p) ELSE Turned(asking[h]))

AskBack(h, p) ==
  /\ pc[h] = "correlate" /\ IsNext(p, asking[h].pairs) /\ asking[h].turned
  /\ LET fs == ByTime(result[h].findings)
     IN Asks(h, IF fs[p[1]].entity \in BlastRadius(graph, fs[p[2]].entity, MaxDepth)
                THEN Related(asking[h], p) ELSE Unrelated(asking[h], p))

\* Nothing is left to ask: the groups are the incidents.
Group(h) ==
  /\ pc[h] = "correlate" /\ asking[h].pairs = {}
  /\ result' = [result EXCEPT ![h].incidents =
                  Groups(ByTime(result[h].findings), asking[h].related)]
  /\ asking' = [asking EXCEPT ![h] = NothingToAsk]
  /\ views' = [views EXCEPT ![h] = {}]
  /\ Goto(h, "audit")
  /\ UNCHANGED <<engine, durable, bounds, harvest, hand, todo, told>>

CorrelateFindings(h) ==
  \/ \E p \in asking[h].pairs : AskForward(h, p) \/ AskBack(h, p)
  \/ Group(h)

\* The observation is on the trail, with the buffer's statistics, and the
\* caller has its result.
Audit(h) ==
  /\ pc[h] = "audit"
  /\ shown' = buffer.dropped
  /\ Goto(h, "done")
  /\ UNCHANGED <<engine, durable, bounds, harvest, hand, todo, result, correlator, untold>>

\* Outside the flush nothing catches what the store raises: the handler ends
\* there, with whatever it has done.  The observation may have been written
\* when its append raises.
StoreRaises(h) ==
  /\ backend = "postgres"
  /\ \/ pc[h] = "quarantine" /\ harvest[h].quarantined > 0
     \/ pc[h] = "detect" /\ todo[h] = {}
     \/ pc[h] \in {"edges", "correlate", "audit"}
  /\ shown' = shown \/ (pc[h] = "audit" /\ shown' = buffer.dropped)
  /\ Raise(h)
  /\ UNCHANGED <<engine, durable, bounds>>

-----------------------------------------------------------------------------
\* prune_stale(dry_run=False) reads its candidates and deletes them by key in
\* another transaction.  Ages are not modelled: what may be stale, may be
\* stale at any time.
ReadCandidates ==
  /\ backend = "postgres" /\ prunes + crashes < MaxFaults /\ pruning = {}
  /\ pruning' \in (SUBSET (graph.nodes \cap Retired)) \ {{}}
  /\ prunes' = prunes + 1
  /\ UNCHANGED <<engine, durable, locals, correlator, told, backend, crashes>>

Prune ==
  /\ pruning # {}
  /\ graph' = [nodes |-> graph.nodes \ pruning,
               edges |-> {x \in graph.edges : {x[1], x[2]} \cap pruning = {}}]
  /\ pruning' = {}
  /\ Witnessed
  /\ UNCHANGED <<engine, stored, quarantined, locals, asking, told, backend, prunes, crashes>>

\* The process dies: what it held in memory is gone, a store in memory too.
Crash ==
  /\ prunes + crashes < MaxFaults
  /\ crashes' = crashes + 1
  /\ buffer' = EmptyBuffer /\ baselines' = [k \in {} |-> <<>>] /\ claims' = {}
  /\ pc' = [h \in Handlers |-> IF pc[h] \in Ended THEN pc[h] ELSE "lost"]
  /\ hand' = [h \in Handlers |-> <<>>]
  /\ todo' = [h \in Handlers |-> {}]
  /\ asking' = [h \in Handlers |-> NothingToAsk] /\ views' = [h \in Handlers |-> {}]
  /\ IF backend = "memory"
       THEN stored' = {} /\ quarantined' = 0 /\ graph' = EmptyGraph
       ELSE UNCHANGED durable
  /\ UNCHANGED <<backend, pruning, prunes, harvest, result, told>>

Flushes(h) == Drain(h) \/ Write(h) \/ WriteFails(h)

Proceeds(h) ==
  \/ Flushes(h)
  \/ Quarantine(h) \/ \E i \in todo[h] : DetectAlert(h, i) \/ DetectMetric(h, i)
  \/ UpsertNodes(h) \/ UpsertEdges(h) \/ EdgesRefused(h)
  \/ CorrelateFindings(h) \/ Audit(h) \/ StoreRaises(h)

Next ==
  \/ \E h \in Handlers : Proceeds(h) \/ \E v \in Harvests[h] : Submit(h, v)
  \/ ReadCandidates \/ Prune \/ Crash

Spec == Init /\ [][Next]_vars

\* A handler that is flushing runs on: it is a thread of a live process, and
\* every write returns or raises.
FairSpec == Spec /\ \A h \in Handlers : WF_vars(Flushes(h))

-----------------------------------------------------------------------------
TypeOK ==
  /\ backend \in Backends
  /\ pc \in [Handlers -> Ended \cup Steps]
  /\ Len(buffer.items) <= Capacity /\ buffer.highWater <= Capacity
  /\ \A k \in DOMAIN baselines : Len(baselines[k]) \in 1..WindowSize
  /\ \A h \in Handlers : Len(hand[h]) <= BatchSize
  /\ quarantined \in Nat /\ prunes + crashes \in 0..MaxFaults

Events(s) == {s[i] : i \in DOMAIN s}
Submitted == UNION {Events(harvest[h].events) : h \in Handlers}
Held == Events(buffer.items) \cup UNION {HandSet(h) : h \in Handlers}
Lost == Submitted \ (stored \cup Held)
Total(f) == Cardinality(UNION {{h} \X (1..f[h]) : h \in DOMAIN f})

\* Until the process dies, no event is lost without a count: what is neither
\* stored nor on its way was pushed out and counted by the buffer, or was in a
\* batch whose write failed; and each of those counts is on a result a caller
\* gets, or went down with the handler that had it (`DropsAreSurfaced` below).
LossIsCounted ==
  crashes = 0 =>
    /\ buffer.dropped = Total([h \in Handlers |-> result[h].dropped]) + untold.dropped
    /\ Cardinality(Lost) <=
         buffer.dropped + BatchSize * (Total([h \in Handlers |-> result[h].failed]) + untold.failed)

\* "Drops are counted and surfaced, never silent" (buffer.py): when every
\* handler has ended, the trail shows the drops there have been.
DropsAreSurfaced ==
  crashes = 0 /\ (\A h \in Handlers : pc[h] \in Ended) => shown = buffer.dropped

\* Handlers flush one another's events, and yet no event is drained by two of
\* them, written twice or written and kept: what was accepted is divided among
\* the queue, the hands and the store, and the rest is lost.
EachEventIsInOnePlace ==
  crashes = 0 =>
    /\ buffer.accepted = Cardinality(Submitted)
    /\ Held \cup stored \subseteq Submitted
    /\ IsInjective(buffer.items) /\ \A h \in Handlers : IsInjective(hand[h])
    /\ stored \cap Held = {}
    /\ \A h \in Handlers :
         /\ HandSet(h) \cap Events(buffer.items) = {}
         /\ \A k \in Handlers \ {h} : HandSet(h) \cap HandSet(k) = {}

\* "Must reproduce, exactly, the semantics of TopologyGraph.blast_radius"
\* (graph.sql): on every graph perception builds, at every depth, the query
\* and the walk in memory reach the same keys besides the origin.
StoresAgreeOnImpact ==
  \A k \in graph.nodes, d \in 0..MaxDepth :
    BlastRadius(graph, k, d) \ {k} = SqlBlastRadius(graph, k, d)

\* A metric that has held one value for most of its window has that value as
\* its normal, and every other value is flagged: an incident must last longer
\* than half the window before the baseline takes it for normal.
MajorityDecides ==
  \A k \in DOMAIN baselines :
    LET s == baselines[k]
    IN \A m \in Events(s) :
         2 * Cardinality({i \in DOMAIN s : s[i] = m}) > Len(s) /\ Len(s) >= MinSamples =>
           \A v \in Events(s) \cup {m - 1, m + 1} :
             IsAnomalous(Evaluated(s, v)) <=> v # m

\* "Producing two findings for one fact" (detection.py): a pair an upstream
\* rule has claimed, in this batch or any before it, is not flagged by the
\* baseline as well.
UpstreamIsNotSeconded ==
  [][\A h \in Handlers :
       LET fs == result'[h].findings
       IN Len(fs) > Len(result[h].findings) /\ fs[Len(fs)].source = "baseline" =>
            LET pair == Pair(fs[Len(fs)])
            IN /\ pair \notin claims
               /\ \A e \in Events(harvest[h].events) : e.class = "alert" => Pair(e) # pair]_vars

Within(f1, f2) == Distance(f1.at, f2.at) <= CorrelationWindow
Reached(f1, f2, seen) == \E g \in seen : f2.entity \in BlastRadius(g, f1.entity, MaxDepth)
Missed(f1, f2, seen) == \E g \in seen : f2.entity \notin BlastRadius(g, f1.entity, MaxDepth)

Linked(f1, f2, seen) ==
  Within(f1, f2) /\ (f1.entity = f2.entity \/ Reached(f1, f2, seen) \/ Reached(f2, f1, seen))
Unlinked(f1, f2, seen) ==
  ~Within(f1, f2) \/ (f1.entity # f2.entity /\ Missed(f1, f2, seen) /\ Missed(f2, f1, seen))

\* However an incident is cut in two, a link crosses the cut.
OfOnePiece(incident, seen) ==
  \A part \in (SUBSET incident) \ {{}, incident} :
    \E f1 \in part, f2 \in incident \ part : Linked(f1, f2, seen)

\* "Findings merge only when the graph connects them and they are close in
\* time" (correlation.py), and transitively so, although the graph may change
\* under the queries: no incident falls into two parts without a pair between
\* them that some graph of the meantime linked, and no pair runs from one to
\* another unless each direction was missing at some time in between.
IncidentsAreLinked ==
  [][\A h \in Handlers : pc[h] = "correlate" /\ pc'[h] = "audit" =>
       LET incidents == result'[h].incidents
       IN /\ UNION incidents = Events(result[h].findings)
          /\ \A c, d \in incidents : c # d => \A f1 \in c, f2 \in d : Unlinked(f1, f2, views[h])
          /\ \A c \in incidents : OfOnePiece(c, views[h])]_vars

\* "One bad batch must not strand the rest of the backlog behind it": what
\* stands in the buffer is taken out of it, whatever the store does.
BufferEmpties == (buffer.items # <<>>) ~> (buffer.items = <<>>)

=============================================================================

------------------------------ MODULE Topology ------------------------------
(***************************************************************************)
(* The dependency graph and what is asked of it: blast radius as walked in *)
(* memory (packages/core/pashupatastra/topology.py) and as walked by the   *)
(* recursive query of Postgres (services/api/migrations/graph.sql), the    *)
(* adjacency test, and the grouping of findings into incidents             *)
(* (packages/core/pashupatastra/correlation.py).                           *)
(*                                                                         *)
(* A graph is a record of its node keys and its edges <<source, target>>:  *)
(* the source depends on the target, so failure travels to the source.     *)
(***************************************************************************)
EXTENDS Integers, Sequences, FiniteSets, FiniteSetsExt, SequencesExt

EmptyGraph == [nodes |-> {}, edges |-> {}]

Dependents(g, k) == {e[1] : e \in {x \in g.edges : x[2] = k}}

\* Slip: the frontier is never told what has been seen already, and depth is
\* counted one too far.
WalkTooFar(g, origin, depth) ==
  LET walk[d \in 0..depth + 1] ==
        IF d = 0 THEN [seen |-> {}, frontier |-> {origin}]
        ELSE LET new == UNION {Dependents(g, k) : k \in walk[d - 1].frontier}
             IN [seen |-> walk[d - 1].seen \cup new, frontier |-> new]
  IN walk[depth + 1].seen

\* TopologyGraph.blast_radius: breadth first, a key is queued the first time
\* it is seen, and the keys popped at max_depth are not expanded.  The origin
\* is not "seen" at the start, so a cycle through it puts it in the result.
BlastRadius(g, origin, depth) ==
  LET walk[d \in 0..depth] ==
        IF d = 0 THEN [seen |-> {}, frontier |-> {origin}]
        ELSE LET new == (UNION {Dependents(g, k) : k \in walk[d - 1].frontier})
                          \ walk[d - 1].seen
             IN [seen |-> walk[d - 1].seen \cup new, frontier |-> new]
  IN walk[depth].seen

\* blast_radius() in SQL: UNION deduplicates (key, depth) pairs, so a key may
\* come back at a greater depth; the origin is filtered at the end.
SqlBlastRadius(g, origin, depth) ==
  LET row[d \in 0..depth] ==
        IF d = 0 THEN {origin}
        ELSE UNION {Dependents(g, k) : k \in row[d - 1]}
  IN (UNION {row[d] : d \in 0..depth}) \ {origin}

-----------------------------------------------------------------------------
(***************************************************************************)
(* Correlation.  A finding is a record with an entity and the time `at`.   *)
(***************************************************************************)

\* The findings in the order of their time; equal times keep their order.
ByTime(fs) ==
  LET rank(i) == Cardinality({j \in DOMAIN fs :
                   fs[j].at < fs[i].at \/ (fs[j].at = fs[i].at /\ j <= i)})
  IN [r \in DOMAIN fs |-> fs[CHOOSE i \in DOMAIN fs : rank(i) = r]]

\* The pairs the double loop compares: the inner loop stops at the first
\* finding further away than the window.
Candidates(fs, window) ==
  {p \in (DOMAIN fs) \X (DOMAIN fs) :
     p[1] < p[2] /\ \A k \in p[1] + 1..p[2] : fs[k].at - fs[p[1]].at <= window}

\* Correlator._related: findings on one entity are related without a query,
\* and about every other pair the graph is asked.
Opening(fs, window) ==
  LET pairs == Candidates(fs, window)
      same == {p \in pairs : fs[p[1]].entity = fs[p[2]].entity}
  IN [pairs |-> pairs \ same, turned |-> FALSE, related |-> same]

\* union(i, j) over the representative each index finds.
Unite(root, i, j) ==
  [k \in DOMAIN root |-> IF root[k] = root[j] THEN root[i] ELSE root[k]]

\* The inner loop for i: each j in turn, joined when it is related.
UniteRow(root, related, i, n) ==
  LET after[j \in 0..n] ==
        IF j = 0 THEN root
        ELSE IF <<i, j>> \in related THEN Unite(after[j - 1], i, j) ELSE after[j - 1]
  IN after[n]

\* The double loop over n findings, each its own representative at first.
Roots(related, n) ==
  LET after[i \in 0..n] ==
        IF i = 0 THEN [k \in 1..n |-> k] ELSE UniteRow(after[i - 1], related, i, n)
  IN after[n]

\* Correlator.correlate: the findings by their representatives, each group
\* believed to be one incident.
Groups(fs, related) ==
  LET root == Roots(related, Len(fs))
  IN {{fs[i] : i \in {j \in DOMAIN fs : root[j] = root[k]}} : k \in DOMAIN fs}
=============================================================================

---------------------------- MODULE MCPerception ----------------------------
(***************************************************************************)
(* Instances of Perception for TLC: a pod, the service that owns it and a  *)
(* service in front of it.                                                 *)
(***************************************************************************)
EXTENDS Perception

Metric(entity, value, at) ==
  [class |-> "metric", entity |-> entity, signal |-> "latency",
   value |-> value, at |-> at, hops |-> <<>>]
Alert(entity, firing, at) ==
  [class |-> "alert", entity |-> entity, signal |-> "latency",
   value |-> firing, at |-> at, hops |-> <<>>]
Trace(hops, at) ==
  [class |-> "trace", entity |-> hops[1], signal |-> "-",
   value |-> 0, at |-> at, hops |-> hops]

\* A flat metric that jumps, on a pod whose owner emits nothing.
Jump ==
  [events |-> <<Metric("pod", 0, 0), Metric("pod", 9, 3)>>,
   edges |-> << <<"pod", "svc">> >>, quarantined |-> 0, errors |-> 0]

\* The rule for that metric, behind the sample it fired on.
Overlap ==
  [events |-> <<Metric("pod", 9, 3), Alert("pod", 1, 4)>>,
   edges |-> <<>>, quarantined |-> 1, errors |-> 1]

\* Alerts on the pod, on its owner and on what calls it; a call path that
\* closes a cycle.
Storm ==
  [events |-> <<Trace(<<"front", "db", "front">>, 1), Alert("front", 1, 4),
                Alert("svc", 1, 5), Alert("pod", 0, 4), Alert("pod", 1, 4)>>,
   edges |-> << <<"front", "svc">> >>, quarantined |-> 0, errors |-> 0]

CONSTANTS h1, h2
PollAndPush == h1 :> {Jump} @@ h2 :> {Overlap, Storm}
BothBackends == {"memory", "postgres"}
=============================================================================

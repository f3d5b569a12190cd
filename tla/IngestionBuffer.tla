-------------------------- MODULE IngestionBuffer ---------------------------
(***************************************************************************)
(* The bounded buffer between connectors and the store                     *)
(* (services/api/app/engines/buffer.py).  Its lock makes offer and drain   *)
(* one step each; a buffer is a record of its items and its statistics.    *)
(***************************************************************************)
EXTENDS Integers, Sequences

CONSTANTS
  Capacity,    \* IngestionBuffer.capacity
  BatchSize    \* max_items of a drain

ASSUME BufferAssumption == Capacity \in Nat \ {0} /\ BatchSize \in Nat \ {0}

EmptyBuffer == [items |-> <<>>, accepted |-> 0, dropped |-> 0, highWater |-> 0]

\* Slip: the bound is forgotten.
KeepAll(s, k) == s

\* The last k items of s, or all of them.
Newest(s, k) == IF Len(s) <= k THEN s ELSE SubSeq(s, Len(s) - k + 1, Len(s))

\* How many of the oldest items are pushed out when `new` are offered.
PushedOut(b, new) ==
  IF Len(b.items) + Len(new) <= Capacity THEN 0
  ELSE Len(b.items) + Len(new) - Capacity

\* offer: append all, dropping the oldest to make room; the high water mark
\* is taken once, at the end.
Offer(b, new) ==
  LET items == Newest(b.items \o new, Capacity)
  IN [items |-> items,
      accepted |-> b.accepted + Len(new),
      dropped |-> b.dropped + PushedOut(b, new),
      highWater |-> IF Len(items) > b.highWater THEN Len(items) ELSE b.highWater]

\* drain: up to BatchSize of the oldest items, and what remains.
Batch(b) ==
  IF Len(b.items) <= BatchSize THEN b.items ELSE SubSeq(b.items, 1, BatchSize)

\* Slip: the batch is copied out and all but its last item removed.
DrainedOneShort(b) ==
  IF b.items = <<>> THEN b
  ELSE [b EXCEPT !.items = SubSeq(b.items, Len(Batch(b)), Len(b.items))]

Drained(b) ==
  [b EXCEPT !.items = SubSeq(b.items, Len(Batch(b)) + 1, Len(b.items))]
=============================================================================

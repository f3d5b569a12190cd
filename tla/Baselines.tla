----------------------------- MODULE Baselines ------------------------------
(***************************************************************************)
(* Robust baselines (packages/core/pashupatastra/baselines.py): a rolling  *)
(* window of samples judged by its median and its median absolute          *)
(* deviation.  Values are integers; the median is kept doubled and the     *)
(* deviation quadrupled so that both stay integers.                        *)
(***************************************************************************)
EXTENDS Integers, Sequences, FiniteSets, SequencesExt

CONSTANTS
  MinSamples,    \* MIN_SAMPLES: below it a baseline does not judge
  WindowSize,    \* Baseline.window: the samples it keeps
  Threshold      \* Baseline.threshold, in sigmas

ASSUME BaselineAssumption ==
  MinSamples \in Nat \ {0} /\ WindowSize \in Nat \ {0} /\ Threshold \in Nat \ {0}

Bands == {"unknown", "normal", "high", "low"}

Distance(x, y) == IF x >= y THEN x - y ELSE y - x

\* The k-th smallest element of a sequence of integers.
KthSmallest(s, k) ==
  LET rank(i) == Cardinality({j \in DOMAIN s : s[j] < s[i] \/ (s[j] = s[i] /\ j <= i)})
  IN s[CHOOSE i \in DOMAIN s : rank(i) = k]

\* Slip: the upper end of the range stands for the middle.
TopTwice(s) == 2 * KthSmallest(s, Len(s))

\* statistics.median, doubled: the sum of the two middle elements.
TwiceMedian(s) ==
  KthSmallest(s, (Len(s) + 1) \div 2) + KthSmallest(s, Len(s) \div 2 + 1)

\* The median distance from the median, doubled twice; mad divides it by
\* 0.6745 to compare it with a sigma.
FourMad(s) ==
  LET m == TwiceMedian(s)
  IN TwiceMedian([i \in DOMAIN s |-> Distance(2 * s[i], m)])

\* Baseline.evaluate: judge without learning.  A flat window (deviation 0)
\* flags any change.
Evaluated(s, value) ==
  IF Len(s) < MinSamples THEN "unknown"
  ELSE LET off == 2 * value - TwiceMedian(s)
           mad == FourMad(s)
           far == IF mad = 0 THEN off # 0
                  ELSE 1349 * Distance(off, 0) >= Threshold * 1000 * mad
       IN IF ~far THEN "normal" ELSE IF off > 0 THEN "high" ELSE "low"

IsAnomalous(band) == band \in {"high", "low"}

\* Baseline.observe: a deque of at most WindowSize samples.
Observed(s, value) ==
  IF Len(s) < WindowSize THEN Append(s, value) ELSE Append(Tail(s), value)

\* evaluate_and_observe judges first, then learns: the value never
\* contributes to the baseline it is measured against.
Judged(s, value) == [band |-> Evaluated(s, value), next |-> Observed(s, value)]
=============================================================================

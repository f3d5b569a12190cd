---------------------------- MODULE DharmaProofs ----------------------------
(***************************************************************************)
(* Lemmas about the pricing of risk and the choice of a tier, for every    *)
(* policy file load_policy accepts, every action and every context.        *)
(***************************************************************************)
EXTENDS Dharma, TLAPS

\* Each adjustment is a natural number and never falls as its fact worsens.
LEMMA EntityDeltaMonotone ==
  ASSUME NEW c1 \in Contexts, NEW c2 \in Contexts, AtLeastAsBad(c1, c2)
  PROVE  EntityDelta(c1) \in Nat /\ EntityDelta(c2) \in Nat
         /\ EntityDelta(c1) <= EntityDelta(c2)
  BY DEF Contexts, AtLeastAsBad, EntityDelta, Lesser

\* As above, for the users reached: dividing first keeps the order.
LEMMA UserDeltaMonotone ==
  ASSUME NEW c1 \in Contexts, NEW c2 \in Contexts, AtLeastAsBad(c1, c2)
  PROVE  UserDelta(c1) \in Nat /\ UserDelta(c2) \in Nat
         /\ UserDelta(c1) <= UserDelta(c2)
  <1>1. c1.users \in Nat /\ c2.users \in Nat /\ c1.users <= c2.users
    BY DEF Contexts, AtLeastAsBad
  <1>2. /\ c1.users \div 200 \in Nat /\ c2.users \div 200 \in Nat
        /\ c1.users \div 200 <= c2.users \div 200
    BY <1>1
  <1> QED BY <1>1, <1>2 DEF UserDelta, Lesser

\* As above, for the environment.
LEMMA EnvironmentDeltaMonotone ==
  ASSUME NEW c1 \in Contexts, NEW c2 \in Contexts, AtLeastAsBad(c1, c2)
  PROVE  EnvironmentDelta(c1) \in Nat /\ EnvironmentDelta(c2) \in Nat
         /\ EnvironmentDelta(c1) <= EnvironmentDelta(c2)
  BY DEF Contexts, Environments, AtLeastAsBad, EnvironmentRank, EnvironmentDelta

\* As above, for confidence, which worsens as it falls.
LEMMA ConfidenceDeltaMonotone ==
  ASSUME NEW c1 \in Contexts, NEW c2 \in Contexts, AtLeastAsBad(c1, c2)
  PROVE  ConfidenceDelta(c1) \in Nat /\ ConfidenceDelta(c2) \in Nat
         /\ ConfidenceDelta(c1) <= ConfidenceDelta(c2)
  <1>1. /\ c1.confidence \in 0..100 /\ c2.confidence \in 0..100
        /\ c2.confidence <= c1.confidence
    BY DEF Contexts, AtLeastAsBad
  <1> QED BY <1>1 DEF ConfidenceDelta

\* As above, for the two facts the history supplies.
LEMMA HistoryDeltasMonotone ==
  ASSUME NEW c1 \in Contexts, NEW c2 \in Contexts, AtLeastAsBad(c1, c2)
  PROVE  /\ NoveltyDelta(c1) \in Nat /\ NoveltyDelta(c2) \in Nat
         /\ NoveltyDelta(c1) <= NoveltyDelta(c2)
         /\ FailureDelta(c1) \in Nat /\ FailureDelta(c2) \in Nat
         /\ FailureDelta(c1) <= FailureDelta(c2)
  BY DEF Contexts, AtLeastAsBad, NoveltyDelta, FailureDelta, Lesser

LEMMA WorseIsReflexive ==
  ASSUME NEW c \in Contexts
  PROVE  AtLeastAsBad(c, c)
  BY DEF Contexts, Environments, AtLeastAsBad, EnvironmentRank

\* The sum of the adjustments: natural, and monotone in the context.
LEMMA AdjustmentMonotone ==
  ASSUME NEW c1 \in Contexts, NEW c2 \in Contexts, AtLeastAsBad(c1, c2)
  PROVE  Adjustment(c1) \in Nat /\ Adjustment(c2) \in Nat
         /\ Adjustment(c1) <= Adjustment(c2)
  BY EntityDeltaMonotone, UserDeltaMonotone, EnvironmentDeltaMonotone,
     ConfidenceDeltaMonotone, HistoryDeltasMonotone DEF Adjustment

\* "Nothing lowers a declared base score" (Policy Model): the effective risk
\* lies between the base risk and 100 in every context.
THEOREM RiskOnlyRaised ==
  ASSUME NEW a, IsActionSpec(a), NEW c \in Contexts
  PROVE  Score(a, c) \in a.base..100
  <1>1. Adjustment(c) \in Nat
    BY WorseIsReflexive, AdjustmentMonotone
  <1> QED BY <1>1 DEF IsActionSpec, Score, Lesser

\* A context at least as bad never has a lower effective risk.
THEOREM RiskMonotone ==
  ASSUME NEW a, IsActionSpec(a),
         NEW c1 \in Contexts, NEW c2 \in Contexts, AtLeastAsBad(c1, c2)
  PROVE  Score(a, c1) <= Score(a, c2)
  BY AdjustmentMonotone DEF IsActionSpec, Score, Lesser

-----------------------------------------------------------------------------
\* Bands and escalations keep the order of the tiers.
LEMMA BandMonotone ==
  ASSUME NEW r1 \in Int, NEW r2 \in Int, r1 <= r2
  PROVE  Band(r1) \in Tiers /\ Band(r2) \in Tiers
         /\ TierRank(Band(r1)) <= TierRank(Band(r2))
  BY PolicyAssumption DEF Band, Tiers, TierRank

LEMMA ReversibilityMonotone ==
  ASSUME NEW a, IsActionSpec(a), NEW t1 \in Tiers, NEW t2 \in Tiers,
         TierRank(t1) <= TierRank(t2)
  PROVE  LET u1 == ReversibilityTier(a, t1)
             u2 == ReversibilityTier(a, t2)
         IN  u1 \in Tiers /\ u2 \in Tiers /\ TierRank(u1) <= TierRank(u2)
             /\ TierRank(t1) <= TierRank(u1)
  BY DEF Tiers, TierRank, ReversibilityTier, Escalate

LEMMA ReachMonotone ==
  ASSUME NEW c1 \in Contexts, NEW c2 \in Contexts, AtLeastAsBad(c1, c2), ReachesFar(c1)
  PROVE  ReachesFar(c2)
  BY PolicyAssumption DEF Contexts, AtLeastAsBad, ReachesFar

LEMMA BlastRadiusMonotone ==
  ASSUME NEW c1 \in Contexts, NEW c2 \in Contexts, AtLeastAsBad(c1, c2),
         NEW t1 \in Tiers, NEW t2 \in Tiers, TierRank(t1) <= TierRank(t2)
  PROVE  LET u1 == BlastRadiusTier(c1, t1)
             u2 == BlastRadiusTier(c2, t2)
         IN  u1 \in Tiers /\ u2 \in Tiers /\ TierRank(u1) <= TierRank(u2)
             /\ TierRank(t1) <= TierRank(u1)
  BY ReachMonotone DEF Tiers, TierRank, BlastRadiusTier, Escalate

LEMMA AgentLimitMonotone ==
  ASSUME NEW r1 \in Int, NEW r2 \in Int, r1 <= r2,
         NEW l1 \in Int, NEW l2 \in Int, l2 <= l1,
         NEW t1 \in Tiers, NEW t2 \in Tiers, TierRank(t1) <= TierRank(t2)
  PROVE  LET u1 == AgentLimitTier(r1, l1, t1)
             u2 == AgentLimitTier(r2, l2, t2)
         IN  u1 \in Tiers /\ u2 \in Tiers /\ TierRank(u1) <= TierRank(u2)
             /\ TierRank(t1) <= TierRank(u1)
  BY DEF Tiers, TierRank, AgentLimitTier

\* Worse facts, or a tighter agent limit, never earn a more permissive tier,
\* whatever the thresholds of the policy file.
THEOREM TierMonotone ==
  ASSUME NEW a, IsActionSpec(a),
         NEW c1 \in Contexts, NEW c2 \in Contexts, AtLeastAsBad(c1, c2),
         NEW l1 \in Int, NEW l2 \in Int, l2 <= l1
  PROVE  TierOf(a, c1, l1) \in Tiers /\ TierOf(a, c2, l2) \in Tiers
         /\ TierRank(TierOf(a, c1, l1)) <= TierRank(TierOf(a, c2, l2))
  <1> DEFINE r1 == Score(a, c1)
             r2 == Score(a, c2)
             b1 == ReversibilityTier(a, Band(r1))
             b2 == ReversibilityTier(a, Band(r2))
             e1 == BlastRadiusTier(c1, b1)
             e2 == BlastRadiusTier(c2, b2)
  <1>1. r1 \in Int /\ r2 \in Int /\ r1 <= r2
    BY RiskOnlyRaised, RiskMonotone DEF IsActionSpec
  <1>2. Band(r1) \in Tiers /\ Band(r2) \in Tiers /\ TierRank(Band(r1)) <= TierRank(Band(r2))
    BY <1>1, BandMonotone
  <1>3. b1 \in Tiers /\ b2 \in Tiers /\ TierRank(b1) <= TierRank(b2)
    BY <1>2, ReversibilityMonotone
  <1>4. e1 \in Tiers /\ e2 \in Tiers /\ TierRank(e1) <= TierRank(e2)
    BY <1>3, BlastRadiusMonotone
  <1> HIDE DEF r1, r2, e1, e2
  <1>5. LET u1 == AgentLimitTier(r1, l1, e1)
            u2 == AgentLimitTier(r2, l2, e2)
        IN  u1 \in Tiers /\ u2 \in Tiers /\ TierRank(u1) <= TierRank(u2)
    BY <1>1, <1>4, AgentLimitMonotone
  <1> QED BY <1>5 DEF TierOf, r1, r2, e1, e2

\* A tier of "autonomous" rules out every hard override at once: the action
\* has a tested rollback or changes nothing, it reaches few, and its risk is
\* within the autonomous ceiling and the agent's limit.
THEOREM AutonomyIsBounded ==
  ASSUME NEW a, IsActionSpec(a), NEW c \in Contexts, NEW limit \in Int,
         TierOf(a, c, limit) = "autonomous"
  PROVE  /\ HasTestedRollback(a) \/ ChangesNothing(a)
         /\ ~ReachesFar(c)
         /\ Score(a, c) <= AutonomousMax /\ Score(a, c) <= limit
  <1> DEFINE r == Score(a, c)
             b == ReversibilityTier(a, Band(r))
             e == BlastRadiusTier(c, b)
  <1>1. r \in Int
    BY RiskOnlyRaised DEF IsActionSpec
  <1>2. AgentLimitTier(r, limit, e) = "autonomous"
    BY DEF TierOf
  <1> HIDE DEF r, b, e
  <1>3. e = "autonomous" /\ r <= limit
    BY <1>1, <1>2 DEF AgentLimitTier
  <1>4. b = "autonomous" /\ ~ReachesFar(c)
    BY <1>3 DEF e, BlastRadiusTier, Escalate
  <1>5. Band(r) = "autonomous" /\ (HasTestedRollback(a) \/ ChangesNothing(a))
    BY <1>4 DEF b, ReversibilityTier, Escalate
  <1>6. r <= AutonomousMax
    BY <1>1, <1>5 DEF Band
  <1> QED BY <1>3, <1>4, <1>5, <1>6 DEF r
=============================================================================

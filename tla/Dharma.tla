------------------------------- MODULE Dharma -------------------------------
(***************************************************************************)
(* The policy engine: what an action's effective risk is in a context,     *)
(* which tier the risk and the hard overrides put it in, and when the      *)
(* resulting verdict authorises an execution.  Everything here is a pure   *)
(* function, as in packages/core/pashupatastra/dharma.py; the modules that *)
(* EXTEND this one hold the state.                                         *)
(*                                                                         *)
(* The thresholds are the fields of policy.json, so they are constants:    *)
(* the theorems of DharmaProofs hold for every file load_policy accepts.   *)
(***************************************************************************)
EXTENDS Integers

CONSTANTS
  AutonomousMax,  \* the highest effective risk of each tier but the last
  ApprovalMax,
  SeniorMax,
  EntityLimit,    \* blast radius, in entities and in users, that escalates
  UserLimit,
  VerdictTTL      \* how long a verdict lives, in ticks of the clock

\* load_policy refuses any file that does not satisfy this.
ASSUME PolicyAssumption ==
  /\ AutonomousMax \in Nat /\ ApprovalMax \in Nat /\ SeniorMax \in Nat
  /\ AutonomousMax < ApprovalMax /\ ApprovalMax < SeniorMax /\ SeniorMax < 100
  /\ EntityLimit \in Nat \ {0} /\ UserLimit \in Nat \ {0}
  /\ VerdictTTL \in Nat \ {0}

Environments == {"dev", "staging", "prod"}
Tiers == {"autonomous", "approval", "senior", "denied"}

TierRank(tier) ==
  IF tier = "autonomous" THEN 0
  ELSE IF tier = "approval" THEN 1
  ELSE IF tier = "senior" THEN 2
  ELSE 3

NoAction == "none"

(***************************************************************************)
(* An ActionSpec keeps what the engine reads of one: its base risk,        *)
(* whether it declares an expected post-state, its rollback, and whether   *)
(* it is irreversible.                                                     *)
(***************************************************************************)
IsActionSpec(a) ==
  /\ a.base \in 0..100
  /\ a.declaresPost \in BOOLEAN
  /\ a.irreversible \in BOOLEAN

HasTestedRollback(a) == a.rollback # NoAction /\ ~a.irreversible

ChangesNothing(a) == a.base = 0 /\ ~a.declaresPost /\ ~a.irreversible

\* What register() requires of an action before it enters the registry.
Registrable(a) ==
  IsActionSpec(a) /\ (~a.irreversible /\ a.rollback = NoAction => a.base = 0)

\* A RiskContext; diagnostic confidence is in percent.
Contexts ==
  [env : Environments, entities : Nat, users : Nat, confidence : 0..100,
   executed : BOOLEAN, failed : Nat]

Lesser(x, y) == IF x < y THEN x ELSE y

(***************************************************************************)
(* The six adjustments, in the order score() appends them.  The code's     *)
(* int((0.8 - confidence) * 50) is (80 - percent) \div 2.                  *)
(***************************************************************************)
EntityDelta(c) == IF c.entities > 1 THEN Lesser(3 * c.entities, 20) ELSE 0
UserDelta(c) == IF c.users > 100 THEN Lesser(c.users \div 200, 15) ELSE 0
EnvironmentDelta(c) ==
  IF c.env = "prod" THEN 15 ELSE IF c.env = "staging" THEN 5 ELSE 0
ConfidenceDelta(c) == IF c.confidence < 80 THEN (80 - c.confidence) \div 2 ELSE 0
NoveltyDelta(c) == IF c.executed THEN 0 ELSE 10
FailureDelta(c) == Lesser(8 * c.failed, 24)

Adjustment(c) ==
  EntityDelta(c) + UserDelta(c) + EnvironmentDelta(c)
    + ConfidenceDelta(c) + NoveltyDelta(c) + FailureDelta(c)

\* Slip: the sum is not capped.
ScoreUncapped(a, c) == a.base + Adjustment(c)

Score(a, c) == Lesser(a.base + Adjustment(c), 100)

\* Slip: the loop over the tiers falls through above the last ceiling.
BandFallsThrough(risk) ==
  IF risk <= AutonomousMax THEN "autonomous"
  ELSE IF risk <= ApprovalMax THEN "approval"
  ELSE IF risk <= SeniorMax THEN "senior"
  ELSE "unbanded"

Band(risk) ==
  IF risk <= AutonomousMax THEN "autonomous"
  ELSE IF risk <= ApprovalMax THEN "approval"
  ELSE IF risk <= SeniorMax THEN "senior"
  ELSE "denied"

Escalate(tier) ==
  IF tier = "autonomous" THEN "approval"
  ELSE IF tier = "approval" THEN "senior"
  ELSE "denied"

\* Slip: only irreversible actions are overridden.
ReversibilityTierIgnoresRollback(a, tier) == IF a.irreversible THEN "denied" ELSE tier

\* The hard overrides of evaluate(), each applied to the tier so far.
ReversibilityTier(a, tier) ==
  IF a.irreversible THEN "denied"
  ELSE IF ~HasTestedRollback(a) /\ ~ChangesNothing(a) THEN Escalate(tier)
  ELSE tier

\* Slip: the escalation fires at the limit and not beyond it.
ReachesExactly(c) == c.entities = EntityLimit \/ c.users = UserLimit

ReachesFar(c) == c.entities >= EntityLimit \/ c.users >= UserLimit

BlastRadiusTier(c, tier) ==
  IF tier # "denied" /\ ReachesFar(c) THEN Escalate(tier) ELSE tier

\* agent_risk_limit = None behaves as a limit no effective risk exceeds.
NoLimit == 100

AgentLimitTier(risk, limit, tier) ==
  IF tier # "denied" /\ risk > limit THEN "denied" ELSE tier

TierOf(a, c, limit) ==
  AgentLimitTier(Score(a, c), limit,
    BlastRadiusTier(c, ReversibilityTier(a, Band(Score(a, c)))))

(***************************************************************************)
(* A Verdict.  grantedBy is who holds the authority, or Nobody; denial is  *)
(* whether a denial reason is recorded on it; dryRun is its constraint.    *)
(***************************************************************************)
Nobody == "nobody"

Evaluate(a, c, limit, dryRun, now) ==
  LET tier == TierOf(a, c, limit)
      limited == TierOf(a, c, NoLimit) # "denied" /\ tier = "denied"
  IN [action    |-> a.id,
      risk      |-> Score(a, c),
      tier      |-> tier,
      grantedBy |-> IF tier = "autonomous" THEN "dharma" ELSE Nobody,
      expiresAt |-> now + VerdictTTL,
      dryRun    |-> dryRun,
      denial    |-> a.irreversible \/ limited]

\* Slip: only the tier and the clock are asked, not who granted it.
IsExecutableUngranted(v, now) == v.tier # "denied" /\ now <= v.expiresAt

IsExecutable(v, now) ==
  /\ v.tier # "denied"
  /\ v.tier = "autonomous" \/ v.grantedBy # Nobody
  /\ now <= v.expiresAt

\* require_verdict: the verdict names this action and still authorises it.
Authorises(v, a, now) == v.action = a.id /\ IsExecutable(v, now)

(***************************************************************************)
(* c2 is at least as bad as c1: every fact the engine prices is the same   *)
(* or worse.  The order the monotonicity properties are stated in.         *)
(***************************************************************************)
EnvironmentRank(env) == 
  IF env = "prod" THEN 2 ELSE IF env = "staging" THEN 1 ELSE 0

AtLeastAsBad(c1, c2) ==
  /\ EnvironmentRank(c1.env) <= EnvironmentRank(c2.env)
  /\ c1.entities <= c2.entities
  /\ c1.users <= c2.users
  /\ c1.confidence >= c2.confidence
  /\ c2.executed => c1.executed
  /\ c1.failed <= c2.failed
=============================================================================

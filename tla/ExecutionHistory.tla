-------------------------- MODULE ExecutionHistory --------------------------
(***************************************************************************)
(* The execution history (packages/core/pashupatastra/learning.py) and the *)
(* verdicts priced from it.                                                *)
(*                                                                         *)
(* The history is an append-only list of closed remediations.  A record    *)
(* carries the time its loop STARTED, so records of loops that overlap are *)
(* appended out of order.  _authorise derives the novelty and failure      *)
(* facts of a context from the records within the horizon and asks Dharma  *)
(* for a verdict; /policy/evaluate asks with facts its caller supplies.    *)
(* The list lives in the process: a restart empties it.                    *)
(***************************************************************************)
EXTENDS Dharma, Sequences, FiniteSets

CONSTANTS
  Actions,      \* the specifications the deployment acts with
  Places,       \* the environments in use
  Horizon,      \* NOVELTY_HORIZON, in ticks
  MaxTime,      \* bound: the clock stops here
  MaxActivity,  \* bound: closed remediations and verdicts issued, together
  DryRun,       \* get_settings().dry_run, carried by every verdict as a constraint
  Facts,        \* contexts a caller of /policy/evaluate supplies
  Limits        \* agent risk limits callers pass

ASSUME HistoryAssumption ==
  /\ \A a \in Actions : Registrable(a)
  /\ Places \subseteq Environments
  /\ Horizon \in Nat /\ MaxTime \in Nat /\ MaxActivity \in Nat
  /\ Facts \subseteq Contexts
  /\ Limits \subseteq 0..100 /\ DryRun \in BOOLEAN

Dispositions == {"resolved", "rolled_back", "escalated", "rollback_failed"}

VARIABLES
  now,       \* the wall clock
  records,   \* ExecutionHistory._records
  issued     \* every verdict handed out, with the context it was priced in

vars == <<now, records, issued>>

(***************************************************************************)
(* The questions the history answers, about records rs at time t.          *)
(***************************************************************************)
\* Slip: the environment is left out of the lookup.
RelevantAnywhere(rs, id, env, t) ==
  {i \in DOMAIN rs : rs[i].action = id /\ t - rs[i].at <= Horizon}

Relevant(rs, id, env, t) ==
  {i \in DOMAIN rs : rs[i].action = id /\ rs[i].env = env /\ t - rs[i].at <= Horizon}

Succeeded(r) == r.disposition = "resolved"

Familiarity(rs, id, env, t) ==
  IF Relevant(rs, id, env, t) = {} THEN "novel"
  ELSE IF \E i \in Relevant(rs, id, env, t) : Succeeded(rs[i]) THEN "proven"
  ELSE "attempted"

\* Slip: once an action is proven its failures are let go.
FailuresUntilProven(rs, id, env, t) ==
  IF Familiarity(rs, id, env, t) = "proven" THEN 0
  ELSE Cardinality(Relevant(rs, id, env, t))

Failures(rs, id, env, t) ==
  Cardinality({i \in Relevant(rs, id, env, t) : ~Succeeded(rs[i])})

ContextFor(rs, id, t, base) ==
  [base EXCEPT !.executed = Familiarity(rs, id, base.env, t) # "novel",
               !.failed = Failures(rs, id, base.env, t)]

\* The base context of loop._authorise: RiskContext's defaults.
BaseContext(env) ==
  [env |-> env, entities |-> 0, users |-> 0, confidence |-> 100,
   executed |-> TRUE, failed |-> 0]

\* What the loop would be charged for action a in env at this moment.
RiskNow(a, env) == Score(a, ContextFor(records, a.id, now, BaseContext(env)))

Activity == Len(records) + Cardinality(issued)

-----------------------------------------------------------------------------
Init ==
  /\ now = 0
  /\ records = <<>>
  /\ issued = {}

\* loop._authorise: the verdict for a rollback, priced from the history as
\* seen from the moment its loop started.
Authorise(a, env, start) ==
  LET c == ContextFor(records, a.id, start, BaseContext(env))
  IN /\ Activity < MaxActivity
     /\ issued' = issued \cup
          {[context |-> c, limit |-> NoLimit, spec |-> a,
            verdict |-> Evaluate(a, c, NoLimit, DryRun, now)]}
     /\ UNCHANGED <<now, records>>

\* /policy/evaluate: the caller supplies the facts, and perhaps a limit.
EvaluateRoute(a, c, limit) ==
  /\ Activity < MaxActivity
  /\ issued' = issued \cup
       {[context |-> c, limit |-> limit, spec |-> a,
         verdict |-> Evaluate(a, c, limit, DryRun, now)]}
  /\ UNCHANGED <<now, records>>

\* learn(): a loop that started at `at` closes; the outcome is filed
\* whatever it was.
Learn(a, env, at, disposition) ==
  /\ Activity < MaxActivity
  /\ records' = Append(records,
       [action |-> a.id, env |-> env, at |-> at, disposition |-> disposition])
  /\ UNCHANGED <<now, issued>>

\* The process restarts: the history starts again from nothing.
Restart ==
  /\ records # <<>>
  /\ records' = <<>>
  /\ UNCHANGED <<now, issued>>

Tick ==
  /\ now < MaxTime
  /\ now' = now + 1
  /\ UNCHANGED <<records, issued>>

Next ==
  \/ \E a \in Actions, env \in Places, start \in 0..now : Authorise(a, env, start)
  \/ \E a \in Actions, c \in Facts, limit \in Limits : EvaluateRoute(a, c, limit)
  \/ \E a \in Actions, env \in Places, at \in 0..now, d \in Dispositions :
       Learn(a, env, at, d)
  \/ Restart
  \/ Tick

Spec == Init /\ [][Next]_vars

-----------------------------------------------------------------------------
TypeOK ==
  /\ now \in 0..MaxTime
  /\ records \in Seq([action : {a.id : a \in Actions}, env : Places,
                      at : 0..MaxTime, disposition : Dispositions])
  /\ \A e \in issued : e.context \in Contexts /\ e.verdict.tier \in Tiers

\* Of two verdicts for one action, the one priced in a context that is at
\* least as bad, under a limit at least as tight, never carries a lower risk
\* or a more permissive tier: "adjustments only ever raise risk" (Policy
\* Model), through every cap, band and override of evaluate().
WorseFactsNeverEarnMoreAuthority ==
  \A e1, e2 \in issued :
    e1.spec = e2.spec /\ AtLeastAsBad(e1.context, e2.context) /\ e2.limit <= e1.limit
      => /\ e1.verdict.risk <= e2.verdict.risk
         /\ TierRank(e1.verdict.tier) <= TierRank(e2.verdict.tier)

\* What runs with nobody asked can be undone or changes nothing, reaches few,
\* and is within both the autonomous ceiling and the agent's own limit.
UnattendedIsBounded ==
  \A e \in issued :
    IsExecutable(e.verdict, e.verdict.expiresAt) =>
      /\ HasTestedRollback(e.spec) \/ ChangesNothing(e.spec)
      /\ ~ReachesFar(e.context)
      /\ e.verdict.risk <= AutonomousMax /\ e.verdict.risk <= e.limit

\* A success files beside the failures, it does not erase them: only age
\* (the clock) and a restart ever lower the failure count a verdict is
\* priced with.  "A loop that remembers what worked and quietly forgets what
\* did not" is what learn() is written against.
OnlyAgeForgetsFailures ==
  [][\A a \in Actions, env \in Places :
       Failures(records', a.id, env, now') < Failures(records, a.id, env, now)
         => now' > now \/ records' = <<>>]_vars

\* Learning in one environment never changes what is known in another, nor
\* about another action: succeeding in dev says nothing about prod.
LessonsStayWhereTheyWereLearned ==
  [][now' = now /\ Len(records') > Len(records) =>
       \A a \in Actions, env \in Places :
         RiskNow(a, env)' # RiskNow(a, env) =>
           /\ a.id = records'[Len(records')].action
           /\ env = records'[Len(records')].env]_vars
=============================================================================

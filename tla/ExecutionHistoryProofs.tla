----------------------- MODULE ExecutionHistoryProofs -----------------------
(***************************************************************************)
(* What the verdicts priced from the execution history guarantee, for any  *)
(* policy file, any registrable actions and any length of history.         *)
(***************************************************************************)
EXTENDS ExecutionHistory, DharmaProofs, FiniteSetTheorems

RecordType == [action : {a.id : a \in Actions}, env : Places,
               at : 0..MaxTime, disposition : Dispositions]

\* The inductive invariant: the properties relate what a verdict says to the
\* action, context and limit it was priced from, so the invariant has to say
\* that every issued verdict IS what Evaluate returns for those.
Priced(e) ==
  /\ e.spec \in Actions /\ e.context \in Contexts /\ e.limit \in 0..100
  /\ e.verdict.risk = Score(e.spec, e.context)
  /\ e.verdict.tier = TierOf(e.spec, e.context, e.limit)
  /\ e.verdict.grantedBy = IF e.verdict.tier = "autonomous" THEN "dharma" ELSE Nobody

IInv ==
  /\ now \in 0..MaxTime
  /\ records \in Seq(RecordType)
  /\ \A e \in issued : Priced(e)

-----------------------------------------------------------------------------
\* The records that bear on a question are finitely many, so the failures
\* among them are counted by a natural number.
LEMMA FailuresCounted ==
  ASSUME NEW rs \in Seq(RecordType), NEW id, NEW env, NEW t
  PROVE  /\ IsFiniteSet({i \in Relevant(rs, id, env, t) : ~Succeeded(rs[i])})
         /\ Failures(rs, id, env, t) \in Nat
  <1> DEFINE F == {i \in Relevant(rs, id, env, t) : ~Succeeded(rs[i])}
  <1>1. Len(rs) \in Nat /\ DOMAIN rs = 1..Len(rs)
    OBVIOUS
  <1>2. IsFiniteSet(1..Len(rs))
    BY <1>1, FS_Interval
  <1>3. F \subseteq 1..Len(rs)
    BY <1>1 DEF Relevant
  <1>4. IsFiniteSet(F)
    BY <1>2, <1>3, FS_Subset
  <1>5. Cardinality(F) \in Nat
    BY <1>4, FS_CardinalityType
  <1> QED BY <1>4, <1>5 DEF Failures

\* A context derived from the history is a context.
LEMMA ContextForType ==
  ASSUME NEW rs \in Seq(RecordType), NEW id, NEW t, NEW env \in Environments
  PROVE  ContextFor(rs, id, t, BaseContext(env)) \in Contexts
  <1> DEFINE known == Familiarity(rs, id, env, t) # "novel"
             failed == Failures(rs, id, env, t)
             base == BaseContext(env)
  <1>1. failed \in Nat
    BY FailuresCounted
  <1>2. known \in BOOLEAN
    OBVIOUS
  <1>3. base \in Contexts /\ base.env = env
    BY DEF BaseContext, Contexts
  <1>4. ContextFor(rs, id, t, base) = [base EXCEPT !.executed = known, !.failed = failed]
    BY <1>3 DEF ContextFor
  <1> HIDE DEF known, failed, base
  <1>5. [base EXCEPT !.executed = known, !.failed = failed] \in Contexts
    BY <1>1, <1>2, <1>3 DEF Contexts
  <1> QED BY <1>4, <1>5 DEF base

\* What Evaluate returns is priced as the invariant says.
LEMMA EvaluatePrices ==
  ASSUME NEW a \in Actions, NEW c \in Contexts, NEW limit \in 0..100, NEW t
  PROVE  Priced([context |-> c, limit |-> limit, spec |-> a,
                 verdict |-> Evaluate(a, c, limit, DryRun, t)])
  BY DEF Priced, Evaluate

LEMMA InitIInv == Init => IInv
  BY HistoryAssumption DEF Init, IInv

LEMMA NextIInv == IInv /\ [Next]_vars => IInv'
  <1> SUFFICES ASSUME IInv, [Next]_vars PROVE IInv'
    OBVIOUS
  <1> USE DEF IInv
  <1>1. ASSUME NEW a \in Actions, NEW env \in Places, NEW start \in 0..now,
               Authorise(a, env, start)
        PROVE  IInv'
    <2> DEFINE c == ContextFor(records, a.id, start, BaseContext(env))
               e == [context |-> c, limit |-> NoLimit, spec |-> a,
                     verdict |-> Evaluate(a, c, NoLimit, DryRun, now)]
    <2>1. c \in Contexts
      BY ContextForType, HistoryAssumption
    <2>2. Priced(e)
      <3>1. NoLimit \in 0..100
        BY DEF NoLimit
      <3> HIDE DEF c
      <3> QED BY <2>1, <3>1, EvaluatePrices
    <2>3. issued' = issued \cup {e} /\ UNCHANGED <<now, records>>
      BY <1>1 DEF Authorise
    <2> HIDE DEF e
    <2> QED BY <2>2, <2>3
  <1>2. ASSUME NEW a \in Actions, NEW c \in Facts, NEW limit \in Limits,
               EvaluateRoute(a, c, limit)
        PROVE  IInv'
    <2> DEFINE e == [context |-> c, limit |-> limit, spec |-> a,
                     verdict |-> Evaluate(a, c, limit, DryRun, now)]
    <2>1. Priced(e)
      BY HistoryAssumption, EvaluatePrices
    <2>2. issued' = issued \cup {e} /\ UNCHANGED <<now, records>>
      BY <1>2 DEF EvaluateRoute
    <2> HIDE DEF e
    <2> QED BY <2>1, <2>2
  <1>3. ASSUME NEW a \in Actions, NEW env \in Places, NEW at \in 0..now,
               NEW d \in Dispositions, Learn(a, env, at, d)
        PROVE  IInv'
    <2>1. at \in 0..MaxTime
      BY HistoryAssumption
    <2>2. [action |-> a.id, env |-> env, at |-> at, disposition |-> d] \in RecordType
      BY <2>1 DEF RecordType
    <2>3. records' \in Seq(RecordType)
      BY <1>3, <2>2 DEF Learn
    <2> QED BY <1>3, <2>3 DEF Learn
  <1>4. CASE Restart
    BY <1>4 DEF Restart
  <1>5. CASE Tick
    BY <1>5, HistoryAssumption DEF Tick
  <1>6. CASE UNCHANGED vars
    BY <1>6 DEF vars
  <1> QED BY <1>1, <1>2, <1>3, <1>4, <1>5, <1>6 DEF Next

\* Every reachable state satisfies the inductive invariant.
THEOREM HistoryInvariant == Spec => []IInv
  BY InitIInv, NextIInv, PTL DEF Spec

-----------------------------------------------------------------------------
\* Type correctness: in particular every issued verdict has one of the four
\* tiers, so the override ladder of evaluate() never leaves the tier order.
THEOREM HistoryTypeCorrect == Spec => []TypeOK
  <1>1. IInv => TypeOK
    <2> SUFFICES ASSUME IInv, NEW e \in issued PROVE e.verdict.tier \in Tiers
      BY DEF IInv, TypeOK, Priced, RecordType
    <2>1. Priced(e) /\ IsActionSpec(e.spec)
      BY HistoryAssumption DEF IInv, Priced, Registrable
    <2>2. AtLeastAsBad(e.context, e.context)
      BY <2>1, WorseIsReflexive DEF Priced
    <2> QED BY <2>1, <2>2, TierMonotone DEF Priced
  <1> QED BY <1>1, HistoryInvariant, PTL

\* Worse facts never earn more authority, between any two verdicts ever
\* issued for one action.
THEOREM WorseFactsTheorem == Spec => []WorseFactsNeverEarnMoreAuthority
  <1>1. IInv => WorseFactsNeverEarnMoreAuthority
    <2> SUFFICES ASSUME IInv, NEW e1 \in issued, NEW e2 \in issued,
                        e1.spec = e2.spec, AtLeastAsBad(e1.context, e2.context),
                        e2.limit <= e1.limit
                 PROVE  /\ e1.verdict.risk <= e2.verdict.risk
                        /\ TierRank(e1.verdict.tier) <= TierRank(e2.verdict.tier)
      BY DEF WorseFactsNeverEarnMoreAuthority
    <2>1. Priced(e1) /\ Priced(e2) /\ IsActionSpec(e1.spec)
      BY HistoryAssumption DEF IInv, Priced, Registrable
    <2>2. e1.verdict.risk <= e2.verdict.risk
      BY <2>1, RiskMonotone DEF Priced
    <2>3. /\ e1.context \in Contexts /\ e2.context \in Contexts
          /\ e1.limit \in Int /\ e2.limit \in Int
          /\ e1.verdict.tier = TierOf(e1.spec, e1.context, e1.limit)
          /\ e2.verdict.tier = TierOf(e1.spec, e2.context, e2.limit)
      BY <2>1 DEF Priced
    <2>4. TierRank(e1.verdict.tier) <= TierRank(e2.verdict.tier)
      BY <2>1, <2>3, TierMonotone
    <2> QED BY <2>2, <2>4
  <1> QED BY <1>1, HistoryInvariant, PTL

\* A verdict that executes with nobody asked is bounded by every override.
THEOREM UnattendedTheorem == Spec => []UnattendedIsBounded
  <1>1. IInv => UnattendedIsBounded
    <2> SUFFICES ASSUME IInv, NEW e \in issued,
                        IsExecutable(e.verdict, e.verdict.expiresAt)
                 PROVE  /\ HasTestedRollback(e.spec) \/ ChangesNothing(e.spec)
                        /\ ~ReachesFar(e.context)
                        /\ e.verdict.risk <= AutonomousMax
                        /\ e.verdict.risk <= e.limit
      BY DEF UnattendedIsBounded
    <2>1. Priced(e) /\ IsActionSpec(e.spec)
      BY HistoryAssumption DEF IInv, Priced, Registrable
    <2>2. e.verdict.tier = "autonomous"
      BY <2>1 DEF Priced, IsExecutable, Nobody
    <2>3. /\ e.context \in Contexts /\ e.limit \in Int
          /\ TierOf(e.spec, e.context, e.limit) = "autonomous"
          /\ e.verdict.risk = Score(e.spec, e.context)
      BY <2>1, <2>2 DEF Priced
    <2>4. /\ HasTestedRollback(e.spec) \/ ChangesNothing(e.spec)
          /\ ~ReachesFar(e.context)
          /\ Score(e.spec, e.context) <= AutonomousMax
          /\ Score(e.spec, e.context) <= e.limit
      BY <2>1, <2>3, AutonomyIsBounded
    <2> QED BY <2>3, <2>4
  <1> QED BY <1>1, HistoryInvariant, PTL

-----------------------------------------------------------------------------
\* Appending a record can only add to the failures counted at one moment.
LEMMA AppendKeepsFailures ==
  ASSUME NEW rs \in Seq(RecordType), NEW r \in RecordType, NEW id, NEW env, NEW t
  PROVE  Failures(rs, id, env, t) <= Failures(Append(rs, r), id, env, t)
  <1> DEFINE rt == Append(rs, r)
             F == {i \in Relevant(rs, id, env, t) : ~Succeeded(rs[i])}
             G == {i \in Relevant(rt, id, env, t) : ~Succeeded(rt[i])}
  <1>1. /\ DOMAIN rs = 1..Len(rs) /\ DOMAIN rt = 1..(Len(rs) + 1)
        /\ \A i \in 1..Len(rs) : rt[i] = rs[i]
        /\ rt \in Seq(RecordType) /\ Len(rs) \in Nat
    OBVIOUS
  <1>2. F \subseteq G
    BY <1>1 DEF Relevant
  <1>3. IsFiniteSet(G)
    BY <1>1, FailuresCounted
  <1>4. Cardinality(F) <= Cardinality(G)
    BY <1>2, <1>3, FS_Subset
  <1> QED BY <1>4 DEF Failures

\* Only age and a restart lower a failure count: a success never does.
THEOREM OnlyAgeForgetsTheorem == Spec => OnlyAgeForgetsFailures
  <1> DEFINE Kept == \A a \in Actions, env \in Places :
        Failures(records', a.id, env, now') < Failures(records, a.id, env, now)
          => now' > now \/ records' = <<>>
  <1>1. IInv /\ [Next]_vars => [Kept]_vars
    <2> SUFFICES ASSUME IInv, Next, NEW a \in Actions, NEW env \in Places,
                        Failures(records', a.id, env, now')
                          < Failures(records, a.id, env, now)
                 PROVE  now' > now \/ records' = <<>>
      OBVIOUS
    <2>0. Failures(records, a.id, env, now) \in Nat
      BY FailuresCounted DEF IInv
    <2>1. CASE \E b \in Actions, e \in Places, start \in 0..now : Authorise(b, e, start)
      BY <2>0, <2>1 DEF Authorise
    <2>2. CASE \E b \in Actions, c \in Facts, limit \in Limits : EvaluateRoute(b, c, limit)
      BY <2>0, <2>2 DEF EvaluateRoute
    <2>3. ASSUME NEW b \in Actions, NEW e \in Places, NEW at \in 0..now,
                 NEW d \in Dispositions, Learn(b, e, at, d)
          PROVE  FALSE
      <3> DEFINE r == [action |-> b.id, env |-> e, at |-> at, disposition |-> d]
      <3>1. r \in RecordType
        BY HistoryAssumption DEF IInv, RecordType
      <3>2. records' = Append(records, r) /\ now' = now
        BY <2>3 DEF Learn
      <3>3. records \in Seq(RecordType)
        BY DEF IInv
      <3>4. records' \in Seq(RecordType)
        BY <3>1, <3>2, <3>3
      <3> HIDE DEF r
      <3>5. Failures(records, a.id, env, now) <= Failures(records', a.id, env, now')
        BY <3>1, <3>2, <3>3, AppendKeepsFailures
      <3>6. Failures(records', a.id, env, now') \in Nat
        BY <3>4, FailuresCounted
      <3> QED BY <2>0, <3>5, <3>6
    <2>4. CASE Restart
      BY <2>4 DEF Restart
    <2>5. CASE Tick
      BY <2>5 DEF Tick, IInv
    <2> QED BY <2>1, <2>2, <2>3, <2>4, <2>5 DEF Next
  <1> QED BY <1>1, HistoryInvariant, PTL DEF Spec, OnlyAgeForgetsFailures

-----------------------------------------------------------------------------
\* A record about another action or another place bears on no question about
\* this one.
LEMMA AppendElsewhere ==
  ASSUME NEW rs \in Seq(RecordType), NEW r \in RecordType, NEW id, NEW env, NEW t, NEW base,
         r.action # id \/ r.env # env, base.env = env
  PROVE  ContextFor(Append(rs, r), id, t, base) = ContextFor(rs, id, t, base)
  <1> DEFINE rt == Append(rs, r)
             R == Relevant(rs, id, env, t)
  <1>1. /\ DOMAIN rs = 1..Len(rs) /\ DOMAIN rt = 1..(Len(rs) + 1) /\ Len(rs) \in Nat
        /\ \A i \in 1..Len(rs) : rt[i] = rs[i]
        /\ rt[Len(rs) + 1] = r
    OBVIOUS
  <1> HIDE DEF rt
  <1>2. Relevant(rt, id, env, t) = R
    BY <1>1 DEF Relevant
  <1>3. \A i \in R : rt[i] = rs[i]
    BY <1>1 DEF Relevant
  <1> HIDE DEF R
  <1>4. Familiarity(rt, id, env, t) = Familiarity(rs, id, env, t)
    BY <1>2, <1>3 DEF Familiarity, R
  <1>5. Failures(rt, id, env, t) = Failures(rs, id, env, t)
    <2>1. {i \in R : ~Succeeded(rt[i])} = {i \in R : ~Succeeded(rs[i])}
      BY <1>3
    <2> QED BY <1>2, <2>1 DEF Failures, R
  <1> QED BY <1>4, <1>5 DEF ContextFor, rt

\* Succeeding in one environment changes nothing about another, nor about
\* another action.
THEOREM LessonsStayTheorem == Spec => LessonsStayWhereTheyWereLearned
  <1> DEFINE Stays == now' = now /\ Len(records') > Len(records) =>
        \A a \in Actions, env \in Places :
          RiskNow(a, env)' # RiskNow(a, env) =>
            /\ a.id = records'[Len(records')].action
            /\ env = records'[Len(records')].env
  <1>1. IInv /\ [Next]_vars => [Stays]_vars
    <2> SUFFICES ASSUME IInv, Next, now' = now, Len(records') > Len(records),
                        NEW a \in Actions, NEW env \in Places,
                        a.id # records'[Len(records')].action \/ env # records'[Len(records')].env
                 PROVE  RiskNow(a, env)' = RiskNow(a, env)
      OBVIOUS
    <2>0. records \in Seq(RecordType) /\ Len(records) \in Nat
      BY DEF IInv
    <2>1. PICK b \in Actions, e \in Places, at \in 0..now, d \in Dispositions : Learn(b, e, at, d)
      <3>1. records' # records /\ records' # <<>>
        BY <2>0
      <3> QED BY <3>1 DEF Next, Authorise, EvaluateRoute, Restart, Tick
    <2> DEFINE r == [action |-> b.id, env |-> e, at |-> at, disposition |-> d]
    <2>2. r \in RecordType /\ r.action = b.id /\ r.env = e
      BY HistoryAssumption DEF IInv, RecordType
    <2>3. records' = Append(records, r)
      BY <2>1 DEF Learn
    <2> HIDE DEF r
    <2>4. records'[Len(records')] = r
      BY <2>0, <2>2, <2>3
    <2>5. BaseContext(env).env = env
      BY DEF BaseContext
    <2>6. ContextFor(records', a.id, now', BaseContext(env)) = ContextFor(records, a.id, now, BaseContext(env))
      BY <2>0, <2>2, <2>3, <2>4, <2>5, AppendElsewhere
    <2> QED BY <2>6 DEF RiskNow
  <1> QED BY <1>1, HistoryInvariant, PTL DEF Spec, LessonsStayWhereTheyWereLearned
=============================================================================

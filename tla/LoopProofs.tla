----------------------------- MODULE LoopProofs -----------------------------
(***************************************************************************)
(* What holds of the remediation loop for any number of loops on one       *)
(* deployment, any of the registry's actions and any policy file: its      *)
(* safety, that it implements GuardedLoop, and that finitely many loops    *)
(* use their history as ExecutionHistory describes.                        *)
(*                                                                         *)
(* The inductive invariant says of each loop what it has established where *)
(* it is: what it was asked to do, what it captured, what it has already   *)
(* handed to the executor, and by what authority.                          *)
(***************************************************************************)
EXTENDS RemediationLoop, FiniteSetTheorems, TLAPS

Parameters == [names : SUBSET {"target", "replicas", "image"}, value : Nat]
Jobs == [action : Offered, params : Requested, filed : BOOLEAN, start : 0..MaxTime]
Ids == {a.id : a \in AllActions}
Runs == [action : Ids, part : {"primary", "undo"}, params : Parameters, tier : Tiers]
Entry == [action : Ids, env : {Place}, at : 0..MaxTime, disposition : H!Dispositions]
Outcomes == {"none"} \cup H!Dispositions
Windows == [hold : 0..(HoldSamples - 1), told : BOOLEAN, stood : 0..(2 * HoldSamples)]
Deployments == [replicas : Values, image : Values, previous : Values, settled : BOOLEAN]

TypeInv ==
  /\ now \in 0..MaxTime
  /\ records \in Seq(Entry) /\ \A i \in DOMAIN records : records[i].at <= now
  /\ world \in Deployments
  /\ pc \in [Loops -> {"new"} \cup Ended \cup Underway]
  /\ part \in [Loops -> {"primary", "undo"}]
  /\ window \in [Loops -> Windows]
  /\ outcome \in [Loops -> Outcomes]
  /\ job \in [Loops -> Jobs \cup {NoJob}]
  /\ restore \in [Loops -> Parameters]
  /\ DOMAIN authority = Loops
  /\ ran \in [Loops -> Seq(Runs)]

Acting(l) == pc[l] \in {"check", "attempt", "act"}
Rollback(l) == job[l].action.rollback
OwnId(l) == Rollback(l) # job[l].action.id

\* Where the loop is and what it is about.
Placed(l) ==
  /\ pc[l] \in {"new", "capture", "refused"} => part[l] = "primary" /\ restore[l] = NoParams
  /\ pc[l] = "new" => ran[l] = <<>>
  /\ pc[l] # "new" => job[l] \in Jobs /\ job[l].start <= now /\ authority[l].tier \in Tiers
  /\ pc[l] = "authorise" => part[l] = "undo" /\ OwnId(l)
  /\ part[l] = "undo" => HasRollbackSpec(job[l].action) /\ (OwnId(l) \/ restore[l] # NoParams)
  /\ pc[l] \in {"conclude", "learn", "done", "failed"} => outcome[l] # "none"
  /\ outcome[l] # "none" => pc[l] \in {"conclude", "learn", "done", "failed", "lost"}

\* What was captured lacks what the action itself was given.
Captured(l) ==
  restore[l] # NoParams =>
    /\ restore[l].value \in Values
    /\ "target" \in job[l].params.names /\ "target" \notin restore[l].names

\* What was handed over: at most once each, the action and its rollback, and
\* not yet what the loop is about to hand over.
RanOnce(l) ==
  /\ \A i \in DOMAIN ran[l] :
       LET x == ran[l][i]
       IN IF x.part = "primary"
            THEN x.action = job[l].action.id /\ x.params = job[l].params
            ELSE /\ part[l] = "undo" /\ x.action = Rollback(l)
                 /\ x.params = IF restore[l] # NoParams THEN restore[l] ELSE job[l].params
  /\ \A i, j \in DOMAIN ran[l] : ran[l][i].part = ran[l][j].part => i = j
  /\ pc[l] \in {"capture", "authorise"} \/ Acting(l) =>
       \A i \in DOMAIN ran[l] : ran[l][i].part # part[l]

Recorded(l, kind, id) == [loop |-> l, kind |-> kind, action |-> id] \in trail
Granted(id) == \E e \in issued : e.spec.id = id /\ e.verdict.tier = "autonomous"

\* What the trail and the grants show of it.
Evidenced(l) ==
  /\ pc[l] = "act" => Recorded(l, "attempt", Running(l).id)
  /\ \A i \in DOMAIN ran[l] : Recorded(l, "attempt", ran[l][i].action)
  /\ part[l] = "undo" /\ OwnId(l) /\ Acting(l) =>
       /\ Recorded(l, "evaluation", Rollback(l))
       /\ authority[l].tier = "autonomous" => Granted(Rollback(l))
       /\ authority[l].grantedBy = Nobody \/ authority[l].tier = "autonomous"
  /\ part[l] = "undo" /\ OwnId(l) /\ pc[l] \in {"attempt", "act"} =>
       authority[l].tier = "autonomous"
  /\ \A i \in DOMAIN ran[l] :
       ran[l][i].part = "undo" /\ OwnId(l) =>
         Recorded(l, "evaluation", Rollback(l)) /\ Granted(Rollback(l))

LoopInv(l) == Placed(l) /\ Captured(l) /\ RanOnce(l) /\ Evidenced(l)

IInv == TypeInv /\ \A l \in Loops : LoopInv(l)

\* Only loop l moves.
OnlyMoves(l) ==
  \A k \in Loops \ {l} :
    /\ pc'[k] = pc[k] /\ part'[k] = part[k] /\ outcome'[k] = outcome[k]
    /\ job'[k] = job[k] /\ restore'[k] = restore[k] /\ authority'[k] = authority[k]
    /\ ran'[k] = ran[k]

-----------------------------------------------------------------------------
\* A registered id is looked up as what it names.
LEMMA GetFacts ==
  ASSUME NEW id, Known(id)
  PROVE  Get(id) \in AllActions /\ Get(id).id = id
  BY DEF Known, Get

\* Every verdict has one of the four tiers, and is granted by Dharma if and
\* only if it is autonomous.
LEMMA EvaluateFacts ==
  ASSUME NEW a, NEW c, NEW limit, NEW dry, NEW t
  PROVE  LET v == Evaluate(a, c, limit, dry, t)
         IN /\ v.tier \in Tiers /\ v.tier = TierOf(a, c, limit)
            /\ v.grantedBy = Nobody \/ v.tier = "autonomous"
  <1>1. Band(Score(a, c)) \in Tiers
    BY DEF Band, Tiers
  <1>2. ReversibilityTier(a, Band(Score(a, c))) \in Tiers
    BY <1>1 DEF ReversibilityTier, Escalate, Tiers
  <1>3. BlastRadiusTier(c, ReversibilityTier(a, Band(Score(a, c)))) \in Tiers
    BY <1>2 DEF BlastRadiusTier, Escalate, Tiers
  <1>4. TierOf(a, c, limit) \in Tiers
    BY <1>3 DEF TierOf, AgentLimitTier, Tiers
  <1> QED BY <1>4 DEF Evaluate, Nobody

\* Which action a loop under way is at.
LEMMA RunningFacts ==
  ASSUME IInv, NEW l \in Loops, pc[l] # "new"
  PROVE  /\ job[l] \in Jobs /\ job[l].action \in AllActions /\ job[l].params \in Parameters
         /\ Given(l) \in Parameters
         /\ Running(l).id = IF part[l] = "undo" THEN Rollback(l) ELSE job[l].action.id
         /\ Running(l).id \in Ids
  <1>1. job[l] \in Jobs /\ restore[l] \in Parameters /\ Placed(l)
    BY DEF IInv, TypeInv, LoopInv, Placed
  <1>2. job[l].action \in AllActions /\ job[l].params \in Parameters
    BY <1>1, LoopAssumption DEF Jobs, Parameters
  <1>3. Given(l) \in Parameters
    BY <1>1, <1>2 DEF Given
  <1>4. CASE part[l] = "undo"
    <2>1. Known(Rollback(l))
      BY <1>1, <1>4 DEF Placed, HasRollbackSpec, Rollback
    <2>2. Get(Rollback(l)) \in AllActions /\ Get(Rollback(l)).id = Rollback(l)
      BY <2>1, GetFacts
    <2> QED BY <1>1, <1>2, <1>3, <1>4, <2>2 DEF Running, Rollback, Ids
  <1>5. CASE part[l] # "undo"
    BY <1>1, <1>2, <1>3, <1>5 DEF Running, Ids
  <1> QED BY <1>4, <1>5

\* What has been handed to the executor was the action or its undo.
LEMMA RanTyped ==
  ASSUME IInv, NEW l \in Loops, NEW i \in DOMAIN ran[l]
  PROVE  ran[l][i] \in Runs /\ ran[l][i].part \in {"primary", "undo"}
  <1>1. ran[l] \in Seq(Runs)
    BY DEF IInv, TypeInv
  <1>2. ran[l][i] \in Runs
    BY <1>1
  <1> QED BY <1>2 DEF Runs

\* What l establishes is all a step of l has to establish: the trail and the
\* grants only grow.
LEMMA StepPreserves ==
  ASSUME IInv, NEW l \in Loops, TypeInv', OnlyMoves(l), LoopInv(l)',
         trail \subseteq trail', issued \subseteq issued', now' = now
  PROVE  IInv'
  <1>1. ASSUME NEW k \in Loops, k # l PROVE LoopInv(k)'
    <2>1. /\ pc'[k] = pc[k] /\ part'[k] = part[k] /\ outcome'[k] = outcome[k]
          /\ job'[k] = job[k] /\ restore'[k] = restore[k] /\ authority'[k] = authority[k]
          /\ ran'[k] = ran[k]
      BY <1>1 DEF OnlyMoves
    <2>2. LoopInv(k)
      BY DEF IInv
    <2>3. Placed(k)' /\ Captured(k)'
      BY <2>1, <2>2 DEF LoopInv, Placed, Captured, OwnId, Rollback
    <2>4. RanOnce(k)'
      BY <2>1, <2>2 DEF LoopInv, RanOnce, Acting, Rollback
    <2>5. Evidenced(k)'
      BY <2>1, <2>2 DEF LoopInv, Evidenced, Acting, OwnId, Rollback, Recorded, Granted, Running
    <2> QED BY <2>3, <2>4, <2>5 DEF LoopInv
  <1> QED BY <1>1 DEF IInv

-----------------------------------------------------------------------------
\* The end of a loop that has not ended, with its outcome.
LEMMA EndMoves ==
  ASSUME IInv, NEW l \in Loops, pc[l] \notin {"new", "capture", "refused"}, outcome[l] = "none",
         NEW d \in H!Dispositions, End(l, d),
         UNCHANGED <<now, issued, job, restore, authority, ran>>, trail \subseteq trail'
  PROVE  /\ OnlyMoves(l) /\ LoopInv(l)'
         /\ pc' \in [Loops -> {"new"} \cup Ended \cup Underway]
         /\ outcome' \in [Loops -> Outcomes]
         /\ part' = part /\ window' = window
  <1>1. /\ pc \in [Loops -> {"new"} \cup Ended \cup Underway] /\ outcome \in [Loops -> Outcomes]
        /\ part \in [Loops -> {"primary", "undo"}] /\ d # "none" /\ d \in Outcomes
    BY DEF IInv, TypeInv, Outcomes, H!Dispositions
  <1>2. /\ pc'[l] = "conclude" /\ outcome'[l] = d /\ part' = part /\ window' = window /\ OnlyMoves(l)
        /\ pc' \in [Loops -> {"new"} \cup Ended \cup Underway] /\ outcome' \in [Loops -> Outcomes]
    BY <1>1 DEF End, OnlyMoves, Underway
  <1>3. LoopInv(l)
    BY DEF IInv
  <1>4. Placed(l)' /\ Captured(l)'
    BY <1>1, <1>2, <1>3 DEF LoopInv, Placed, Captured, OwnId, Rollback
  <1>5. RanOnce(l)'
    BY <1>2, <1>3 DEF LoopInv, RanOnce, Acting, Rollback
  <1>6. Evidenced(l)'
    BY <1>2, <1>3 DEF LoopInv, Evidenced, Acting, OwnId, Rollback, Recorded, Granted
  <1> QED BY <1>2, <1>4, <1>5, <1>6 DEF LoopInv

\* The beginning of an undo.
LEMMA UndoMoves ==
  ASSUME IInv, NEW l \in Loops, pc[l] \notin {"new", "capture", "refused"}, outcome[l] = "none",
         part[l] = "primary", Undo(l),
         UNCHANGED <<now, issued, job, restore, authority, ran>>, trail \subseteq trail'
  PROVE  /\ OnlyMoves(l) /\ LoopInv(l)'
         /\ pc' \in [Loops -> {"new"} \cup Ended \cup Underway]
         /\ outcome' \in [Loops -> Outcomes]
         /\ part' \in [Loops -> {"primary", "undo"}] /\ window' \in [Loops -> Windows]
  <1>1. /\ pc \in [Loops -> {"new"} \cup Ended \cup Underway] /\ outcome \in [Loops -> Outcomes]
        /\ part \in [Loops -> {"primary", "undo"}] /\ window \in [Loops -> Windows]
        /\ LoopInv(l) /\ NoWindow \in Windows
    <2>1. NoWindow \in Windows
      BY LoopAssumption DEF NoWindow, Windows
    <2> QED BY <2>1 DEF IInv, TypeInv
  <1>2. CASE NoWayBack(l)
    <2>1. End(l, "escalated") /\ "escalated" \in H!Dispositions
      BY <1>2 DEF Undo, H!Dispositions
    <2> QED BY <1>1, <2>1, EndMoves
  <1>3. CASE ~NoWayBack(l)
    <2>1. /\ part'[l] = "undo" /\ pc'[l] = (IF OwnId(l) THEN "authorise" ELSE "check")
          /\ outcome' = outcome /\ OnlyMoves(l)
          /\ pc' \in [Loops -> {"new"} \cup Ended \cup Underway]
          /\ part' \in [Loops -> {"primary", "undo"}] /\ window' \in [Loops -> Windows]
      BY <1>1, <1>3 DEF Undo, OwnId, Rollback, OnlyMoves, Underway
    <2>2. HasRollbackSpec(job[l].action) /\ (OwnId(l) \/ restore[l] # NoParams)
      BY <1>3 DEF NoWayBack, OwnId, Rollback
    <2>3. Placed(l)' /\ Captured(l)'
      BY <1>1, <2>1, <2>2 DEF LoopInv, Placed, Captured, OwnId, Rollback
    <2>4. \A i \in DOMAIN ran[l] : ran[l][i].part = "primary"
      BY <1>1, RanTyped DEF LoopInv, RanOnce
    <2>5. RanOnce(l)'
      BY <1>1, <2>1, <2>4 DEF LoopInv, RanOnce, Acting, Rollback
    <2>6. Evidenced(l)'
      BY <1>1, <2>1, <2>4 DEF LoopInv, Evidenced, Acting, OwnId, Rollback, Recorded, Granted
    <2> QED BY <1>1, <2>1, <2>3, <2>5, <2>6 DEF LoopInv
  <1> QED BY <1>2, <1>3

\* An execution that failed or could not be verified: what the steps that end
\* one so share.
LEMMA UnverifiedMoves ==
  ASSUME IInv, NEW l \in Loops, pc[l] \notin {"new", "capture", "refused"}, outcome[l] = "none",
         Unverified(l),
         UNCHANGED <<now, issued, job, restore, authority, ran>>, trail \subseteq trail'
  PROVE  /\ OnlyMoves(l) /\ LoopInv(l)'
         /\ pc' \in [Loops -> {"new"} \cup Ended \cup Underway]
         /\ outcome' \in [Loops -> Outcomes]
         /\ part' \in [Loops -> {"primary", "undo"}] /\ window' \in [Loops -> Windows]
  <1>1. /\ part \in [Loops -> {"primary", "undo"}] /\ window \in [Loops -> Windows]
        /\ "rollback_failed" \in H!Dispositions
    BY DEF IInv, TypeInv, H!Dispositions
  <1>2. CASE part[l] = "primary"
    BY <1>2, UndoMoves DEF Unverified
  <1>3. CASE part[l] # "primary"
    BY <1>1, <1>3, EndMoves DEF Unverified
  <1> QED BY <1>2, <1>3

\* The steps that stay where they are in the loop: only pc moves.
LEMMA GotoFacts ==
  ASSUME IInv, NEW l \in Loops, NEW next \in {"new"} \cup Ended \cup Underway, Goto(l, next)
  PROVE  /\ pc'[l] = next /\ pc' \in [Loops -> {"new"} \cup Ended \cup Underway]
         /\ \A k \in Loops \ {l} : pc'[k] = pc[k]
         /\ part' = part /\ outcome' = outcome /\ window' = window
  BY DEF IInv, TypeInv, Goto

-----------------------------------------------------------------------------
LEMMA StartStep ==
  ASSUME IInv, NEW l \in Loops, Asks(l)
  PROVE  IInv'
  <1>1. PICK a \in Offered, b \in Offered, t \in 0..now, dry \in Rehearsed,
             p \in Requested, filed \in BOOLEAN : Start(l, a, Supplied(b, t, dry), p, filed)
    BY DEF Asks
  <1> DEFINE v == Supplied(b, t, dry)
             j == [action |-> a, params |-> p, filed |-> filed, start |-> now]
  <1>2. v.tier \in Tiers
    <2> DEFINE w == Evaluate(b, H!BaseContext(Place), NoLimit, dry, t)
    <2>1. w.tier \in Tiers
      BY EvaluateFacts
    <2>2. v = IF w.grantedBy = Nobody THEN [w EXCEPT !.grantedBy = "human"] ELSE w
      BY DEF Supplied
    <2>3. [w EXCEPT !.grantedBy = "human"].tier = w.tier
      BY DEF Evaluate
    <2> QED BY <2>1, <2>2, <2>3
  <1>3. /\ pc[l] = "new" /\ job' = [job EXCEPT ![l] = j] /\ authority' = [authority EXCEPT ![l] = v]
        /\ Goto(l, "capture") \/ Goto(l, "refused")
        /\ UNCHANGED <<now, records, issued, world, trail, ran, restore>>
    BY <1>1 DEF Start, shared
  <1> HIDE DEF v
  <1>4. LoopInv(l) /\ TypeInv
    BY DEF IInv
  <1>5. j \in Jobs /\ j.start <= now
    BY <1>4 DEF Jobs, TypeInv
  <1> HIDE DEF j
  <1>6. /\ pc'[l] \in {"capture", "refused"} /\ pc' \in [Loops -> {"new"} \cup Ended \cup Underway]
        /\ \A k \in Loops \ {l} : pc'[k] = pc[k]
        /\ part' = part /\ outcome' = outcome /\ window' = window
    BY <1>3, GotoFacts DEF Ended, Underway
  <1>7. /\ job'[l] = j /\ authority'[l] = v /\ DOMAIN authority' = Loops
        /\ job' \in [Loops -> Jobs \cup {NoJob}]
        /\ \A k \in Loops \ {l} : job'[k] = job[k] /\ authority'[k] = authority[k]
    BY <1>3, <1>4, <1>5 DEF TypeInv
  <1>8. TypeInv'
    BY <1>3, <1>4, <1>6, <1>7 DEF TypeInv
  <1>9. OnlyMoves(l)
    BY <1>3, <1>6, <1>7 DEF OnlyMoves
  <1>10. ran[l] = <<>> /\ part[l] = "primary" /\ restore[l] = NoParams /\ outcome[l] = "none"
    BY <1>3, <1>4 DEF LoopInv, Placed
  <1>11. Placed(l)' /\ Captured(l)'
    BY <1>2, <1>3, <1>5, <1>6, <1>7, <1>10 DEF Placed, Captured
  <1>12. RanOnce(l)' /\ Evidenced(l)'
    BY <1>3, <1>6, <1>10 DEF RanOnce, Evidenced, Acting
  <1> QED BY <1>3, <1>8, <1>9, <1>11, <1>12, StepPreserves DEF LoopInv

LEMMA CaptureStep == ASSUME IInv, NEW l \in Loops, Capture(l) PROVE IInv'
  <1> DEFINE r == IF Live THEN Snapshot(job[l].action.id) ELSE NoParams
  <1>1. /\ pc[l] = "capture" /\ restore' = [restore EXCEPT ![l] = r] /\ Goto(l, "check")
        /\ Live => CanCapture(job[l].action.id, job[l].params)
        /\ UNCHANGED <<now, records, issued, world, trail, ran, job, authority>>
    BY DEF Capture, shared
  <1>2. LoopInv(l) /\ TypeInv
    BY DEF IInv
  <1>3. /\ pc'[l] = "check" /\ pc' \in [Loops -> {"new"} \cup Ended \cup Underway]
        /\ \A k \in Loops \ {l} : pc'[k] = pc[k]
        /\ part' = part /\ outcome' = outcome /\ window' = window
    BY <1>1, GotoFacts DEF Underway
  <1>4. /\ r \in Parameters
        /\ r # NoParams => /\ r.value \in Values /\ "target" \notin r.names
                           /\ "target" \in job[l].params.names
    BY <1>1, <1>2, LoopAssumption
    DEF TypeInv, Snapshot, NoParams, Parameters, Deployments, CanCapture, Snapshots
  <1> HIDE DEF r
  <1>5. /\ restore'[l] = r /\ restore' \in [Loops -> Parameters]
        /\ \A k \in Loops \ {l} : restore'[k] = restore[k]
    BY <1>1, <1>2, <1>4 DEF TypeInv
  <1>6. TypeInv' /\ OnlyMoves(l)
    BY <1>1, <1>2, <1>3, <1>5 DEF TypeInv, OnlyMoves
  <1>7. part[l] = "primary" /\ outcome[l] = "none" /\ restore[l] = NoParams
    BY <1>1, <1>2 DEF LoopInv, Placed
  <1>8. Placed(l)' /\ Captured(l)'
    BY <1>1, <1>2, <1>3, <1>4, <1>5, <1>7 DEF LoopInv, Placed, Captured
  <1>9. \A i \in DOMAIN ran[l] : ran[l][i].part # "primary"
    BY <1>1, <1>2, <1>7 DEF LoopInv, RanOnce
  <1>10. \A i \in DOMAIN ran[l] : FALSE
    <2>1. \A i \in DOMAIN ran[l] : ran[l][i].part = "undo" => part[l] = "undo"
      BY <1>2 DEF LoopInv, RanOnce
    <2> QED BY <1>7, <1>9, <2>1, RanTyped
  <1>11. RanOnce(l)' /\ Evidenced(l)'
    BY <1>1, <1>3, <1>7, <1>10 DEF RanOnce, Evidenced
  <1> QED BY <1>1, <1>6, <1>8, <1>11, StepPreserves DEF LoopInv

LEMMA CaptureFailsStep == ASSUME IInv, NEW l \in Loops, CaptureFails(l) PROVE IInv'
  <1>1. /\ pc[l] = "capture" /\ End(l, "escalated")
        /\ UNCHANGED <<now, records, issued, world, trail, ran, restarts, job, restore, authority>>
    BY DEF CaptureFails, shared, asked
  <1>2. LoopInv(l) /\ TypeInv /\ "escalated" \in Outcomes
    BY DEF IInv, Outcomes, H!Dispositions
  <1>3. /\ pc'[l] = "conclude" /\ outcome'[l] = "escalated" /\ part' = part /\ window' = window
        /\ OnlyMoves(l) /\ pc' \in [Loops -> {"new"} \cup Ended \cup Underway]
        /\ outcome' \in [Loops -> Outcomes]
    BY <1>1, <1>2 DEF TypeInv, End, OnlyMoves, Underway
  <1>4. TypeInv'
    BY <1>1, <1>2, <1>3 DEF TypeInv
  <1>5. part[l] = "primary"
    BY <1>1, <1>2 DEF LoopInv, Placed
  <1>6. Placed(l)' /\ Captured(l)' /\ RanOnce(l)'
    BY <1>1, <1>2, <1>3, <1>5 DEF LoopInv, Placed, Captured, RanOnce, Acting, Rollback
  <1>7. Evidenced(l)'
    BY <1>1, <1>2, <1>3, <1>5 DEF LoopInv, Evidenced, Recorded, Granted, OwnId, Rollback
  <1> QED BY <1>1, <1>3, <1>4, <1>6, <1>7, StepPreserves DEF LoopInv

LEMMA AuthoriseStep == ASSUME IInv, NEW l \in Loops, Authorise(l) PROVE IInv'
  <1> DEFINE c == ContextOf(l)
             v == Evaluate(Running(l), c, NoLimit, DryRun, now)
             e == [context |-> c, limit |-> NoLimit, spec |-> Running(l), verdict |-> v]
  <1>1. /\ pc[l] = "authorise" /\ issued' = issued \cup {e}
        /\ authority' = [authority EXCEPT ![l] = v] /\ Goto(l, "check")
        /\ trail' = trail \cup {[loop |-> l, kind |-> "evaluation", action |-> Running(l).id]}
        /\ UNCHANGED <<now, records, world, ran, job, restore>>
    BY DEF Authorise, Write
  <1>2. LoopInv(l) /\ TypeInv
    BY DEF IInv
  <1>3. v.tier \in Tiers /\ (v.grantedBy = Nobody \/ v.tier = "autonomous")
    BY EvaluateFacts
  <1>4. part[l] = "undo" /\ OwnId(l) /\ outcome[l] = "none" /\ Running(l).id = Rollback(l)
    BY <1>1, <1>2, RunningFacts DEF LoopInv, Placed
  <1>5. e \in issued' /\ e.spec.id = Rollback(l) /\ e.verdict = v
    BY <1>1, <1>4
  <1> HIDE DEF v, e, c
  <1>6. /\ pc'[l] = "check" /\ pc' \in [Loops -> {"new"} \cup Ended \cup Underway]
        /\ \A k \in Loops \ {l} : pc'[k] = pc[k]
        /\ part' = part /\ outcome' = outcome /\ window' = window
    BY <1>1, GotoFacts DEF Underway
  <1>7. /\ authority'[l] = v /\ DOMAIN authority' = Loops
        /\ \A k \in Loops \ {l} : authority'[k] = authority[k]
    BY <1>1, <1>2 DEF TypeInv
  <1>8. TypeInv' /\ OnlyMoves(l)
    BY <1>1, <1>2, <1>6, <1>7 DEF TypeInv, OnlyMoves
  <1>9. Placed(l)' /\ Captured(l)'
    BY <1>1, <1>2, <1>3, <1>4, <1>6, <1>7 DEF LoopInv, Placed, Captured, OwnId, Rollback
  <1>10. RanOnce(l)'
    BY <1>1, <1>2, <1>6 DEF LoopInv, RanOnce, Rollback
  <1>11. Evidenced(l)'
    BY <1>1, <1>2, <1>3, <1>4, <1>5, <1>6, <1>7
    DEF LoopInv, Evidenced, Recorded, Granted, OwnId, Rollback
  <1> QED BY <1>1, <1>8, <1>9, <1>10, <1>11, StepPreserves DEF LoopInv

LEMMA CheckStep == ASSUME IInv, NEW l \in Loops, Check(l) PROVE IInv'
  <1>1. /\ pc[l] = "check"
        /\ UNCHANGED <<now, records, issued, world, trail, ran, job, restore, authority>>
    BY DEF Check, shared, asked
  <1>2. LoopInv(l) /\ TypeInv /\ outcome[l] = "none"
    BY <1>1 DEF IInv, LoopInv, Placed
  <1>3. CASE ~Authorises(authority[l], Running(l), now)
    <2>1. Unverified(l)
      BY <1>3 DEF Check
    <2>2. /\ OnlyMoves(l) /\ LoopInv(l)'
          /\ pc' \in [Loops -> {"new"} \cup Ended \cup Underway] /\ outcome' \in [Loops -> Outcomes]
          /\ part' \in [Loops -> {"primary", "undo"}] /\ window' \in [Loops -> Windows]
      BY <1>1, <1>2, <2>1, UnverifiedMoves
    <2>3. TypeInv'
      BY <1>1, <1>2, <2>2 DEF TypeInv
    <2> QED BY <1>1, <2>2, <2>3, StepPreserves
  <1>4. CASE Authorises(authority[l], Running(l), now)
    <2>1. Goto(l, "attempt")
      BY <1>4 DEF Check
    <2>2. /\ pc'[l] = "attempt" /\ pc' \in [Loops -> {"new"} \cup Ended \cup Underway]
          /\ \A k \in Loops \ {l} : pc'[k] = pc[k]
          /\ part' = part /\ outcome' = outcome /\ window' = window
      BY <2>1, GotoFacts DEF Underway
    <2>3. TypeInv' /\ OnlyMoves(l)
      BY <1>1, <1>2, <2>2 DEF TypeInv, OnlyMoves
    <2>4. Placed(l)' /\ Captured(l)' /\ RanOnce(l)'
      BY <1>1, <1>2, <2>2 DEF LoopInv, Placed, Captured, RanOnce, Acting, OwnId, Rollback
    <2>5. authority[l].tier = "autonomous" \/ authority[l].grantedBy # Nobody
      BY <1>4 DEF Authorises, IsExecutable
    <2>6. Evidenced(l)'
      BY <1>1, <1>2, <2>2, <2>5 DEF LoopInv, Evidenced, Acting, OwnId, Rollback, Recorded, Granted
    <2> QED BY <1>1, <2>3, <2>4, <2>6, StepPreserves DEF LoopInv
  <1> QED BY <1>3, <1>4

LEMMA RecordAttemptStep == ASSUME IInv, NEW l \in Loops, RecordAttempt(l) PROVE IInv'
  <1>1. /\ pc[l] = "attempt" /\ Goto(l, "act")
        /\ trail' = trail \cup {[loop |-> l, kind |-> "attempt", action |-> Running(l).id]}
        /\ UNCHANGED <<now, records, issued, world, ran, job, restore, authority>>
    BY DEF RecordAttempt, Write, asked
  <1>2. LoopInv(l) /\ TypeInv
    BY DEF IInv
  <1>3. /\ pc'[l] = "act" /\ pc' \in [Loops -> {"new"} \cup Ended \cup Underway]
        /\ \A k \in Loops \ {l} : pc'[k] = pc[k]
        /\ part' = part /\ outcome' = outcome /\ window' = window
    BY <1>1, GotoFacts DEF Underway
  <1>4. TypeInv' /\ OnlyMoves(l)
    BY <1>1, <1>2, <1>3 DEF TypeInv, OnlyMoves
  <1>5. Placed(l)' /\ Captured(l)' /\ RanOnce(l)'
    BY <1>1, <1>2, <1>3 DEF LoopInv, Placed, Captured, RanOnce, Acting, OwnId, Rollback
  <1>6. Running(l)' = Running(l)
    BY <1>1, <1>3 DEF Running
  <1>7. Evidenced(l)'
    BY <1>1, <1>2, <1>3, <1>6 DEF LoopInv, Evidenced, Acting, OwnId, Rollback, Recorded, Granted
  <1> QED BY <1>1, <1>4, <1>5, <1>7, StepPreserves DEF LoopInv

\* What an execution that was handed over, or described, leaves known.
LEMMA DescribeStep == ASSUME IInv, NEW l \in Loops, Describe(l) PROVE IInv'
  <1>1. /\ pc[l] = "act" /\ Goto(l, "result")
        /\ UNCHANGED <<now, records, issued, world, trail, ran, job, restore, authority>>
    BY DEF Describe, shared, asked
  <1>2. LoopInv(l) /\ TypeInv
    BY DEF IInv
  <1>3. /\ pc'[l] = "result" /\ pc' \in [Loops -> {"new"} \cup Ended \cup Underway]
        /\ \A k \in Loops \ {l} : pc'[k] = pc[k]
        /\ part' = part /\ outcome' = outcome /\ window' = window
    BY <1>1, GotoFacts DEF Underway
  <1>4. TypeInv' /\ OnlyMoves(l)
    BY <1>1, <1>2, <1>3 DEF TypeInv, OnlyMoves
  <1>5. Placed(l)' /\ Captured(l)' /\ RanOnce(l)'
    BY <1>1, <1>2, <1>3 DEF LoopInv, Placed, Captured, RanOnce, Acting, OwnId, Rollback
  <1>6. Evidenced(l)'
    BY <1>1, <1>2, <1>3 DEF LoopInv, Evidenced, Acting, OwnId, Rollback, Recorded, Granted
  <1> QED BY <1>1, <1>4, <1>5, <1>6, StepPreserves DEF LoopInv

\* What is in a sequence after an element has been appended.
LEMMA AppendFacts ==
  ASSUME NEW S, NEW s \in Seq(S), NEW e \in S
  PROVE  /\ Append(s, e) \in Seq(S) /\ Len(s) + 1 \notin DOMAIN s
         /\ \A i \in DOMAIN Append(s, e) :
              \/ i \in DOMAIN s /\ Append(s, e)[i] = s[i]
              \/ i = Len(s) + 1 /\ Append(s, e)[i] = e
  <1>1. /\ Append(s, e) \in Seq(S) /\ Len(s) \in Nat
        /\ DOMAIN s = 1..Len(s) /\ DOMAIN Append(s, e) = 1..(Len(s) + 1)
        /\ \A i \in DOMAIN s : Append(s, e)[i] = s[i]
        /\ Append(s, e)[Len(s) + 1] = e
    OBVIOUS
  <1>2. Len(s) + 1 \notin DOMAIN s
    BY <1>1
  <1>3. ASSUME NEW i \in DOMAIN Append(s, e), i # Len(s) + 1
        PROVE  i \in DOMAIN s /\ Append(s, e)[i] = s[i]
    BY <1>1, <1>3
  <1>4. ASSUME NEW i \in DOMAIN Append(s, e), i = Len(s) + 1
        PROVE  Append(s, e)[i] = e
    BY <1>1, <1>4
  <1> QED BY <1>1, <1>2, <1>3, <1>4, Zenon

\* The executor is handed what has its attempt on the trail and, if it is an
\* undo with an id of its own, Dharma's own grant.
LEMMA HandMoves ==
  ASSUME IInv, NEW l \in Loops, pc[l] = "act", Hand(l),
         NEW next \in {"result", "errored"}, Goto(l, next), world' \in Deployments,
         UNCHANGED <<now, records, issued, trail, job, restore, authority>>
  PROVE  IInv'
  <1> DEFINE x == [action |-> Running(l).id, part |-> part[l], params |-> Given(l),
                   tier |-> authority[l].tier]
             s == ran[l]
  <1>1. LoopInv(l) /\ TypeInv
    BY DEF IInv
  <1>2. /\ pc'[l] = next /\ pc' \in [Loops -> {"new"} \cup Ended \cup Underway]
        /\ \A k \in Loops \ {l} : pc'[k] = pc[k]
        /\ part' = part /\ outcome' = outcome /\ window' = window
    BY GotoFacts DEF Underway
  <1>3. /\ Given(l) \in Parameters /\ Running(l).id \in Ids
        /\ Running(l).id = IF part[l] = "undo" THEN Rollback(l) ELSE job[l].action.id
    BY RunningFacts
  <1>4. x \in Runs
    BY <1>1, <1>3 DEF LoopInv, Placed, Runs, TypeInv
  <1>5. /\ x.part = part[l] /\ x.action = Running(l).id /\ x.params = Given(l)
    OBVIOUS
  <1> HIDE DEF x
  <1>6. s \in Seq(Runs) /\ ran' = [ran EXCEPT ![l] = Append(s, x)]
    BY <1>1 DEF TypeInv, Hand, x
  <1>7. /\ Append(s, x) \in Seq(Runs) /\ Len(s) + 1 \notin DOMAIN s
        /\ \A i \in DOMAIN Append(s, x) :
             \/ i \in DOMAIN s /\ Append(s, x)[i] = s[i]
             \/ i = Len(s) + 1 /\ Append(s, x)[i] = x
    <2> HIDE DEF s
    <2> QED BY <1>4, <1>6, AppendFacts
  <1>8. /\ ran'[l] = Append(s, x) /\ ran' \in [Loops -> Seq(Runs)]
        /\ \A k \in Loops \ {l} : ran'[k] = ran[k]
    BY <1>1, <1>6, <1>7 DEF TypeInv
  <1>9. /\ \A i \in DOMAIN ran'[l] : \/ i \in DOMAIN s /\ ran'[l][i] = s[i]
                                     \/ i = Len(s) + 1 /\ ran'[l][i] = x
        /\ Len(s) + 1 \notin DOMAIN s
    <2> HIDE DEF s
    <2> QED BY <1>7, <1>8
  <1> HIDE DEF s
  <1>10. TypeInv' /\ OnlyMoves(l)
    BY <1>1, <1>2, <1>8 DEF TypeInv, OnlyMoves
  <1>11. Placed(l)' /\ Captured(l)'
    BY <1>1, <1>2 DEF LoopInv, Placed, Captured, OwnId, Rollback
  <1>12. part[l] \in {"primary", "undo"} /\ \A i \in DOMAIN s : s[i].part # part[l]
    BY <1>1 DEF LoopInv, RanOnce, TypeInv, Acting, s
  <1>13. RanOnce(l)'
    <2>1. \A i \in DOMAIN s :
            IF s[i].part = "primary"
              THEN s[i].action = job[l].action.id /\ s[i].params = job[l].params
              ELSE /\ part[l] = "undo" /\ s[i].action = Rollback(l)
                   /\ s[i].params = IF restore[l] # NoParams THEN restore[l] ELSE job[l].params
      BY <1>1 DEF LoopInv, RanOnce, s
    <2>2. \A i, k \in DOMAIN s : s[i].part = s[k].part => i = k
      BY <1>1 DEF LoopInv, RanOnce, s
    <2>3. IF x.part = "primary"
            THEN x.action = job[l].action.id /\ x.params = job[l].params
            ELSE /\ part[l] = "undo" /\ x.action = Rollback(l)
                 /\ x.params = IF restore[l] # NoParams THEN restore[l] ELSE job[l].params
      BY <1>3, <1>5, <1>12 DEF Given
    <2>4. \A i, k \in DOMAIN ran'[l] : ran'[l][i].part = ran'[l][k].part => i = k
      BY <1>5, <1>9, <1>12, <2>2
    <2>5. pc'[l] \notin {"capture", "authorise", "check", "attempt", "act"}
      BY <1>2
    <2> QED BY <1>2, <1>9, <2>1, <2>3, <2>4, <2>5 DEF RanOnce, Acting, Rollback
  <1>14. Evidenced(l)'
    <2>1. /\ Recorded(l, "attempt", x.action)
          /\ x.part = "undo" /\ OwnId(l) =>
               Recorded(l, "evaluation", Rollback(l)) /\ Granted(Rollback(l))
      BY <1>1, <1>5 DEF LoopInv, Evidenced, Acting
    <2>2. \A i \in DOMAIN s :
            /\ Recorded(l, "attempt", s[i].action)
            /\ s[i].part = "undo" /\ OwnId(l) =>
                 Recorded(l, "evaluation", Rollback(l)) /\ Granted(Rollback(l))
      BY <1>1 DEF LoopInv, Evidenced, s
    <2>3. ~Acting(l)' /\ pc'[l] \notin {"attempt", "act"}
      BY <1>2 DEF Acting
    <2> QED BY <1>9, <2>1, <2>2, <2>3 DEF Evidenced, OwnId, Rollback, Recorded, Granted
  <1> QED BY <1>10, <1>11, <1>13, <1>14, StepPreserves DEF LoopInv

\* What an executor does to the deployment keeps to the values in use.
LEMMA EffectTyped ==
  ASSUME IInv, NEW l \in Loops, pc[l] # "new", Performable(Running(l).id, Given(l))
  PROVE  Effect(Running(l).id, Given(l)) \in Deployments
  <1> DEFINE id == Running(l).id
             p == Given(l)
  <1>1. job[l] \in Jobs /\ Captured(l) /\ world \in Deployments
    BY RunningFacts DEF IInv, LoopInv, TypeInv
  <1>2. p.names \subseteq {"target"} \/ p.value \in Values
    BY <1>1, LoopAssumption DEF Given, Captured, Jobs
  <1>3. id \in {"scale_service", "redeploy_version"} => p.value \in Values
    BY <1>2 DEF Performable, Needs, Notifications
  <1> HIDE DEF id, p
  <1>4. Effect(id, p) \in Deployments
    BY <1>1, <1>3 DEF Effect, Deployments
  <1> QED BY <1>4 DEF id, p

LEMMA PerformStep == ASSUME IInv, NEW l \in Loops, Perform(l) PROVE IInv'
  <1>1. world' \in Deployments
    BY EffectTyped DEF Perform
  <1> QED BY <1>1, HandMoves DEF Perform, asked

LEMMA ExecutorFailsStep == ASSUME IInv, NEW l \in Loops, ExecutorFails(l) PROVE IInv'
  <1>1. world' \in Deployments
    BY EffectTyped DEF ExecutorFails, IInv, TypeInv
  <1> QED BY <1>1, HandMoves DEF ExecutorFails, asked

\* A step that ends the execution at hand without having verified it.
LEMMA UnverifiedStep ==
  ASSUME IInv, NEW l \in Loops, pc[l] \notin {"new", "capture", "refused"}, outcome[l] = "none",
         Unverified(l), trail \subseteq trail',
         UNCHANGED <<now, records, issued, world, ran, job, restore, authority>>
  PROVE  IInv'
  <1>1. /\ OnlyMoves(l) /\ LoopInv(l)'
        /\ pc' \in [Loops -> {"new"} \cup Ended \cup Underway] /\ outcome' \in [Loops -> Outcomes]
        /\ part' \in [Loops -> {"primary", "undo"}] /\ window' \in [Loops -> Windows]
    BY UnverifiedMoves
  <1>2. TypeInv'
    BY <1>1 DEF IInv, TypeInv
  <1> QED BY <1>1, <1>2, StepPreserves

LEMMA RecordResultStep == ASSUME IInv, NEW l \in Loops, RecordResult(l) PROVE IInv'
  <1>1. /\ pc[l] \in {"result", "errored"} /\ trail \subseteq trail'
        /\ UNCHANGED <<now, records, issued, world, ran, job, restore, authority>>
        /\ IF pc[l] = "result" THEN Goto(l, "observe") ELSE Unverified(l)
    BY DEF RecordResult, Write, asked
  <1>2. LoopInv(l) /\ TypeInv /\ outcome[l] = "none"
    BY <1>1 DEF IInv, LoopInv, Placed
  <1>3. CASE Unverified(l)
    BY <1>1, <1>2, <1>3, UnverifiedStep
  <1>4. CASE Goto(l, "observe")
    <2>1. /\ pc'[l] = "observe" /\ pc' \in [Loops -> {"new"} \cup Ended \cup Underway]
          /\ \A k \in Loops \ {l} : pc'[k] = pc[k]
          /\ part' = part /\ outcome' = outcome /\ window' = window
      BY <1>4, GotoFacts DEF Underway
    <2>2. TypeInv' /\ OnlyMoves(l)
      BY <1>1, <1>2, <2>1 DEF TypeInv, OnlyMoves
    <2>3. Placed(l)' /\ Captured(l)' /\ RanOnce(l)'
      BY <1>1, <1>2, <2>1 DEF LoopInv, Placed, Captured, RanOnce, Acting, OwnId, Rollback
    <2>4. Evidenced(l)'
      BY <1>1, <1>2, <2>1 DEF LoopInv, Evidenced, Acting, OwnId, Rollback, Recorded, Granted
    <2> QED BY <1>1, <2>2, <2>3, <2>4, StepPreserves DEF LoopInv
  <1> QED BY <1>1, <1>3, <1>4

LEMMA AppendFailsStep == ASSUME IInv, NEW l \in Loops, AppendFails(l) PROVE IInv'
  <1>1. /\ pc[l] \in {"authorise", "attempt", "result", "errored"} /\ trail \subseteq trail'
        /\ UNCHANGED <<now, records, issued, world, ran, job, restore, authority>>
        /\ Unverified(l)
    BY DEF AppendFails, Write, asked
  <1>2. outcome[l] = "none"
    BY <1>1 DEF IInv, LoopInv, Placed
  <1> QED BY <1>1, <1>2, UnverifiedStep

LEMMA CloseWindowStep == ASSUME IInv, NEW l \in Loops, CloseWindow(l) PROVE IInv'
  <1>1. /\ pc[l] = "observe" /\ Unverified(l)
        /\ UNCHANGED <<now, records, issued, world, trail, ran, job, restore, authority>>
    BY DEF CloseWindow, shared, asked
  <1>2. outcome[l] = "none"
    BY <1>1 DEF IInv, LoopInv, Placed
  <1> QED BY <1>1, <1>2, UnverifiedStep

\* A step of the window that leaves it open.
LEMMA WindowStep ==
  ASSUME IInv, NEW l \in Loops, pc[l] \in {"observe", "replicas", "judge"},
         NEW next \in {"observe", "replicas", "judge"}, pc' = [pc EXCEPT ![l] = next],
         NEW w \in Windows, window' = [window EXCEPT ![l] = w],
         UNCHANGED <<part, outcome, now, records, issued, world, trail, ran, job, restore, authority>>
  PROVE  IInv'
  <1>1. LoopInv(l) /\ TypeInv /\ outcome[l] = "none"
    BY DEF IInv, LoopInv, Placed
  <1>2. /\ pc'[l] = next /\ pc' \in [Loops -> {"new"} \cup Ended \cup Underway]
        /\ \A k \in Loops \ {l} : pc'[k] = pc[k]
        /\ window' \in [Loops -> Windows]
    BY <1>1 DEF TypeInv, Underway
  <1>3. TypeInv' /\ OnlyMoves(l)
    BY <1>1, <1>2 DEF TypeInv, OnlyMoves
  <1>4. Placed(l)' /\ Captured(l)' /\ RanOnce(l)'
    BY <1>1, <1>2 DEF LoopInv, Placed, Captured, RanOnce, Acting, OwnId, Rollback
  <1>5. Evidenced(l)'
    BY <1>1, <1>2 DEF LoopInv, Evidenced, Acting, OwnId, Rollback, Recorded, Granted
  <1> QED BY <1>3, <1>4, <1>5, StepPreserves DEF LoopInv

\* What an answer does to the window.
LEMMA AnswerFacts ==
  ASSUME IInv, NEW l \in Loops, NEW answer \in BOOLEAN, NEW told \in BOOLEAN,
         Answered(l, answer, told)
  PROVE  \E w \in Windows :
           /\ window' = [window EXCEPT ![l] = w]
           /\ w.hold = window[l].hold /\ w.told = told
           /\ answer => w.stood >= window[l].stood + 1 \/ w.stood = 2 * HoldSamples
  <1> DEFINE n == IF ~answer THEN 0
                  ELSE IF window[l].stood < 2 * HoldSamples THEN window[l].stood + 1 ELSE window[l].stood
             w == [hold |-> window[l].hold, told |-> told, stood |-> n]
  <1>1. window \in [Loops -> Windows] /\ HoldSamples \in Nat \ {0}
    BY LoopAssumption DEF IInv, TypeInv
  <1>2. /\ window[l].hold \in 0..(HoldSamples - 1) /\ window[l].stood \in 0..(2 * HoldSamples)
        /\ window[l] \in Windows
    BY <1>1 DEF Windows
  <1>3. w \in Windows
    BY <1>1, <1>2 DEF Windows
  <1>5. window' = [window EXCEPT ![l] = w]
    BY DEF Answered
  <1>6. answer => n >= window[l].stood + 1 \/ n = 2 * HoldSamples
    BY <1>1, <1>2
  <1> QED BY <1>3, <1>5, <1>6

\* The two reads of a sample, and which answers they may be given.
LEMMA ReadFacts ==
  ASSUME IInv, NEW l \in Loops, ReadRollout(l) \/ ReadReplicas(l)
  PROVE  /\ UNCHANGED <<part, outcome, now, records, issued, world, trail, ran, job, restore, authority>>
         /\ \E answer \in BOOLEAN, told \in BOOLEAN : Answered(l, answer, told)
         /\ \E next \in {"replicas", "judge"} : pc' = [pc EXCEPT ![l] = next]
         /\ pc[l] \in {"observe", "replicas"}
  <1>1. CASE ReadRollout(l)
    BY <1>1 DEF ReadRollout, shared, asked
  <1>2. CASE ReadReplicas(l)
    <2>1. PICK ready \in (IF world.settled THEN {world.replicas} ELSE {0} \cup Values) :
            \E answer \in {FALSE, ready = Given(l).value} :
              Answered(l, answer, window[l].told /\ answer)
      BY <1>2 DEF ReadReplicas
    <2> QED BY <1>2, <2>1 DEF ReadReplicas, shared, asked
  <1> QED BY <1>1, <1>2

LEMMA ReadStep == ASSUME IInv, NEW l \in Loops, ReadRollout(l) \/ ReadReplicas(l) PROVE IInv'
  <1>1. PICK answer \in BOOLEAN, told \in BOOLEAN : Answered(l, answer, told)
    BY ReadFacts
  <1>2. PICK w \in Windows : window' = [window EXCEPT ![l] = w]
    BY <1>1, AnswerFacts
  <1>3. PICK next \in {"replicas", "judge"} : pc' = [pc EXCEPT ![l] = next]
    BY ReadFacts
  <1> QED BY <1>2, <1>3, ReadFacts, WindowStep

\* The judgement of a sample: the state has held, or the count goes on.
LEMMA JudgeFacts ==
  ASSUME IInv, NEW l \in Loops, Judge(l)
  PROVE  \/ window[l].told /\ window[l].hold + 1 >= HoldSamples /\ Verified(l)
         \/ /\ pc' = [pc EXCEPT ![l] = "observe"] /\ UNCHANGED <<part, outcome>>
            /\ \E w \in Windows :
                 /\ window' = [window EXCEPT ![l] = w] /\ w.stood = window[l].stood
                 /\ w.hold = IF window[l].told THEN window[l].hold + 1 ELSE 0
  <1>1. CASE window[l].told /\ window[l].hold + 1 >= HoldSamples
    BY <1>1 DEF Judge
  <1>2. CASE ~(window[l].told /\ window[l].hold + 1 >= HoldSamples)
    <2> DEFINE n == IF window[l].told THEN window[l].hold + 1 ELSE 0
               w == [hold |-> n, told |-> FALSE, stood |-> window[l].stood]
    <2>1. window[l] \in Windows /\ HoldSamples \in Nat \ {0}
      BY LoopAssumption DEF IInv, TypeInv
    <2>2. w \in Windows
      BY <1>2, <2>1 DEF Windows
    <2>3. /\ pc' = [pc EXCEPT ![l] = "observe"] /\ UNCHANGED <<part, outcome>>
          /\ window' = [window EXCEPT ![l] = w]
      BY <1>2 DEF Judge
    <2> QED BY <2>2, <2>3
  <1> QED BY <1>1, <1>2

LEMMA JudgeStep == ASSUME IInv, NEW l \in Loops, Judge(l) PROVE IInv'
  <1>1. /\ pc[l] = "judge"
        /\ UNCHANGED <<now, records, issued, world, trail, ran, job, restore, authority>>
    BY DEF Judge, shared, asked
  <1>2. CASE Verified(l)
    <2>1. LoopInv(l) /\ TypeInv /\ outcome[l] = "none"
      BY <1>1 DEF IInv, LoopInv, Placed
    <2>2. PICK d \in H!Dispositions : End(l, d)
      BY <1>2 DEF Verified, H!Dispositions
    <2>3. /\ OnlyMoves(l) /\ LoopInv(l)' /\ part' = part /\ window' = window
          /\ pc' \in [Loops -> {"new"} \cup Ended \cup Underway] /\ outcome' \in [Loops -> Outcomes]
      BY <1>1, <2>1, <2>2, EndMoves
    <2>4. TypeInv'
      BY <1>1, <2>1, <2>3 DEF TypeInv
    <2> QED BY <1>1, <2>3, <2>4, StepPreserves
  <1>3. CASE ~Verified(l)
    BY <1>1, <1>3, JudgeFacts, WindowStep
  <1> QED BY <1>2, <1>3

\* A loop with its outcome: it can only be filed.
LEMMA OverMoves ==
  ASSUME IInv, NEW l \in Loops, outcome[l] # "none", pc[l] \in {"conclude", "learn"},
         NEW next \in {"learn", "done", "failed"}, Goto(l, next), trail \subseteq trail',
         records' \in Seq(Entry), \A i \in DOMAIN records' : records'[i].at <= now,
         UNCHANGED <<now, issued, world, ran, job, restore, authority>>
  PROVE  IInv'
  <1>1. LoopInv(l) /\ TypeInv
    BY DEF IInv
  <1>2. /\ pc'[l] = next /\ pc' \in [Loops -> {"new"} \cup Ended \cup Underway]
        /\ \A k \in Loops \ {l} : pc'[k] = pc[k]
        /\ part' = part /\ outcome' = outcome /\ window' = window
    BY GotoFacts DEF Underway, Ended
  <1>3. TypeInv' /\ OnlyMoves(l)
    BY <1>1, <1>2 DEF TypeInv, OnlyMoves
  <1>4. Placed(l)' /\ Captured(l)' /\ RanOnce(l)'
    BY <1>1, <1>2 DEF LoopInv, Placed, Captured, RanOnce, Acting, OwnId, Rollback
  <1>5. Evidenced(l)'
    BY <1>1, <1>2 DEF LoopInv, Evidenced, Acting, OwnId, Rollback, Recorded, Granted
  <1> QED BY <1>3, <1>4, <1>5, StepPreserves DEF LoopInv

LEMMA ConcludeStep ==
  ASSUME IInv, NEW l \in Loops, Conclude(l) \/ ConcludeFails(l)
  PROVE  IInv'
  <1>1. /\ pc[l] = "conclude" /\ trail \subseteq trail'
        /\ \E next \in {"learn", "done", "failed"} : Goto(l, next)
        /\ UNCHANGED <<now, records, issued, world, ran, job, restore, authority>>
    BY DEF Conclude, ConcludeFails, Write, asked
  <1>2. outcome[l] # "none" /\ records' \in Seq(Entry) /\ \A i \in DOMAIN records' : records'[i].at <= now
    BY <1>1 DEF IInv, LoopInv, Placed, TypeInv
  <1> QED BY <1>1, <1>2, OverMoves

LEMMA LearnStep == ASSUME IInv, NEW l \in Loops, Learn(l) PROVE IInv'
  <1> DEFINE e == [action |-> job[l].action.id, env |-> Place, at |-> job[l].start,
                   disposition |-> outcome[l]]
  <1>1. /\ pc[l] = "learn" /\ records' = Append(records, e) /\ Goto(l, "done")
        /\ UNCHANGED <<now, issued, world, trail, ran, job, restore, authority>>
    BY DEF Learn, asked
  <1>2. outcome[l] # "none" /\ job[l] \in Jobs /\ job[l].start <= now
    BY <1>1 DEF IInv, LoopInv, Placed
  <1>3. e \in Entry /\ e.at <= now
    BY <1>2, LoopAssumption DEF IInv, TypeInv, Entry, Jobs, Ids, Outcomes
  <1> HIDE DEF e
  <1>4. records \in Seq(Entry) /\ \A i \in DOMAIN records : records[i].at <= now
    BY DEF IInv, TypeInv
  <1>5. records' \in Seq(Entry) /\ \A i \in DOMAIN records' : records'[i].at <= now
    <2>1. /\ Append(records, e) \in Seq(Entry)
          /\ \A i \in DOMAIN Append(records, e) :
               \/ i \in DOMAIN records /\ Append(records, e)[i] = records[i]
               \/ i = Len(records) + 1 /\ Append(records, e)[i] = e
      BY <1>3, <1>4, AppendFacts
    <2> QED BY <1>1, <1>3, <1>4, <2>1
  <1> QED BY <1>1, <1>2, <1>5, OverMoves

-----------------------------------------------------------------------------
LEMMA RestartStep == ASSUME IInv, Restart PROVE IInv'
  <1>1. /\ pc' = [l \in Loops |-> IF pc[l] \in Underway THEN "lost" ELSE pc[l]]
        /\ records' = <<>>
        /\ UNCHANGED <<now, issued, world, trail, ran, part, outcome, window, job, restore, authority>>
    BY DEF Restart, asked
  <1>2. TypeInv'
    <2>1. pc' \in [Loops -> {"new"} \cup Ended \cup Underway]
      BY <1>1 DEF IInv, TypeInv, Ended
    <2>2. records' \in Seq(Entry) /\ \A i \in DOMAIN records' : records'[i].at <= now
      BY <1>1
    <2> QED BY <1>1, <2>1, <2>2 DEF IInv, TypeInv
  <1>3. ASSUME NEW l \in Loops PROVE LoopInv(l)'
    <2>1. LoopInv(l)
      BY DEF IInv
    <2>4. pc'[l] = IF pc[l] \in Underway THEN "lost" ELSE pc[l]
      BY <1>1
    <2>2. Placed(l)' /\ Captured(l)' /\ RanOnce(l)'
      BY <1>1, <2>1, <2>4
      DEF LoopInv, Placed, Captured, RanOnce, Acting, OwnId, Rollback, Underway
    <2>3. Evidenced(l)'
      BY <1>1, <2>1, <2>4
      DEF LoopInv, Evidenced, Acting, OwnId, Rollback, Recorded, Granted, Underway, Running
    <2> QED BY <2>2, <2>3 DEF LoopInv
  <1> QED BY <1>2, <1>3 DEF IInv

\* Time passes or the deployment moves: nothing a loop has established changes.
LEMMA WorldStep ==
  ASSUME IInv, ClusterMoves \/ Tick \/ UNCHANGED vars
  PROVE  IInv'
  <1>1. UNCHANGED <<records, issued, trail, ran, pc, part, outcome, window, job, restore, authority>>
    BY DEF ClusterMoves, Tick, vars, control, asked
  <1>2. now \in 0..MaxTime /\ now' \in 0..MaxTime /\ now <= now'
    BY LoopAssumption DEF IInv, TypeInv, ClusterMoves, Tick, vars
  <1>3. world' \in Deployments
    BY DEF IInv, TypeInv, ClusterMoves, Tick, vars, Deployments
  <1>4. \A i \in DOMAIN records' : records'[i].at <= now'
    <2> SUFFICES ASSUME NEW i \in DOMAIN records PROVE records[i].at <= now'
      BY <1>1
    <2>1. records \in Seq(Entry) /\ records[i].at <= now
      BY DEF IInv, TypeInv
    <2>2. records[i] \in Entry
      BY <2>1
    <2>3. records[i].at \in Nat
      BY <2>2, LoopAssumption DEF Entry
    <2> QED BY <1>2, <2>1, <2>3
  <1>5. TypeInv'
    BY <1>1, <1>2, <1>3, <1>4 DEF IInv, TypeInv
  <1>6. ASSUME NEW l \in Loops PROVE LoopInv(l)'
    <2>1. LoopInv(l)
      BY DEF IInv
    <2>2. pc[l] # "new" => job[l].start <= now'
      <3> SUFFICES ASSUME pc[l] # "new" PROVE job[l].start <= now'
        OBVIOUS
      <3>1. job[l] \in Jobs /\ job[l].start <= now
        BY <2>1 DEF LoopInv, Placed
      <3>2. job[l].start \in Nat
        BY <3>1, LoopAssumption DEF Jobs
      <3> QED BY <1>2, <3>1, <3>2
    <2>3. Placed(l)' /\ Captured(l)' /\ RanOnce(l)'
      BY <1>1, <2>1, <2>2 DEF LoopInv, Placed, Captured, RanOnce, Acting, OwnId, Rollback
    <2>4. Evidenced(l)'
      BY <1>1, <2>1 DEF LoopInv, Evidenced, Acting, OwnId, Rollback, Recorded, Granted, Running
    <2> QED BY <2>3, <2>4 DEF LoopInv
  <1> QED BY <1>5, <1>6 DEF IInv

LEMMA ProceedsStep == ASSUME IInv, NEW l \in Loops, Proceeds(l) PROVE IInv'
  <1>1. CASE Capture(l) \/ CaptureFails(l) \/ Authorise(l) \/ Check(l)
    BY <1>1, CaptureStep, CaptureFailsStep, AuthoriseStep, CheckStep
  <1>2. CASE RecordAttempt(l) \/ Describe(l) \/ Perform(l) \/ ExecutorFails(l)
    BY <1>2, RecordAttemptStep, DescribeStep, PerformStep, ExecutorFailsStep
  <1>3. CASE RecordResult(l) \/ AppendFails(l) \/ CloseWindow(l)
    BY <1>3, RecordResultStep, AppendFailsStep, CloseWindowStep
  <1>4. CASE Conclude(l) \/ ConcludeFails(l) \/ Learn(l)
    BY <1>4, ConcludeStep, LearnStep
  <1>5. CASE ReadReplicas(l) \/ Judge(l)
    BY <1>5, ReadStep, JudgeStep
  <1> QED BY <1>1, <1>2, <1>3, <1>4, <1>5 DEF Proceeds

LEMMA NextStep == ASSUME IInv, [Next]_vars PROVE IInv'
  <1>1. ASSUME NEW l \in Loops, Asks(l) \/ Proceeds(l) \/ ReadRollout(l)
        PROVE  IInv'
    BY <1>1, StartStep, ProceedsStep, ReadStep
  <1>2. CASE Restart
    BY <1>2, RestartStep
  <1>3. CASE ClusterMoves \/ Tick \/ UNCHANGED vars
    BY <1>3, WorldStep
  <1> QED BY <1>1, <1>2, <1>3 DEF Next

LEMMA InitStep == ASSUME Init PROVE IInv
  <1>1. PICK v \in Values :
          world = [replicas |-> v, image |-> v, previous |-> v, settled |-> TRUE]
    BY DEF Init
  <1>2. world \in Deployments
    BY <1>1 DEF Deployments
  <1>3. NoParams \in Parameters
    BY DEF NoParams, Parameters
  <1>4. now \in 0..MaxTime /\ window \in [Loops -> Windows]
    BY LoopAssumption DEF Init, NoWindow, Windows
  <1>5. records \in Seq(Entry) /\ \A i \in DOMAIN records : records[i].at <= now
    BY DEF Init
  <1>6. ran \in [Loops -> Seq(Runs)]
    BY DEF Init
  <1>7. /\ pc \in [Loops -> {"new"} \cup Ended \cup Underway]
        /\ part \in [Loops -> {"primary", "undo"}] /\ outcome \in [Loops -> Outcomes]
        /\ job \in [Loops -> Jobs \cup {NoJob}] /\ restore \in [Loops -> Parameters]
        /\ DOMAIN authority = Loops
    BY <1>3 DEF Init, Outcomes
  <1>8. TypeInv
    BY <1>2, <1>4, <1>5, <1>6, <1>7 DEF TypeInv
  <1>9. ASSUME NEW l \in Loops PROVE LoopInv(l)
    BY DEF Init, LoopInv, Placed, Captured, RanOnce, Evidenced, Acting
  <1> QED BY <1>8, <1>9 DEF IInv

\* Every reachable state satisfies the inductive invariant.
THEOREM LoopInvariant == Spec => []IInv
  BY InitStep, NextStep, PTL DEF Spec

-----------------------------------------------------------------------------
\* TypeOK: every variable keeps to its type, and no record of the history is
\* of a later moment than the clock's.
THEOREM LoopTypeCorrect == Spec => []TypeOK
  <1>1. IInv => TypeOK
    BY DEF IInv, TypeInv, TypeOK, Deployments, Outcomes, Windows
  <1> QED BY <1>1, LoopInvariant, PTL

\* EvidenceOfEveryRun: whatever was handed to the live executor left its
\* attempt on the trail first, whatever failed or died around it.
THEOREM EvidenceTheorem == Spec => []EvidenceOfEveryRun
  <1>1. IInv => EvidenceOfEveryRun
    BY DEF IInv, LoopInv, Evidenced, Recorded, EvidenceOfEveryRun, Handed
  <1> QED BY <1>1, LoopInvariant, PTL

\* NothingIsRetried: one loop never hands the same call to the executor
\* twice.  The undo of an action that is its own rollback is another call,
\* because what was captured lacks the target the action was given.
THEOREM NothingIsRetriedTheorem == Spec => []NothingIsRetried
  <1>1. ASSUME IInv, NEW l \in Loops, NEW i \in DOMAIN ran[l], NEW j \in DOMAIN ran[l],
               ran[l][i].action = ran[l][j].action, ran[l][i].params = ran[l][j].params
        PROVE  i = j
    <2>1. /\ ran[l][i].part \in {"primary", "undo"} /\ ran[l][j].part \in {"primary", "undo"}
          /\ Placed(l) /\ Captured(l) /\ RanOnce(l)
      BY <1>1, RanTyped DEF IInv, LoopInv
    <2>2. ASSUME NEW x \in DOMAIN ran[l], NEW y \in DOMAIN ran[l],
                 ran[l][x].part = "primary", ran[l][y].part = "undo",
                 ran[l][x].action = ran[l][y].action, ran[l][x].params = ran[l][y].params
          PROVE  FALSE
      <3>1. /\ ran[l][x].action = job[l].action.id /\ ran[l][x].params = job[l].params
        BY <2>1, <2>2 DEF RanOnce
      <3>2. /\ part[l] = "undo" /\ ran[l][y].action = Rollback(l)
            /\ ran[l][y].params = IF restore[l] # NoParams THEN restore[l] ELSE job[l].params
        BY <2>1, <2>2 DEF RanOnce
      <3>3. restore[l] # NoParams
        BY <2>1, <2>2, <3>1, <3>2 DEF Placed, OwnId
      <3> QED BY <2>1, <2>2, <3>1, <3>2, <3>3 DEF Captured
    <2> QED BY <1>1, <2>1, <2>2 DEF RanOnce
  <1>2. IInv => NothingIsRetried
    BY <1>1 DEF NothingIsRetried
  <1> QED BY <1>2, LoopInvariant, PTL

\* UndoRunsOnItsOwnAuthority: an undo that is an action of its own runs only
\* under a grant of its own, and the grant is on the trail.
THEOREM UndoAuthorityTheorem == Spec => []UndoRunsOnItsOwnAuthority
  <1>1. ASSUME IInv, NEW l \in Loops, NEW i \in DOMAIN ran[l],
               ran[l][i].part = "undo", ran[l][i].action # job[l].action.id
        PROVE  /\ \E e \in issued : e.spec.id = ran[l][i].action /\ e.verdict.tier = "autonomous"
               /\ [loop |-> l, kind |-> "evaluation", action |-> ran[l][i].action] \in trail
    <2>1. RanOnce(l) /\ Evidenced(l)
      BY <1>1 DEF IInv, LoopInv
    <2>2. ran[l][i].action = Rollback(l) /\ OwnId(l)
      BY <1>1, <2>1 DEF RanOnce, OwnId
    <2> QED BY <1>1, <2>1, <2>2 DEF Evidenced, Recorded, Granted
  <1>2. IInv => UndoRunsOnItsOwnAuthority
    BY <1>1 DEF UndoRunsOnItsOwnAuthority, Handed
  <1> QED BY <1>2, LoopInvariant, PTL

-----------------------------------------------------------------------------
\* Loop l goes on, with the execution it is at.
Onward(l, next) == pc' = [pc EXCEPT ![l] = next] /\ UNCHANGED <<part, outcome>>

\* What a step of a loop under way does to its control: it goes on, it ends
\* the execution at hand, or it settles the outcome.
LEMMA Moves ==
  ASSUME IInv, NEW l \in Loops, Proceeds(l) \/ ReadRollout(l)
  PROVE  /\ pc[l] \in Underway
         /\ \/ \E next \in Underway \cup {"done", "failed"} : Onward(l, next)
            \/ outcome[l] = "none" /\ Unverified(l)
            \/ outcome[l] = "none" /\ part[l] = "primary" /\ End(l, "escalated")
            \/ outcome[l] = "none" /\ Judge(l) /\ Verified(l)
  <1>1. Placed(l)
    BY DEF IInv, LoopInv
  <1>2. CASE Capture(l) \/ Authorise(l) \/ RecordAttempt(l) \/ Describe(l) \/ Perform(l)
              \/ ExecutorFails(l) \/ Conclude(l) \/ ConcludeFails(l) \/ Learn(l)
    BY <1>2 DEF Capture, Authorise, RecordAttempt, Describe, Perform, ExecutorFails,
                Conclude, ConcludeFails, Learn, Underway, Goto, Onward
  <1>3. CASE CaptureFails(l)
    BY <1>1, <1>3 DEF CaptureFails, Placed, Underway
  <1>4. CASE Check(l) \/ RecordResult(l) \/ AppendFails(l) \/ CloseWindow(l)
    BY <1>1, <1>4 DEF Check, RecordResult, AppendFails, CloseWindow, Placed, Underway, Goto, Onward
  <1>5. CASE ReadRollout(l) \/ ReadReplicas(l)
    <2>1. PICK next \in {"replicas", "judge"} : pc' = [pc EXCEPT ![l] = next]
      BY <1>5, ReadFacts
    <2>2. UNCHANGED <<part, outcome>> /\ pc[l] \in {"observe", "replicas"}
      BY <1>5, ReadFacts
    <2> QED BY <2>1, <2>2 DEF Underway, Onward
  <1>6. CASE Judge(l)
    <2>1. pc[l] = "judge" /\ outcome[l] = "none"
      BY <1>1, <1>6 DEF Judge, Placed
    <2> QED BY <1>6, <2>1, JudgeFacts DEF Underway, Onward
  <1> QED BY <1>2, <1>3, <1>4, <1>5, <1>6 DEF Proceeds

(***************************************************************************)
(* What a loop closes on has held.  The window of an execution is fresh    *)
(* when it opens; from then on as many answers in a row have been true as  *)
(* its count of samples, and the sample under way, say.                    *)
(***************************************************************************)
BeforeWindow == {"new", "capture", "authorise", "check", "attempt", "act", "result", "errored"}

\* So many samples of loop l, and so many reads, stood when they were read.
Stood(l, samples, reads) == window[l].stood >= samples * Reads(Given(l)) + reads

HeldInv(l) ==
  /\ pc[l] \in BeforeWindow => window[l].hold = 0
  /\ pc[l] = "observe" => Stood(l, window[l].hold, 0)
  /\ pc[l] = "replicas" =>
       /\ Live /\ "replicas" \in Given(l).names
       /\ window[l].told => Stood(l, window[l].hold, 1)
  /\ pc[l] = "judge" => Live /\ (window[l].told => Stood(l, window[l].hold + 1, 0))
  /\ outcome[l] \in {"resolved", "rolled_back"} => Live /\ Stood(l, HoldSamples, 0)

AllHeld == \A l \in Loops : HeldInv(l)

\* A sample takes one read or two.
LEMMA ReadsFacts ==
  ASSUME NEW p
  PROVE  /\ Reads(p) \in {1, 2} /\ Reads(p) = 2 <=> "replicas" \in p.names
         /\ \A n \in Int : n * Reads(p) = IF "replicas" \in p.names THEN n + n ELSE n
  BY DEF Reads

\* What a loop does leaves the windows of the others alone.
LEMMA OthersStay ==
  ASSUME IInv, NEW l \in Loops, Asks(l) \/ Proceeds(l) \/ ReadRollout(l), NEW k \in Loops, k # l
  PROVE  /\ pc'[k] = pc[k] /\ part'[k] = part[k] /\ outcome'[k] = outcome[k] /\ window'[k] = window[k]
         /\ job'[k] = job[k] /\ restore'[k] = restore[k]
  <1>1. /\ pc \in [Loops -> {"new"} \cup Ended \cup Underway] /\ part \in [Loops -> {"primary", "undo"}]
        /\ outcome \in [Loops -> Outcomes] /\ window \in [Loops -> Windows]
        /\ job \in [Loops -> Jobs \cup {NoJob}] /\ restore \in [Loops -> Parameters]
    BY DEF IInv, TypeInv
  <1>2. CASE Asks(l)
    BY <1>1, <1>2 DEF Asks, Start, Goto, shared
  <1>3. CASE Capture(l) \/ CaptureFails(l) \/ Authorise(l) \/ RecordAttempt(l) \/ Describe(l)
              \/ Perform(l) \/ ExecutorFails(l) \/ Conclude(l) \/ ConcludeFails(l) \/ Learn(l)
    BY <1>1, <1>3 DEF Capture, CaptureFails, Authorise, RecordAttempt, Describe, Perform,
                      ExecutorFails, Conclude, ConcludeFails, Learn, Goto, End, asked
  <1>4. CASE Check(l) \/ RecordResult(l) \/ AppendFails(l) \/ CloseWindow(l)
    BY <1>1, <1>4 DEF Check, RecordResult, AppendFails, CloseWindow, Goto, Unverified, Undo, End, asked
  <1>5. CASE ReadRollout(l) \/ ReadReplicas(l) \/ Judge(l)
    BY <1>1, <1>5 DEF ReadRollout, ReadReplicas, Judge, Answered, Verified, End, asked
  <1> QED BY <1>2, <1>3, <1>4, <1>5 DEF Proceeds

\* A loop that does not move keeps what its window says.
LEMMA HeldStays ==
  ASSUME NEW k \in Loops, HeldInv(k), pc'[k] \in {pc[k], "lost"}, outcome'[k] = outcome[k],
         window'[k] = window[k], part'[k] = part[k], job'[k] = job[k], restore'[k] = restore[k]
  PROVE  HeldInv(k)'
  <1>1. Given(k)' = Given(k)
    BY DEF Given
  <1> HIDE DEF Given
  <1> QED BY <1>1 DEF HeldInv, Stood, BeforeWindow

\* So does one that goes on before its window opens, or after it has closed.
LEMMA HeldOnward ==
  ASSUME IInv, NEW l \in Loops, HeldInv(l), Onward(l, pc'[l]), window' = window,
         \/ pc[l] \in BeforeWindow /\ outcome[l] = "none" /\ pc'[l] \in BeforeWindow \cup {"observe"}
         \/ /\ pc'[l] \in {"learn", "done", "failed"}
            /\ UNCHANGED <<job, restore>>
  PROVE  HeldInv(l)'
  <1>1. window \in [Loops -> Windows] /\ outcome'[l] = outcome[l]
    BY DEF IInv, TypeInv, Onward
  <1>2. CASE pc[l] \in BeforeWindow /\ outcome[l] = "none" /\ pc'[l] \in BeforeWindow \cup {"observe"}
    <2>1. window'[l].hold = 0 /\ window'[l].stood >= 0
      BY <1>1, <1>2, LoopAssumption DEF HeldInv, Windows
    <2>2. 0 * 1 = 0 /\ 0 * 2 = 0
      OBVIOUS
    <2>3. Stood(l, window[l].hold, 0)'
      BY <2>1, <2>2 DEF Stood, Reads
    <2> QED BY <1>1, <1>2, <2>1, <2>3 DEF HeldInv, BeforeWindow
  <1>3. CASE pc'[l] \in {"learn", "done", "failed"} /\ UNCHANGED <<job, restore>>
    <2>1. Given(l)' = Given(l)
      BY <1>3 DEF Given, Onward
    <2> HIDE DEF Given
    <2> QED BY <1>1, <1>3, <2>1 DEF HeldInv, Stood, BeforeWindow
  <1> QED BY <1>2, <1>3

\* So does one whose execution could not be verified: its undo, if there is
\* one, will open a window of its own.
LEMMA HeldUnverified ==
  ASSUME IInv, NEW l \in Loops, pc[l] # "new", outcome[l] = "none",
         Unverified(l) \/ End(l, "escalated")
  PROVE  HeldInv(l)'
  <1>1. /\ pc \in [Loops -> {"new"} \cup Ended \cup Underway] /\ part \in [Loops -> {"primary", "undo"}]
        /\ outcome \in [Loops -> Outcomes] /\ window \in [Loops -> Windows]
    BY DEF IInv, TypeInv
  <1>2. CASE \E d \in {"escalated", "rollback_failed"} : End(l, d)
    BY <1>1, <1>2 DEF End, HeldInv, BeforeWindow
  <1>3. CASE /\ pc'[l] \in {"check", "authorise"} /\ outcome'[l] = "none" /\ window'[l] = NoWindow
    BY <1>3 DEF HeldInv, BeforeWindow, NoWindow
  <1>4. CASE Unverified(l) /\ part[l] = "primary" /\ ~NoWayBack(l)
    BY <1>1, <1>3, <1>4 DEF Unverified, Undo
  <1> QED BY <1>2, <1>4 DEF Unverified, Undo

\* An answer counts for the sample only if it was so.
LEMMA HeldRead ==
  ASSUME IInv, NEW l \in Loops, HeldInv(l), ReadRollout(l) \/ ReadReplicas(l)
  PROVE  HeldInv(l)'
  <1>1. /\ pc \in [Loops -> {"new"} \cup Ended \cup Underway] /\ window \in [Loops -> Windows]
        /\ HoldSamples \in Nat \ {0} /\ outcome[l] = "none"
    BY LoopAssumption, ReadFacts DEF IInv, TypeInv, LoopInv, Placed
  <1>2. Given(l)' = Given(l) /\ outcome'[l] = "none"
    BY <1>1, ReadFacts DEF Given
  <1>3. PICK h \in 0..(HoldSamples - 1), s \in 0..(2 * HoldSamples), t \in BOOLEAN, twice \in BOOLEAN :
          /\ window[l].hold = h /\ window[l].stood = s /\ window[l].told = t
          /\ twice = ("replicas" \in Given(l).names)
    <2>1. /\ window[l].hold \in 0..(HoldSamples - 1) /\ window[l].stood \in 0..(2 * HoldSamples)
          /\ window[l].told \in BOOLEAN
      BY <1>1 DEF Windows
    <2>2. ("replicas" \in Given(l).names) \in BOOLEAN
      OBVIOUS
    <2> QED BY <2>1, <2>2, Zenon
  <1>4. \A n \in Int, m \in Int :
          /\ Stood(l, n, m) <=> s >= (IF twice THEN n + n ELSE n) + m
          /\ Stood(l, n, m)' <=> window'[l].stood >= (IF twice THEN n + n ELSE n) + m
    BY <1>2, <1>3, ReadsFacts DEF Stood
  <1>5. h \in Int /\ h + 1 \in Int /\ 0 \in Int /\ 1 \in Int
    BY <1>1
  <1>6. ASSUME NEW answer \in BOOLEAN, NEW told \in BOOLEAN, Answered(l, answer, told)
        PROVE  /\ window'[l].hold = h /\ window'[l].told = told
               /\ window'[l].stood \in 0..(2 * HoldSamples)
               /\ answer => window'[l].stood >= s + 1 \/ window'[l].stood = 2 * HoldSamples
    <2>1. PICK w \in Windows :
            /\ window' = [window EXCEPT ![l] = w]
            /\ w.hold = window[l].hold /\ w.told = told
            /\ answer => w.stood >= window[l].stood + 1 \/ w.stood = 2 * HoldSamples
      BY <1>6, AnswerFacts
    <2> QED BY <1>1, <1>3, <2>1 DEF Windows
  <1>7. CASE ReadRollout(l)
    <2> DEFINE so == Observable(l) /\ world.settled
    <2>1. world.settled \in BOOLEAN
      BY DEF IInv, TypeInv, Deployments
    <2>2. /\ pc[l] = "observe" /\ Live
          /\ \E answer \in {FALSE, so} : Answered(l, answer, answer)
          /\ pc' = [pc EXCEPT ![l] = IF Observable(l) /\ twice THEN "replicas" ELSE "judge"]
      BY <1>3, <1>7 DEF ReadRollout
    <2>3. PICK answer \in BOOLEAN : Answered(l, answer, answer) /\ (answer => Observable(l))
      BY <2>1, <2>2 DEF Observable
    <2>4. s >= IF twice THEN h + h ELSE h
      <3>1. Stood(l, h, 0)
        BY <1>3, <2>2 DEF HeldInv
      <3>2. Stood(l, h, 0) <=> s >= (IF twice THEN h + h ELSE h) + 0
        BY <1>4, <1>5
      <3> QED BY <1>1, <3>1, <3>2
    <2>5. /\ window'[l].hold = h /\ window'[l].told = answer
          /\ window'[l].stood \in 0..(2 * HoldSamples)
          /\ answer => window'[l].stood >= s + 1 \/ window'[l].stood = 2 * HoldSamples
      BY <1>6, <2>3
    <2>6. /\ answer => Stood(l, h, 1)'
          /\ answer /\ ~twice => Stood(l, h + 1, 0)'
      <3>1. answer => window'[l].stood >= (IF twice THEN h + h ELSE h) + 1
        BY <1>1, <1>3, <2>4, <2>5
      <3>2. Stood(l, h, 1)' <=> window'[l].stood >= (IF twice THEN h + h ELSE h) + 1
        BY <1>4, <1>5
      <3>3. Stood(l, h + 1, 0)' <=>
              window'[l].stood >= (IF twice THEN (h + 1) + (h + 1) ELSE h + 1) + 0
        BY <1>4, <1>5
      <3> QED BY <1>1, <2>5, <3>1, <3>2, <3>3
    <2>7. pc'[l] = (IF Observable(l) /\ twice THEN "replicas" ELSE "judge")
      BY <1>1, <2>2
    <2> HIDE DEF so
    <2>8. CASE Observable(l) /\ twice
      <3>1. ("replicas" \in Given(l).names)'
        BY <1>2, <1>3, <2>8
      <3> QED BY <1>2, <2>2, <2>5, <2>6, <2>7, <2>8, <3>1 DEF HeldInv, BeforeWindow
    <2>9. CASE ~(Observable(l) /\ twice)
      BY <1>2, <1>3, <2>2, <2>3, <2>5, <2>6, <2>7, <2>9 DEF HeldInv, BeforeWindow
    <2> QED BY <2>8, <2>9
  <1>8. CASE ReadReplicas(l)
    <2>1. /\ pc[l] = "replicas" /\ pc' = [pc EXCEPT ![l] = "judge"]
          /\ \E ready \in IF world.settled THEN {world.replicas} ELSE {0} \cup Values :
               \E answer \in {FALSE, ready = Given(l).value} : Answered(l, answer, t /\ answer)
      BY <1>3, <1>8 DEF ReadReplicas
    <2>2. PICK answer \in BOOLEAN : Answered(l, answer, t /\ answer)
      BY <2>1
    <2>3. /\ window'[l].hold = h /\ window'[l].told = (t /\ answer)
          /\ window'[l].stood \in 0..(2 * HoldSamples)
          /\ answer => window'[l].stood >= s + 1 \/ window'[l].stood = 2 * HoldSamples
      <3>1. (t /\ answer) \in BOOLEAN
        OBVIOUS
      <3> QED BY <1>6, <2>2, <3>1
    <2>4. Live /\ twice /\ (t => s >= h + h + 1)
      <3>1. Live /\ twice /\ (t => Stood(l, h, 1))
        BY <1>3, <2>1 DEF HeldInv
      <3>2. Stood(l, h, 1) <=> s >= (IF twice THEN h + h ELSE h) + 1
        BY <1>4, <1>5
      <3> QED BY <3>1, <3>2
    <2>5. window'[l].told => Stood(l, h + 1, 0)'
      <3>1. Stood(l, h + 1, 0)' <=>
              window'[l].stood >= (IF twice THEN (h + 1) + (h + 1) ELSE h + 1) + 0
        BY <1>4, <1>5
      <3> QED BY <1>1, <2>3, <2>4, <3>1
    <2>6. pc'[l] = "judge"
      BY <1>1, <2>1
    <2> QED BY <1>2, <2>3, <2>4, <2>5, <2>6 DEF HeldInv, BeforeWindow
  <1> QED BY <1>7, <1>8

\* The judgement closes the window when enough samples have stood, and only
\* then.
LEMMA HeldJudge ==
  ASSUME IInv, NEW l \in Loops, HeldInv(l), Judge(l)
  PROVE  HeldInv(l)'
  <1>1. /\ pc \in [Loops -> {"new"} \cup Ended \cup Underway] /\ window \in [Loops -> Windows]
        /\ HoldSamples \in Nat \ {0} /\ outcome \in [Loops -> Outcomes]
    BY LoopAssumption DEF IInv, TypeInv
  <1>2. /\ pc[l] = "judge" /\ outcome[l] = "none" /\ UNCHANGED <<job, restore>>
    BY DEF Judge, asked, IInv, LoopInv, Placed
  <1>3. Live /\ (window[l].told => Stood(l, window[l].hold + 1, 0))
    BY <1>2 DEF HeldInv
  <1>4. window[l].hold \in 0..(HoldSamples - 1) /\ window[l].stood \in 0..(2 * HoldSamples)
    BY <1>1 DEF Windows
  <1>5. CASE window[l].told /\ window[l].hold + 1 >= HoldSamples /\ Verified(l)
    <2>1. /\ pc'[l] = "conclude" /\ window' = window /\ part' = part
          /\ outcome'[l] \in {"resolved", "rolled_back"}
      BY <1>1, <1>5 DEF Verified, End
    <2>2. Given(l)' = Given(l) /\ window[l].hold + 1 = HoldSamples
      BY <1>1, <1>2, <1>4, <1>5, <2>1 DEF Given
    <2> HIDE DEF Given
    <2>3. Stood(l, HoldSamples, 0)'
      BY <1>3, <1>5, <2>1, <2>2 DEF Stood
    <2> QED BY <1>3, <2>1, <2>3 DEF HeldInv, BeforeWindow
  <1>6. ASSUME pc' = [pc EXCEPT ![l] = "observe"], UNCHANGED <<part, outcome>>,
               NEW w \in Windows, window' = [window EXCEPT ![l] = w], w.stood = window[l].stood,
               w.hold = IF window[l].told THEN window[l].hold + 1 ELSE 0
        PROVE  HeldInv(l)'
    <2>1. Given(l)' = Given(l) /\ window'[l] = w /\ pc'[l] = "observe" /\ outcome'[l] = "none"
      BY <1>1, <1>2, <1>6 DEF Given
    <2> HIDE DEF Given
    <2>2. 0 * Reads(Given(l)) = 0
      BY ReadsFacts
    <2>3. Stood(l, window[l].hold, 0)'
      BY <1>3, <1>4, <1>6, <2>1, <2>2 DEF Stood
    <2> QED BY <2>1, <2>3 DEF HeldInv, BeforeWindow
  <1> QED BY <1>5, <1>6, JudgeFacts

LEMMA HeldStep == ASSUME IInv, AllHeld, [Next]_vars PROVE AllHeld'
  <1>1. ASSUME NEW l \in Loops, Asks(l) \/ Proceeds(l) \/ ReadRollout(l) PROVE HeldInv(l)'
    <2>1. /\ pc \in [Loops -> {"new"} \cup Ended \cup Underway] /\ Placed(l) /\ HeldInv(l)
      BY DEF IInv, TypeInv, LoopInv, AllHeld
    <2>2. CASE Asks(l)
      <3>1. /\ Onward(l, pc'[l]) /\ window' = window /\ pc[l] = "new" /\ pc'[l] \in {"capture", "refused"}
        BY <2>1, <2>2 DEF Asks, Start, Goto, Onward
      <3>2. CASE pc'[l] = "capture"
        BY <2>1, <3>1, <3>2, HeldOnward DEF Placed, BeforeWindow
      <3>3. CASE pc'[l] = "refused"
        BY <2>1, <3>1, <3>3 DEF Placed, HeldInv, BeforeWindow, Onward
      <3> QED BY <3>1, <3>2, <3>3
    <2>3. CASE Capture(l) \/ Authorise(l) \/ RecordAttempt(l) \/ Describe(l) \/ Perform(l) \/ ExecutorFails(l)
      <3>1. /\ Onward(l, pc'[l]) /\ window' = window
            /\ pc[l] \in BeforeWindow \ {"new"} /\ pc'[l] \in BeforeWindow
        BY <2>1, <2>3 DEF Capture, Authorise, RecordAttempt, Describe, Perform, ExecutorFails, Goto, Onward, BeforeWindow
      <3> QED BY <2>1, <3>1, HeldOnward DEF Placed, BeforeWindow
    <2>4. CASE Conclude(l) \/ ConcludeFails(l) \/ Learn(l)
      <3>1. /\ Onward(l, pc'[l]) /\ window' = window /\ pc'[l] \in {"learn", "done", "failed"}
            /\ UNCHANGED <<job, restore>>
        BY <2>1, <2>4 DEF Conclude, ConcludeFails, Learn, Goto, Onward, asked
      <3> QED BY <2>1, <3>1, HeldOnward
    <2>5. CASE Unverified(l) /\ pc[l] \in Underway /\ outcome[l] = "none"
      BY <2>5, HeldUnverified DEF Underway
    <2>6. CASE CaptureFails(l)
      BY <2>1, <2>6, HeldUnverified DEF CaptureFails, Placed
    <2>7. CASE Check(l) \/ RecordResult(l) \/ AppendFails(l) \/ CloseWindow(l)
      <3>1. /\ pc[l] \in (BeforeWindow \ {"new", "capture"}) \cup {"observe"} /\ outcome[l] = "none"
            /\ \/ Unverified(l)
               \/ /\ pc[l] \in BeforeWindow /\ Onward(l, pc'[l]) /\ window' = window
                  /\ pc'[l] \in {"attempt", "observe"}
        BY <2>1, <2>7 DEF Check, RecordResult, AppendFails, CloseWindow, Goto, Onward, BeforeWindow, Placed
      <3>2. CASE Unverified(l)
        BY <2>5, <3>1, <3>2 DEF Underway, BeforeWindow
      <3>3. CASE /\ pc[l] \in BeforeWindow /\ Onward(l, pc'[l]) /\ window' = window
                 /\ pc'[l] \in {"attempt", "observe"}
        BY <2>1, <3>1, <3>3, HeldOnward DEF BeforeWindow
      <3> QED BY <3>1, <3>2, <3>3
    <2>8. CASE ReadRollout(l) \/ ReadReplicas(l)
      BY <2>1, <2>8, HeldRead
    <2>9. CASE Judge(l)
      BY <2>1, <2>9, HeldJudge
    <2> QED BY <1>1, <2>2, <2>3, <2>4, <2>6, <2>7, <2>8, <2>9 DEF Proceeds
  <1>2. ASSUME NEW l \in Loops, Asks(l) \/ Proceeds(l) \/ ReadRollout(l), NEW k \in Loops, k # l
        PROVE  HeldInv(k)'
    BY <1>2, OthersStay, HeldStays DEF AllHeld
  <1>3. ASSUME Restart \/ ClusterMoves \/ Tick \/ UNCHANGED vars, NEW k \in Loops PROVE HeldInv(k)'
    <2>1. /\ pc'[k] \in {pc[k], "lost"} /\ outcome'[k] = outcome[k] /\ window'[k] = window[k]
          /\ part'[k] = part[k] /\ job'[k] = job[k] /\ restore'[k] = restore[k]
      BY <1>3 DEF Restart, ClusterMoves, Tick, vars, control, asked
    <2> QED BY <2>1, HeldStays DEF AllHeld
  <1> QED BY <1>1, <1>2, <1>3 DEF Next, AllHeld

\* ClosesOnAStateThatHeld: a loop closes on a verified state only when every
\* read of as many samples in a row as its window asks for was answered, and
\* so, whatever the deployment and the other loops do between the reads.
THEOREM HeldTheorem == Spec => []ClosesOnAStateThatHeld
  <1>1. Init => AllHeld
    BY DEF Init, AllHeld, HeldInv, BeforeWindow, NoWindow
  <1>2. AllHeld => ClosesOnAStateThatHeld
    <2> SUFFICES ASSUME NEW l \in Loops, outcome[l] \in {"resolved", "rolled_back"}, HeldInv(l)
                 PROVE  Live /\ window[l].stood >= HoldSamples * Reads(Given(l))
      BY DEF ClosesOnAStateThatHeld, AllHeld
    <2>1. HoldSamples * Reads(Given(l)) \in Int
      BY LoopAssumption, ReadsFacts
    <2> QED BY <2>1 DEF HeldInv, Stood
  <1> QED BY <1>1, <1>2, LoopInvariant, HeldStep, PTL DEF Spec

-----------------------------------------------------------------------------
Phases == [l \in Loops |-> Phase(l)]

\* A step of one loop moves its phase only.
LEMMA PhaseMoves ==
  ASSUME NEW l \in Loops,
         \A k \in Loops \ {l} : pc'[k] = pc[k] /\ part'[k] = part[k] /\ outcome'[k] = outcome[k]
  PROVE  Phases' = [Phases EXCEPT ![l] = Phase(l)']
  <1>1. ASSUME NEW k \in Loops, k # l PROVE Phase(k)' = Phase(k)
    BY <1>1 DEF Phase
  <1> QED BY <1>1 DEF Phases

\* A step of a loop under way is a step of the guarded loop, or none.
LEMMA GuardedMove ==
  ASSUME IInv, NEW l \in Loops, Proceeds(l) \/ ReadRollout(l)
  PROVE  \/ G!TurnBack(l) \/ G!FinishActing(l) \/ G!FinishUndoing(l)
         \/ UNCHANGED <<Phases, outcome>>
  <1>1. /\ pc \in [Loops -> {"new"} \cup Ended \cup Underway] /\ outcome \in [Loops -> Outcomes]
        /\ part \in [Loops -> {"primary", "undo"}]
    BY DEF IInv, TypeInv
  <1>2. pc[l] \in Underway
    BY Moves
  <1>3. Phases[l] = IF outcome[l] # "none" THEN "over"
                    ELSE IF part[l] = "undo" THEN "undoing" ELSE "acting"
    BY <1>2 DEF Phases, Phase, Underway
  <1>4. ASSUME NEW d, End(l, d), d # "none"
        PROVE  /\ outcome' = [outcome EXCEPT ![l] = d]
               /\ Phases' = [Phases EXCEPT ![l] = "over"]
    <2>1. /\ pc'[l] = "conclude" /\ outcome'[l] = d /\ outcome' = [outcome EXCEPT ![l] = d]
          /\ \A k \in Loops \ {l} : pc'[k] = pc[k] /\ part'[k] = part[k] /\ outcome'[k] = outcome[k]
      BY <1>1, <1>4 DEF End
    <2>2. Phase(l)' = "over"
      BY <1>4, <2>1 DEF Phase
    <2> QED BY <2>1, <2>2, PhaseMoves
  <1>5. CASE \E next \in Underway \cup {"done", "failed"} : Onward(l, next)
    <2>1. /\ pc'[l] \in Underway \cup {"done", "failed"} /\ part' = part /\ outcome' = outcome
          /\ \A k \in Loops \ {l} : pc'[k] = pc[k]
      BY <1>1, <1>5 DEF Onward
    <2>2. Phase(l)' = Phase(l)
      BY <1>2, <2>1 DEF Phase, Underway
    <2>3. Phases' = [Phases EXCEPT ![l] = Phase(l)]
      BY <2>1, <2>2, PhaseMoves
    <2> QED BY <2>1, <2>3 DEF Phases
  <1>6. CASE outcome[l] = "none" /\ End(l, "escalated") /\ part[l] = "primary"
    BY <1>3, <1>4, <1>6 DEF G!FinishActing, G!Close, Phases
  <1>7. CASE outcome[l] = "none" /\ Unverified(l)
    <2>1. CASE part[l] = "primary" /\ ~NoWayBack(l)
      <3>1. /\ pc'[l] \in {"check", "authorise"} /\ part'[l] = "undo" /\ outcome' = outcome
            /\ \A k \in Loops \ {l} : pc'[k] = pc[k] /\ part'[k] = part[k]
        BY <1>1, <1>7, <2>1 DEF Unverified, Undo
      <3>2. Phase(l)' = "undoing"
        BY <1>7, <3>1 DEF Phase
      <3>3. Phases' = [Phases EXCEPT ![l] = "undoing"]
        BY <3>1, <3>2, PhaseMoves
      <3> QED BY <1>3, <1>7, <2>1, <3>1, <3>3 DEF G!TurnBack, G!Move, Phases
    <2>2. CASE part[l] = "primary" /\ NoWayBack(l)
      BY <1>6, <1>7, <2>2 DEF Unverified, Undo
    <2>3. CASE part[l] = "undo"
      <3>1. End(l, "rollback_failed")
        BY <1>7, <2>3 DEF Unverified
      <3> QED BY <1>3, <1>4, <1>7, <2>3, <3>1 DEF G!FinishUndoing, G!Close, Phases
    <2> QED BY <1>1, <2>1, <2>2, <2>3
  <1>8. CASE outcome[l] = "none" /\ Verified(l)
    <2>1. CASE part[l] = "primary"
      <3>1. End(l, "resolved")
        BY <1>8, <2>1 DEF Verified
      <3> QED BY <1>3, <1>4, <1>8, <2>1, <3>1 DEF G!FinishActing, G!Close, Phases
    <2>2. CASE part[l] = "undo"
      <3>1. End(l, "rolled_back")
        BY <1>8, <2>2 DEF Verified
      <3> QED BY <1>3, <1>4, <1>8, <2>2, <3>1 DEF G!FinishUndoing, G!Close, Phases
    <2> QED BY <1>1, <2>1, <2>2
  <1> QED BY <1>5, <1>6, <1>7, <1>8, Moves

\* The phases and outcomes of the wired loops move as GuardedLoop allows.
LEMMA GuardedStep == ASSUME IInv, [Next]_vars PROVE [G!Next]_(G!vars)
  <1>1. ASSUME NEW l \in Loops, Asks(l) PROVE G!Accept(l) \/ G!Refuse(l)
    <2>1. /\ pc[l] = "new" /\ \E next \in {"capture", "refused"} : Goto(l, next)
      BY <1>1 DEF Asks, Start
    <2>2. /\ pc'[l] \in {"capture", "refused"} /\ part' = part /\ outcome' = outcome
          /\ \A k \in Loops \ {l} : pc'[k] = pc[k]
      BY <2>1 DEF Goto, IInv, TypeInv
    <2>3. outcome[l] = "none" /\ part[l] = "primary"
      BY <2>1 DEF IInv, LoopInv, Placed
    <2>4. Phases[l] = "waiting" /\ Phase(l)' = IF pc'[l] = "capture" THEN "acting" ELSE "refused"
      BY <2>1, <2>2, <2>3 DEF Phases, Phase
    <2>5. Phases' = [Phases EXCEPT ![l] = Phase(l)']
      BY <2>2, PhaseMoves
    <2> QED BY <2>2, <2>4, <2>5 DEF G!Accept, G!Refuse, G!Move, Phases
  <1>2. ASSUME NEW l \in Loops, Proceeds(l) \/ ReadRollout(l) PROVE [G!Next]_(G!vars)
    BY <1>2, GuardedMove DEF G!Next, G!vars, Phases
  <1>3. CASE Restart
    <2>1. /\ pc' = [l \in Loops |-> IF pc[l] \in Underway THEN "lost" ELSE pc[l]]
          /\ part' = part /\ outcome' = outcome
      BY <1>3 DEF Restart
    <2>2. ASSUME NEW l \in Loops
          PROVE  Phase(l)' = IF Phase(l) \in {"acting", "undoing"} THEN "lost" ELSE Phase(l)
      <3>1. pc'[l] = IF pc[l] \in Underway THEN "lost" ELSE pc[l]
        BY <2>1
      <3>2. pc[l] \in {"new"} \cup Ended \cup Underway /\ Placed(l)
        BY DEF IInv, TypeInv, LoopInv
      <3> QED BY <2>1, <3>1, <3>2 DEF Phase, Placed, Ended, Underway
    <2>3. G!Crash
      BY <2>1, <2>2 DEF G!Crash
    <2> QED BY <2>3 DEF G!Next
  <1>4. CASE ClusterMoves \/ Tick \/ UNCHANGED vars
    <2>1. UNCHANGED <<pc, part, outcome>>
      BY <1>4 DEF ClusterMoves, Tick, vars, control
    <2> QED BY <2>1 DEF G!vars, Phase
  <1> QED BY <1>1, <1>2, <1>3, <1>4 DEF Next, G!Next

\* GuardedLoopSpec: the wired loop implements the guarded loop, in any number
\* at once, through failures of the executor, the trail and the process.
THEOREM ImplementsGuardedLoop == Spec => GuardedLoopSpec
  <1>1. Init => G!Init
    BY DEF Init, G!Init, Phase
  <1>2. IInv /\ [Next]_vars => [G!Next]_(G!vars)
    BY GuardedStep
  <1> QED BY <1>1, <1>2, LoopInvariant, PTL DEF Spec, GuardedLoopSpec, G!Spec
-----------------------------------------------------------------------------
(***************************************************************************)
(* The loops' history is an ExecutionHistory.  Its bound on activity is    *)
(* met because each loop is priced at most once and closes at most once.   *)
(***************************************************************************)
Closed == {l \in Loops : pc[l] = "done"}
Priced == {l \in Loops : part[l] = "undo" /\ pc[l] # "authorise"}

\* No more records than loops that closed, and no more verdicts than undos
\* that have been priced.
HistoryInv ==
  /\ Len(records) <= Cardinality(Closed)
  /\ IsFiniteSet(issued) /\ Cardinality(issued) <= Cardinality(Priced)

\* The engine of the loop and that of its history are one.
LEMMA OneEngine ==
  ASSUME NEW a, NEW c, NEW limit, NEW dry, NEW t
  PROVE  H!Evaluate(a, c, limit, dry, t) = Evaluate(a, c, limit, dry, t)
  <1>1. H!Adjustment(c) = Adjustment(c)
    BY DEF H!Adjustment, H!EntityDelta, H!UserDelta, H!EnvironmentDelta, H!ConfidenceDelta,
           H!NoveltyDelta, H!FailureDelta, H!Lesser, Adjustment, EntityDelta, UserDelta,
           EnvironmentDelta, ConfidenceDelta, NoveltyDelta, FailureDelta, Lesser
  <1>2. H!Score(a, c) = Score(a, c)
    BY <1>1 DEF H!Score, H!Lesser, Score, Lesser
  <1>3. \A risk : H!Band(risk) = Band(risk)
    BY DEF H!Band, Band
  <1>4. \A tier : /\ H!ReversibilityTier(a, tier) = ReversibilityTier(a, tier)
                  /\ H!BlastRadiusTier(c, tier) = BlastRadiusTier(c, tier)
    BY DEF H!ReversibilityTier, H!BlastRadiusTier, H!Escalate, H!HasTestedRollback, H!ChangesNothing,
           H!ReachesFar, H!NoAction, ReversibilityTier, BlastRadiusTier, Escalate, HasTestedRollback,
           ChangesNothing, ReachesFar, NoAction
  <1>5. \A risk, most, tier : H!AgentLimitTier(risk, most, tier) = AgentLimitTier(risk, most, tier)
    BY DEF H!AgentLimitTier, AgentLimitTier
  <1>6. \A most : H!TierOf(a, c, most) = TierOf(a, c, most)
    BY <1>2, <1>3, <1>4, <1>5 DEF H!TierOf, TierOf
  <1> QED BY <1>2, <1>6 DEF H!Evaluate, Evaluate, H!Nobody, Nobody, H!NoLimit, NoLimit

\* So is what they count with.
LEMMA OneCount == H!Activity = Len(records) + Cardinality(issued)
  <1>1. H!Cardinality(issued) = Cardinality(issued)
    BY Zenon DEF H!Cardinality, Cardinality
  <1> QED BY <1>1 DEF H!Activity

\* A loop that closed stays closed, and one whose undo was priced is not
\* priced again.
LEMMA TheyStay ==
  ASSUME IInv, [Next]_vars
  PROVE  Closed \subseteq Closed' /\ Priced \subseteq Priced'
  <1>1. /\ pc \in [Loops -> {"new"} \cup Ended \cup Underway]
        /\ part \in [Loops -> {"primary", "undo"}] /\ \A l \in Loops : Placed(l)
    BY DEF IInv, TypeInv, LoopInv
  <1>2. ASSUME NEW l \in Loops, Proceeds(l) \/ ReadRollout(l)
        PROVE  /\ pc[l] # "done"
               /\ part[l] = "undo" => part'[l] = "undo" /\ pc'[l] # "authorise"
               /\ \A k \in Loops \ {l} : pc'[k] = pc[k] /\ part'[k] = part[k]
    <2>1. CASE \E next : next # "authorise" /\ Goto(l, next)
      BY <1>1, <1>2, <2>1, Moves DEF Goto, Underway
    <2>2. CASE \E d : End(l, d)
      BY <1>1, <1>2, <2>2, Moves DEF End, Underway
    <2>3. CASE Unverified(l)
      <3>1. CASE part[l] = "primary" /\ ~NoWayBack(l)
        BY <1>1, <1>2, <2>3, <3>1, Moves DEF Unverified, Undo, Underway
      <3>2. CASE part[l] # "primary" \/ NoWayBack(l)
        BY <2>2, <2>3, <3>2 DEF Unverified, Undo
      <3> QED BY <3>1, <3>2
    <2>4. CASE ReadRollout(l) \/ ReadReplicas(l)
      BY <1>1, <2>4, ReadFacts
    <2>5. CASE Judge(l)
      <3>1. pc[l] = "judge"
        BY <2>5 DEF Judge
      <3>2. CASE Verified(l)
        BY <2>2, <3>2 DEF Verified
      <3>3. CASE ~Verified(l)
        BY <1>1, <2>5, <3>1, <3>3, JudgeFacts
      <3> QED BY <3>2, <3>3
    <2> QED BY <1>2, <2>1, <2>2, <2>3, <2>4, <2>5
            DEF Proceeds, Capture, CaptureFails, Authorise, Check, RecordAttempt, Describe, Perform,
                ExecutorFails, RecordResult, AppendFails, CloseWindow, Conclude, ConcludeFails, Learn
  <1>3. ASSUME NEW l \in Loops, Asks(l)
        PROVE  /\ pc[l] = "new" /\ part' = part /\ \A k \in Loops \ {l} : pc'[k] = pc[k]
    BY <1>1, <1>3 DEF Asks, Start, Goto
  <1>4. CASE Restart
    BY <1>1, <1>4 DEF Restart, Closed, Priced, Underway
  <1>5. CASE UNCHANGED <<pc, part>>
    BY <1>5 DEF Closed, Priced
  <1>6. ASSUME NEW l \in Loops, Asks(l) PROVE Closed \subseteq Closed' /\ Priced \subseteq Priced'
    BY <1>1, <1>3, <1>6 DEF Closed, Priced, Placed
  <1>7. ASSUME NEW l \in Loops, Proceeds(l) \/ ReadRollout(l)
        PROVE  Closed \subseteq Closed' /\ Priced \subseteq Priced'
    BY <1>2, <1>7 DEF Closed, Priced
  <1>8. ClusterMoves \/ Tick => UNCHANGED <<pc, part>>
    BY DEF ClusterMoves, Tick, control
  <1> QED BY <1>4, <1>5, <1>6, <1>7, <1>8 DEF Next, vars

\* What a step does to the history and the verdicts.
LEMMA HistoryMoves ==
  ASSUME [Next]_vars
  PROVE  \/ UNCHANGED H!vars
         \/ \E l \in Loops : Authorise(l) \/ Learn(l)
         \/ Restart
         \/ Tick
  <1>1. ASSUME NEW l \in Loops, Asks(l) PROVE UNCHANGED H!vars
    BY <1>1 DEF Asks, Start, shared, H!vars
  <1>2. ASSUME NEW l \in Loops, Proceeds(l) \/ ReadRollout(l)
        PROVE  UNCHANGED H!vars \/ Authorise(l) \/ Learn(l)
    BY <1>2 DEF Proceeds, Capture, CaptureFails, Check, RecordAttempt, Describe, Perform, ExecutorFails,
                RecordResult, AppendFails, CloseWindow, Conclude, ConcludeFails, ReadRollout, ReadReplicas, Judge,
                shared, H!vars
  <1>3. CASE ClusterMoves \/ UNCHANGED vars
    BY <1>3 DEF ClusterMoves, vars, H!vars
  <1> QED BY <1>1, <1>2, <1>3 DEF Next

\* Each closing adds a closed loop, and each verdict a priced undo.
LEMMA HistoryStep ==
  ASSUME IsFiniteSet(Loops), IInv, HistoryInv, [Next]_vars
  PROVE  HistoryInv' /\ [H!Next]_(H!vars)
  <1>1. /\ IsFiniteSet(Closed) /\ IsFiniteSet(Priced) /\ IsFiniteSet(Closed') /\ IsFiniteSet(Priced')
        /\ Closed \subseteq Closed' /\ Priced \subseteq Priced'
    BY TheyStay, FS_Subset DEF Closed, Priced
  <1>2. /\ Cardinality(Closed) \in Nat /\ Cardinality(Closed') \in Nat /\ Cardinality(Closed) <= Cardinality(Closed')
        /\ Cardinality(Priced) \in Nat /\ Cardinality(Priced') \in Nat /\ Cardinality(Priced) <= Cardinality(Priced')
    BY <1>1, FS_Subset, FS_CardinalityType
  <1>3. /\ Cardinality(Closed) <= Cardinality(Loops) /\ Cardinality(Priced) <= Cardinality(Loops)
        /\ Cardinality(Loops) \in Nat /\ Cardinality(issued) \in Nat /\ Len(records) \in Nat
    BY FS_Subset, FS_CardinalityType DEF Closed, Priced, HistoryInv, IInv, TypeInv
  <1>4. H!Activity < 2 * Cardinality(Loops) + 1
    BY <1>2, <1>3, OneCount DEF HistoryInv
  <1>5. CASE UNCHANGED H!vars
    BY <1>2, <1>3, <1>5 DEF H!vars, HistoryInv
  <1>6. ASSUME NEW l \in Loops, Authorise(l)
        PROVE  HistoryInv' /\ H!Next
    <2> DEFINE v == Evaluate(Running(l), ContextOf(l), NoLimit, DryRun, now)
               e == [context |-> ContextOf(l), limit |-> NoLimit, spec |-> Running(l), verdict |-> v]
    <2>1. /\ pc[l] = "authorise" /\ issued' = issued \cup {e} /\ UNCHANGED <<now, records>>
          /\ pc'[l] = "check" /\ part' = part
      BY <1>6 DEF Authorise, Goto, IInv, TypeInv
    <2> HIDE DEF e
    <2>2. job[l] \in Jobs /\ job[l].start <= now /\ part[l] = "undo" /\ now \in 0..MaxTime
      BY <2>1 DEF IInv, TypeInv, LoopInv, Placed
    <2>3. Running(l) \in Concerned /\ job[l].start \in 0..now
      <3>1. Known(Rollback(l))
        BY <2>2 DEF IInv, LoopInv, Placed, HasRollbackSpec, Rollback
      <3>2. Running(l) \in AllActions /\ Running(l).id = Rollback(l)
        BY <2>2, <3>1, GetFacts DEF Running, Rollback
      <3>3. job[l].action \in Offered /\ job[l].start \in 0..now
        BY <2>2, LoopAssumption DEF Jobs
      <3> QED BY <3>2, <3>3 DEF Concerned, Rollback
    <2>4. H!Authorise(Running(l), Place, job[l].start)
      BY <1>4, <2>1, OneEngine DEF H!Authorise, e, ContextOf, H!NoLimit, NoLimit
    <2>5. l \in Priced' /\ l \notin Priced
      BY <2>1, <2>2 DEF Priced
    <2>6. /\ IsFiniteSet(issued \cup {e}) /\ Cardinality(issued \cup {e}) <= Cardinality(issued) + 1
      <3>1. IsFiniteSet(issued)
        BY DEF HistoryInv
      <3>2. IsFiniteSet(issued \cup {e})
            /\ Cardinality(issued \cup {e}) = IF e \in issued THEN Cardinality(issued) ELSE Cardinality(issued) + 1
        BY <3>1, FS_AddElement
      <3> QED BY <1>3, <3>2
    <2>7. Cardinality(Priced) + 1 <= Cardinality(Priced')
      <3>1. Cardinality(Priced \cup {l}) = Cardinality(Priced) + 1 /\ Priced \cup {l} \subseteq Priced'
        BY <1>1, <2>5, FS_AddElement
      <3> QED BY <1>1, <3>1, FS_Subset
    <2>8. HistoryInv'
      BY <1>2, <1>3, <2>1, <2>6, <2>7, FS_CardinalityType DEF HistoryInv
    <2> QED BY <2>3, <2>4, <2>8 DEF H!Next
  <1>7. ASSUME NEW l \in Loops, Learn(l)
        PROVE  HistoryInv' /\ H!Next
    <2> DEFINE r == [action |-> job[l].action.id, env |-> Place, at |-> job[l].start,
                     disposition |-> outcome[l]]
    <2>1. /\ pc[l] = "learn" /\ records' = Append(records, r) /\ UNCHANGED <<now, issued>>
          /\ pc'[l] = "done"
      BY <1>7 DEF Learn, Goto, IInv, TypeInv
    <2>2. job[l] \in Jobs /\ job[l].start <= now /\ now \in 0..MaxTime /\ outcome[l] \in H!Dispositions
      BY <2>1 DEF IInv, TypeInv, LoopInv, Placed, Outcomes
    <2>3. job[l].action \in Concerned /\ job[l].start \in 0..now
      BY <2>2, LoopAssumption DEF Jobs, Concerned
    <2>4. H!Learn(job[l].action, Place, job[l].start, outcome[l])
      BY <1>4, <2>1 DEF H!Learn
    <2>5. l \in Closed' /\ l \notin Closed
      BY <2>1 DEF Closed
    <2>6. Len(records') = Len(records) + 1
      BY <2>1 DEF IInv, TypeInv
    <2>7. Cardinality(Closed) + 1 <= Cardinality(Closed')
      <3>1. Cardinality(Closed \cup {l}) = Cardinality(Closed) + 1 /\ Closed \cup {l} \subseteq Closed'
        BY <1>1, <2>5, FS_AddElement
      <3> QED BY <1>1, <3>1, FS_Subset
    <2>8. HistoryInv'
      BY <1>2, <1>3, <2>1, <2>6, <2>7 DEF HistoryInv
    <2> QED BY <2>2, <2>3, <2>4, <2>8 DEF H!Next
  <1>8. CASE Restart
    <2>1. records' = <<>> /\ UNCHANGED <<now, issued>>
      BY <1>8 DEF Restart
    <2>2. HistoryInv'
      BY <1>2, <1>3, <2>1 DEF HistoryInv
    <2> QED BY <2>1, <2>2 DEF H!Next, H!Restart, H!vars
  <1>9. CASE Tick
    <2>1. now < MaxTime /\ now' = now + 1 /\ UNCHANGED <<records, issued>>
      BY <1>9 DEF Tick
    <2>2. HistoryInv'
      BY <1>2, <1>3, <2>1 DEF HistoryInv
    <2> QED BY <2>1, <2>2 DEF H!Next, H!Tick
  <1> QED BY <1>5, <1>6, <1>7, <1>8, <1>9, HistoryMoves

\* HistorySpec: what finitely many loops do to the history and ask of it is
\* what ExecutionHistory describes, each undo priced by the same engine from the same records, so its
\* theorems hold of the wired loop (loop.py, _authorise and learn).
THEOREM ImplementsHistory ==
  ASSUME IsFiniteSet(Loops)
  PROVE  Spec => HistorySpec
  <1>1. Init => HistoryInv /\ H!Init
    BY FS_EmptySet, FS_Subset, FS_CardinalityType DEF Init, HistoryInv, H!Init, Closed, Priced
  <1>2. IInv /\ HistoryInv /\ [Next]_vars => HistoryInv' /\ [H!Next]_(H!vars)
    BY HistoryStep
  <1> QED BY <1>1, <1>2, LoopInvariant, PTL DEF Spec, HistorySpec, H!Spec
=============================================================================

-------------------------- MODULE RemediationLoop --------------------------
(***************************************************************************)
(* The closed loop behind POST /actions/remediate: capture what an undo    *)
(* needs, act, watch the post-state over a window, undo if it does not     *)
(* hold, record, learn.                                                    *)
(*                                                                         *)
(* packages/core/pashupatastra/remediation.py owns the sequence;           *)
(* services/api/app/engines/loop.py wires it to the policy engine (Dharma),*)
(* the executors (executors.py), the window (observation.py), the audit    *)
(* trail and the execution history.  Each request is a handler of its own, *)
(* so loops interleave at every call that leaves the process, and share    *)
(* one cluster, one trail and one history.  The process may die anywhere.  *)
(***************************************************************************)
EXTENDS Registry, Sequences, FiniteSets

CONSTANTS
  Loops,        \* the requests; each is one run of the loop
  Offered,      \* the actions they ask for
  Requested,    \* the parameters they bring
  Rehearsed,    \* the dry_run constraints their verdicts may carry
  Place,        \* settings.environment
  DryRun,       \* settings.dry_run
  Live,         \* settings.live_execution_enabled
  HoldSamples,  \* Window.hold_samples
  Horizon,      \* NOVELTY_HORIZON, in ticks
  Values,       \* replica counts and images in use
  MaxTime,      \* bound: the clock stops here
  MaxRestarts   \* bound: restarts of the process

ASSUME LoopAssumption ==
  /\ Offered \subseteq AllActions
  /\ Rehearsed \subseteq BOOLEAN /\ Live \in BOOLEAN /\ DryRun \in BOOLEAN
  /\ Live => ~DryRun
  /\ Place \in Environments
  /\ Requested \subseteq [names : SUBSET {"target", "replicas", "image"}, value : Nat]
  /\ \A p \in Requested : p.names \subseteq {"target"} \/ p.value \in Values
  /\ HoldSamples \in Nat \ {0} /\ Horizon \in Nat
  /\ Values # {} /\ Values \subseteq Nat \ {0}
  /\ MaxTime \in Nat /\ MaxRestarts \in Nat

VARIABLES
  now,        \* the wall clock
  records,    \* HISTORY: closed loops, in memory
  issued,     \* the verdicts loop._authorise has issued
  world,      \* the deployment the actions are about
  trail,      \* the audit trail, durable
  ran,        \* per loop, what was handed to the live executor, in order
  pc,         \* where each loop is
  part,       \* which of the two executions it is at
  job,        \* what it was asked to do
  restore,    \* the captured parameters of the undo (restore_to)
  authority,  \* the verdict it executes under
  window,     \* the open window: consecutive passing samples, what the sample under
              \* way has been told, and how long what was asked has stood
  outcome,    \* the Disposition
  restarts    \* how often the process has restarted, for the bound

control == <<pc, part, outcome, window>>
asked == <<job, restore, authority>>
shared == <<now, records, issued, world, trail, ran, restarts>>
vars == <<now, records, issued, world, trail, ran, pc, part, job, restore,
          authority, window, outcome, restarts>>

Ended == {"done", "refused", "failed", "lost"}
Underway == {"capture", "authorise", "check", "attempt", "act", "result", "errored",
             "observe", "replicas", "judge", "conclude", "learn"}

\* The specifications that can be run: those asked for and their rollbacks.
Concerned == {a \in AllActions : a \in Offered \/ \E b \in Offered : b.rollback = a.id}

H == INSTANCE ExecutionHistory WITH
       Actions <- Concerned, Places <- {Place}, Facts <- {}, Limits <- {},
       MaxActivity <- 2 * Cardinality(Loops) + 1

(***************************************************************************)
(* Parameters are the names present and the value they set.  "target" is   *)
(* the namespace and the deployment, which every call needs together.      *)
(***************************************************************************)
NoParams == [names |-> {}, value |-> 0]

NoJob == [filed |-> FALSE]
NoVerdict == [dryRun |-> TRUE]
NoWindow == [hold |-> 0, told |-> FALSE, stood |-> 0]

Notifications == {"notify_engineer", "create_ticket"}
Owned == Notifications \cup
  {"restart_service", "scale_service", "rollback_deployment", "redeploy_version",
   "disable_deployment"}

\* The names KubernetesExecutor.run insists on.
Needs(id) ==
  (IF id \in Notifications THEN {} ELSE {"target"})
    \cup (IF id = "scale_service" THEN {"replicas"} ELSE {})
    \cup (IF id = "redeploy_version" THEN {"image"} ELSE {})

\* Slip: a missing parameter is passed on as an empty one.
PerformableBlank(id, p) == id \in Owned

Performable(id, p) == id \in Owned /\ Needs(id) \subseteq p.names

\* Actions whose prior state capture() reads from the cluster.
Snapshots == {"scale_service", "redeploy_version"}

CanCapture(id, p) == id \in Owned /\ (id \in Snapshots => "target" \in p.names)

Snapshot(id) ==
  IF id = "scale_service" THEN [names |-> {"replicas"}, value |-> world.replicas]
  ELSE IF id = "redeploy_version" THEN [names |-> {"image"}, value |-> world.image]
  ELSE NoParams

\* What the call does to the deployment.
Effect(id, p) ==
  IF id = "scale_service" THEN [world EXCEPT !.replicas = p.value, !.settled = FALSE]
  ELSE IF id = "redeploy_version"
    THEN [world EXCEPT !.image = p.value, !.previous = world.image, !.settled = FALSE]
  ELSE IF id = "rollback_deployment"
    THEN [world EXCEPT !.image = world.previous, !.previous = world.image, !.settled = FALSE]
  ELSE IF id = "restart_service" THEN [world EXCEPT !.settled = FALSE]
  ELSE world

\* The execution a loop is at: the action, or its rollback.
Running(l) == IF part[l] = "undo" THEN Get(job[l].action.rollback) ELSE job[l].action

\* The rollback runs with the captured state where there is one.
Given(l) ==
  IF part[l] = "undo" /\ restore[l] # NoParams THEN restore[l] ELSE job[l].params

\* Every gate can veto: the process's and the verdict's.
Performs(l) == Live /\ ~authority[l].dryRun

Write(l, kind) ==
  trail' = trail \cup {[loop |-> l, kind |-> kind, action |-> Running(l).id]}

-----------------------------------------------------------------------------
Init ==
  /\ now = 0 /\ records = <<>> /\ issued = {} /\ trail = {}
  /\ \E v \in Values :
       world = [replicas |-> v, image |-> v, previous |-> v, settled |-> TRUE]
  /\ ran = [l \in Loops |-> <<>>]
  /\ pc = [l \in Loops |-> "new"]
  /\ part = [l \in Loops |-> "primary"]
  /\ job = [l \in Loops |-> NoJob]
  /\ restore = [l \in Loops |-> NoParams]
  /\ authority = [l \in Loops |-> NoVerdict]
  /\ window = [l \in Loops |-> NoWindow]
  /\ outcome = [l \in Loops |-> "none"]
  /\ restarts = 0

Goto(l, next) ==
  /\ pc' = [pc EXCEPT ![l] = next]
  /\ UNCHANGED <<part, outcome, window>>

End(l, disposition) ==
  /\ pc' = [pc EXCEPT ![l] = "conclude"]
  /\ outcome' = [outcome EXCEPT ![l] = disposition]
  /\ UNCHANGED <<part, window>>

\* Slip: declaring a rollback is taken for having one.
NoWayBackUndeclared(l) == ~HasRollbackSpec(job[l].action)

\* Nothing undoes the action: no rollback is declared, or it is the action
\* itself and no prior state was captured.
NoWayBack(l) ==
  \/ ~HasRollbackSpec(job[l].action)
  \/ job[l].action.rollback = job[l].action.id /\ restore[l] = NoParams

\* _undo.  A rollback with an id of its own is authorised first; an action
\* that is its own rollback runs again under the verdict it already has.
Undo(l) ==
  IF NoWayBack(l) THEN End(l, "escalated")
  ELSE /\ part' = [part EXCEPT ![l] = "undo"]
       /\ window' = [window EXCEPT ![l] = NoWindow]
       /\ pc' = [pc EXCEPT ![l] =
            IF job[l].action.rollback = job[l].action.id THEN "check" ELSE "authorise"]
       /\ UNCHANGED outcome

\* Slip: an undo that did not work is undone again.
UnverifiedRetries(l) == Undo(l)
\* Slip: an undo that did not work is handed over like anything else.
UnverifiedEscalates(l) == IF part[l] = "primary" THEN Undo(l) ELSE End(l, "escalated")

\* The execution at hand errored or could not be verified.
Unverified(l) == IF part[l] = "primary" THEN Undo(l) ELSE End(l, "rollback_failed")

Verified(l) == End(l, IF part[l] = "primary" THEN "resolved" ELSE "rolled_back")

-----------------------------------------------------------------------------
\* The verdict a client brings for action b: issued at t, and granted by a
\* human where Dharma did not grant it alone.
Supplied(b, t, dry) ==
  LET v == Evaluate(b, H!BaseContext(Place), NoLimit, dry, t)
  IN IF v.grantedBy = Nobody THEN [v EXCEPT !.grantedBy = "human"] ELSE v

\* remediate(): refused up front, or the loop starts.  filed: whether there
\* is an incident to file the outcome against.
Start(l, a, v, p, filed) ==
  /\ pc[l] = "new"
  /\ Goto(l, IF Authorises(v, a, now) THEN "capture" ELSE "refused")
  /\ job' = [job EXCEPT ![l] =
       [action |-> a, params |-> p, filed |-> filed, start |-> now]]
  /\ authority' = [authority EXCEPT ![l] = v]
  /\ UNCHANGED <<shared, restore>>

\* Snapshot before acting; in dry-run there is no router to ask.
Capture(l) ==
  /\ pc[l] = "capture"
  /\ Live => CanCapture(job[l].action.id, job[l].params)
  /\ restore' = [restore EXCEPT ![l] = IF Live THEN Snapshot(job[l].action.id) ELSE NoParams]
  /\ Goto(l, "check")
  /\ UNCHANGED <<shared, job, authority>>

\* No executor owns the action, a parameter is missing, or the cluster does
\* not answer: refuse to act without an undo.
CaptureFails(l) ==
  /\ pc[l] = "capture" /\ Live
  /\ job[l].action.id \in Owned => job[l].action.id \in Snapshots
  /\ End(l, "escalated")
  /\ UNCHANGED <<shared, asked>>

\* Slip: the undo is priced as if nothing had ever been tried here.
ContextOfForgetful(l) == H!BaseContext(Place)

\* The context of an undo: what the history says, seen from when the loop began.
ContextOf(l) ==
  H!ContextFor(records, Running(l).id, job[l].start, H!BaseContext(Place))

\* _authorise: a verdict of its own for the rollback, recorded.
Authorise(l) ==
  LET v == Evaluate(Running(l), ContextOf(l), NoLimit, DryRun, now)
  IN /\ pc[l] = "authorise"
     /\ issued' = issued \cup
          {[context |-> ContextOf(l), limit |-> NoLimit, spec |-> Running(l), verdict |-> v]}
     /\ authority' = [authority EXCEPT ![l] = v]
     /\ Write(l, "evaluation")
     /\ Goto(l, "check")
     /\ UNCHANGED <<now, records, world, ran, restarts, job, restore>>

\* astra.execute asks require_verdict again; the loop takes a refusal for a
\* failed execution.
Check(l) ==
  /\ pc[l] = "check"
  /\ IF Authorises(authority[l], Running(l), now) THEN Goto(l, "attempt") ELSE Unverified(l)
  /\ UNCHANGED <<shared, asked>>

\* The attempt is on the trail before anything is executed.
RecordAttempt(l) ==
  /\ pc[l] = "attempt"
  /\ Write(l, "attempt")
  /\ Goto(l, "act")
  /\ UNCHANGED <<now, records, issued, world, ran, restarts, asked>>

\* What is handed to the live executor.
Hand(l) ==
  ran' = [ran EXCEPT ![l] = Append(@,
    [action |-> Running(l).id, part |-> part[l], params |-> Given(l),
     tier |-> authority[l].tier])]

\* A dry run describes the action and succeeds.
Describe(l) ==
  /\ pc[l] = "act" /\ ~Performs(l)
  /\ Goto(l, "result")
  /\ UNCHANGED <<shared, asked>>

Perform(l) ==
  /\ pc[l] = "act" /\ Performs(l) /\ Performable(Running(l).id, Given(l))
  /\ Hand(l)
  /\ world' = Effect(Running(l).id, Given(l))
  /\ Goto(l, "result")
  /\ UNCHANGED <<now, records, issued, trail, restarts, asked>>

\* The executor raises: a parameter is missing, kubectl reports an error, or
\* it times out with the change made all the same.
ExecutorFails(l) ==
  /\ pc[l] = "act" /\ Performs(l) /\ Running(l).id \notin Notifications
  /\ Hand(l)
  /\ \/ UNCHANGED world
     \/ Performable(Running(l).id, Given(l)) /\ world' = Effect(Running(l).id, Given(l))
  /\ Goto(l, "errored")
  /\ UNCHANGED <<now, records, issued, trail, restarts, asked>>

RecordResult(l) ==
  /\ pc[l] \in {"result", "errored"}
  /\ Write(l, "result")
  /\ IF pc[l] = "result" THEN Goto(l, "observe") ELSE Unverified(l)
  /\ UNCHANGED <<now, records, issued, world, ran, restarts, asked>>

\* Slip: a trail that does not answer is no reason not to act.
AppendFailsOpen(l) ==
  /\ pc[l] \in {"authorise", "attempt", "result", "errored"}
  /\ IF pc[l] = "attempt" THEN Goto(l, "act") ELSE Unverified(l)
  /\ UNCHANGED <<shared, asked>>

\* The store fails an append inside the runner, perhaps after writing it: to
\* the loop that is a failed execution.
AppendFails(l) ==
  /\ pc[l] \in {"authorise", "attempt", "result", "errored"}
  /\ UNCHANGED trail \/ Write(l, IF pc[l] = "authorise" THEN "evaluation"
                                 ELSE IF pc[l] = "attempt" THEN "attempt" ELSE "result")
  /\ Unverified(l)
  /\ UNCHANGED <<now, records, issued, world, ran, restarts, asked>>

-----------------------------------------------------------------------------
\* A loop can observe a deployment that is named.  A notification is looked
\* for in the sink of the router the loop observes with; astra.execute
\* delivered it to the sink of a router of its own, so it is never there.
Observable(l) == Running(l).id \notin Notifications /\ "target" \in Given(l).names

\* What KubernetesExecutor.observe asks the cluster in one sample.
Reads(p) == IF "replicas" \in p.names THEN 2 ELSE 1

\* Loop l is given an answer, with which its sample goes on.  For the
\* properties: how many answers in a row were so, as far as they tell apart.
Answered(l, answer, told) ==
  LET stood == window[l].stood
  IN window' = [window EXCEPT ![l] =
       [hold |-> window[l].hold, told |-> told,
        stood |-> IF ~answer THEN 0 ELSE IF stood < 2 * HoldSamples THEN stood + 1 ELSE stood]]

\* A sample begins with `kubectl rollout status`.  A call that fails or times
\* out counts as a check that did not pass.
ReadRollout(l) ==
  LET so == Observable(l) /\ world.settled
  IN /\ pc[l] = "observe" /\ Live
     /\ \E answer \in {FALSE, so} : Answered(l, answer, answer)
     /\ pc' = [pc EXCEPT ![l] =
          IF Observable(l) /\ "replicas" \in Given(l).names THEN "replicas" ELSE "judge"]
     /\ UNCHANGED <<part, outcome, shared, asked>>

\* The second call, where a count was asked for: how many replicas are ready
\* is any number while the deployment is not settled.
ReadReplicas(l) ==
  /\ pc[l] = "replicas"
  /\ \E ready \in IF world.settled THEN {world.replicas} ELSE {0} \cup Values :
       \E answer \in {FALSE, ready = Given(l).value} :
         Answered(l, answer, window[l].told /\ answer)
  /\ pc' = [pc EXCEPT ![l] = "judge"]
  /\ UNCHANGED <<part, outcome, shared, asked>>

\* Slip: a sample that did not pass leaves the count as it was.
JudgeOnBalance(l) ==
  /\ pc[l] = "judge"
  /\ IF window[l].told /\ window[l].hold + 1 >= HoldSamples THEN Verified(l)
     ELSE /\ pc' = [pc EXCEPT ![l] = "observe"]
          /\ window' = [window EXCEPT ![l] =
               [hold |-> IF window[l].told THEN window[l].hold + 1 ELSE window[l].hold,
                told |-> FALSE, stood |-> window[l].stood]]
          /\ UNCHANGED <<part, outcome>>
  /\ UNCHANGED <<shared, asked>>

\* WindowObserver.watch grades the sample, by what it was told: enough that
\* passed in a row and the state has held, one that did not and the count
\* starts again.
Judge(l) ==
  /\ pc[l] = "judge"
  /\ IF window[l].told /\ window[l].hold + 1 >= HoldSamples THEN Verified(l)
     ELSE /\ pc' = [pc EXCEPT ![l] = "observe"]
          /\ window' = [window EXCEPT ![l] =
               [hold |-> IF window[l].told THEN window[l].hold + 1 ELSE 0,
                told |-> FALSE, stood |-> window[l].stood]]
          /\ UNCHANGED <<part, outcome>>
  /\ UNCHANGED <<shared, asked>>

\* The window times out, which it does between samples, or in dry-run was
\* never opened.
CloseWindow(l) ==
  /\ pc[l] = "observe"
  /\ Unverified(l)
  /\ UNCHANGED <<shared, asked>>

\* remediate() puts the outcome on the trail ...
Conclude(l) ==
  /\ pc[l] = "conclude"
  /\ Write(l, "outcome")
  /\ Goto(l, IF job[l].filed THEN "learn" ELSE "done")
  /\ UNCHANGED <<now, records, issued, world, ran, restarts, asked>>

\* ... or raises, and what it did is not learned from.
ConcludeFails(l) ==
  /\ pc[l] = "conclude"
  /\ UNCHANGED trail \/ Write(l, "outcome")
  /\ Goto(l, "failed")
  /\ UNCHANGED <<now, records, issued, world, ran, restarts, asked>>

\* learn(): the outcome enters the history, good or bad.
Learn(l) ==
  /\ pc[l] = "learn"
  /\ records' = Append(records,
       [action |-> job[l].action.id, env |-> Place, at |-> job[l].start,
        disposition |-> outcome[l]])
  /\ Goto(l, "done")
  /\ UNCHANGED <<now, issued, world, trail, ran, restarts, asked>>

-----------------------------------------------------------------------------
\* The process dies and comes back: loops under way are gone, the history is
\* empty; the cluster and the trail are as they were.
Restart ==
  /\ restarts < MaxRestarts
  /\ restarts' = restarts + 1
  /\ records' = <<>>
  /\ pc' = [l \in Loops |-> IF pc[l] \in Underway THEN "lost" ELSE pc[l]]
  /\ UNCHANGED <<now, issued, world, trail, ran, part, outcome, window, asked>>

\* The deployment converges, or stops being ready, on its own.
ClusterMoves ==
  /\ world' = [world EXCEPT !.settled = ~@]
  /\ UNCHANGED <<now, records, issued, trail, ran, restarts, control, asked>>

Tick ==
  /\ now < MaxTime
  /\ now' = now + 1
  /\ UNCHANGED <<records, issued, world, trail, ran, restarts, control, asked>>

Asks(l) ==
  \E a, b \in Offered, t \in 0..now, dry \in Rehearsed, p \in Requested, filed \in BOOLEAN :
    Start(l, a, Supplied(b, t, dry), p, filed)

Proceeds(l) ==
  \/ Capture(l) \/ CaptureFails(l) \/ Authorise(l) \/ Check(l)
  \/ RecordAttempt(l) \/ Describe(l) \/ Perform(l) \/ ExecutorFails(l)
  \/ RecordResult(l) \/ AppendFails(l) \/ ReadReplicas(l) \/ Judge(l) \/ CloseWindow(l)
  \/ Conclude(l) \/ ConcludeFails(l) \/ Learn(l)

Next ==
  \/ \E l \in Loops : Asks(l) \/ Proceeds(l) \/ ReadRollout(l)
  \/ Restart
  \/ ClusterMoves
  \/ Tick

Spec == Init /\ [][Next]_vars

\* Every call a handler makes returns or times out: each loop that has
\* started keeps going, and finishes a sample it has begun.  Beginning one
\* earns no fairness.  The head of the loop tests the deadline every time it
\* comes round, so the window does not stay open for ever.
FairSpec ==
  Spec /\ \A l \in Loops : WF_vars(Proceeds(l)) /\ SF_vars(CloseWindow(l))

-----------------------------------------------------------------------------
TypeOK ==
  /\ now \in 0..MaxTime
  /\ world \in [replicas : Values, image : Values, previous : Values, settled : BOOLEAN]
  /\ pc \in [Loops -> {"new"} \cup Ended \cup Underway]
  /\ part \in [Loops -> {"primary", "undo"}]
  /\ window \in [Loops -> [hold : 0..(HoldSamples - 1), told : BOOLEAN, stood : 0..(2 * HoldSamples)]]
  /\ outcome \in [Loops -> {"none"} \cup H!Dispositions]
  /\ \A i \in DOMAIN records : records[i].at <= now

Handed(l) == {ran[l][i] : i \in DOMAIN ran[l]}
WasHanded(l, which) == \E x \in Handed(l) : x.part = which

\* Whatever was handed to the live executor left its attempt on the trail
\* first, and that evidence outlives a crash at any point of the loop.
EvidenceOfEveryRun ==
  \A l \in Loops : \A x \in Handed(l) :
    [loop |-> l, kind |-> "attempt", action |-> x.action] \in trail

\* An undo that is an action of its own never rides on the verdict it was
\* reached with: Dharma granted it, alone, and the grant is on the trail.
UndoRunsOnItsOwnAuthority ==
  \A l \in Loops : \A x \in Handed(l) :
    x.part = "undo" /\ x.action # job[l].action.id =>
      /\ \E e \in issued : e.spec.id = x.action /\ e.verdict.tier = "autonomous"
      /\ [loop |-> l, kind |-> "evaluation", action |-> x.action] \in trail

\* "There is no retry of the original action": one loop never hands the same
\* call to the executor twice, whatever fails around it.
NothingIsRetried ==
  \A l \in Loops : \A i, j \in DOMAIN ran[l] :
    ran[l][i].action = ran[l][j].action /\ ran[l][i].params = ran[l][j].params => i = j

\* "Held": a loop that closes on a verified state, its action's or its
\* undo's, was told so by the live cluster, and truly, at every read of as
\* many samples in a row as the window asks for, the last one its last.  What
\* the cluster does between the reads, and before the loop acts on them, is
\* another matter.
ClosesOnAStateThatHeld ==
  \A l \in Loops : outcome[l] \in {"resolved", "rolled_back"} =>
    Live /\ window[l].stood >= HoldSamples * Reads(Given(l))

\* The loop has one cycle, its window, and that has a deadline: once started it ends, whatever the
\* executor, the cluster, the trail and the policy answer.
EveryLoopEnds == \A l \in Loops : pc[l] # "new" ~> pc[l] \in Ended

Phase(l) ==
  IF pc[l] = "new" THEN "waiting"
  ELSE IF pc[l] = "refused" THEN "refused"
  ELSE IF outcome[l] # "none" THEN "over"
  ELSE IF pc[l] = "lost" THEN "lost"
  ELSE IF part[l] = "undo" THEN "undoing"
  ELSE "acting"

G == INSTANCE GuardedLoop WITH phase <- [l \in Loops |-> Phase(l)]

\* The wired loop is a guarded loop.
GuardedLoopSpec == G!Spec

\* What the loops do to the history and ask of it is what ExecutionHistory
\* describes, so what holds of every such history holds of theirs.
HistorySpec == H!Spec

-----------------------------------------------------------------------------
\* Capture "returns the parameters the rollback should be invoked with": an
\* undo given the captured state has what its executor insists on.
CaptureSuffices ==
  \A l \in Loops :
    part[l] = "undo" /\ restore[l] # NoParams => Performable(Running(l).id, Given(l))
=============================================================================

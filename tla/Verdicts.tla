------------------------------ MODULE Verdicts ------------------------------
(***************************************************************************)
(* The life of a verdict: evaluated or proposed, sealed, handed to a       *)
(* client, approved or denied by a human, executed, expired.               *)
(*                                                                         *)
(* The service keeps no verdict.  A client holds the document and sends a  *)
(* copy back; the seal proves the service issued it.  Each request is a    *)
(* handler running in a thread of its own (services/api/app/api/routes.py, *)
(* engines/astra.py), so the handlers interleave wherever they leave the   *)
(* state they own alone for a while: at the audit store, at the approval   *)
(* log, at the executor.  The process may restart at any moment, taking    *)
(* with it what it held in memory.                                         *)
(***************************************************************************)
EXTENDS Dharma, FiniteSets

CONSTANTS
  Requests,      \* the requests clients make; each is one handler
  Actions,       \* the registered specifications
  Facts,         \* contexts an evaluation is asked with
  Limits,        \* agent risk limits it is asked with
  Durabilities,  \* whether audit and signing key live in a durable store, in the deployments considered
  SecretSet,     \* whether auth_secret is configured, so the key is fixed
  Configs,       \* the configurations the process may be started with
  MaxTime,       \* bound: the clock stops here
  MaxRestarts    \* bound: restarts of the process

\* "dry": dry_run is set.  "unlisted": it is not, but this environment is not
\* on the live list.  "live": both gates are open.
ASSUME VerdictsAssumption ==
  /\ Nobody \notin Requests /\ "dharma" \notin Requests
  /\ \A a \in Actions : Registrable(a)
  /\ Facts \subseteq Contexts
  /\ Limits \subseteq 0..100
  /\ Durabilities \subseteq BOOLEAN /\ SecretSet \in BOOLEAN
  /\ Configs \subseteq {"dry", "unlisted", "live"}
  /\ MaxTime \in Nat /\ MaxRestarts \in Nat

VARIABLES
  now,       \* the wall clock
  config,    \* the settings this process was started with
  durable,   \* whether this deployment has a durable store
  key,       \* the signing key in force; every key lost is replaced by the next
  audit,     \* the audit trail
  docs,      \* the verdict documents clients hold
  runs,      \* what reached a live executor
  pc,        \* where each handler is
  kind,      \* which route it serves
  work,      \* the document it works on
  began,     \* when it read the clock to check or to issue
  own,       \* the approval request it put in the process's log
  loaded,    \* how often its audited decision was loaded into that log
  hydrated,  \* routes._approvals_hydrated
  restarts   \* how often the process has restarted, for the bound

process == <<own, loaded, hydrated, restarts>>
handlers == <<pc, kind, work, began>>
vars == <<now, config, durable, key, audit, docs, runs, pc, kind, work, began, own,
          loaded, hydrated, restarts>>

Ended == {"new", "done", "refused", "failed", "lost"}
Underway == {"hydrate", "flag", "load", "present", "resolve", "expire", "record",
             "evaluated", "checked", "running", "ran"}

NoDoc == [src |-> Nobody]
Unsealed == 0

\* Slip: any signature will do, whichever key made it.
IsSealedByAnyKey(d) == d.key # Unsealed

\* is_sealed: signed with the key in force, and not changed since.
IsSealed(d) == d.key # Unsealed /\ d.key = key

\* What the handler appends to the audit trail at this point.
RecordOf(r) ==
  [req  |-> r,
   kind |-> IF pc[r] = "evaluated" THEN "evaluation"
            ELSE IF pc[r] = "record" THEN "approval"
            ELSE IF pc[r] = "checked" THEN "attempt"
            ELSE "result",
   src  |-> work[r].src,
   tier |-> work[r].verdict.tier,
   choice |-> IF pc[r] = "record" THEN own[r] ELSE "-",
   at   |-> began[r]]

Decisions == {e \in audit : e.kind = "approval"}

-----------------------------------------------------------------------------
Init ==
  /\ now = 0 /\ key = 1 /\ config \in Configs /\ durable \in Durabilities
  /\ audit = {} /\ docs = {} /\ runs = {}
  /\ pc = [r \in Requests |-> "new"]
  /\ kind = [r \in Requests |-> "none"]
  /\ work = [r \in Requests |-> NoDoc]
  /\ began = [r \in Requests |-> 0]
  /\ own = [r \in Requests |-> "none"]
  /\ loaded = [r \in Requests |-> 0]
  /\ hydrated = FALSE
  /\ restarts = 0

\* A handler starts on a document and gets as far as `next`.
Begin(r, route, d, next) ==
  /\ pc[r] = "new"
  /\ pc' = [pc EXCEPT ![r] = next]
  /\ kind' = [kind EXCEPT ![r] = route]
  /\ work' = [work EXCEPT ![r] = d]
  /\ began' = [began EXCEPT ![r] = now]

\* The document the policy engine issues to request r now.
Issue(r, a, c, limit, seal) ==
  [src |-> r, verdict |-> Evaluate(a, c, limit, config = "dry", now),
   preview |-> seal = Unsealed, key |-> seal]

\* POST /policy/preview: computed, marked, never sealed, never recorded.
Preview(r, a, c, limit) ==
  LET d == Issue(r, a, c, limit, Unsealed)
  IN /\ Begin(r, "preview", d, "done")
     /\ docs' = docs \cup {d}
     /\ UNCHANGED <<now, config, durable, key, audit, runs, process>>

\* POST /policy/evaluate, up to its audit record.
EvaluatePolicy(r, a, c, limit) ==
  /\ Begin(r, "evaluate", Issue(r, a, c, limit, key), "evaluated")
  /\ UNCHANGED <<now, config, durable, key, audit, docs, runs, process>>

\* _queue_proposal, up to its audit record: no agent limit, and a pending
\* request in the approval log.
QueueProposal(r, a, c) ==
  /\ Begin(r, "propose", Issue(r, a, c, NoLimit, key), "evaluated")
  /\ own' = [own EXCEPT ![r] = "pending"]
  /\ UNCHANGED <<now, config, durable, key, audit, docs, runs, loaded, hydrated, restarts>>

\* Slip: the expiry check is left to is_executable.
MayApproveStale(d) == ~d.preview /\ IsSealed(d) /\ d.verdict.tier # "denied"

\* The refusals of POST /policy/approve.
MayApprove(d) ==
  /\ ~d.preview /\ IsSealed(d)
  /\ d.verdict.tier # "denied"
  /\ now <= d.verdict.expiresAt

\* POST /policy/approve, up to recording the decision: the copy is granted
\* and sealed again.
Approve(r, d) ==
  /\ d \in docs
  /\ Begin(r, "approve", [d EXCEPT !.verdict.grantedBy = r],
           IF MayApprove(d) THEN "hydrate" ELSE "refused")
  /\ UNCHANGED <<now, config, durable, key, audit, docs, runs, process>>

\* POST /policy/deny: any sealed verdict, whatever its tier or age.
Deny(r, d) ==
  /\ d \in docs
  /\ Begin(r, "deny", [d EXCEPT !.verdict.grantedBy = Nobody, !.verdict.denial = TRUE],
           IF IsSealed(d) THEN "hydrate" ELSE "refused")
  /\ UNCHANGED <<now, config, durable, key, audit, docs, runs, process>>

\* POST /actions/execute for action a: require_seal, then require_verdict.
Execute(r, d, a) ==
  /\ d \in docs
  /\ Begin(r, "execute", d,
           IF IsSealed(d) /\ Authorises(d.verdict, a, now) THEN "checked" ELSE "refused")
  /\ UNCHANGED <<now, config, durable, key, audit, docs, runs, process>>

\* GET /policy/approvals/fatigue.
Poll(r) ==
  /\ Begin(r, "poll", NoDoc, "hydrate")
  /\ UNCHANGED <<now, config, durable, key, audit, docs, runs, process>>

-----------------------------------------------------------------------------
Goto(r, next) == pc' = [pc EXCEPT ![r] = next] /\ UNCHANGED <<kind, work, began>>

AfterHydration(r) == IF kind[r] = "poll" THEN "expire" ELSE "present"

\* _hydrate_approvals tests its flag ...
TestFlag(r) ==
  /\ pc[r] = "hydrate"
  /\ Goto(r, IF hydrated THEN AfterHydration(r) ELSE "flag")
  /\ UNCHANGED <<now, config, durable, key, audit, docs, runs, process>>

\* ... sets it before there is anything to show for it ...
SetFlag(r) ==
  /\ pc[r] = "flag"
  /\ hydrated' = TRUE
  /\ Goto(r, IF durable THEN "load" ELSE AfterHydration(r))
  /\ UNCHANGED <<now, config, durable, key, audit, docs, runs, own, loaded, restarts>>

\* ... and loads every audited decision into the log.
Load(r) ==
  /\ pc[r] = "load"
  /\ loaded' = [q \in Requests |->
       IF \E e \in Decisions : e.req = q THEN loaded[q] + 1 ELSE loaded[q]]
  /\ Goto(r, AfterHydration(r))
  /\ UNCHANGED <<now, config, durable, key, audit, docs, runs, own, hydrated, restarts>>

\* The store does not answer the load: the handler ends with an error.
LoadFails(r) ==
  /\ pc[r] = "load"
  /\ Goto(r, "failed")
  /\ UNCHANGED <<now, config, durable, key, audit, docs, runs, process>>

\* _record_decision puts a request of its own in the log ...
Present(r) ==
  /\ pc[r] = "present"
  /\ own' = [own EXCEPT ![r] = "pending"]
  /\ Goto(r, "resolve")
  /\ UNCHANGED <<now, config, durable, key, audit, docs, runs, loaded, hydrated, restarts>>

\* ... and resolves it, unless a poll found it expired in between.
Resolve(r) ==
  /\ pc[r] = "resolve"
  /\ IF own[r] = "pending"
       THEN /\ own' = [own EXCEPT ![r] = IF kind[r] = "approve" THEN "approved" ELSE "denied"]
            /\ Goto(r, "record")
       ELSE /\ Goto(r, "failed")
            /\ UNCHANGED own
  /\ UNCHANGED <<now, config, durable, key, audit, docs, runs, loaded, hydrated, restarts>>

\* ApprovalLog.expire_stale.
ExpireStale(r) ==
  /\ pc[r] = "expire"
  /\ own' = [q \in Requests |->
       IF own[q] = "pending" /\ now > work[q].verdict.expiresAt THEN "expired" ELSE own[q]]
  /\ Goto(r, "done")
  /\ UNCHANGED <<now, config, durable, key, audit, docs, runs, loaded, hydrated, restarts>>

-----------------------------------------------------------------------------
\* AUDIT.append succeeds and the handler goes on.
Append(r) == audit' = audit \cup {RecordOf(r)}

\* The evaluation is on the trail: the client gets the sealed verdict.
RecordEvaluation(r) ==
  /\ pc[r] = "evaluated"
  /\ Append(r)
  /\ docs' = docs \cup {work[r]}
  /\ Goto(r, "done")
  /\ UNCHANGED <<now, config, durable, key, runs, process>>

\* The decision is on the trail: the client gets the changed copy.
RecordDecision(r) ==
  /\ pc[r] = "record"
  /\ Append(r)
  /\ docs' = docs \cup {work[r]}
  /\ Goto(r, "done")
  /\ UNCHANGED <<now, config, durable, key, runs, process>>

\* "Written before execution, not after."
RecordAttempt(r) ==
  /\ pc[r] = "checked"
  /\ Append(r)
  /\ Goto(r, "running")
  /\ UNCHANGED <<now, config, durable, key, docs, runs, process>>

\* Slip: only the process's own gate is asked, not the verdict's constraint.
ReachesExecutorOnConfig(r) == config = "live"

\* Every gate can veto, none can override.
ReachesExecutor(r) == config = "live" /\ ~work[r].verdict.dryRun

\* runner.run: the action reaches the live executor, or is only described.
Run(r) ==
  /\ pc[r] = "running"
  /\ runs' = IF ReachesExecutor(r)
               THEN runs \cup {[req |-> r, src |-> work[r].src,
                                tier |-> work[r].verdict.tier,
                                by |-> work[r].verdict.grantedBy]}
               ELSE runs
  /\ Goto(r, "ran")
  /\ UNCHANGED <<now, config, durable, key, audit, docs, process>>

RecordResult(r) ==
  /\ pc[r] = "ran"
  /\ Append(r)
  /\ Goto(r, "done")
  /\ UNCHANGED <<now, config, durable, key, docs, runs, process>>

\* The durable store fails the append: the handler ends with an error, and
\* the record may or may not have been written.
AppendFails(r) ==
  /\ durable
  /\ pc[r] \in {"evaluated", "record", "checked", "ran"}
  /\ Append(r) \/ UNCHANGED audit
  /\ Goto(r, "failed")
  /\ UNCHANGED <<now, config, durable, key, docs, runs, process>>

-----------------------------------------------------------------------------
\* The process restarts, perhaps reconfigured: handlers in flight are gone,
\* the approval log is empty, and without a durable store so is the trail and
\* the signing key.  Clients keep their documents.
Restart ==
  /\ restarts < MaxRestarts
  /\ restarts' = restarts + 1
  /\ config' \in Configs
  /\ key' = IF durable \/ SecretSet THEN key ELSE key + 1
  /\ audit' = IF durable THEN audit ELSE {}
  /\ pc' = [r \in Requests |-> IF pc[r] \in Ended THEN pc[r] ELSE "lost"]
  /\ own' = [r \in Requests |-> "none"]
  /\ loaded' = [r \in Requests |-> 0]
  /\ hydrated' = FALSE
  /\ UNCHANGED <<now, durable, docs, runs, kind, work, began>>

Tick ==
  /\ now < MaxTime
  /\ now' = now + 1
  /\ UNCHANGED <<config, durable, key, audit, docs, runs, handlers, process>>

Asks(r) ==
  \/ \E a \in Actions, c \in Facts, limit \in Limits :
       Preview(r, a, c, limit) \/ EvaluatePolicy(r, a, c, limit)
  \/ \E a \in Actions, c \in Facts : QueueProposal(r, a, c)
  \/ \E d \in docs : Approve(r, d) \/ Deny(r, d)
  \/ \E d \in docs, a \in Actions : Execute(r, d, a)
  \/ Poll(r)

Proceeds(r) ==
  \/ TestFlag(r) \/ SetFlag(r) \/ Load(r) \/ LoadFails(r)
  \/ Present(r) \/ Resolve(r) \/ ExpireStale(r)
  \/ RecordEvaluation(r) \/ RecordDecision(r)
  \/ RecordAttempt(r) \/ Run(r) \/ RecordResult(r) \/ AppendFails(r)

Next ==
  \/ \E r \in Requests : Asks(r) \/ Proceeds(r)
  \/ Restart
  \/ Tick

Spec == Init /\ [][Next]_vars

-----------------------------------------------------------------------------
TypeOK ==
  /\ now \in 0..MaxTime /\ key \in 1..(MaxRestarts + 1) /\ config \in Configs
  /\ pc \in [Requests -> Ended \cup Underway]
  /\ began \in [Requests -> 0..MaxTime]
  /\ own \in [Requests -> {"none", "pending", "approved", "denied", "expired"}]
  /\ loaded \in [Requests -> Nat]
  /\ hydrated \in BOOLEAN
  /\ \A d \in docs :
       d.src \in Requests /\ d.verdict.tier \in Tiers /\ d.verdict.risk \in 0..100

\* A document the service would accept now was recorded when it was issued:
\* what the signing key forgets, the trail may forget, and nothing else.  So
\* no approval and no execution follows an evaluation nobody can find.
AcceptedMeansEvaluated ==
  \A d \in docs : IsSealed(d) =>
    \E e \in audit : e.kind = "evaluation" /\ e.req = d.src

\* An approval on the trail authorised something: the verdict was within its
\* window when it was granted and its tier could be granted at all.  "A stale
\* approval must visibly fail rather than quietly succeed" (routes.approve).
NoHollowApproval ==
  \A e \in Decisions : e.choice = "approved" =>
    /\ e.at <= work[e.req].verdict.expiresAt
    /\ e.tier # "denied"

\* Whatever reaches a live executor is accounted for before it does: the
\* trail already holds its evaluation and its attempt and, unless Dharma
\* granted it alone, the approval of the human who did.
RunsAreAccountable ==
  [][\A x \in runs' \ runs :
       /\ \E e \in audit : e.kind = "evaluation" /\ e.req = x.src
       /\ \E e \in audit : e.kind = "attempt" /\ e.req = x.req
       /\ x.tier # "autonomous" =>
            \E e \in Decisions : e.choice = "approved" /\ e.req = x.by /\ e.src = x.src]_vars

\* What was evaluated as a dry run is never performed, whichever copy of it
\* comes back and however the process has been reconfigured since.
RehearsalsStayRehearsals ==
  \A x \in runs : ~work[x.src].verdict.dryRun
=============================================================================

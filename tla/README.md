# Pashupatastra: the verification project

Pashupatastra watches infrastructure and security telemetry, diagnoses incidents, and acts on them
under a policy engine. These modules model the path from an event to an action, what the actions are
allowed to do, and the storage the whole service shares: perception (buffer, baselines, graph,
correlation), the model gateway and the chat on it, the policy engine (Dharma), the life of a verdict,
the guarded remediation loop with the history it learns from, and accounts, companies, feeds, training
and seeding on one document store. Paths below are relative to `src/`.

## 1. Inventory

| Part | State it keeps | Operations | Interacts with | What makes it correct |
|---|---|---|---|---|
| Dharma, `packages/core/pashupatastra/dharma.py` | none (a pure function of policy file, action, context) | `score`, `evaluate`, `require_verdict` | everything that acts asks it | worse facts never earn more authority; what runs alone is bounded in risk, reach and reversibility |
| Registry, `registry.py` | the closed set of actions, filled at import | `register`, `get` | Dharma, the loop, the executors | every action above risk 0 has an undo or is irreversible |
| Learning, `learning.py` | `ExecutionHistory._records`, in memory | `record`, `familiarity`, `failures`, `context_for`, `learn` | written and read by the loop | failures are not forgotten; lessons stay in their environment |
| Verdict life cycle, `services/api/app/api/routes.py`, `engines/seal.py`, `engines/audit.py`, `engines/astra.py`, `approvals.py` | audit trail (store or memory), signing key, approval log and its hydration flag (memory); clients hold the verdicts | preview, evaluate, propose, approve, deny, execute, fatigue poll | Dharma, store, executors | what runs is accounted for; approvals are timely; the measures count what happened |
| Remediation loop, `remediation.py`, `engines/loop.py`, `observation.py`, `engines/executors.py` | per request: attempt, captured state, window; shared: cluster, trail, history | `remediate` | Dharma, audit trail, kubectl, history | no retry, evidence before action, undo on its own authority, resolves only on answers that held, ends |
| Perception, `engines/drishti.py`, `engines/buffer.py`, `baselines.py`, `detection.py`, `correlation.py`, `events.py` | the buffer with its counters, a window of samples per signal, the upstream rules met: all in memory, shared by the handlers | `poll`, `receive_otlp` | connectors, event store, graph | no event is lost uncounted or stored twice, and a drop is told of; an upstream alert is not seconded by a baseline; incidents are what the graph and the clock connect |
| Knowledge graph, `topology.py`, `graph.py`, `services/api/migrations/graph.sql` | nodes and edges, in Postgres or mirrored in memory | upsert, prune, blast radius, adjacency | perception writes it, Dharma prices reach with it | both stores reach the same entities |
| Model gateway, `gateway.py`, `engines/providers/failover.py` | per model choice: a breaker, an accountant, the provider that answered last | `complete`, `converse` | model providers, reasoning, chat | the breaker and the conversation's bounds hold under concurrent calls; what is spent is accounted for; every request ends |
| Chat agent, `services/api/app/agent/` | a cache of answers | `ask`, its tools | gateway, incidents | a repeated answer stands for who asks now; nothing uncited is shown |
| Agent runtime, `runtime.py` | counters of one investigation, its escalation | `call`, `advance` | constructed only by tests and one script | budgets stop it; the first escalation stands |
| Accounts and companies, `services/api/app/accounts.py` | documents: user, sign-in key, lock, member (two documents), invite, training, policy, signal, one-time tokens | about thirty operations, each several single-document reads and writes | document store | the two membership documents agree; an address has one account; a shown invite works; deletion is real |
| Durable stores, `dynamo.py`, `db.py`, `backend.py` | the tables, an index of recent events per source | put, put only if new, get, delete, append, list recent | every part above | an index lists what a full read would; appends do not overwrite one another |
| Player progress, `progress.py`, `game.py` | one document per player | `get`, `add` | document store | a best score never falls |
| Live feeds, `services/api/app/feeds/` | events, a cursor and a sync record per feed | `run`, by a scheduler that repeats | public feeds, document store | the cursor follows what is stored, and nothing listed in time is skipped |
| Incidents and seeding, `main.py`, `seed.py`, `incidents.py` | incident, entity, edge, signal, audit records, a marker | seeding at a cold start | document store, web console | no dangling citation, no marker before what it vouches for |
| Smriti, `smriti.py` | patterns and outcomes, in memory | remember, recall, forget | learning writes one instance, reasoning reads another | an outcome changes only the pattern it is about |
| Reasoning, Sigma drafts, connectors' parsers, contests, exports, Sati (training), web console, Android application, infrastructure, scripts, benchmark | mostly pure computation, parsing, or presentation | | | |

`PROJECT.json` lists every part with what is modelled of it or why it is not.

**What is hard here.** Requests run in threads of their own and meet at the audit store, the approval
log, the cluster, the engine's buffer, the gateway's breaker and, above all, at a document store
that nothing locks: between any two storage calls of one request any call of another may run, and the
function may be stopped. The verdict is carried by the client, so any copy may come back at any time
and in any order. The process may restart between any two steps and loses its memory then: the
history, the approval log, the buffer, the baselines and, without a store, the trail and the signing
key. A store may raise after writing. `kubectl` and model providers may time out with the work done.
Verdicts expire while they are used. Schedulers invoke at least once. The hazards in `PROJECT.json`
name the line at which each of these bites.

## 2. Modules

| Module | Models | Kind |
|---|---|---|
| `Dharma` | the policy engine as operators over integers and records; thresholds are constants | pure |
| `Registry` | the actions of both domains, `get`, `_rollback_spec` | pure |
| `ExecutionHistory` | the history with its clock and horizon, and the verdicts priced from it | state machine |
| `Verdicts` | the life of a verdict across handlers and restarts | state machine |
| `GuardedLoop` | what the remediation loop promises: no cycle, one undo, one disposition | abstract specification |
| `RemediationLoop` | the loop as it is wired, several at once, on one deployment | state machine |
| `Topology` | blast radius as walked in memory and in SQL, adjacency, correlation | pure |
| `Baselines` | median and deviation over a rolling window, judging and learning | pure |
| `IngestionBuffer` | the bounded buffer and its statistics | pure |
| `Perception` | polls and pushes on one engine, through buffer, store, detector, graph, correlator | state machine |
| `Gateway` | breaker, budget, retries, failover, the tool conversation, the chat turn and its cache | state machine |
| `DocumentStore` | storage calls, and requests as sequences of them | the common part of the next four |
| `Accounts`, `Feeds`, `Progress`, `Seeding` | the requests of each, as what they read and then write | state machines |
| `Platform` | their composition on one store | composition |
| `DharmaProofs`, `ExecutionHistoryProofs`, `VerdictsProofs`, `LoopProofs`, `PerceptionProofs`, `GatewayProofs`, `PlatformProofs`, `FeedProofs` | theorems (section 4) | proofs |
| `MCExecutionHistory`, `MCVerdicts`, `MCRemediationLoop`, `MCPerception`, `MCGateway`, `MCPlatform` | instances for TLC | model checking |

`ExecutionHistory`, `Verdicts` and `Registry` extend `Dharma`; `RemediationLoop` extends `Registry`
and composes with two specifications by refinement: `H == INSTANCE ExecutionHistory` with the
loop's own `now`, `records` and `issued`, and `G == INSTANCE GuardedLoop` with each loop's program
counter mapped to a phase. `GuardedLoopSpec` and `HistorySpec` are checked as properties of the
detailed specification. `Perception` extends `Topology`, `Baselines` and `IngestionBuffer`.
`Platform` extends the four modules over `DocumentStore`.

### How state and actions correspond to the code

*Dharma.* The six adjustments are the six branches of `score()`, in its order. Confidence is in
percent, so `int((0.8 - confidence) * 50)` is `(80 - percent) \div 2`; the two agree, in the code's
floating point, for every whole percent below 80. An absent `agent_risk_limit` is `NoLimit`, 100,
which no risk exceeds. `load_policy` refuses a file that breaks `PolicyAssumption`, so the assumption is what the
code guarantees. A verdict keeps action, risk, tier, grant, expiry, the dry-run constraint and
whether a denial is recorded on it; reasons and approver lists are left out.

*ExecutionHistory.* `records` is `ExecutionHistory._records`; a record carries the time its loop
**started** (`loop.remediate` reads the clock once), so overlapping loops append out of order.
`Authorise` is `loop._authorise`, `EvaluateRoute` is `POST /policy/evaluate`, `Learn` is the
`history.record` of `learn()`, `Restart` empties the list. Outside the loop nothing bounds who calls
them, so the module lets every order happen; `HistorySpec` shows the loop's calls are among these.
One bound, `MaxActivity`, covers records and issued verdicts together.

*Verdicts.* Each member of `Requests` is one HTTP request: a client asks (`Asks`), and the handler
proceeds in the steps between which other handlers can run (`Proceeds`). `docs` is what clients
hold; a handler works on a copy. A document's `key` is the signing key that sealed it; a client that
changes a document only breaks the seal, so changed documents are not enumerated. `audit` is the
trail; `own` and `loaded` are the entries of the approval log a handler made and those the hydration
loaded for it. `config` is dry, unlisted or live; only live reaches an executor. `durable` is whether the deployment
has a store; without one a restart forgets trail and key. `AppendFails` is the store raising before or after the write.

*RemediationLoop.* Each member of `Loops` is one `POST /actions/remediate`. `pc` walks
`remediate()`: capture, (authorise), check, attempt, act, result, observe, conclude, learn; `part`
says whether it is at the action or its rollback, which `_undo` runs through the same steps. The
deployment is one record (replicas, image, previous image, whether it is settled) that every loop
and `ClusterMoves` change. Parameters are the set of names present and one value. `Perform` and
`ExecutorFails` are the two outcomes of `astra.execute`'s runner, the second with or without the
effect, as a timed-out `kubectl` leaves it. A sample of the window is three steps: `ReadRollout` and, where a
count was asked for, `ReadReplicas` are the two `kubectl` calls, each of which may fail or time out
whatever the cluster is like, and `Judge` is what `WindowObserver.watch` makes of their answers. The cluster
may move between any two of them. `CloseWindow` is the deadline, tested between samples; it is also the only
outcome in dry-run. Settle time and interval only decide when samples happen, so they are left out: a
sample may begin at any moment. `window` keeps the passing samples in a row and what the sample under way was
told; its `stood`, how many answers in a row said that what was asked for stands, is for the properties
alone. `BLOCKED`, the disposition of a loop without a verdict, does not occur: `loop.remediate` refuses such a
request before the loop starts (`Start` ends in "refused").

*Perception.* Each member of `Handlers` is one call of `poll` or `receive_otlp`; all share one engine,
as the polls of the service do; a push to `/ingest/otlp` builds an engine of its own (section 3). A handler's harvest
is the input: what the connectors returned, how many of them failed and how many events normalisation held aside. `Submit` is `ingestion.submit`, whose lock
makes it one step; `Drain` takes a batch, of whichever handler's events; `Write` and `WriteFails` are
`save_events`, the second before or after the commit, after which the drain goes on. `Quarantine` hands
the harvest to the detector, which takes every alert before any metric (`AlertsFirst`), one event a
step, by its place in the harvest: `DetectAlert` claims the signal for its upstream rule, `DetectMetric` judges by the baseline and
then learns. `UpsertNodes` and `UpsertEdges` are two transactions; the second refuses an edge whose
end was pruned in between. `ReadCandidates` and `Prune` are the two transactions of `prune_stale`.
The correlator takes the findings in the order of their time (`ByTime`) and goes over the pairs of a double loop
that stops at the window (`Candidates`). Of each it asks the graph whether the two are adjacent, which is one query
(`AskForward`) or, where that one says no, two (`AskBack`), each on a connection of its own; upserts and
prunes of others come between any two. `Group` joins the pairs that were found related (`UniteRow` within
`Roots`). In memory `adjacent` is no query, and the model lets others come between its halves all the same, which
only adds behaviours. `Audit` appends the observation, with the buffer's statistics (`shown`), and answers
the caller. `StoreRaises` is any store call outside the flush, which nothing catches: `Raise` ends
the handler and takes its `PollResult` along, and `untold` remembers, for the properties alone, what was
counted on it. `views` keeps, for them too, the graphs there have been while a handler was correlating. `Crash`
empties memory, and the store where it is memory too.
Floating-point statistics are exact here: the median is kept doubled, the deviation quadrupled and
compared with the threshold in integers.

*Gateway.* Each member of `Callers` is a thread that serves requests on gateways it shares with the others,
one per model choice. `Enter` is the check of the budget and of the breaker; `Answers`, `Unavailable` and
`Violates` are the outcomes of one post: a message, no answer from any provider of the choice, an
answer the provider's own validation refuses. The charge is a read (in `Answers`) and a write (in
`LookUp`, `Format` or `Conclude`, which decide what the message leads to), as `Accountant.record` is. `LookUp` runs the tools and
goes on, or stops at the conversation's ceiling; `Format` is the one extra call that asks for the
structured answer, which the breaker does not see; `Verify` checks citations, withholds what cites
nothing, and caches what may be repeated. `Begin` and `Repeat` are the chat route with a miss and a hit.
The failover pair is one provider to its gateway, which answers as whichever of the two did.

*DocumentStore.* Storage calls are atomic and nothing else is. A request makes its first reads in the
step in which it begins (`Starts`), and carries the rest as `todo`, a sequence of storage calls; a read
that decides further calls later is a `Later` task (`ReadAgain`, `ReadsCursor`, `Fetches`, `Indexes`).
`PutNew` is `put_doc(only_if_new=True)`; `LosesKey` the refusal and what the loser takes back. A request
that is refused writes nothing and is no step. `Dies` stops a request between two of its calls.
`about` names what a request changes and into what; the ghost `crossed` collects the topics on which two
different changes were at work at once, or one died: properties that cannot survive that say so,
and what is lost there is listed in section 3.

*Accounts, Feeds, Progress, Seeding.* One action per operation that writes, named for it, whose guard is the
route's and the operation's refusals and whose calls stand in the code's order. The caller of an authenticated request holds a
session of the present version. A user document keeps provider, address, password, session version and
whether the address is verified; a user document missing from the store reads as one without fields, as
`get_doc(...) or {}` does. Tokens and ids are numbers that are never given out twice (`minted`). `leaving` and `gone` are ghosts:
accounts whose deletion has begun and has answered. A publisher's entry is the stamp it carries, and `published` keeps a feed's entries in the order they were listed. `Publishes`
lists one with any stamp, alike with another or older than those before it: nothing in the code asks more of a
publisher. What a fetch may answer (`Answers`) is fresh entries in the feed's order, oldest first from
`fetch_nvd` and newest first from the others; which of entries with one stamp come first, and which of them the
limit cuts, is any choice. Without a cursor `fetch_nvd` asks for a first window of hours (`NVD_FIRST_WINDOW_HOURS`),
whose start moves on with the clock as long as a poll may still ask for it (`WindowMoves`). `SeedDemo` writes entities, edges, signals, incidents and then the marker; its audit
records take fresh ids every time. A behaviour begins in one of the `Worlds`, stores that finished requests
have left (`AtRest`): both documents of a membership agree, the company's code lets people in, a whole
account's address signs in to it, documents have the fields their readers take, links name ids that were given out, and nothing has been polled or
seeded yet, which only such requests do.

## 3. Runs

Bounds are chosen so that the case in question can happen: two loops are the least that share a
cluster, three requests the least for evaluate, approve, execute of one verdict, and for a request that
meets another with a third between them. `VerdictTTL = 1` with `MaxTime = 2` gives a verdict a
moment at which it is fresh, its last moment, and one past it. Thresholds are those of `policy.json`
unless a run says otherwise. Deadlock checking is off where the instance really stops: each request is
made once, and the clock and counters are bounded.

| Run | Instance | Shows |
|---|---|---|
| `MCPricing` | four shapes of action, contexts on both sides of every cap, two limits, any two verdicts; or two closed remediations, or one and a verdict, in two environments, one tick past the horizon, restarts | `WorseFactsNeverEarnMoreAuthority`, `UnattendedIsBounded`, `OnlyAgeForgetsFailures`, `LessonsStayWhereTheyWereLearned` |
| `MCVerdicts` | a durable store or none, an action humans grant and one nobody may, three requests, a restart into dry or live, clock past expiry | `NoHollowApproval`, `AcceptedMeansEvaluated`, `RehearsalsStayRehearsals`, `RunsAreAccountable` |
| `MCLoop` | two loops, scale or restart, with and without the count, a window of two samples, a cluster that moves between the calls, one restart | `EvidenceOfEveryRun`, `NothingIsRetried`, `ClosesOnAStateThatHeld` |
| `MCLoopUndo` | two loops, actions whose undo has an id of its own, a looser policy file | `UndoRunsOnItsOwnAuthority`, `GuardedLoopSpec`, `HistorySpec` |
| `MCLoopEnds` | one loop, every shape of action, rehearsed or not, expiring verdicts, a restart, under fairness | `EveryLoopEnds` |
| `MCPerception` | a poll and a push with four or seven events over a buffer of three drained by two, either store, one crash or one pruning, a cycle in the graph | `LossIsCounted`, `EachEventIsInOnePlace`, `StoresAgreeOnImpact`, `MajorityDecides`, `UpstreamIsNotSeconded`, `IncidentsAreLinked`, `BufferEmpties` |
| `MCGateway` | two threads, three requests (chats on a choice with tools and on one without, a one-shot call), two failures trip a breaker, one look-up, a ceiling of two tokens | `EverySpendIsAccounted`, `ConversationIsBounded`, `BreakerHolds`, `RepeatedAnswersStand`, `RequestsEnd` |
| `MCPlatform` | two requests at a time, three in all, of one family of requests; one may die; a new deployment or a company of two; of polls and readers, one feed lists two entries of any stamps in any order, with a limit of one, a first window that moves, and an index of one event | `OneWinner`, `InviteWorks`, `MembershipsAgree`, `CursorFollowsTheWrite`, `IndexIsComplete`, `SeededIsWhole`, `ProgressIsKept` |

Each module's type invariant is checked in one of its runs.

`MCLoopUndo` uses a looser policy file (an autonomous ceiling of 54) because under the shipped one no
executor-owned action has an undo with an id of its own that Dharma grants alone: a redeploy costs 45
against a ceiling of 30. With the shipped thresholds such an undo is always refused and ends in
ROLLBACK_FAILED; ROLLED_BACK of such an action exists only under a file like this one, which
`load_policy` accepts. 54 is chosen so that a redeploy is granted where it is known (45) and refused
where it is novel (55) or has failed (53 with one failure, 61 with two).

`MCPerception`'s bounds make every case happen at its smallest: a buffer of three overflows on two
harvests; a batch of two leaves a remainder; one sample makes a baseline judge and three fill its
window, so that a jump is flagged, then learned; the trace closes a cycle. `MCGateway` gives each choice
one provider: the pair behind `failover` makes the instance too large, and `GatewayProofs` covers any
pair. A `TokenCeiling` of two is passed by one message or reached by two. `MCPlatform` takes the
requests of a behaviour from one family: a menu puts together the operations that contend for a
document (an address, a company's invite, a membership, a cursor), since all of them at once are beyond
TLC. Every operation is in some menu. A menu of polls also names the feed that lists entries meanwhile, oldest first
or newest first, since two that list at once are ten times the states; both are polled. Two entries against a
limit of one are enough for the limit to cut between ties, for one to arrive late with an older stamp, for the window to
pass one by, and to overflow the index. `MCSkips` lists three. In `MCLoop` two samples are the least that
`hold_samples` can ask for in a row, and a count makes a sample two calls.

### Where the code and its documents disagree

Four runs check one sentence of the repository each, and TLC produces a trace against it;
`PROJECT.json` quotes the sentence and its line.

| Run | Sentence | What happens |
|---|---|---|
| `MCCaptureSuffices` | capture returns the parameters the rollback is invoked with | namespace and deployment are missing, so the undo of a scale always fails |
| `MCDeletion` | deletion is real | a reset link asked for before the deletion writes a user document, with a password, after it |
| `MCDrops` | drops of the buffer are counted and surfaced, never silent | a poll drops events and then a store call raises: its result is lost with the exception, and no observation has the drops |
| `MCSkips` | if the NVD feed fell behind, the page would show a growing gap rather than skip silently | two entries of one stamp and a limit that cuts between them: the next fetch starts after that stamp, and the second is never asked for |

The modules also reach the following cases, which differ from what a sentence of the repository says.
No run repeats them; the behaviour is in the actions named.

*Policy, verdicts, the loop.*

* The first failure of an action replaces the 10 of novelty by 8, so that an action that failed here is
  less risky than one never tried (`dharma.py:370`, against the table at `:107`).
* The hydration flag is set before the approval log is loaded (`routes.py:851`): another handler answers
  without the past decisions, which are "reloaded before first use"
  (`services/api/tests/testapprovals.py:138`). A decision recorded between `SetFlag` and `Load` counts twice (`routes.py:845`).
* `approve` reads the clock twice (`routes.py:745` for the expiry, `:754` for the entry); `Approve` reads it once. Between
  the two the code may date an approval an instant after the expiry it has just checked; `NoHollowApproval` is about the
  reading that was checked, and the model's ticks are too coarse to tell them apart.
* A window that closes as held says what its calls were told. The cluster may have moved between the two calls of
  a sample, and before the loop acted on them, so "resolved" is not a statement about any one moment
  (`observation.py:179`, `executors.py:217`).
* The verdict may expire between its two checks: the loop then treats a refusal to act as a failure of
  the action and rolls back what it did not do (`loop.py:152`).
* A rehearsal observes the live cluster and is RESOLVED without having acted (`loop.py:166`,
  `remediation.py:47`).
* `Deny` leaves the tier, so the denied copy of an autonomous verdict stays executable
  (`services/api/tests/testapprovals.py:88`: "a denied verdict grants nothing").
* `Present` makes a request of its own for every decision: one verdict can be decided twice, and the
  pending request of `QueueProposal` is later counted as expired unanswered though its verdict was
  approved (`approvals.py:117`, `:168`).
* With `SecretSet` and not `durable`, `Restart` loses the trail and keeps the key: an approval can then
  follow an evaluation nobody can find (`routes.py:521`).
* In dry-run an action with an undo of its own ends in ROLLBACK_FAILED without having acted
  (`remediation.py:63`).
* `Authorise` issues the undo of a rehearsal without the rehearsal's constraint, so a loose policy file
  has it performed (`loop.py:155`).
* A notification is looked for in the sink of another router and is never verified
  (`executors.py:271`).
* An action that is its own rollback is undone under the verdict it came with (`loop.py:8`).
* `Learn` files the primary action only: the failure of an undo is not remembered under its own name
  (`loop.py:69`), and a loop that refused to act is remembered as a failure (`learning.py:105`).
* `ConcludeFails` ends a loop that acted without learning from it (`loop.py:146`).

*Perception.*

* In memory, a cycle through the origin puts the origin into its own blast radius; in SQL it does not,
  and `graph.sql:21` and `services/api/tests/testgraph.py:138` say it must not. `StoresAgreeOnImpact`
  compares the two besides the origin.
* Every event gets a random id (`events.py:258`), so a sample polled twice is stored twice, where
  `db.py:163` says a repeated save "cannot double-count a sample"; `Normalised` models the fresh id.
  `dynamo.merge_recent` has the same assumption.
* Findings may stand on events whose write failed (`Quarantine` starts detection on the harvest),
  where `drishti.py` says a finding that cannot cite a stored event is not usable downstream.
* The detector is held "for the lifetime of the engine", and `/ingest/otlp` (`routes.py:918`) builds an engine per
  request: its baselines never reach `MIN_SAMPLES`. The model has one engine, as polls do.
* An alert's signal is its rule id and a metric's is its name, so that the deference
  `UpstreamIsNotSeconded` is about happens only where the two coincide.
* `POST /ingest/otlp` answers with neither drops nor write errors (`routes.py:928`), also when it succeeds; only
  the observation on the trail has them. `LossIsCounted` is about what is counted on results; what becomes of these is
  `MCDrops`.
* The correlator's queries see the graph as it is by then, so an incident may be linked in no single graph
  (`correlation.py:182`, `graph.py:218`). `IncidentsAreLinked` therefore says of its pairs that some graph of the meantime
  linked them, and of findings in different incidents that each direction was missing at some time.
* `prune_stale` reads its candidates and deletes them in another transaction: an entity seen again in
  between is deleted all the same, and the upsert of its edges raises (`ReadCandidates`, `Prune`, `EdgesRefused`).

*Gateway and chat.*

* After the cooldown every caller passes the half-open breaker until one fails, where `gateway.py:349`
  says it allows one probe (`Probed`).
* Two charges that overlap lose one (`Charged`); `EverySpendIsAccounted` claims nothing after that.
* The tokens of an answer that violates its schema are charged to nobody (`Violates`).
* The ceiling of an incident (`buddhi.py:199`) is kept per model choice, so an incident asked about on
  two models may spend twice the ceiling; and a chat with tools asks no budget at all (`Enter`).
* The key of a cached answer is computed before the call, from the provider that answered last: an
  answer of the fallback may be cached under the primary's name (`Key`).
* A response that is no JSON raises past the gateway's handling, unseen by the breaker; the model has no
  such response.

*Storage.*

* A source without events is never indexed, so every read of it reads the whole partition and rewrites every other
  source's index (`Rebuild`), where `dynamo.py:329` says that missing items are rebuilt once.
* Two wrong sign-ins that overlap count once (`SignIn`, `accounts.py:244`).
* A save of the settings or of an intake key over a rotation brings the old invite back, deleted; overlapping role
  changes and removals leave the two membership documents different; `crossed` marks both.
* A stale save of a user document (`Rename`, `SendVerification`, `ConfirmEmail`) brings back the old password and
  lowers the session version, so that sessions that were signed out are accepted again (`accounts.py:133`).
* Two overlapping results of one training record undo a pass (`accounts.py:408`), and two attempts of a player
  one another (`progress.py:132`).
* Two deletions of one account with a new registration of its address between them delete the new account's
  sign-in key; two first sign-ins with Google orphan one account; an owner who deletes its account leaves a
  company without an owner.
* A newest-first feed with more new entries than the limit skips the older ones for ever, and so do two
  entries of one day when the cursor stands on that day (`feeds/ingest.py:7`, `feeds/sources.py:119`). `CursorFollowsTheWrite`
  claims completeness of the oldest-first feed only. There, what may be missing up to the cursor is what `MCSkips` shows, a tie
  with a stored entry; what was listed later with an older stamp; and what a first successful poll that came
  late found older than its window of 24 hours (`feeds/sources.py:169`).
* Two cold starts, or a death before the marker, append the scripted audit trail twice
  (`SeedDemo`), where `main.py:40` says "idempotent against a durable store". In the infrastructure domain
  `store.py`'s seed cites events that are never stored.
* `get_item` is called without `ConsistentRead` (`dynamo.py:851`), so that a read may miss a write that has just been made.
  `Held` reads the latest write: every property of the stores is about a table that answers so.
* Two containers whose clock and sequence number agree overwrite one another's audit record
  (`dynamo.py:166`).

*Read, and outside every module.* A Sati security policy of `actions_per_incident: 0` with `>=` denies every tool call
(`runtime.py:250`). `LIMITS` has no entry for the malicious-package feed, so building that rule raises inside its `try`
and the rule never fires live (`feeds/liveincidents.py:363`). `sigma.py` drafts one selection that joins the
fields of several events with *and*, and says it would have matched. `learn` writes the memory of `engines/loop.py:43`
and Buddhi recalls from another instance (`buddhi.py:192`); `remember` overwrites a record and its warning.

### Fairness

Safety runs assume none. `MCLoopEnds` assumes weak fairness of each loop's own steps (`Proceeds`):
`subprocess.run` has a timeout, a store call returns or raises, the window has a deadline, and
handlers run in threads of their own, so none waits on another. A sample that has begun is finished, and
beginning one is not among the fair actions: a window may never take a sample. Its deadline needs strong
fairness (`SF_vars(CloseWindow(l))`), since sampling disables it now and again: the head of the loop in `watch` tests
the deadline between any two samples, so a window that comes round for ever meets it. Nothing is
assumed of the cluster, the clock or clients.

`MCPerception` assumes weak fairness of a handler's flush alone: a thread of a live process runs on, and a
write returns or raises. `BufferEmpties` needs no more, and a crash empties the buffer its own way.
`MCGateway` assumes weak fairness of a thread that serves a request: every post to a provider has a
timeout. Nothing is assumed of what providers answer, so an outage or a model that never stops calling
tools is among the behaviours `RequestsEnd` covers.

## 4. Proofs

All proofs hold for every value of the constants that satisfies the named assumptions.
`PolicyAssumption` is what `load_policy` enforces; `HistoryAssumption`, `VerdictsAssumption`,
`LoopAssumption`, `PerceptionAssumption`, `BaselineAssumption`, `GatewayAssumption` and those of the modules
under `Platform` give the constants their types (registered actions, contexts, limits, harvests, messages,
thresholds). `LoopAssumption` also takes a requested value to be one the deployment may have.
`PlatformAssumption` says of the stores a behaviour may begin with that they are at rest, as an empty one
is; without it a store that was broken before the service started would stay so. It also says that the
scripted events' source is the name of no feed.

* `DharmaProofs`: `RiskOnlyRaised`, `RiskMonotone`, `TierMonotone`, `AutonomyIsBounded`. One lemma for
  each adjustment's bound and monotonicity; the cap and the bands preserve order; each override
  preserves the order of tiers.
* `ExecutionHistoryProofs`: `TypeOK`, `WorseFactsNeverEarnMoreAuthority`, `UnattendedIsBounded`,
  `OnlyAgeForgetsFailures` and `LessonsStayWhereTheyWereLearned`. The inductive invariant `IInv` adds to the type invariant that every
  issued verdict **is** what `Evaluate` gives for the context, limit and action recorded with it; the
  rest follows from `DharmaProofs`. The action properties need that the relevant records are a finite
  set, that appending one only adds to it, and that a record of another action or environment adds to none.
* `VerdictsProofs`: `TypeOK`, `NoHollowApproval`, `RehearsalsStayRehearsals`,
  `AcceptedMeansEvaluated` and `RunsAreAccountable`. No one of these is inductive alone: a run is
  justified by the attempt recorded two steps earlier, by a document that was signed, by the handler
  whose identity its grant carries. `IInv` says what each handler's position implies about its
  document (what was checked, against which clock reading), that every document is a copy of the one
  its source request issued with at most its grant changed, that a sealed document was recorded, and
  that a grant in a document is on the trail. The last two theorems assume
  `Remembers`, that every deployment considered is durable or no secret is configured; without it they are false: a configured secret outlives an
  in-memory trail (section 3).
* `LoopProofs`: `TypeOK`, `EvidenceOfEveryRun`, `NothingIsRetried`, `UndoRunsOnItsOwnAuthority`,
  `ClosesOnAStateThatHeld`, and two refinements: `GuardedLoopSpec`, that the wired loop implements the abstract
  one, and `HistorySpec`, that finitely many loops use their history as `ExecutionHistory` describes. For each
  loop the invariant says where it is and what that means (`Placed`), what was captured and that it lacks
  the target the action was given (`Captured`), that the action and its rollback were each handed over
  at most once and not yet where the loop is about to (`RanOnce`), and that what was
  handed over was recorded first, under a grant of its own where the undo has its own id (`Evidenced`).
  What a window knows has an invariant of its own (`HeldInv`): so many samples that passed in a row mean so
  many answers in a row, `Reads` of them each, of which a sample under way may have one already.
  `NothingIsRetried` rests on `Captured`: of an action that is its own rollback, only the captured
  parameters tell the two runs apart. Each refinement has one step per action: it maps to a step of the
  abstract module or leaves its state alone. `HistorySpec` needs that no more than the history's bound ever
  happens, which the loop does not count: `HistoryInv` counts the loops that closed, of which each
  recorded once, and those whose undo was priced, of which each was priced once. It also needs that the loop's
  engine and its history's are one function (`OneEngine`).
* `PerceptionProofs`: `TypeOK`, `LossIsCounted`, `EachEventIsInOnePlace`, `UpstreamIsNotSeconded`,
  `IncidentsAreLinked`, and from the algorithms `StoresAgreeOnImpact` and `MajorityDecides`, for any handlers,
  harvests and buffer. The account of losses and the division of events are
  inductive together with the types and with what a handler's position says of its harvest, its batch and
  the events it still has to look at: a batch is in hand only while it is written, and an alert of a harvest is
  still to come or its pair is claimed, which is what `UpstreamIsNotSeconded` rests on. For `IncidentsAreLinked`
  it says of a correlator what its answers so far mean: a pair found related was linked in a graph of its `views`, a
  pair found unrelated missed each direction in one, and the graph there is now is always among them.
  Before these, the module proves three algorithms to compute what they are meant to, for every graph, window and
  list of findings. `ImpactAgrees`: whatever is reached in exactly so many steps, the breadth-first walk has
  seen by then, so the two walks of the graph differ in the origin alone. `MajorityIsTheNormal`: a window
  whose majority is one value has that value for its median, so the baseline calls nothing else normal.
  `IncidentsAreComponents`: when the double loop ends, two findings have one representative exactly if a chain of
  compared and related findings links them; a component is taken as what every equivalence that holds of the
  related pairs holds of. The loops are runs of a counter; `RunExists` gives the recursive function its
  values once, and `EveryNumber` is the induction they share.
* `GatewayProofs`: `TypeOK`, `BreakerHolds`, `EverySpendIsAccounted`, `ConversationIsBounded` and
  `RepeatedAnswersStand`, for any number of threads, choices and providers. `BreakerInv` ties a breaker's
  count, its opening and the last unheard failure together: one that was closed for a probe is one
  failure short of opening again. `AccountInv` says who is charging an account, alone until two charges
  overlap, and what it will write. `Knows` is what a request's position implies of its calls and
  tokens; `CacheInv` that every entry stands for its key.
* `PlatformProofs`: `TypeOK`, `MembershipsAgree`, `InviteWorks`, `ProgressIsKept` and `OneWinner`, for any number of requests of every
  kind at work on one store, wherever they die. None of the three after the type invariant is about one step: a membership is two
  documents written apart, a company and its code two more. The invariant says of every request what is
  still ahead of it, position by position (`Fits`): a call is plain, touching none of these documents; or one
  half of a change of a membership, the member's document before its mirror, under the topic the request is
  `about`; or a company saved with its new code's document behind it; or a result saved alone. With it stands what the
  store holds meanwhile: of a membership nobody works on, both documents alike (`Memberships`); of the company's code, its document,
  unless the request that will write it still has to (`CodeIsGood`, `CodeIsKept`); of a record about to be saved, that
  it forgets nothing of the one stored (`PassIsKept`, `BestIsKept`). Thirty actions reduce to six kinds of
  step (`NextSteps`: a request begins, writes, deletes, ends, decides further calls, or nothing of this moves),
  and each conjunct is shown to survive the six.
  `OneWinner` has an invariant of its own (`AccountInv`). Every call ahead of a request is `Tame`, doing nothing to
  an address but what the request is `about`; or it belongs to a sign-up, which is at one of three stages: about to write the
  account, to claim the address (the one conditional write of the store), or, having lost, to take the account
  back (`MakesAt`, `ClaimsAt`, `TakesBackAt`). Until its claim is made nobody else knows of the account: no document, no other request's
  call and no deletion names it (`Unknown`). So the only accounts without their address are those still
  signing up, those being deleted, and those whose address was crossed (`KeysAreKept`). What takes an
  address away does so from an account that is being deleted, and what gives one away without asking finds nobody's
  (`DropsOwn`, `GivesFree`).
  `TypeOK` rests on `FieldInv`: it says of the calls still ahead of every request what it says of the documents, that a value about to be
  saved has the fields its readers take, and that whatever is named has been given out (`Fielded`, `Sound`). Fields once
  good stay good as more ids are given out (`FieldedLater`), which is why a request may save long after it read.
* `FeedProofs`: `SeededIsWhole`, `CursorFollowsTheWrite` and `IndexIsComplete`, for any feeds, limits, publishers and
  scenarios, any number of polls, rebuilding readers and starting containers at once, and deaths anywhere. The first two say of a
  document that others are stored with it, and both rest on the order of one request's calls. The invariant says of every call ahead
  of a request what it needs, and that by its turn it will be there (`Before`): in the store, or by an
  earlier call of the same request. An incident needs its entity, edge and signal, the marker every incident and an
  audit record of each, and a cursor the entries up to it (`Reached`), but for those that are `Excused`: older than the
  first window, tied with a stored entry, or listed after one and yet older. A fetch that is still to be made was told a
  cursor of which the same holds. What publishers list later, and a window that moves on, only excuse more
  (`PublishStep`). This is kept because documents of these kinds are written once:
  under one key every call puts the same value, and an id is given out once (`NoneDiffer`). Of what a fetch
  answers, the proof uses that no fresh entry ahead of one it lists is missing (`AnswerFacts`), whatever it does with ties.
  `IndexIsComplete` has an invariant of its own (`IndexInv`). While no request crossed another on a feed, at most one has
  calls ahead that save its events or write its index (`WorkersAreNamed`, `OneWorker`), and it is at one of two
  stages. Before it reads the index, the events it saves are those it fetched, and the index is of
  all the others (`Collects`); once it has merged, what it is about to write is the index of all that
  is stored (`Rewrites`). That a poll reads one feed's cursor after another's work is done (`InTurn`) keeps the stages of its
  feeds apart. Between them stands one fact of lists: the newest of all events are the newest of those that arrived and of the
  newest of the others (`NewestOfRest`), so a list cut to its cap loses nothing that a later merge needs; and
  `MergeRecent` keeps just these, by the rank of each (`RanksNumber`, `MergeFacts`).

**Only model-checked.** The four violated properties, and liveness, which is beyond the prover, as is `ENABLED`: every
invariant and action property of the passing runs is a theorem. The library's induction theorems take an operator and cannot be instantiated by the provers here; what
is proved by induction over numbers (`EveryNumber`) goes through the set of the numbers that have the
property, and induction over other data is not attempted.

## 5. Not modelled, and why

Authentication of approvers, the wording of reasons, reports and pages, and explanation ladders: no
property is about them. Cryptography of seals, passwords, sessions and tokens: each either is accepted
or not. Sealing inside `RemediationLoop`: `Verdicts` has it. A store that appears or disappears while the
process runs, or between restarts: `durable` is fixed for a deployment. The deployment's own domain
rules (containers, revisions beyond the previous one) and actions without an executor beyond their
refusal. Ages of entities: what may be stale may be so at any time. Derived metrics, indicator matching
and Sigma rules: text and arithmetic on single events. Prompts, retrieval and the answers of tools: a
tool returns references. Paging and key layout of the stores, and retention, which deletes by age.
The ranking of hypotheses is numerical, and Smriti's recall is similarity arithmetic over a memory the
service never writes where it reads. `runtime.py` is constructed by nothing the service runs.
Scenario tables, contests, exports, training and serving of models, benchmark, simulators, web console,
Android application, infrastructure and scripts are data, offline code or presentation; they are most
of the repository's lines.

## 6. Plan

1. *Done.* Policy engine, history, verdicts, remediation loop and the abstract loop; perception with buffer,
   baselines and graph; gateway and chat; accounts, feeds, progress and seeding on one store. Proofs of all
   of them.
2. `MembershipsAgree` of overlapping changes, and `OneWinner` across deletions, should the code come to
   order its writes.

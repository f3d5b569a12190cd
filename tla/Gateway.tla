------------------------------ MODULE Gateway -------------------------------
(***************************************************************************)
(* The model gateway (packages/core/pashupatastra/gateway.py), the pair of *)
(* providers behind it (engines/providers/failover.py), and the chat turn  *)
(* that runs on it with its cache of answers (services/api/app/agent).     *)
(*                                                                         *)
(* A gateway belongs to a model choice and is shared by every request for  *)
(* it.  Requests run in threads: the budget is checked, the provider       *)
(* asked, and the tokens charged in separate steps; the breaker's methods  *)
(* are one step each, the charge is a read and a write.                    *)
(***************************************************************************)
EXTENDS Integers, FiniteSets, Functions

CONSTANTS
  Callers,        \* threads that serve requests
  Requests,       \* what each of them may be asked
  Providers,      \* of each model choice: its providers, the primary first
  HasTools,       \* choices whose provider supports tools
  Threshold, Cooldown,   \* CircuitBreaker
  MaxAttempts,    \* Gateway.max_attempts
  Ceiling,        \* Accountant.ceiling_per_incident
  TokenCeiling, MaxHops, \* of one conversation
  Incidents,      \* incident ids
  Evidence,       \* refs that may come into an incident's context
  ToolRefs,       \* refs that its tools return
  Messages,       \* what a provider may say, and at what cost
  MaxRequests,    \* bound: requests served
  MaxTime         \* bound: the clock

None == "none"
Choices == DOMAIN Providers
Prose == [refs |-> {}, answerable |-> FALSE, proposes |-> FALSE, text |-> FALSE]

\* What a message says: the refs it cites are whatever the model wrote.
Cited == UNION {m.says.refs : m \in Messages}
Saying == [refs : SUBSET Cited, answerable : BOOLEAN, proposes : BOOLEAN, text : BOOLEAN]

ASSUME GatewayAssumption ==
  /\ Threshold \in Nat \ {0} /\ Cooldown \in Nat \ {0}
  /\ MaxAttempts \in Nat \ {0}
  /\ TokenCeiling \in Nat \ {0} /\ MaxHops \in Nat
  /\ Ceiling \in Nat /\ MaxRequests \in Nat /\ MaxTime \in Nat
  /\ Messages # {}
  /\ Messages \subseteq [says : Saying, calls : BOOLEAN, tokens : Nat \ {0}]
  /\ None \notin Incidents
  /\ HasTools \subseteq Choices
  /\ \A g \in Choices : 1 \in DOMAIN Providers[g]
  /\ \A c \in Callers : \A r \in Requests[c] :
       /\ r.kind \in {"complete", "chat"} /\ r.choice \in Choices
       /\ r.incident \in Incidents \cup {None}
       /\ r.kind = "chat" => r.incident # None

VARIABLES
  now,       \* the clock
  breaker,   \* of each choice
  spent,     \* Accountant._by_incident of each choice
  answered,  \* FailoverProvider._answered of each choice
  context,   \* the evidence refs of each incident
  cache,     \* AnswerCache
  served,    \* requests begun
  call,      \* what each caller is doing
  consumed,  \* history: tokens of answered calls, until two charges overlap
  raced,     \* history: two charges of one incident have overlapped
  tripped    \* history: the last failure since a breaker opened unheard, or -1

shared == <<breaker, spent, answered, context, cache>>
vars == <<now, shared, served, call, consumed, raced, tripped>>

Idle ==
  [pc |-> "idle", req |-> [kind |-> None], key |-> <<>>, hop |-> 0, used |-> 0, sent |-> 0,
   seen |-> 0, avail |-> {}, formatting |-> FALSE, truncated |-> FALSE, says |-> Prose,
   calls |-> FALSE, cached |-> FALSE]

\* A request that is over is forgotten.
Ends(c, how) == call' = [call EXCEPT ![c] = [Idle EXCEPT !.pc = how]]

Req(c) == call[c].req
Choice(c) == Req(c).choice

NoTokens == [g \in Choices |-> [i \in Incidents |-> 0]]

Over == {"done", "failed"}
Busy == {"enter", "asking", "charge", "verify"}

-----------------------------------------------------------------------------
\* CircuitBreaker.is_open, and what asking leaves behind.
IsOpen(b) == b.openedAt # -1 /\ now - b.openedAt < Cooldown

\* Slip: a half-open breaker starts counting from nothing.
ProbedClean(b) ==
  IF b.openedAt # -1 /\ ~IsOpen(b) THEN [failures |-> 0, openedAt |-> -1] ELSE b

Probed(b) ==
  IF b.openedAt # -1 /\ ~IsOpen(b) THEN [failures |-> Threshold - 1, openedAt |-> -1] ELSE b

Succeeded == [failures |-> 0, openedAt |-> -1]

\* record_failure.  Beyond the threshold no value of the count differs from
\* another, and it is not counted on.
Failed(b) ==
  IF b.failures + 1 < Threshold THEN [b EXCEPT !.failures = @ + 1]
  ELSE [failures |-> Threshold, openedAt |-> now]

\* A request that one schema-bound call answers: the reasoner's, the general
\* question's, and a chat on a provider without tools.
OneShot(r) == r.kind = "complete" \/ r.choice \notin HasTools

\* Accountant.check.
Exhausted(r) == r.incident # None /\ spent[r.choice][r.incident] >= Ceiling

-----------------------------------------------------------------------------
Init ==
  /\ now = 0
  /\ breaker = [g \in Choices |-> Succeeded]
  /\ spent = NoTokens
  /\ answered = [g \in Choices |-> Providers[g][1]]
  /\ context = [i \in Incidents |-> {}]
  /\ cache = [k \in {} |-> <<>>]
  /\ served = 0
  /\ call = [c \in Callers |-> Idle]
  /\ consumed = NoTokens
  /\ raced = FALSE
  /\ tripped = [g \in Choices |-> -1]

history == <<consumed, raced, tripped>>

Tick ==
  /\ now < MaxTime /\ now' = now + 1
  /\ UNCHANGED <<shared, served, call, history>>

\* An incident that is still open comes by more evidence.
Grow ==
  /\ \E i \in Incidents, e \in Evidence :
       e \notin context[i] /\ context' = [context EXCEPT ![i] = @ \cup {e}]
  /\ UNCHANGED <<now, breaker, spent, answered, cache, served, call, history>>

\* Slip: the digest leaves the evidence out.
KeyOfQuestion(r) == <<r.incident, r.question, answered[r.choice]>>

\* answer_cache.key.  The instructions are the same for every question.
Key(r) == <<r.incident, r.question, answered[r.choice], context[r.incident]>>

Fresh(r) == [Idle EXCEPT !.pc = "enter", !.req = r]

Hit(r) == Key(r) \in DOMAIN cache /\ ~cache[Key(r)].says.proposes

\* A route takes a request for the model.
Begin(c, r) ==
  /\ call[c].pc \notin Busy /\ served < MaxRequests
  /\ served' = served + 1
  /\ r.kind = "chat" => ~Hit(r)
  /\ call' = [call EXCEPT ![c] =
       IF r.kind = "chat"
         THEN [Fresh(r) EXCEPT !.key = Key(r), !.avail = context[r.incident]]
         ELSE Fresh(r)]
  /\ UNCHANGED <<now, shared, history>>

\* A question somebody had answered is answered from the cache, unless the
\* answer proposes an action.
Repeat(c, r) ==
  /\ call[c].pc \notin Busy /\ served < MaxRequests
  /\ served' = served + 1
  /\ r.kind = "chat" /\ Hit(r)
  /\ LET hit == cache[Key(r)]
     IN call' = [call EXCEPT ![c] =
          [Fresh(r) EXCEPT !.pc = "done", !.key = Key(r), !.cached = TRUE, !.says = hit.says,
                           !.avail = hit.avail, !.truncated = hit.truncated]]
  /\ UNCHANGED <<now, shared, history>>

\* The budget and the breaker.  complete asks the budget first; a chat that
\* falls back to it has asked the breaker before; one with tools never asks
\* the budget.
Enter(c) ==
  /\ call[c].pc = "enter"
  /\ LET r == Req(c)
         b == breaker[r.choice]
         over == OneShot(r) /\ Exhausted(r)
     IN /\ breaker' = [breaker EXCEPT ![r.choice] =
                         IF over /\ r.kind = "complete" THEN b ELSE Probed(b)]
        /\ IF over \/ IsOpen(b) THEN Ends(c, "failed")
           ELSE call' = [call EXCEPT ![c].pc = "asking"]
  /\ UNCHANGED <<now, spent, answered, context, cache, served, history>>

Asks(c) == call[c].pc = "asking"

\* Slip: what failed is called again from the top, budget and breaker first.
CallsItself(c) ==
  IF OneShot(Req(c)) THEN call' = [call EXCEPT ![c].pc = "enter"] ELSE Ends(c, "failed")

\* One more attempt of complete, or the end of it.  A conversation does not
\* try again.
TriesAgain(c) ==
  IF OneShot(Req(c)) /\ call[c].sent + 1 < MaxAttempts
    THEN call' = [call EXCEPT ![c].sent = @ + 1]
    ELSE Ends(c, "failed")

\* No provider answered.  The call that only asks for the format is not seen
\* by the breaker.
Unavailable(c) ==
  /\ Asks(c)
  /\ IF call[c].formatting THEN UNCHANGED <<breaker, tripped>>
     ELSE LET b == Failed(breaker[Choice(c)])
          IN /\ breaker' = [breaker EXCEPT ![Choice(c)] = b]
             /\ tripped' = [tripped EXCEPT ![Choice(c)] = IF b.openedAt = -1 /\ @ = -1 THEN @ ELSE now]
  /\ TriesAgain(c)
  /\ UNCHANGED <<now, spent, answered, context, cache, served, consumed, raced>>

\* The provider's own validation of a one-shot answer fails: not an outage,
\* and what it cost is charged to nobody.
Violates(c) ==
  /\ Asks(c) /\ OneShot(Req(c))
  /\ TriesAgain(c)
  /\ UNCHANGED <<now, shared, served, history>>

Charging(g, i) ==
  {d \in Callers : call[d].pc = "charge" /\ Choice(d) = g /\ Req(d).incident = i}

Account(r) == IF r.incident = None THEN 0 ELSE spent[r.choice][r.incident]

\* A provider answers and the breaker sees it, unless it only formats; the
\* charge has read what the incident has spent.
Answers(c, p, m) ==
  /\ Asks(c) /\ p \in Range(Providers[Choice(c)])
  /\ OneShot(Req(c)) => ~m.calls /\ m.says # Prose
  /\ call[c].formatting => ~m.calls
  /\ LET r == Req(c)
     IN /\ answered' = [answered EXCEPT ![r.choice] = p]
        /\ IF call[c].formatting THEN UNCHANGED <<breaker, tripped>>
           ELSE /\ breaker' = [breaker EXCEPT ![r.choice] = Succeeded]
                /\ tripped' = [tripped EXCEPT ![r.choice] = -1]
        /\ raced' = (raced \/ Charging(r.choice, r.incident) # {})
        /\ consumed' = IF raced' THEN NoTokens
                       ELSE IF r.incident = None THEN consumed
                       ELSE [consumed EXCEPT ![r.choice][r.incident] = @ + m.tokens]
        /\ call' = [call EXCEPT ![c].pc = "charge", ![c].says = m.says, ![c].calls = m.calls,
                                ![c].used = @ + m.tokens, ![c].sent = @ + 1,
                                ![c].seen = Account(r) + m.tokens]
  /\ UNCHANGED <<now, spent, context, cache, served>>

\* Slip: the call that formats is on the house.
ChargedTalk(c) ==
  spent' = IF Req(c).incident = None \/ call[c].formatting THEN spent
           ELSE [spent EXCEPT ![Choice(c)][Req(c).incident] = call[c].seen]

\* Accountant.record writes.
Charged(c) ==
  spent' = IF Req(c).incident = None THEN spent
           ELSE [spent EXCEPT ![Choice(c)][Req(c).incident] = call[c].seen]

\* Slip: tools are offered on every hop.
AlwaysLooksUp(c) == call[c].calls

\* On the last hop no tools are offered: a message that calls them all the
\* same is taken for the answer.
LooksUp(c) == call[c].calls /\ call[c].hop < MaxHops

RanOut == [refs |-> {}, answerable |-> FALSE, proposes |-> FALSE, text |-> TRUE]

\* Slip: the ceiling is looked at before the last call is counted.
SpendsOn(c, used) == used < 2 * TokenCeiling

\* The next hop's look at the conversation's own ceiling.
MayGoOn(c, used) == used < TokenCeiling

\* Every call is dispatched if its tool was offered and refused otherwise;
\* what the tools return may be cited from here on.
LookUp(c, refs) ==
  /\ call[c].pc = "charge" /\ LooksUp(c)
  /\ Charged(c)
  /\ call' = [call EXCEPT ![c].avail = @ \cup refs, ![c].hop = @ + 1, ![c].seen = 0,
                          ![c].calls = FALSE,
                          ![c].pc = IF MayGoOn(c, call[c].used) THEN "asking" ELSE "verify",
                          ![c].truncated = ~MayGoOn(c, call[c].used),
                          ![c].says = IF MayGoOn(c, call[c].used) THEN Prose ELSE RanOut]
  /\ UNCHANGED <<now, breaker, answered, context, cache, served, history>>

\* A message that is no structured answer is asked for once more on its own;
\* if it is none even then, the request fails.
Format(c) ==
  /\ call[c].pc = "charge" /\ ~LooksUp(c) /\ call[c].says = Prose
  /\ Charged(c)
  /\ IF call[c].formatting THEN Ends(c, "failed")
     ELSE call' = [call EXCEPT ![c].pc = "asking", ![c].formatting = TRUE, ![c].seen = 0,
                               ![c].truncated = call[c].calls, ![c].calls = FALSE]
  /\ UNCHANGED <<now, breaker, answered, context, cache, served, history>>

Conclude(c) ==
  /\ call[c].pc = "charge" /\ ~LooksUp(c) /\ call[c].says # Prose
  /\ Charged(c)
  /\ IF Req(c).kind = "complete" THEN Ends(c, "done")
     ELSE call' = [call EXCEPT ![c].pc = "verify", ![c].seen = 0, ![c].calls = FALSE,
                               ![c].truncated = @ \/ call[c].calls]
  /\ UNCHANGED <<now, breaker, answered, context, cache, served, history>>

-----------------------------------------------------------------------------
Kept(m, avail) == m.refs \cap avail

Withheld(m, avail) == m.answerable /\ Kept(m, avail) = {} /\ m.text

WorthRepeating(m, avail, truncated) ==
  (Kept(m, avail) # {} \/ ~m.answerable) /\ ~truncated /\ ~m.proposes

\* The citations are checked, what cites nothing is withheld, and what is
\* worth repeating is cached under the key computed before the call.
Verify(c) ==
  /\ call[c].pc = "verify"
  /\ LET m == call[c].says
         avail == call[c].avail
         reply == [m EXCEPT !.refs = Kept(m, avail), !.text = m.text /\ ~Withheld(m, avail)]
         entry == [says |-> reply, avail |-> avail, truncated |-> call[c].truncated]
     IN cache' = IF WorthRepeating(m, avail, call[c].truncated)
                   THEN [k \in DOMAIN cache \cup {call[c].key} |->
                           IF k = call[c].key THEN entry ELSE cache[k]]
                   ELSE cache
  /\ Ends(c, "done")
  /\ UNCHANGED <<now, breaker, spent, answered, context, served, history>>

Works(c) ==
  \/ Enter(c) \/ Unavailable(c) \/ Violates(c) \/ Format(c) \/ Conclude(c) \/ Verify(c)
  \/ \E p \in Range(Providers[Choice(c)]), m \in Messages : Answers(c, p, m)
  \/ \E refs \in SUBSET ToolRefs : LookUp(c, refs)

Next ==
  \/ \E c \in Callers : call[c].pc \in Busy /\ Works(c)
  \/ \E c \in Callers : \E r \in Requests[c] : Begin(c, r) \/ Repeat(c, r)
  \/ Tick \/ Grow

Spec == Init /\ [][Next]_vars

\* A thread that serves a request runs on, and every post to a provider
\* returns, fails or times out.
FairSpec == Spec /\ \A c \in Callers : WF_vars(call[c].pc \in Busy /\ Works(c))

-----------------------------------------------------------------------------
TypeOK ==
  /\ now \in 0..MaxTime /\ served \in 0..MaxRequests
  /\ \A g \in Choices :
       /\ breaker[g].failures \in 0..Threshold /\ breaker[g].openedAt \in -1..now
       /\ answered[g] \in Range(Providers[g])
       /\ \A i \in Incidents : spent[g][i] \in Nat
  /\ \A c \in Callers :
       /\ call[c].pc \in Busy \cup Over \cup {"idle"}
       /\ call[c].hop \in 0..MaxHops /\ call[c].sent \in Nat /\ call[c].used \in Nat

\* "A hung model call must not hang an incident" (CircuitBreaker): from the
\* failure that opened the breaker until a provider answers again, a request
\* is let through only a full cooldown after the last failure, whichever
\* requests were under way meanwhile.
BreakerHolds ==
  [][\A c \in Callers : call[c].pc = "enter" /\ call'[c].pc = "asking" =>
       tripped[Choice(c)] = -1 \/ now - tripped[Choice(c)] >= Cooldown]_vars

\* "A first-class metric from the first call" (Accountant): as long as no two
\* charges of one incident overlapped, every answer of a provider is on its
\* incident's account, once: retries, hops, formatting and fallback included.
EverySpendIsAccounted ==
  ~raced => \A g \in Choices, i \in Incidents :
    consumed[g][i] = IF Charging(g, i) = {} THEN spent[g][i]
                     ELSE call[CHOOSE c \in Charging(g, i) : TRUE].seen

\* "Every rule about the loop: the budget, the hop limit" (converse): whatever
\* the model says, a conversation posts at most one call per hop and one for
\* the format, and overruns its ceiling by less than two calls.
ConversationIsBounded ==
  \A c \in Callers : Asks(c) =>
    IF OneShot(Req(c)) THEN call[c].sent < MaxAttempts
    ELSE /\ call[c].sent < MaxHops + 2
         /\ \E m \in Messages : call[c].used < TokenCeiling + m.tokens

\* "A cache that answers a question nobody asked is indistinguishable from a
\* model that hallucinated" (cache.py): a reply from the cache was given to
\* the same question by a conversation that had all the evidence the asker's
\* would have, cites what that conversation saw, is complete, and proposes
\* nothing that would have to be queued.
RepeatedAnswersStand ==
  [][\A c \in Callers : call'[c] # call[c] /\ call'[c].cached =>
       LET said == call'[c].says
       IN /\ call'[c].key[1] = Req(c)'.incident /\ call'[c].key[2] = Req(c)'.question
          /\ context[Req(c)'.incident] \subseteq call'[c].avail
          /\ said.refs \subseteq call'[c].avail /\ (said.answerable => said.refs # {})
          /\ ~call'[c].truncated /\ ~said.proposes]_vars

\* "The system goes quiet precisely when something is wrong, and the silence
\* looks like calm" (CircuitBreaker): every request is answered or refused.
RequestsEnd ==
  \A c \in Callers : (call[c].pc \in Busy) ~> (call[c].pc \in Over)

=============================================================================

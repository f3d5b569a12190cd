---------------------------- MODULE GatewayProofs ----------------------------
(***************************************************************************)
(* What holds of the gateway for any number of threads and model choices,  *)
(* whatever providers say and however often they fail.                     *)
(*                                                                         *)
(* The inductive invariant says of each request under way what it has      *)
(* established where it is; of each breaker how its count, its opening and *)
(* the last failure are tied together; of each account who is charging it; *)
(* of each cached answer that it stands.                                   *)
(***************************************************************************)
EXTENDS Gateway, TLAPS

AllRequests == (UNION {Requests[c] : c \in Callers}) \cup {Idle.req}
Questions == {r.question : r \in AllRequests}
Answerers == UNION {Range(Providers[g]) : g \in Choices}
Keys == {<<>>} \cup (Incidents \X Questions \X Answerers \X SUBSET Evidence)
Refs == Evidence \cup ToolRefs

CallType ==
  [pc : Busy \cup Over \cup {"idle"}, req : AllRequests, key : Keys,
   hop : 0..MaxHops, used : Nat, sent : Nat, seen : Nat, avail : SUBSET Refs,
   formatting : BOOLEAN, truncated : BOOLEAN, says : Saying, calls : BOOLEAN,
   cached : BOOLEAN]

TypeInv ==
  /\ now \in 0..MaxTime /\ served \in 0..MaxRequests
  /\ breaker \in [Choices -> [failures : 0..Threshold, openedAt : Int]]
  /\ tripped \in [Choices -> Int]
  /\ spent \in [Choices -> [Incidents -> Nat]]
  /\ consumed \in [Choices -> [Incidents -> Nat]]
  /\ raced \in BOOLEAN
  /\ answered \in [Choices -> Answerers]
  /\ \A g \in Choices : answered[g] \in Range(Providers[g])
  /\ context \in [Incidents -> SUBSET Evidence]
  /\ call \in [Callers -> CallType]

\* The ceiling is overrun by less than a message.
Affordable(used) == \E m \in Messages : used < TokenCeiling + m.tokens

\* What the request of k, served by c, has established where it is.
Knows(c, k) ==
  /\ k.pc \in Busy =>
       /\ k.req \in Requests[c] /\ ~k.cached
       /\ k.req.kind = "chat" => k.key[4] \subseteq k.avail
  /\ k.pc = "enter" => k.sent = 0 /\ k.used = 0 /\ ~k.formatting
  /\ k.pc = "asking" =>
       IF OneShot(k.req) THEN k.sent < MaxAttempts
       ELSE /\ Affordable(k.used)
            /\ IF k.formatting THEN k.sent <= k.hop + 1
               ELSE k.sent <= k.hop /\ k.used < TokenCeiling
  /\ k.pc = "charge" =>
       IF OneShot(k.req) THEN ~k.calls /\ k.says # Prose
       ELSE IF k.formatting THEN ~k.calls
       ELSE k.sent <= k.hop + 1 /\ Affordable(k.used)
  /\ k.pc = "verify" => k.req.kind = "chat"

\* Of each breaker: a closed one has counted less than the threshold, and one
\* that was closed for a probe is one failure short of it.
BreakerInv ==
  \A g \in Choices :
    LET b == breaker[g]
        t == tripped[g]
    IN /\ b.openedAt \in -1..now /\ t \in -1..now
       /\ b.openedAt = -1 =>
            /\ b.failures < Threshold
            /\ t # -1 => b.failures = Threshold - 1 /\ now - t >= Cooldown
       /\ b.openedAt # -1 => b.failures = Threshold /\ t = b.openedAt

\* Of each account: it is up to date, or one request is about to bring it so.
AccountInv ==
  ~raced => \A g \in Choices, i \in Incidents :
    IF Charging(g, i) = {} THEN spent[g][i] = consumed[g][i]
    ELSE \E c \in Callers : Charging(g, i) = {c} /\ call[c].seen = consumed[g][i]

\* Of each cached answer: it stands on its own conversation.
Stands(k, e) ==
  /\ e.says \in Saying /\ e.avail \in SUBSET Refs
  /\ k[4] \subseteq e.avail
  /\ e.says.refs \subseteq e.avail
  /\ e.says.answerable => e.says.refs # {}
  /\ ~e.says.proposes /\ e.truncated = FALSE

CacheInv == \A k \in DOMAIN cache : Stands(k, cache[k])

IInv ==
  /\ TypeInv
  /\ \A c \in Callers : Knows(c, call[c])
  /\ BreakerInv /\ AccountInv /\ CacheInv

\* Only the request of c moves.
Moves(c) == call' = [call EXCEPT ![c] = call'[c]]

-----------------------------------------------------------------------------
\* The messages a provider may send are typed, and so is what stands for none.
LEMMA SayingFacts ==
  /\ Prose \in Saying /\ RanOut \in Saying
  /\ \A m \in Messages : m.says \in Saying /\ m.calls \in BOOLEAN /\ m.tokens \in Nat \ {0}
  BY GatewayAssumption DEF Prose, RanOut, Saying

\* A thread that serves nothing: the record every request starts from.
LEMMA IdleFacts ==
  /\ Idle \in CallType
  /\ \A how \in Over : [Idle EXCEPT !.pc = how] \in CallType
                       /\ [Idle EXCEPT !.pc = how].pc = how
  <1>1. Idle \in CallType
    BY SayingFacts, GatewayAssumption
    DEF Idle, CallType, AllRequests, Keys, Busy, Over
  <1>2. \A how \in Over : [Idle EXCEPT !.pc = how] \in CallType
    BY <1>1 DEF CallType
  <1>3. \A how \in Over : [Idle EXCEPT !.pc = how].pc = how
    BY DEF Idle
  <1> QED BY <1>1, <1>2, <1>3

\* What concerns one request is all that its step has to establish.
LEMMA OthersKeep ==
  ASSUME IInv, NEW c \in Callers, Moves(c), Knows(c, call'[c])
  PROVE  \A d \in Callers : Knows(d, call'[d])
  <1>1. \A d \in Callers : d # c => call'[d] = call[d]
    BY DEF IInv, TypeInv, Moves
  <1> QED BY <1>1 DEF IInv

\* A request that ends knows nothing.
LEMMA EndsKnows ==
  ASSUME IInv, NEW c \in Callers, NEW how \in Over, Ends(c, how)
  PROVE  /\ Moves(c) /\ call'[c] \in CallType /\ call'[c].pc = how
         /\ Knows(c, call'[c])
  <1>1. call \in [Callers -> CallType]
    BY DEF IInv, TypeInv
  <1>2. call'[c] = [Idle EXCEPT !.pc = how] /\ Moves(c)
    BY <1>1 DEF Ends, Moves
  <1>3. call'[c] \in CallType /\ call'[c].pc = how
    BY <1>2, IdleFacts
  <1>4. Knows(c, call'[c])
    BY <1>3 DEF Knows, Busy, Over
  <1> QED BY <1>2, <1>3, <1>4

LEMMA CallTyped ==
  ASSUME IInv, NEW c \in Callers, Moves(c), call'[c] \in CallType
  PROVE  call' \in [Callers -> CallType]
  BY DEF IInv, TypeInv, Moves

\* Breakers that nobody touches stay as they are.
LEMMA BreakersKept ==
  ASSUME IInv, UNCHANGED <<now, breaker, tripped>>
  PROVE  BreakerInv'
  BY DEF IInv, BreakerInv

\* So do accounts, as long as the request that moves charges neither before
\* nor after.
LEMMA AccountsKept ==
  ASSUME IInv, NEW c \in Callers, Moves(c),
         call[c].pc # "charge", call'[c].pc # "charge",
         UNCHANGED <<spent, consumed, raced>>
  PROVE  AccountInv'
  <1>1. \A d \in Callers : d # c => call'[d] = call[d]
    BY DEF IInv, TypeInv, Moves
  <1>2. \A g \in Choices, i \in Incidents : Charging(g, i)' = Charging(g, i)
    BY <1>1 DEF Charging, Choice, Req
  <1>3. \A g \in Choices, i \in Incidents : c \notin Charging(g, i)
    BY DEF Charging
  <1> QED BY <1>1, <1>2, <1>3 DEF IInv, AccountInv

\* A charge that is written brings its account up to date.
LEMMA AccountCharged ==
  ASSUME IInv, NEW c \in Callers, Moves(c),
         call[c].pc = "charge", call'[c].pc # "charge",
         Charged(c), UNCHANGED <<consumed, raced>>
  PROVE  /\ spent' \in [Choices -> [Incidents -> Nat]]
         /\ AccountInv'
  <1> DEFINE gc == Choice(c)
             ic == Req(c).incident
  <1>1. /\ spent \in [Choices -> [Incidents -> Nat]] /\ call[c] \in CallType
        /\ gc \in Choices /\ ic \in Incidents \cup {None}
    BY GatewayAssumption DEF IInv, TypeInv, Knows, Busy, Choice, Req
  <1>2. call[c].seen \in Nat
    BY <1>1 DEF CallType
  <1>3. spent' \in [Choices -> [Incidents -> Nat]]
    BY <1>1, <1>2 DEF Charged
  <1>4. \A d \in Callers : d # c => call'[d] = call[d]
    BY DEF IInv, TypeInv, Moves
  <1>5. ASSUME ~raced, NEW g \in Choices, NEW i \in Incidents
        PROVE  IF Charging(g, i)' = {} THEN spent'[g][i] = consumed[g][i]
               ELSE \E d \in Callers : Charging(g, i)' = {d} /\ call'[d].seen = consumed[g][i]
    <2>1. Charging(g, i)' = Charging(g, i) \ {c}
      BY <1>4 DEF Charging, Choice, Req
    <2>2. IF Charging(g, i) = {} THEN spent[g][i] = consumed[g][i]
          ELSE \E d \in Callers : Charging(g, i) = {d} /\ call[d].seen = consumed[g][i]
      BY <1>5 DEF IInv, AccountInv
    <2>3. CASE g = gc /\ i = ic
      <3>1. c \in Charging(g, i)
        BY <2>3 DEF Charging
      <3>2. Charging(g, i) = {c} /\ call[c].seen = consumed[g][i]
        BY <2>2, <3>1
      <3>3. i # None
        BY GatewayAssumption
      <3>4. spent'[g][i] = call[c].seen
        BY <1>1, <2>3, <3>3 DEF Charged
      <3> QED BY <2>1, <3>2, <3>4
    <2>4. CASE ~(g = gc /\ i = ic)
      <3>1. c \notin Charging(g, i)
        BY <2>4 DEF Charging
      <3>2. Charging(g, i)' = Charging(g, i)
        BY <2>1, <3>1
      <3>3. spent'[g][i] = spent[g][i]
        BY <1>1, <2>4 DEF Charged
      <3>4. \A d \in Charging(g, i) : call'[d] = call[d]
        BY <1>4, <3>1 DEF Charging
      <3> QED BY <2>2, <3>2, <3>3, <3>4
    <2> QED BY <2>3, <2>4
  <1> QED BY <1>3, <1>5 DEF AccountInv

-----------------------------------------------------------------------------
\* The steps of the environment: time passes, evidence comes in.
LEMMA TickStep == ASSUME IInv, Tick PROVE IInv'
  <1>1. TypeInv'
    BY GatewayAssumption DEF IInv, TypeInv, Tick, shared, history
  <1>2. BreakerInv'
    <2>1. now \in Nat /\ now' = now + 1 /\ UNCHANGED <<breaker, tripped>>
      BY GatewayAssumption DEF IInv, TypeInv, Tick, shared, history
    <2>2. ASSUME NEW g \in Choices
          PROVE  breaker[g].openedAt \in Int /\ tripped[g] \in Int
      BY DEF IInv, TypeInv
    <2> QED BY <2>1, <2>2, GatewayAssumption DEF IInv, BreakerInv
  <1>3. AccountInv' /\ CacheInv' /\ \A c \in Callers : Knows(c, call[c])'
    BY DEF IInv, Tick, shared, history, AccountInv, Charging, Choice, Req, CacheInv
  <1> QED BY <1>1, <1>2, <1>3 DEF IInv, Tick, shared

LEMMA GrowStep == ASSUME IInv, Grow PROVE IInv'
  <1>1. TypeInv'
    BY DEF IInv, TypeInv, Grow, history
  <1>2. BreakerInv' /\ AccountInv' /\ CacheInv' /\ \A c \in Callers : Knows(c, call[c])'
    BY DEF IInv, Grow, history, BreakerInv, AccountInv, Charging, Choice, Req, CacheInv
  <1> QED BY <1>1, <1>2 DEF IInv

\* A request begins with the context of its incident before it.
LEMMA KeyTyped ==
  ASSUME IInv, NEW c \in Callers, NEW r \in Requests[c], r.kind = "chat"
  PROVE  /\ Key(r) \in Keys /\ Key(r)[4] = context[r.incident]
         /\ context[r.incident] \in SUBSET Evidence
  <1>1. r.incident \in Incidents /\ r.choice \in Choices /\ r \in AllRequests
    BY GatewayAssumption DEF AllRequests
  <1>2. context[r.incident] \in SUBSET Evidence /\ answered[r.choice] \in Answerers
    BY <1>1 DEF IInv, TypeInv
  <1>3. r.question \in Questions
    BY <1>1 DEF Questions
  <1> QED BY <1>1, <1>2, <1>3 DEF Key, Keys

LEMMA BeginStep ==
  ASSUME IInv, NEW c \in Callers, NEW r \in Requests[c], Begin(c, r)
  PROVE  IInv'
  <1> DEFINE k == IF r.kind = "chat"
                    THEN [Fresh(r) EXCEPT !.key = Key(r), !.avail = context[r.incident]]
                    ELSE Fresh(r)
  <1>1. /\ call[c].pc \notin Busy /\ served' = served + 1 /\ served < MaxRequests
        /\ call' = [call EXCEPT ![c] = k]
        /\ UNCHANGED <<now, breaker, spent, answered, context, cache, consumed, raced, tripped>>
    BY DEF Begin, shared, history
  <1>2. Fresh(r) \in CallType /\ Fresh(r).pc = "enter" /\ Fresh(r).req = r
        /\ Fresh(r).sent = 0 /\ Fresh(r).used = 0 /\ ~Fresh(r).formatting /\ ~Fresh(r).cached
    <2>1. r \in AllRequests
      BY DEF AllRequests
    <2> QED BY <2>1, IdleFacts DEF Fresh, CallType, Busy, Idle
  <1>3. /\ k \in CallType /\ k.pc = "enter" /\ k.req = r
        /\ k.sent = 0 /\ k.used = 0 /\ ~k.formatting /\ ~k.cached
        /\ r.kind = "chat" => k.key[4] \subseteq k.avail
    <2>1. CASE r.kind = "chat"
      <3>1. Key(r) \in Keys /\ Key(r)[4] = context[r.incident] /\ context[r.incident] \in SUBSET Refs
        BY <2>1, KeyTyped DEF Refs
      <3> HIDE DEF Keys
      <3> QED BY <1>2, <2>1, <3>1 DEF CallType
    <2>2. CASE r.kind # "chat"
      BY <1>2, <2>2
    <2> QED BY <2>1, <2>2
  <1>4. call'[c] = k /\ Moves(c)
    BY <1>1 DEF IInv, TypeInv, Moves
  <1>5. Knows(c, call'[c])
    BY <1>3, <1>4 DEF Knows, Busy
  <1>6. TypeInv'
    <2>1. call' \in [Callers -> CallType]
      BY <1>3, <1>4, CallTyped
    <2> QED BY <1>1, <2>1, GatewayAssumption DEF IInv, TypeInv
  <1>7. AccountInv'
    BY <1>1, <1>3, <1>4, AccountsKept DEF Busy
  <1>8. BreakerInv' /\ CacheInv'
    BY <1>1, BreakersKept DEF IInv, CacheInv
  <1> QED BY <1>4, <1>5, <1>6, <1>7, <1>8, OthersKeep DEF IInv

LEMMA RepeatStep ==
  ASSUME IInv, NEW c \in Callers, NEW r \in Requests[c], Repeat(c, r)
  PROVE  IInv'
  <1> DEFINE hit == cache[Key(r)]
             k == [Fresh(r) EXCEPT !.pc = "done", !.key = Key(r), !.cached = TRUE,
                                   !.says = hit.says, !.avail = hit.avail,
                                   !.truncated = hit.truncated]
  <1>1. /\ call[c].pc \notin Busy /\ served' = served + 1 /\ served < MaxRequests
        /\ r.kind = "chat" /\ Key(r) \in DOMAIN cache
        /\ call' = [call EXCEPT ![c] = k]
        /\ UNCHANGED <<now, breaker, spent, answered, context, cache, consumed, raced, tripped>>
    BY DEF Repeat, Hit, shared, history
  <1>2. Fresh(r) \in CallType
    <2>1. r \in AllRequests
      BY DEF AllRequests
    <2> QED BY <2>1, IdleFacts DEF Fresh, CallType, Busy
  <1>3. Key(r) \in Keys /\ hit.says \in Saying /\ hit.avail \in SUBSET Refs /\ hit.truncated = FALSE
    BY <1>1, KeyTyped DEF IInv, CacheInv, Stands
  <1>4. k \in CallType /\ k.pc = "done"
    BY <1>2, <1>3 DEF CallType, Over
  <1>5. call'[c] = k /\ Moves(c)
    BY <1>1 DEF IInv, TypeInv, Moves
  <1>6. Knows(c, call'[c])
    BY <1>4, <1>5 DEF Knows, Busy
  <1>7. TypeInv'
    <2>1. call' \in [Callers -> CallType]
      BY <1>4, <1>5, CallTyped
    <2> QED BY <1>1, <2>1, GatewayAssumption DEF IInv, TypeInv
  <1>8. AccountInv'
    BY <1>1, <1>4, <1>5, AccountsKept DEF Busy
  <1>9. BreakerInv' /\ CacheInv'
    BY <1>1, BreakersKept DEF IInv, CacheInv
  <1> QED BY <1>5, <1>6, <1>7, <1>8, <1>9, OthersKeep DEF IInv

-----------------------------------------------------------------------------
\* What is known of a request under way: it was asked of its thread, for a
\* choice there is.
LEMMA UnderWay ==
  ASSUME IInv, NEW c \in Callers, call[c].pc \in Busy
  PROVE  /\ call[c] \in CallType /\ Knows(c, call[c])
         /\ Req(c) = call[c].req /\ Req(c) \in Requests[c]
         /\ Choice(c) = Req(c).choice /\ Choice(c) \in Choices
         /\ Req(c).kind \in {"complete", "chat"}
         /\ Req(c).incident \in Incidents \cup {None}
  <1>1. call[c] \in CallType /\ Knows(c, call[c])
    BY DEF IInv, TypeInv
  <1>2. call[c].req \in Requests[c]
    BY <1>1 DEF Knows
  <1> QED BY <1>1, <1>2, GatewayAssumption DEF Req, Choice

\* A step of c after which it knows what it must, and which leaves the
\* accounts, the cache and the world alone.
LEMMA StepPreserves ==
  ASSUME IInv, NEW c \in Callers, Moves(c), call'[c] \in CallType, Knows(c, call'[c]),
         BreakerInv', AccountInv', CacheInv',
         breaker' \in [Choices -> [failures : 0..Threshold, openedAt : Int]],
         tripped' \in [Choices -> Int],
         spent' \in [Choices -> [Incidents -> Nat]],
         consumed' \in [Choices -> [Incidents -> Nat]], raced' \in BOOLEAN,
         answered' \in [Choices -> Answerers],
         \A g \in Choices : answered'[g] \in Range(Providers[g]),
         UNCHANGED <<now, served, context>>
  PROVE  IInv'
  <1>1. TypeInv'
    BY CallTyped DEF IInv, TypeInv
  <1> QED BY <1>1, OthersKeep DEF IInv

\* What a breaker knows through a failure, an answer and a question.
BreakerTyped(b) == b \in [failures : 0..Threshold, openedAt : Int]

LEMMA BreakerMoves ==
  ASSUME IInv, NEW g \in Choices, NEW b, NEW t,
         breaker' = [breaker EXCEPT ![g] = b], tripped' = [tripped EXCEPT ![g] = t],
         now' = now, BreakerTyped(b), t \in -1..now, b.openedAt \in -1..now,
         b.openedAt = -1 =>
           /\ b.failures < Threshold
           /\ t # -1 => b.failures = Threshold - 1 /\ now - t >= Cooldown,
         b.openedAt # -1 => b.failures = Threshold /\ t = b.openedAt
  PROVE  /\ BreakerInv'
         /\ breaker' \in [Choices -> [failures : 0..Threshold, openedAt : Int]]
         /\ tripped' \in [Choices -> Int]
  <1>1. /\ breaker \in [Choices -> [failures : 0..Threshold, openedAt : Int]]
        /\ tripped \in [Choices -> Int] /\ now \in Nat
    BY GatewayAssumption DEF IInv, TypeInv
  <1>2. breaker'[g] = b /\ tripped'[g] = t
    BY <1>1
  <1>3. \A h \in Choices : h # g => breaker'[h] = breaker[h] /\ tripped'[h] = tripped[h]
    BY <1>1
  <1>4. BreakerInv'
    <2>1. ASSUME NEW h \in Choices, h # g
          PROVE  /\ breaker'[h].openedAt \in -1..now' /\ tripped'[h] \in -1..now'
                 /\ breaker'[h].openedAt = -1 =>
                      /\ breaker'[h].failures < Threshold
                      /\ tripped'[h] # -1 =>
                           breaker'[h].failures = Threshold - 1 /\ now' - tripped'[h] >= Cooldown
                 /\ breaker'[h].openedAt # -1 =>
                      breaker'[h].failures = Threshold /\ tripped'[h] = breaker'[h].openedAt
      BY <1>3, <2>1 DEF IInv, BreakerInv
    <2> QED BY <1>2, <2>1 DEF BreakerInv
  <1> QED BY <1>1, <1>4 DEF BreakerTyped

LEMMA ProbedMoves ==
  ASSUME IInv, NEW g \in Choices, now' = now, UNCHANGED tripped,
         breaker' = [breaker EXCEPT ![g] = Probed(breaker[g])]
  PROVE  /\ BreakerInv'
         /\ breaker' \in [Choices -> [failures : 0..Threshold, openedAt : Int]]
  <1> DEFINE b == Probed(breaker[g])
             t == tripped[g]
  <1>1. /\ breaker[g] \in [failures : 0..Threshold, openedAt : Int] /\ now \in Nat
        /\ tripped' = [tripped EXCEPT ![g] = t]
        /\ Threshold \in Nat \ {0} /\ Cooldown \in Nat \ {0}
    BY GatewayAssumption DEF IInv, TypeInv
  <1>2. /\ breaker[g].openedAt \in -1..now /\ t \in -1..now
        /\ breaker[g].openedAt = -1 =>
             /\ breaker[g].failures < Threshold
             /\ t # -1 => breaker[g].failures = Threshold - 1 /\ now - t >= Cooldown
        /\ breaker[g].openedAt # -1 => breaker[g].failures = Threshold /\ t = breaker[g].openedAt
    BY DEF IInv, BreakerInv
  <1>3. /\ BreakerTyped(b) /\ b.openedAt \in -1..now
        /\ b.openedAt = -1 =>
             /\ b.failures < Threshold
             /\ t # -1 => b.failures = Threshold - 1 /\ now - t >= Cooldown
        /\ b.openedAt # -1 => b.failures = Threshold /\ t = b.openedAt
    BY <1>1, <1>2 DEF BreakerTyped, Probed, IsOpen
  <1> QED BY <1>1, <1>2, <1>3, BreakerMoves

LEMMA EnterStep == ASSUME IInv, NEW c \in Callers, Enter(c) PROVE IInv'
  <1>1. /\ call[c].pc = "enter" /\ call[c].pc \in Busy
        /\ UNCHANGED <<now, spent, answered, context, cache, served, consumed, raced, tripped>>
    BY DEF Enter, history, Busy
  <1>2. call[c] \in CallType /\ Knows(c, call[c]) /\ Req(c) \in Requests[c] /\ Choice(c) \in Choices
    BY <1>1, UnderWay
  <1>3. BreakerInv' /\ breaker' \in [Choices -> [failures : 0..Threshold, openedAt : Int]]
    <2>1. CASE breaker' = [breaker EXCEPT ![Choice(c)] = breaker[Choice(c)]]
      <3>1. breaker' = breaker
        BY <2>1 DEF IInv, TypeInv
      <3> QED BY <1>1, <3>1, BreakersKept DEF IInv, TypeInv
    <2>2. CASE breaker' = [breaker EXCEPT ![Choice(c)] = Probed(breaker[Choice(c)])]
      BY <1>1, <1>2, <2>2, ProbedMoves
    <2> QED BY <2>1, <2>2 DEF Enter, Choice
  <1>4. Moves(c) /\ call'[c] \in CallType /\ call'[c].pc # "charge" /\ Knows(c, call'[c])
    <2>1. CASE Ends(c, "failed")
      BY <2>1, EndsKnows DEF Over
    <2>2. CASE call' = [call EXCEPT ![c].pc = "asking"]
      <3>1. call'[c] = [call[c] EXCEPT !.pc = "asking"] /\ Moves(c)
        BY <2>2 DEF IInv, TypeInv, Moves
      <3>2. call'[c] \in CallType
        BY <1>2, <3>1 DEF CallType, Busy
      <3>3. /\ call'[c].pc = "asking" /\ call'[c].req = call[c].req /\ call'[c].sent = 0
            /\ call'[c].used = 0 /\ ~call'[c].formatting /\ ~call'[c].cached
            /\ call'[c].key = call[c].key /\ call'[c].avail = call[c].avail
            /\ call'[c].hop = call[c].hop /\ call[c].hop \in Nat
        BY <1>1, <1>2, <3>1, GatewayAssumption DEF CallType, Knows
      <3>4. Affordable(0)
        BY SayingFacts, GatewayAssumption DEF Affordable
      <3>5. Knows(c, call'[c])
        BY <1>1, <1>2, <3>3, <3>4, GatewayAssumption DEF Knows, Busy
      <3> QED BY <3>1, <3>2, <3>3, <3>5
    <2> QED BY <2>1, <2>2 DEF Enter
  <1>5. AccountInv'
    BY <1>1, <1>4, AccountsKept
  <1>6. CacheInv'
    BY <1>1 DEF IInv, CacheInv
  <1> QED BY <1>1, <1>3, <1>4, <1>5, <1>6, StepPreserves DEF IInv, TypeInv

-----------------------------------------------------------------------------
\* One more attempt, or the end: what Unavailable and Violates share.
LEMMA TriesAgainMoves ==
  ASSUME IInv, NEW c \in Callers, Asks(c), TriesAgain(c)
  PROVE  Moves(c) /\ call'[c] \in CallType /\ call'[c].pc # "charge" /\ Knows(c, call'[c])
  <1>1. call[c].pc = "asking" /\ call[c].pc \in Busy
    BY DEF Asks, Busy
  <1>2. call[c] \in CallType /\ Knows(c, call[c]) /\ Req(c) = call[c].req
    BY <1>1, UnderWay
  <1>3. CASE Ends(c, "failed")
    BY <1>3, EndsKnows DEF Over
  <1>4. CASE /\ OneShot(Req(c)) /\ call[c].sent + 1 < MaxAttempts
             /\ call' = [call EXCEPT ![c].sent = @ + 1]
    <2>1. call'[c] = [call[c] EXCEPT !.sent = @ + 1] /\ Moves(c)
      BY <1>4 DEF IInv, TypeInv, Moves
    <2>2. call'[c] \in CallType
      BY <1>2, <2>1 DEF CallType
    <2>3. /\ call'[c].pc = "asking" /\ call'[c].req = call[c].req
          /\ call'[c].sent = call[c].sent + 1 /\ ~call'[c].cached = ~call[c].cached
          /\ call'[c].key = call[c].key /\ call'[c].avail = call[c].avail
      BY <1>1, <1>2, <2>1 DEF CallType
    <2>4. Knows(c, call'[c])
      BY <1>1, <1>2, <1>4, <2>3 DEF Knows, Busy
    <2> QED BY <2>1, <2>2, <2>3, <2>4
  <1> QED BY <1>3, <1>4 DEF TriesAgain

LEMMA FailedMoves ==
  ASSUME IInv, NEW g \in Choices, now' = now,
         breaker' = [breaker EXCEPT ![g] = Failed(breaker[g])],
         tripped' = [tripped EXCEPT ![g] =
                       IF Failed(breaker[g]).openedAt = -1 /\ @ = -1 THEN @ ELSE now]
  PROVE  /\ BreakerInv'
         /\ breaker' \in [Choices -> [failures : 0..Threshold, openedAt : Int]]
         /\ tripped' \in [Choices -> Int]
  <1> DEFINE b == Failed(breaker[g])
             t == IF b.openedAt = -1 /\ tripped[g] = -1 THEN tripped[g] ELSE now
  <1>1. /\ breaker[g] \in [failures : 0..Threshold, openedAt : Int] /\ now \in Nat
        /\ tripped \in [Choices -> Int]
        /\ Threshold \in Nat \ {0} /\ Cooldown \in Nat \ {0}
    BY GatewayAssumption DEF IInv, TypeInv
  <1>2. /\ breaker[g].openedAt \in -1..now /\ tripped[g] \in -1..now
        /\ breaker[g].openedAt = -1 =>
             /\ breaker[g].failures < Threshold
             /\ tripped[g] # -1 =>
                  breaker[g].failures = Threshold - 1 /\ now - tripped[g] >= Cooldown
        /\ breaker[g].openedAt # -1 =>
             breaker[g].failures = Threshold /\ tripped[g] = breaker[g].openedAt
    BY DEF IInv, BreakerInv
  <1>3. tripped' = [tripped EXCEPT ![g] = t]
    BY <1>1
  <1>4. CASE breaker[g].failures + 1 < Threshold
    <2>1. b = [breaker[g] EXCEPT !.failures = @ + 1]
      BY <1>4 DEF Failed
    <2>2. /\ breaker[g].openedAt = -1 /\ tripped[g] = -1
          /\ b.failures = breaker[g].failures + 1 /\ b.openedAt = -1 /\ BreakerTyped(b)
      BY <1>1, <1>2, <1>4, <2>1 DEF BreakerTyped
    <2>3. t = -1 /\ b.failures < Threshold /\ -1 \in -1..now
      BY <1>1, <1>4, <2>2
    <2>4. breaker' = [breaker EXCEPT ![g] = b] /\ tripped' = [tripped EXCEPT ![g] = t]
      BY <1>3
    <2> HIDE DEF b, t
    <2>5. /\ t \in -1..now /\ b.openedAt \in -1..now
          /\ b.openedAt = -1 =>
               /\ b.failures < Threshold
               /\ t # -1 => b.failures = Threshold - 1 /\ now - t >= Cooldown
          /\ b.openedAt # -1 => b.failures = Threshold /\ t = b.openedAt
      BY <2>2, <2>3
    <2> QED BY <2>2, <2>4, <2>5, BreakerMoves
  <1>5. CASE ~(breaker[g].failures + 1 < Threshold)
    <2>1. b = [failures |-> Threshold, openedAt |-> now]
      BY <1>5 DEF Failed
    <2>2. b.failures = Threshold /\ b.openedAt = now /\ t = now /\ BreakerTyped(b)
      BY <1>1, <2>1 DEF BreakerTyped
    <2>3. now \in -1..now /\ now # -1
      BY <1>1
    <2> QED BY <1>1, <1>3, <2>2, <2>3, BreakerMoves
  <1> QED BY <1>4, <1>5

LEMMA UnavailableStep == ASSUME IInv, NEW c \in Callers, Unavailable(c) PROVE IInv'
  <1>1. /\ Asks(c) /\ TriesAgain(c) /\ call[c].pc = "asking" /\ call[c].pc \in Busy
        /\ UNCHANGED <<now, spent, answered, context, cache, served, consumed, raced>>
    BY DEF Unavailable, Asks, Busy
  <1>2. Moves(c) /\ call'[c] \in CallType /\ call'[c].pc # "charge" /\ Knows(c, call'[c])
    BY <1>1, TriesAgainMoves
  <1>3. /\ BreakerInv'
        /\ breaker' \in [Choices -> [failures : 0..Threshold, openedAt : Int]]
        /\ tripped' \in [Choices -> Int]
    <2>1. CASE call[c].formatting
      <3>1. UNCHANGED <<now, breaker, tripped>>
        BY <1>1, <2>1 DEF Unavailable
      <3> QED BY <3>1, BreakersKept DEF IInv, TypeInv
    <2>2. CASE ~call[c].formatting
      <3>1. Choice(c) \in Choices
        BY <1>1, UnderWay
      <3>2. /\ breaker' = [breaker EXCEPT ![Choice(c)] = Failed(breaker[Choice(c)])]
            /\ tripped' = [tripped EXCEPT ![Choice(c)] =
                             IF Failed(breaker[Choice(c)]).openedAt = -1 /\ @ = -1 THEN @ ELSE now]
        BY <2>2 DEF Unavailable
      <3> HIDE DEF Choice
      <3> QED BY <1>1, <3>1, <3>2, FailedMoves
    <2> QED BY <2>1, <2>2
  <1>4. AccountInv'
    BY <1>1, <1>2, AccountsKept
  <1>5. CacheInv'
    BY <1>1 DEF IInv, CacheInv
  <1> QED BY <1>1, <1>2, <1>3, <1>4, <1>5, StepPreserves DEF IInv, TypeInv

LEMMA ViolatesStep == ASSUME IInv, NEW c \in Callers, Violates(c) PROVE IInv'
  <1>1. /\ Asks(c) /\ TriesAgain(c) /\ call[c].pc = "asking"
        /\ UNCHANGED <<now, breaker, spent, answered, context, cache, served, consumed, raced, tripped>>
    BY DEF Violates, Asks, shared, history
  <1>2. Moves(c) /\ call'[c] \in CallType /\ call'[c].pc # "charge" /\ Knows(c, call'[c])
    BY <1>1, TriesAgainMoves
  <1>3. BreakerInv' /\ AccountInv' /\ CacheInv'
    BY <1>1, <1>2, AccountsKept, BreakersKept DEF IInv, CacheInv
  <1> QED BY <1>1, <1>2, <1>3, StepPreserves DEF IInv, TypeInv

-----------------------------------------------------------------------------
\* An answer: the breaker forgets, the caller is about to charge.
LEMMA AnswersStep ==
  ASSUME IInv, NEW c \in Callers, NEW p \in Range(Providers[Choice(c)]), NEW m \in Messages,
         Answers(c, p, m)
  PROVE  IInv'
  <1> DEFINE g == Choice(c)
             i == Req(c).incident
             k == [call[c] EXCEPT !.pc = "charge", !.says = m.says, !.calls = m.calls,
                                  !.used = @ + m.tokens, !.sent = @ + 1,
                                  !.seen = Account(Req(c)) + m.tokens]
  <1>1. /\ Asks(c) /\ call[c].pc = "asking" /\ call[c].pc \in Busy
        /\ UNCHANGED <<now, spent, context, cache, served>>
        /\ OneShot(Req(c)) => ~m.calls /\ m.says # Prose
        /\ call[c].formatting => ~m.calls
        /\ answered' = [answered EXCEPT ![g] = p]
        /\ call' = [call EXCEPT ![c] = k]
    BY DEF Answers, Asks, Busy, Choice
  <1>2. /\ call[c] \in CallType /\ Knows(c, call[c]) /\ Req(c) = call[c].req
        /\ Req(c) \in Requests[c] /\ g = Req(c).choice /\ g \in Choices
        /\ i \in Incidents \cup {None}
    BY <1>1, UnderWay
  <1>3. /\ m.says \in Saying /\ m.calls \in BOOLEAN /\ m.tokens \in Nat \ {0}
    BY SayingFacts
  <1>4. Account(Req(c)) \in Nat
    BY <1>2 DEF Account, IInv, TypeInv
  <1>5. k \in CallType
    <2>1. call[c].used + m.tokens \in Nat /\ call[c].sent + 1 \in Nat
          /\ Account(Req(c)) + m.tokens \in Nat
      BY <1>2, <1>3, <1>4 DEF CallType
    <2> QED BY <1>2, <1>3, <2>1 DEF CallType, Busy
  <1>6. call'[c] = k /\ Moves(c)
    BY <1>1 DEF IInv, TypeInv, Moves
  <1>7. /\ k.pc = "charge" /\ k.req = Req(c) /\ k.sent = call[c].sent + 1
        /\ k.used = call[c].used + m.tokens /\ k.says = m.says /\ k.calls = m.calls
        /\ k.formatting = call[c].formatting /\ k.cached = call[c].cached
        /\ k.key = call[c].key /\ k.avail = call[c].avail /\ k.hop = call[c].hop
        /\ k.seen = Account(Req(c)) + m.tokens
    BY <1>2 DEF CallType
  <1>8. Knows(c, k)
    <2>1. call[c].sent \in Nat /\ call[c].used \in Nat /\ call[c].hop \in Nat
      BY <1>2, GatewayAssumption DEF CallType
    <2>2. call[c].used < TokenCeiling => Affordable(k.used)
      BY <1>3, <1>7, <2>1, GatewayAssumption DEF Affordable
    <2> QED BY <1>1, <1>2, <1>7, <2>1, <2>2 DEF Knows, Busy
  <1>9. /\ BreakerInv'
        /\ breaker' \in [Choices -> [failures : 0..Threshold, openedAt : Int]]
        /\ tripped' \in [Choices -> Int]
    <2>1. CASE call[c].formatting
      <3>1. UNCHANGED <<now, breaker, tripped>>
        BY <1>1, <2>1 DEF Answers
      <3> QED BY <3>1, BreakersKept DEF IInv, TypeInv
    <2>2. CASE ~call[c].formatting
      <3>1. /\ breaker' = [breaker EXCEPT ![g] = Succeeded]
            /\ tripped' = [tripped EXCEPT ![g] = -1]
        BY <2>2 DEF Answers, Choice
      <3>2. /\ BreakerTyped(Succeeded) /\ Succeeded.openedAt = -1 /\ Succeeded.failures < Threshold
            /\ -1 \in -1..now
        BY GatewayAssumption DEF Succeeded, BreakerTyped, IInv, TypeInv
      <3> QED BY <1>1, <1>2, <3>1, <3>2, BreakerMoves
    <2> QED BY <2>1, <2>2
  <1>10. /\ raced' \in BOOLEAN /\ consumed' \in [Choices -> [Incidents -> Nat]]
         /\ AccountInv'
    <2>1. /\ raced' = (raced \/ Charging(g, i) # {})
          /\ consumed' = IF raced' THEN NoTokens
                         ELSE IF i = None THEN consumed
                         ELSE [consumed EXCEPT ![g][i] = @ + m.tokens]
      BY <1>2 DEF Answers, Choice
    <2>2. /\ spent \in [Choices -> [Incidents -> Nat]] /\ consumed \in [Choices -> [Incidents -> Nat]]
          /\ raced \in BOOLEAN
      BY DEF IInv, TypeInv
    <2>3. NoTokens \in [Choices -> [Incidents -> Nat]]
      BY DEF NoTokens
    <2>4. raced' \in BOOLEAN /\ consumed' \in [Choices -> [Incidents -> Nat]]
      BY <1>2, <1>3, <2>1, <2>2, <2>3
    <2>5. \A d \in Callers : d # c => call'[d] = call[d]
      BY <1>1 DEF IInv, TypeInv
    <2>6. ASSUME ~raced', NEW h \in Choices, NEW j \in Incidents
          PROVE  IF Charging(h, j)' = {} THEN spent'[h][j] = consumed'[h][j]
                 ELSE \E d \in Callers :
                        Charging(h, j)' = {d} /\ call'[d].seen = consumed'[h][j]
      <3>1. ~raced /\ Charging(g, i) = {}
        BY <2>1, <2>6
      <3>2. IF Charging(h, j) = {} THEN spent[h][j] = consumed[h][j]
            ELSE \E d \in Callers : Charging(h, j) = {d} /\ call[d].seen = consumed[h][j]
        BY <3>1 DEF IInv, AccountInv
      <3>3. CASE h = g /\ j = i
        <4>1. Charging(h, j)' = {c}
          <5>1. c \in Charging(h, j)'
            BY <1>2, <1>6, <1>7, <3>3 DEF Charging, Choice, Req
          <5>2. \A d \in Callers : d # c => (d \in Charging(h, j)' <=> d \in Charging(h, j))
            BY <2>5 DEF Charging, Choice, Req
          <5>3. Charging(h, j)' \subseteq Callers /\ Charging(h, j) = {}
            BY <3>1, <3>3 DEF Charging
          <5> QED BY <5>1, <5>2, <5>3
        <4>2. j # None
          BY GatewayAssumption
        <4>3. spent[h][j] = consumed[h][j]
          BY <3>1, <3>2, <3>3
        <4>4. consumed'[h][j] = consumed[h][j] + m.tokens
          BY <1>2, <2>1, <2>2, <2>6, <3>3, <4>2
        <4>5. call'[c].seen = spent[h][j] + m.tokens
          BY <1>2, <1>6, <1>7, <3>3, <4>2 DEF Account
        <4> QED BY <4>1, <4>3, <4>4, <4>5
      <3>4. CASE ~(h = g /\ j = i)
        <4>1. c \notin Charging(h, j) /\ c \notin Charging(h, j)'
          BY <1>1, <1>2, <1>6, <1>7, <3>4 DEF Charging, Choice, Req
        <4>2. Charging(h, j)' = Charging(h, j)
          BY <2>5, <4>1 DEF Charging, Choice, Req
        <4>3. consumed'[h][j] = consumed[h][j]
          BY <1>2, <2>1, <2>2, <2>6, <3>4
        <4>4. \A d \in Charging(h, j) : call'[d] = call[d]
          BY <2>5, <4>1 DEF Charging
        <4> QED BY <1>1, <3>2, <4>2, <4>3, <4>4
      <3> QED BY <3>3, <3>4
    <2> QED BY <2>4, <2>6 DEF AccountInv
  <1>11. CacheInv'
    BY <1>1 DEF IInv, CacheInv
  <1>12. answered' \in [Choices -> Answerers] /\ \A h \in Choices : answered'[h] \in Range(Providers[h])
    <2>1. p \in Answerers
      BY <1>2 DEF Answerers
    <2> QED BY <1>1, <1>2, <2>1 DEF IInv, TypeInv
  <1> QED BY <1>1, <1>5, <1>6, <1>8, <1>9, <1>10, <1>11, <1>12, StepPreserves DEF IInv, TypeInv

-----------------------------------------------------------------------------
\* What a step that writes a charge shares: it needs to say only what the
\* request does next.
LEMMA ChargeStep ==
  ASSUME IInv, NEW c \in Callers, Moves(c), Charged(c), call[c].pc = "charge",
         call'[c] \in CallType, call'[c].pc # "charge", Knows(c, call'[c]),
         UNCHANGED <<now, breaker, answered, context, cache, served, consumed, raced, tripped>>
  PROVE  IInv'
  <1>1. spent' \in [Choices -> [Incidents -> Nat]] /\ AccountInv'
    BY AccountCharged
  <1>2. BreakerInv' /\ CacheInv'
    BY BreakersKept DEF IInv, CacheInv
  <1> QED BY <1>1, <1>2, StepPreserves DEF IInv, TypeInv

\* A request that is not one-shot is a chat.
LEMMA ChatUnlessOneShot ==
  ASSUME IInv, NEW c \in Callers, call[c].pc \in Busy, ~OneShot(Req(c))
  PROVE  Req(c).kind = "chat"
  BY UnderWay DEF OneShot

LEMMA LookUpStep ==
  ASSUME IInv, NEW c \in Callers, NEW refs \in SUBSET ToolRefs, LookUp(c, refs)
  PROVE  IInv'
  <1> DEFINE on == MayGoOn(c, call[c].used)
             k == [call[c] EXCEPT !.avail = @ \cup refs, !.hop = @ + 1, !.seen = 0,
                                  !.calls = FALSE,
                                  !.pc = IF on THEN "asking" ELSE "verify",
                                  !.truncated = ~on,
                                  !.says = IF on THEN Prose ELSE RanOut]
  <1>1. /\ call[c].pc = "charge" /\ call[c].pc \in Busy /\ call[c].calls /\ call[c].hop < MaxHops
        /\ Charged(c) /\ call' = [call EXCEPT ![c] = k]
        /\ UNCHANGED <<now, breaker, answered, context, cache, served, consumed, raced, tripped>>
    BY DEF LookUp, LooksUp, Busy, history
  <1>2. call[c] \in CallType /\ Knows(c, call[c]) /\ Req(c) = call[c].req
    BY <1>1, UnderWay
  <1>3. k \in CallType
    <2>1. call[c].hop + 1 \in 0..MaxHops /\ call[c].avail \cup refs \in SUBSET Refs
      BY <1>1, <1>2, GatewayAssumption DEF CallType, Refs
    <2>2. on \in BOOLEAN
      BY DEF MayGoOn
    <2>3. 0 \in Nat /\ Prose \in Saying /\ RanOut \in Saying
      BY SayingFacts
    <2> HIDE DEF on
    <2> QED BY <1>2, <2>1, <2>2, <2>3 DEF CallType, Busy
  <1>4. call'[c] = k /\ Moves(c)
    BY <1>1 DEF IInv, TypeInv, Moves
  <1>5. /\ k.pc = (IF on THEN "asking" ELSE "verify") /\ k.req = call[c].req
        /\ k.sent = call[c].sent /\ k.used = call[c].used /\ k.hop = call[c].hop + 1
        /\ k.formatting = call[c].formatting /\ k.cached = call[c].cached
        /\ k.key = call[c].key /\ call[c].avail \subseteq k.avail
    BY <1>2 DEF CallType
  <1>6. ~OneShot(call[c].req) /\ ~call[c].formatting /\ Req(c).kind = "chat"
    BY <1>1, <1>2, ChatUnlessOneShot DEF Knows
  <1>7. Knows(c, k)
    <2>1. on <=> k.used < TokenCeiling
      BY <1>5 DEF MayGoOn
    <2>2. call[c].sent <= call[c].hop + 1 /\ Affordable(call[c].used)
      BY <1>1, <1>2, <1>6 DEF Knows
    <2>3. call[c].req \in Requests[c] /\ ~call[c].cached /\ call[c].key[4] \subseteq call[c].avail
      BY <1>1, <1>2, <1>6 DEF Knows
    <2> HIDE DEF on, k
    <2> QED BY <1>2, <1>5, <1>6, <2>1, <2>2, <2>3 DEF Knows, Busy
  <1> HIDE DEF k
  <1>8. k.pc # "charge"
    BY <1>5
  <1> QED BY <1>1, <1>3, <1>4, <1>7, <1>8, ChargeStep

LEMMA FormatStep == ASSUME IInv, NEW c \in Callers, Format(c) PROVE IInv'
  <1>1. /\ call[c].pc = "charge" /\ call[c].pc \in Busy /\ call[c].says = Prose
        /\ Charged(c)
        /\ UNCHANGED <<now, breaker, answered, context, cache, served, consumed, raced, tripped>>
    BY DEF Format, Busy, history
  <1>2. call[c] \in CallType /\ Knows(c, call[c]) /\ Req(c) = call[c].req
    BY <1>1, UnderWay
  <1>3. CASE Ends(c, "failed")
    BY <1>1, <1>3, EndsKnows, ChargeStep DEF Over
  <1>4. CASE ~call[c].formatting
    <2> DEFINE k == [call[c] EXCEPT !.pc = "asking", !.formatting = TRUE, !.seen = 0,
                                    !.truncated = call[c].calls, !.calls = FALSE]
    <2>1. call'[c] = k /\ Moves(c)
      BY <1>4 DEF Format, IInv, TypeInv, Moves
    <2>2. k \in CallType
      BY <1>2 DEF CallType, Busy
    <2>3. /\ k.pc = "asking" /\ k.req = call[c].req /\ k.sent = call[c].sent
          /\ k.used = call[c].used /\ k.hop = call[c].hop /\ k.formatting = TRUE
          /\ k.cached = call[c].cached /\ k.key = call[c].key /\ k.avail = call[c].avail
      BY <1>2 DEF CallType
    <2> HIDE DEF k
    <2>4. Knows(c, k)
      BY <1>1, <1>2, <1>4, <2>3 DEF Knows, Busy
    <2> QED BY <1>1, <2>1, <2>2, <2>3, <2>4, ChargeStep
  <1> QED BY <1>3, <1>4 DEF Format

LEMMA ConcludeStep == ASSUME IInv, NEW c \in Callers, Conclude(c) PROVE IInv'
  <1>1. /\ call[c].pc = "charge" /\ call[c].pc \in Busy
        /\ Charged(c)
        /\ UNCHANGED <<now, breaker, answered, context, cache, served, consumed, raced, tripped>>
    BY DEF Conclude, Busy, history
  <1>2. call[c] \in CallType /\ Knows(c, call[c]) /\ Req(c) = call[c].req
        /\ Req(c).kind \in {"complete", "chat"}
    BY <1>1, UnderWay
  <1>3. CASE Ends(c, "done")
    BY <1>1, <1>3, EndsKnows, ChargeStep DEF Over
  <1>4. CASE Req(c).kind # "complete"
    <2> DEFINE k == [call[c] EXCEPT !.pc = "verify", !.seen = 0, !.calls = FALSE,
                                    !.truncated = @ \/ call[c].calls]
    <2>1. call'[c] = k /\ Moves(c)
      BY <1>4 DEF Conclude, IInv, TypeInv, Moves
    <2>2. k \in CallType
      <3>1. (call[c].truncated \/ call[c].calls) \in BOOLEAN
        OBVIOUS
      <3> QED BY <1>2, <3>1 DEF CallType, Busy
    <2>3. /\ k.pc = "verify" /\ k.req = call[c].req /\ k.cached = call[c].cached
          /\ k.key = call[c].key /\ k.avail = call[c].avail
      BY <1>2 DEF CallType
    <2> HIDE DEF k
    <2>4. Knows(c, k)
      BY <1>1, <1>2, <1>4, <2>3 DEF Knows, Busy
    <2> QED BY <1>1, <2>1, <2>2, <2>3, <2>4, ChargeStep
  <1> QED BY <1>3, <1>4 DEF Conclude

\* What is worth repeating stands on what its conversation had.
LEMMA VerifyStep == ASSUME IInv, NEW c \in Callers, Verify(c) PROVE IInv'
  <1> DEFINE m == call[c].says
             avail == call[c].avail
             reply == [m EXCEPT !.refs = Kept(m, avail), !.text = m.text /\ ~Withheld(m, avail)]
             entry == [says |-> reply, avail |-> avail, truncated |-> call[c].truncated]
  <1>1. /\ call[c].pc = "verify" /\ call[c].pc \in Busy /\ Ends(c, "done")
        /\ UNCHANGED <<now, breaker, spent, answered, context, served, consumed, raced, tripped>>
        /\ cache' = IF WorthRepeating(m, avail, call[c].truncated)
                      THEN [k \in DOMAIN cache \cup {call[c].key} |->
                              IF k = call[c].key THEN entry ELSE cache[k]]
                      ELSE cache
    BY DEF Verify, Busy, history
  <1>2. call[c] \in CallType /\ Knows(c, call[c]) /\ Req(c) = call[c].req
    BY <1>1, UnderWay
  <1>3. Moves(c) /\ call'[c] \in CallType /\ call'[c].pc = "done" /\ Knows(c, call'[c])
    BY <1>1, EndsKnows DEF Over
  <1>4. CacheInv'
    <2>1. /\ m \in Saying /\ avail \in SUBSET Refs /\ call[c].truncated \in BOOLEAN
          /\ call[c].key[4] \subseteq avail
      BY <1>1, <1>2 DEF CallType, Knows
    <2>2. ASSUME WorthRepeating(m, avail, call[c].truncated)
          PROVE  Stands(call[c].key, entry)
      <3>1. /\ Kept(m, avail) # {} \/ ~m.answerable
            /\ ~call[c].truncated /\ ~m.proposes
        BY <2>2 DEF WorthRepeating
      <3>2. Kept(m, avail) \subseteq avail /\ Kept(m, avail) \in SUBSET Cited
        BY <2>1 DEF Kept, Saying
      <3>3. (m.text /\ ~Withheld(m, avail)) \in BOOLEAN
        OBVIOUS
      <3>4. /\ reply \in Saying /\ reply.refs = Kept(m, avail)
            /\ reply.answerable = m.answerable /\ reply.proposes = m.proposes
        BY <2>1, <3>2, <3>3 DEF Saying
      <3> HIDE DEF reply
      <3> QED BY <2>1, <3>1, <3>2, <3>4 DEF Stands
    <2>3. CASE WorthRepeating(m, avail, call[c].truncated)
      <3>1. /\ DOMAIN cache' = DOMAIN cache \cup {call[c].key}
            /\ cache'[call[c].key] = entry
            /\ \A k \in DOMAIN cache : k # call[c].key => cache'[k] = cache[k]
        BY <1>1, <2>3
      <3> HIDE DEF entry
      <3> QED BY <2>2, <2>3, <3>1 DEF IInv, CacheInv
    <2>4. CASE ~WorthRepeating(m, avail, call[c].truncated)
      BY <1>1, <2>4 DEF IInv, CacheInv
    <2> QED BY <2>3, <2>4
  <1>5. BreakerInv' /\ AccountInv'
    BY <1>1, <1>3, AccountsKept, BreakersKept
  <1> QED BY <1>1, <1>3, <1>4, <1>5, StepPreserves DEF IInv, TypeInv

-----------------------------------------------------------------------------
\* Every step of every request preserves what is known of all of them.
LEMMA WorksStep ==
  ASSUME IInv, NEW c \in Callers, call[c].pc \in Busy, Works(c)
  PROVE  IInv'
  <1>1. CASE Enter(c)
    BY <1>1, EnterStep
  <1>2. CASE Unavailable(c)
    BY <1>2, UnavailableStep
  <1>3. CASE Violates(c)
    BY <1>3, ViolatesStep
  <1>4. CASE Format(c)
    BY <1>4, FormatStep
  <1>5. CASE Conclude(c)
    BY <1>5, ConcludeStep
  <1>6. CASE Verify(c)
    BY <1>6, VerifyStep
  <1>7. ASSUME NEW p \in Range(Providers[Choice(c)]), NEW m \in Messages, Answers(c, p, m)
        PROVE  IInv'
    BY <1>7, AnswersStep
  <1>8. ASSUME NEW refs \in SUBSET ToolRefs, LookUp(c, refs)
        PROVE  IInv'
    BY <1>8, LookUpStep
  <1> QED BY <1>1, <1>2, <1>3, <1>4, <1>5, <1>6, <1>7, <1>8 DEF Works

LEMMA NextStep == ASSUME IInv, [Next]_vars PROVE IInv'
  <1>1. ASSUME NEW c \in Callers, call[c].pc \in Busy, Works(c)
        PROVE  IInv'
    BY <1>1, WorksStep
  <1>2. ASSUME NEW c \in Callers, NEW r \in Requests[c], Begin(c, r) \/ Repeat(c, r)
        PROVE  IInv'
    BY <1>2, BeginStep, RepeatStep
  <1>3. CASE Tick
    BY <1>3, TickStep
  <1>4. CASE Grow
    BY <1>4, GrowStep
  <1>5. CASE UNCHANGED vars
    <2>1. TypeInv' /\ BreakerInv' /\ CacheInv' /\ \A c \in Callers : Knows(c, call[c])'
      BY <1>5 DEF vars, shared, IInv, TypeInv, BreakerInv, CacheInv
    <2>2. AccountInv'
      BY <1>5 DEF vars, shared, IInv, AccountInv, Charging, Choice, Req
    <2> QED BY <2>1, <2>2 DEF IInv
  <1> QED BY <1>1, <1>2, <1>3, <1>4, <1>5 DEF Next

LEMMA InitStep == Init => IInv
  <1> SUFFICES ASSUME Init PROVE IInv
    OBVIOUS
  <1>1. \A g \in Choices : Providers[g][1] \in Range(Providers[g])
    BY GatewayAssumption DEF Range
  <1>2. TypeInv
    <2>1. NoTokens \in [Choices -> [Incidents -> Nat]]
      BY DEF NoTokens
    <2>2. answered \in [Choices -> Answerers] /\ \A g \in Choices : answered[g] \in Range(Providers[g])
      BY <1>1 DEF Init, Answerers
    <2>3. breaker \in [Choices -> [failures : 0..Threshold, openedAt : Int]]
      BY GatewayAssumption DEF Init, Succeeded
    <2>4. call \in [Callers -> CallType]
      BY IdleFacts DEF Init
    <2>5. now \in 0..MaxTime /\ served \in 0..MaxRequests
      BY GatewayAssumption DEF Init
    <2>6. raced \in BOOLEAN
      BY DEF Init
    <2>7. spent \in [Choices -> [Incidents -> Nat]] /\ consumed \in [Choices -> [Incidents -> Nat]]
      BY <2>1 DEF Init
    <2>8. tripped \in [Choices -> Int] /\ context \in [Incidents -> SUBSET Evidence]
      BY DEF Init
    <2> QED BY <2>2, <2>3, <2>4, <2>5, <2>6, <2>7, <2>8 DEF TypeInv
  <1>3. \A c \in Callers : Knows(c, call[c])
    BY DEF Init, Idle, Knows, Busy
  <1>4. BreakerInv
    BY GatewayAssumption DEF Init, BreakerInv, Succeeded
  <1>5. AccountInv
    BY DEF Init, AccountInv, Charging, Idle, NoTokens
  <1>6. CacheInv
    BY DEF Init, CacheInv
  <1> QED BY <1>2, <1>3, <1>4, <1>5, <1>6 DEF IInv

\* Every reachable state satisfies the inductive invariant.
THEOREM GatewayInvariant == Spec => []IInv
  BY InitStep, NextStep, PTL DEF Spec

-----------------------------------------------------------------------------
\* Type correctness: in particular no failure count passes the threshold and
\* no conversation passes its last hop.
THEOREM GatewayTypeCorrect == Spec => []TypeOK
  <1>1. IInv => TypeOK
    BY DEF IInv, TypeInv, TypeOK, BreakerInv, CallType
  <1> QED BY <1>1, GatewayInvariant, PTL

\* As long as no two charges of one incident have overlapped, every answer is
\* on its incident's account, for any number of threads.
THEOREM EverySpendTheorem == Spec => []EverySpendIsAccounted
  <1>1. IInv => EverySpendIsAccounted
    <2> SUFFICES ASSUME IInv, ~raced, NEW g \in Choices, NEW i \in Incidents
                 PROVE  consumed[g][i] =
                          IF Charging(g, i) = {} THEN spent[g][i]
                          ELSE call[CHOOSE c \in Charging(g, i) : TRUE].seen
      BY DEF EverySpendIsAccounted
    <2>1. CASE Charging(g, i) = {}
      BY <2>1 DEF IInv, AccountInv
    <2>2. CASE Charging(g, i) # {}
      <3>1. PICK c \in Callers : Charging(g, i) = {c} /\ call[c].seen = consumed[g][i]
        BY <2>2 DEF IInv, AccountInv
      <3>2. (CHOOSE d \in Charging(g, i) : TRUE) = c
        BY <3>1
      <3> QED BY <2>2, <3>1, <3>2
    <2> QED BY <2>1, <2>2
  <1> QED BY <1>1, GatewayInvariant, PTL

\* A conversation is bounded whatever the model says: in calls by its hops and
\* one for the format, in tokens by its ceiling and less than one message.
THEOREM ConversationTheorem == Spec => []ConversationIsBounded
  <1>1. IInv => ConversationIsBounded
    <2> SUFFICES ASSUME IInv, NEW c \in Callers, Asks(c)
                 PROVE  IF OneShot(Req(c)) THEN call[c].sent < MaxAttempts
                        ELSE /\ call[c].sent < MaxHops + 2
                             /\ \E m \in Messages : call[c].used < TokenCeiling + m.tokens
      BY DEF ConversationIsBounded
    <2>1. call[c].pc = "asking" /\ call[c].pc \in Busy
      BY DEF Asks, Busy
    <2>2. call[c] \in CallType /\ Knows(c, call[c]) /\ Req(c) = call[c].req
      BY <2>1, UnderWay
    <2>3. CASE OneShot(Req(c))
      BY <2>1, <2>2, <2>3 DEF Knows
    <2>4. CASE ~OneShot(Req(c))
      <3>1. Affordable(call[c].used)
        BY <2>1, <2>2, <2>4 DEF Knows
      <3>2. call[c].sent <= call[c].hop + 1
        BY <2>1, <2>2, <2>4 DEF Knows, CallType
      <3>3. call[c].sent \in Nat /\ call[c].hop \in 0..MaxHops /\ MaxHops \in Nat
        BY <2>2, GatewayAssumption DEF CallType
      <3>4. call[c].sent < MaxHops + 2
        BY <3>2, <3>3
      <3> QED BY <2>4, <3>1, <3>4 DEF Affordable
    <2> QED BY <2>3, <2>4
  <1> QED BY <1>1, GatewayInvariant, PTL

-----------------------------------------------------------------------------
\* A request's step moves only that request; none but a repeated one is
\* marked as cached, and only Enter leaves the entrance.
LEMMA WorkMoves ==
  ASSUME IInv, NEW c \in Callers, call[c].pc \in Busy, Works(c)
  PROVE  /\ \A d \in Callers : d # c => call'[d] = call[d]
         /\ ~call'[c].cached
         /\ call[c].pc = "enter" => Enter(c)
  <1>1. /\ call \in [Callers -> CallType] /\ call[c] \in CallType /\ ~call[c].cached
    BY DEF IInv, TypeInv, Knows
  <1>2. ~Idle.cached
    BY DEF Idle
  <1>3. ASSUME NEW how, Ends(c, how)
        PROVE  (\A d \in Callers : d # c => call'[d] = call[d]) /\ ~call'[c].cached
    BY <1>1, <1>2, <1>3, IdleFacts DEF Ends, CallType
  <1>4. CASE Enter(c)
    BY <1>1, <1>3, <1>4 DEF Enter, CallType
  <1>5. CASE Unavailable(c) \/ Violates(c)
    <2>1. TriesAgain(c) /\ call[c].pc = "asking"
      BY <1>5 DEF Unavailable, Violates, Asks
    <2> QED BY <1>1, <1>3, <2>1 DEF TriesAgain, CallType
  <1>6. CASE Format(c)
    BY <1>1, <1>3, <1>6 DEF Format, CallType
  <1>7. CASE Conclude(c)
    BY <1>1, <1>3, <1>7 DEF Conclude, CallType
  <1>8. CASE Verify(c)
    <2>1. Ends(c, "done") /\ call[c].pc = "verify"
      BY <1>8 DEF Verify
    <2> QED BY <1>3, <2>1
  <1>9. ASSUME NEW p \in Range(Providers[Choice(c)]), NEW m \in Messages, Answers(c, p, m)
        PROVE  /\ \A d \in Callers : d # c => call'[d] = call[d]
               /\ ~call'[c].cached /\ call[c].pc = "asking"
    BY <1>1, <1>9 DEF Answers, Asks, CallType
  <1>10. ASSUME NEW refs \in SUBSET ToolRefs, LookUp(c, refs)
         PROVE  /\ \A d \in Callers : d # c => call'[d] = call[d]
                /\ ~call'[c].cached /\ call[c].pc = "charge"
    BY <1>1, <1>10 DEF LookUp, CallType
  <1>11. call[c].pc = "enter" => Enter(c)
    <2>1. call[c].pc = "enter" =>
            ~Unavailable(c) /\ ~Violates(c) /\ ~Format(c) /\ ~Conclude(c) /\ ~Verify(c)
      BY DEF Unavailable, Violates, Asks, Format, Conclude, Verify
    <2> QED BY <1>9, <1>10, <2>1 DEF Works
  <1> QED BY <1>4, <1>5, <1>6, <1>7, <1>8, <1>9, <1>10, <1>11 DEF Works

\* From the failure that opened a breaker until a provider answers again, a
\* request is let through only a cooldown after the last failure.
THEOREM BreakerHoldsTheorem == Spec => BreakerHolds
  <1> DEFINE Held == \A c \in Callers : call[c].pc = "enter" /\ call'[c].pc = "asking" =>
                       tripped[Choice(c)] = -1 \/ now - tripped[Choice(c)] >= Cooldown
  <1>1. IInv /\ [Next]_vars => [Held]_vars
    <2> SUFFICES ASSUME IInv, Next, NEW c \in Callers,
                        call[c].pc = "enter", call'[c].pc = "asking"
                 PROVE  tripped[Choice(c)] = -1 \/ now - tripped[Choice(c)] >= Cooldown
      BY DEF vars, shared
    <2>1. Enter(c)
      <3>1. ASSUME NEW d \in Callers, call[d].pc \in Busy, Works(d)
            PROVE  Enter(c)
        BY <3>1, WorkMoves
      <3>2. ASSUME NEW d \in Callers, NEW r \in Requests[d], Begin(d, r) \/ Repeat(d, r)
            PROVE  FALSE
        <4>1. d # c
          BY <3>2 DEF Begin, Repeat, Busy
        <4>2. call'[c] = call[c]
          BY <3>2, <4>1 DEF Begin, Repeat, IInv, TypeInv
        <4> QED BY <4>2
      <3>3. ~Tick /\ ~Grow
        BY DEF Tick, Grow, shared
      <3> QED BY <3>1, <3>2, <3>3 DEF Next
    <2>2. Choice(c) \in Choices
      BY UnderWay DEF Busy
    <2>3. ~IsOpen(breaker[Choice(c)])
      <3>1. ASSUME IsOpen(breaker[Choice(c)]) PROVE FALSE
        <4>1. Ends(c, "failed")
          BY <2>1, <3>1 DEF Enter, Choice
        <4>2. call'[c].pc = "failed"
          BY <4>1, EndsKnows DEF Over
        <4> QED BY <4>2
      <3> QED BY <3>1
    <2>4. /\ breaker[Choice(c)].openedAt \in Int /\ tripped[Choice(c)] \in Int
          /\ now \in Nat /\ Cooldown \in Nat
      BY <2>2, GatewayAssumption DEF IInv, TypeInv
    <2> QED BY <2>2, <2>3, <2>4 DEF IInv, BreakerInv, IsOpen
  <1> QED BY <1>1, GatewayInvariant, PTL DEF Spec, BreakerHolds

\* A reply from the cache was given to the same question on all the evidence
\* the asker would have, cites what was seen, is complete, proposes nothing.
THEOREM RepeatedAnswersTheorem == Spec => RepeatedAnswersStand
  <1> DEFINE Stood(c) ==
        LET said == call'[c].says
        IN /\ call'[c].key[1] = Req(c)'.incident /\ call'[c].key[2] = Req(c)'.question
           /\ context[Req(c)'.incident] \subseteq call'[c].avail
           /\ said.refs \subseteq call'[c].avail /\ (said.answerable => said.refs # {})
           /\ ~call'[c].truncated /\ ~said.proposes
      All == \A c \in Callers : call'[c] # call[c] /\ call'[c].cached => Stood(c)
  <1>1. IInv /\ [Next]_vars => [All]_vars
    <2> SUFFICES ASSUME IInv, Next, NEW c \in Callers, call'[c] # call[c], call'[c].cached
                 PROVE  Stood(c)
      BY DEF vars, shared
    <2>1. PICK r \in Requests[c] : Repeat(c, r)
      <3>1. ~\E d \in Callers : call[d].pc \in Busy /\ Works(d)
        BY WorkMoves
      <3>2. ~Tick /\ ~Grow
        BY DEF Tick, Grow, shared
      <3>3. ASSUME NEW d \in Callers, NEW r \in Requests[d], Begin(d, r)
            PROVE  FALSE
        <4>1. call \in [Callers -> CallType] /\ ~Fresh(r).cached
          BY DEF IInv, TypeInv, Fresh, Idle
        <4>2. d = c /\ ~call'[c].cached
          BY <3>3, <4>1 DEF Begin, Fresh, Idle
        <4> QED BY <4>2
      <3>4. ASSUME NEW d \in Callers, NEW r \in Requests[d], Repeat(d, r)
            PROVE  d = c
        BY <3>4 DEF Repeat, IInv, TypeInv
      <3> QED BY <3>1, <3>2, <3>3, <3>4 DEF Next
    <2>2. /\ r.kind = "chat" /\ Key(r) \in DOMAIN cache
          /\ ~cache[Key(r)].says.proposes
      BY <2>1 DEF Repeat, Hit
    <2>3. Stands(Key(r), cache[Key(r)])
      BY <2>2 DEF IInv, CacheInv
    <2>4. /\ Key(r)[1] = r.incident /\ Key(r)[2] = r.question /\ Key(r)[4] = context[r.incident]
      BY DEF Key
    <2>5. /\ call'[c].key = Key(r) /\ call'[c].req = r
          /\ call'[c].says = cache[Key(r)].says /\ call'[c].avail = cache[Key(r)].avail
          /\ call'[c].truncated = cache[Key(r)].truncated
      BY <2>1 DEF Repeat, IInv, TypeInv, Fresh, Idle
    <2> QED BY <2>3, <2>4, <2>5 DEF Stands, Req
  <1> QED BY <1>1, GatewayInvariant, PTL DEF Spec, RepeatedAnswersStand
=============================================================================

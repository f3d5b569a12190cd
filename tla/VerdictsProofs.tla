--------------------------- MODULE VerdictsProofs ---------------------------
(***************************************************************************)
(* What holds of every verdict, for any number of requests and restarts,   *)
(* any registrable actions and any policy file.                            *)
(*                                                                         *)
(* The properties speak of documents, decisions and runs; what makes them  *)
(* true is what the handlers in flight know.  The inductive invariant says *)
(* for each point a handler can be at what it has already established:     *)
(* that its document is genuine, that its evaluation is on the trail, that *)
(* its authority is.                                                       *)
(***************************************************************************)
EXTENDS Verdicts, DharmaProofs

\* The deployments whose signing key does not outlive their trail.
Remembers == Durabilities \subseteq {TRUE} \/ ~SecretSet

VerdictType ==
  [action : {a.id : a \in Actions}, risk : 0..100, tier : Tiers,
   grantedBy : Requests \cup {Nobody, "dharma"}, expiresAt : Nat,
   dryRun : BOOLEAN, denial : BOOLEAN]

DocType == [src : Requests, verdict : VerdictType, preview : BOOLEAN, key : Nat]

Issuing == {"preview", "evaluate", "propose"}
Kinds == Issuing \cup {"none", "approve", "deny", "execute", "poll"}
Hydrating == {"hydrate", "flag", "load"}
Resolving == {"present", "resolve", "record"}

\* d is a copy of what its source issued, as far as no client can change it.
SameVerdict(d) ==
  /\ kind[d.src] \in Issuing
  /\ d.verdict.tier = work[d.src].verdict.tier
  /\ d.verdict.expiresAt = work[d.src].verdict.expiresAt
  /\ d.verdict.dryRun = work[d.src].verdict.dryRun

Evaluated(s) == \E e \in audit : e.kind = "evaluation" /\ e.req = s

Granted(d) ==
  \/ d.verdict.tier = "autonomous"
  \/ d.verdict.grantedBy = Nobody
  \/ \E e \in Decisions :
       e.choice = "approved" /\ e.req = d.verdict.grantedBy /\ e.src = d.src

Accounted(d) == Remembers => Evaluated(d.src) /\ Granted(d)

Genuine(d) ==
  /\ d \in DocType /\ d.key <= key /\ SameVerdict(d)
  /\ IsSealed(d) => Accounted(d)

\* What handler r has established where it is.
Handler(r) ==
  /\ pc[r] = "new" => kind[r] = "none"
  /\ kind[r] \in Issuing =>
       /\ work[r] \in DocType /\ work[r].src = r /\ work[r].key <= key
       /\ work[r].verdict.tier = "autonomous" \/ work[r].verdict.grantedBy = Nobody
  /\ kind[r] \in {"approve", "deny", "execute"} =>
       work[r] \in DocType /\ work[r].key <= key /\ SameVerdict(work[r])
  /\ pc[r] = "evaluated" => kind[r] \in Issuing
  /\ pc[r] \in Hydrating => kind[r] \in {"approve", "deny", "poll"}
  /\ pc[r] \in Resolving => kind[r] \in {"approve", "deny"}
  /\ pc[r] \in Hydrating \cup Resolving /\ kind[r] # "poll" =>
       (Remembers => Evaluated(work[r].src))
  /\ kind[r] = "deny" => work[r].verdict.grantedBy = Nobody
  /\ kind[r] = "approve" =>
       /\ work[r].verdict.grantedBy = r
       /\ pc[r] \in Hydrating \cup Resolving =>
            began[r] <= work[r].verdict.expiresAt /\ work[r].verdict.tier # "denied"
  /\ pc[r] = "record" => own[r] = IF kind[r] = "approve" THEN "approved" ELSE "denied"
  /\ pc[r] \in {"checked", "running", "ran"} =>
       /\ kind[r] = "execute" /\ Accounted(work[r])
       /\ work[r].verdict.tier = "autonomous" \/ work[r].verdict.grantedBy # Nobody
  /\ pc[r] = "running" => \E e \in audit : e.kind = "attempt" /\ e.req = r

SoundEntry(e) ==
  e.kind = "approval" /\ e.choice = "approved" =>
    /\ e.req \in Requests /\ kind[e.req] = "approve"
    /\ e.at <= work[e.req].verdict.expiresAt
    /\ e.tier # "denied"

SoundRun(x) ==
  /\ x.src \in Requests /\ kind[x.src] \in Issuing
  /\ ~work[x.src].verdict.dryRun

TypeInv ==
  /\ now \in 0..MaxTime /\ config \in Configs /\ durable \in Durabilities
  /\ restarts \in 0..MaxRestarts /\ key \in 1..(restarts + 1)
  /\ pc \in [Requests -> Ended \cup Underway]
  /\ kind \in [Requests -> Kinds]
  /\ work \in [Requests -> DocType \cup {NoDoc}]
  /\ began \in [Requests -> 0..MaxTime]
  /\ own \in [Requests -> {"none", "pending", "approved", "denied", "expired"}]
  /\ loaded \in [Requests -> Nat]
  /\ hydrated \in BOOLEAN

IInv ==
  /\ TypeInv
  /\ \A d \in docs : Genuine(d)
  /\ \A r \in Requests : Handler(r)
  /\ \A e \in audit : SoundEntry(e)
  /\ \A x \in runs : SoundRun(x)

-----------------------------------------------------------------------------
\* What Evaluate returns is a verdict of the right type.
LEMMA EvaluateType ==
  ASSUME NEW a \in Actions, NEW c \in Contexts, NEW limit \in 0..100,
         NEW dry \in BOOLEAN, NEW t \in Nat
  PROVE  /\ Evaluate(a, c, limit, dry, t) \in VerdictType
         /\ \/ Evaluate(a, c, limit, dry, t).tier = "autonomous"
            \/ Evaluate(a, c, limit, dry, t).grantedBy = Nobody
  <1>1. IsActionSpec(a)
    BY VerdictsAssumption DEF Registrable
  <1>2. Score(a, c) \in 0..100
    BY <1>1, RiskOnlyRaised DEF IsActionSpec
  <1>3. TierOf(a, c, limit) \in Tiers
    BY DEF TierOf, AgentLimitTier, BlastRadiusTier, ReversibilityTier, Escalate, Band, Tiers
  <1>4. a.irreversible \in BOOLEAN
    BY <1>1 DEF IsActionSpec
  <1>5. t + VerdictTTL \in Nat
    BY PolicyAssumption
  <1> DEFINE tier == TierOf(a, c, limit)
             limited == TierOf(a, c, NoLimit) # "denied" /\ tier = "denied"
             v == Evaluate(a, c, limit, dry, t)
  <1>6. /\ v = [action |-> a.id, risk |-> Score(a, c), tier |-> tier,
                grantedBy |-> IF tier = "autonomous" THEN "dharma" ELSE Nobody,
                expiresAt |-> t + VerdictTTL, dryRun |-> dry,
                denial |-> a.irreversible \/ limited]
    BY DEF Evaluate
  <1>7. (a.irreversible \/ limited) \in BOOLEAN
    OBVIOUS
  <1> HIDE DEF tier, limited, v
  <1>8. tier \in Tiers
    BY <1>3 DEF tier
  <1> QED BY <1>2, <1>5, <1>6, <1>7, <1>8 DEF VerdictType, v

LEMMA InitIInv == Init => IInv
  <1> SUFFICES ASSUME Init PROVE IInv
    OBVIOUS
  <1>1. TypeInv
    <2>1. MaxTime \in Nat /\ MaxRestarts \in Nat
      BY VerdictsAssumption
    <2>2. now \in 0..MaxTime /\ restarts \in 0..MaxRestarts /\ key \in 1..(restarts + 1)
      BY <2>1 DEF Init
    <2>3. began \in [Requests -> 0..MaxTime] /\ loaded \in [Requests -> Nat]
      BY <2>1 DEF Init
    <2>4. pc \in [Requests -> Ended \cup Underway] /\ kind \in [Requests -> Kinds]
      BY DEF Init, Ended, Kinds
    <2>5. work \in [Requests -> DocType \cup {NoDoc}]
      BY DEF Init
    <2> QED BY <2>2, <2>3, <2>4, <2>5 DEF Init, TypeInv
  <1>2. \A r \in Requests : Handler(r)
    BY DEF Init, Handler, Issuing, Hydrating, Resolving
  <1> QED BY <1>1, <1>2 DEF Init, IInv

-----------------------------------------------------------------------------
(***************************************************************************)
(* A step of one handler r leaves the others where they are, never changes *)
(* what a handler has begun with, and only adds to the trail.              *)
(***************************************************************************)
Unmoved(q) ==
  /\ pc'[q] = pc[q] /\ kind'[q] = kind[q] /\ work'[q] = work[q] /\ began'[q] = began[q]
  /\ pc[q] = "record" => own'[q] = own[q]

OnlyMoves(r) ==
  /\ audit \subseteq audit' /\ key' = key
  /\ pc[r] # "new" => kind'[r] = kind[r] /\ work'[r] = work[r]
  /\ \A q \in Requests \ {r} : Unmoved(q)

\* What has been begun is not changed by such a step.
LEMMA BegunKept ==
  ASSUME IInv, NEW r \in Requests, OnlyMoves(r),
         NEW q \in Requests, kind[q] # "none"
  PROVE  kind'[q] = kind[q] /\ work'[q] = work[q]
  <1>1. pc[q] # "new"
    BY DEF IInv, Handler
  <1> QED BY <1>1 DEF OnlyMoves, Unmoved

\* A genuine document stays one.
LEMMA GenuineKept ==
  ASSUME IInv, NEW r \in Requests, OnlyMoves(r), NEW d, Genuine(d)
  PROVE  Genuine(d)'
  <1>1. d.src \in Requests /\ kind[d.src] \in Issuing /\ kind[d.src] # "none"
    BY DEF Genuine, DocType, SameVerdict, Issuing
  <1>2. kind'[d.src] = kind[d.src] /\ work'[d.src] = work[d.src]
    BY <1>1, BegunKept
  <1>3. SameVerdict(d)'
    BY <1>2 DEF Genuine, SameVerdict
  <1>4. key' = key /\ audit \subseteq audit'
    BY DEF OnlyMoves
  <1>5. Accounted(d) => Accounted(d)'
    BY <1>4 DEF Accounted, Evaluated, Granted, Decisions
  <1> QED BY <1>3, <1>4, <1>5 DEF Genuine, IsSealed

\* A handler that does not move keeps what it has established.
LEMMA HandlerKept ==
  ASSUME IInv, NEW r \in Requests, OnlyMoves(r), NEW q \in Requests \ {r}
  PROVE  Handler(q)'
  <1>1. Handler(q) /\ Unmoved(q) /\ key' = key /\ audit \subseteq audit'
    BY DEF IInv, OnlyMoves
  <1>2. ASSUME kind[q] \in {"approve", "deny", "execute"}
        PROVE  SameVerdict(work[q])'
    <2>1. work[q] \in DocType /\ SameVerdict(work[q])
      BY <1>1, <1>2 DEF Handler
    <2>2. work[q].src \in Requests /\ kind[work[q].src] # "none"
      BY <2>1 DEF DocType, SameVerdict, Issuing
    <2>3. kind'[work[q].src] = kind[work[q].src] /\ work'[work[q].src] = work[work[q].src]
      BY <2>2, BegunKept
    <2>4. work'[q] = work[q]
      BY <1>1 DEF Unmoved
    <2> QED BY <2>1, <2>3, <2>4 DEF SameVerdict
  <1>3. Accounted(work[q]) => Accounted(work[q])'
    BY <1>1 DEF Accounted, Evaluated, Granted, Decisions, Unmoved
  <1>4. Evaluated(work[q].src) => Evaluated(work[q].src)'
    BY <1>1 DEF Evaluated, Unmoved
  <1>5. (\E e \in audit : e.kind = "attempt" /\ e.req = q)
          => \E e \in audit' : e.kind = "attempt" /\ e.req = q
    BY <1>1
  <1> QED BY <1>1, <1>2, <1>3, <1>4, <1>5 DEF Handler, Unmoved

\* What is on the trail, and what has run, stays sound.
LEMMA EntriesKept ==
  ASSUME IInv, NEW r \in Requests, OnlyMoves(r)
  PROVE  /\ \A e \in audit : SoundEntry(e)'
         /\ \A x \in runs : SoundRun(x)'
  <1>1. ASSUME NEW e \in audit PROVE SoundEntry(e)'
    <2>1. SoundEntry(e)
      BY DEF IInv
    <2> SUFFICES ASSUME e.kind = "approval", e.choice = "approved"
                 PROVE  SoundEntry(e)'
      BY DEF SoundEntry
    <2>2. e.req \in Requests /\ kind[e.req] # "none"
      BY <2>1 DEF SoundEntry
    <2>3. kind'[e.req] = kind[e.req] /\ work'[e.req] = work[e.req]
      BY <2>2, BegunKept
    <2> QED BY <2>1, <2>3 DEF SoundEntry
  <1>2. ASSUME NEW x \in runs PROVE SoundRun(x)'
    <2>1. SoundRun(x)
      BY DEF IInv
    <2>2. x.src \in Requests /\ kind[x.src] # "none"
      BY <2>1 DEF SoundRun, Issuing
    <2>3. kind'[x.src] = kind[x.src] /\ work'[x.src] = work[x.src]
      BY <2>2, BegunKept
    <2> QED BY <2>1, <2>3 DEF SoundRun
  <1> QED BY <1>1, <1>2

\* So a step of r preserves the invariant if it is sound where it is new.
LEMMA StepPreserves ==
  ASSUME IInv, NEW r \in Requests, OnlyMoves(r), TypeInv', Handler(r)',
         \A d \in docs' \ docs : Genuine(d)',
         \A e \in audit' \ audit : SoundEntry(e)',
         \A x \in runs' \ runs : SoundRun(x)'
  PROVE  IInv'
  <1>1. \A d \in docs' : Genuine(d)'
    BY GenuineKept DEF IInv
  <1>2. \A q \in Requests : Handler(q)'
    BY HandlerKept
  <1>3. (\A e \in audit' : SoundEntry(e)') /\ (\A x \in runs' : SoundRun(x)')
    BY EntriesKept
  <1> QED BY <1>1, <1>2, <1>3 DEF IInv

-----------------------------------------------------------------------------
\* What a step that begins a request does to the rest of the state.
LEMMA BeginMoves ==
  ASSUME IInv, NEW r \in Requests, NEW route \in Kinds \ {"none"},
         NEW d \in DocType \cup {NoDoc}, NEW next \in Ended \cup Underway,
         Begin(r, route, d, next),
         UNCHANGED <<now, config, durable, key, audit, runs, loaded, hydrated, restarts>>,
         own' \in [Requests -> {"none", "pending", "approved", "denied", "expired"}],
         \A q \in Requests \ {r} : own'[q] = own[q]
  PROVE  /\ TypeInv' /\ OnlyMoves(r)
         /\ pc'[r] = next /\ kind'[r] = route /\ work'[r] = d /\ began'[r] = now
  <1>1. TypeInv
    BY DEF IInv
  <1>2. /\ pc' = [pc EXCEPT ![r] = next] /\ kind' = [kind EXCEPT ![r] = route]
        /\ work' = [work EXCEPT ![r] = d] /\ began' = [began EXCEPT ![r] = now]
        /\ pc[r] = "new"
    BY DEF Begin
  <1>3. /\ pc' \in [Requests -> Ended \cup Underway] /\ kind' \in [Requests -> Kinds]
        /\ work' \in [Requests -> DocType \cup {NoDoc}]
        /\ began' \in [Requests -> 0..MaxTime]
    BY <1>1, <1>2 DEF TypeInv
  <1>4. TypeInv'
    BY <1>1, <1>3 DEF TypeInv
  <1>5. pc'[r] = next /\ kind'[r] = route /\ work'[r] = d /\ began'[r] = now
    BY <1>1, <1>2 DEF TypeInv
  <1>6. \A q \in Requests \ {r} : Unmoved(q)
    BY <1>1, <1>2 DEF TypeInv, Unmoved
  <1>7. OnlyMoves(r)
    BY <1>2, <1>6 DEF OnlyMoves
  <1> QED BY <1>4, <1>5, <1>7

\* What a step that takes a handler on does to the rest of the state.
LEMMA GotoMoves ==
  ASSUME IInv, NEW r \in Requests, NEW next \in Ended \cup Underway,
         Goto(r, next), pc[r] # "new",
         UNCHANGED <<now, config, durable, key, restarts>>, audit \subseteq audit',
         loaded' \in [Requests -> Nat], hydrated' \in BOOLEAN,
         own' \in [Requests -> {"none", "pending", "approved", "denied", "expired"}],
         \A q \in Requests \ {r} : own[q] \in {"approved", "denied"} => own'[q] = own[q]
  PROVE  /\ TypeInv' /\ OnlyMoves(r)
         /\ pc'[r] = next /\ kind'[r] = kind[r] /\ work'[r] = work[r] /\ began'[r] = began[r]
  <1>1. TypeInv
    BY DEF IInv
  <1>2. pc' = [pc EXCEPT ![r] = next] /\ kind' = kind /\ work' = work /\ began' = began
    BY DEF Goto
  <1>3. pc' \in [Requests -> Ended \cup Underway] /\ pc'[r] = next
    BY <1>1, <1>2 DEF TypeInv
  <1>4. TypeInv'
    BY <1>1, <1>2, <1>3 DEF TypeInv
  <1>5. ASSUME NEW q \in Requests \ {r} PROVE Unmoved(q)
    <2>1. pc[q] = "record" => own[q] \in {"approved", "denied"}
      BY DEF IInv, Handler
    <2> QED BY <1>1, <1>2, <2>1 DEF TypeInv, Unmoved
  <1>6. OnlyMoves(r)
    BY <1>2, <1>5 DEF OnlyMoves
  <1> QED BY <1>2, <1>3, <1>4, <1>6

\* d is a document request r issues, under seal k, before anyone decided on it.
Fresh(d, r, k) ==
  /\ d \in DocType /\ d.src = r /\ d.key = k
  /\ d.verdict.tier = "autonomous" \/ d.verdict.grantedBy = Nobody

\* The document an evaluation issues is fresh.
LEMMA IssueFresh ==
  ASSUME TypeInv, NEW r \in Requests, NEW a \in Actions, NEW c \in Facts,
         NEW limit \in 0..100, NEW seal \in 0..key
  PROVE  Fresh(Issue(r, a, c, limit, seal), r, seal)
  <1> DEFINE v == Evaluate(a, c, limit, config = "dry", now)
  <1>1. now \in Nat /\ seal \in Nat /\ c \in Contexts /\ (config = "dry") \in BOOLEAN
    BY VerdictsAssumption DEF TypeInv
  <1>2. v \in VerdictType /\ (v.tier = "autonomous" \/ v.grantedBy = Nobody)
    BY <1>1, EvaluateType
  <1> DEFINE d == Issue(r, a, c, limit, seal)
  <1>3. d = [src |-> r, verdict |-> v, preview |-> seal = Unsealed, key |-> seal]
    BY DEF Issue
  <1> HIDE DEF v, d
  <1>4. d \in DocType
    BY <1>1, <1>2, <1>3 DEF DocType
  <1>5. d.src = r /\ d.key = seal /\ d.verdict = v
    BY <1>3
  <1>6. Fresh(d, r, seal)
    BY <1>2, <1>4, <1>5 DEF Fresh
  <1> QED BY <1>6 DEF d

\* A fresh document establishes what a handler that issued one must know.
LEMMA FreshHandler ==
  ASSUME IInv, NEW r \in Requests, NEW d, NEW k \in 0..key, Fresh(d, r, k),
         TypeInv', key' = key,
         work'[r] = d, kind'[r] \in Issuing, pc'[r] \in {"evaluated", "done"}
  PROVE  Handler(r)'
  BY DEF Fresh, Handler, Issuing, Hydrating, Resolving

LEMMA PreviewStep ==
  ASSUME IInv, NEW r \in Requests, NEW a \in Actions, NEW c \in Facts,
         NEW limit \in Limits, Preview(r, a, c, limit)
  PROVE  IInv'
  <1>0. PICK d : d = Issue(r, a, c, limit, Unsealed)
    OBVIOUS
  <1>1. TypeInv /\ Unsealed \in 0..key /\ limit \in 0..100
    BY VerdictsAssumption DEF IInv, TypeInv, Unsealed
  <1>2. Fresh(d, r, Unsealed)
    BY <1>0, <1>1, IssueFresh
  <1>3. /\ Begin(r, "preview", d, "done") /\ docs' = docs \cup {d}
        /\ UNCHANGED <<now, config, durable, key, audit, runs, own, loaded, hydrated, restarts>>
    BY <1>0 DEF Preview, process
  <1>4. /\ TypeInv' /\ OnlyMoves(r)
        /\ pc'[r] = "done" /\ kind'[r] = "preview" /\ work'[r] = d
    BY <1>1, <1>2, <1>3, BeginMoves DEF Fresh, TypeInv, Ended, Kinds, Issuing
  <1>5. Handler(r)'
    BY <1>1, <1>2, <1>3, <1>4, FreshHandler DEF Issuing, TypeInv
  <1>6. Genuine(d)'
    BY <1>1, <1>2, <1>3, <1>4 DEF Fresh, Genuine, SameVerdict, IsSealed, Issuing, Unsealed, TypeInv
  <1> QED BY <1>3, <1>4, <1>5, <1>6, StepPreserves

\* EvaluatePolicy and QueueProposal leave a fresh document at "evaluated".
LEMMA IssuedStep ==
  ASSUME IInv, NEW r \in Requests, NEW a \in Actions, NEW c \in Facts,
         NEW limit \in 0..100, NEW route \in {"evaluate", "propose"},
         Begin(r, route, Issue(r, a, c, limit, key), "evaluated"),
         UNCHANGED <<now, config, durable, key, audit, docs, runs, loaded, hydrated, restarts>>,
         own' = own \/ own' = [own EXCEPT ![r] = "pending"]
  PROVE  IInv'
  <1>0. PICK d : d = Issue(r, a, c, limit, key)
    OBVIOUS
  <1>1. TypeInv /\ key \in 0..key
    BY DEF IInv, TypeInv
  <1>2. Fresh(d, r, key)
    BY <1>0, <1>1, IssueFresh
  <1>3. Begin(r, route, d, "evaluated")
    BY <1>0
  <1>4. /\ own' \in [Requests -> {"none", "pending", "approved", "denied", "expired"}]
        /\ \A q \in Requests \ {r} : own'[q] = own[q]
    BY <1>1 DEF TypeInv
  <1>5. /\ TypeInv' /\ OnlyMoves(r)
        /\ pc'[r] = "evaluated" /\ kind'[r] = route /\ work'[r] = d
    BY <1>2, <1>3, <1>4, BeginMoves DEF Fresh, Underway, Kinds, Issuing
  <1>6. Handler(r)'
    BY <1>1, <1>2, <1>5, FreshHandler DEF Issuing
  <1> QED BY <1>5, <1>6, StepPreserves

-----------------------------------------------------------------------------
\* A copy a client sends back is of what its source issued.
LEMMA CopyKept ==
  ASSUME IInv, NEW r \in Requests, OnlyMoves(r), NEW d \in docs
  PROVE  /\ d \in DocType /\ d.key <= key /\ SameVerdict(d)'
         /\ IsSealed(d) => Accounted(d) /\ Accounted(d)'
  <1>1. Genuine(d)
    BY DEF IInv
  <1>2. Genuine(d)'
    BY <1>1, GenuineKept
  <1>3. audit \subseteq audit'
    BY DEF OnlyMoves
  <1>4. Accounted(d) => Accounted(d)'
    BY <1>3 DEF Accounted, Evaluated, Granted, Decisions
  <1> QED BY <1>1, <1>2, <1>4 DEF Genuine

LEMMA ApproveStep ==
  ASSUME IInv, NEW r \in Requests, NEW d \in docs, Approve(r, d)
  PROVE  IInv'
  <1>0. PICK c : c = [d EXCEPT !.verdict.grantedBy = r]
    OBVIOUS
  <1>1. PICK next : next = IF MayApprove(d) THEN "hydrate" ELSE "refused"
    OBVIOUS
  <1>2. TypeInv /\ d \in DocType
    BY DEF IInv, Genuine
  <1>3. /\ c \in DocType /\ c.src = d.src /\ c.key = d.key
        /\ c.verdict.grantedBy = r /\ c.verdict.tier = d.verdict.tier
        /\ c.verdict.expiresAt = d.verdict.expiresAt /\ c.verdict.dryRun = d.verdict.dryRun
    BY <1>0, <1>2 DEF DocType, VerdictType
  <1>4. /\ Begin(r, "approve", c, next)
        /\ UNCHANGED <<now, config, durable, key, audit, docs, runs, own, loaded, hydrated, restarts>>
    BY <1>0, <1>1 DEF Approve, process
  <1>5. next \in Ended \cup Underway
    BY <1>1 DEF Ended, Underway
  <1>6. /\ TypeInv' /\ OnlyMoves(r)
        /\ pc'[r] = next /\ kind'[r] = "approve" /\ work'[r] = c /\ began'[r] = now
    BY <1>2, <1>3, <1>4, <1>5, BeginMoves DEF TypeInv, Kinds, Issuing
  <1>7. d.key <= key /\ SameVerdict(d)' /\ (IsSealed(d) => Accounted(d)')
    BY <1>6, CopyKept
  <1>8. SameVerdict(c)'
    BY <1>3, <1>7 DEF SameVerdict
  <1>9. next = "hydrate" =>
          /\ Remembers => Evaluated(c.src)'
          /\ now <= c.verdict.expiresAt /\ c.verdict.tier # "denied"
    BY <1>1, <1>3, <1>7 DEF MayApprove, Accounted, Evaluated
  <1>10. Handler(r)'
    BY <1>1, <1>3, <1>4, <1>6, <1>7, <1>8, <1>9 DEF Handler, Issuing, Hydrating, Resolving
  <1> QED BY <1>4, <1>6, <1>10, StepPreserves

LEMMA DenyStep ==
  ASSUME IInv, NEW r \in Requests, NEW d \in docs, Deny(r, d)
  PROVE  IInv'
  <1>0. PICK c : c = [d EXCEPT !.verdict.grantedBy = Nobody, !.verdict.denial = TRUE]
    OBVIOUS
  <1>1. PICK next : next = IF IsSealed(d) THEN "hydrate" ELSE "refused"
    OBVIOUS
  <1>2. TypeInv /\ d \in DocType
    BY DEF IInv, Genuine
  <1>3. /\ c \in DocType /\ c.src = d.src /\ c.key = d.key
        /\ c.verdict.grantedBy = Nobody /\ c.verdict.tier = d.verdict.tier
        /\ c.verdict.expiresAt = d.verdict.expiresAt /\ c.verdict.dryRun = d.verdict.dryRun
    BY <1>0, <1>2 DEF DocType, VerdictType
  <1>4. /\ Begin(r, "deny", c, next)
        /\ UNCHANGED <<now, config, durable, key, audit, docs, runs, own, loaded, hydrated, restarts>>
    BY <1>0, <1>1 DEF Deny, process
  <1>5. next \in Ended \cup Underway
    BY <1>1 DEF Ended, Underway
  <1>6. /\ TypeInv' /\ OnlyMoves(r)
        /\ pc'[r] = next /\ kind'[r] = "deny" /\ work'[r] = c
    BY <1>2, <1>3, <1>4, <1>5, BeginMoves DEF TypeInv, Kinds, Issuing
  <1>7. d.key <= key /\ SameVerdict(d)' /\ (IsSealed(d) => Accounted(d)')
    BY <1>6, CopyKept
  <1>8. SameVerdict(c)'
    BY <1>3, <1>7 DEF SameVerdict
  <1>9. next = "hydrate" => (Remembers => Evaluated(c.src)')
    BY <1>1, <1>3, <1>7 DEF Accounted, Evaluated
  <1>10. Handler(r)'
    BY <1>1, <1>3, <1>4, <1>6, <1>7, <1>8, <1>9 DEF Handler, Issuing, Hydrating, Resolving
  <1> QED BY <1>4, <1>6, <1>10, StepPreserves

LEMMA ExecuteStep ==
  ASSUME IInv, NEW r \in Requests, NEW d \in docs, NEW a \in Actions, Execute(r, d, a)
  PROVE  IInv'
  <1>1. PICK next :
          next = IF IsSealed(d) /\ Authorises(d.verdict, a, now) THEN "checked" ELSE "refused"
    OBVIOUS
  <1>2. TypeInv /\ d \in DocType
    BY DEF IInv, Genuine
  <1>3. /\ Begin(r, "execute", d, next)
        /\ UNCHANGED <<now, config, durable, key, audit, docs, runs, own, loaded, hydrated, restarts>>
    BY <1>1 DEF Execute, process
  <1>4. next \in Ended \cup Underway
    BY <1>1 DEF Ended, Underway
  <1>5. /\ TypeInv' /\ OnlyMoves(r)
        /\ pc'[r] = next /\ kind'[r] = "execute" /\ work'[r] = d
    BY <1>2, <1>3, <1>4, BeginMoves DEF TypeInv, Kinds, Issuing
  <1>6. d.key <= key /\ SameVerdict(d)' /\ (IsSealed(d) => Accounted(d)')
    BY <1>5, CopyKept
  <1>7. next = "checked" =>
          /\ Accounted(d)'
          /\ d.verdict.tier = "autonomous" \/ d.verdict.grantedBy # Nobody
    BY <1>1, <1>6 DEF Authorises, IsExecutable
  <1>8. Handler(r)'
    BY <1>1, <1>2, <1>3, <1>5, <1>6, <1>7 DEF Handler, Issuing, Hydrating, Resolving
  <1> QED BY <1>3, <1>5, <1>8, StepPreserves

LEMMA PollStep ==
  ASSUME IInv, NEW r \in Requests, Poll(r)
  PROVE  IInv'
  <1>1. TypeInv
    BY DEF IInv
  <1>2. /\ Begin(r, "poll", NoDoc, "hydrate")
        /\ UNCHANGED <<now, config, durable, key, audit, docs, runs, own, loaded, hydrated, restarts>>
    BY DEF Poll, process
  <1>3. /\ TypeInv' /\ OnlyMoves(r)
        /\ pc'[r] = "hydrate" /\ kind'[r] = "poll"
    BY <1>1, <1>2, BeginMoves DEF TypeInv, Underway, Kinds, Issuing
  <1>4. Handler(r)'
    BY <1>3 DEF Handler, Issuing, Hydrating, Resolving
  <1> QED BY <1>2, <1>3, <1>4, StepPreserves

-----------------------------------------------------------------------------
\* Recording the decision or loading the log moves a handler on with its
\* document and what it knows of the trail.
LEMMA KnowledgeKept ==
  ASSUME IInv, NEW r \in Requests, OnlyMoves(r), pc[r] # "new", work'[r] = work[r]
  PROVE  /\ kind[r] \in {"approve", "deny", "execute"} => SameVerdict(work[r])'
         /\ Evaluated(work[r].src) => Evaluated(work[r].src)'
         /\ Accounted(work[r]) => Accounted(work[r])'
  <1>1. audit \subseteq audit'
    BY DEF OnlyMoves
  <1>2. ASSUME kind[r] \in {"approve", "deny", "execute"} PROVE SameVerdict(work[r])'
    <2>1. work[r] \in DocType /\ SameVerdict(work[r])
      BY <1>2 DEF IInv, Handler
    <2>2. work[r].src \in Requests /\ kind[work[r].src] # "none"
      BY <2>1 DEF DocType, SameVerdict, Issuing
    <2>3. kind'[work[r].src] = kind[work[r].src] /\ work'[work[r].src] = work[work[r].src]
      BY <2>2, BegunKept
    <2> QED BY <2>1, <2>3 DEF SameVerdict
  <1> QED BY <1>1, <1>2 DEF Accounted, Evaluated, Granted, Decisions

\* A step that takes handler r from one point to the next, keeping what it
\* knows: all that remains is what it must know at the point it reaches.
LEMMA HandlerMoves ==
  ASSUME IInv, NEW r \in Requests, OnlyMoves(r), TypeInv', pc[r] # "new",
         kind'[r] = kind[r], work'[r] = work[r], began'[r] = began[r],
         pc'[r] # "new", pc'[r] # "evaluated",
         pc'[r] \in Hydrating => pc[r] \in Hydrating,
         pc'[r] \in Resolving => pc[r] \in Hydrating \cup Resolving /\ kind[r] # "poll",
         pc'[r] = "record" => own'[r] = IF kind[r] = "approve" THEN "approved" ELSE "denied",
         pc'[r] \in {"checked", "running", "ran"} => pc[r] \in {"checked", "running", "ran"},
         pc'[r] = "running" => \E e \in audit' : e.kind = "attempt" /\ e.req = r
  PROVE  Handler(r)'
  <1>1. Handler(r) /\ key' = key
    BY DEF IInv, OnlyMoves
  <1>2. /\ kind[r] \in {"approve", "deny", "execute"} => SameVerdict(work[r])'
        /\ Evaluated(work[r].src) => Evaluated(work[r].src)'
        /\ Accounted(work[r]) => Accounted(work[r])'
    BY KnowledgeKept
  <1>3. kind[r] \in Kinds /\ pc[r] \in Hydrating \cup Resolving => kind[r] \in {"approve", "deny", "poll"}
    BY <1>1 DEF Handler, Hydrating, Resolving
  <1>4. kind[r] \in Kinds
    BY DEF IInv, TypeInv
  <1> QED BY <1>1, <1>2, <1>3, <1>4 DEF Handler, Hydrating, Resolving

LEMMA TestFlagStep ==
  ASSUME IInv, NEW r \in Requests, TestFlag(r)
  PROVE  IInv'
  <1>1. PICK next : next = IF hydrated THEN AfterHydration(r) ELSE "flag"
    OBVIOUS
  <1>2. /\ Goto(r, next) /\ pc[r] = "hydrate"
        /\ UNCHANGED <<now, config, durable, key, audit, docs, runs, own, loaded, hydrated, restarts>>
    BY <1>1 DEF TestFlag, process
  <1>3. next \in {"flag", "expire", "present"} /\ (next = "present" => kind[r] # "poll")
    BY <1>1 DEF AfterHydration
  <1>4. /\ TypeInv' /\ OnlyMoves(r)
        /\ pc'[r] = next /\ kind'[r] = kind[r] /\ work'[r] = work[r] /\ began'[r] = began[r]
    BY <1>2, <1>3, GotoMoves DEF IInv, TypeInv, Underway
  <1>5. Handler(r)'
    BY <1>2, <1>3, <1>4, HandlerMoves DEF Hydrating, Resolving
  <1> QED BY <1>2, <1>4, <1>5, StepPreserves

LEMMA SetFlagStep ==
  ASSUME IInv, NEW r \in Requests, SetFlag(r)
  PROVE  IInv'
  <1>1. PICK next : next = IF durable THEN "load" ELSE AfterHydration(r)
    OBVIOUS
  <1>2. /\ Goto(r, next) /\ pc[r] = "flag" /\ hydrated' = TRUE
        /\ UNCHANGED <<now, config, durable, key, audit, docs, runs, own, loaded, restarts>>
    BY <1>1 DEF SetFlag
  <1>3. next \in {"load", "expire", "present"} /\ (next = "present" => kind[r] # "poll")
    BY <1>1 DEF AfterHydration
  <1>4. /\ TypeInv' /\ OnlyMoves(r)
        /\ pc'[r] = next /\ kind'[r] = kind[r] /\ work'[r] = work[r] /\ began'[r] = began[r]
    BY <1>2, <1>3, GotoMoves DEF IInv, TypeInv, Underway
  <1>5. Handler(r)'
    BY <1>2, <1>3, <1>4, HandlerMoves DEF Hydrating, Resolving
  <1> QED BY <1>2, <1>4, <1>5, StepPreserves

LEMMA LoadStep ==
  ASSUME IInv, NEW r \in Requests, Load(r)
  PROVE  IInv'
  <1>1. PICK next : next = AfterHydration(r)
    OBVIOUS
  <1>2. /\ Goto(r, next) /\ pc[r] = "load"
        /\ loaded' = [q \in Requests |->
             IF \E e \in Decisions : e.req = q THEN loaded[q] + 1 ELSE loaded[q]]
        /\ UNCHANGED <<now, config, durable, key, audit, docs, runs, own, hydrated, restarts>>
    BY <1>1 DEF Load
  <1>3. next \in {"expire", "present"} /\ (next = "present" => kind[r] # "poll")
    BY <1>1 DEF AfterHydration
  <1>4. loaded' \in [Requests -> Nat]
    BY <1>2 DEF IInv, TypeInv
  <1>5. /\ TypeInv' /\ OnlyMoves(r)
        /\ pc'[r] = next /\ kind'[r] = kind[r] /\ work'[r] = work[r] /\ began'[r] = began[r]
    BY <1>2, <1>3, <1>4, GotoMoves DEF IInv, TypeInv, Underway
  <1>6. Handler(r)'
    BY <1>2, <1>3, <1>5, HandlerMoves DEF Hydrating, Resolving
  <1> QED BY <1>2, <1>5, <1>6, StepPreserves

LEMMA PresentStep ==
  ASSUME IInv, NEW r \in Requests, Present(r)
  PROVE  IInv'
  <1>1. /\ Goto(r, "resolve") /\ pc[r] = "present"
        /\ own' = [own EXCEPT ![r] = "pending"]
        /\ UNCHANGED <<now, config, durable, key, audit, docs, runs, loaded, hydrated, restarts>>
    BY DEF Present
  <1>2. kind[r] # "poll"
    BY <1>1 DEF IInv, Handler, Resolving
  <1>3. /\ own' \in [Requests -> {"none", "pending", "approved", "denied", "expired"}]
        /\ \A q \in Requests \ {r} : own'[q] = own[q]
    BY <1>1 DEF IInv, TypeInv
  <1>4. /\ TypeInv' /\ OnlyMoves(r)
        /\ pc'[r] = "resolve" /\ kind'[r] = kind[r] /\ work'[r] = work[r] /\ began'[r] = began[r]
    BY <1>1, <1>3, GotoMoves DEF IInv, TypeInv, Underway
  <1>5. Handler(r)'
    BY <1>1, <1>2, <1>4, HandlerMoves DEF Hydrating, Resolving
  <1> QED BY <1>1, <1>4, <1>5, StepPreserves

LEMMA ResolveStep ==
  ASSUME IInv, NEW r \in Requests, Resolve(r)
  PROVE  IInv'
  <1>1. PICK next : next = IF own[r] = "pending" THEN "record" ELSE "failed"
    OBVIOUS
  <1>2. PICK choice : choice = IF kind[r] = "approve" THEN "approved" ELSE "denied"
    OBVIOUS
  <1>3. /\ Goto(r, next) /\ pc[r] = "resolve"
        /\ own' = IF own[r] = "pending" THEN [own EXCEPT ![r] = choice] ELSE own
        /\ UNCHANGED <<now, config, durable, key, audit, docs, runs, loaded, hydrated, restarts>>
    BY <1>1, <1>2 DEF Resolve
  <1>4. kind[r] # "poll"
    BY <1>3 DEF IInv, Handler, Resolving
  <1>5. /\ own' \in [Requests -> {"none", "pending", "approved", "denied", "expired"}]
        /\ \A q \in Requests \ {r} : own'[q] = own[q]
        /\ next = "record" => own'[r] = choice
    BY <1>1, <1>2, <1>3 DEF IInv, TypeInv
  <1>6. /\ TypeInv' /\ OnlyMoves(r)
        /\ pc'[r] = next /\ kind'[r] = kind[r] /\ work'[r] = work[r] /\ began'[r] = began[r]
    BY <1>1, <1>3, <1>5, GotoMoves DEF IInv, TypeInv, Underway, Ended
  <1>7. Handler(r)'
    BY <1>1, <1>2, <1>3, <1>4, <1>5, <1>6, HandlerMoves DEF Hydrating, Resolving
  <1> QED BY <1>3, <1>6, <1>7, StepPreserves

LEMMA ExpireStaleStep ==
  ASSUME IInv, NEW r \in Requests, ExpireStale(r)
  PROVE  IInv'
  <1>1. /\ Goto(r, "done") /\ pc[r] = "expire"
        /\ own' = [q \in Requests |->
             IF own[q] = "pending" /\ now > work[q].verdict.expiresAt THEN "expired" ELSE own[q]]
        /\ UNCHANGED <<now, config, durable, key, audit, docs, runs, loaded, hydrated, restarts>>
    BY DEF ExpireStale
  <1>2. /\ own' \in [Requests -> {"none", "pending", "approved", "denied", "expired"}]
        /\ \A q \in Requests \ {r} : own[q] \in {"approved", "denied"} => own'[q] = own[q]
    BY <1>1 DEF IInv, TypeInv
  <1>3. /\ TypeInv' /\ OnlyMoves(r)
        /\ pc'[r] = "done" /\ kind'[r] = kind[r] /\ work'[r] = work[r] /\ began'[r] = began[r]
    BY <1>1, <1>2, GotoMoves DEF IInv, TypeInv, Ended
  <1>4. Handler(r)'
    BY <1>1, <1>3, HandlerMoves DEF Hydrating, Resolving
  <1> QED BY <1>1, <1>3, <1>4, StepPreserves

\* The store that fails a load ends the handler and changes nothing else.
LEMMA LoadFailsStep ==
  ASSUME IInv, NEW r \in Requests, LoadFails(r)
  PROVE  IInv'
  <1>1. /\ Goto(r, "failed") /\ pc[r] = "load"
        /\ UNCHANGED <<now, config, durable, key, audit, docs, runs, own, loaded, hydrated, restarts>>
    BY DEF LoadFails, process
  <1>2. /\ TypeInv' /\ OnlyMoves(r)
        /\ pc'[r] = "failed" /\ kind'[r] = kind[r] /\ work'[r] = work[r] /\ began'[r] = began[r]
    BY <1>1, GotoMoves DEF IInv, TypeInv, Ended
  <1>3. Handler(r)'
    BY <1>1, <1>2, HandlerMoves DEF Hydrating, Resolving
  <1> QED BY <1>1, <1>2, <1>3, StepPreserves

-----------------------------------------------------------------------------
\* What a handler appends is sound, and stays so as the handler goes on.
LEMMA RecordIsSound ==
  ASSUME IInv, NEW r \in Requests, OnlyMoves(r), pc[r] # "new",
         NEW e, e = RecordOf(r)
  PROVE  /\ SoundEntry(e)'
         /\ e.req = r /\ e.src = work[r].src
         /\ pc[r] = "evaluated" => e.kind = "evaluation"
         /\ pc[r] = "checked" => e.kind = "attempt"
         /\ pc[r] = "record" => e.kind = "approval" /\ e.choice = own[r]
  <1>1. /\ e.req = r /\ e.src = work[r].src /\ e.at = began[r]
        /\ e.tier = work[r].verdict.tier
        /\ pc[r] = "evaluated" => e.kind = "evaluation"
        /\ pc[r] = "checked" => e.kind = "attempt"
        /\ pc[r] = "record" => e.kind = "approval" /\ e.choice = own[r]
        /\ pc[r] # "record" => e.kind # "approval"
    BY DEF RecordOf
  <1>2. kind'[r] = kind[r] /\ work'[r] = work[r]
    BY DEF OnlyMoves
  <1>3. ASSUME e.kind = "approval", e.choice = "approved"
        PROVE  /\ kind[r] = "approve" /\ began[r] <= work[r].verdict.expiresAt
               /\ work[r].verdict.tier # "denied"
    <2>1. pc[r] = "record" /\ own[r] = "approved" /\ Handler(r)
      BY <1>1, <1>3 DEF IInv
    <2> QED BY <2>1 DEF Handler, Resolving
  <1>4. SoundEntry(e)'
    BY <1>1, <1>2, <1>3 DEF SoundEntry
  <1> QED BY <1>1, <1>4

\* What a step that appends to the trail, or fails to, does to the state.
LEMMA AppendMoves ==
  ASSUME IInv, NEW r \in Requests, NEW next \in Ended, Goto(r, next), pc[r] # "new",
         next # "new", NEW e, e = RecordOf(r), audit' = audit \cup {e},
         UNCHANGED <<now, config, durable, key, own, loaded, hydrated, restarts>>
  PROVE  /\ TypeInv' /\ OnlyMoves(r) /\ Handler(r)'
         /\ pc'[r] = next /\ kind'[r] = kind[r] /\ work'[r] = work[r]
         /\ \A x \in audit' \ audit : SoundEntry(x)'
  <1>1. next \in Ended \cup Underway /\ audit \subseteq audit'
    OBVIOUS
  <1>2. /\ TypeInv' /\ OnlyMoves(r)
        /\ pc'[r] = next /\ kind'[r] = kind[r] /\ work'[r] = work[r] /\ began'[r] = began[r]
    BY <1>1, GotoMoves DEF IInv, TypeInv
  <1>3. Handler(r)'
    BY <1>1, <1>2, HandlerMoves DEF Hydrating, Resolving, Ended
  <1>4. SoundEntry(e)'
    BY <1>2, RecordIsSound
  <1> QED BY <1>2, <1>3, <1>4

\* The evaluation is on the trail before its document leaves the service.
LEMMA RecordEvaluationStep ==
  ASSUME IInv, NEW r \in Requests, RecordEvaluation(r)
  PROVE  IInv'
  <1>0. PICK e : e = RecordOf(r)
    OBVIOUS
  <1>1. PICK d : d = work[r]
    OBVIOUS
  <1>2. /\ Goto(r, "done") /\ pc[r] = "evaluated"
        /\ audit' = audit \cup {e} /\ docs' = docs \cup {d}
        /\ UNCHANGED <<now, config, durable, key, runs, own, loaded, hydrated, restarts>>
    BY <1>0, <1>1 DEF RecordEvaluation, Append, process
  <1>3. /\ TypeInv' /\ OnlyMoves(r) /\ Handler(r)'
        /\ kind'[r] = kind[r] /\ work'[r] = work[r]
        /\ \A x \in audit' \ audit : SoundEntry(x)'
    BY <1>0, <1>2, AppendMoves DEF Ended
  <1>4. /\ d \in DocType /\ d.src = r /\ d.key <= key /\ kind[r] \in Issuing
        /\ d.verdict.tier = "autonomous" \/ d.verdict.grantedBy = Nobody
    BY <1>1, <1>2 DEF IInv, Handler
  <1>5. e.kind = "evaluation" /\ e.req = r
    BY <1>0, <1>2, <1>3, RecordIsSound
  <1>6. SameVerdict(d)'
    BY <1>1, <1>3, <1>4 DEF SameVerdict
  <1>7. Accounted(d)'
    BY <1>2, <1>4, <1>5 DEF Accounted, Evaluated, Granted
  <1>8. Genuine(d)'
    BY <1>2, <1>4, <1>6, <1>7 DEF Genuine
  <1> QED BY <1>2, <1>3, <1>8, StepPreserves

\* The approval is on the trail before the granted copy leaves the service.
LEMMA RecordDecisionStep ==
  ASSUME IInv, NEW r \in Requests, RecordDecision(r)
  PROVE  IInv'
  <1>0. PICK e : e = RecordOf(r)
    OBVIOUS
  <1>1. PICK d : d = work[r]
    OBVIOUS
  <1>2. /\ Goto(r, "done") /\ pc[r] = "record"
        /\ audit' = audit \cup {e} /\ docs' = docs \cup {d}
        /\ UNCHANGED <<now, config, durable, key, runs, own, loaded, hydrated, restarts>>
    BY <1>0, <1>1 DEF RecordDecision, Append, process
  <1>3. /\ TypeInv' /\ OnlyMoves(r) /\ Handler(r)'
        /\ kind'[r] = kind[r] /\ work'[r] = work[r]
        /\ \A x \in audit' \ audit : SoundEntry(x)'
    BY <1>0, <1>2, AppendMoves DEF Ended
  <1>4. Handler(r) /\ kind[r] \in {"approve", "deny"}
    BY <1>2 DEF IInv, Handler, Resolving
  <1>5. d \in DocType /\ d.key <= key
    BY <1>1, <1>4 DEF Handler
  <1>6. SameVerdict(d)' /\ (Remembers => Evaluated(d.src)')
    <2>1. Remembers => Evaluated(work[r].src)
      BY <1>2, <1>4 DEF Handler, Resolving
    <2> QED BY <1>1, <1>2, <1>3, <1>4, <2>1, KnowledgeKept
  <1>7. e.kind = "approval" /\ e.choice = own[r] /\ e.req = r /\ e.src = d.src
    BY <1>0, <1>1, <1>2, <1>3, RecordIsSound
  <1>8. Granted(d)'
    <2>1. CASE kind[r] = "deny"
      BY <1>1, <1>4, <2>1 DEF Handler, Granted
    <2>2. CASE kind[r] = "approve"
      <3>1. d.verdict.grantedBy = r /\ own[r] = "approved"
        BY <1>1, <1>2, <1>4, <2>2 DEF Handler
      <3> QED BY <1>2, <1>7, <3>1 DEF Granted, Decisions
    <2> QED BY <1>4, <2>1, <2>2
  <1>9. Genuine(d)'
    BY <1>2, <1>5, <1>6, <1>8 DEF Genuine, Accounted
  <1> QED BY <1>2, <1>3, <1>9, StepPreserves

\* The attempt is on the trail before anything runs.
LEMMA RecordAttemptStep ==
  ASSUME IInv, NEW r \in Requests, RecordAttempt(r)
  PROVE  IInv'
  <1>0. PICK e : e = RecordOf(r)
    OBVIOUS
  <1>1. /\ Goto(r, "running") /\ pc[r] = "checked" /\ audit' = audit \cup {e}
        /\ UNCHANGED <<now, config, durable, key, docs, runs, own, loaded, hydrated, restarts>>
    BY <1>0 DEF RecordAttempt, Append, process
  <1>2. /\ TypeInv' /\ OnlyMoves(r)
        /\ pc'[r] = "running" /\ kind'[r] = kind[r] /\ work'[r] = work[r] /\ began'[r] = began[r]
    BY <1>1, GotoMoves DEF IInv, TypeInv, Underway
  <1>3. SoundEntry(e)' /\ e.kind = "attempt" /\ e.req = r
    BY <1>0, <1>1, <1>2, RecordIsSound
  <1>4. Handler(r)'
    BY <1>1, <1>2, <1>3, HandlerMoves DEF Hydrating, Resolving
  <1> QED BY <1>1, <1>2, <1>3, <1>4, StepPreserves

\* What runs carries no dry-run constraint, and neither did its source.
LEMMA RunStep ==
  ASSUME IInv, NEW r \in Requests, Run(r)
  PROVE  IInv'
  <1>1. /\ Goto(r, "ran") /\ pc[r] = "running"
        /\ UNCHANGED <<now, config, durable, key, audit, docs, own, loaded, hydrated, restarts>>
    BY DEF Run, process
  <1>2. /\ TypeInv' /\ OnlyMoves(r)
        /\ pc'[r] = "ran" /\ kind'[r] = kind[r] /\ work'[r] = work[r] /\ began'[r] = began[r]
    BY <1>1, GotoMoves DEF IInv, TypeInv, Underway
  <1>3. Handler(r)'
    BY <1>1, <1>2, HandlerMoves DEF Hydrating, Resolving
  <1>4. ASSUME NEW x \in runs' \ runs PROVE SoundRun(x)'
    <2>1. x.src = work[r].src /\ ~work[r].verdict.dryRun
      BY DEF Run, ReachesExecutor
    <2>2. work[r] \in DocType /\ SameVerdict(work[r])'
      BY <1>1, <1>2, KnowledgeKept DEF IInv, Handler
    <2>3. work'[x.src].verdict.dryRun = work[r].verdict.dryRun /\ kind'[x.src] \in Issuing
      BY <1>2, <2>1, <2>2 DEF SameVerdict
    <2>4. x.src \in Requests
      BY <2>1, <2>2 DEF DocType
    <2> QED BY <2>1, <2>3, <2>4 DEF SoundRun
  <1> QED BY <1>1, <1>2, <1>3, <1>4, StepPreserves

LEMMA RecordResultStep ==
  ASSUME IInv, NEW r \in Requests, RecordResult(r)
  PROVE  IInv'
  <1>0. PICK e : e = RecordOf(r)
    OBVIOUS
  <1>1. /\ Goto(r, "done") /\ pc[r] = "ran" /\ audit' = audit \cup {e}
        /\ UNCHANGED <<now, config, durable, key, docs, runs, own, loaded, hydrated, restarts>>
    BY <1>0 DEF RecordResult, Append, process
  <1>2. /\ TypeInv' /\ OnlyMoves(r) /\ Handler(r)'
        /\ \A x \in audit' \ audit : SoundEntry(x)'
    BY <1>0, <1>1, AppendMoves DEF Ended
  <1> QED BY <1>1, <1>2, StepPreserves

\* A failed append leaves a sound record or none, and no document.
LEMMA AppendFailsStep ==
  ASSUME IInv, NEW r \in Requests, AppendFails(r)
  PROVE  IInv'
  <1>0. PICK e : e = RecordOf(r)
    OBVIOUS
  <1>1. /\ Goto(r, "failed") /\ pc[r] \in {"evaluated", "record", "checked", "ran"}
        /\ audit' = audit \cup {e} \/ audit' = audit
        /\ UNCHANGED <<now, config, durable, key, docs, runs, own, loaded, hydrated, restarts>>
    BY <1>0 DEF AppendFails, Append, process
  <1>2. CASE audit' = audit \cup {e}
    <2>1. /\ TypeInv' /\ OnlyMoves(r) /\ Handler(r)'
          /\ \A x \in audit' \ audit : SoundEntry(x)'
      BY <1>0, <1>1, <1>2, AppendMoves DEF Ended
    <2> QED BY <1>1, <2>1, StepPreserves
  <1>3. CASE audit' = audit
    <2>1. /\ TypeInv' /\ OnlyMoves(r)
          /\ pc'[r] = "failed" /\ kind'[r] = kind[r] /\ work'[r] = work[r] /\ began'[r] = began[r]
      BY <1>1, <1>3, GotoMoves DEF IInv, TypeInv, Ended
    <2>2. Handler(r)'
      BY <1>1, <2>1, HandlerMoves DEF Hydrating, Resolving
    <2> QED BY <1>1, <1>3, <2>1, <2>2, StepPreserves
  <1> QED BY <1>1, <1>2, <1>3

-----------------------------------------------------------------------------
\* A restart ends the handlers in flight.  If it forgets the key, no document
\* is sealed any more; if it keeps the key, it keeps the trail, unless the key
\* is configured and the trail is not durable.
LEMMA RestartStep == ASSUME IInv, Restart PROVE IInv'
  <1>1. TypeInv /\ MaxRestarts \in Nat
    BY VerdictsAssumption DEF IInv
  <1>2. /\ restarts' = restarts + 1 /\ restarts < MaxRestarts /\ config' \in Configs
        /\ key' = IF durable \/ SecretSet THEN key ELSE key + 1
        /\ audit' = IF durable THEN audit ELSE {}
        /\ pc' = [r \in Requests |-> IF pc[r] \in Ended THEN pc[r] ELSE "lost"]
        /\ own' = [r \in Requests |-> "none"] /\ loaded' = [r \in Requests |-> 0]
        /\ hydrated' = FALSE
        /\ UNCHANGED <<now, durable, docs, runs, kind, work, began>>
    BY DEF Restart
  <1>3. TypeInv'
    <2>1. restarts' \in 0..MaxRestarts /\ key' \in 1..(restarts' + 1)
      BY <1>1, <1>2 DEF TypeInv
    <2>2. pc' \in [Requests -> Ended \cup Underway]
      BY <1>2 DEF Ended
    <2>3. /\ own' \in [Requests -> {"none", "pending", "approved", "denied", "expired"}]
          /\ loaded' \in [Requests -> Nat]
      BY <1>2
    <2> QED BY <1>1, <1>2, <2>1, <2>2, <2>3 DEF TypeInv
  <1>4. ASSUME NEW d \in docs PROVE Genuine(d)'
    <2>1. Genuine(d)
      BY DEF IInv
    <2>2. d.key \in Nat /\ key \in Nat /\ d.key <= key /\ key <= key' /\ d.key <= key'
      BY <1>1, <1>2, <2>1 DEF Genuine, DocType, TypeInv
    <2>3. SameVerdict(d)'
      BY <1>2, <2>1 DEF Genuine, SameVerdict
    <2>4. IsSealed(d)' => Accounted(d)'
      <3>1. CASE durable
        BY <1>2, <2>1, <3>1 DEF Genuine, IsSealed, Accounted, Evaluated, Granted, Decisions
      <3>2. CASE ~durable /\ SecretSet
        BY <1>1, <3>2 DEF TypeInv, Accounted, Remembers
      <3>3. CASE ~durable /\ ~SecretSet
        BY <1>2, <2>2, <3>3 DEF IsSealed
      <3> QED BY <3>1, <3>2, <3>3
    <2> QED BY <2>1, <2>2, <2>3, <2>4 DEF Genuine
  <1>5. ASSUME NEW r \in Requests PROVE Handler(r)'
    <2>1. Handler(r) /\ TypeInv
      BY DEF IInv
    <2>2. pc'[r] \in Ended /\ (pc'[r] = "new" => pc[r] = "new")
      BY <1>2 DEF Ended
    <2>3. /\ kind[r] \in Issuing => work[r] \in DocType
          /\ kind[r] \in {"approve", "deny", "execute"} => work[r] \in DocType
      BY <2>1 DEF Handler
    <2>4. work[r] \in DocType /\ work[r].key <= key => work[r].key <= key'
      BY <1>1, <1>2 DEF DocType, TypeInv
    <2>5. SameVerdict(work[r]) => SameVerdict(work[r])'
      BY <1>2 DEF SameVerdict
    <2> QED BY <1>2, <2>1, <2>2, <2>3, <2>4, <2>5 DEF Handler, Hydrating, Resolving, Ended
  <1>6. \A e \in audit' : SoundEntry(e)'
    BY <1>2 DEF IInv, SoundEntry
  <1>7. \A x \in runs' : SoundRun(x)'
    BY <1>2 DEF IInv, SoundRun
  <1> QED BY <1>2, <1>3, <1>4, <1>5, <1>6, <1>7 DEF IInv

\* Nothing the invariant speaks of depends on the clock but its range.
LEMMA TickStep == ASSUME IInv, Tick PROVE IInv'
  <1>1. TypeInv /\ MaxTime \in Nat
    BY VerdictsAssumption DEF IInv
  <1>2. /\ now < MaxTime /\ now' = now + 1
        /\ UNCHANGED <<config, durable, key, audit, docs, runs, pc, kind, work, began, own,
                       loaded, hydrated, restarts>>
    BY DEF Tick, handlers, process
  <1>3. TypeInv'
    BY <1>1, <1>2 DEF TypeInv
  <1>4. \A d \in docs : Genuine(d)'
    BY <1>2 DEF IInv, Genuine, SameVerdict, IsSealed, Accounted, Evaluated, Granted, Decisions
  <1>5. \A r \in Requests : Handler(r)'
    BY <1>2 DEF IInv, Handler, SameVerdict, Accounted, Evaluated, Granted, Decisions
  <1>6. (\A e \in audit : SoundEntry(e)') /\ (\A x \in runs : SoundRun(x)')
    BY <1>2 DEF IInv, SoundEntry, SoundRun
  <1> QED BY <1>2, <1>3, <1>4, <1>5, <1>6 DEF IInv

\* A step that changes nothing keeps the invariant.
LEMMA StutterStep == ASSUME IInv, UNCHANGED vars PROVE IInv'
  <1>1. UNCHANGED <<now, config, durable, key, audit, docs, runs, pc, kind, work, began, own,
                    loaded, hydrated, restarts>>
    BY DEF vars
  <1>2. \A d \in docs : Genuine(d)'
    BY <1>1 DEF IInv, Genuine, SameVerdict, IsSealed, Accounted, Evaluated, Granted, Decisions
  <1>3. \A r \in Requests : Handler(r)'
    BY <1>1 DEF IInv, Handler, SameVerdict, Accounted, Evaluated, Granted, Decisions
  <1>4. (\A e \in audit : SoundEntry(e)') /\ (\A x \in runs : SoundRun(x)')
    BY <1>1 DEF IInv, SoundEntry, SoundRun
  <1> QED BY <1>1, <1>2, <1>3, <1>4 DEF IInv, TypeInv

\* A client's request keeps the invariant.
LEMMA AsksStep == ASSUME IInv, NEW r \in Requests, Asks(r) PROVE IInv'
  <1>1. Limits \subseteq 0..100 /\ NoLimit \in 0..100
    BY VerdictsAssumption DEF NoLimit
  <1>2. ASSUME NEW a \in Actions, NEW c \in Facts, NEW limit \in Limits,
               Preview(r, a, c, limit)
        PROVE  IInv'
    BY <1>2, PreviewStep
  <1>3. ASSUME NEW a \in Actions, NEW c \in Facts, NEW limit \in Limits,
               EvaluatePolicy(r, a, c, limit)
        PROVE  IInv'
    BY <1>1, <1>3, IssuedStep DEF EvaluatePolicy, process
  <1>4. ASSUME NEW a \in Actions, NEW c \in Facts, QueueProposal(r, a, c)
        PROVE  IInv'
    BY <1>1, <1>4, IssuedStep DEF QueueProposal
  <1> QED BY <1>2, <1>3, <1>4, ApproveStep, DenyStep, ExecuteStep, PollStep DEF Asks

\* A handler that goes on keeps the invariant.
LEMMA ProceedsStep == ASSUME IInv, NEW r \in Requests, Proceeds(r) PROVE IInv'
  BY TestFlagStep, SetFlagStep, LoadStep, LoadFailsStep, PresentStep, ResolveStep,
     ExpireStaleStep, RecordEvaluationStep, RecordDecisionStep, RecordAttemptStep,
     RunStep, RecordResultStep, AppendFailsStep DEF Proceeds

-----------------------------------------------------------------------------
\* What the handlers have established is established in every state.
THEOREM VerdictsInvariant == Spec => []IInv
  <1>1. IInv /\ [Next]_vars => IInv'
    BY AsksStep, ProceedsStep, RestartStep, TickStep, StutterStep DEF Next
  <1> QED BY InitIInv, <1>1, PTL DEF Spec

\* Type correctness, the clients' documents included: whatever tier and risk
\* a document carries is one the policy engine can give.
THEOREM VerdictsTypeCorrect == Spec => []TypeOK
  <1>1. IInv => TypeOK
    <2> SUFFICES ASSUME IInv PROVE TypeOK
      OBVIOUS
    <2>1. key \in 1..(MaxRestarts + 1)
      BY VerdictsAssumption DEF IInv, TypeInv
    <2>2. \A d \in docs :
            d.src \in Requests /\ d.verdict.tier \in Tiers /\ d.verdict.risk \in 0..100
      BY DEF IInv, Genuine, DocType, VerdictType
    <2> QED BY <2>1, <2>2 DEF IInv, TypeInv, TypeOK
  <1> QED BY <1>1, VerdictsInvariant, PTL

\* No approval on the trail is hollow (routes.approve): it was given within
\* the verdict's window, to a tier that can be granted.
THEOREM NoHollowApprovalTheorem == Spec => []NoHollowApproval
  <1>1. IInv => NoHollowApproval
    BY DEF IInv, SoundEntry, NoHollowApproval, Decisions
  <1> QED BY <1>1, VerdictsInvariant, PTL

\* What was evaluated as a dry run never reaches a live executor, however
\* often the process restarts with the gates open (executors.Router).
THEOREM RehearsalsTheorem == Spec => []RehearsalsStayRehearsals
  <1>1. IInv => RehearsalsStayRehearsals
    BY DEF IInv, SoundRun, RehearsalsStayRehearsals
  <1> QED BY <1>1, VerdictsInvariant, PTL

\* Where the trail outlives the signing key, or the key dies with the trail,
\* every document the service accepts was evaluated on the trail
\* (routes.evaluate_policy records before it answers).
THEOREM AcceptedMeansEvaluatedTheorem ==
  ASSUME Remembers PROVE Spec => []AcceptedMeansEvaluated
  <1>1. IInv => AcceptedMeansEvaluated
    BY DEF IInv, Genuine, Accounted, Evaluated, AcceptedMeansEvaluated
  <1> QED BY <1>1, VerdictsInvariant, PTL

\* In such a deployment nothing runs live but on a recorded attempt, a
\* recorded evaluation and, unless it was autonomous, a recorded approval.
THEOREM RunsAreAccountableTheorem ==
  ASSUME Remembers PROVE Spec => RunsAreAccountable
  <1> DEFINE Recorded(x) ==
        /\ \E e \in audit : e.kind = "evaluation" /\ e.req = x.src
        /\ \E e \in audit : e.kind = "attempt" /\ e.req = x.req
        /\ x.tier # "autonomous" =>
             \E e \in Decisions : e.choice = "approved" /\ e.req = x.by /\ e.src = x.src
  <1>1. ASSUME IInv, NEW r \in Requests, Run(r), NEW x \in runs' \ runs
        PROVE  Recorded(x)
    <2>1. /\ x.req = r /\ x.src = work[r].src /\ x.tier = work[r].verdict.tier
          /\ x.by = work[r].verdict.grantedBy
      BY <1>1 DEF Run
    <2>2. Handler(r) /\ pc[r] = "running"
      BY <1>1 DEF IInv, Run
    <2>3. Evaluated(work[r].src) /\ Granted(work[r])
      BY <2>2 DEF Handler, Accounted
    <2>4. work[r].verdict.tier = "autonomous" \/ work[r].verdict.grantedBy # Nobody
      BY <2>2 DEF Handler
    <2> QED BY <2>1, <2>2, <2>3, <2>4 DEF Handler, Evaluated, Granted
  <1>2. ASSUME Next, ~\E r \in Requests : Run(r) PROVE runs' = runs
    <2>1. ASSUME NEW r \in Requests, Asks(r) PROVE runs' = runs
      BY <2>1 DEF Asks, Preview, EvaluatePolicy, QueueProposal, Approve, Deny, Execute, Poll
    <2>2. ASSUME NEW r \in Requests, Proceeds(r) PROVE runs' = runs
      BY <1>2, <2>2 DEF Proceeds, TestFlag, SetFlag, Load, LoadFails, Present, Resolve,
        ExpireStale, RecordEvaluation, RecordDecision, RecordAttempt, RecordResult, AppendFails
    <2> QED BY <1>2, <2>1, <2>2 DEF Next, Restart, Tick
  <1>3. ASSUME IInv, [Next]_vars PROVE [\A x \in runs' \ runs : Recorded(x)]_vars
    BY <1>1, <1>2, <1>3 DEF vars
  <1> QED BY <1>3, VerdictsInvariant, PTL DEF Spec, RunsAreAccountable
=============================================================================

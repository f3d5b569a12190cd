---------------------------- MODULE PlatformProofs ----------------------------
(***************************************************************************)
(* What holds of the document store for any number of requests at work on  *)
(* it, of any kinds, from any store at rest, however they interleave and   *)
(* wherever they die.                                                      *)
(*                                                                         *)
(* The inductive invariant says of every request at work what is still     *)
(* ahead of it, position by position, and what of it the store already     *)
(* holds.  A second part says whose each address is, a third what the      *)
(* documents hold and the calls ahead will save.                           *)
(***************************************************************************)
EXTENDS Platform, FiniteSetTheorems, TLAPS

MembershipOf(u) == <<"membership", u>>
TheCompany == <<"company", Company>>
TrainingOf(u) == <<"training", u>>
ThePlayer == <<"player", "token">>

Roles == {"owner", "admin", "employee"}
IsCompany(c) == c = [owner |-> c.owner, invite |-> c.invite, intake |-> c.intake]
Records == [passed : BOOLEAN, verifiedPassed : BOOLEAN]
Plays == [attempts : Nat, streak : Nat, bestStreak : Nat, cleared : SUBSET Scenarios, best : [Scenarios -> Nat]]

-----------------------------------------------------------------------------
(* What a call is *)

(* A call that has to do with no membership, company, training record or player. *)
Related == {"MEMBER", "MEMBEROF", "ORG", "INVITE", "TRAINING", "PLAYER"}
Plain(t) ==
    \/ t.call \in {"put", "delete"} /\ t.key[1] \notin Related
    \/ t.call = "new" /\ t.key[1] \notin Related /\ t.else[1] \notin Related
    \/ t.call \in {"password", "acks", "verification", "answer", "index"}
    \/ t.call = "since" /\ t.of \in FeedNames
    \/ t.call = "fetch" /\ t.of.feed \in FeedNames

(* What a call makes of the document under its key. *)
Change(t) == IF t.call = "put" THEN t.value ELSE None
Sets(t, key) == t.call \in {"put", "delete"} /\ t.key = key
Alters(about, topic, changes) == topic \in DOMAIN about /\ about[topic] \in changes

(* The two calls of a change of a membership. *)
Halves(t, then, u) ==
    /\ Sets(t, Member(u)) /\ Sets(then, MemberOf(u))
    /\ then.call = t.call /\ Change(then) = Change(t)
ChangesRole(t, u, about) ==
    /\ Sets(t, MemberOf(u)) /\ (t.call = "put" => t.value \in Roles)
    /\ Alters(about, MembershipOf(u), {Change(t)})

SetsMember(s, i) == i + 1 \in DOMAIN s /\ Halves(s[i], s[i + 1], s[i].key[2])
SetsMemberOf(s, i, about) ==
    /\ ChangesRole(s[i], s[i].key[2], about)
    /\ i = 1 \/ Halves(s[i - 1], s[i], s[i].key[2])
ReadsMembership(t, about) == t.call = "memberships" /\ Alters(about, MembershipOf(t.of), {None})

(* A company saved with a new code has the code's document behind it. *)
SavesCompany(s, i, about) ==
    /\ s[i].call = "put" /\ s[i].key = Org /\ IsCompany(s[i].value)
    /\ \/ Alters(about, TheCompany, {"settings", "intake"})
       \/ /\ Alters(about, TheCompany, {"create", "rotate"})
          /\ i + 1 \in DOMAIN s /\ s[i + 1].call = "put" /\ s[i + 1].key = Invite(s[i].value.invite)
SavesInvite(t, about) ==
    t.call = "put" /\ t.key[1] = "INVITE" /\ Alters(about, TheCompany, {"create", "rotate"})
DropsInvite(s, i, about) ==
    /\ s[i].call = "delete" /\ s[i].key[1] = "INVITE" /\ Alters(about, TheCompany, {"rotate"})
    /\ i + 1 \in DOMAIN s /\ s[i + 1].call = "put" /\ s[i + 1].key = Org

SavesRecord(t, u, about, h) ==
    t.call = "put" /\ t.key = Training(u) /\ t.value \in Records /\ Alters(about, TrainingOf(u), {h})
DropsRecord(t, left) == t.call = "delete" /\ t.key = Training(t.key[2]) /\ t.key[2] \in left
SavesPlay(t, about, h) ==
    t.call = "put" /\ t.key = Player /\ t.value \in Plays /\ Alters(about, ThePlayer, {h})

-----------------------------------------------------------------------------
(* What the calls ahead of a request are: a result is saved alone. *)

IsList(s) == s \in Seq({s[i] : i \in DOMAIN s})

FitsAt(s, i, about, left) ==
    \/ Plain(s[i])
    \/ SetsMember(s, i) \/ SetsMemberOf(s, i, about) \/ ReadsMembership(s[i], about)
    \/ SavesCompany(s, i, about) \/ SavesInvite(s[i], about) \/ DropsInvite(s, i, about)
    \/ DropsRecord(s[i], left)
Ahead(s, about, left) == IsList(s) /\ \A i \in DOMAIN s : FitsAt(s, i, about, left)
Alone(s, about, h) ==
    IsList(s) /\ DOMAIN s = {1} /\ (SavesPlay(s[1], about, h) \/ \E u : SavesRecord(s[1], u, about, h))
Fits(h, s, about, left) == Ahead(s, about, left) \/ Alone(s, about, h)

(* A call ahead loses nothing of what the store holds. *)
KeepsCode(t, about) ==
    t.call = "put" /\ t.key = Org /\ Alters(about, TheCompany, {"settings", "intake"}) =>
        Held(Org) /\ t.value.invite = doc[Org].invite
KeepsPass(t, u) ==
    t.call = "put" /\ t.key = Training(u) => (Record(u).passed => t.value.passed)
KeepsBest(t) ==
    t.call = "put" /\ t.key = Player /\ Held(Player) =>
        /\ \A scenario \in Scenarios : t.value.best[scenario] >= doc[Player].best[scenario]
        /\ doc[Player].cleared \subseteq t.value.cleared

-----------------------------------------------------------------------------
(* The inductive invariant *)

About(h) == handler[h].about
Todo(h) == handler[h].todo
Works(h, topic) == Working(h) /\ topic \in DOMAIN About(h)

TypeInv ==
    /\ doc = [key \in DOMAIN doc |-> doc[key]] /\ IsFiniteSet(DOMAIN doc)
    /\ DOMAIN handler = Handlers /\ handler = [h \in Handlers |-> handler[h]]
    /\ \A h \in Handlers : handler[h] = [op |-> handler[h].op, about |-> About(h), todo |-> Todo(h)]
    /\ published \in [FeedNames -> [stamps : Seq(Nat), window : Nat]]

StoredWell ==
    /\ \A u : Held(Training(u)) => doc[Training(u)] \in Records
    /\ Held(Org) => IsCompany(doc[Org])
    /\ Held(Player) => doc[Player] \in Plays

Shapes == \A h \in Handlers : Fits(h, Todo(h), About(h), leaving)

(* Requests that change one thing at once, and do not cross, make the same of it. *)
Alike ==
    \A topic : topic \notin crossed =>
        \A h, k \in Handlers : Works(h, topic) /\ Works(k, topic) => About(h)[topic] = About(k)[topic]

AtSecond(h, u) == Working(h) /\ Sets(Todo(h)[1], MemberOf(u))
FirstIsDone(h, u) ==
    IF Todo(h)[1].call = "put" THEN Held(Member(u)) /\ doc[Member(u)] = Todo(h)[1].value ELSE ~Held(Member(u))
Agree(u) == (Held(Member(u)) <=> Held(MemberOf(u))) /\ (Held(Member(u)) => doc[Member(u)] = doc[MemberOf(u)])

(* The two documents differ only between the two calls of a change. *)
Memberships ==
    \A u : MembershipOf(u) \notin crossed =>
        /\ Agree(u) \/ \E h \in Handlers : AtSecond(h, u)
        /\ \A h \in Handlers : AtSecond(h, u) => FirstIsDone(h, u)

AtInvite(h, code) == Working(h) /\ Todo(h)[1].call = "put" /\ Todo(h)[1].key = Invite(code)
AtNewCode(h) ==
    Working(h) /\ Todo(h)[1].call = "put" /\ Todo(h)[1].key = Org /\ Alters(About(h), TheCompany, {"rotate"})

(* The company's code has no document only while the document, or a newer code, is still to be written. *)
CodeIsGood ==
    TheCompany \notin crossed /\ Held(Org) =>
        \/ Held(Invite(doc[Org].invite))
        \/ \E h \in Handlers : AtInvite(h, doc[Org].invite) \/ AtNewCode(h)

CodeIsKept ==
    TheCompany \notin crossed => \A h \in Handlers : \A i \in DOMAIN Todo(h) : KeepsCode(Todo(h)[i], About(h))
PassIsKept ==
    \A u : TrainingOf(u) \notin crossed => \A h \in Handlers : \A i \in DOMAIN Todo(h) : KeepsPass(Todo(h)[i], u)
BestIsKept ==
    ThePlayer \notin crossed => \A h \in Handlers : \A i \in DOMAIN Todo(h) : KeepsBest(Todo(h)[i])

IInv ==
    /\ TypeInv /\ StoredWell /\ Shapes /\ Alike
    /\ Memberships /\ CodeIsGood /\ CodeIsKept /\ PassIsKept /\ BestIsKept

-----------------------------------------------------------------------------
(* Sequences of calls *)

LEMMA ListFacts ==
  ASSUME NEW s, IsList(s)
  PROVE  /\ Len(s) \in Nat /\ DOMAIN s = 1..Len(s) /\ (s # <<>> => Len(s) > 0 /\ 1 \in DOMAIN s)
         /\ Head(s) = s[1]
BY DEF IsList

LEMMA ShortLists ==
  /\ IsList(<<>>) /\ DOMAIN <<>> = {}
  /\ \A a : IsList(<<a>>) /\ DOMAIN <<a>> = {1} /\ <<a>>[1] = a
  /\ \A a, b : /\ IsList(<<a, b>>) /\ DOMAIN <<a, b>> = {1, 2}
               /\ <<a, b>>[1] = a /\ <<a, b>>[2] = b
<1>1. IsList(<<>>) /\ DOMAIN <<>> = {}
  BY DEF IsList
<1>2. ASSUME NEW a PROVE IsList(<<a>>) /\ DOMAIN <<a>> = {1} /\ <<a>>[1] = a
  <2>1. DOMAIN <<a>> = {1} /\ <<a>>[1] = a
    OBVIOUS
  <2>2. {<<a>>[i] : i \in DOMAIN <<a>>} = {a}
    BY <2>1
  <2> QED BY <2>1, <2>2 DEF IsList
<1>3. ASSUME NEW a, NEW b PROVE IsList(<<a, b>>) /\ DOMAIN <<a, b>> = {1, 2} /\ <<a, b>>[1] = a /\ <<a, b>>[2] = b
  <2>1. DOMAIN <<a, b>> = {1, 2} /\ <<a, b>>[1] = a /\ <<a, b>>[2] = b
    OBVIOUS
  <2>2. {<<a, b>>[i] : i \in DOMAIN <<a, b>>} = {a, b}
    BY <2>1
  <2> QED BY <2>1, <2>2 DEF IsList
<1> QED BY <1>1, <1>2, <1>3

LEMMA LongLists ==
  /\ \A a, b, c : /\ IsList(<<a, b, c>>) /\ DOMAIN <<a, b, c>> = {1, 2, 3}
                  /\ <<a, b, c>>[1] = a /\ <<a, b, c>>[2] = b /\ <<a, b, c>>[3] = c
  /\ \A a, b, c, d : /\ IsList(<<a, b, c, d>>) /\ DOMAIN <<a, b, c, d>> = {1, 2, 3, 4}
                     /\ <<a, b, c, d>>[1] = a /\ <<a, b, c, d>>[2] = b
                     /\ <<a, b, c, d>>[3] = c /\ <<a, b, c, d>>[4] = d
<1>1. ASSUME NEW a, NEW b, NEW c
      PROVE  /\ IsList(<<a, b, c>>) /\ DOMAIN <<a, b, c>> = {1, 2, 3}
             /\ <<a, b, c>>[1] = a /\ <<a, b, c>>[2] = b /\ <<a, b, c>>[3] = c
  <2>1. DOMAIN <<a, b, c>> = {1, 2, 3} /\ <<a, b, c>>[1] = a /\ <<a, b, c>>[2] = b /\ <<a, b, c>>[3] = c
    OBVIOUS
  <2>2. {<<a, b, c>>[i] : i \in DOMAIN <<a, b, c>>} = {a, b, c}
    BY <2>1
  <2> QED BY <2>1, <2>2 DEF IsList
<1>2. ASSUME NEW a, NEW b, NEW c, NEW d
      PROVE  /\ IsList(<<a, b, c, d>>) /\ DOMAIN <<a, b, c, d>> = {1, 2, 3, 4}
             /\ <<a, b, c, d>>[1] = a /\ <<a, b, c, d>>[2] = b
             /\ <<a, b, c, d>>[3] = c /\ <<a, b, c, d>>[4] = d
  <2>1. /\ DOMAIN <<a, b, c, d>> = {1, 2, 3, 4}
        /\ <<a, b, c, d>>[1] = a /\ <<a, b, c, d>>[2] = b /\ <<a, b, c, d>>[3] = c /\ <<a, b, c, d>>[4] = d
    OBVIOUS
  <2>2. {<<a, b, c, d>>[i] : i \in DOMAIN <<a, b, c, d>>} = {a, b, c, d}
    BY <2>1
  <2> QED BY <2>1, <2>2 DEF IsList
<1> QED BY <1>1, <1>2

LEMMA FunctionIsList ==
  ASSUME NEW n \in Nat, NEW f, f = [i \in 1..n |-> f[i]]
  PROVE  IsList(f) /\ Len(f) = n
<1>1. f \in [1..n -> {f[i] : i \in DOMAIN f}]
  OBVIOUS
<1> QED BY <1>1 DEF IsList

LEMMA SequenceIsList ==
  ASSUME NEW S, NEW t \in Seq(S)
  PROVE  IsList(t)
<1>1. Len(t) \in Nat /\ DOMAIN t = 1..Len(t) /\ t \in [1..Len(t) -> S]
  OBVIOUS
<1>2. t = [i \in 1..Len(t) |-> t[i]]
  BY <1>1
<1> QED BY <1>1, <1>2, FunctionIsList

LEMMA TailFacts ==
  ASSUME NEW s, IsList(s), s # <<>>
  PROVE  /\ IsList(Tail(s)) /\ Len(s) \in Nat \ {0} /\ DOMAIN Tail(s) = 1..Len(s) - 1
         /\ \A i \in 1..Len(s) - 1 : Tail(s)[i] = s[i + 1] /\ i + 1 \in DOMAIN s
<1> DEFINE S == {s[i] : i \in DOMAIN s}
<1>1. s \in Seq(S)
  BY DEF IsList
<1> HIDE DEF S
<1>2. Len(s) \in Nat \ {0} /\ DOMAIN s = 1..Len(s)
  BY <1>1
<1>3. Tail(s) \in Seq(S) /\ Len(Tail(s)) = Len(s) - 1 /\ \A i \in 1..Len(s) - 1 : Tail(s)[i] = s[i + 1]
  BY <1>1, <1>2
<1>4. DOMAIN Tail(s) = 1..Len(s) - 1
  BY <1>2, <1>3
<1>5. IsList(Tail(s))
  BY <1>3, SequenceIsList
<1> QED BY <1>2, <1>3, <1>4, <1>5

LEMMA JoinFacts ==
  ASSUME NEW p, NEW s, IsList(p), IsList(s)
  PROVE  /\ IsList(p \o s) /\ Len(p) \in Nat /\ Len(s) \in Nat
         /\ DOMAIN (p \o s) = 1..Len(p) + Len(s)
         /\ \A i \in 1..Len(p) : (p \o s)[i] = p[i] /\ i \in DOMAIN p
         /\ \A i \in Len(p) + 1..Len(p) + Len(s) : (p \o s)[i] = s[i - Len(p)] /\ i - Len(p) \in DOMAIN s
         /\ (p \o s = <<>>) <=> p = <<>> /\ s = <<>>
<1> DEFINE A == {p[i] : i \in DOMAIN p}
           B == {s[i] : i \in DOMAIN s}
<1>1. p \in Seq(A) /\ s \in Seq(B)
  BY DEF IsList
<1> HIDE DEF A, B
<1>2. p \in Seq(A \cup B) /\ s \in Seq(A \cup B)
  BY <1>1
<1>3. /\ p \o s \in Seq(A \cup B) /\ Len(p \o s) = Len(p) + Len(s) /\ Len(p) \in Nat /\ Len(s) \in Nat
      /\ DOMAIN p = 1..Len(p) /\ DOMAIN s = 1..Len(s)
      /\ \A i \in 1..Len(p) : (p \o s)[i] = p[i]
      /\ \A i \in Len(p) + 1..Len(p) + Len(s) : (p \o s)[i] = s[i - Len(p)]
  BY <1>2
<1>4. IsList(p \o s)
  BY <1>3, SequenceIsList
<1>5. (p \o s = <<>>) <=> p = <<>> /\ s = <<>>
  BY <1>2, <1>3
<1>6. DOMAIN (p \o s) = 1..Len(p) + Len(s)
  BY <1>3
<1> QED BY <1>3, <1>4, <1>5, <1>6

LEMMA SetToSeqFacts ==
  ASSUME NEW S, IsFiniteSet(S)
  PROVE  /\ IsList(SetToSeq(S)) /\ Cardinality(S) \in Nat
         /\ DOMAIN SetToSeq(S) = 1..Cardinality(S)
         /\ \A i \in DOMAIN SetToSeq(S) : SetToSeq(S)[i] \in S
<1> DEFINE n == Cardinality(S)
           t == SetToSeq(S)
<1>1. n \in Nat /\ ExistsBijection(1..n, S)
  BY FS_CardinalityType
<1>2. \E f \in [1..n -> S] : IsInjective(f)
  BY <1>1 DEF ExistsBijection, Bijection, Injection
<1>3. t \in [1..n -> S]
  BY <1>2 DEF SetToSeq
<1> HIDE DEF n, t
<1>4. IsList(t)
  BY <1>1, <1>3, FunctionIsList
<1> QED BY <1>1, <1>3, <1>4 DEF n, t

-----------------------------------------------------------------------------
(* Lists of calls, and what they may be *)

LEMMA DocumentsDiffer ==
  /\ \A u, v : /\ Member(u) # MemberOf(v) /\ (Member(u) = Member(v) => u = v) /\ (MemberOf(u) = MemberOf(v) => u = v)
               /\ (Training(u) = Training(v) => u = v)
               /\ Member(u) # Org /\ MemberOf(u) # Org /\ Training(u) # Org /\ Invite(u) # Org
               /\ Member(u) # Player /\ MemberOf(u) # Player /\ Training(u) # Player /\ Invite(u) # Player
               /\ Training(u) # Member(v) /\ Training(u) # MemberOf(v)
               /\ Invite(u) # Member(v) /\ Invite(u) # MemberOf(v) /\ Invite(u) # Training(v)
  /\ Org # Player
  /\ \A u : /\ Member(u)[1] = "MEMBER" /\ Member(u)[2] = u /\ MemberOf(u)[1] = "MEMBEROF" /\ MemberOf(u)[2] = u
            /\ Training(u)[1] = "TRAINING" /\ Training(u)[2] = u /\ Invite(u)[1] = "INVITE" /\ Invite(u)[2] = u
  /\ Org[1] = "ORG" /\ Player[1] = "PLAYER"
BY DEF Member, MemberOf, Training, Org, Invite, Player

LEMMA TopicsDiffer ==
  \A u : /\ MembershipOf(u) # TheCompany /\ MembershipOf(u) # ThePlayer /\ \A v : MembershipOf(u) # TrainingOf(v)
         /\ TrainingOf(u) # TheCompany /\ TrainingOf(u) # ThePlayer /\ TheCompany # ThePlayer
         /\ \A v : /\ MembershipOf(u) = MembershipOf(v) => u = v
                   /\ TrainingOf(u) = TrainingOf(v) => u = v
BY DEF MembershipOf, TheCompany, TrainingOf, ThePlayer

PlainList(s) == IsList(s) /\ \A i \in DOMAIN s : Plain(s[i])
New(s) == s # <<>> => \A u : ~Sets(s[1], MemberOf(u))
Harmless(t) == t.call # "put" \/ t.key[1] \notin {"ORG", "TRAINING", "PLAYER"}

(* The document a call is on says which of the shapes it has. *)
LEMMA WhatFits ==
  ASSUME NEW s, NEW i, NEW about, NEW left, FitsAt(s, i, about, left)
  PROVE  /\ s[i].call = "new" => Plain(s[i])
         /\ \A u : Sets(s[i], MemberOf(u)) =>
              ChangesRole(s[i], u, about) /\ (i = 1 \/ Halves(s[i - 1], s[i], u))
         /\ \A u : Sets(s[i], Member(u)) => i + 1 \in DOMAIN s /\ Halves(s[i], s[i + 1], u)
         /\ \A u : Sets(s[i], Training(u)) => s[i].call = "delete" /\ u \in left
         /\ Sets(s[i], Org) => SavesCompany(s, i, about)
         /\ s[i].call = "put" /\ s[i].key[1] = "INVITE" => SavesInvite(s[i], about)
         /\ s[i].call = "delete" /\ s[i].key[1] = "INVITE" => DropsInvite(s, i, about)
         /\ ~Sets(s[i], Player)
<1> USE DEF Sets, Related
<1>1. CASE Plain(s[i])
  BY <1>1, DocumentsDiffer DEF Plain
<1>2. CASE SetsMember(s, i)
  BY <1>2, DocumentsDiffer DEF SetsMember, Halves
<1>3. CASE SetsMemberOf(s, i, about)
  BY <1>3, DocumentsDiffer DEF SetsMemberOf, ChangesRole
<1>4. CASE ReadsMembership(s[i], about)
  BY <1>4 DEF ReadsMembership
<1>5. CASE SavesCompany(s, i, about) \/ SavesInvite(s[i], about) \/ DropsInvite(s, i, about) \/ DropsRecord(s[i], left)
  BY <1>5, DocumentsDiffer DEF SavesCompany, SavesInvite, DropsInvite, DropsRecord
<1> QED BY <1>1, <1>2, <1>3, <1>4, <1>5 DEF FitsAt

LEMMA PlainIsHarmless ==
  ASSUME NEW t, Plain(t)
  PROVE  Harmless(t) /\ \A u : ~Sets(t, MemberOf(u)) /\ ~Sets(t, Member(u))
BY DocumentsDiffer DEF Plain, Harmless, Sets, Related

LEMMA PlainListFits ==
  ASSUME NEW s, PlainList(s)
  PROVE  /\ \A about, left : Ahead(s, about, left)
         /\ New(s) /\ \A i \in DOMAIN s : Harmless(s[i])
BY PlainIsHarmless, ListFacts DEF PlainList, Ahead, FitsAt, New

LEMMA PlainJoin ==
  ASSUME NEW p, NEW q, PlainList(p), PlainList(q)
  PROVE  PlainList(p \o q)
<1>1. IsList(p) /\ IsList(q)
  BY DEF PlainList
<1>2. ASSUME NEW i \in DOMAIN (p \o q) PROVE Plain((p \o q)[i])
  <2>1. CASE i \in 1..Len(p)
    BY <1>1, <2>1, JoinFacts DEF PlainList
  <2>2. CASE i \in Len(p) + 1..Len(p) + Len(q)
    <3>1. (p \o q)[i] = q[i - Len(p)] /\ i - Len(p) \in DOMAIN q
      BY <1>1, <2>2, JoinFacts
    <3> QED BY <3>1 DEF PlainList
  <2> QED BY <1>1, <2>1, <2>2, JoinFacts
<1> QED BY <1>1, <1>2, JoinFacts DEF PlainList

LEMMA ElementsOfJoin ==
  ASSUME NEW p, NEW q, IsList(p), IsList(q), NEW i \in DOMAIN (p \o q)
  PROVE  \/ \E j \in DOMAIN p : (p \o q)[i] = p[j]
         \/ \E j \in DOMAIN q : (p \o q)[i] = q[j]
<1>1. CASE i \in 1..Len(p)
  BY <1>1, JoinFacts
<1>2. CASE i \in Len(p) + 1..Len(p) + Len(q)
  <2>1. (p \o q)[i] = q[i - Len(p)] /\ i - Len(p) \in DOMAIN q
    BY <1>2, JoinFacts
  <2> QED BY <2>1
<1> QED BY <1>1, <1>2, JoinFacts

LEMMA AheadOfTail ==
  ASSUME NEW s, NEW about, NEW left, Ahead(s, about, left), s # <<>>
  PROVE  /\ Ahead(Tail(s), about, left)
         /\ (\A u : ~Sets(s[1], Member(u))) => New(Tail(s))
<1> DEFINE t == Tail(s)
<1>1. /\ IsList(s) /\ IsList(t) /\ Len(s) \in Nat \ {0} /\ DOMAIN t = 1..Len(s) - 1 /\ DOMAIN s = 1..Len(s)
      /\ \A i \in DOMAIN t : t[i] = s[i + 1] /\ i + 1 \in DOMAIN s
  BY TailFacts, ListFacts DEF Ahead
<1> HIDE DEF t
<1>2. ASSUME NEW i \in DOMAIN t PROVE FitsAt(t, i, about, left)
  <2>1. FitsAt(s, i + 1, about, left) /\ t[i] = s[i + 1] /\ i \in Nat \ {0} /\ i + 1 \in DOMAIN s
    BY <1>1 DEF Ahead
  <2>2. i + 2 \in DOMAIN s => i + 1 \in DOMAIN t /\ t[i + 1] = s[i + 2]
    BY <1>1, <2>1
  <2>3. i # 1 => i - 1 \in DOMAIN t /\ t[i - 1] = s[i]
    BY <1>1, <2>1
  <2>4. (i + 1) + 1 = i + 2 /\ (i + 1) - 1 = i /\ i + 1 # 1
    BY <2>1
  <2>5. SetsMember(s, i + 1) => SetsMember(t, i)
    BY <2>1, <2>2, <2>4 DEF SetsMember
  <2>6. SetsMemberOf(s, i + 1, about) => SetsMemberOf(t, i, about)
    BY <2>1, <2>3, <2>4 DEF SetsMemberOf
  <2>7. SavesCompany(s, i + 1, about) => SavesCompany(t, i, about)
    BY <2>1, <2>2, <2>4 DEF SavesCompany
  <2>8. DropsInvite(s, i + 1, about) => DropsInvite(t, i, about)
    BY <2>1, <2>2, <2>4 DEF DropsInvite
  <2> QED BY <2>1, <2>5, <2>6, <2>7, <2>8 DEF FitsAt
<1>3. ASSUME t # <<>>, NEW u, Sets(t[1], MemberOf(u)) PROVE \E v : Sets(s[1], Member(v))
  <2>1. 1 \in DOMAIN t
    BY <1>1, <1>3, ListFacts
  <2>2. t[1] = s[2] /\ 2 \in DOMAIN s
    BY <1>1, <2>1
  <2>3. FitsAt(s, 2, about, left)
    BY <2>2 DEF Ahead
  <2>4. 2 = 1 \/ Halves(s[2 - 1], s[2], u)
    BY <1>3, <2>2, <2>3, WhatFits
  <2>5. Halves(s[1], s[2], u)
    BY <2>4
  <2> QED BY <2>5 DEF Halves
<1>4. (\A u : ~Sets(s[1], Member(u))) => New(t)
  BY <1>3 DEF New
<1> QED BY <1>1, <1>2, <1>4 DEF Ahead, t

LEMMA AheadOfJoin ==
  ASSUME NEW p, NEW q, NEW about, NEW left, Ahead(p, about, left), Ahead(q, about, left), New(q)
  PROVE  Ahead(p \o q, about, left) /\ (New(p) => New(p \o q))
<1> DEFINE t == p \o q
           n == Len(p)
<1>1. /\ IsList(p) /\ IsList(q) /\ IsList(t) /\ n \in Nat /\ Len(q) \in Nat
      /\ DOMAIN t = 1..n + Len(q) /\ DOMAIN p = 1..n /\ DOMAIN q = 1..Len(q)
      /\ \A i \in 1..n : t[i] = p[i]
      /\ \A i \in n + 1..n + Len(q) : t[i] = q[i - n] /\ i - n \in DOMAIN q
  BY JoinFacts, ListFacts DEF Ahead
<1> HIDE DEF t, n
<1>2. ASSUME NEW i \in DOMAIN t, i <= n PROVE FitsAt(t, i, about, left)
  <2>1. FitsAt(p, i, about, left) /\ t[i] = p[i] /\ i \in Nat \ {0}
    BY <1>1, <1>2 DEF Ahead
  <2>2. i + 1 \in DOMAIN p => i + 1 \in DOMAIN t /\ t[i + 1] = p[i + 1]
    BY <1>1, <2>1
  <2>3. i # 1 => t[i - 1] = p[i - 1]
    BY <1>1, <1>2, <2>1
  <2>4. SetsMember(p, i) => SetsMember(t, i)
    BY <2>1, <2>2 DEF SetsMember
  <2>5. SetsMemberOf(p, i, about) => SetsMemberOf(t, i, about)
    BY <2>1, <2>3 DEF SetsMemberOf
  <2>6. SavesCompany(p, i, about) => SavesCompany(t, i, about)
    BY <2>1, <2>2 DEF SavesCompany
  <2>7. DropsInvite(p, i, about) => DropsInvite(t, i, about)
    BY <2>1, <2>2 DEF DropsInvite
  <2> QED BY <2>1, <2>4, <2>5, <2>6, <2>7 DEF FitsAt
<1>3. ASSUME NEW i \in DOMAIN t, i > n PROVE FitsAt(t, i, about, left)
  <2> DEFINE j == i - n
  <2>1. j \in DOMAIN q /\ t[i] = q[j] /\ i \in n + 1..n + Len(q) /\ j \in Nat \ {0} /\ j + n = i
    BY <1>1, <1>3
  <2>2. j + 1 \in DOMAIN q => i + 1 \in DOMAIN t /\ t[i + 1] = q[j + 1]
    <3>1. SUFFICES ASSUME j + 1 \in DOMAIN q PROVE i + 1 \in n + 1..n + Len(q)
      BY <1>1, <2>1, (i + 1) - n = j + 1
    <3> QED BY <1>1, <2>1, <3>1
  <2>3. j # 1 => t[i - 1] = q[j - 1]
    <3>1. SUFFICES ASSUME j # 1 PROVE i - 1 \in n + 1..n + Len(q)
      BY <1>1, <2>1, (i - 1) - n = j - 1
    <3> QED BY <1>1, <2>1, <3>1
  <2>4. FitsAt(q, j, about, left) /\ q # <<>>
    BY <2>1, ShortLists DEF Ahead
  <2> HIDE DEF j
  <2>5. SetsMember(q, j) => SetsMember(t, i)
    BY <2>1, <2>2 DEF SetsMember
  <2>6. SetsMemberOf(q, j, about) => SetsMemberOf(t, i, about)
    BY <2>1, <2>3, <2>4 DEF SetsMemberOf, New, ChangesRole
  <2>7. SavesCompany(q, j, about) => SavesCompany(t, i, about)
    BY <2>1, <2>2 DEF SavesCompany
  <2>8. DropsInvite(q, j, about) => DropsInvite(t, i, about)
    BY <2>1, <2>2 DEF DropsInvite
  <2> QED BY <2>1, <2>4, <2>5, <2>6, <2>7, <2>8 DEF FitsAt
<1>4. Ahead(t, about, left)
  BY <1>1, <1>2, <1>3 DEF Ahead
<1>5. ASSUME New(p) PROVE New(t)
  <2>1. CASE n = 0
    <3>1. ASSUME t # <<>> PROVE 1 \in DOMAIN q /\ t[1] = q[1]
      <4>1. 1 \in DOMAIN t
        BY <1>1, <3>1, ListFacts
      <4>2. 1 \in n + 1..n + Len(q) /\ 1 - n = 1
        BY <1>1, <2>1, <4>1
      <4> QED BY <1>1, <4>2
    <3>2. t # <<>> => q # <<>>
      BY <3>1, ShortLists
    <3> QED BY <3>1, <3>2 DEF New
  <2>2. CASE n # 0
    <3>1. 1 \in DOMAIN p /\ t[1] = p[1]
      BY <1>1, <2>2
    <3>2. p # <<>>
      BY <3>1, ShortLists
    <3> QED BY <1>5, <3>1, <3>2 DEF New
  <2> QED BY <2>1, <2>2
<1> QED BY <1>4, <1>5 DEF t

-----------------------------------------------------------------------------
(* The kinds of steps *)

Keeps(t, about) == KeepsCode(t, about) /\ (\A u : KeepsPass(t, u)) /\ KeepsBest(t)

(* A request begins: h, to change `about` by the calls s. *)
Begins(h, about, s) ==
    /\ ~Working(h)
    /\ handler' = [handler EXCEPT ![h] = [op |-> handler'[h].op, about |-> about, todo |-> s]]
    /\ crossed' = crossed \cup Meets(about)
    /\ doc' = doc /\ leaving \subseteq leaving'
    /\ Fits(h, s, about, leaving') /\ New(s)
    /\ \A i \in DOMAIN s : Keeps(s[i], about)

(* A request at work goes on, with the calls s. *)
Goes(h, s) ==
    /\ Working(h)
    /\ handler' = [handler EXCEPT ![h] = IF s = <<>> THEN Idle ELSE [op |-> @.op, about |-> @.about, todo |-> s]]
    /\ crossed' = crossed /\ leaving' = leaving

Writes(h) ==
    /\ Goes(h, Tail(Todo(h)))
    /\ Todo(h)[1].call \in {"put", "new"}
    /\ doc' = With(Todo(h)[1].key, Todo(h)[1].value)

Deletes(h) ==
    /\ Goes(h, Tail(Todo(h)))
    /\ Todo(h)[1].call = "delete"
    /\ doc' = Without(Todo(h)[1].key)

Ends(h) ==
    /\ Working(h)
    /\ handler' = [handler EXCEPT ![h] = Idle]
    /\ crossed' = crossed \cup DOMAIN About(h) /\ doc' = doc /\ leaving' = leaving

(* The first call ahead writes nothing that has to do with anything here. *)
Decides(h, s) ==
    /\ Goes(h, s) /\ doc' = doc
    /\ Plain(Todo(h)[1]) \/ ReadsMembership(Todo(h)[1], About(h))
    /\ Ahead(s, About(h), leaving) /\ New(s)
    /\ \A i \in DOMAIN s : Harmless(s[i]) \/ \E j \in DOMAIN Todo(h) : s[i] = Todo(h)[j]

Rests == handler' = handler /\ crossed' = crossed /\ doc' = doc /\ leaving' = leaving

Steps ==
    \/ \E h \in Handlers : \E about, s : Begins(h, about, s)
    \/ \E h \in Handlers : Writes(h)
    \/ \E h \in Handlers : Deletes(h)
    \/ \E h \in Handlers : Ends(h)
    \/ \E h \in Handlers : \E s : Decides(h, s)
    \/ Rests

-----------------------------------------------------------------------------
(* Every storage call is of its kind. *)

LEMMA GoesOn ==
  ASSUME TypeInv, NEW h \in Handlers, NEW s, Working(h), Continues(h, s), leaving' = leaving
  PROVE  Goes(h, s)
<1>1. handler[h] = [op |-> handler[h].op, about |-> handler[h].about, todo |-> handler[h].todo]
  BY DEF TypeInv, About, Todo
<1>2. [handler[h] EXCEPT !.todo = s] = [op |-> handler[h].op, about |-> handler[h].about, todo |-> s]
  BY <1>1
<1> QED BY <1>2 DEF Continues, Goes

LEMMA AtWork ==
  ASSUME TypeInv, Shapes, NEW h \in Handlers, Working(h)
  PROVE  /\ Todo(h) # <<>> /\ IsList(Todo(h)) /\ 1 \in DOMAIN Todo(h)
         /\ Task(h) = Todo(h)[1] /\ Next1(h) = Tail(Todo(h))
         /\ Fits(h, Todo(h), About(h), leaving)
<1>1. Todo(h) # <<>> /\ Fits(h, Todo(h), About(h), leaving)
  BY DEF Working, Todo, Shapes
<1>2. IsList(Todo(h))
  BY <1>1 DEF Fits, Ahead, Alone
<1> QED BY <1>1, <1>2, ListFacts DEF Task, Next1, Todo

LEMMA HarmlessHead ==
  ASSUME TypeInv, Shapes, NEW h \in Handlers, Working(h),
         Plain(Todo(h)[1]) \/ Todo(h)[1].call \notin {"put", "delete"}
  PROVE  /\ Ahead(Todo(h), About(h), leaving)
         /\ Plain(Todo(h)[1]) \/ ReadsMembership(Todo(h)[1], About(h))
         /\ Ahead(Tail(Todo(h)), About(h), leaving) /\ New(Tail(Todo(h))) /\ IsList(Tail(Todo(h)))
         /\ \A i \in DOMAIN Tail(Todo(h)) : \E j \in DOMAIN Todo(h) : Tail(Todo(h))[i] = Todo(h)[j]
<1> DEFINE s == Todo(h)
<1>1. s # <<>> /\ IsList(s) /\ 1 \in DOMAIN s /\ Fits(h, s, About(h), leaving)
  BY AtWork
<1> HIDE DEF s
<1>2. ~Alone(s, About(h), h)
  BY DocumentsDiffer DEF s, Alone, SavesPlay, SavesRecord, Plain, Related
<1>3. Ahead(s, About(h), leaving)
  BY <1>1, <1>2 DEF Fits
<1>4. FitsAt(s, 1, About(h), leaving)
  BY <1>1, <1>3 DEF Ahead
<1>5. Plain(s[1]) \/ ReadsMembership(s[1], About(h))
  BY <1>4 DEF s, FitsAt, SetsMember, Halves, SetsMemberOf, ChangesRole, Sets,
              SavesCompany, SavesInvite, DropsInvite, DropsRecord
<1>6. \A u : ~Sets(s[1], Member(u))
  BY <1>5, PlainIsHarmless DEF ReadsMembership, Sets
<1>7. Ahead(Tail(s), About(h), leaving) /\ New(Tail(s)) /\ IsList(Tail(s))
  BY <1>1, <1>3, <1>6, AheadOfTail, TailFacts
<1>8. \A i \in DOMAIN Tail(s) : Tail(s)[i] = s[i + 1] /\ i + 1 \in DOMAIN s
  BY <1>1, TailFacts
<1> QED BY <1>3, <1>5, <1>7, <1>8 DEF s

(* What a request reads is followed by what it does about it, and then by the rest. *)
LEMMA ReadsOn ==
  ASSUME TypeInv, Shapes, NEW h \in Handlers, Working(h),
         Plain(Todo(h)[1]) \/ Todo(h)[1].call \notin {"put", "delete"},
         NEW p, Ahead(p, About(h), leaving), New(p), \A i \in DOMAIN p : Harmless(p[i]),
         Continues(h, p \o Next1(h)), doc' = doc, leaving' = leaving
  PROVE  Decides(h, p \o Tail(Todo(h)))
<1> DEFINE q == Tail(Todo(h))
           s == p \o q
<1>1. /\ Ahead(q, About(h), leaving) /\ New(q) /\ IsList(q)
      /\ Plain(Todo(h)[1]) \/ ReadsMembership(Todo(h)[1], About(h))
      /\ \A i \in DOMAIN q : \E j \in DOMAIN Todo(h) : q[i] = Todo(h)[j]
  BY HarmlessHead
<1>2. Continues(h, s)
  BY AtWork
<1> HIDE DEF q
<1>3. Ahead(s, About(h), leaving) /\ New(s)
  BY <1>1, AheadOfJoin
<1>4. IsList(p)
  BY DEF Ahead
<1>5. \A i \in DOMAIN s : Harmless(s[i]) \/ \E j \in DOMAIN Todo(h) : s[i] = Todo(h)[j]
  <2> SUFFICES ASSUME NEW i \in DOMAIN s PROVE Harmless(s[i]) \/ \E j \in DOMAIN Todo(h) : s[i] = Todo(h)[j]
    OBVIOUS
  <2>1. (\E j \in DOMAIN p : s[i] = p[j]) \/ (\E j \in DOMAIN q : s[i] = q[j])
    BY <1>1, <1>4, ElementsOfJoin
  <2> QED BY <1>1, <2>1
<1> HIDE DEF s
<1>6. Goes(h, s)
  BY <1>2, GoesOn
<1> QED BY <1>1, <1>3, <1>5, <1>6 DEF Decides, s, q

LEMMA StorageCallSteps ==
  ASSUME TypeInv, Shapes, NEW h \in Handlers, StorageCall(h), leaving' = leaving
  PROVE  Steps
<1>1. Working(h)
  BY DEF StorageCall, WriteDoc, LosesKey, DeleteDoc, Dies
<1>2. Task(h) = Todo(h)[1] /\ Next1(h) = Tail(Todo(h))
  BY <1>1, AtWork
<1>3. CASE WriteDoc(h)
  <2>1. Goes(h, Tail(Todo(h)))
    BY <1>1, <1>2, <1>3, GoesOn DEF WriteDoc
  <2> QED BY <1>2, <1>3, <2>1 DEF WriteDoc, Writes, Steps
<1>4. CASE DeleteDoc(h)
  <2>1. Goes(h, Tail(Todo(h)))
    BY <1>1, <1>2, <1>4, GoesOn DEF DeleteDoc
  <2> QED BY <1>2, <1>4, <2>1 DEF DeleteDoc, Deletes, Steps
<1>5. CASE Dies(h)
  BY <1>5 DEF Dies, Ends, About, Steps
<1>6. CASE LosesKey(h)
  <2> DEFINE s == <<Delete(Todo(h)[1].else)>>
  <2>1. Continues(h, s) /\ Todo(h)[1].call = "new" /\ doc' = doc
    BY <1>2, <1>6 DEF LosesKey
  <2>2. Plain(Todo(h)[1])
    BY <1>1, <2>1, HarmlessHead DEF ReadsMembership
  <2>3. Plain(Delete(Todo(h)[1].else))
    BY <2>1, <2>2 DEF Plain, Delete
  <2>4. PlainList(s)
    BY <2>3, ShortLists DEF PlainList
  <2> HIDE DEF s
  <2>5. Goes(h, s)
    BY <1>1, <2>1, GoesOn
  <2>6. Ahead(s, About(h), leaving) /\ New(s) /\ \A i \in DOMAIN s : Harmless(s[i])
    BY <2>4, PlainListFits
  <2>7. Decides(h, s)
    BY <2>1, <2>2, <2>5, <2>6 DEF Decides
  <2> QED BY <2>7 DEF Steps
<1> QED BY <1>3, <1>4, <1>5, <1>6 DEF StorageCall

-----------------------------------------------------------------------------
(* Lists without relation to memberships, companies, records and players *)

LEMMA PlainCalls ==
  /\ \A key, value : key[1] \notin Related => Plain(Put(key, value)) /\ Plain(Delete(key))
  /\ \A key, value, else : key[1] \notin Related /\ else[1] \notin Related => Plain(PutNew(key, value, else))
  /\ \A of : /\ Plain(Later("password", of)) /\ Plain(Later("acks", of)) /\ Plain(Later("verification", of))
             /\ Plain(Later("answer", of)) /\ Plain(Later("index", of))
  /\ \A f \in FeedNames : /\ Plain(Later("since", f))
                          /\ \A since : Plain(Later("fetch", [feed |-> f, since |-> since]))
BY DEF Plain, Put, Delete, PutNew, Later

LEMMA PlainKeys ==
  /\ \A x : /\ User(x)[1] \notin Related /\ Login(x)[1] \notin Related /\ Lock(x)[1] \notin Related
            /\ Reset(x)[1] \notin Related /\ Verify(x)[1] \notin Related /\ Policy(x)[1] \notin Related
            /\ Signal(x)[1] \notin Related
  /\ \A x : /\ Event(x)[1] \notin Related /\ Cursor(x)[1] \notin Related /\ Sync(x)[1] \notin Related
            /\ Recent(x)[1] \notin Related /\ Node(x)[1] \notin Related /\ Edge(x)[1] \notin Related
            /\ Signalled(x)[1] \notin Related /\ Incident(x)[1] \notin Related /\ Audited(x)[1] \notin Related
  /\ \A p, u : Ack(p, u)[1] \notin Related
  /\ Marker[1] \notin Related
<1> USE DEF Related
<1>1. \A x : /\ User(x)[1] \notin Related /\ Login(x)[1] \notin Related /\ Lock(x)[1] \notin Related
             /\ Reset(x)[1] \notin Related /\ Verify(x)[1] \notin Related /\ Policy(x)[1] \notin Related
             /\ Signal(x)[1] \notin Related
  BY DEF User, Login, Lock, Reset, Verify, Policy, Signal
<1>2. \A x : /\ Event(x)[1] \notin Related /\ Cursor(x)[1] \notin Related /\ Sync(x)[1] \notin Related
             /\ Recent(x)[1] \notin Related /\ Node(x)[1] \notin Related /\ Edge(x)[1] \notin Related
             /\ Signalled(x)[1] \notin Related /\ Incident(x)[1] \notin Related /\ Audited(x)[1] \notin Related
  BY DEF Event, Cursor, Sync, Recent, Node, Edge, Signalled, Incident, Audited
<1>3. (\A p, u : Ack(p, u)[1] \notin Related) /\ Marker[1] \notin Related
  BY DEF Ack, Marker
<1> QED BY <1>1, <1>2, <1>3

LEMMA PlainShort ==
  /\ PlainList(<<>>)
  /\ \A a : Plain(a) => PlainList(<<a>>)
  /\ \A a, b : Plain(a) /\ Plain(b) => PlainList(<<a, b>>)
<1>1. PlainList(<<>>)
  BY ShortLists DEF PlainList
<1>2. ASSUME NEW a, Plain(a) PROVE PlainList(<<a>>)
  <2> DEFINE s == <<a>>
  <2>1. IsList(s) /\ DOMAIN s = {1} /\ s[1] = a
    BY ShortLists
  <2> HIDE DEF s
  <2>2. PlainList(s)
    BY <1>2, <2>1 DEF PlainList
  <2> QED BY <2>2 DEF s
<1>3. ASSUME NEW a, NEW b, Plain(a), Plain(b) PROVE PlainList(<<a, b>>)
  <2> DEFINE s == <<a, b>>
  <2>1. IsList(s) /\ DOMAIN s = {1, 2} /\ s[1] = a /\ s[2] = b
    BY ShortLists
  <2> HIDE DEF s
  <2>2. PlainList(s)
    BY <1>3, <2>1 DEF PlainList
  <2> QED BY <2>2 DEF s
<1> QED BY <1>1, <1>2, <1>3

LEMMA FiniteImage ==
  ASSUME NEW S, IsFiniteSet(S), NEW f, f = [x \in S |-> f[x]]
  PROVE  IsFiniteSet({f[x] : x \in S})
<1> DEFINE T == {f[x] : x \in S}
<1>1. f \in Surjection(S, T)
  BY DEF Surjection
<1> HIDE DEF T
<1>2. IsFiniteSet(T)
  BY <1>1, FS_Surjection
<1> QED BY <1>2 DEF T

(* What is put for every element of a finite set, in some order. *)
LEMMA PlainSetList ==
  ASSUME NEW S, IsFiniteSet(S), NEW f, f = [x \in S |-> f[x]], \A x \in S : Plain(f[x])
  PROVE  PlainList(SetToSeq({f[x] : x \in S}))
<1> DEFINE T == {f[x] : x \in S}
<1>1. IsFiniteSet(T) /\ \A t \in T : Plain(t)
  BY FiniteImage
<1> HIDE DEF T
<1>2. PlainList(SetToSeq(T))
  BY <1>1, SetToSeqFacts DEF PlainList
<1> QED BY <1>2 DEF T

LEMMA PlainDeleteAll ==
  ASSUME NEW keys, IsFiniteSet(keys), \A key \in keys : key[1] \notin Related
  PROVE  PlainList(DeleteAll(keys))
<1> DEFINE f == [key \in keys |-> Delete(key)]
<1>1. f = [key \in keys |-> f[key]] /\ (\A key \in keys : Plain(f[key]))
  BY PlainCalls
<1>2. {Delete(key) : key \in keys} = {f[key] : key \in keys}
  OBVIOUS
<1> HIDE DEF f
<1>3. PlainList(SetToSeq({f[key] : key \in keys}))
  BY <1>1, PlainSetList
<1> QED BY <1>2, <1>3 DEF DeleteAll

LEMMA PartitionIsFinite ==
  ASSUME TypeInv, NEW S, S \subseteq DOMAIN doc
  PROVE  IsFiniteSet(S)
BY FS_Subset DEF TypeInv

LEMMA PlainFunction ==
  ASSUME NEW n \in Nat, NEW f, f = [i \in 1..n |-> f[i]], \A i \in 1..n : Plain(f[i])
  PROVE  PlainList(f)
BY FunctionIsList DEF PlainList

LEMMA VerificationIsPlain ==
  ASSUME NEW u PROVE PlainList(Verification(u))
<1> DEFINE a == Put(User(u), Account(u))
           b == Put(Verify(minted + 1), [user |-> u, email |-> Account(u).email])
<1>1. Verification(u) = <<a, b>>
  BY DEF Verification
<1>2. Plain(a) /\ Plain(b)
  BY PlainCalls, PlainKeys
<1> HIDE DEF a, b
<1> QED BY <1>1, <1>2, PlainShort

LEMMA SetPasswordIsPlain ==
  ASSUME NEW u, NEW password PROVE PlainList(SetPassword(u, password))
<1> DEFINE a == Put(User(u), [Account(u) EXCEPT !.password = password, !.version = @ + 1])
           b == IF Account(u).email = None THEN <<>> ELSE <<Delete(Lock(Account(u).email))>>
<1>1. SetPassword(u, password) = <<a>> \o b
  BY DEF SetPassword
<1>2. PlainList(<<a>>)
  BY PlainCalls, PlainKeys, PlainShort
<1>3. PlainList(b)
  BY PlainCalls, PlainKeys, PlainShort
<1> HIDE DEF a, b
<1> QED BY <1>1, <1>2, <1>3, PlainJoin

LEMMA LeavesFits ==
  ASSUME NEW u, NEW about, NEW left, Alters(about, MembershipOf(u), {None})
  PROVE  Ahead(Leaves(u), about, left) /\ New(Leaves(u)) /\ \A i \in DOMAIN Leaves(u) : Harmless(Leaves(u)[i])
<1> DEFINE s == Leaves(u)
<1>1. IsList(s) /\ DOMAIN s = {1, 2} /\ s[1] = Delete(Member(u)) /\ s[2] = Delete(MemberOf(u))
  BY ShortLists DEF Leaves
<1> HIDE DEF s
<1>2. Halves(s[1], s[2], u) /\ s[1].key[2] = u /\ s[2].key[2] = u
  BY <1>1, DocumentsDiffer DEF Halves, Sets, Change, Delete
<1>3. ChangesRole(s[2], u, about)
  BY <1>1 DEF ChangesRole, Sets, Change, Delete
<1>4. SetsMember(s, 1) /\ SetsMemberOf(s, 2, about)
  BY <1>1, <1>2, <1>3 DEF SetsMember, SetsMemberOf
<1>5. Ahead(s, about, left)
  BY <1>1, <1>4 DEF Ahead, FitsAt
<1>6. New(s)
  BY <1>1, DocumentsDiffer DEF New, Sets, Delete
<1>7. \A i \in DOMAIN s : Harmless(s[i])
  BY <1>1 DEF Harmless, Delete
<1> QED BY <1>5, <1>6, <1>7 DEF s

LEMMA JoinsFits ==
  ASSUME NEW u, NEW role \in Roles, NEW about, NEW left, Alters(about, MembershipOf(u), {role})
  PROVE  Ahead(Joins(u, role), about, left) /\ New(Joins(u, role)) /\ \A i \in DOMAIN Joins(u, role) : Harmless(Joins(u, role)[i])
<1> DEFINE s == Joins(u, role)
<1>1. IsList(s) /\ DOMAIN s = {1, 2} /\ s[1] = Put(Member(u), role) /\ s[2] = Put(MemberOf(u), role)
  BY ShortLists DEF Joins
<1> HIDE DEF s
<1>2. Halves(s[1], s[2], u) /\ s[1].key[2] = u /\ s[2].key[2] = u
  BY <1>1, DocumentsDiffer DEF Halves, Sets, Change, Put
<1>3. ChangesRole(s[2], u, about)
  BY <1>1 DEF ChangesRole, Sets, Change, Put
<1>4. SetsMember(s, 1) /\ SetsMemberOf(s, 2, about)
  BY <1>1, <1>2, <1>3 DEF SetsMember, SetsMemberOf
<1>5. Ahead(s, about, left)
  BY <1>1, <1>4 DEF Ahead, FitsAt
<1>6. New(s)
  BY <1>1, DocumentsDiffer DEF New, Sets, Put
<1>7. \A i \in DOMAIN s : Harmless(s[i])
  BY <1>1, DocumentsDiffer DEF Harmless, Put
<1> QED BY <1>5, <1>6, <1>7 DEF s

-----------------------------------------------------------------------------
(* Every read of a request at work is of its kind. *)

LEMMA ReadsPlainly ==
  ASSUME TypeInv, Shapes, NEW h \in Handlers, Working(h),
         Plain(Todo(h)[1]) \/ Todo(h)[1].call \notin {"put", "delete"},
         NEW p, PlainList(p), Continues(h, p \o Next1(h)), doc' = doc, leaving' = leaving
  PROVE  Steps
<1>1. Ahead(p, About(h), leaving) /\ New(p) /\ \A i \in DOMAIN p : Harmless(p[i])
  BY PlainListFits
<1>2. Decides(h, p \o Tail(Todo(h)))
  BY <1>1, ReadsOn
<1> QED BY <1>2 DEF Steps

LEMMA SkipsPlainly ==
  ASSUME TypeInv, Shapes, NEW h \in Handlers, Working(h),
         Plain(Todo(h)[1]) \/ Todo(h)[1].call \notin {"put", "delete"},
         Continues(h, Next1(h)), doc' = doc, leaving' = leaving
  PROVE  Steps
<1>1. Goes(h, Tail(Todo(h)))
  BY AtWork, GoesOn
<1>2. Decides(h, Tail(Todo(h)))
  BY <1>1, HarmlessHead DEF Decides
<1> QED BY <1>2 DEF Steps

LEMMA ReadAgainSteps ==
  ASSUME TypeInv, Shapes, NEW h \in Handlers, ReadAgain(h)
  PROVE  Steps
<1> DEFINE t == Todo(h)[1]
           p == Decided(t)
<1>1. /\ Working(h) /\ t.call \in {"password", "memberships", "acks", "verification"}
      /\ Continues(h, p \o Next1(h)) /\ doc' = doc /\ leaving' = leaving
  BY AtWork DEF ReadAgain, Others, accountVars
<1>2. t.call \notin {"put", "delete"}
  BY <1>1
<1>3. CASE t.call = "password"
  <2>1. p = SetPassword(t.of.user, t.of.password)
    BY <1>3 DEF Decided
  <2>2. PlainList(p)
    BY <2>1, SetPasswordIsPlain
  <2> HIDE DEF p
  <2> QED BY <1>1, <1>2, <2>2, ReadsPlainly
<1>4. CASE t.call = "verification"
  <2>1. p = Verification(t.of)
    BY <1>4 DEF Decided
  <2>2. PlainList(p)
    BY <2>1, VerificationIsPlain
  <2> HIDE DEF p
  <2> QED BY <1>1, <1>2, <2>2, ReadsPlainly
<1>5. CASE t.call = "acks"
  <2> DEFINE keys == {key \in Partition("ACK") : key[2] = t.of}
  <2>1. p = DeleteAll(keys)
    BY <1>5 DEF Decided
  <2>2. IsFiniteSet(keys)
    BY PartitionIsFinite DEF Partition
  <2>3. \A key \in keys : key[1] \notin Related
    BY DEF Partition, Related
  <2> HIDE DEF keys
  <2>4. PlainList(p)
    BY <2>1, <2>2, <2>3, PlainDeleteAll
  <2> HIDE DEF p
  <2> QED BY <1>1, <1>2, <2>4, ReadsPlainly
<1>6. CASE t.call = "memberships"
  <2>1. p = IF Held(MemberOf(t.of)) THEN Leaves(t.of) ELSE <<>>
    BY <1>6 DEF Decided
  <2>2. CASE Held(MemberOf(t.of))
    <3>1. ReadsMembership(t, About(h))
      BY <1>1, <1>2, <1>6, HarmlessHead DEF Plain
    <3>2. Ahead(Leaves(t.of), About(h), leaving) /\ New(Leaves(t.of)) /\ \A i \in DOMAIN Leaves(t.of) : Harmless(Leaves(t.of)[i])
      BY <3>1, LeavesFits DEF ReadsMembership
    <3>3. p = Leaves(t.of)
      BY <2>1, <2>2
    <3> HIDE DEF p
    <3>4. Decides(h, p \o Tail(Todo(h)))
      BY <1>1, <1>2, <3>2, <3>3, ReadsOn
    <3> QED BY <3>4 DEF Steps
  <2>3. CASE ~Held(MemberOf(t.of))
    <3>1. PlainList(p)
      BY <2>1, <2>3, PlainShort
    <3> HIDE DEF p
    <3> QED BY <1>1, <1>2, <3>1, ReadsPlainly
  <2> QED BY <2>2, <2>3
<1> QED BY <1>1, <1>3, <1>4, <1>5, <1>6

(* What a publisher answers is a list. *)
LEMMA AnswerIsList ==
  ASSUME NEW f \in FeedNames, NEW since, NEW e \in Answers(f, since),
         published \in [FeedNames -> [stamps : Seq(Nat), window : Nat]]
  PROVE  \E n \in Nat : e = [i \in 1..n |-> e[i]]
<1> DEFINE set == Fresh(f, since)
           limit == LimitAfter(since)
           n == IF Cardinality(set) < limit THEN Cardinality(set) ELSE limit
<1>1. limit \in Nat
  BY FeedsAssumption DEF LimitAfter
<1>2. Stamps(f) \in Seq(Nat)
  BY DEF Stamps
<1>3. DOMAIN Stamps(f) = 1..Len(Stamps(f)) /\ Len(Stamps(f)) \in Nat
  BY <1>2
<1>4. IsFiniteSet(set)
  <2>1. IsFiniteSet(1..Len(Stamps(f)))
    BY <1>3, FS_Interval
  <2>2. set \subseteq 1..Len(Stamps(f))
    BY <1>3 DEF Fresh
  <2> HIDE DEF set
  <2> QED BY <2>1, <2>2, FS_Subset
<1>5. n \in Nat
  <2> HIDE DEF set, limit
  <2> QED BY <1>1, <1>4, FS_CardinalityType
<1>6. e \in [1..n -> set]
  BY DEF Answers
<1> HIDE DEF n, set
<1>7. e = [i \in 1..n |-> e[i]]
  BY <1>6
<1> QED BY <1>5, <1>7

LEMMA SavesIsPlain ==
  ASSUME NEW f \in FeedNames, NEW entries, NEW n \in Nat, entries = [i \in 1..n |-> entries[i]]
  PROVE  PlainList(SavesThenMoves(f, entries))
<1> DEFINE p == [i \in DOMAIN entries |->
                   Put(Event(minted + i), [feed |-> f, n |-> entries[i], at |-> Stamps(f)[entries[i]]])]
           q == <<Later("index", [feed |-> f,
                                  fresh |-> {[id |-> minted + i, at |-> Stamps(f)[entries[i]]]
                                                : i \in DOMAIN entries}])>>
           r == Moves(f, entries)
<1>1. SavesThenMoves(f, entries) = (p \o q) \o r
  BY DEF SavesThenMoves, Saves
<1>2. DOMAIN entries = 1..n
  OBVIOUS
<1>3. p = [i \in 1..n |-> p[i]] /\ \A i \in 1..n : Plain(p[i])
  BY <1>2, PlainCalls, PlainKeys
<1>4. PlainList(q)
  BY PlainCalls, PlainShort
<1>5. PlainList(r)
  BY PlainCalls, PlainKeys, PlainShort DEF Moves
<1> HIDE DEF p, q, r
<1>6. PlainList(p)
  BY <1>3, PlainFunction
<1> QED BY <1>1, <1>4, <1>5, <1>6, PlainJoin

LEMMA FeedReadsStep ==
  ASSUME TypeInv, Shapes, NEW h \in Handlers, leaving' = leaving,
         ReadsCursor(h) \/ Fetches(h) \/ Unavailable(h) \/ SyncIsLost(h) \/ Indexes(h)
  PROVE  Steps
<1> DEFINE t == Todo(h)[1]
<1>1. Working(h) /\ doc' = doc /\ Task(h) = t
  BY AtWork DEF ReadsCursor, Fetches, Unavailable, SyncIsLost, Indexes
<1>2. t.call \in {"since", "fetch", "index"} => t.call \notin {"put", "delete"} /\ Plain(t)
  BY <1>1, HarmlessHead DEF ReadsMembership
<1>3. CASE ReadsCursor(h)
  <2> DEFINE p == <<Later("fetch", [feed |-> t.of, since |-> Since(t.of)])>>
  <2>1. Continues(h, p \o Next1(h)) /\ t.call = "since"
    BY <1>1, <1>3 DEF ReadsCursor
  <2>2. t.of \in FeedNames
    BY <1>2, <2>1 DEF Plain
  <2>3. PlainList(p)
    BY <2>2, PlainCalls, PlainShort
  <2> HIDE DEF p
  <2> QED BY <1>1, <1>2, <2>1, <2>3, ReadsPlainly
<1>4. CASE Fetches(h)
  <2> DEFINE f == t.of.feed
  <2>0. PICK entries \in Answers(f, t.of.since) :
            Continues(h, <<Put(Sync(f), "ok")>>
                           \o (IF entries = <<>> THEN <<>> ELSE SavesThenMoves(f, entries)) \o Next1(h))
    BY <1>1, <1>4 DEF Fetches
  <2> DEFINE p == <<Put(Sync(f), "ok")>>
             q == IF entries = <<>> THEN <<>> ELSE SavesThenMoves(f, entries)
  <2>1. Continues(h, p \o q \o Next1(h)) /\ t.call = "fetch"
    BY <1>1, <1>4, <2>0 DEF Fetches
  <2>2. f \in FeedNames
    BY <1>2, <2>1 DEF Plain
  <2>3. \E n \in Nat : entries = [i \in 1..n |-> entries[i]]
    BY <2>2, AnswerIsList DEF TypeInv
  <2>4. PlainList(SavesThenMoves(f, entries))
    BY <2>2, <2>3, SavesIsPlain
  <2>5. PlainList(q)
    BY <2>4, PlainShort
  <2>6. PlainList(p)
    BY PlainCalls, PlainKeys, PlainShort
  <2> HIDE DEF p, q
  <2>7. PlainList(p \o q)
    BY <2>5, <2>6, PlainJoin
  <2> QED BY <1>1, <1>2, <2>1, <2>7, ReadsPlainly
<1>5. CASE Unavailable(h)
  <2> DEFINE p == <<Put(Sync(t.of.feed), "failed")>>
  <2>1. Continues(h, p \o Next1(h)) /\ t.call = "fetch"
    BY <1>1, <1>5 DEF Unavailable
  <2>2. PlainList(p)
    BY PlainCalls, PlainKeys, PlainShort
  <2> HIDE DEF p
  <2> QED BY <1>1, <1>2, <2>1, <2>2, ReadsPlainly
<1>6. CASE SyncIsLost(h)
  <2>1. Continues(h, Next1(h)) /\ t.call = "put" /\ t.key[1] = "SYNC"
    BY <1>1, <1>6 DEF SyncIsLost
  <2>2. Plain(t)
    BY <2>1 DEF Plain, Related
  <2> QED BY <1>1, <2>1, <2>2, SkipsPlainly
<1>7. CASE Indexes(h)
  <2> DEFINE f == t.of.feed
             p == <<Put(Recent(f), MergeRecent(Index(f), t.of.fresh))>>
  <2>1. Continues(h, p \o Next1(h)) /\ t.call = "index"
    BY <1>1, <1>7 DEF Indexes
  <2>2. PlainList(p)
    BY PlainCalls, PlainKeys, PlainShort
  <2> HIDE DEF p
  <2> QED BY <1>1, <1>2, <2>1, <2>2, ReadsPlainly
<1> QED BY <1>3, <1>4, <1>5, <1>6, <1>7

-----------------------------------------------------------------------------
(* Every request begins with calls that fit what it is about. *)

LEMMA HarmlessKeeps ==
  ASSUME NEW t, NEW about, Harmless(t)
  PROVE  Keeps(t, about)
BY DocumentsDiffer DEF Harmless, Keeps, KeepsCode, KeepsPass, KeepsBest

LEMMA StartsSteps ==
  ASSUME NEW h \in Handlers, NEW op, NEW about, NEW s, Starts(h, op, about, s), leaving \subseteq leaving',
         Fits(h, s, about, leaving'), New(s), \A i \in DOMAIN s : Keeps(s[i], about)
  PROVE  Steps
<1>1. Begins(h, about, s)
  <2>1. handler' = [handler EXCEPT ![h] = [op |-> op, about |-> about, todo |-> s]]
    BY DEF Starts
  <2>2. handler' = [handler EXCEPT ![h] = [op |-> handler'[h].op, about |-> about, todo |-> s]]
    BY <2>1
  <2> QED BY <2>2 DEF Starts, Begins
<1> QED BY <1>1 DEF Steps

LEMMA StartsHarmlessly ==
  ASSUME NEW h \in Handlers, NEW op, NEW about, NEW s, Starts(h, op, about, s), leaving \subseteq leaving',
         Ahead(s, about, leaving'), New(s), \A i \in DOMAIN s : Harmless(s[i])
  PROVE  Steps
<1>1. Fits(h, s, about, leaving') /\ \A i \in DOMAIN s : Keeps(s[i], about)
  BY HarmlessKeeps DEF Fits
<1> QED BY <1>1, StartsSteps

LEMMA StartsPlainly ==
  ASSUME NEW h \in Handlers, NEW op, NEW about, NEW s, Starts(h, op, about, s), leaving \subseteq leaving', PlainList(s)
  PROVE  Steps
<1>1. Ahead(s, about, leaving') /\ New(s) /\ \A i \in DOMAIN s : Harmless(s[i])
  BY PlainListFits
<1> QED BY <1>1, StartsHarmlessly

LEMMA SignsUpSteps ==
  ASSUME NEW h \in Handlers, SignsUp(h)
  PROVE  Steps
<1> leaving \subseteq leaving'
  BY DEF SignsUp, Guest, Register, Google, SignIn, Others, accountVars
<1>1. CASE Guest(h)
  <2> DEFINE s == <<Put(User(minted + 1), NewAccount("guest", None, None))>>
  <2>1. PlainList(s)
    BY PlainCalls, PlainKeys, PlainShort
  <2>2. Starts(h, "guest", NoTopic, s)
    BY <1>1 DEF Guest
  <2> HIDE DEF s
  <2> QED BY <2>1, <2>2, StartsPlainly
<1>2. ASSUME NEW email \in Emails, NEW password \in Passwords, Register(h, email, password) PROVE Steps
  <2> DEFINE u == minted + 1
             about == And(OfAccount(u, "create"), OfLogin(email, "claim"))
             p == <<Put(User(u), NewAccount("email", email, password))>>
             q == Claims(email, u)
             r == IF MailEnabled THEN <<Later("verification", u)>> ELSE <<>>
  <2>1. Starts(h, "register", about, p \o q \o r)
    BY <1>2 DEF Register
  <2>2. PlainList(p) /\ PlainList(r)
    BY PlainCalls, PlainKeys, PlainShort
  <2>3. PlainList(q)
    BY PlainCalls, PlainKeys, PlainShort DEF Claims
  <2> HIDE DEF p, q, r, about
  <2>4. PlainList(p \o q \o r)
    BY <2>2, <2>3, PlainJoin
  <2> QED BY <2>1, <2>4, StartsPlainly
<1>3. ASSUME NEW subject \in Subjects, Google(h, subject) PROVE Steps
  <2> DEFINE u == minted + 1
             about == And(OfAccount(u, "create"), OfLogin(subject, "google"))
             s == <<Put(User(u), NewAccount("google", None, None)), Put(Login(subject), u)>>
  <2>1. Starts(h, "google", about, s)
    BY <1>3 DEF Google
  <2>2. PlainList(s)
    BY PlainCalls, PlainKeys, PlainShort
  <2> HIDE DEF s, about
  <2> QED BY <2>1, <2>2, StartsPlainly
<1>4. ASSUME NEW email \in Emails, NEW password \in Passwords, NEW elapsed \in BOOLEAN,
             SignIn(h, email, password, elapsed)
      PROVE  Steps
  <2>1. \E value : \/ Starts(h, "login", NoTopic, <<Delete(Lock(email))>>)
                   \/ Starts(h, "login", NoTopic, <<Put(Lock(email), value)>>)
    BY <1>4 DEF SignIn
  <2>2. PICK value : \/ Starts(h, "login", NoTopic, <<Delete(Lock(email))>>)
                     \/ Starts(h, "login", NoTopic, <<Put(Lock(email), value)>>)
    BY <2>1
  <2>3. PlainList(<<Delete(Lock(email))>>) /\ PlainList(<<Put(Lock(email), value)>>)
    BY PlainCalls, PlainKeys, PlainShort
  <2> QED BY <2>2, <2>3, StartsPlainly
<1> QED BY <1>1, <1>2, <1>3, <1>4 DEF SignsUp

LEMMA DeleteAccountSteps ==
  ASSUME TypeInv, NEW h \in Handlers, NEW u, DeleteAccount(h, u)
  PROVE  Steps
<1> DEFINE gone0 == [topic \in {<<"account", u>>, <<"training", u>>} \cup {<<"login", key[2]>> : key \in KeysOf(u)}
                       |-> "delete"]
           about == And(OfMembership(u, None), gone0)
           p == DeleteAll(KeysOf(u))
           q == <<Later("memberships", u), Delete(Training(u)), Delete(User(u)), Later("answer", u)>>
<1>1. Starts(h, "delete", about, p \o q) /\ leaving' = leaving \cup {u}
  BY DEF DeleteAccount
<1>2. PlainList(p)
  <2>1. IsFiniteSet(KeysOf(u)) /\ \A key \in KeysOf(u) : key[1] \notin Related
    BY PartitionIsFinite DEF KeysOf, Partition, Related
  <2> QED BY <2>1, PlainDeleteAll
<1>3. Alters(about, MembershipOf(u), {None})
  BY DEF Alters, And, OfMembership, Of, MembershipOf
<1> HIDE DEF p, about
<1>4. /\ IsList(q) /\ DOMAIN q = {1, 2, 3, 4} /\ q[1] = Later("memberships", u) /\ q[2] = Delete(Training(u))
      /\ q[3] = Delete(User(u)) /\ q[4] = Later("answer", u)
  BY LongLists
<1> HIDE DEF q
<1>5. ReadsMembership(q[1], about)
  BY <1>3, <1>4 DEF ReadsMembership, Later
<1>6. DropsRecord(q[2], leaving')
  BY <1>1, <1>4, DocumentsDiffer DEF DropsRecord, Delete
<1>7. Plain(q[3]) /\ Plain(q[4])
  BY <1>4, PlainCalls, PlainKeys
<1>8. Ahead(q, about, leaving')
  BY <1>4, <1>5, <1>6, <1>7 DEF Ahead, FitsAt
<1>9. New(q) /\ \A i \in DOMAIN q : Harmless(q[i])
  BY <1>4 DEF New, Harmless, Later, Delete, Sets
<1>10. Ahead(p, about, leaving') /\ New(p) /\ IsList(p) /\ \A i \in DOMAIN p : Harmless(p[i])
  BY <1>2, PlainListFits DEF PlainList
<1>11. Ahead(p \o q, about, leaving') /\ New(p \o q)
  BY <1>8, <1>9, <1>10, AheadOfJoin
<1>12. \A i \in DOMAIN (p \o q) : Harmless((p \o q)[i])
  BY <1>4, <1>9, <1>10, ElementsOfJoin
<1> QED BY <1>1, <1>11, <1>12, StartsHarmlessly

(* A result that is folded into the record read before keeps what the record says. *)
LEMMA RecordTrainingSteps ==
  ASSUME TypeInv, StoredWell, NEW h \in Handlers, NEW u, NEW passed \in BOOLEAN, NEW marked \in BOOLEAN,
         RecordTraining(h, u, passed, marked)
  PROVE  Steps
<1> DEFINE t == Put(Training(u), Merged(Record(u), passed, marked))
           s == <<t>>
           about == OfTraining(u, h)
<1>1. Starts(h, "training", about, s) /\ leaving' = leaving
  BY DEF RecordTraining, Others, accountVars
<1>2. IsList(s) /\ DOMAIN s = {1} /\ s[1] = t
  BY ShortLists
<1>3. Alters(about, TrainingOf(u), {h})
  BY DEF Alters, OfTraining, Of, TrainingOf
<1>4. Record(u) \in Records
  BY DEF Record, StoredWell, Untrained, Records
<1>5. Record(u).passed \in BOOLEAN /\ Record(u).verifiedPassed \in BOOLEAN
  BY <1>4 DEF Records
<1> HIDE DEF about, s
<1>6. t.call = "put" /\ t.key = Training(u) /\ t.value = Merged(Record(u), passed, marked)
  BY DEF Put
<1>7. Merged(Record(u), passed, marked) \in Records
  <2> DEFINE a == Record(u).passed \/ passed
             b == Record(u).verifiedPassed \/ (marked /\ passed)
  <2>1. a \in BOOLEAN /\ b \in BOOLEAN
    OBVIOUS
  <2>2. Merged(Record(u), passed, marked) = [passed |-> a, verifiedPassed |-> b]
    BY DEF Merged
  <2> HIDE DEF a, b
  <2> QED BY <2>1, <2>2 DEF Records
<1>8. Merged(Record(u), passed, marked).passed <=> (Record(u).passed \/ passed)
  BY <1>5 DEF Merged
<1> HIDE DEF t
<1>9. SavesRecord(s[1], u, about, h)
  BY <1>2, <1>3, <1>6, <1>7 DEF SavesRecord
<1>10. Fits(h, s, about, leaving')
  BY <1>2, <1>9 DEF Fits, Alone
<1>11. New(s)
  BY <1>2, <1>6, DocumentsDiffer DEF New, Sets
<1>12. Keeps(t, about)
  BY <1>6, <1>8, DocumentsDiffer DEF Keeps, KeepsCode, KeepsPass, KeepsBest
<1> QED BY <1>1, <1>2, <1>10, <1>11, <1>12, StartsSteps

LEMMA AttemptSteps ==
  ASSUME TypeInv, StoredWell, NEW h \in Handlers, NEW scenario \in Scenarios, NEW total \in Scores,
         Attempt(h, scenario, total), leaving' = leaving
  PROVE  Steps
<1> DEFINE value == Folded(Played, scenario, total)
           t == Put(Player, value)
           s == <<t>>
           about == Of("player", "token", h)
<1>1. Starts(h, "attempt", about, s)
  BY DEF Attempt
<1>2. IsList(s) /\ DOMAIN s = {1} /\ s[1] = t
  BY ShortLists
<1>3. Alters(about, ThePlayer, {h})
  BY DEF Alters, Of, ThePlayer
<1>4. Played \in Plays
  BY DEF Played, StoredWell, Empty, Plays
<1>5. total \in Nat
  BY ProgressAssumption
<1>6. value \in Plays
  BY <1>4, <1>5 DEF Folded, Plays, AtLeast
<1>7. /\ \A other \in Scenarios : value.best[other] >= Played.best[other]
      /\ Played.cleared \subseteq value.cleared
  BY <1>4, <1>5 DEF Folded, Plays, AtLeast
<1> HIDE DEF about, s, value
<1>8. t.call = "put" /\ t.key = Player /\ t.value = value
  BY DEF Put
<1> HIDE DEF t
<1>9. SavesPlay(s[1], about, h)
  BY <1>2, <1>3, <1>6, <1>8 DEF SavesPlay
<1>10. Fits(h, s, about, leaving')
  BY <1>2, <1>9 DEF Fits, Alone
<1>11. New(s)
  BY <1>2, <1>8, DocumentsDiffer DEF New, Sets
<1>12. Held(Player) => Played = doc[Player]
  BY DEF Played
<1>13. Keeps(t, about)
  BY <1>7, <1>8, <1>12, DocumentsDiffer DEF Keeps, KeepsCode, KeepsPass, KeepsBest
<1> QED BY <1>1, <1>2, <1>10, <1>11, <1>13, StartsSteps

LEMMA OwnRequestSteps ==
  ASSUME TypeInv, StoredWell, NEW h \in Handlers, OwnRequest(h)
  PROVE  Steps
<1> leaving \subseteq leaving'
  BY DEF OwnRequest, Rename, SignOutEverywhere, ChangePassword, DeleteAccount, RequestReset, AdminReset, ResetPassword,
              SendVerification, ConfirmEmail, RecordTraining, Others, accountVars
<1>1. ASSUME NEW u \in Accounts, Rename(h, u) PROVE Steps
  <2> DEFINE s == <<Put(User(u), Account(u))>>
             about == OfAccount(u, "rename")
  <2>1. Starts(h, "rename", about, s)
    BY <1>1 DEF Rename
  <2>2. PlainList(s)
    BY PlainCalls, PlainKeys, PlainShort
  <2> HIDE DEF s, about
  <2> QED BY <2>1, <2>2, StartsPlainly
<1>2. ASSUME NEW u \in Accounts, SignOutEverywhere(h, u) PROVE Steps
  <2> DEFINE s == <<Put(User(u), [Account(u) EXCEPT !.version = @ + 1])>>
             about == OfAccount(u, "version")
  <2>1. Starts(h, "sign out", about, s)
    BY <1>2 DEF SignOutEverywhere
  <2>2. PlainList(s)
    BY PlainCalls, PlainKeys, PlainShort
  <2> HIDE DEF s, about
  <2> QED BY <2>1, <2>2, StartsPlainly
<1>3. ASSUME NEW u \in Accounts, NEW password \in Passwords, ChangePassword(h, u, password) PROVE Steps
  <2> DEFINE s == <<Later("password", [user |-> u, password |-> password])>>
             about == OfAccount(u, "password")
  <2>1. Starts(h, "change password", about, s)
    BY <1>3 DEF ChangePassword
  <2>2. PlainList(s)
    BY PlainCalls, PlainKeys, PlainShort
  <2> HIDE DEF s, about
  <2> QED BY <2>1, <2>2, StartsPlainly
<1>4. ASSUME NEW u \in Accounts, DeleteAccount(h, u) PROVE Steps
  <2> QED BY <1>4, DeleteAccountSteps
<1>5. ASSUME NEW email \in Emails, RequestReset(h, email) PROVE Steps
  <2> DEFINE s == <<Put(Reset(minted + 1), doc[Login(email)])>>
             about == NoTopic
  <2>1. Starts(h, "request reset", about, s)
    BY <1>5 DEF RequestReset
  <2>2. PlainList(s)
    BY PlainCalls, PlainKeys, PlainShort
  <2> HIDE DEF s, about
  <2> QED BY <2>1, <2>2, StartsPlainly
<1>6. ASSUME NEW actor \in Accounts, NEW u \in Accounts, AdminReset(h, actor, u) PROVE Steps
  <2> DEFINE s == <<Put(Reset(minted + 1), u)>>
             about == NoTopic
  <2>1. Starts(h, "admin reset", about, s)
    BY <1>6 DEF AdminReset
  <2>2. PlainList(s)
    BY PlainCalls, PlainKeys, PlainShort
  <2> HIDE DEF s, about
  <2> QED BY <2>1, <2>2, StartsPlainly
<1>7. ASSUME NEW key \in Partition("RESET"), NEW password \in Passwords, ResetPassword(h, key, password) PROVE Steps
  <2> DEFINE s == <<Later("password", [user |-> doc[key], password |-> password]), Delete(key)>>
             about == OfAccount(doc[key], "password")
  <2>1. Starts(h, "reset", about, s)
    BY <1>7 DEF ResetPassword
  <2>2. PlainList(s)
    BY PlainCalls, PlainShort DEF Partition, Related
  <2> HIDE DEF s, about
  <2> QED BY <2>1, <2>2, StartsPlainly
<1>8. ASSUME NEW u \in Accounts, SendVerification(h, u) PROVE Steps
  <2>1. Starts(h, "verification", OfAccount(u, "verification"), Verification(u))
    BY <1>8 DEF SendVerification
  <2> QED BY <2>1, VerificationIsPlain, StartsPlainly
<1>9. ASSUME NEW key \in Partition("VERIFY"), ConfirmEmail(h, key) PROVE Steps
  <2> DEFINE u == doc[key].user
             fits == Held(User(u)) /\ doc[User(u)].email = doc[key].email
             p == IF fits THEN <<Put(User(u), [Account(u) EXCEPT !.verified = TRUE])>> ELSE <<>>
             q == <<Delete(key)>>
             about == OfAccount(u, "confirm")
  <2>1. Starts(h, "confirm", about, p \o q)
    BY <1>9 DEF ConfirmEmail
  <2>2. PlainList(p)
    BY PlainCalls, PlainKeys, PlainShort
  <2>3. PlainList(q)
    BY PlainCalls, PlainShort DEF Partition, Related
  <2> HIDE DEF p, q, about
  <2> QED BY <2>1, <2>2, <2>3, PlainJoin, StartsPlainly
<1>10. ASSUME NEW u \in Accounts, NEW passed \in BOOLEAN, NEW marked \in BOOLEAN, RecordTraining(h, u, passed, marked) PROVE Steps
  <2> QED BY <1>10, RecordTrainingSteps
<1> QED BY <1>1, <1>2, <1>3, <1>4, <1>5, <1>6, <1>7, <1>8, <1>9, <1>10 DEF OwnRequest

(* Of a company only somebody who has a role in it changes anything. *)
LEMMA CompanySteps ==
  ASSUME TypeInv, StoredWell, NEW h \in Handlers, NEW op, NEW about, NEW company,
         Starts(h, op, about, <<Put(Org, company)>>), leaving' = leaving,
         Alters(about, TheCompany, {"settings", "intake"}),
         Held(Org), IsCompany(company), company.invite = doc[Org].invite
  PROVE  Steps
<1> DEFINE t == Put(Org, company)
           s == <<t>>
<1>1. IsList(s) /\ DOMAIN s = {1} /\ s[1] = t
  BY ShortLists
<1>2. t.call = "put" /\ t.key = Org /\ t.value = company
  BY DEF Put
<1> HIDE DEF s, t
<1>3. SavesCompany(s, 1, about)
  BY <1>1, <1>2 DEF SavesCompany
<1>4. Fits(h, s, about, leaving')
  BY <1>1, <1>3 DEF Fits, Ahead, FitsAt
<1>5. New(s)
  BY <1>1, <1>2, DocumentsDiffer DEF New, Sets
<1>6. Keeps(t, about)
  BY <1>2, DocumentsDiffer DEF Keeps, KeepsCode, KeepsPass, KeepsBest
<1>7. \A i \in DOMAIN s : Keeps(s[i], about)
  BY <1>1, <1>6
<1>8. Starts(h, op, about, s)
  BY DEF s, t
<1> QED BY <1>4, <1>5, <1>7, <1>8, StartsSteps

LEMMA CreateCompanySteps ==
  ASSUME TypeInv, NEW h \in Handlers, NEW u, CreateCompany(h, u)
  PROVE  Steps
<1> DEFINE code == minted + 1
           about == And(OfCompany("create"), OfMembership(u, "owner"))
           company == [owner |-> u, invite |-> code, intake |-> None]
           a == Put(Org, company)
           b == Put(Invite(code), Company)
           p == <<a, b>>
           q == Joins(u, "owner")
<1>1. Starts(h, "create", about, p \o q) /\ leaving' = leaving
  BY DEF CreateCompany, Others, accountVars
<1>2. Alters(about, TheCompany, {"create"}) /\ Alters(about, MembershipOf(u), {"owner"})
  BY DEF Alters, And, OfCompany, OfMembership, Of, TheCompany, MembershipOf
<1>3. IsCompany(company) /\ company.invite = code
  BY DEF IsCompany
<1> HIDE DEF about, company
<1>4. /\ a.call = "put" /\ a.key = Org /\ a.value = company
      /\ b.call = "put" /\ b.key = Invite(code)
  BY DEF Put
<1>5. IsList(p) /\ DOMAIN p = {1, 2} /\ p[1] = a /\ p[2] = b
  BY ShortLists
<1> HIDE DEF p, a, b, code
<1>6. SavesCompany(p, 1, about) /\ SavesInvite(p[2], about)
  BY <1>2, <1>3, <1>4, <1>5, DocumentsDiffer DEF SavesCompany, SavesInvite, Alters
<1>7. Ahead(p, about, leaving') /\ New(p)
  BY <1>4, <1>5, <1>6, DocumentsDiffer DEF Ahead, FitsAt, New, Sets
<1>8. Ahead(q, about, leaving') /\ New(q) /\ \A i \in DOMAIN q : Harmless(q[i])
  BY <1>2, JoinsFits DEF Roles
<1> HIDE DEF q
<1>9. Keeps(a, about) /\ Keeps(b, about)
  BY <1>2, <1>4, DocumentsDiffer DEF Keeps, KeepsCode, KeepsPass, KeepsBest, Alters
<1>10. IsList(q) /\ \A i \in DOMAIN q : Keeps(q[i], about)
  BY <1>8, HarmlessKeeps DEF Ahead
<1>11. \A i \in DOMAIN (p \o q) : Keeps((p \o q)[i], about)
  BY <1>5, <1>9, <1>10, ElementsOfJoin
<1>12. Fits(h, p \o q, about, leaving') /\ New(p \o q)
  BY <1>7, <1>8, AheadOfJoin DEF Fits
<1> QED BY <1>1, <1>11, <1>12, StartsSteps

LEMMA RotateInviteSteps ==
  ASSUME TypeInv, StoredWell, NEW h \in Handlers, NEW actor, RotateInvite(h, actor)
  PROVE  Steps
<1> DEFINE code == minted + 1
           about == OfCompany("rotate")
           company == [doc[Org] EXCEPT !.invite = code]
           a == Delete(Invite(doc[Org].invite))
           b == Put(Org, company)
           c == Put(Invite(code), Company)
           s == <<a, b, c>>
<1>1. Starts(h, "rotate", about, s) /\ leaving' = leaving
  BY DEF RotateInvite, Rotates, Others, accountVars
<1>2. Alters(about, TheCompany, {"rotate"})
  BY DEF Alters, OfCompany, Of, TheCompany
<1>3. IsCompany(doc[Org])
  BY DEF StoredWell, RotateInvite, IsAdmin
<1>4. company = [owner |-> doc[Org].owner, invite |-> code, intake |-> doc[Org].intake]
  BY <1>3 DEF IsCompany
<1>5. IsCompany(company) /\ company.invite = code
  BY <1>4 DEF IsCompany
<1> HIDE DEF about, company
<1>6. /\ a.call = "delete" /\ a.key = Invite(doc[Org].invite)
      /\ b.call = "put" /\ b.key = Org /\ b.value = company
      /\ c.call = "put" /\ c.key = Invite(code)
  BY DEF Put, Delete
<1>7. IsList(s) /\ DOMAIN s = {1, 2, 3} /\ s[1] = a /\ s[2] = b /\ s[3] = c
  BY LongLists
<1> HIDE DEF s, a, b, c, code
<1>8. DropsInvite(s, 1, about) /\ SavesCompany(s, 2, about) /\ SavesInvite(s[3], about)
  BY <1>2, <1>5, <1>6, <1>7, DocumentsDiffer DEF DropsInvite, SavesCompany, SavesInvite, Alters
<1>9. Ahead(s, about, leaving') /\ New(s)
  BY <1>6, <1>7, <1>8, DocumentsDiffer DEF Ahead, FitsAt, New, Sets
<1>10. Keeps(a, about) /\ Keeps(b, about) /\ Keeps(c, about)
  BY <1>2, <1>6, DocumentsDiffer DEF Keeps, KeepsCode, KeepsPass, KeepsBest, Alters
<1>11. \A i \in DOMAIN s : Keeps(s[i], about)
  BY <1>7, <1>10
<1> QED BY <1>1, <1>9, <1>11, StartsSteps DEF Fits


LEMMA CompanyRequestSteps ==
  ASSUME TypeInv, StoredWell, NEW h \in Handlers, CompanyRequest(h)
  PROVE  Steps
<1> leaving' = leaving
  BY DEF CompanyRequest, CreateCompany, Join, RotateInvite, SetRole, RemoveMember, UpdateSettings, CreateIngestKey,
              RevokeIngestKey, Ingest, AddPolicy, RemovePolicy, Acknowledge, Others, accountVars
<1>1. ASSUME NEW u \in Accounts, CreateCompany(h, u) PROVE Steps
  <2> QED BY <1>1, CreateCompanySteps
<1>2. ASSUME NEW u \in Accounts, NEW code \in Codes, Join(h, u, code) PROVE Steps
  <2> DEFINE s == Joins(u, "employee")
             about == OfMembership(u, "employee")
  <2>1. Starts(h, "join", about, s)
    BY <1>2 DEF Join
  <2>2. Alters(about, MembershipOf(u), {"employee"})
    BY DEF Alters, OfMembership, Of, MembershipOf
  <2>3. Ahead(s, about, leaving') /\ New(s) /\ \A i \in DOMAIN s : Harmless(s[i])
    BY <2>2, JoinsFits DEF Roles
  <2> HIDE DEF s, about
  <2> QED BY <2>1, <2>3, StartsHarmlessly
<1>3. ASSUME NEW actor \in Accounts, RotateInvite(h, actor) PROVE Steps
  <2> QED BY <1>3, RotateInviteSteps
<1>4. ASSUME NEW actor \in Accounts, NEW u \in Accounts, NEW role \in {"admin", "employee"}, SetRole(h, actor, u, role) PROVE Steps
  <2> DEFINE s == Joins(u, role)
             about == OfMembership(u, role)
  <2>1. Starts(h, "set role", about, s)
    BY <1>4 DEF SetRole
  <2>2. Alters(about, MembershipOf(u), {role})
    BY DEF Alters, OfMembership, Of, MembershipOf
  <2>3. Ahead(s, about, leaving') /\ New(s) /\ \A i \in DOMAIN s : Harmless(s[i])
    BY <2>2, JoinsFits DEF Roles
  <2> HIDE DEF s, about
  <2> QED BY <2>1, <2>3, StartsHarmlessly
<1>5. ASSUME NEW actor \in Accounts, NEW u \in Accounts, RemoveMember(h, actor, u) PROVE Steps
  <2> DEFINE s == Leaves(u)
             about == OfMembership(u, None)
  <2>1. Starts(h, "remove", about, s)
    BY <1>5 DEF RemoveMember
  <2>2. Alters(about, MembershipOf(u), {None})
    BY DEF Alters, OfMembership, Of, MembershipOf
  <2>3. Ahead(s, about, leaving') /\ New(s) /\ \A i \in DOMAIN s : Harmless(s[i])
    BY <2>2, LeavesFits
  <2> HIDE DEF s, about
  <2> QED BY <2>1, <2>3, StartsHarmlessly
<1>6. ASSUME NEW actor \in Accounts, UpdateSettings(h, actor) PROVE Steps
  <2> DEFINE company == doc[Org]
             about == OfCompany("settings")
  <2>1. Starts(h, "settings", about, <<Put(Org, company)>>) /\ Held(Org)
    BY <1>6 DEF UpdateSettings, IsAdmin
  <2>2. Alters(about, TheCompany, {"settings", "intake"})
    BY DEF Alters, OfCompany, Of, TheCompany
  <2>3. IsCompany(company) /\ company.invite = doc[Org].invite
    BY <2>1 DEF StoredWell, IsCompany
  <2> HIDE DEF company, about
  <2> QED BY <2>1, <2>2, <2>3, CompanySteps
<1>7. ASSUME NEW actor \in Accounts, CreateIngestKey(h, actor) PROVE Steps
  <2> DEFINE company == [doc[Org] EXCEPT !.intake = ToString(minted + 1)]
             about == OfCompany("intake")
  <2>1. Starts(h, "intake key", about, <<Put(Org, company)>>) /\ Held(Org)
    BY <1>7 DEF CreateIngestKey, IsAdmin
  <2>2. Alters(about, TheCompany, {"settings", "intake"})
    BY DEF Alters, OfCompany, Of, TheCompany
  <2>3. IsCompany(company) /\ company.invite = doc[Org].invite
    <3>1. doc[Org] = [owner |-> doc[Org].owner, invite |-> doc[Org].invite, intake |-> doc[Org].intake]
      BY <2>1 DEF StoredWell, IsCompany
    <3>2. company = [owner |-> doc[Org].owner, invite |-> doc[Org].invite, intake |-> ToString(minted + 1)]
      BY <3>1
    <3> HIDE DEF company
    <3> QED BY <3>2 DEF IsCompany
  <2> HIDE DEF company, about
  <2> QED BY <2>1, <2>2, <2>3, CompanySteps
<1>8. ASSUME NEW actor \in Accounts, RevokeIngestKey(h, actor) PROVE Steps
  <2> DEFINE company == [doc[Org] EXCEPT !.intake = None]
             about == OfCompany("intake")
  <2>1. Starts(h, "revoke key", about, <<Put(Org, company)>>) /\ Held(Org)
    BY <1>8 DEF RevokeIngestKey, IsAdmin
  <2>2. Alters(about, TheCompany, {"settings", "intake"})
    BY DEF Alters, OfCompany, Of, TheCompany
  <2>3. IsCompany(company) /\ company.invite = doc[Org].invite
    <3>1. doc[Org] = [owner |-> doc[Org].owner, invite |-> doc[Org].invite, intake |-> doc[Org].intake]
      BY <2>1 DEF StoredWell, IsCompany
    <3>2. company = [owner |-> doc[Org].owner, invite |-> doc[Org].invite, intake |-> None]
      BY <3>1
    <3> HIDE DEF company
    <3> QED BY <3>2 DEF IsCompany
  <2> HIDE DEF company, about
  <2> QED BY <2>1, <2>2, <2>3, CompanySteps
<1>9. ASSUME Ingest(h) PROVE Steps
  <2> DEFINE s == <<Put(Signal(minted + 1), None)>>
             about == NoTopic
  <2>1. Starts(h, "ingest", about, s)
    BY <1>9 DEF Ingest
  <2>2. PlainList(s)
    BY PlainCalls, PlainKeys, PlainShort
  <2> HIDE DEF s, about
  <2> QED BY <2>1, <2>2, StartsPlainly
<1>10. ASSUME NEW actor \in Accounts, AddPolicy(h, actor) PROVE Steps
  <2> DEFINE s == <<Put(Policy(minted + 1), actor)>>
             about == NoTopic
  <2>1. Starts(h, "add policy", about, s)
    BY <1>10 DEF AddPolicy
  <2>2. PlainList(s)
    BY PlainCalls, PlainKeys, PlainShort
  <2> HIDE DEF s, about
  <2> QED BY <2>1, <2>2, StartsPlainly
<1>11. ASSUME NEW actor \in Accounts, NEW key \in Partition("POLICY"), RemovePolicy(h, actor, key) PROVE Steps
  <2> DEFINE s == <<Delete(key), Later("acks", key[2])>>
             about == NoTopic
  <2>1. Starts(h, "remove policy", about, s)
    BY <1>11 DEF RemovePolicy
  <2>2. PlainList(s)
    BY PlainCalls, PlainShort DEF Partition, Related
  <2> HIDE DEF s, about
  <2> QED BY <2>1, <2>2, StartsPlainly
<1>12. ASSUME NEW u \in Accounts, NEW key \in Partition("POLICY"), Acknowledge(h, u, key) PROVE Steps
  <2> DEFINE s == <<Put(Ack(key[2], u), None)>>
             about == NoTopic
  <2>1. Starts(h, "acknowledge", about, s)
    BY <1>12 DEF Acknowledge
  <2>2. PlainList(s)
    BY PlainCalls, PlainKeys, PlainShort
  <2> HIDE DEF s, about
  <2> QED BY <2>1, <2>2, StartsPlainly
<1> QED BY <1>1, <1>2, <1>3, <1>4, <1>5, <1>6, <1>7, <1>8, <1>9, <1>10, <1>11, <1>12 DEF CompanyRequest

LEMMA AnswersSteps ==
  ASSUME TypeInv, Shapes, NEW h \in Handlers, AnswersDeletion(h)
  PROVE  Steps
<1>1. Working(h) /\ Todo(h)[1].call = "answer" /\ Continues(h, Next1(h)) /\ doc' = doc /\ leaving' = leaving
  BY AtWork DEF AnswersDeletion
<1> QED BY <1>1, SkipsPlainly

LEMMA PollSteps ==
  ASSUME NEW h \in Handlers, Poll(h), leaving' = leaving
  PROVE  Steps
<1> DEFINE about == [topic \in {<<"recent", f>> : f \in FeedNames} |-> h]
           s == [i \in DOMAIN FeedOrder |-> Later("since", FeedOrder[i])]
           n == Len(FeedOrder)
<1>1. Starts(h, "poll", about, s)
  BY DEF Poll
<1>2. n \in Nat /\ DOMAIN FeedOrder = 1..n /\ \A i \in 1..n : FeedOrder[i] \in FeedNames
  BY FeedsAssumption
<1>3. s = [i \in 1..n |-> s[i]] /\ \A i \in 1..n : Plain(s[i])
  BY <1>2, PlainCalls
<1> HIDE DEF about, s, n
<1> QED BY <1>1, <1>2, <1>3, PlainFunction, StartsPlainly

LEMMA RebuildSteps ==
  ASSUME NEW h \in Handlers, Rebuild(h), leaving' = leaving
  PROVE  Steps
<1> DEFINE stored == {f \in FeedNames : Stored(f) # {}}
           about == [topic \in {<<"recent", f>> : f \in stored} |-> h]
           calls == [f \in stored |->
                       Put(Recent(f), MergeRecent(<<>>, {[id |-> id, at |-> At(id)] : id \in Stored(f)}))]
           s == SetToSeq({calls[f] : f \in stored})
<1>1. Starts(h, "rebuild", about, s)
  <2>1. {calls[f] : f \in stored} = {Put(Recent(f), MergeRecent(<<>>, {[id |-> id, at |-> At(id)] : id \in Stored(f)})) : f \in stored}
    BY Zenon
  <2> QED BY <2>1 DEF Rebuild
<1>2. IsFiniteSet(stored)
  <2>1. IsFiniteSet(DOMAIN FeedOrder)
    <3>1. Len(FeedOrder) \in Nat /\ DOMAIN FeedOrder = 1..Len(FeedOrder)
      BY FeedsAssumption
    <3> QED BY <3>1, FS_Interval
  <2>2. FeedOrder = [i \in DOMAIN FeedOrder |-> FeedOrder[i]]
    BY FeedsAssumption
  <2>3. IsFiniteSet({FeedOrder[i] : i \in DOMAIN FeedOrder})
    BY <2>1, <2>2, FiniteImage
  <2>4. IsFiniteSet(FeedNames)
    BY <2>3 DEF FeedNames
  <2>5. stored \subseteq FeedNames
    OBVIOUS
  <2> HIDE DEF stored
  <2> QED BY <2>4, <2>5, FS_Subset
<1>3. calls = [f \in stored |-> calls[f]] /\ \A f \in stored : Plain(calls[f])
  BY PlainCalls, PlainKeys
<1> HIDE DEF about, stored, calls
<1>4. PlainList(s)
  BY <1>2, <1>3, PlainSetList
<1> HIDE DEF s
<1> QED BY <1>1, <1>4, StartsPlainly

LEMMA SeedsIsPlain == PlainList(Seeds)
<1> DEFINE nodes == [s \in Scripts |-> Put(Node(s), None)]
           edges == [s \in Scripts |-> Put(Edge(s), None)]
           n == Cardinality(Scripts)
           signals == [i \in 1..n |->
                         Put(Signalled(SetToSeq(Scripts)[i]), [feed |-> "scenario", n |-> SetToSeq(Scripts)[i], at |-> 0])]
           index == <<Later("index", [feed |-> "scenario", fresh |-> Signals])>>
           m == 2 * n
           marked == <<Put(Marker, None)>>
<1>1. n \in Nat /\ m \in Nat
  BY SeedingAssumption, FS_CardinalityType
<1>2. PlainList(SetToSeq({nodes[s] : s \in Scripts})) /\ PlainList(SetToSeq({edges[s] : s \in Scripts}))
  <2>1. /\ nodes = [s \in Scripts |-> nodes[s]] /\ \A s \in Scripts : Plain(nodes[s])
        /\ edges = [s \in Scripts |-> edges[s]] /\ \A s \in Scripts : Plain(edges[s])
    BY PlainCalls, PlainKeys
  <2> HIDE DEF nodes, edges
  <2> QED BY <2>1, SeedingAssumption, PlainSetList
<1>3. PlainList(Maps)
  <2>1. /\ {nodes[s] : s \in Scripts} = {Put(Node(s), None) : s \in Scripts}
        /\ {edges[s] : s \in Scripts} = {Put(Edge(s), None) : s \in Scripts}
    OBVIOUS
  <2> QED BY <1>2, <2>1, PlainJoin DEF Maps
<1>4. PlainList(signals)
  <2>1. signals = [i \in 1..n |-> signals[i]] /\ \A i \in 1..n : Plain(signals[i])
    BY PlainCalls, PlainKeys
  <2> HIDE DEF signals, n
  <2> QED BY <1>1, <2>1, PlainFunction
<1>5. PlainList(index) /\ PlainList(marked)
  BY PlainCalls, PlainKeys, PlainShort
<1>6. SavesSignals = signals \o index
  BY DEF SavesSignals
<1>7. PlainList(SavesIncidents)
  <2>1. SavesIncidents = [i \in 1..m |-> SavesIncidents[i]]
    BY DEF SavesIncidents
  <2>2. ASSUME NEW i \in 1..m PROVE Plain(SavesIncidents[i])
    <3>1. CASE i % 2 = 1
      <4>1. SavesIncidents[i] = Put(Incident(SetToSeq(Scripts)[(i + 1) \div 2]), None)
        BY <3>1 DEF SavesIncidents
      <4> QED BY <4>1, PlainCalls, PlainKeys
    <3>2. CASE i % 2 # 1
      <4>1. SavesIncidents[i] = Put(Audited(minted + ((i + 1) \div 2)), SetToSeq(Scripts)[(i + 1) \div 2])
        BY <3>2 DEF SavesIncidents
      <4> QED BY <4>1, PlainCalls, PlainKeys
    <3> QED BY <3>1, <3>2
  <2> HIDE DEF m
  <2> QED BY <1>1, <2>1, <2>2, PlainFunction
<1> HIDE DEF nodes, edges, signals, index, marked, n, m
<1>8. PlainList(SavesSignals)
  BY <1>4, <1>5, <1>6, PlainJoin
<1>9. Seeds = ((Maps \o SavesSignals) \o SavesIncidents) \o marked
  BY DEF Seeds, marked
<1>10. PlainList(Maps \o SavesSignals)
  BY <1>3, <1>8, PlainJoin
<1>11. PlainList((Maps \o SavesSignals) \o SavesIncidents)
  BY <1>7, <1>10, PlainJoin
<1> QED BY <1>5, <1>9, <1>11, PlainJoin

LEMMA NextSteps ==
  ASSUME TypeInv, StoredWell, Shapes, [Next]_vars
  PROVE  Steps
<1>1. CASE UNCHANGED vars
  BY <1>1 DEF vars, storeVars, accountVars, Steps, Rests
<1>2. CASE \E f \in FeedNames : (Publishes(f) \/ WindowMoves(f)) /\ UNCHANGED accountVars
  BY <1>2 DEF Publishes, WindowMoves, storeVars, accountVars, Steps, Rests
<1>3. ASSUME NEW h \in Handlers, AccountStep(h) PROVE Steps
  BY <1>3, SignsUpSteps, OwnRequestSteps, CompanyRequestSteps, ReadAgainSteps, AnswersSteps DEF AccountStep
<1>4. ASSUME NEW h \in Handlers, FeedStep(h), UNCHANGED accountVars PROVE Steps
  BY <1>4, PollSteps, RebuildSteps, FeedReadsStep DEF FeedStep, accountVars
<1>5. ASSUME NEW h \in Handlers, NEW scenario \in Scenarios, NEW total \in Scores,
             Attempt(h, scenario, total), UNCHANGED accountVars
      PROVE  Steps
  BY <1>5, AttemptSteps DEF accountVars
<1>6. ASSUME NEW h \in Handlers, SeedDemo(h), UNCHANGED accountVars PROVE Steps
  BY <1>6, SeedsIsPlain, StartsPlainly DEF SeedDemo, accountVars
<1>7. ASSUME NEW h \in Handlers, StorageCall(h), UNCHANGED accountVars PROVE Steps
  BY <1>7, StorageCallSteps DEF accountVars
<1> QED BY <1>1, <1>2, <1>3, <1>4, <1>5, <1>6, <1>7 DEF Next

-----------------------------------------------------------------------------
(* What a step leaves of the requests and of the store *)

LEMMA AfterBegins ==
  ASSUME TypeInv, NEW h \in Handlers, NEW about, NEW s, Begins(h, about, s)
  PROVE  /\ \A k \in Handlers \ {h} : About(k)' = About(k) /\ Todo(k)' = Todo(k) /\ (Working(k)' <=> Working(k))
         /\ About(h)' = about /\ Todo(h)' = s /\ (Working(h)' <=> s # <<>>)
         /\ crossed' = crossed \cup Meets(about) /\ doc' = doc
BY DEF TypeInv, Begins, About, Todo, Working

LEMMA AfterGoes ==
  ASSUME TypeInv, NEW h \in Handlers, NEW s, Goes(h, s)
  PROVE  /\ \A k \in Handlers \ {h} : About(k)' = About(k) /\ Todo(k)' = Todo(k) /\ (Working(k)' <=> Working(k))
         /\ Todo(h)' = s /\ (Working(h)' <=> s # <<>>) /\ Working(h)
         /\ s # <<>> => About(h)' = About(h)
         /\ crossed' = crossed /\ leaving' = leaving
BY DEF TypeInv, Goes, About, Todo, Working, Idle

LEMMA AfterEnds ==
  ASSUME TypeInv, NEW h \in Handlers, Ends(h)
  PROVE  /\ \A k \in Handlers \ {h} : About(k)' = About(k) /\ Todo(k)' = Todo(k) /\ (Working(k)' <=> Working(k))
         /\ Todo(h)' = <<>> /\ ~Working(h)' /\ Working(h)
         /\ crossed' = crossed \cup DOMAIN About(h) /\ doc' = doc /\ leaving' = leaving
BY DEF TypeInv, Ends, About, Todo, Working, Idle

LEMMA AfterRests ==
  ASSUME Rests
  PROVE  /\ \A k : About(k)' = About(k) /\ Todo(k)' = Todo(k) /\ (Working(k)' <=> Working(k))
         /\ crossed' = crossed /\ doc' = doc /\ leaving' = leaving
BY DEF Rests, About, Todo, Working

LEMMA AfterContinues ==
  ASSUME TypeInv, NEW h \in Handlers, NEW s, Continues(h, s)
  PROVE  /\ Todo(h)' = s /\ (s # <<>> => About(h)' = About(h)) /\ crossed' = crossed
         /\ \A k \in Handlers \ {h} : Todo(k)' = Todo(k) /\ About(k)' = About(k) /\ (Working(k)' <=> Working(k))
<1>1. handler[h] = [op |-> handler[h].op, about |-> handler[h].about, todo |-> handler[h].todo]
  BY DEF TypeInv, About, Todo
<1>2. [handler[h] EXCEPT !.todo = s] = [op |-> handler[h].op, about |-> handler[h].about, todo |-> s]
  BY <1>1
<1>3. handler' = [handler EXCEPT ![h] = IF s = <<>> THEN Idle ELSE [op |-> @.op, about |-> @.about, todo |-> s]]
  BY <1>2 DEF Continues
<1> QED BY <1>3 DEF TypeInv, Idle, About, Todo, Working, Continues

LEMMA AfterStarts ==
  ASSUME TypeInv, NEW h \in Handlers, NEW op, NEW about, NEW s, Starts(h, op, about, s)
  PROVE  /\ Todo(h) = <<>> /\ Todo(h)' = s /\ About(h)' = about /\ doc' = doc /\ crossed' = crossed \cup Meets(about)
         /\ \A k \in Handlers \ {h} : Todo(k)' = Todo(k) /\ About(k)' = About(k) /\ (Working(k)' <=> Working(k))
BY DEF TypeInv, Starts, About, Todo, Working

Same(key) == (key \in DOMAIN doc' <=> key \in DOMAIN doc) /\ (key \in DOMAIN doc => doc'[key] = doc[key])

LEMMA AfterWrites ==
  ASSUME NEW h, Writes(h)
  PROVE  LET t == Todo(h)[1]
         IN /\ t.key \in DOMAIN doc' /\ doc'[t.key] = t.value
            /\ \A key : key # t.key => Same(key)
            /\ t.call \in {"put", "new"} /\ Goes(h, Tail(Todo(h)))
BY DEF Writes, With, Same

LEMMA AfterDeletes ==
  ASSUME NEW h, Deletes(h)
  PROVE  LET t == Todo(h)[1]
         IN /\ t.key \notin DOMAIN doc'
            /\ \A key : key # t.key => Same(key)
            /\ t.call = "delete" /\ Goes(h, Tail(Todo(h)))
BY DEF Deletes, Without, Same

LEMMA SecondCall ==
  ASSUME NEW s, IsList(s), s # <<>>
  PROVE  /\ Tail(s) # <<>> => 2 \in DOMAIN s /\ Tail(s)[1] = s[2]
         /\ 2 \in DOMAIN s => Tail(s) # <<>>
         /\ DOMAIN s = {1} => Tail(s) = <<>>
<1> DEFINE t == Tail(s)
<1>1. /\ IsList(t) /\ Len(s) \in Nat \ {0} /\ DOMAIN t = 1..Len(s) - 1 /\ DOMAIN s = 1..Len(s)
      /\ \A i \in 1..Len(s) - 1 : t[i] = s[i + 1] /\ i + 1 \in DOMAIN s
  BY TailFacts, ListFacts
<1> HIDE DEF t
<1>2. t # <<>> => 1 \in DOMAIN t
  BY <1>1, ListFacts
<1>3. t # <<>> => 2 \in DOMAIN s /\ t[1] = s[2]
  BY <1>1, <1>2
<1>4. 2 \in DOMAIN s => 1 \in DOMAIN t
  BY <1>1
<1>5. 2 \in DOMAIN s => t # <<>>
  BY <1>4, ShortLists
<1> QED BY <1>3, <1>5 DEF t

(* The first call ahead of a request at work, by the document it is on. *)
LEMMA WhatIsFirst ==
  ASSUME TypeInv, Shapes, NEW h \in Handlers, Working(h)
  PROVE  LET s == Todo(h)
             t == s[1]
             about == About(h)
         IN /\ t.call = "new" => Plain(t)
            /\ \A u : Sets(t, MemberOf(u)) => ChangesRole(t, u, about)
            /\ \A u : Sets(t, Member(u)) => 2 \in DOMAIN s /\ Halves(t, s[2], u) /\ ChangesRole(s[2], u, about)
            /\ \A u : 2 \in DOMAIN s /\ Sets(s[2], MemberOf(u)) => Halves(t, s[2], u)
            /\ \A u : Sets(t, Training(u)) =>
                 (t.call = "delete" /\ u \in leaving) \/ (DOMAIN s = {1} /\ SavesRecord(t, u, about, h))
            /\ Sets(t, Org) => SavesCompany(s, 1, about)
            /\ t.call = "put" /\ t.key[1] = "INVITE" => SavesInvite(t, about)
            /\ t.call = "delete" /\ t.key[1] = "INVITE" => DropsInvite(s, 1, about)
            /\ Sets(t, Player) => DOMAIN s = {1} /\ SavesPlay(t, about, h)
<1> DEFINE s == Todo(h)
           t == s[1]
           about == About(h)
<1>1. 1 \in DOMAIN s /\ (Ahead(s, about, leaving) \/ Alone(s, about, h))
  BY AtWork DEF Fits
<1> HIDE DEF s, about
<1>2. CASE Ahead(s, about, leaving)
  <2>1. FitsAt(s, 1, about, leaving)
    BY <1>1, <1>2 DEF Ahead
  <2>2. ASSUME NEW u, 2 \in DOMAIN s, Sets(s[2], MemberOf(u)) PROVE ChangesRole(s[2], u, about) /\ Halves(t, s[2], u)
    <3>1. FitsAt(s, 2, about, leaving)
      BY <1>2, <2>2 DEF Ahead
    <3>2. ChangesRole(s[2], u, about) /\ (2 = 1 \/ Halves(s[2 - 1], s[2], u))
      BY <2>2, <3>1, WhatFits
    <3> QED BY <3>2
  <2>3. /\ t.call = "new" => Plain(t)
        /\ \A u : Sets(t, MemberOf(u)) => ChangesRole(t, u, about)
        /\ \A u : Sets(t, Member(u)) => 1 + 1 \in DOMAIN s /\ Halves(t, s[1 + 1], u)
        /\ \A u : Sets(t, Training(u)) => t.call = "delete" /\ u \in leaving
        /\ Sets(t, Org) => SavesCompany(s, 1, about)
        /\ t.call = "put" /\ t.key[1] = "INVITE" => SavesInvite(t, about)
        /\ t.call = "delete" /\ t.key[1] = "INVITE" => DropsInvite(s, 1, about)
        /\ ~Sets(t, Player)
    BY <2>1, WhatFits
  <2>4. \A u : Sets(t, Member(u)) => 2 \in DOMAIN s /\ Halves(t, s[2], u) /\ ChangesRole(s[2], u, about)
    <3> SUFFICES ASSUME NEW u, Sets(t, Member(u))
                 PROVE  2 \in DOMAIN s /\ Halves(t, s[2], u) /\ ChangesRole(s[2], u, about)
      OBVIOUS
    <3>1. 2 \in DOMAIN s /\ Halves(t, s[2], u)
      BY <2>3
    <3> QED BY <2>2, <3>1 DEF Halves
  <2> HIDE DEF t
  <2> QED BY <2>2, <2>3, <2>4 DEF s, t, about
<1>3. CASE Alone(s, about, h)
  <2>1. DOMAIN s = {1} /\ t.call = "put"
    BY <1>3 DEF Alone, SavesPlay, SavesRecord
  <2>2. CASE SavesPlay(t, about, h)
    <3>1. t.key = Player
      BY <2>2 DEF SavesPlay
    <3> HIDE DEF t
    <3> QED BY <2>1, <2>2, <3>1, DocumentsDiffer DEF Sets, s, t, about
  <2>3. ASSUME NEW v, SavesRecord(t, v, about, h) PROVE t.key = Training(v) /\ SavesRecord(t, v, about, h)
    BY <2>3 DEF SavesRecord
  <2>4. CASE \E u : SavesRecord(t, u, about, h)
    <3>1. PICK v : t.key = Training(v) /\ SavesRecord(t, v, about, h)
      BY <2>3, <2>4
    <3> HIDE DEF t
    <3> QED BY <2>1, <3>1, DocumentsDiffer DEF Sets, s, t, about
  <2> QED BY <1>3, <2>2, <2>4 DEF Alone
<1> QED BY <1>1, <1>2, <1>3

-----------------------------------------------------------------------------
(* The invariant is preserved, one conjunct at a time. *)

LEMMA TypeStep ==
  ASSUME TypeInv, Steps, [Next]_vars
  PROVE  TypeInv'
<1>1. published' \in [FeedNames -> [stamps : Seq(Nat), window : Nat]]
  <2>1. CASE published' = published
    BY <2>1 DEF TypeInv
  <2>2. ASSUME NEW f \in FeedNames, Publishes(f)
        PROVE  published' \in [FeedNames -> [stamps : Seq(Nat), window : Nat]]
    <3>1. Stamps(f) \in Seq(Nat) /\ published[f].window \in Nat /\ MaxEntries[f] \in Nat
      BY FeedsAssumption DEF TypeInv, Stamps
    <3>2. PICK at \in 1..MaxEntries[f] :
             published' = [published EXCEPT ![f] = [stamps |-> Append(Stamps(f), at), window |-> published[f].window]]
      BY <2>2 DEF Publishes
    <3>3. Append(Stamps(f), at) \in Seq(Nat)
      BY <3>1, <3>2
    <3> QED BY <3>1, <3>2, <3>3 DEF TypeInv
  <2>3. ASSUME NEW f \in FeedNames, WindowMoves(f)
        PROVE  published' \in [FeedNames -> [stamps : Seq(Nat), window : Nat]]
    <3>1. Stamps(f) \in Seq(Nat) /\ published[f].window + 1 \in Nat
      BY DEF TypeInv, Stamps
    <3> QED BY <2>3, <3>1 DEF TypeInv, WindowMoves
  <2>4. published' = published \/ \E f \in FeedNames : Publishes(f) \/ WindowMoves(f)
    BY DEF Next, vars, FeedStep, Poll, ReadsCursor, Fetches, Unavailable, SyncIsLost, Indexes, Rebuild
  <2> QED BY <2>1, <2>2, <2>3, <2>4
<1>2. /\ DOMAIN handler' = Handlers /\ handler' = [h \in Handlers |-> handler'[h]]
      /\ \A h \in Handlers : handler'[h] = [op |-> handler'[h].op, about |-> About(h)', todo |-> Todo(h)']
  <2>1. ASSUME NEW h \in Handlers, NEW about, NEW s, Begins(h, about, s)
        PROVE  /\ DOMAIN handler' = Handlers /\ handler' = [k \in Handlers |-> handler'[k]]
               /\ \A k \in Handlers : handler'[k] = [op |-> handler'[k].op, about |-> About(k)', todo |-> Todo(k)']
    BY <2>1 DEF Begins, TypeInv, About, Todo
  <2>2. ASSUME NEW h \in Handlers, NEW s, Goes(h, s)
        PROVE  /\ DOMAIN handler' = Handlers /\ handler' = [k \in Handlers |-> handler'[k]]
               /\ \A k \in Handlers : handler'[k] = [op |-> handler'[k].op, about |-> About(k)', todo |-> Todo(k)']
    BY <2>2 DEF Goes, TypeInv, About, Todo, Idle
  <2>3. ASSUME NEW h \in Handlers, Ends(h)
        PROVE  /\ DOMAIN handler' = Handlers /\ handler' = [k \in Handlers |-> handler'[k]]
               /\ \A k \in Handlers : handler'[k] = [op |-> handler'[k].op, about |-> About(k)', todo |-> Todo(k)']
    BY <2>3 DEF Ends, TypeInv, About, Todo, Idle
  <2>4. CASE Rests
    BY <2>4 DEF Rests, TypeInv, About, Todo
  <2> QED BY <2>1, <2>2, <2>3, <2>4 DEF Steps, Writes, Deletes, Decides
<1>3. doc' = [key \in DOMAIN doc' |-> doc'[key]] /\ IsFiniteSet(DOMAIN doc')
  <2>1. CASE doc' = doc
    BY <2>1 DEF TypeInv
  <2>2. ASSUME NEW h, Writes(h) PROVE doc' = [key \in DOMAIN doc' |-> doc'[key]] /\ IsFiniteSet(DOMAIN doc')
    <3>1. DOMAIN doc' = DOMAIN doc \cup {Todo(h)[1].key} /\ doc' = [key \in DOMAIN doc' |-> doc'[key]]
      BY <2>2 DEF Writes, With
    <3>2. IsFiniteSet(DOMAIN doc)
      BY DEF TypeInv
    <3>3. IsFiniteSet(DOMAIN doc \cup {Todo(h)[1].key})
      BY <3>2, FS_AddElement
    <3> QED BY <3>1, <3>3
  <2>3. ASSUME NEW h, Deletes(h) PROVE doc' = [key \in DOMAIN doc' |-> doc'[key]] /\ IsFiniteSet(DOMAIN doc')
    <3>1. DOMAIN doc' = DOMAIN doc \ {Todo(h)[1].key} /\ doc' = [key \in DOMAIN doc' |-> doc'[key]]
      BY <2>3 DEF Deletes, Without
    <3>2. DOMAIN doc' \subseteq DOMAIN doc
      BY <3>1
    <3> QED BY <3>1, <3>2, FS_Subset DEF TypeInv
  <2> QED BY <2>1, <2>2, <2>3 DEF Steps, Begins, Ends, Decides, Rests
<1> QED BY <1>1, <1>2, <1>3 DEF TypeInv

(* The documents of a step that neither writes nor deletes are as they were. *)
LEMMA OnlyCallsWrite ==
  ASSUME Steps
  PROVE  doc' = doc \/ \E h \in Handlers : Writes(h) \/ Deletes(h)
BY DEF Steps, Begins, Ends, Decides, Rests

LEMMA StoredStep ==
  ASSUME TypeInv, StoredWell, Shapes, Steps
  PROVE  StoredWell'
<1>1. CASE doc' = doc
  BY <1>1 DEF StoredWell, Held
<1>2. ASSUME NEW h \in Handlers, Writes(h) PROVE StoredWell'
  <2> DEFINE t == Todo(h)[1]
  <2>1. /\ t.key \in DOMAIN doc' /\ doc'[t.key] = t.value /\ (\A key : key # t.key => Same(key))
        /\ t.call \in {"put", "new"} /\ Working(h)
    BY <1>2, AfterWrites DEF Goes
  <2>2. /\ t.call = "new" => t.key[1] \notin Related
        /\ \A u : Sets(t, Training(u)) => t.value \in Records
        /\ Sets(t, Org) => IsCompany(t.value)
        /\ Sets(t, Player) => t.value \in Plays
    BY <2>1, WhatIsFirst DEF Plain, SavesRecord, SavesCompany, SavesPlay
  <2> HIDE DEF t
  <2>3. \A u : t.key = Training(u) => t.value \in Records
    BY <2>1, <2>2, DocumentsDiffer DEF Sets, Related
  <2>4. (t.key = Org => IsCompany(t.value)) /\ (t.key = Player => t.value \in Plays)
    BY <2>1, <2>2, DocumentsDiffer DEF Sets, Related
  <2>5. \A u : Training(u) \in DOMAIN doc' => doc'[Training(u)] \in Records
    BY <2>1, <2>3 DEF StoredWell, Same, Held
  <2>6. Org \in DOMAIN doc' => IsCompany(doc'[Org])
    BY <2>1, <2>4 DEF StoredWell, Same, Held
  <2>7. Player \in DOMAIN doc' => doc'[Player] \in Plays
    BY <2>1, <2>4 DEF StoredWell, Same, Held
  <2> QED BY <2>5, <2>6, <2>7 DEF StoredWell, Held
<1>3. ASSUME NEW h \in Handlers, Deletes(h) PROVE StoredWell'
  <2>1. \A key : key \in DOMAIN doc' => key \in DOMAIN doc /\ doc'[key] = doc[key]
    BY <1>3, AfterDeletes DEF Same
  <2> QED BY <2>1 DEF StoredWell, Held
<1> QED BY <1>1, <1>2, <1>3, OnlyCallsWrite

LEMMA FitsLater ==
  ASSUME NEW h, NEW s, NEW about, Fits(h, s, about, leaving), leaving \subseteq leaving'
  PROVE  Fits(h, s, about, leaving')
BY DEF Fits, Ahead, FitsAt, DropsRecord

LEMMA FitsTail ==
  ASSUME NEW h, NEW s, NEW about, NEW left, Fits(h, s, about, left), s # <<>>
  PROVE  Tail(s) # <<>> => Fits(h, Tail(s), about, left)
<1>1. IsList(s)
  BY DEF Fits, Ahead, Alone
<1>2. CASE Ahead(s, about, left)
  BY <1>2, AheadOfTail DEF Fits
<1>3. CASE Alone(s, about, h)
  BY <1>1, <1>3, SecondCall DEF Alone
<1> QED BY <1>2, <1>3 DEF Fits

LEMMA NothingFits ==
  ASSUME NEW h, NEW about, NEW left
  PROVE  Fits(h, <<>>, about, left)
BY PlainShort, PlainListFits DEF Fits

LEMMA ShapesStep ==
  ASSUME TypeInv, Shapes, Steps
  PROVE  Shapes'
<1>1. leaving \subseteq leaving'
  BY DEF Steps, Begins, Writes, Deletes, Ends, Decides, Goes, Rests
<1>2. ASSUME NEW k \in Handlers, About(k)' = About(k), Todo(k)' = Todo(k)
      PROVE  Fits(k, Todo(k)', About(k)', leaving')
  BY <1>1, <1>2, FitsLater DEF Shapes
<1>3. ASSUME NEW k \in Handlers, Todo(k)' = <<>>
      PROVE  Fits(k, Todo(k)', About(k)', leaving')
  BY <1>3, NothingFits
<1>4. ASSUME NEW h \in Handlers, NEW about, NEW s, Begins(h, about, s) PROVE Shapes'
  <2>1. Fits(h, Todo(h)', About(h)', leaving')
    BY <1>4, AfterBegins DEF Begins
  <2> QED BY <1>2, <1>4, <2>1, AfterBegins DEF Shapes
<1>5. ASSUME NEW h \in Handlers, Goes(h, Tail(Todo(h))) PROVE Shapes'
  <2>1. Working(h) /\ Todo(h) # <<>> /\ Fits(h, Todo(h), About(h), leaving)
    BY <1>5, AtWork DEF Goes
  <2>2. CASE Tail(Todo(h)) = <<>>
    <3>1. Todo(h)' = <<>>
      BY <1>5, <2>2, AfterGoes
    <3> QED BY <1>2, <1>3, <1>5, <3>1, AfterGoes DEF Shapes
  <2>3. CASE Tail(Todo(h)) # <<>>
    <3>1. Todo(h)' = Tail(Todo(h)) /\ About(h)' = About(h) /\ leaving' = leaving
      <4> DEFINE s == Tail(Todo(h))
      <4>1. Goes(h, s) /\ s # <<>>
        BY <1>5, <2>3
      <4> HIDE DEF s
      <4>2. Todo(h)' = s /\ About(h)' = About(h) /\ leaving' = leaving
        BY <4>1, AfterGoes
      <4> QED BY <4>2 DEF s
    <3>2. Fits(h, Todo(h)', About(h)', leaving')
      BY <2>1, <2>3, <3>1, FitsTail
    <3> QED BY <1>2, <1>5, <3>2, AfterGoes DEF Shapes
  <2> QED BY <2>2, <2>3
<1>6. ASSUME NEW h \in Handlers, Ends(h) PROVE Shapes'
  BY <1>2, <1>3, <1>6, AfterEnds DEF Shapes
<1>7. ASSUME NEW h \in Handlers, NEW s, Decides(h, s) PROVE Shapes'
  <2>1. Goes(h, s) /\ Fits(h, s, About(h), leaving)
    BY <1>7 DEF Decides, Fits
  <2>2. CASE s = <<>>
    <3>1. Todo(h)' = <<>>
      BY <2>1, <2>2, AfterGoes
    <3> QED BY <1>2, <1>3, <2>1, <3>1, AfterGoes DEF Shapes
  <2>3. CASE s # <<>>
    <3>1. Fits(h, Todo(h)', About(h)', leaving')
      BY <2>1, <2>3, AfterGoes
    <3> QED BY <1>2, <2>1, <3>1, AfterGoes DEF Shapes
  <2> QED BY <2>2, <2>3
<1>8. CASE Rests
  BY <1>2, <1>8, AfterRests DEF Shapes
<1> QED BY <1>4, <1>5, <1>6, <1>7, <1>8 DEF Steps, Writes, Deletes

LEMMA AlikeStep ==
  ASSUME TypeInv, Alike, Steps
  PROVE  Alike'
<1>1. SUFFICES ASSUME NEW topic, topic \notin crossed', NEW h \in Handlers, NEW k \in Handlers,
                      Works(h, topic)', Works(k, topic)'
               PROVE  About(h)'[topic] = About(k)'[topic]
  BY DEF Alike
<1>2. topic \notin crossed
  BY <1>1 DEF Steps, Begins, Writes, Deletes, Ends, Decides, Goes, Rests
<1>3. ASSUME \A g \in Handlers : Works(g, topic)' => Works(g, topic) /\ About(g)' = About(g)
      PROVE  About(h)'[topic] = About(k)'[topic]
  BY <1>1, <1>2, <1>3 DEF Alike
<1>4. ASSUME NEW g \in Handlers, NEW s, Goes(g, s) PROVE About(h)'[topic] = About(k)'[topic]
  BY <1>3, <1>4, AfterGoes DEF Works
<1>5. ASSUME NEW g \in Handlers, Ends(g) PROVE About(h)'[topic] = About(k)'[topic]
  BY <1>3, <1>5, AfterEnds DEF Works
<1>6. CASE Rests
  BY <1>3, <1>6, AfterRests DEF Works
<1>7. ASSUME NEW g \in Handlers, NEW about, NEW s, Begins(g, about, s) PROVE About(h)'[topic] = About(k)'[topic]
  <2>1. \A f \in Handlers \ {g} : Works(f, topic)' => Works(f, topic) /\ About(f)' = About(f)
    BY <1>7, AfterBegins DEF Works
  <2>2. \A f \in Handlers : Works(f, topic) /\ topic \in DOMAIN about => About(f)[topic] = about[topic]
    BY <1>1, <1>7, AfterBegins DEF Meets, Works, About
  <2>3. About(g)' = about
    BY <1>7, AfterBegins
  <2>4. Works(g, topic)' => topic \in DOMAIN about
    BY <2>3 DEF Works
  <2>5. CASE h = g \/ k = g
    BY <1>1, <2>1, <2>2, <2>3, <2>4, <2>5
  <2>6. CASE h # g /\ k # g
    BY <1>1, <1>2, <2>1, <2>6 DEF Alike
  <2> QED BY <2>5, <2>6
<1> QED BY <1>4, <1>5, <1>6, <1>7 DEF Steps, Writes, Deletes, Decides

LEMMA CrossedStays ==
  ASSUME Steps
  PROVE  crossed \subseteq crossed'
BY DEF Steps, Begins, Writes, Deletes, Ends, Decides, Goes, Rests

MembershipIsGood(u) ==
    /\ Agree(u) \/ \E h \in Handlers : AtSecond(h, u)
    /\ \A h \in Handlers : AtSecond(h, u) => FirstIsDone(h, u)

(* A step that leaves both documents, and whoever is between them, leaves the membership good. *)
LEMMA QuietMembership ==
  ASSUME NEW u, MembershipIsGood(u), Same(Member(u)), Same(MemberOf(u)),
         \A k \in Handlers : /\ AtSecond(k, u)' <=> AtSecond(k, u)
                             /\ AtSecond(k, u) => Todo(k)' = Todo(k)
  PROVE  MembershipIsGood(u)'
<1>1. Agree(u)' <=> Agree(u)
  BY DEF Agree, Held, Same
<1>2. \A k \in Handlers : AtSecond(k, u) => (FirstIsDone(k, u)' <=> FirstIsDone(k, u))
  BY DEF FirstIsDone, Held, Same
<1> QED BY <1>1, <1>2 DEF MembershipIsGood

(* What lies behind the first call is a second half only if the first call is the first half. *)
LEMMA NextIsSecond ==
  ASSUME TypeInv, Shapes, NEW h \in Handlers, Goes(h, Tail(Todo(h))), NEW u
  PROVE  /\ AtSecond(h, u)' => Halves(Todo(h)[1], Todo(h)[2], u)
         /\ 2 \in DOMAIN Todo(h) => Working(h)' /\ Todo(h)'[1] = Todo(h)[2] /\ About(h)' = About(h)
<1> DEFINE s == Todo(h)
           q == Tail(s)
<1>1. Working(h) /\ IsList(s) /\ s # <<>>
  BY AtWork DEF Goes
<1>2. /\ q # <<>> => 2 \in DOMAIN s /\ q[1] = s[2]
      /\ 2 \in DOMAIN s => q # <<>>
  BY <1>1, SecondCall
<1>3. Goes(h, q)
  OBVIOUS
<1> HIDE DEF q
<1>4. Todo(h)' = q /\ (Working(h)' <=> q # <<>>) /\ (q # <<>> => About(h)' = About(h))
  BY <1>3, AfterGoes
<1>5. 2 \in DOMAIN s /\ Sets(s[2], MemberOf(u)) => Halves(s[1], s[2], u)
  BY <1>1, WhatIsFirst
<1> HIDE DEF s
<1>6. AtSecond(h, u)' => Halves(s[1], s[2], u)
  BY <1>2, <1>4, <1>5 DEF AtSecond, Sets
<1> QED BY <1>2, <1>4, <1>6 DEF s

LEMMA OthersAtSecond ==
  ASSUME NEW u, NEW k, Todo(k)' = Todo(k), Working(k)' <=> Working(k)
  PROVE  AtSecond(k, u)' <=> AtSecond(k, u)
BY DEF AtSecond, Sets

(* A storage call on neither document of a membership. *)
LEMMA CallElsewhere ==
  ASSUME TypeInv, Shapes, NEW u, MembershipIsGood(u), NEW h \in Handlers, Goes(h, Tail(Todo(h))),
         Todo(h)[1].key # Member(u), Todo(h)[1].key # MemberOf(u), Same(Member(u)), Same(MemberOf(u))
  PROVE  MembershipIsGood(u)'
<1>1. ~AtSecond(h, u)
  BY DEF AtSecond, Sets
<1>2. ~AtSecond(h, u)'
  BY NextIsSecond DEF Halves, Sets
<1>3. \A k \in Handlers \ {h} : Todo(k)' = Todo(k) /\ (Working(k)' <=> Working(k))
  <2> DEFINE q == Tail(Todo(h))
  <2>1. Goes(h, q)
    OBVIOUS
  <2> HIDE DEF q
  <2> QED BY <2>1, AfterGoes
<1> QED BY <1>1, <1>2, <1>3, OthersAtSecond, QuietMembership

(* The first of the two calls of a change.  Whoever else is between the two is making the same change. *)
LEMMA FirstHalf ==
  ASSUME TypeInv, Shapes, Alike, NEW u, MembershipOf(u) \notin crossed, MembershipIsGood(u),
         NEW h \in Handlers, Goes(h, Tail(Todo(h))), Sets(Todo(h)[1], Member(u)),
         IF Todo(h)[1].call = "put" THEN Member(u) \in DOMAIN doc' /\ doc'[Member(u)] = Todo(h)[1].value
                                    ELSE Member(u) \notin DOMAIN doc'
  PROVE  MembershipIsGood(u)'
<1> DEFINE s == Todo(h)
           t == s[1]
<1>1. Working(h)
  BY DEF Goes
<1>2. 2 \in DOMAIN s /\ Halves(t, s[2], u) /\ ChangesRole(s[2], u, About(h))
  BY <1>1, WhatIsFirst
<1>3. Working(h)' /\ Todo(h)'[1] = s[2]
  BY <1>2, NextIsSecond
<1>4. \A k \in Handlers \ {h} : Todo(k)' = Todo(k) /\ (Working(k)' <=> Working(k))
  <2> DEFINE q == Tail(Todo(h))
  <2>1. Goes(h, q)
    OBVIOUS
  <2> HIDE DEF q
  <2> QED BY <2>1, AfterGoes
<1>5. AtSecond(h, u)' /\ FirstIsDone(h, u)'
  BY <1>2, <1>3 DEF AtSecond, FirstIsDone, Halves, Sets, Held, Change
<1>6. ASSUME NEW k \in Handlers, k # h, AtSecond(k, u)' PROVE FirstIsDone(k, u)'
  <2>1. AtSecond(k, u) /\ Todo(k)' = Todo(k) /\ Working(k)
    BY <1>4, <1>6, OthersAtSecond DEF AtSecond
  <2>2. ChangesRole(Todo(k)[1], u, About(k))
    BY <2>1, WhatIsFirst DEF AtSecond
  <2>3. Works(h, MembershipOf(u)) /\ Works(k, MembershipOf(u))
    BY <1>1, <1>2, <2>1, <2>2 DEF ChangesRole, Alters, Works
  <2>4. About(h)[MembershipOf(u)] = About(k)[MembershipOf(u)]
    BY <2>3 DEF Alike
  <2>5. Change(t) = Change(Todo(k)[1])
    BY <1>2, <2>2, <2>4 DEF ChangesRole, Alters, Halves
  <2>6. t.call = "put" <=> Todo(k)[1].call = "put"
    <3>1. t.call = "put" => Change(t) \in Roles
      BY <1>2 DEF ChangesRole, Halves, Change
    <3>2. Todo(k)[1].call = "put" => Change(Todo(k)[1]) \in Roles
      BY <2>2 DEF ChangesRole, Change
    <3> QED BY <2>5, <3>1, <3>2 DEF Change, Roles, None
  <2> QED BY <2>1, <2>5, <2>6 DEF FirstIsDone, Held, Change
<1> QED BY <1>5, <1>6 DEF MembershipIsGood

(* The second call makes the two documents agree. *)
LEMMA SecondHalf ==
  ASSUME TypeInv, Shapes, NEW u, MembershipIsGood(u),
         NEW h \in Handlers, Goes(h, Tail(Todo(h))), Sets(Todo(h)[1], MemberOf(u)), Same(Member(u)),
         IF Todo(h)[1].call = "put" THEN MemberOf(u) \in DOMAIN doc' /\ doc'[MemberOf(u)] = Todo(h)[1].value
                                    ELSE MemberOf(u) \notin DOMAIN doc'
  PROVE  MembershipIsGood(u)'
<1>1. Working(h)
  BY DEF Goes
<1>2. FirstIsDone(h, u)
  BY <1>1 DEF MembershipIsGood, AtSecond
<1>3. Agree(u)'
  BY <1>2 DEF FirstIsDone, Agree, Held, Same
<1>4. ~AtSecond(h, u)'
  BY NextIsSecond, DocumentsDiffer DEF Halves, Sets
<1>5. \A k \in Handlers \ {h} : Todo(k)' = Todo(k) /\ (Working(k)' <=> Working(k))
  <2> DEFINE q == Tail(Todo(h))
  <2>1. Goes(h, q)
    OBVIOUS
  <2> HIDE DEF q
  <2> QED BY <2>1, AfterGoes
<1>6. ASSUME NEW k \in Handlers, AtSecond(k, u)' PROVE FirstIsDone(k, u)'
  <2>1. AtSecond(k, u) /\ Todo(k)' = Todo(k)
    BY <1>4, <1>5, <1>6, OthersAtSecond
  <2>2. FirstIsDone(k, u)
    BY <2>1 DEF MembershipIsGood
  <2> QED BY <2>1, <2>2 DEF FirstIsDone, Held, Same
<1> QED BY <1>3, <1>6 DEF MembershipIsGood

LEMMA MembershipsStep ==
  ASSUME TypeInv, Shapes, Alike, Memberships, Steps
  PROVE  Memberships'
<1>1. SUFFICES ASSUME NEW u, MembershipOf(u) \notin crossed' PROVE MembershipIsGood(u)'
  BY DEF Memberships, MembershipIsGood
<1>2. MembershipOf(u) \notin crossed /\ MembershipIsGood(u)
  BY <1>1, CrossedStays DEF Memberships, MembershipIsGood
<1>3. ASSUME doc' = doc, NEW h \in Handlers, ~AtSecond(h, u), ~AtSecond(h, u)',
             \A k \in Handlers \ {h} : Todo(k)' = Todo(k) /\ (Working(k)' <=> Working(k))
      PROVE  MembershipIsGood(u)'
  <2>1. Same(Member(u)) /\ Same(MemberOf(u))
    BY <1>3 DEF Same
  <2> QED BY <1>2, <1>3, <2>1, OthersAtSecond, QuietMembership
<1>4. ASSUME NEW h \in Handlers, NEW about, NEW s, Begins(h, about, s) PROVE MembershipIsGood(u)'
  <2>1. ~AtSecond(h, u)
    BY <1>4 DEF Begins, AtSecond
  <2>2. ~AtSecond(h, u)'
    BY <1>4, AfterBegins DEF Begins, New, AtSecond, Sets
  <2> QED BY <1>3, <1>4, <2>1, <2>2, AfterBegins
<1>5. ASSUME NEW h \in Handlers, NEW s, Decides(h, s) PROVE MembershipIsGood(u)'
  <2>1. Goes(h, s) /\ New(s) /\ doc' = doc
    BY <1>5 DEF Decides
  <2>2. ~AtSecond(h, u)
    BY <1>5, PlainIsHarmless DEF Decides, AtSecond, ReadsMembership, Sets
  <2>3. ~AtSecond(h, u)'
    BY <2>1, AfterGoes DEF New, AtSecond, Sets
  <2> QED BY <1>3, <2>1, <2>2, <2>3, AfterGoes
<1>6. ASSUME NEW h \in Handlers, Ends(h) PROVE MembershipIsGood(u)'
  <2>1. MembershipOf(u) \notin DOMAIN About(h) /\ Working(h) /\ ~Working(h)' /\ doc' = doc
    BY <1>1, <1>6, AfterEnds
  <2>2. ~AtSecond(h, u)
    BY <2>1, WhatIsFirst DEF AtSecond, ChangesRole, Alters
  <2>3. ~AtSecond(h, u)'
    BY <2>1 DEF AtSecond
  <2> QED BY <1>3, <1>6, <2>1, <2>2, <2>3, AfterEnds
<1>7. CASE Rests
  <2>1. Same(Member(u)) /\ Same(MemberOf(u))
    BY <1>7 DEF Same, Rests
  <2> QED BY <1>2, <1>7, <2>1, AfterRests, OthersAtSecond, QuietMembership
<1>8. ASSUME NEW h \in Handlers, Writes(h) PROVE MembershipIsGood(u)'
  <2> DEFINE t == Todo(h)[1]
  <2>1. /\ t.key \in DOMAIN doc' /\ doc'[t.key] = t.value /\ (\A key : key # t.key => Same(key))
        /\ t.call \in {"put", "new"} /\ Goes(h, Tail(Todo(h))) /\ Working(h)
    BY <1>8, AfterWrites DEF Goes
  <2>2. t.call = "new" => t.key[1] \notin Related
    BY <2>1, WhatIsFirst DEF Plain
  <2>3. CASE t.key = Member(u)
    <3>1. t.call = "put" /\ Sets(t, Member(u))
      BY <2>1, <2>2, <2>3, DocumentsDiffer DEF Related, Sets
    <3> QED BY <1>2, <2>1, <2>3, <3>1, FirstHalf
  <2>4. CASE t.key = MemberOf(u)
    <3>1. t.call = "put" /\ Sets(t, MemberOf(u)) /\ Same(Member(u))
      BY <2>1, <2>2, <2>4, DocumentsDiffer DEF Related, Sets
    <3> QED BY <1>2, <2>1, <2>4, <3>1, SecondHalf
  <2>5. CASE t.key # Member(u) /\ t.key # MemberOf(u)
    BY <1>2, <2>1, <2>5, CallElsewhere
  <2> QED BY <2>3, <2>4, <2>5
<1>9. ASSUME NEW h \in Handlers, Deletes(h) PROVE MembershipIsGood(u)'
  <2> DEFINE t == Todo(h)[1]
  <2>1. /\ t.key \notin DOMAIN doc' /\ (\A key : key # t.key => Same(key))
        /\ t.call = "delete" /\ Goes(h, Tail(Todo(h)))
    BY <1>9, AfterDeletes
  <2>2. CASE t.key = Member(u)
    <3>1. t.call # "put" /\ Sets(t, Member(u))
      BY <2>1, <2>2 DEF Sets
    <3> QED BY <1>2, <2>1, <2>2, <3>1, FirstHalf
  <2>3. CASE t.key = MemberOf(u)
    <3>1. t.call # "put" /\ Sets(t, MemberOf(u)) /\ Same(Member(u))
      BY <2>1, <2>3, DocumentsDiffer DEF Sets
    <3> QED BY <1>2, <2>1, <2>3, <3>1, SecondHalf
  <2>4. CASE t.key # Member(u) /\ t.key # MemberOf(u)
    BY <1>2, <2>1, <2>4, CallElsewhere
  <2> QED BY <2>2, <2>3, <2>4
<1> QED BY <1>4, <1>5, <1>6, <1>7, <1>8, <1>9 DEF Steps

CompanyIsGood ==
    Held(Org) =>
        \/ Held(Invite(doc[Org].invite))
        \/ \E h \in Handlers : AtInvite(h, doc[Org].invite) \/ AtNewCode(h)

(* Only the request that steps may stop being about to write the code, or a newer one. *)
LEMMA QuietCompany ==
  ASSUME CompanyIsGood, Same(Org), NEW h \in Handlers,
         \A code : Held(Invite(code)) => Invite(code) \in DOMAIN doc',
         \A code : AtInvite(h, code) => Invite(code) \in DOMAIN doc',
         ~AtNewCode(h),
         \A k \in Handlers \ {h} : Todo(k)' = Todo(k) /\ About(k)' = About(k) /\ (Working(k)' <=> Working(k))
  PROVE  CompanyIsGood'
<1>1. SUFFICES ASSUME Org \in DOMAIN doc'
               PROVE  \/ Invite(doc'[Org].invite) \in DOMAIN doc'
                      \/ \E k \in Handlers : AtInvite(k, doc[Org].invite)' \/ AtNewCode(k)'
  <2>1. Org \in DOMAIN doc' => doc'[Org] = doc[Org]
    BY DEF Same
  <2> QED BY <2>1 DEF CompanyIsGood, Held, AtInvite
<1>2. Held(Org) /\ doc'[Org] = doc[Org]
  BY <1>1 DEF Same, Held
<1>3. \A k \in Handlers \ {h} : /\ AtInvite(k, doc[Org].invite) => AtInvite(k, doc[Org].invite)'
                                /\ AtNewCode(k) => AtNewCode(k)'
  BY <1>2 DEF AtInvite, AtNewCode, Alters
<1> QED BY <1>2, <1>3 DEF CompanyIsGood

LEMMA OthersAfterCall ==
  ASSUME TypeInv, NEW h \in Handlers, Goes(h, Tail(Todo(h)))
  PROVE  \A k \in Handlers \ {h} : Todo(k)' = Todo(k) /\ About(k)' = About(k) /\ (Working(k)' <=> Working(k))
<1> DEFINE q == Tail(Todo(h))
<1>1. Goes(h, q)
  OBVIOUS
<1> HIDE DEF q
<1> QED BY <1>1, AfterGoes

LEMMA CodeStep ==
  ASSUME TypeInv, Shapes, CodeIsGood, CodeIsKept, Steps
  PROVE  CodeIsGood'
<1>1. SUFFICES ASSUME TheCompany \notin crossed' PROVE CompanyIsGood'
  BY DEF CodeIsGood, CompanyIsGood
<1>2. TheCompany \notin crossed /\ CompanyIsGood
  BY <1>1, CrossedStays DEF CodeIsGood, CompanyIsGood
<1>3. ASSUME doc' = doc, NEW h \in Handlers, ~AtNewCode(h), \A code : ~AtInvite(h, code),
             \A k \in Handlers \ {h} : Todo(k)' = Todo(k) /\ About(k)' = About(k) /\ (Working(k)' <=> Working(k))
      PROVE  CompanyIsGood'
  <2>1. Same(Org) /\ \A code : Held(Invite(code)) => Invite(code) \in DOMAIN doc'
    BY <1>3 DEF Same, Held
  <2> QED BY <1>2, <1>3, <2>1, QuietCompany
<1>4. ASSUME NEW h \in Handlers, NEW about, NEW s, Begins(h, about, s) PROVE CompanyIsGood'
  <2>1. ~AtNewCode(h) /\ \A code : ~AtInvite(h, code)
    BY <1>4 DEF Begins, AtInvite, AtNewCode
  <2> QED BY <1>3, <1>4, <2>1, AfterBegins
<1>5. ASSUME NEW h \in Handlers, NEW s, Decides(h, s) PROVE CompanyIsGood'
  <2>1. Goes(h, s) /\ doc' = doc
    BY <1>5 DEF Decides
  <2>2. ~AtNewCode(h) /\ \A code : ~AtInvite(h, code)
    BY <1>5, DocumentsDiffer DEF Decides, Plain, ReadsMembership, AtInvite, AtNewCode, Related
  <2> QED BY <1>3, <2>1, <2>2, AfterGoes
<1>6. ASSUME NEW h \in Handlers, Ends(h) PROVE CompanyIsGood'
  <2>1. TheCompany \notin DOMAIN About(h) /\ Working(h) /\ doc' = doc
    BY <1>1, <1>6, AfterEnds
  <2>2. ~AtNewCode(h)
    BY <2>1 DEF AtNewCode, Alters
  <2>3. \A code : ~AtInvite(h, code)
    BY <2>1, WhatIsFirst, DocumentsDiffer DEF AtInvite, SavesInvite, Alters
  <2> QED BY <1>3, <1>6, <2>1, <2>2, <2>3, AfterEnds
<1>7. CASE Rests
  BY <1>2, <1>7, AfterRests DEF CompanyIsGood, Held, AtInvite, AtNewCode, Alters
<1>8. ASSUME NEW h \in Handlers, Writes(h) PROVE CompanyIsGood'
  <2> DEFINE s == Todo(h)
             t == s[1]
  <2>1. /\ t.key \in DOMAIN doc' /\ doc'[t.key] = t.value /\ (\A key : key # t.key => Same(key))
        /\ t.call \in {"put", "new"} /\ Goes(h, Tail(s)) /\ Working(h)
    BY <1>8, AfterWrites DEF Goes
  <2>2. \A k \in Handlers \ {h} : Todo(k)' = Todo(k) /\ About(k)' = About(k) /\ (Working(k)' <=> Working(k))
    BY <2>1, OthersAfterCall
  <2>3. CASE t.key # Org
    <3>1. Same(Org) /\ \A code : Held(Invite(code)) => Invite(code) \in DOMAIN doc'
      BY <2>1, <2>3 DEF Same, Held
    <3>2. ~AtNewCode(h) /\ \A code : AtInvite(h, code) => Invite(code) \in DOMAIN doc'
      BY <2>1, <2>3 DEF AtNewCode, AtInvite
    <3> QED BY <1>2, <2>2, <3>1, <3>2, QuietCompany
  <2>4. CASE t.key = Org
    <3>1. t.call = "put" /\ SavesCompany(s, 1, About(h))
      BY <2>1, <2>4, WhatIsFirst, DocumentsDiffer DEF Plain, Related, Sets
    <3>2. CASE Alters(About(h), TheCompany, {"settings", "intake"})
      <4>1. 1 \in DOMAIN s
        BY <2>1, AtWork
      <4>2. KeepsCode(t, About(h))
        BY <1>2, <4>1 DEF CodeIsKept
      <4>3. Held(Org) /\ t.value.invite = doc[Org].invite
        BY <2>4, <3>1, <3>2, <4>2 DEF KeepsCode
      <4>4. doc'[Org].invite = doc[Org].invite
        BY <2>1, <2>4, <4>3
      <4>5. ~AtNewCode(h) /\ \A code : ~AtInvite(h, code)
        BY <2>4, <3>2, DocumentsDiffer DEF AtNewCode, AtInvite, Alters
      <4>6. \A code : Held(Invite(code)) => Invite(code) \in DOMAIN doc'
        BY <2>1, <2>4, DocumentsDiffer DEF Same, Held
      <4>7. \A k \in Handlers \ {h} : /\ AtInvite(k, doc[Org].invite) => AtInvite(k, doc[Org].invite)'
                                      /\ AtNewCode(k) => AtNewCode(k)'
        BY <2>2, <4>4 DEF AtInvite, AtNewCode, Alters
      <4>8. \/ Invite(doc[Org].invite) \in DOMAIN doc'
            \/ \E k \in Handlers \ {h} : AtInvite(k, doc[Org].invite)' \/ AtNewCode(k)'
        BY <1>2, <4>3, <4>5, <4>6, <4>7 DEF CompanyIsGood
      <4> QED BY <4>4, <4>8 DEF CompanyIsGood, Held, AtInvite
    <3>3. CASE ~Alters(About(h), TheCompany, {"settings", "intake"})
      <4>1. 2 \in DOMAIN s /\ s[2].call = "put" /\ s[2].key = Invite(t.value.invite)
        BY <3>1, <3>3 DEF SavesCompany
      <4>2. Working(h)' /\ Todo(h)'[1] = s[2]
        BY <2>1, <4>1, NextIsSecond
      <4>3. doc'[Org] = t.value
        BY <2>1, <2>4
      <4> QED BY <4>1, <4>2, <4>3 DEF CompanyIsGood, AtInvite
    <3> QED BY <3>2, <3>3
  <2> QED BY <2>3, <2>4
<1>9. ASSUME NEW h \in Handlers, Deletes(h) PROVE CompanyIsGood'
  <2> DEFINE s == Todo(h)
             t == s[1]
  <2>1. /\ t.key \notin DOMAIN doc' /\ (\A key : key # t.key => Same(key))
        /\ t.call = "delete" /\ Goes(h, Tail(s)) /\ Working(h)
    BY <1>9, AfterDeletes DEF Goes
  <2>2. \A k \in Handlers \ {h} : Todo(k)' = Todo(k) /\ About(k)' = About(k) /\ (Working(k)' <=> Working(k))
    BY <2>1, OthersAfterCall
  <2>3. t.key # Org
    BY <2>1, WhatIsFirst DEF Sets, SavesCompany
  <2>4. CASE t.key[1] = "INVITE"
    <3>1. DropsInvite(s, 1, About(h))
      BY <2>1, <2>4, WhatIsFirst
    <3>2. 2 \in DOMAIN s /\ s[2].call = "put" /\ s[2].key = Org /\ Alters(About(h), TheCompany, {"rotate"})
      BY <3>1 DEF DropsInvite
    <3>3. Working(h)' /\ Todo(h)'[1] = s[2] /\ About(h)' = About(h)
      BY <2>1, <3>2, NextIsSecond
    <3>4. AtNewCode(h)'
      BY <3>2, <3>3 DEF AtNewCode, Alters
    <3> QED BY <3>4 DEF CompanyIsGood
  <2>5. CASE t.key[1] # "INVITE"
    <3>1. Same(Org) /\ \A code : Held(Invite(code)) => Invite(code) \in DOMAIN doc'
      BY <2>1, <2>3, <2>5, DocumentsDiffer DEF Same, Held
    <3>2. ~AtNewCode(h) /\ \A code : ~AtInvite(h, code)
      BY <2>1 DEF AtNewCode, AtInvite
    <3> QED BY <1>2, <2>2, <3>1, <3>2, QuietCompany
  <2> QED BY <2>4, <2>5
<1> QED BY <1>4, <1>5, <1>6, <1>7, <1>8, <1>9 DEF Steps

(* After a step, what is ahead of a request was ahead of it before, or is harmless, or it has just begun. *)
LEMMA WhatRemains ==
  ASSUME TypeInv, Shapes, Steps, NEW k \in Handlers, NEW i \in DOMAIN Todo(k)'
  PROVE  \/ Harmless(Todo(k)'[i])
         \/ doc' = doc /\ Keeps(Todo(k)'[i], About(k)')
         \/ About(k)' = About(k) /\ Working(k) /\ \E j \in DOMAIN Todo(k) : Todo(k)'[i] = Todo(k)[j]
<1> DEFINE Remains == Working(k) /\ About(k)' = About(k) /\ \E j \in DOMAIN Todo(k) : Todo(k)'[i] = Todo(k)[j]
<1>1. ASSUME Todo(k)' = Todo(k), About(k)' = About(k) PROVE Remains
  <2>1. Todo(k) # <<>>
    BY <1>1, ShortLists
  <2> QED BY <1>1, <2>1 DEF Working, Todo
<1>2. Todo(k)' # <<>>
  BY ShortLists
<1>3. ASSUME NEW h \in Handlers, NEW about, NEW s, Begins(h, about, s)
      PROVE  Remains \/ (doc' = doc /\ Keeps(Todo(k)'[i], About(k)'))
  <2>1. CASE k = h
    BY <1>3, <2>1, AfterBegins DEF Begins
  <2>2. CASE k # h
    BY <1>1, <1>3, <2>2, AfterBegins
  <2> QED BY <2>1, <2>2
<1>4. ASSUME NEW h \in Handlers, Goes(h, Tail(Todo(h))) PROVE Remains
  <2>1. CASE k = h
    <3> DEFINE q == Tail(Todo(h))
    <3>1. Working(h) /\ IsList(Todo(h)) /\ Todo(h) # <<>>
      BY <1>4, AtWork DEF Goes
    <3>2. \A n \in DOMAIN q : q[n] = Todo(h)[n + 1] /\ n + 1 \in DOMAIN Todo(h)
      BY <3>1, TailFacts
    <3>3. Goes(h, q)
      BY <1>4
    <3> HIDE DEF q
    <3>4. Todo(h)' = q /\ About(h)' = About(h)
      BY <1>2, <2>1, <3>3, AfterGoes
    <3> QED BY <2>1, <3>1, <3>2, <3>4
  <2>2. CASE k # h
    BY <1>1, <1>4, <2>2, OthersAfterCall
  <2> QED BY <2>1, <2>2
<1>5. ASSUME NEW h \in Handlers, NEW s, Decides(h, s) PROVE Remains \/ Harmless(Todo(k)'[i])
  <2>1. Goes(h, s) /\ \A n \in DOMAIN s : Harmless(s[n]) \/ \E j \in DOMAIN Todo(h) : s[n] = Todo(h)[j]
    BY <1>5 DEF Decides
  <2>2. CASE k = h
    BY <1>2, <2>1, <2>2, AfterGoes
  <2>3. CASE k # h
    BY <1>1, <2>1, <2>3, AfterGoes
  <2> QED BY <2>2, <2>3
<1>6. ASSUME NEW h \in Handlers, Ends(h) PROVE Remains
  BY <1>1, <1>2, <1>6, AfterEnds
<1>7. CASE Rests
  BY <1>1, <1>7, AfterRests
<1> QED BY <1>3, <1>4, <1>5, <1>6, <1>7 DEF Steps, Writes, Deletes

LEMMA CodeKeptStep ==
  ASSUME TypeInv, Shapes, Alike, CodeIsKept, Steps
  PROVE  CodeIsKept'
<1>1. SUFFICES ASSUME TheCompany \notin crossed', NEW k \in Handlers, NEW i \in DOMAIN Todo(k)',
                      Todo(k)'[i].call = "put", Todo(k)'[i].key = Org,
                      Alters(About(k)', TheCompany, {"settings", "intake"})
               PROVE  Org \in DOMAIN doc' /\ Todo(k)'[i].value.invite = doc'[Org].invite
  BY DEF CodeIsKept, KeepsCode, Alters, Held
<1>2. TheCompany \notin crossed
  BY <1>1, CrossedStays
<1>3. ~Harmless(Todo(k)'[i])
  BY <1>1, DocumentsDiffer DEF Harmless
<1>4. CASE doc' = doc /\ Keeps(Todo(k)'[i], About(k)')
  BY <1>1, <1>4 DEF Keeps, KeepsCode, Held
<1>5. CASE About(k)' = About(k) /\ Working(k) /\ \E j \in DOMAIN Todo(k) : Todo(k)'[i] = Todo(k)[j]
  <2>1. PICK j \in DOMAIN Todo(k) : Todo(k)'[i] = Todo(k)[j]
    BY <1>5
  <2>2. KeepsCode(Todo(k)[j], About(k))
    BY <1>2 DEF CodeIsKept
  <2>3. Held(Org) /\ Todo(k)'[i].value.invite = doc[Org].invite
    BY <1>1, <1>5, <2>1, <2>2 DEF KeepsCode, Alters
  <2>4. CASE Same(Org)
    BY <2>3, <2>4 DEF Same, Held
  <2>5. ASSUME NEW h \in Handlers, Writes(h), Todo(h)[1].key = Org
        PROVE  Org \in DOMAIN doc' /\ doc'[Org].invite = doc[Org].invite
    <3> DEFINE s == Todo(h)
               t == s[1]
    <3>1. Org \in DOMAIN doc' /\ doc'[Org] = t.value /\ t.call \in {"put", "new"} /\ Working(h)
      BY <2>5, AfterWrites DEF Goes
    <3>2. t.call = "put" /\ SavesCompany(s, 1, About(h))
      BY <2>5, <3>1, WhatIsFirst, DocumentsDiffer DEF Plain, Related, Sets
    <3>3. Works(h, TheCompany) /\ Works(k, TheCompany)
      BY <1>1, <1>5, <3>1, <3>2 DEF SavesCompany, Alters, Works
    <3>4. About(h)[TheCompany] = About(k)[TheCompany]
      BY <1>2, <3>3 DEF Alike
    <3>5. Alters(About(h), TheCompany, {"settings", "intake"})
      BY <1>1, <1>5, <3>3, <3>4 DEF Alters, Works
    <3>6. 1 \in DOMAIN s
      BY <3>1, AtWork
    <3>7. KeepsCode(t, About(h))
      BY <1>2, <3>6 DEF CodeIsKept
    <3> QED BY <2>5, <3>1, <3>2, <3>5, <3>7 DEF KeepsCode
  <2>6. Same(Org) \/ \E h \in Handlers : Writes(h) /\ Todo(h)[1].key = Org
    <3>1. doc' = doc => Same(Org)
      BY DEF Same
    <3>2. ASSUME NEW h \in Handlers, Deletes(h) PROVE Same(Org)
      BY <3>2, AfterDeletes, WhatIsFirst DEF Goes, Sets, SavesCompany
    <3> QED BY <3>1, <3>2, OnlyCallsWrite, AfterWrites
  <2> QED BY <2>3, <2>4, <2>5, <2>6
<1> QED BY <1>3, <1>4, <1>5, WhatRemains

(* A result is only ahead of the request that brings it, and is all that is ahead of it. *)
LEMMA ResultsAreAlone ==
  ASSUME TypeInv, Shapes, NEW k \in Handlers, Working(k), NEW j \in DOMAIN Todo(k), Todo(k)[j].call = "put"
  PROVE  /\ \A u : Todo(k)[j].key = Training(u) => Alters(About(k), TrainingOf(u), {k}) /\ DOMAIN Todo(k) = {1}
         /\ Todo(k)[j].key = Player => Alters(About(k), ThePlayer, {k}) /\ DOMAIN Todo(k) = {1}
<1> DEFINE s == Todo(k)
           about == About(k)
<1>1. Ahead(s, about, leaving) \/ Alone(s, about, k)
  BY AtWork DEF Fits
<1> HIDE DEF s, about
<1>2. s[j].call = "put" /\ j \in DOMAIN s
  BY DEF s
<1>3. CASE Ahead(s, about, leaving)
  <2>1. FitsAt(s, j, about, leaving)
    BY <1>2, <1>3 DEF Ahead
  <2>2. (\A u : ~Sets(s[j], Training(u))) /\ ~Sets(s[j], Player)
    BY <1>2, <2>1, WhatFits
  <2> QED BY <1>2, <2>2 DEF Sets, s
<1>4. CASE Alone(s, about, k)
  <2>1. j = 1 /\ DOMAIN s = {1}
    BY <1>2, <1>4 DEF Alone
  <2>2. CASE SavesPlay(s[1], about, k)
    BY <2>1, <2>2, DocumentsDiffer DEF SavesPlay, s, about
  <2>3. CASE \E u : SavesRecord(s[1], u, about, k)
    <3>1. PICK v : SavesRecord(s[1], v, about, k)
      BY <2>3
    <3>2. s[j].key = Training(v) /\ Alters(about, TrainingOf(v), {k})
      BY <2>1, <3>1 DEF SavesRecord
    <3> QED BY <2>1, <3>2, DocumentsDiffer DEF s, about
  <2> QED BY <1>4, <2>2, <2>3 DEF Alone
<1> QED BY <1>1, <1>3, <1>4

LEMMA NothingAfterAlone ==
  ASSUME TypeInv, Shapes, NEW h \in Handlers, Goes(h, Tail(Todo(h))), DOMAIN Todo(h) = {1}
  PROVE  Todo(h)' = <<>>
<1> DEFINE q == Tail(Todo(h))
<1>1. Goes(h, q)
  OBVIOUS
<1>2. q = <<>>
  BY AtWork, SecondCall DEF Goes
<1> HIDE DEF q
<1> QED BY <1>1, <1>2, AfterGoes

LEMMA PassKeptStep ==
  ASSUME TypeInv, Shapes, Alike, PassIsKept, Steps
  PROVE  PassIsKept'
<1>1. SUFFICES ASSUME NEW u, TrainingOf(u) \notin crossed', NEW k \in Handlers, NEW i \in DOMAIN Todo(k)',
                      Todo(k)'[i].call = "put", Todo(k)'[i].key = Training(u),
                      Record(u)'.passed
               PROVE  Todo(k)'[i].value.passed
  BY DEF PassIsKept, KeepsPass
<1>2. TrainingOf(u) \notin crossed
  BY <1>1, CrossedStays
<1>3. ~Harmless(Todo(k)'[i])
  BY <1>1, DocumentsDiffer DEF Harmless
<1>4. CASE doc' = doc /\ Keeps(Todo(k)'[i], About(k)')
  BY <1>1, <1>4 DEF Keeps, KeepsPass, Record, Held
<1>5. CASE About(k)' = About(k) /\ Working(k) /\ \E j \in DOMAIN Todo(k) : Todo(k)'[i] = Todo(k)[j]
  <2>1. PICK j \in DOMAIN Todo(k) : Todo(k)'[i] = Todo(k)[j]
    BY <1>5
  <2>2. KeepsPass(Todo(k)[j], u)
    BY <1>2 DEF PassIsKept
  <2>3. Record(u).passed => Todo(k)'[i].value.passed
    BY <1>1, <2>1, <2>2 DEF KeepsPass
  <2>4. CASE Same(Training(u))
    BY <1>1, <2>3, <2>4 DEF Same, Record, Held
  <2>5. Training(u) \in DOMAIN doc'
    BY <1>1 DEF Record, Held, Untrained
  <2>6. ASSUME NEW h \in Handlers, Writes(h), Todo(h)[1].key = Training(u) PROVE FALSE
    <3> DEFINE t == Todo(h)[1]
    <3>1. t.call \in {"put", "new"} /\ Working(h) /\ Goes(h, Tail(Todo(h))) /\ 1 \in DOMAIN Todo(h)
      BY <2>6, AfterWrites, AtWork DEF Goes
    <3>2. t.call = "put"
      BY <2>6, <3>1, WhatIsFirst, DocumentsDiffer DEF Plain, Related
    <3>3. Alters(About(h), TrainingOf(u), {h}) /\ DOMAIN Todo(h) = {1}
      BY <2>6, <3>1, <3>2, ResultsAreAlone
    <3>4. Alters(About(k), TrainingOf(u), {k})
      BY <1>1, <1>5, <2>1, ResultsAreAlone
    <3>5. About(h)[TrainingOf(u)] = About(k)[TrainingOf(u)]
      BY <1>2, <1>5, <3>1, <3>3, <3>4 DEF Alike, Works, Alters
    <3>6. h = k
      BY <3>3, <3>4, <3>5 DEF Alters
    <3>7. Todo(k)' = <<>>
      BY <3>1, <3>3, <3>6, NothingAfterAlone
    <3> QED BY <1>1, <3>7, ShortLists
  <2>7. Same(Training(u)) \/ \E h \in Handlers : Writes(h) /\ Todo(h)[1].key = Training(u)
    <3>1. doc' = doc => Same(Training(u))
      BY DEF Same
    <3>2. ASSUME NEW h \in Handlers, Deletes(h) PROVE Same(Training(u))
      BY <2>5, <3>2, AfterDeletes
    <3> QED BY <3>1, <3>2, OnlyCallsWrite, AfterWrites
  <2> QED BY <2>4, <2>6, <2>7
<1> QED BY <1>3, <1>4, <1>5, WhatRemains

LEMMA BestKeptStep ==
  ASSUME TypeInv, Shapes, Alike, BestIsKept, Steps
  PROVE  BestIsKept'
<1>1. SUFFICES ASSUME ThePlayer \notin crossed', NEW k \in Handlers, NEW i \in DOMAIN Todo(k)',
                      Todo(k)'[i].call = "put", Todo(k)'[i].key = Player, Player \in DOMAIN doc'
               PROVE  /\ \A scenario \in Scenarios : Todo(k)'[i].value.best[scenario] >= doc'[Player].best[scenario]
                      /\ doc'[Player].cleared \subseteq Todo(k)'[i].value.cleared
  BY DEF BestIsKept, KeepsBest, Held
<1>2. ThePlayer \notin crossed
  BY <1>1, CrossedStays
<1>3. ~Harmless(Todo(k)'[i])
  BY <1>1, DocumentsDiffer DEF Harmless
<1>4. CASE doc' = doc /\ Keeps(Todo(k)'[i], About(k)')
  BY <1>1, <1>4 DEF Keeps, KeepsBest, Held
<1>5. CASE About(k)' = About(k) /\ Working(k) /\ \E j \in DOMAIN Todo(k) : Todo(k)'[i] = Todo(k)[j]
  <2>1. PICK j \in DOMAIN Todo(k) : Todo(k)'[i] = Todo(k)[j]
    BY <1>5
  <2>2. KeepsBest(Todo(k)[j])
    BY <1>2 DEF BestIsKept
  <2>3. CASE Same(Player)
    BY <1>1, <2>1, <2>2, <2>3 DEF Same, KeepsBest, Held
  <2>4. ASSUME NEW h \in Handlers, Writes(h), Todo(h)[1].key = Player PROVE FALSE
    <3> DEFINE t == Todo(h)[1]
    <3>1. t.call \in {"put", "new"} /\ Working(h) /\ Goes(h, Tail(Todo(h))) /\ 1 \in DOMAIN Todo(h)
      BY <2>4, AfterWrites, AtWork DEF Goes
    <3>2. t.call = "put"
      BY <2>4, <3>1, WhatIsFirst, DocumentsDiffer DEF Plain, Related
    <3>3. Alters(About(h), ThePlayer, {h}) /\ DOMAIN Todo(h) = {1}
      BY <2>4, <3>1, <3>2, ResultsAreAlone
    <3>4. Alters(About(k), ThePlayer, {k})
      BY <1>1, <1>5, <2>1, ResultsAreAlone
    <3>5. About(h)[ThePlayer] = About(k)[ThePlayer]
      BY <1>2, <1>5, <3>1, <3>3, <3>4 DEF Alike, Works, Alters
    <3>6. h = k
      BY <3>3, <3>4, <3>5 DEF Alters
    <3>7. Todo(k)' = <<>>
      BY <3>1, <3>3, <3>6, NothingAfterAlone
    <3> QED BY <1>1, <3>7, ShortLists
  <2>5. Same(Player) \/ \E h \in Handlers : Writes(h) /\ Todo(h)[1].key = Player
    <3>1. doc' = doc => Same(Player)
      BY DEF Same
    <3>2. ASSUME NEW h \in Handlers, Deletes(h) PROVE Same(Player)
      BY <1>1, <3>2, AfterDeletes
    <3> QED BY <3>1, <3>2, OnlyCallsWrite, AfterWrites
  <2> QED BY <2>3, <2>4, <2>5
<1> QED BY <1>3, <1>4, <1>5, WhatRemains

-----------------------------------------------------------------------------
(* The theorems *)

LEMMA InitHolds ==
  ASSUME Init
  PROVE  IInv
<1>1. PICK world \in Worlds : doc = world.doc /\ minted = world.minted
  BY DEF Init, StoreInit
<1>2. AtRest(world)
  BY PlatformAssumption
<1>3. \A h \in Handlers : handler[h] = Idle /\ ~Working(h) /\ Todo(h) = <<>>
  BY DEF Init, StoreInit, Working, Todo, Idle
<1>4. TypeInv
  <2>1. doc = [key \in DOMAIN doc |-> doc[key]] /\ IsFiniteSet(DOMAIN doc)
    BY <1>1, <1>2 DEF AtRest
  <2>2. /\ DOMAIN handler = Handlers /\ handler = [h \in Handlers |-> handler[h]]
        /\ \A h \in Handlers : handler[h] = [op |-> handler[h].op, about |-> About(h), todo |-> Todo(h)]
    BY DEF Init, StoreInit, Idle, About, Todo
  <2>3. published \in [FeedNames -> [stamps : Seq(Nat), window : Nat]]
    BY DEF Init, FeedInit
  <2> QED BY <2>1, <2>2, <2>3 DEF TypeInv
<1>5. StoredWell
  <2>1. \A u : Held(Training(u)) => doc[Training(u)] \in Records
    BY <1>1, <1>2, DocumentsDiffer DEF AtRest, Held, Records
  <2>2. Held(Org) => IsCompany(doc[Org])
    BY <1>1, <1>2 DEF AtRest, Held, IsCompany
  <2>3. Held(Player) => doc[Player] \in Plays
    BY <1>1, <1>2 DEF AtRest, Held, Plays
  <2> QED BY <2>1, <2>2, <2>3 DEF StoredWell
<1>6. Shapes
  BY <1>3, NothingFits DEF Shapes
<1>7. Alike
  BY <1>3 DEF Alike, Works
<1>8. Memberships
  <2>1. ASSUME NEW u PROVE Agree(u)
    <3>1. Held(Member(u)) => Held(MemberOf(u)) /\ doc[MemberOf(u)] = doc[Member(u)]
      BY <1>1, <1>2, DocumentsDiffer DEF AtRest, Held
    <3>2. Held(MemberOf(u)) => Held(Member(u))
      BY <1>1, <1>2, DocumentsDiffer DEF AtRest, Held
    <3> QED BY <3>1, <3>2 DEF Agree
  <2> QED BY <1>3, <2>1 DEF Memberships, AtSecond
<1>9. CodeIsGood
  BY <1>1, <1>2 DEF AtRest, CodeIsGood, Held
<1>10. CodeIsKept /\ PassIsKept /\ BestIsKept
  BY <1>3, ShortLists DEF CodeIsKept, PassIsKept, BestIsKept
<1> QED BY <1>4, <1>5, <1>6, <1>7, <1>8, <1>9, <1>10 DEF IInv

LEMMA StepHolds ==
  ASSUME IInv, [Next]_vars
  PROVE  IInv' /\ Steps
<1>1. Steps
  BY NextSteps DEF IInv
<1> QED BY <1>1, TypeStep, StoredStep, ShapesStep, AlikeStep, MembershipsStep, CodeStep,
           CodeKeptStep, PassKeptStep, BestKeptStep DEF IInv

(* What is ahead of every request, and what of it the store already holds. *)
THEOREM Inductive == Spec => []IInv
<1>1. Init => IInv
  BY InitHolds
<1>2. IInv /\ [Next]_vars => IInv'
  BY StepHolds
<1> QED BY <1>1, <1>2, PTL DEF Spec

(* Both documents of a membership say the same when nobody changes it (accounts.py, _join, remove_member, *)
(* delete_user), whichever requests have joined, left, been named, removed or deleted meanwhile, unless two *)
(* different changes of it were at work at once or one died. *)
THEOREM MembershipsAlwaysAgree == Spec => []MembershipsAgree
<1>1. IInv => MembershipsAgree
  <2>1. SUFFICES ASSUME IInv, NEW u, Settled(<<"membership", u>>)
                 PROVE  Agree(u)
    BY DEF MembershipsAgree, Agree
  <2>2. MembershipOf(u) \notin crossed
    BY <2>1 DEF Settled, MembershipOf
  <2>3. ASSUME NEW h \in Handlers, AtSecond(h, u) PROVE FALSE
    <3>1. Working(h) /\ Sets(Todo(h)[1], MemberOf(u))
      BY <2>3 DEF AtSecond
    <3>2. ChangesRole(Todo(h)[1], u, About(h))
      BY <2>1, <3>1, WhatIsFirst DEF IInv
    <3> QED BY <2>1, <3>1, <3>2 DEF ChangesRole, Alters, Settled, WorksOn, MembershipOf, About
  <2> QED BY <2>1, <2>2, <2>3 DEF IInv, Memberships
<1> QED BY <1>1, Inductive, PTL

(* The code the company shows lets people in (accounts.py, rotate_invite and join), however many rotations *)
(* and other saves have overlapped of which no two differ. *)
THEOREM InviteAlwaysWorks == Spec => []InviteWorks
<1>1. IInv => InviteWorks
  <2>1. SUFFICES ASSUME IInv, Held(Org), Settled(<<"company", Company>>)
                 PROVE  Held(Invite(doc[Org].invite))
    BY DEF InviteWorks
  <2>2. TheCompany \notin crossed
    BY <2>1 DEF Settled, TheCompany
  <2>3. ASSUME NEW h \in Handlers, AtInvite(h, doc[Org].invite) \/ AtNewCode(h) PROVE FALSE
    <3>1. Working(h)
      BY <2>3 DEF AtInvite, AtNewCode
    <3>2. AtInvite(h, doc[Org].invite) => SavesInvite(Todo(h)[1], About(h))
      BY <2>1, <3>1, WhatIsFirst, DocumentsDiffer DEF IInv, AtInvite
    <3>3. TheCompany \in DOMAIN About(h)
      BY <2>3, <3>2 DEF AtNewCode, SavesInvite, Alters
    <3> QED BY <2>1, <3>1, <3>3 DEF Settled, WorksOn, TheCompany, About
  <2> QED BY <2>1, <2>2, <2>3 DEF IInv, CodeIsGood
<1> QED BY <1>1, Inductive, PTL

LEMMA PassStep ==
  ASSUME IInv, Steps, NEW u, u \notin leaving, TrainingOf(u) \notin crossed', Record(u).passed
  PROVE  Training(u) \in DOMAIN doc' /\ doc'[Training(u)].passed
<1>1. Held(Training(u)) /\ doc[Training(u)].passed
  BY DEF Record, Untrained
<1>2. TrainingOf(u) \notin crossed
  BY CrossedStays
<1>3. CASE Same(Training(u))
  BY <1>1, <1>3 DEF Same, Held
<1>4. ASSUME NEW h \in Handlers, Writes(h), Todo(h)[1].key = Training(u)
      PROVE  Training(u) \in DOMAIN doc' /\ doc'[Training(u)].passed
  <2> DEFINE t == Todo(h)[1]
  <2>1. /\ t.call \in {"put", "new"} /\ Working(h) /\ 1 \in DOMAIN Todo(h)
        /\ t.key \in DOMAIN doc' /\ doc'[t.key] = t.value
    BY <1>4, AfterWrites, AtWork DEF Goes, IInv
  <2>2. t.call = "put"
    BY <1>4, <2>1, WhatIsFirst, DocumentsDiffer DEF Plain, Related, IInv
  <2>3. KeepsPass(t, u)
    BY <1>2, <2>1 DEF PassIsKept, IInv
  <2> QED BY <1>4, <2>1, <2>2, <2>3 DEF KeepsPass
<1>5. ASSUME NEW h \in Handlers, Deletes(h), Todo(h)[1].key = Training(u) PROVE FALSE
  <2> DEFINE t == Todo(h)[1]
  <2>1. t.call = "delete" /\ Working(h)
    BY <1>5, AfterDeletes DEF Goes
  <2>2. Sets(t, Training(u))
    BY <1>5, <2>1 DEF Sets
  <2>3. u \in leaving \/ SavesRecord(t, u, About(h), h)
    BY <2>1, <2>2, WhatIsFirst DEF IInv
  <2> QED BY <2>1, <2>3 DEF SavesRecord
<1>6. doc' = doc => Same(Training(u))
  BY DEF Same
<1> QED BY <1>3, <1>4, <1>5, <1>6, OnlyCallsWrite, AfterWrites, AfterDeletes

LEMMA BestStep ==
  ASSUME IInv, Steps, ThePlayer \notin crossed', Held(Player)
  PROVE  /\ Player \in DOMAIN doc' /\ doc[Player].cleared \subseteq doc'[Player].cleared
         /\ \A s \in Scenarios : doc'[Player].best[s] >= doc[Player].best[s]
<1>1. doc[Player] \in Plays
  BY DEF IInv, StoredWell
<1>2. ThePlayer \notin crossed
  BY CrossedStays
<1>3. CASE Same(Player)
  <2>1. \A s \in Scenarios : doc[Player].best[s] \in Nat
    BY <1>1 DEF Plays
  <2> QED BY <1>3, <2>1 DEF Same, Held
<1>4. ASSUME NEW h \in Handlers, Writes(h), Todo(h)[1].key = Player
      PROVE  /\ Player \in DOMAIN doc' /\ doc[Player].cleared \subseteq doc'[Player].cleared
             /\ \A s \in Scenarios : doc'[Player].best[s] >= doc[Player].best[s]
  <2> DEFINE t == Todo(h)[1]
  <2>1. /\ t.call \in {"put", "new"} /\ Working(h) /\ 1 \in DOMAIN Todo(h)
        /\ t.key \in DOMAIN doc' /\ doc'[t.key] = t.value
    BY <1>4, AfterWrites, AtWork DEF Goes, IInv
  <2>2. t.call = "put"
    BY <1>4, <2>1, WhatIsFirst, DocumentsDiffer DEF Plain, Related, IInv
  <2>3. KeepsBest(t)
    BY <1>2, <2>1 DEF BestIsKept, IInv
  <2> QED BY <1>4, <2>1, <2>2, <2>3 DEF KeepsBest
<1>5. ASSUME NEW h \in Handlers, Deletes(h), Todo(h)[1].key = Player PROVE FALSE
  BY <1>5, AfterDeletes, WhatIsFirst DEF Goes, IInv, Sets, SavesPlay
<1>6. doc' = doc => Same(Player)
  BY DEF Same
<1> QED BY <1>3, <1>4, <1>5, <1>6, OnlyCallsWrite, AfterWrites, AfterDeletes

(* "Passing is never undone" (accounts.py:408) and a best score never falls (progress.py:79): no step of any *)
(* request takes either back, of an account that is not being deleted, unless two results of one record were *)
(* folded at once. *)
THEOREM ProgressIsAlwaysKept == Spec => ProgressIsKept
<1> DEFINE Kept ==
             /\ \A u \in Accounts \ leaving :
                  <<"training", u>> \notin crossed' /\ Record(u).passed
                      => Training(u) \in DOMAIN doc' /\ doc'[Training(u)].passed
             /\ \A s \in Scenarios :
                  <<"player", "token">> \notin crossed' /\ Held(Player)
                      => /\ Player \in DOMAIN doc' /\ doc'[Player].best[s] >= doc[Player].best[s]
                         /\ doc[Player].cleared \subseteq doc'[Player].cleared
<1>1. ASSUME IInv, [Next]_vars PROVE Kept
  <2>1. Steps
    BY <1>1, StepHolds
  <2>2. \A u \in Accounts \ leaving :
           <<"training", u>> \notin crossed' /\ Record(u).passed
               => Training(u) \in DOMAIN doc' /\ doc'[Training(u)].passed
    BY <1>1, <2>1, PassStep DEF TrainingOf
  <2>3. \A s \in Scenarios :
           <<"player", "token">> \notin crossed' /\ Held(Player)
               => /\ Player \in DOMAIN doc' /\ doc'[Player].best[s] >= doc[Player].best[s]
                  /\ doc[Player].cleared \subseteq doc'[Player].cleared
    BY <1>1, <2>1, BestStep DEF ThePlayer
  <2> QED BY <2>2, <2>3
<1>2. IInv /\ [Next]_vars => [Kept]_vars
  BY <1>1
<1> QED BY <1>2, Inductive, PTL DEF Spec, ProgressIsKept

-----------------------------------------------------------------------------
(* The documents of sign-ups, and what a call on them is about. *)
Credentials == {"USER", "LOGIN", "RESET", "VERIFY"}
AccountOf(u) == <<"account", u>>
AddressOf(x) == <<"login", x>>

(* The addresses an account signs in with: its own, if it is whole and signed up by email. *)
IsAccount(v) == v = [whole |-> v.whole, provider |-> v.provider, email |-> v.email, password |-> v.password,
                     version |-> v.version, verified |-> v.verified]
Signs(v) == IF v.whole = TRUE /\ v.provider = "email" THEN {v.email} ELSE {}
SignsIn(D, u) == IF User(u) \in DOMAIN D THEN Signs(D[User(u)]) ELSE {}

(* What a call does. *)
Puts(t, key) == t.call = "put" /\ t.key = key
Drops(t, key) == t.call = "delete" /\ t.key = key

(* A call, or a document, names an account. *)
Names(t, u) ==
    \/ t.call \in {"put", "delete"} /\ t.key = User(u)
    \/ t.call \in {"put", "new"} /\ t.key[1] \in {"LOGIN", "RESET"} /\ t.value = u
    \/ t.call = "put" /\ t.key[1] = "VERIFY" /\ t.value.user = u
    \/ t.call = "password" /\ t.of.user = u
    \/ t.call = "verification" /\ t.of = u
NamedIn(D, u) ==
    \E key \in DOMAIN D : \/ key[1] \in {"LOGIN", "RESET"} /\ D[key] = u
                          \/ key[1] = "VERIFY" /\ D[key].user = u

Unrelated(t) ==
    \/ t.call \in {"put", "delete"} /\ t.key[1] \notin Credentials
    \/ t.call \in {"memberships", "acks", "answer", "index", "since", "fetch"}

(* Calls on the accounts 1..n, of which those of L are being deleted, of a request that signs nobody up. *)
SavesAccount(t, D, n, L) ==
    \E u \in 1..n : Puts(t, User(u)) /\ IsAccount(t.value) /\ (u \in L \/ Signs(t.value) = SignsIn(D, u))
SavesLink(t, n) ==
    \/ t.call = "put" /\ t.key[1] = "RESET" /\ t.value \in 1..n
    \/ t.call = "put" /\ t.key[1] = "VERIFY" /\ t.value.user \in 1..n
DropsLink(t) == t.call = "delete" /\ t.key[1] \in {"RESET", "VERIFY"}
DropsAccount(t, about, L) ==
    \E u \in L : Drops(t, User(u)) /\ Alters(about, AccountOf(u), {"delete"})
DropsKey(t, about) == \E x : Drops(t, Login(x)) /\ Alters(about, AddressOf(x), {"delete"})
GivesKey(t, about, n) == \E x : Puts(t, Login(x)) /\ t.value \in 1..n /\ Alters(about, AddressOf(x), {"google"})
Reads(t, n) ==
    \/ t.call = "password" /\ t.of.user \in 1..n
    \/ t.call = "verification" /\ t.of \in 1..n
Tame(t, about, D, n, L) ==
    \/ Unrelated(t) \/ SavesAccount(t, D, n, L) \/ SavesLink(t, n) \/ DropsLink(t)
    \/ DropsAccount(t, about, L) \/ DropsKey(t, about) \/ GivesKey(t, about, n) \/ Reads(t, n)

(* The sign-up of u by the address x. *)
ForAddress(about, u, x) == Alters(about, AccountOf(u), {"create"}) /\ Alters(about, AddressOf(x), {"claim"})
ClaimsKey(t, u, x) == t.call = "new" /\ t.key = Login(x) /\ t.value = u /\ t.else = User(u)
MakesAt(l, i, u, x, D) ==
    /\ i = 1 /\ 2 \in DOMAIN l
    /\ Puts(l[1], User(u)) /\ IsAccount(l[1].value) /\ Signs(l[1].value) = {x} /\ User(u) \notin DOMAIN D
    /\ ClaimsKey(l[2], u, x)
ClaimsAt(l, i, u, x, D) ==
    /\ ClaimsKey(l[i], u, x)
    /\ (i = 1 /\ SignsIn(D, u) \subseteq {x}) \/ (i = 2 /\ MakesAt(l, 1, u, x, D))
    /\ \A j \in DOMAIN l : j > i => l[j].call = "verification" /\ l[j].of = u
TakesBackAt(l, i, u, x, D) == i = 1 /\ DOMAIN l = {1} /\ Drops(l[1], User(u)) /\ SignsIn(D, u) \subseteq {x}
SignsUpAt(l, i, about, D, n) ==
    \E u \in 1..n : \E x :
        /\ ForAddress(about, u, x)
        /\ MakesAt(l, i, u, x, D) \/ ClaimsAt(l, i, u, x, D) \/ TakesBackAt(l, i, u, x, D)

CallsAreTame ==
    \A h \in Handlers : \A i \in DOMAIN Todo(h) :
        Tame(Todo(h)[i], About(h), doc, minted, leaving) \/ SignsUpAt(Todo(h), i, About(h), doc, minted)

(* Until its key is claimed, and while it is taken back, only its own sign-up knows of an account. *)
Unclaims(t, about, u) ==
    \/ t.call = "new" /\ t.key[1] = "LOGIN" /\ t.value = u
    \/ Drops(t, User(u)) /\ Alters(about, AccountOf(u), {"create"})
Unclaimed(h, u) == \E i \in DOMAIN Todo(h) : Unclaims(Todo(h)[i], About(h), u)
Unknown ==
    \A h \in Handlers : \A u : Unclaimed(h, u) =>
        /\ u \notin leaving /\ ~NamedIn(doc, u)
        /\ \A k \in Handlers \ {h} : \A j \in DOMAIN Todo(k) : ~Names(Todo(k)[j], u)

(* The address of every other account is its own. *)
KeysAreKept ==
    \A u : u \notin leaving /\ (\A h \in Handlers : ~Unclaimed(h, u)) =>
        \A x \in SignsIn(doc, u) : AddressOf(x) \notin crossed => Held(Login(x)) /\ doc[Login(x)] = u

DropsOwn ==
    \A h \in Handlers : \A i \in DOMAIN Todo(h) : \A x :
        Drops(Todo(h)[i], Login(x)) /\ AddressOf(x) \notin crossed => (Held(Login(x)) => doc[Login(x)] \in leaving)
GivesFree ==
    \A h \in Handlers : \A i \in DOMAIN Todo(h) : \A x :
        Puts(Todo(h)[i], Login(x)) /\ AddressOf(x) \notin crossed =>
            \A u : x \in SignsIn(doc, u) => u \in leaving

StoredCredentials ==
    /\ minted \in Nat /\ leaving \subseteq 1..minted
    /\ \A key \in DOMAIN doc :
         /\ key[1] = "USER" => key = User(key[2]) /\ key[2] \in 1..minted /\ IsAccount(doc[key])
         /\ key[1] = "LOGIN" => key = Login(key[2])
         /\ key[1] \in {"LOGIN", "RESET"} => doc[key] \in 1..minted
         /\ key[1] = "VERIFY" => doc[key].user \in 1..minted

AccountInv == StoredCredentials /\ CallsAreTame /\ Unknown /\ KeysAreKept /\ DropsOwn /\ GivesFree

-----------------------------------------------------------------------------
(* Keys, and what of a call shows that it is of one kind *)

LEMMA CredentialKeys ==
  /\ \A u : /\ User(u)[1] = "USER" /\ User(u)[2] = u /\ Login(u)[1] = "LOGIN" /\ Login(u)[2] = u
            /\ Reset(u)[1] = "RESET" /\ Verify(u)[1] = "VERIFY"
  /\ \A u, v : /\ User(u) # Login(v) /\ (User(u) = User(v) => u = v) /\ (Login(u) = Login(v) => u = v)
               /\ AccountOf(u) # AddressOf(v) /\ (AccountOf(u) = AccountOf(v) => u = v)
               /\ (AddressOf(u) = AddressOf(v) => u = v)
BY DEF User, Login, Reset, Verify, AccountOf, AddressOf

(* A call of a request that signs nobody up. *)
LEMMA TameFacts ==
  ASSUME NEW t, NEW about, NEW D, NEW n, NEW L, Tame(t, about, D, n, L)
  PROVE  /\ t.call # "new" /\ \A u : ~Unclaims(t, about, u)
         /\ \A u : Puts(t, User(u)) => SavesAccount(t, D, n, L) /\ u \in 1..n /\ IsAccount(t.value)
                                       /\ (u \in L \/ Signs(t.value) = SignsIn(D, u))
         /\ \A u : Drops(t, User(u)) => u \in L
         /\ \A x : Puts(t, Login(x)) => t.value \in 1..n /\ Alters(about, AddressOf(x), {"google"})
         /\ \A x : Drops(t, Login(x)) => Alters(about, AddressOf(x), {"delete"})
         /\ t.call = "put" /\ t.key[1] \in Credentials =>
              SavesAccount(t, D, n, L) \/ SavesLink(t, n) \/ GivesKey(t, about, n)
         /\ t.call \in {"password", "verification"} => Reads(t, n)
<1>1. t.call # "new"
  BY DEF Tame, Unrelated, SavesAccount, SavesLink, DropsLink, DropsAccount, DropsKey, GivesKey, Reads, Puts, Drops
<1>2. \A u : Drops(t, User(u)) => u \in L /\ Alters(about, AccountOf(u), {"delete"})
  BY CredentialKeys DEF Tame, Unrelated, SavesAccount, SavesLink, DropsLink, DropsAccount, DropsKey, GivesKey, Reads,
                        Puts, Drops, Credentials
<1>3. \A u : ~Unclaims(t, about, u)
  BY <1>1, <1>2 DEF Unclaims, Alters
<1>4. \A u : Puts(t, User(u)) => SavesAccount(t, D, n, L)
  BY CredentialKeys DEF Tame, Unrelated, SavesAccount, SavesLink, DropsLink, DropsAccount, DropsKey, GivesKey, Reads,
                        Puts, Drops, Credentials
<1>5. \A u : Puts(t, User(u)) => u \in 1..n /\ IsAccount(t.value) /\ (u \in L \/ Signs(t.value) = SignsIn(D, u))
  BY <1>4, CredentialKeys DEF SavesAccount, Puts
<1>6. \A x : Puts(t, Login(x)) => t.value \in 1..n /\ Alters(about, AddressOf(x), {"google"})
  BY CredentialKeys DEF Tame, Unrelated, SavesAccount, SavesLink, DropsLink, DropsAccount, DropsKey, GivesKey, Reads,
                        Puts, Drops, Credentials
<1>7. \A x : Drops(t, Login(x)) => Alters(about, AddressOf(x), {"delete"})
  BY CredentialKeys DEF Tame, Unrelated, SavesAccount, SavesLink, DropsLink, DropsAccount, DropsKey, GivesKey, Reads,
                        Puts, Drops, Credentials
<1>8. t.call = "put" /\ t.key[1] \in Credentials => SavesAccount(t, D, n, L) \/ SavesLink(t, n) \/ GivesKey(t, about, n)
  BY DEF Tame, Unrelated, DropsLink, DropsAccount, DropsKey, Reads, Drops
<1>9. t.call \in {"password", "verification"} => Reads(t, n)
  BY DEF Tame, Unrelated, SavesAccount, SavesLink, DropsLink, DropsAccount, DropsKey, GivesKey, Puts, Drops
<1> QED BY <1>1, <1>2, <1>3, <1>4, <1>5, <1>6, <1>7, <1>8, <1>9

LEMMA NamesInRange ==
  ASSUME NEW t, NEW about, NEW D, NEW n, NEW L, L \subseteq 1..n, Tame(t, about, D, n, L), NEW u, Names(t, u)
  PROVE  u \in 1..n
<1> USE DEF Puts, Drops
<1>1. CASE Unrelated(t)
  BY <1>1, CredentialKeys DEF Names, Unrelated, Credentials
<1>2. CASE SavesAccount(t, D, n, L) \/ DropsAccount(t, about, L)
  BY <1>2, CredentialKeys DEF Names, SavesAccount, DropsAccount
<1>3. CASE SavesLink(t, n) \/ DropsLink(t) \/ DropsKey(t, about)
  BY <1>3, CredentialKeys DEF Names, SavesLink, DropsLink, DropsKey
<1>4. CASE GivesKey(t, about, n) \/ Reads(t, n)
  BY <1>4, CredentialKeys DEF Names, GivesKey, Reads
<1> QED BY <1>1, <1>2, <1>3, <1>4 DEF Tame

(* It stays so while ids are given out and deletions begin, and while no account it saves signs in otherwise. *)
LEMMA TameStays ==
  ASSUME NEW t, NEW about, NEW D, NEW E, NEW n \in Nat, NEW m \in Nat, n <= m, NEW L, NEW K, L \subseteq K,
         Tame(t, about, D, n, L),
         \A u : Puts(t, User(u)) => u \in K \/ SignsIn(E, u) = SignsIn(D, u)
  PROVE  Tame(t, about, E, m, K)
<1>1. 1..n \subseteq 1..m
  OBVIOUS
<1>2. CASE SavesAccount(t, D, n, L)
  BY <1>1, <1>2 DEF SavesAccount, Tame
<1>3. CASE Unrelated(t) \/ DropsLink(t) \/ DropsKey(t, about)
  BY <1>3 DEF Tame
<1>4. CASE SavesLink(t, n) \/ GivesKey(t, about, n) \/ Reads(t, n)
  <2>1. SavesLink(t, n) => SavesLink(t, m)
    BY <1>1 DEF SavesLink
  <2>2. GivesKey(t, about, n) => GivesKey(t, about, m)
    BY <1>1 DEF GivesKey
  <2>3. Reads(t, n) => Reads(t, m)
    BY <1>1 DEF Reads
  <2> QED BY <1>4, <2>1, <2>2, <2>3 DEF Tame
<1>5. CASE DropsAccount(t, about, L)
  BY <1>5 DEF DropsAccount, Tame
<1> QED BY <1>2, <1>3, <1>4, <1>5 DEF Tame

(* What a request that signs somebody up has ahead of it. *)
LEMMA SignUpFacts ==
  ASSUME NEW l, NEW i \in DOMAIN l, NEW about, NEW D, NEW n \in Nat, SignsUpAt(l, i, about, D, n)
  PROVE  \E u \in 1..n : \E x :
           /\ ForAddress(about, u, x)
           /\ MakesAt(l, i, u, x, D) \/ ClaimsAt(l, i, u, x, D) \/ TakesBackAt(l, i, u, x, D)
           /\ \E j \in DOMAIN l : Unclaims(l[j], about, u)
<1>1. PICK u \in 1..n : \E x :
           /\ ForAddress(about, u, x)
           /\ MakesAt(l, i, u, x, D) \/ ClaimsAt(l, i, u, x, D) \/ TakesBackAt(l, i, u, x, D)
  BY DEF SignsUpAt
<1>2. PICK x : /\ ForAddress(about, u, x)
               /\ MakesAt(l, i, u, x, D) \/ ClaimsAt(l, i, u, x, D) \/ TakesBackAt(l, i, u, x, D)
  BY <1>1
<1>3. \E j \in DOMAIN l : Unclaims(l[j], about, u)
  <2>1. CASE MakesAt(l, i, u, x, D)
    BY <2>1, CredentialKeys DEF MakesAt, ClaimsKey, Unclaims
  <2>2. CASE ClaimsAt(l, i, u, x, D)
    BY <2>2, CredentialKeys DEF ClaimsAt, ClaimsKey, Unclaims
  <2>3. CASE TakesBackAt(l, i, u, x, D)
    BY <1>2, <2>3 DEF TakesBackAt, ForAddress, Unclaims
  <2> QED BY <1>2, <2>1, <2>2, <2>3
<1> QED BY <1>2, <1>3

-----------------------------------------------------------------------------
(* The stages of a sign-up *)

Makes1(l, u, x, D) ==
    MakesAt(l, 1, u, x, D) /\ \A j \in DOMAIN l : j > 2 => l[j].call = "verification" /\ l[j].of = u
SigningUp(l, u, x, D) == Makes1(l, u, x, D) \/ ClaimsAt(l, 1, u, x, D) \/ TakesBackAt(l, 1, u, x, D)

(* All that is ahead of a request is tame, or it is at a stage of a sign-up. *)
LEMMA TameOrSigningUp ==
  ASSUME AccountInv, NEW h \in Handlers
  PROVE  \/ /\ \A i \in DOMAIN Todo(h) : Tame(Todo(h)[i], About(h), doc, minted, leaving)
            /\ \A u : ~Unclaimed(h, u)
         \/ \E u \in 1..minted : \E x :
              ForAddress(About(h), u, x) /\ SigningUp(Todo(h), u, x, doc) /\ Unclaimed(h, u)
<1> DEFINE l == Todo(h)
           about == About(h)
<1>1. CASE \A i \in DOMAIN l : Tame(l[i], about, doc, minted, leaving)
  <2>1. \A i \in DOMAIN l : \A u : ~Unclaims(l[i], about, u)
    BY <1>1, TameFacts
  <2> QED BY <1>1, <2>1 DEF Unclaimed
<1>2. ASSUME NEW i \in DOMAIN l, ~Tame(l[i], about, doc, minted, leaving)
      PROVE  \E u \in 1..minted : \E x :
               ForAddress(about, u, x) /\ SigningUp(l, u, x, doc) /\ \E j \in DOMAIN l : Unclaims(l[j], about, u)
  <2>1. SignsUpAt(l, i, about, doc, minted) /\ minted \in Nat
    BY <1>2 DEF AccountInv, CallsAreTame, StoredCredentials
  <2> HIDE DEF l, about
  <2>2. PICK u \in 1..minted : \E x :
           /\ ForAddress(about, u, x)
           /\ MakesAt(l, i, u, x, doc) \/ ClaimsAt(l, i, u, x, doc) \/ TakesBackAt(l, i, u, x, doc)
           /\ \E j \in DOMAIN l : Unclaims(l[j], about, u)
    BY <2>1, SignUpFacts
  <2>3. PICK x : /\ ForAddress(about, u, x)
                 /\ MakesAt(l, i, u, x, doc) \/ ClaimsAt(l, i, u, x, doc) \/ TakesBackAt(l, i, u, x, doc)
                 /\ \E j \in DOMAIN l : Unclaims(l[j], about, u)
    BY <2>2
  <2>4. CASE ClaimsAt(l, i, u, x, doc)
    <3>1. i = 1 \/ i = 2
      BY <2>4 DEF ClaimsAt
    <3>2. CASE i = 1
      BY <2>3, <2>4, <3>2 DEF SigningUp
    <3>3. CASE i = 2
      BY <2>3, <2>4, <3>3 DEF SigningUp, Makes1, ClaimsAt
    <3> QED BY <3>1, <3>2, <3>3
  <2>5. CASE TakesBackAt(l, i, u, x, doc)
    <3>1. i = 1
      BY <2>5 DEF TakesBackAt
    <3> QED BY <2>3, <2>5, <3>1 DEF SigningUp
  <2>6. CASE MakesAt(l, i, u, x, doc)
    <3>1. i = 1 /\ 2 \in DOMAIN l /\ ClaimsKey(l[2], u, x)
      BY <2>6 DEF MakesAt
    <3>2. ~Tame(l[2], about, doc, minted, leaving)
      BY <3>1, TameFacts DEF ClaimsKey
    <3>3. SignsUpAt(l, 2, about, doc, minted)
      BY <3>1, <3>2 DEF AccountInv, CallsAreTame, l, about
    <3>4. PICK v \in 1..minted : \E y : MakesAt(l, 2, v, y, doc) \/ ClaimsAt(l, 2, v, y, doc) \/ TakesBackAt(l, 2, v, y, doc)
      BY <3>3 DEF SignsUpAt
    <3>5. PICK y : MakesAt(l, 2, v, y, doc) \/ ClaimsAt(l, 2, v, y, doc) \/ TakesBackAt(l, 2, v, y, doc)
      BY <3>4
    <3>6. ClaimsAt(l, 2, v, y, doc)
      BY <3>5 DEF MakesAt, TakesBackAt
    <3>7. v = u /\ \A j \in DOMAIN l : j > 2 => l[j].call = "verification" /\ l[j].of = v
      BY <3>1, <3>6 DEF ClaimsAt, ClaimsKey
    <3>8. Makes1(l, u, x, doc)
      BY <2>6, <3>1, <3>7 DEF Makes1
    <3> QED BY <2>3, <3>8 DEF SigningUp
  <2> QED BY <2>3, <2>4, <2>5, <2>6
<1> QED BY <1>1, <1>2 DEF Unclaimed

(* It signs up one account. *)
LEMMA StageFacts ==
  ASSUME NEW l, IsList(l), NEW about, NEW u, NEW x, NEW D, SigningUp(l, u, x, D),
         NEW v, NEW i \in DOMAIN l, Unclaims(l[i], about, v)
  PROVE  v = u
<1>1. CASE Makes1(l, u, x, D)
  <2>1. i > 2 \/ i = 1 \/ i = 2
    BY ListFacts
  <2> QED BY <1>1, <2>1, CredentialKeys DEF Makes1, MakesAt, ClaimsKey, Unclaims, Puts, Drops
<1>2. CASE ClaimsAt(l, 1, u, x, D)
  <2>1. i > 1 \/ i = 1
    BY ListFacts
  <2> QED BY <1>2, <2>1, CredentialKeys DEF ClaimsAt, ClaimsKey, Unclaims, Puts, Drops
<1>3. CASE TakesBackAt(l, 1, u, x, D)
  BY <1>3, CredentialKeys DEF TakesBackAt, Unclaims, Puts, Drops
<1> QED BY <1>1, <1>2, <1>3 DEF SigningUp

-----------------------------------------------------------------------------
(* What a step leaves of the invariant: h goes on with the calls l, and the others rest. *)

GoesTo(h, about, l) ==
    /\ h \in Handlers /\ Todo(h)' = l /\ (l # <<>> => About(h)' = about)
    /\ \A k \in Handlers \ {h} : Todo(k)' = Todo(k) /\ About(k)' = About(k)
Grows ==
    minted' \in Nat /\ minted <= minted' /\ leaving \subseteq leaving' /\ crossed \subseteq crossed'

(* The accounts that others sign up are theirs alone. *)
LeavesOthers(h, l) ==
    \A k \in Handlers \ {h} : \A u : Unclaimed(k, u) =>
        /\ u \notin leaving' /\ (NamedIn(doc', u) => NamedIn(doc, u))
        /\ User(u) \in DOMAIN doc' => User(u) \in DOMAIN doc
        /\ \A i \in DOMAIN l : ~Names(l[i], u)

(* No other request has anything to do with an account. *)
OnlyOf(h, u) == \A k \in Handlers \ {h} : \A j \in DOMAIN Todo(k) : ~Names(Todo(k)[j], u)

LEMMA CallsAfter ==
  ASSUME AccountInv, Grows, NEW h, NEW about, NEW l, GoesTo(h, about, l), LeavesOthers(h, l),
         \A i \in DOMAIN l : \/ Tame(l[i], about, doc', minted', leaving')
                             \/ SignsUpAt(l, i, about, doc', minted'),
         \A u : u \notin leaving' /\ SignsIn(doc', u) # SignsIn(doc, u) => OnlyOf(h, u),
         \A u : (\E i \in DOMAIN l : Unclaims(l[i], about, u)) =>
                   u \notin leaving' /\ ~NamedIn(doc', u) /\ OnlyOf(h, u)
  PROVE  CallsAreTame' /\ Unknown'
<1>0. minted \in Nat /\ 1..minted \subseteq 1..minted'
  BY DEF Grows, AccountInv, StoredCredentials
<1>1. ASSUME NEW k \in Handlers \ {h}, NEW u, Unclaimed(k, u) PROVE SignsIn(doc', u) = SignsIn(doc, u)
  <2>1. u \notin leaving'
    BY <1>1 DEF LeavesOthers
  <2>2. PICK i \in DOMAIN Todo(k) : Unclaims(Todo(k)[i], About(k), u)
    BY <1>1 DEF Unclaimed
  <2>3. Names(Todo(k)[i], u)
    BY <2>2, CredentialKeys DEF Unclaims, Names, Drops
  <2> QED BY <2>1, <2>3 DEF OnlyOf
<1>2. ASSUME NEW k \in Handlers \ {h}, NEW i \in DOMAIN Todo(k)
      PROVE  Tame(Todo(k)[i], About(k), doc', minted', leaving') \/ SignsUpAt(Todo(k), i, About(k), doc', minted')
  <2>1. CASE Tame(Todo(k)[i], About(k), doc, minted, leaving)
    <3>1. \A u : Puts(Todo(k)[i], User(u)) => Names(Todo(k)[i], u)
      BY DEF Puts, Names
    <3>2. \A u : Puts(Todo(k)[i], User(u)) => u \in leaving' \/ SignsIn(doc', u) = SignsIn(doc, u)
      BY <3>1 DEF OnlyOf
    <3> QED BY <1>0, <2>1, <3>2, TameStays DEF Grows
  <2>2. CASE SignsUpAt(Todo(k), i, About(k), doc, minted)
    <3>1. PICK u \in 1..minted : \E x :
             /\ ForAddress(About(k), u, x)
             /\ \/ MakesAt(Todo(k), i, u, x, doc) \/ ClaimsAt(Todo(k), i, u, x, doc)
                \/ TakesBackAt(Todo(k), i, u, x, doc)
             /\ \E j \in DOMAIN Todo(k) : Unclaims(Todo(k)[j], About(k), u)
      BY <1>0, <2>2, SignUpFacts
    <3>2. PICK x : /\ ForAddress(About(k), u, x)
                   /\ \/ MakesAt(Todo(k), i, u, x, doc) \/ ClaimsAt(Todo(k), i, u, x, doc)
                      \/ TakesBackAt(Todo(k), i, u, x, doc)
                   /\ \E j \in DOMAIN Todo(k) : Unclaims(Todo(k)[j], About(k), u)
      BY <3>1
    <3>3. Unclaimed(k, u)
      BY <3>2 DEF Unclaimed
    <3>4. SignsIn(doc', u) = SignsIn(doc, u) /\ (User(u) \in DOMAIN doc' => User(u) \in DOMAIN doc)
      BY <1>1, <3>3 DEF LeavesOthers
    <3>5. \A j : MakesAt(Todo(k), j, u, x, doc) => MakesAt(Todo(k), j, u, x, doc')
      BY <3>4 DEF MakesAt
    <3>6. ClaimsAt(Todo(k), i, u, x, doc) => ClaimsAt(Todo(k), i, u, x, doc')
      BY <3>4, <3>5 DEF ClaimsAt
    <3>7. TakesBackAt(Todo(k), i, u, x, doc) => TakesBackAt(Todo(k), i, u, x, doc')
      BY <3>4 DEF TakesBackAt
    <3> QED BY <1>0, <3>2, <3>5, <3>6, <3>7 DEF SignsUpAt
  <2> QED BY <2>1, <2>2 DEF AccountInv, CallsAreTame
<1>3. CallsAreTame'
  <2>1. SUFFICES ASSUME NEW k \in Handlers, NEW i \in DOMAIN Todo(k)'
                 PROVE  \/ Tame(Todo(k)'[i], About(k)', doc', minted', leaving')
                        \/ SignsUpAt(Todo(k)', i, About(k)', doc', minted')
    BY DEF CallsAreTame
  <2>2. CASE k = h
    <3>1. l # <<>>
      BY <2>1, <2>2 DEF GoesTo
    <3> QED BY <2>1, <2>2, <3>1 DEF GoesTo
  <2>3. CASE k # h
    BY <1>2, <2>1, <2>3 DEF GoesTo
  <2> QED BY <2>2, <2>3
<1>4. Unknown'
  <2>1. SUFFICES ASSUME NEW k \in Handlers, NEW u, Unclaimed(k, u)'
                 PROVE  /\ u \notin leaving' /\ ~NamedIn(doc', u)
                        /\ \A g \in Handlers \ {k} : \A j \in DOMAIN Todo(g)' : ~Names(Todo(g)'[j], u)
    BY DEF Unknown
  <2>2. CASE k = h
    <3>1. l # <<>> /\ \E i \in DOMAIN l : Unclaims(l[i], about, u)
      BY <2>1, <2>2 DEF Unclaimed, GoesTo
    <3> QED BY <2>2, <3>1 DEF GoesTo, OnlyOf
  <2>3. CASE k # h
    <3>1. Unclaimed(k, u)
      BY <2>1, <2>3 DEF Unclaimed, GoesTo
    <3>2. /\ ~NamedIn(doc, u)
          /\ \A g \in Handlers \ {k} : \A j \in DOMAIN Todo(g) : ~Names(Todo(g)[j], u)
      BY <3>1 DEF AccountInv, Unknown
    <3> QED BY <2>3, <3>1, <3>2 DEF LeavesOthers, GoesTo
  <2> QED BY <2>2, <2>3
<1> QED BY <1>3, <1>4

LEMMA KeysAfter ==
  ASSUME AccountInv, Grows, NEW h, NEW about, NEW l, GoesTo(h, about, l),
         \A u, x :
            /\ u \notin leaving' /\ x \in SignsIn(doc', u) /\ AddressOf(x) \notin crossed'
            /\ \A i \in DOMAIN l : ~Unclaims(l[i], about, u)
            /\ \A k \in Handlers \ {h} : ~Unclaimed(k, u)
            => \/ Login(x) \in DOMAIN doc' /\ doc'[Login(x)] = u
               \/ /\ x \in SignsIn(doc, u) /\ ~Unclaimed(h, u)
                  /\ Held(Login(x)) /\ doc[Login(x)] = u => Login(x) \in DOMAIN doc' /\ doc'[Login(x)] = u
  PROVE  KeysAreKept'
<1>1. SUFFICES ASSUME NEW u, u \notin leaving', \A k \in Handlers : ~Unclaimed(k, u)',
                      NEW x \in SignsIn(doc', u), AddressOf(x) \notin crossed'
               PROVE  Login(x) \in DOMAIN doc' /\ doc'[Login(x)] = u
  BY DEF KeysAreKept, Held
<1>2. \A i \in DOMAIN l : ~Unclaims(l[i], about, u)
  <2>1. CASE l = <<>>
    BY <2>1, ShortLists
  <2>2. CASE l # <<>>
    BY <1>1, <2>2 DEF GoesTo, Unclaimed
  <2> QED BY <2>1, <2>2
<1>3. \A k \in Handlers \ {h} : ~Unclaimed(k, u)
  BY <1>1 DEF GoesTo, Unclaimed
<1>4. u \notin leaving /\ AddressOf(x) \notin crossed
  BY <1>1 DEF Grows
<1>5. CASE x \in SignsIn(doc, u) /\ ~Unclaimed(h, u)
  <2>1. Held(Login(x)) /\ doc[Login(x)] = u
    BY <1>3, <1>4, <1>5 DEF AccountInv, KeysAreKept
  <2> QED BY <1>1, <1>2, <1>3, <2>1
<1> QED BY <1>1, <1>2, <1>3, <1>5

LEMMA AddressesAfter ==
  ASSUME AccountInv, Grows, NEW h, NEW about, NEW l, GoesTo(h, about, l),
         \A k \in Handlers \ {h} : \A i \in DOMAIN Todo(k) : \A x :
            /\ Drops(Todo(k)[i], Login(x)) /\ AddressOf(x) \notin crossed' /\ Login(x) \in DOMAIN doc'
               => Held(Login(x)) /\ doc'[Login(x)] = doc[Login(x)]
            /\ Puts(Todo(k)[i], Login(x)) /\ AddressOf(x) \notin crossed'
               => \A u : x \in SignsIn(doc', u) => u \in leaving' \/ x \in SignsIn(doc, u),
         \A i \in DOMAIN l : \A x : AddressOf(x) \notin crossed' =>
            /\ Drops(l[i], Login(x)) /\ Login(x) \in DOMAIN doc' => doc'[Login(x)] \in leaving'
            /\ Puts(l[i], Login(x)) => \A u : x \in SignsIn(doc', u) => u \in leaving'
  PROVE  DropsOwn' /\ GivesFree'
<1>1. ASSUME NEW k \in Handlers, NEW i \in DOMAIN Todo(k)', NEW x, AddressOf(x) \notin crossed'
      PROVE  /\ Drops(Todo(k)'[i], Login(x)) /\ Login(x) \in DOMAIN doc' => doc'[Login(x)] \in leaving'
             /\ Puts(Todo(k)'[i], Login(x)) => \A u : x \in SignsIn(doc', u) => u \in leaving'
  <2>1. CASE k = h
    BY <1>1, <2>1 DEF GoesTo
  <2>2. CASE k # h
    <3>1. Todo(k)' = Todo(k) /\ AddressOf(x) \notin crossed
      BY <1>1, <2>2 DEF GoesTo, Grows
    <3>2. Drops(Todo(k)[i], Login(x)) /\ Login(x) \in DOMAIN doc' => doc'[Login(x)] \in leaving'
      BY <1>1, <2>2, <3>1 DEF AccountInv, DropsOwn, Grows
    <3>3. ASSUME Puts(Todo(k)[i], Login(x)), NEW u, x \in SignsIn(doc', u) PROVE u \in leaving'
      <4>1. x \in SignsIn(doc, u) => u \in leaving
        BY <1>1, <3>1, <3>3 DEF AccountInv, GivesFree
      <4> QED BY <1>1, <2>2, <3>1, <3>3, <4>1 DEF Grows
    <3> QED BY <3>1, <3>2, <3>3
  <2> QED BY <2>1, <2>2
<1> QED BY <1>1 DEF DropsOwn, GivesFree, Held

(* A request that signs nobody up begins, or reads on. *)
LEMMA TameMove ==
  ASSUME AccountInv, Grows, NEW h, NEW about, NEW l, GoesTo(h, about, l), doc' = doc, leaving' \subseteq 1..minted',
         \A u : ~Unclaimed(h, u),
         \A k \in Handlers : \A u : Unclaimed(k, u) => u \notin leaving' /\ \A i \in DOMAIN l : ~Names(l[i], u),
         \A i \in DOMAIN l : Tame(l[i], about, doc, minted', leaving'),
         \A i \in DOMAIN l : \A x : AddressOf(x) \notin crossed' =>
            /\ Drops(l[i], Login(x)) /\ Login(x) \in DOMAIN doc => doc[Login(x)] \in leaving'
            /\ Puts(l[i], Login(x)) => \A u : x \in SignsIn(doc, u) => u \in leaving'
  PROVE  AccountInv'
<1>1. StoredCredentials'
  <2>1. minted' \in Nat /\ 1..minted \subseteq 1..minted'
    BY DEF Grows, AccountInv, StoredCredentials
  <2> QED BY <2>1 DEF AccountInv, StoredCredentials
<1>2. LeavesOthers(h, l)
  BY DEF LeavesOthers
<1>3. \A i \in DOMAIN l : \A u : ~Unclaims(l[i], about, u)
  BY TameFacts
<1>4. CallsAreTame' /\ Unknown'
  BY <1>2, <1>3, CallsAfter
<1>5. KeysAreKept'
  <2>1. ASSUME NEW u, NEW x, x \in SignsIn(doc', u)
        PROVE  /\ x \in SignsIn(doc, u) /\ ~Unclaimed(h, u)
               /\ Held(Login(x)) /\ doc[Login(x)] = u => Login(x) \in DOMAIN doc' /\ doc'[Login(x)] = u
    BY <2>1 DEF Held
  <2> QED BY <2>1, KeysAfter
<1>6. DropsOwn' /\ GivesFree'
  BY AddressesAfter DEF Held
<1> QED BY <1>1, <1>4, <1>5, <1>6 DEF AccountInv

-----------------------------------------------------------------------------
(* The storage calls *)

(* The first call ahead of h is made. *)
CallMoves(h) ==
    LET t == Todo(h)[1]
    IN /\ IsList(Todo(h)) /\ Todo(h) # <<>> /\ GoesTo(h, About(h), Tail(Todo(h)))
       /\ minted' = minted /\ leaving' = leaving /\ crossed' = crossed
       /\ \A key : key # t.key => Same(key)
       /\ \/ t.call = "put" /\ t.key \in DOMAIN doc' /\ doc'[t.key] = t.value
          \/ t.call = "new" /\ t.key \in DOMAIN doc' /\ doc'[t.key] = t.value /\ ~Held(t.key)
          \/ t.call = "delete" /\ t.key \notin DOMAIN doc'

LEMMA KeyTopics ==
  ASSUME AccountInv, NEW k \in Handlers, NEW i \in DOMAIN Todo(k), NEW x
  PROVE  /\ Drops(Todo(k)[i], Login(x)) => Works(k, AddressOf(x)) /\ About(k)[AddressOf(x)] = "delete"
         /\ Puts(Todo(k)[i], Login(x)) => Works(k, AddressOf(x)) /\ About(k)[AddressOf(x)] = "google"
<1> DEFINE t == Todo(k)[i]
<1>1. Working(k)
  BY ShortLists DEF Working, Todo
<1>2. Drops(t, Login(x)) \/ Puts(t, Login(x)) => Tame(t, About(k), doc, minted, leaving)
  <2>1. SignsUpAt(Todo(k), i, About(k), doc, minted) => ~Drops(t, Login(x)) /\ ~Puts(t, Login(x))
    BY CredentialKeys DEF SignsUpAt, MakesAt, ClaimsAt, TakesBackAt, ClaimsKey, Drops, Puts
  <2> QED BY <2>1 DEF AccountInv, CallsAreTame
<1>3. Tame(t, About(k), doc, minted, leaving) =>
        /\ Drops(t, Login(x)) => Alters(About(k), AddressOf(x), {"delete"})
        /\ Puts(t, Login(x)) => Alters(About(k), AddressOf(x), {"google"})
  BY TameFacts
<1> QED BY <1>1, <1>2, <1>3 DEF Alters, Works

LEMMA TailOf ==
  ASSUME NEW l, IsList(l), l # <<>>
  PROVE  /\ 1 \in DOMAIN l /\ IsList(Tail(l))
         /\ \A i \in DOMAIN Tail(l) : i \in Nat /\ i > 0 /\ Tail(l)[i] = l[i + 1] /\ i + 1 \in DOMAIN l
         /\ 2 \in DOMAIN l => 1 \in DOMAIN Tail(l)
<1>1. 2 \in DOMAIN l => 1 \in DOMAIN Tail(l)
  BY ListFacts, TailFacts
<1> QED BY <1>1, ListFacts, TailFacts

LEMMA TameCall ==
  ASSUME IInv, AccountInv, NEW h \in Handlers, CallMoves(h),
         \A i \in DOMAIN Todo(h) : Tame(Todo(h)[i], About(h), doc, minted, leaving), \A u : ~Unclaimed(h, u)
  PROVE  AccountInv'
<1> DEFINE l == Todo(h)
           t == l[1]
           about == About(h)
<1>0. /\ 1 \in DOMAIN l /\ Tame(t, about, doc, minted, leaving)
      /\ minted \in Nat /\ minted' = minted /\ leaving' = leaving /\ crossed' = crossed
      /\ leaving \subseteq 1..minted
      /\ Grows /\ GoesTo(h, about, Tail(l)) /\ t.call # "new"
  BY TailOf, TameFacts DEF CallMoves, AccountInv, StoredCredentials, Grows
<1>1. \A i \in DOMAIN Tail(l) : Tail(l)[i] = l[i + 1] /\ i + 1 \in DOMAIN l
  BY TailOf DEF CallMoves
<1>2. \A u : u \notin leaving => SignsIn(doc', u) = SignsIn(doc, u)
  <2>1. SUFFICES ASSUME NEW u, u \notin leaving PROVE SignsIn(doc', u) = SignsIn(doc, u)
    OBVIOUS
  <2>2. CASE t.key # User(u)
    BY <2>2 DEF CallMoves, Same, SignsIn
  <2>3. CASE Puts(t, User(u))
    <3>1. Signs(t.value) = SignsIn(doc, u)
      BY <1>0, <2>1, <2>3, TameFacts
    <3> QED BY <2>3, <3>1 DEF CallMoves, SignsIn, Puts
  <2>4. CASE Drops(t, User(u))
    BY <1>0, <2>1, <2>4, TameFacts
  <2> QED BY <1>0, <2>2, <2>3, <2>4 DEF CallMoves, Puts, Drops
<1>3. StoredCredentials'
  <2>1. SUFFICES ASSUME NEW key \in DOMAIN doc'
                 PROVE  /\ key[1] = "USER" => key = User(key[2]) /\ key[2] \in 1..minted /\ IsAccount(doc'[key])
                        /\ key[1] = "LOGIN" => key = Login(key[2])
                        /\ key[1] \in {"LOGIN", "RESET"} => doc'[key] \in 1..minted
                        /\ key[1] = "VERIFY" => doc'[key].user \in 1..minted
    BY <1>0 DEF StoredCredentials
  <2>2. CASE key # t.key
    BY <2>2 DEF CallMoves, Same, AccountInv, StoredCredentials
  <2>3. CASE key = t.key /\ key[1] \in Credentials
    <3>1. t.call = "put" /\ doc'[key] = t.value
      BY <1>0, <2>1, <2>3 DEF CallMoves
    <3>2. SavesAccount(t, doc, minted, leaving) \/ SavesLink(t, minted) \/ GivesKey(t, about, minted)
      BY <1>0, <2>3, <3>1, TameFacts
    <3>3. CASE SavesAccount(t, doc, minted, leaving)
      BY <2>3, <3>1, <3>3, CredentialKeys DEF SavesAccount, Puts
    <3>4. CASE SavesLink(t, minted)
      BY <2>3, <3>1, <3>4 DEF SavesLink
    <3>5. CASE GivesKey(t, about, minted)
      BY <2>3, <3>1, <3>5, CredentialKeys DEF GivesKey, Puts
    <3> QED BY <3>2, <3>3, <3>4, <3>5
  <2> QED BY <2>2, <2>3 DEF Credentials
<1>4. LeavesOthers(h, Tail(l))
  <2>1. SUFFICES ASSUME NEW k \in Handlers \ {h}, NEW u, Unclaimed(k, u)
                 PROVE  /\ u \notin leaving /\ (NamedIn(doc', u) => NamedIn(doc, u))
                        /\ User(u) \in DOMAIN doc' => User(u) \in DOMAIN doc
                        /\ \A i \in DOMAIN Tail(l) : ~Names(Tail(l)[i], u)
    BY <1>0 DEF LeavesOthers
  <2>2. u \notin leaving /\ \A j \in DOMAIN l : ~Names(l[j], u)
    BY <2>1 DEF AccountInv, Unknown
  <2>3. ~Names(t, u)
    BY <1>0, <2>2
  <2>4. ASSUME NamedIn(doc', u) PROVE NamedIn(doc, u)
    <3>1. PICK key \in DOMAIN doc' : \/ key[1] \in {"LOGIN", "RESET"} /\ doc'[key] = u
                                     \/ key[1] = "VERIFY" /\ doc'[key].user = u
      BY <2>4 DEF NamedIn
    <3>2. key # t.key
      BY <1>0, <2>3, <3>1 DEF CallMoves, Names
    <3> QED BY <3>1, <3>2 DEF CallMoves, Same, NamedIn
  <2>5. User(u) \in DOMAIN doc' => User(u) \in DOMAIN doc
    BY <1>0, <2>3 DEF CallMoves, Same, Names
  <2> QED BY <1>1, <2>2, <2>4, <2>5
<1>5. \A i \in DOMAIN Tail(l) : Tame(Tail(l)[i], about, doc', minted', leaving')
  BY <1>0, <1>1, <1>2, TameStays
<1>6. \A i \in DOMAIN Tail(l) : \A u : ~Unclaims(Tail(l)[i], about, u)
  BY <1>5, TameFacts
<1>7. CallsAreTame' /\ Unknown'
  <2>1. \A u : u \notin leaving' /\ SignsIn(doc', u) # SignsIn(doc, u) => OnlyOf(h, u)
    BY <1>0, <1>2
  <2> QED BY <1>0, <1>4, <1>5, <1>6, <2>1, CallsAfter
<1>8. KeysAreKept'
  <2>1. ASSUME NEW u, u \notin leaving', NEW x \in SignsIn(doc', u), AddressOf(x) \notin crossed'
        PROVE  /\ x \in SignsIn(doc, u) /\ ~Unclaimed(h, u)
               /\ Held(Login(x)) /\ doc[Login(x)] = u => Login(x) \in DOMAIN doc' /\ doc'[Login(x)] = u
    <3>1. x \in SignsIn(doc, u) /\ u \notin leaving /\ AddressOf(x) \notin crossed
      BY <1>0, <1>2, <2>1
    <3>2. ~Puts(t, Login(x))
      BY <1>0, <3>1 DEF AccountInv, GivesFree
    <3>3. Held(Login(x)) /\ doc[Login(x)] = u => ~Drops(t, Login(x))
      BY <1>0, <3>1 DEF AccountInv, DropsOwn
    <3>4. Held(Login(x)) /\ doc[Login(x)] = u => Same(Login(x))
      BY <1>0, <3>2, <3>3 DEF CallMoves, Puts, Drops
    <3> QED BY <3>1, <3>4 DEF Same, Held
  <2> QED BY <1>0, <2>1, KeysAfter
<1>9. DropsOwn' /\ GivesFree'
  <2>1. ASSUME NEW x, AddressOf(x) \notin crossed, NEW k \in Handlers, NEW i \in DOMAIN Todo(k), Drops(Todo(k)[i], Login(x)),
               Login(x) \in DOMAIN doc', k # h \/ i > 1
        PROVE  Held(Login(x)) /\ doc'[Login(x)] = doc[Login(x)]
    <3>1. ~Puts(t, Login(x))
      <4>1. Works(k, AddressOf(x)) /\ About(k)[AddressOf(x)] = "delete"
        BY <2>1, KeyTopics
      <4>2. Puts(t, Login(x)) => Works(h, AddressOf(x)) /\ About(h)[AddressOf(x)] = "google"
        BY <1>0, KeyTopics
      <4>3. ~(Works(k, AddressOf(x)) /\ Works(h, AddressOf(x)) /\ About(k)[AddressOf(x)] # About(h)[AddressOf(x)])
        BY <2>1 DEF IInv, Alike
      <4> QED BY <4>1, <4>2, <4>3
    <3> QED BY <1>0, <2>1, <3>1 DEF CallMoves, Puts, Same, Held
  <2>2. ASSUME NEW k \in Handlers \ {h}, NEW i \in DOMAIN Todo(k), NEW x
        PROVE  /\ Drops(Todo(k)[i], Login(x)) /\ AddressOf(x) \notin crossed' /\ Login(x) \in DOMAIN doc'
                    => Held(Login(x)) /\ doc'[Login(x)] = doc[Login(x)]
               /\ Puts(Todo(k)[i], Login(x)) /\ AddressOf(x) \notin crossed'
                    => \A u : x \in SignsIn(doc', u) => u \in leaving' \/ x \in SignsIn(doc, u)
    BY <1>0, <1>2, <2>1
  <2>3. ASSUME NEW i \in DOMAIN Tail(l), NEW x, AddressOf(x) \notin crossed'
        PROVE  /\ Drops(Tail(l)[i], Login(x)) /\ Login(x) \in DOMAIN doc' => doc'[Login(x)] \in leaving'
               /\ Puts(Tail(l)[i], Login(x)) => \A u : x \in SignsIn(doc', u) => u \in leaving'
    <3>1. Tail(l)[i] = l[i + 1] /\ i + 1 \in DOMAIN l /\ i + 1 > 1
      BY TailOf DEF CallMoves
    <3>2. Drops(l[i + 1], Login(x)) /\ Login(x) \in DOMAIN doc' => doc'[Login(x)] \in leaving
      BY <1>0, <2>1, <2>3, <3>1 DEF AccountInv, DropsOwn
    <3>3. Puts(l[i + 1], Login(x)) => \A u : x \in SignsIn(doc, u) => u \in leaving
      BY <1>0, <2>3, <3>1 DEF AccountInv, GivesFree
    <3> QED BY <1>0, <1>2, <3>1, <3>2, <3>3
  <2> QED BY <1>0, <2>2, <2>3, AddressesAfter
<1> QED BY <1>3, <1>7, <1>8, <1>9 DEF AccountInv

(* What is known of an account while it is signed up. *)
LEMMA OnlySignUp ==
  ASSUME AccountInv, NEW h \in Handlers, IsList(Todo(h)), NEW u, NEW x, SigningUp(Todo(h), u, x, doc), Unclaimed(h, u)
  PROVE  /\ u \notin leaving /\ ~NamedIn(doc, u) /\ OnlyOf(h, u)
         /\ \A v : Unclaimed(h, v) => v = u
         /\ \A k \in Handlers \ {h} : \A v : Unclaimed(k, v) =>
              v \notin leaving /\ \A i \in DOMAIN Todo(h) : ~Names(Todo(h)[i], v)
<1>1. \A v : Unclaimed(h, v) => v = u
  BY StageFacts DEF Unclaimed
<1> QED BY <1>1 DEF AccountInv, Unknown, OnlyOf

(* The account is written. *)
LEMMA MakesCall ==
  ASSUME IInv, AccountInv, NEW h \in Handlers, CallMoves(h), NEW u \in 1..minted, NEW x,
         ForAddress(About(h), u, x), Makes1(Todo(h), u, x, doc), Unclaimed(h, u)
  PROVE  AccountInv'
<1> DEFINE l == Todo(h)
           t == l[1]
           about == About(h)
           q == Tail(l)
<1>0. /\ 1 \in DOMAIN l /\ 2 \in DOMAIN l /\ IsList(q) /\ 1 \in DOMAIN q /\ IsList(l)
      /\ minted \in Nat /\ minted' = minted /\ leaving' = leaving /\ crossed' = crossed
      /\ Grows /\ GoesTo(h, about, q) /\ leaving \subseteq 1..minted
  BY TailOf DEF CallMoves, AccountInv, StoredCredentials, Grows, Makes1, MakesAt
<1>1. \A i \in DOMAIN q : i \in Nat /\ i > 0 /\ q[i] = l[i + 1] /\ i + 1 \in DOMAIN l
  BY TailOf DEF CallMoves
<1>2. /\ t.key = User(u) /\ Puts(t, User(u)) /\ IsAccount(t.value) /\ Signs(t.value) = {x} /\ User(u) \notin DOMAIN doc
      /\ ClaimsKey(l[2], u, x)
      /\ User(u) \in DOMAIN doc' /\ doc'[User(u)] = t.value /\ SignsIn(doc', u) = {x} /\ SignsIn(doc, u) = {}
  BY DEF Makes1, MakesAt, Puts, CallMoves, SignsIn
<1>3. (\A v : v # u => Same(User(v)) /\ SignsIn(doc', v) = SignsIn(doc, v)) /\ (\A y : Same(Login(y)))
      /\ \A key : key[1] # "USER" => Same(key)
  BY <1>2, CredentialKeys DEF CallMoves, Same, SignsIn
<1>4. /\ u \notin leaving /\ ~NamedIn(doc, u) /\ OnlyOf(h, u)
      /\ \A v : Unclaimed(h, v) => v = u
      /\ \A k \in Handlers \ {h} : \A v : Unclaimed(k, v) =>
           v \notin leaving /\ \A i \in DOMAIN l : ~Names(l[i], v)
  BY <1>0, OnlySignUp DEF SigningUp
<1>5. StoredCredentials'
  <2>1. SUFFICES ASSUME NEW key \in DOMAIN doc'
                 PROVE  /\ key[1] = "USER" => key = User(key[2]) /\ key[2] \in 1..minted /\ IsAccount(doc'[key])
                        /\ key[1] = "LOGIN" => key = Login(key[2])
                        /\ key[1] \in {"LOGIN", "RESET"} => doc'[key] \in 1..minted
                        /\ key[1] = "VERIFY" => doc'[key].user \in 1..minted
    BY <1>0 DEF StoredCredentials
  <2>2. CASE key # t.key
    BY <2>2 DEF CallMoves, Same, AccountInv, StoredCredentials
  <2>3. CASE key = t.key
    BY <1>2, <2>3, CredentialKeys
  <2> QED BY <2>2, <2>3
<1>6. LeavesOthers(h, q)
  <2>1. SUFFICES ASSUME NEW k \in Handlers \ {h}, NEW v, Unclaimed(k, v)
                 PROVE  /\ v \notin leaving /\ (NamedIn(doc', v) => NamedIn(doc, v))
                        /\ User(v) \in DOMAIN doc' => User(v) \in DOMAIN doc
                        /\ \A i \in DOMAIN q : ~Names(q[i], v)
    BY <1>0 DEF LeavesOthers
  <2>2. v \notin leaving /\ \A j \in DOMAIN l : ~Names(l[j], v)
    BY <1>4, <2>1
  <2>3. v # u
    BY <1>0, <1>2, <2>2 DEF Names, Puts
  <2>4. NamedIn(doc', v) => NamedIn(doc, v)
    BY <1>3 DEF NamedIn, Same
  <2> QED BY <1>1, <1>3, <2>2, <2>3, <2>4 DEF Same
<1>7. ClaimsAt(q, 1, u, x, doc')
  BY <1>0, <1>1, <1>2 DEF ClaimsAt, Makes1
<1>8. ASSUME NEW i \in DOMAIN q, i # 1 PROVE Tame(q[i], about, doc', minted', leaving') /\ q[i].call = "verification"
  BY <1>0, <1>1, <1>8 DEF Makes1, Tame, Reads
<1>9. \A i \in DOMAIN q : \/ Tame(q[i], about, doc', minted', leaving')
                          \/ SignsUpAt(q, i, about, doc', minted')
  BY <1>0, <1>7, <1>8 DEF SignsUpAt
<1>10. \A v : (\E i \in DOMAIN q : Unclaims(q[i], about, v)) => v = u
  BY <1>0, <1>7, StageFacts DEF SigningUp
<1>11. ~NamedIn(doc', u)
  BY <1>3, <1>4 DEF NamedIn, Same
<1>12. CallsAreTame' /\ Unknown'
  <2>1. \A v : v \notin leaving' /\ SignsIn(doc', v) # SignsIn(doc, v) => OnlyOf(h, v)
    BY <1>3, <1>4
  <2>2. \A v : (\E i \in DOMAIN q : Unclaims(q[i], about, v)) => v \notin leaving' /\ ~NamedIn(doc', v) /\ OnlyOf(h, v)
    BY <1>0, <1>4, <1>10, <1>11
  <2> QED BY <1>0, <1>6, <1>9, <2>1, <2>2, CallsAfter
<1>13. KeysAreKept'
  <2>1. ASSUME NEW v, NEW y \in SignsIn(doc', v), \A i \in DOMAIN q : ~Unclaims(q[i], about, v)
        PROVE  /\ y \in SignsIn(doc, v) /\ ~Unclaimed(h, v)
               /\ Held(Login(y)) /\ doc[Login(y)] = v => Login(y) \in DOMAIN doc' /\ doc'[Login(y)] = v
    <3>1. Unclaims(q[1], about, u)
      BY <1>0, <1>7, CredentialKeys DEF ClaimsAt, ClaimsKey, Unclaims
    <3>2. v # u
      BY <1>0, <2>1, <3>1
    <3> QED BY <1>3, <1>4, <2>1, <3>2 DEF Same, Held
  <2> QED BY <1>0, <2>1, KeysAfter
<1>14. DropsOwn' /\ GivesFree'
  <2>1. ASSUME NEW k \in Handlers \ {h}, NEW i \in DOMAIN Todo(k), NEW y, AddressOf(y) \notin crossed
        PROVE  /\ Login(y) \in DOMAIN doc' => Held(Login(y)) /\ doc'[Login(y)] = doc[Login(y)]
               /\ Puts(Todo(k)[i], Login(y)) => \A v : y \in SignsIn(doc', v) => v \in leaving \/ y \in SignsIn(doc, v)
    <3>1. ASSUME Puts(Todo(k)[i], Login(y)), y = x PROVE FALSE
      <4>1. Works(k, AddressOf(x)) /\ About(k)[AddressOf(x)] = "google"
        BY <3>1, KeyTopics
      <4>2. Works(h, AddressOf(x)) /\ About(h)[AddressOf(x)] = "claim"
        BY DEF ForAddress, Alters, Works, Working, Todo, CallMoves
      <4> QED BY <2>1, <3>1, <4>1, <4>2 DEF IInv, Alike
    <3> QED BY <1>2, <1>3, <3>1 DEF Same, Held
  <2>2. ASSUME NEW i \in DOMAIN q, NEW y PROVE ~Drops(q[i], Login(y)) /\ ~Puts(q[i], Login(y))
    BY <1>7, <1>8 DEF ClaimsAt, ClaimsKey, Drops, Puts
  <2> QED BY <1>0, <2>1, <2>2, AddressesAfter
<1> QED BY <1>5, <1>12, <1>13, <1>14 DEF AccountInv

(* Its key is claimed. *)
LEMMA ClaimsCall ==
  ASSUME IInv, AccountInv, NEW h \in Handlers, CallMoves(h), NEW u \in 1..minted, NEW x,
         ForAddress(About(h), u, x), ClaimsAt(Todo(h), 1, u, x, doc), Unclaimed(h, u)
  PROVE  AccountInv'
<1> DEFINE l == Todo(h)
           t == l[1]
           about == About(h)
           q == Tail(l)
<1>0. /\ 1 \in DOMAIN l /\ IsList(q) /\ IsList(l)
      /\ minted \in Nat /\ minted' = minted /\ leaving' = leaving /\ crossed' = crossed
      /\ Grows /\ GoesTo(h, about, q) /\ leaving \subseteq 1..minted
  BY TailOf DEF CallMoves, AccountInv, StoredCredentials, Grows
<1>1. \A i \in DOMAIN q : i \in Nat /\ i > 0 /\ q[i] = l[i + 1] /\ i + 1 \in DOMAIN l
  BY TailOf DEF CallMoves
<1>2. /\ t.call = "new" /\ t.key = Login(x) /\ t.value = u /\ SignsIn(doc, u) \subseteq {x}
      /\ ~Held(Login(x)) /\ Login(x) \in DOMAIN doc' /\ doc'[Login(x)] = u
  BY DEF ClaimsAt, ClaimsKey, CallMoves
<1>3. /\ \A v : Same(User(v)) /\ SignsIn(doc', v) = SignsIn(doc, v)
      /\ \A y : y # x => Same(Login(y))
  BY <1>2, CredentialKeys DEF CallMoves, Same, SignsIn
<1>4. /\ u \notin leaving /\ ~NamedIn(doc, u) /\ OnlyOf(h, u)
      /\ \A v : Unclaimed(h, v) => v = u
      /\ \A k \in Handlers \ {h} : \A v : Unclaimed(k, v) =>
           v \notin leaving /\ \A i \in DOMAIN l : ~Names(l[i], v)
  BY <1>0, OnlySignUp DEF SigningUp
<1>5. StoredCredentials'
  <2>1. SUFFICES ASSUME NEW key \in DOMAIN doc'
                 PROVE  /\ key[1] = "USER" => key = User(key[2]) /\ key[2] \in 1..minted /\ IsAccount(doc'[key])
                        /\ key[1] = "LOGIN" => key = Login(key[2])
                        /\ key[1] \in {"LOGIN", "RESET"} => doc'[key] \in 1..minted
                        /\ key[1] = "VERIFY" => doc'[key].user \in 1..minted
    BY <1>0 DEF StoredCredentials
  <2>2. CASE key # t.key
    BY <2>2 DEF CallMoves, Same, AccountInv, StoredCredentials
  <2>3. CASE key = t.key
    BY <1>2, <2>3, CredentialKeys
  <2> QED BY <2>2, <2>3
<1>6. LeavesOthers(h, q)
  <2>1. SUFFICES ASSUME NEW k \in Handlers \ {h}, NEW v, Unclaimed(k, v)
                 PROVE  /\ v \notin leaving /\ (NamedIn(doc', v) => NamedIn(doc, v))
                        /\ User(v) \in DOMAIN doc' => User(v) \in DOMAIN doc
                        /\ \A i \in DOMAIN q : ~Names(q[i], v)
    BY <1>0 DEF LeavesOthers
  <2>2. v \notin leaving /\ \A j \in DOMAIN l : ~Names(l[j], v)
    BY <1>4, <2>1
  <2>3. v # u
    BY <1>0, <1>2, <2>2, CredentialKeys DEF Names
  <2>4. ASSUME NamedIn(doc', v) PROVE NamedIn(doc, v)
    <3>1. PICK key \in DOMAIN doc' : \/ key[1] \in {"LOGIN", "RESET"} /\ doc'[key] = v
                                     \/ key[1] = "VERIFY" /\ doc'[key].user = v
      BY <2>4 DEF NamedIn
    <3>2. key # t.key
      BY <1>2, <2>3, <3>1, CredentialKeys
    <3> QED BY <3>1, <3>2 DEF CallMoves, Same, NamedIn
  <2> QED BY <1>1, <1>3, <2>2, <2>4 DEF Same
<1>7. ASSUME NEW i \in DOMAIN q PROVE Tame(q[i], about, doc', minted', leaving') /\ q[i].call = "verification"
  <2>1. q[i].call = "verification" /\ q[i].of = u
    BY <1>1 DEF ClaimsAt
  <2> QED BY <1>0, <2>1 DEF Tame, Reads
<1>8. \A i \in DOMAIN q : \A v : ~Unclaims(q[i], about, v)
  BY <1>7, TameFacts
<1>9. CallsAreTame' /\ Unknown'
  BY <1>0, <1>3, <1>6, <1>7, <1>8, CallsAfter
<1>10. KeysAreKept'
  <2>1. ASSUME NEW v, NEW y \in SignsIn(doc', v)
        PROVE  \/ Login(y) \in DOMAIN doc' /\ doc'[Login(y)] = v
               \/ /\ y \in SignsIn(doc, v) /\ ~Unclaimed(h, v)
                  /\ Held(Login(y)) /\ doc[Login(y)] = v => Login(y) \in DOMAIN doc' /\ doc'[Login(y)] = v
    <3>1. CASE v = u
      BY <1>2, <1>3, <2>1, <3>1
    <3>2. CASE v # u
      BY <1>2, <1>3, <1>4, <2>1, <3>2 DEF Same, Held
    <3> QED BY <3>1, <3>2
  <2> QED BY <1>0, <2>1, KeysAfter
<1>11. DropsOwn' /\ GivesFree'
  <2>1. ASSUME NEW k \in Handlers \ {h}, NEW i \in DOMAIN Todo(k), NEW y, AddressOf(y) \notin crossed
        PROVE  /\ Drops(Todo(k)[i], Login(y)) /\ Login(y) \in DOMAIN doc' => Held(Login(y)) /\ doc'[Login(y)] = doc[Login(y)]
               /\ \A v : y \in SignsIn(doc', v) => y \in SignsIn(doc, v)
    <3>1. ASSUME Drops(Todo(k)[i], Login(y)), y = x PROVE FALSE
      <4>1. Works(k, AddressOf(x)) /\ About(k)[AddressOf(x)] = "delete"
        BY <3>1, KeyTopics
      <4>2. Works(h, AddressOf(x)) /\ About(h)[AddressOf(x)] = "claim"
        BY DEF ForAddress, Alters, Works, Working, Todo, CallMoves
      <4> QED BY <2>1, <3>1, <4>1, <4>2 DEF IInv, Alike
    <3> QED BY <1>3, <3>1 DEF Same, Held
  <2>2. ASSUME NEW i \in DOMAIN q, NEW y PROVE ~Drops(q[i], Login(y)) /\ ~Puts(q[i], Login(y))
    BY <1>7 DEF Drops, Puts
  <2> QED BY <1>0, <2>1, <2>2, AddressesAfter
<1> QED BY <1>5, <1>9, <1>10, <1>11 DEF AccountInv

(* The key is taken: what is ahead is to take the account back. *)
LEMMA LosesCall ==
  ASSUME AccountInv, NEW h \in Handlers, IsList(Todo(h)), NEW u \in 1..minted, NEW x,
         ForAddress(About(h), u, x), ClaimsAt(Todo(h), 1, u, x, doc), Unclaimed(h, u),
         GoesTo(h, About(h), <<Delete(Todo(h)[1].else)>>),
         doc' = doc, minted' = minted, leaving' = leaving, crossed' = crossed
  PROVE  AccountInv'
<1> DEFINE about == About(h)
           q == <<Delete(User(u))>>
<1>0. /\ minted \in Nat /\ leaving \subseteq 1..minted /\ Grows
      /\ DOMAIN q = {1} /\ q[1] = Delete(User(u)) /\ Drops(q[1], User(u)) /\ q[1].call = "delete" /\ q[1].key = User(u)
      /\ GoesTo(h, about, q)
  BY ShortLists DEF AccountInv, StoredCredentials, Grows, ClaimsAt, ClaimsKey, Delete, Drops
<1> HIDE DEF q
<1>1. /\ u \notin leaving /\ ~NamedIn(doc, u) /\ OnlyOf(h, u)
      /\ \A v : Unclaimed(h, v) => v = u
      /\ \A k \in Handlers \ {h} : \A v : Unclaimed(k, v) =>
           v \notin leaving /\ \A i \in DOMAIN Todo(h) : ~Names(Todo(h)[i], v)
  BY OnlySignUp DEF SigningUp
<1>2. StoredCredentials'
  BY DEF AccountInv, StoredCredentials
<1>3. LeavesOthers(h, q)
  <2>1. SUFFICES ASSUME NEW k \in Handlers \ {h}, NEW v, Unclaimed(k, v)
                 PROVE  v \notin leaving /\ ~Names(q[1], v)
    BY <1>0 DEF LeavesOthers
  <2>2. v \notin leaving /\ \A j \in DOMAIN Todo(h) : ~Names(Todo(h)[j], v)
    BY <1>1, <2>1
  <2>3. 1 \in DOMAIN Todo(h)
    <3>1. PICK i \in DOMAIN Todo(h) : TRUE
      BY DEF Unclaimed
    <3> QED BY <3>1, ListFacts
  <2>4. v # u
    BY <2>2, <2>3, CredentialKeys DEF Names, ClaimsAt, ClaimsKey
  <2> QED BY <1>0, <2>2, <2>4, CredentialKeys DEF Names
<1>4. TakesBackAt(q, 1, u, x, doc')
  BY <1>0 DEF TakesBackAt, ClaimsAt
<1>5. \A i \in DOMAIN q : SignsUpAt(q, i, about, doc', minted')
  BY <1>0, <1>4 DEF SignsUpAt
<1>6. \A v : (\E i \in DOMAIN q : Unclaims(q[i], about, v)) => v = u
  BY <1>0, CredentialKeys DEF Unclaims, Drops
<1>7. CallsAreTame' /\ Unknown'
  <2>1. \A v : (\E i \in DOMAIN q : Unclaims(q[i], about, v)) => v \notin leaving' /\ ~NamedIn(doc', v) /\ OnlyOf(h, v)
    BY <1>1, <1>6
  <2> QED BY <1>0, <1>3, <1>5, <2>1, CallsAfter
<1>8. KeysAreKept'
  <2>1. Unclaims(q[1], about, u)
    BY <1>0 DEF Unclaims, ForAddress
  <2>2. ASSUME NEW v, NEW y \in SignsIn(doc', v), \A i \in DOMAIN q : ~Unclaims(q[i], about, v)
        PROVE  /\ y \in SignsIn(doc, v) /\ ~Unclaimed(h, v)
               /\ Held(Login(y)) /\ doc[Login(y)] = v => Login(y) \in DOMAIN doc' /\ doc'[Login(y)] = v
    BY <1>0, <1>1, <2>1, <2>2 DEF Held
  <2> QED BY <1>0, <2>2, KeysAfter
<1>9. DropsOwn' /\ GivesFree'
  <2>1. ASSUME NEW i \in DOMAIN q, NEW y PROVE ~Drops(q[i], Login(y)) /\ ~Puts(q[i], Login(y))
    BY <1>0, CredentialKeys DEF Drops, Puts
  <2> QED BY <1>0, <2>1, AddressesAfter DEF Held
<1> QED BY <1>2, <1>7, <1>8, <1>9 DEF AccountInv

(* The account is taken back. *)
LEMMA TakesBackCall ==
  ASSUME AccountInv, NEW h \in Handlers, CallMoves(h), NEW u \in 1..minted, NEW x,
         ForAddress(About(h), u, x), TakesBackAt(Todo(h), 1, u, x, doc), Unclaimed(h, u)
  PROVE  AccountInv'
<1> DEFINE l == Todo(h)
           t == l[1]
           about == About(h)
           q == Tail(l)
<1>0. /\ IsList(l) /\ minted \in Nat /\ minted' = minted /\ leaving' = leaving /\ crossed' = crossed
      /\ Grows /\ GoesTo(h, about, q) /\ leaving \subseteq 1..minted
  BY TailOf DEF CallMoves, AccountInv, StoredCredentials, Grows
<1>1. 1 \in DOMAIN l /\ \A i : i \notin DOMAIN q
  <2>1. DOMAIN l = {1} /\ l # <<>>
    BY DEF TakesBackAt, CallMoves
  <2>2. ASSUME NEW i \in DOMAIN q PROVE FALSE
    <3>1. i \in Nat /\ i > 0 /\ i + 1 \in DOMAIN l
      BY <1>0, <2>1, <2>2, TailOf
    <3> QED BY <2>1, <3>1
  <2> QED BY <2>1, <2>2
<1> HIDE DEF q
<1>2. t.key = User(u) /\ t.call = "delete" /\ User(u) \notin DOMAIN doc' /\ SignsIn(doc', u) = {}
  BY DEF TakesBackAt, Drops, CallMoves, SignsIn
<1>3. (\A v : v # u => Same(User(v)) /\ SignsIn(doc', v) = SignsIn(doc, v)) /\ (\A y : Same(Login(y)))
      /\ \A key \in DOMAIN doc' : key \in DOMAIN doc /\ doc'[key] = doc[key]
  BY <1>2, CredentialKeys DEF CallMoves, Same, SignsIn
<1>4. /\ u \notin leaving /\ ~NamedIn(doc, u) /\ OnlyOf(h, u)
      /\ \A v : Unclaimed(h, v) => v = u
      /\ \A k \in Handlers \ {h} : \A v : Unclaimed(k, v) =>
           v \notin leaving /\ \A i \in DOMAIN l : ~Names(l[i], v)
  BY <1>0, OnlySignUp DEF SigningUp
<1>5. StoredCredentials'
  BY <1>0, <1>3 DEF AccountInv, StoredCredentials
<1>6. LeavesOthers(h, q)
  <2>1. \A v : NamedIn(doc', v) => NamedIn(doc, v)
    BY <1>3 DEF NamedIn
  <2> QED BY <1>0, <1>1, <1>3, <1>4, <2>1 DEF LeavesOthers
<1>7. CallsAreTame' /\ Unknown'
  <2>1. \A v : v \notin leaving' /\ SignsIn(doc', v) # SignsIn(doc, v) => OnlyOf(h, v)
    BY <1>3, <1>4
  <2> QED BY <1>0, <1>1, <1>6, <2>1, CallsAfter
<1>8. KeysAreKept'
  <2>1. ASSUME NEW v, NEW y \in SignsIn(doc', v)
        PROVE  /\ y \in SignsIn(doc, v) /\ ~Unclaimed(h, v)
               /\ Held(Login(y)) /\ doc[Login(y)] = v => Login(y) \in DOMAIN doc' /\ doc'[Login(y)] = v
    <3>1. v # u
      BY <1>2, <2>1
    <3> QED BY <1>3, <1>4, <2>1, <3>1 DEF Same, Held
  <2> QED BY <1>0, <2>1, KeysAfter
<1>9. DropsOwn' /\ GivesFree'
  <2>1. ASSUME NEW y
        PROVE  /\ Login(y) \in DOMAIN doc' => Held(Login(y)) /\ doc'[Login(y)] = doc[Login(y)]
               /\ \A v : y \in SignsIn(doc', v) => y \in SignsIn(doc, v)
    BY <1>2, <1>3 DEF Same, Held
  <2> QED BY <1>0, <1>1, <2>1, AddressesAfter
<1> QED BY <1>5, <1>7, <1>8, <1>9 DEF AccountInv

(* A request that dies leaves what it has written, and crosses what it was about. *)
LEMMA DiesCall ==
  ASSUME AccountInv, NEW h \in Handlers, IsList(Todo(h)), GoesTo(h, About(h), <<>>),
         doc' = doc, minted' = minted, leaving' = leaving, crossed' = crossed \cup DOMAIN About(h)
  PROVE  AccountInv'
<1> DEFINE about == About(h)
           q == <<>>
<1>0. /\ minted \in Nat /\ leaving \subseteq 1..minted /\ Grows /\ GoesTo(h, about, q) /\ \A i : i \notin DOMAIN q
  BY ShortLists DEF AccountInv, StoredCredentials, Grows
<1> HIDE DEF q
<1>1. StoredCredentials'
  BY DEF AccountInv, StoredCredentials
<1>2. LeavesOthers(h, q)
  BY <1>0 DEF LeavesOthers, AccountInv, Unknown
<1>3. CallsAreTame' /\ Unknown'
  BY <1>0, <1>2, CallsAfter
<1>4. ASSUME NEW u, NEW y \in SignsIn(doc, u), AddressOf(y) \notin crossed' PROVE ~Unclaimed(h, u)
  <2>1. SUFFICES ASSUME Unclaimed(h, u) PROVE FALSE
    OBVIOUS
  <2>2. PICK v \in 1..minted : \E x : ForAddress(about, v, x) /\ SigningUp(Todo(h), v, x, doc) /\ Unclaimed(h, v)
    BY <2>1, TameOrSigningUp
  <2>3. PICK x : ForAddress(about, v, x) /\ SigningUp(Todo(h), v, x, doc) /\ Unclaimed(h, v)
    BY <2>2
  <2>4. u = v
    BY <2>1, <2>3, OnlySignUp
  <2>5. SignsIn(doc, v) \subseteq {x}
    BY <2>3 DEF SigningUp, Makes1, MakesAt, ClaimsAt, TakesBackAt, SignsIn
  <2>6. AddressOf(x) \in crossed'
    BY <2>3 DEF ForAddress, Alters
  <2> QED BY <1>4, <2>4, <2>5, <2>6
<1>5. KeysAreKept'
  <2>1. ASSUME NEW u, NEW y \in SignsIn(doc', u), AddressOf(y) \notin crossed'
        PROVE  /\ y \in SignsIn(doc, u) /\ ~Unclaimed(h, u)
               /\ Held(Login(y)) /\ doc[Login(y)] = u => Login(y) \in DOMAIN doc' /\ doc'[Login(y)] = u
    BY <1>4, <2>1 DEF Held
  <2> QED BY <1>0, <2>1, KeysAfter
<1>6. DropsOwn' /\ GivesFree'
  BY <1>0, AddressesAfter DEF Held
<1> QED BY <1>1, <1>3, <1>5, <1>6 DEF AccountInv

LEMMA StorageCallIsTame ==
  ASSUME IInv, AccountInv, NEW h \in Handlers, StorageCall(h), UNCHANGED accountVars
  PROVE  AccountInv'
<1> DEFINE t == Todo(h)[1]
<1>1. /\ Todo(h) # <<>> /\ IsList(Todo(h)) /\ Task(h) = t /\ Next1(h) = Tail(Todo(h)) /\ TypeInv
      /\ leaving' = leaving /\ minted \in Nat
  <2>1. Working(h)
    BY DEF StorageCall, WriteDoc, LosesKey, DeleteDoc, Dies
  <2> QED BY <2>1, AtWork DEF IInv, accountVars, AccountInv, StoredCredentials
<1>2. CASE WriteDoc(h) \/ DeleteDoc(h)
  <2>1. CallMoves(h)
    <3>1. Continues(h, Tail(Todo(h))) /\ minted' = minted
      BY <1>1, <1>2 DEF WriteDoc, DeleteDoc, Mints
    <3>2. GoesTo(h, About(h), Tail(Todo(h))) /\ crossed' = crossed
      <4> DEFINE q == Tail(Todo(h))
      <4>1. Continues(h, q) /\ TypeInv
        BY <1>1, <3>1
      <4> HIDE DEF q
      <4>2. GoesTo(h, About(h), q) /\ crossed' = crossed
        BY <4>1, AfterContinues DEF GoesTo
      <4> QED BY <4>2 DEF q
    <3>3. CASE WriteDoc(h)
      <4>1. doc' = With(t.key, t.value) /\ t.call \in {"put", "new"} /\ (t.call = "new" => ~Held(t.key))
        BY <1>1, <3>3 DEF WriteDoc
      <4>2. t.key \in DOMAIN doc' /\ doc'[t.key] = t.value /\ \A key : key # t.key => Same(key)
        BY <4>1 DEF With, Same
      <4> QED BY <1>1, <3>1, <3>2, <4>1, <4>2 DEF CallMoves
    <3>4. CASE DeleteDoc(h)
      <4>1. doc' = Without(t.key) /\ t.call = "delete"
        BY <1>1, <3>4 DEF DeleteDoc
      <4>2. t.key \notin DOMAIN doc' /\ \A key : key # t.key => Same(key)
        BY <4>1 DEF Without, Same
      <4> QED BY <1>1, <3>1, <3>2, <4>1, <4>2 DEF CallMoves
    <3> QED BY <1>2, <3>3, <3>4
  <2>2. CASE /\ \A i \in DOMAIN Todo(h) : Tame(Todo(h)[i], About(h), doc, minted, leaving)
             /\ \A u : ~Unclaimed(h, u)
    BY <2>1, <2>2, TameCall
  <2>3. ASSUME NEW u \in 1..minted, NEW x,
               ForAddress(About(h), u, x), SigningUp(Todo(h), u, x, doc), Unclaimed(h, u)
        PROVE  AccountInv'
    BY <2>1, <2>3, MakesCall, ClaimsCall, TakesBackCall DEF SigningUp
  <2> QED BY <2>2, <2>3, TameOrSigningUp
<1>3. CASE LosesKey(h)
  <2>1. /\ t.call = "new" /\ Continues(h, <<Delete(t.else)>>) /\ minted' = minted /\ doc' = doc
    BY <1>1, <1>3 DEF LosesKey, Mints
  <2>2. GoesTo(h, About(h), <<Delete(t.else)>>) /\ crossed' = crossed
    <3>1. <<Delete(t.else)>> # <<>>
      OBVIOUS
    <3> QED BY <1>1, <2>1, AfterContinues DEF GoesTo
  <2>3. 1 \in DOMAIN Todo(h)
    BY <1>1, ListFacts
  <2>4. ~Tame(t, About(h), doc, minted, leaving)
    BY <2>1, TameFacts
  <2>5. PICK u \in 1..minted : \E x :
          ForAddress(About(h), u, x) /\ SigningUp(Todo(h), u, x, doc) /\ Unclaimed(h, u)
    BY <2>3, <2>4, TameOrSigningUp
  <2>6. PICK x : ForAddress(About(h), u, x) /\ SigningUp(Todo(h), u, x, doc) /\ Unclaimed(h, u)
    BY <2>5
  <2>7. ClaimsAt(Todo(h), 1, u, x, doc)
    BY <2>1, <2>6 DEF SigningUp, Makes1, MakesAt, TakesBackAt, Puts, Drops
  <2> QED BY <1>1, <2>1, <2>2, <2>6, <2>7, LosesCall
<1>4. CASE Dies(h)
  <2>1. GoesTo(h, About(h), <<>>) /\ doc' = doc /\ minted' = minted /\ crossed' = crossed \cup DOMAIN About(h)
    BY <1>1, <1>4 DEF Dies, TypeInv, GoesTo, About, Todo, Idle
  <2> QED BY <1>1, <2>1, DiesCall
<1> QED BY <1>2, <1>3, <1>4 DEF StorageCall

-----------------------------------------------------------------------------
(* The requests: most have to do with one account, and with no address. *)

Mild(t, u, D, n) ==
    \/ Unrelated(t) \/ DropsLink(t)
    \/ /\ u \in 1..n
       /\ \/ Puts(t, User(u)) /\ IsAccount(t.value) /\ Signs(t.value) = SignsIn(D, u)
          \/ t.call = "put" /\ t.key[1] = "RESET" /\ t.value = u
          \/ t.call = "put" /\ t.key[1] = "VERIFY" /\ t.value.user = u
          \/ t.call = "password" /\ t.of.user = u
          \/ t.call = "verification" /\ t.of = u
MildList(s, u, D, n) == IsList(s) /\ \A i \in DOMAIN s : Mild(s[i], u, D, n)

(* No request at work is signing it up, its key not claimed. *)
Known(u) == \A k \in Handlers : ~Unclaimed(k, u)

LEMMA MildFacts ==
  ASSUME NEW t, NEW u, NEW D, NEW n, Mild(t, u, D, n)
  PROVE  /\ \A about, L : Tame(t, about, D, n, L)
         /\ \A v : Names(t, v) => v = u
         /\ \A x : ~Puts(t, Login(x)) /\ ~Drops(t, Login(x))
<1>1. CASE Unrelated(t)
  BY <1>1, CredentialKeys DEF Tame, Names, Puts, Drops, Unrelated, Credentials
<1>2. CASE DropsLink(t)
  BY <1>2, CredentialKeys DEF Tame, Names, Puts, Drops, DropsLink
<1>3. CASE u \in 1..n /\ Puts(t, User(u)) /\ IsAccount(t.value) /\ Signs(t.value) = SignsIn(D, u)
  BY <1>3, CredentialKeys DEF Tame, SavesAccount, Names, Puts, Drops
<1>4. CASE u \in 1..n /\ t.call = "put" /\ t.key[1] = "RESET" /\ t.value = u
  BY <1>4, CredentialKeys DEF Tame, SavesLink, Names, Puts, Drops
<1>5. CASE u \in 1..n /\ t.call = "put" /\ t.key[1] = "VERIFY" /\ t.value.user = u
  BY <1>5, CredentialKeys DEF Tame, SavesLink, Names, Puts, Drops
<1>6. CASE u \in 1..n /\ t.call = "password" /\ t.of.user = u
  BY <1>6 DEF Tame, Reads, Names, Puts, Drops
<1>7. CASE u \in 1..n /\ t.call = "verification" /\ t.of = u
  BY <1>7 DEF Tame, Reads, Names, Puts, Drops
<1> QED BY <1>1, <1>2, <1>3, <1>4, <1>5, <1>6, <1>7 DEF Mild

LEMMA MildShort ==
  ASSUME NEW u, NEW D, NEW n
  PROVE  /\ MildList(<<>>, u, D, n)
         /\ \A a : Mild(a, u, D, n) => MildList(<<a>>, u, D, n)
         /\ \A a, b : Mild(a, u, D, n) /\ Mild(b, u, D, n) => MildList(<<a, b>>, u, D, n)
<1>1. MildList(<<>>, u, D, n)
  BY ShortLists DEF MildList
<1>2. ASSUME NEW a, Mild(a, u, D, n) PROVE MildList(<<a>>, u, D, n)
  <2> DEFINE s == <<a>>
  <2>1. IsList(s) /\ DOMAIN s = {1} /\ s[1] = a
    BY ShortLists
  <2> HIDE DEF s
  <2>2. MildList(s, u, D, n)
    BY <1>2, <2>1 DEF MildList
  <2> QED BY <2>2 DEF s
<1>3. ASSUME NEW a, NEW b, Mild(a, u, D, n), Mild(b, u, D, n) PROVE MildList(<<a, b>>, u, D, n)
  <2> DEFINE s == <<a, b>>
  <2>1. IsList(s) /\ DOMAIN s = {1, 2} /\ s[1] = a /\ s[2] = b
    BY ShortLists
  <2> HIDE DEF s
  <2>2. MildList(s, u, D, n)
    BY <1>3, <2>1 DEF MildList
  <2> QED BY <2>2 DEF s
<1> QED BY <1>1, <1>2, <1>3

LEMMA MildJoin ==
  ASSUME NEW p, NEW q, NEW u, NEW D, NEW n, MildList(p, u, D, n), MildList(q, u, D, n)
  PROVE  MildList(p \o q, u, D, n)
<1>1. IsList(p) /\ IsList(q)
  BY DEF MildList
<1>2. ASSUME NEW i \in DOMAIN (p \o q) PROVE Mild((p \o q)[i], u, D, n)
  <2>1. (\E j \in DOMAIN p : (p \o q)[i] = p[j]) \/ (\E j \in DOMAIN q : (p \o q)[i] = q[j])
    BY <1>1, ElementsOfJoin
  <2> QED BY <2>1 DEF MildList
<1> QED BY <1>1, <1>2, JoinFacts DEF MildList

LEMMA MildFunction ==
  ASSUME NEW n \in Nat, NEW f, f = [i \in 1..n |-> f[i]], NEW u, NEW D, NEW m, \A i \in 1..n : Mild(f[i], u, D, m)
  PROVE  MildList(f, u, D, m)
BY FunctionIsList DEF MildList

LEMMA MildSetList ==
  ASSUME NEW S, IsFiniteSet(S), NEW f, f = [x \in S |-> f[x]], NEW u, NEW D, NEW n, \A x \in S : Mild(f[x], u, D, n)
  PROVE  MildList(SetToSeq({f[x] : x \in S}), u, D, n)
<1> DEFINE T == {f[x] : x \in S}
<1>1. IsFiniteSet(T) /\ \A t \in T : Mild(t, u, D, n)
  BY FiniteImage
<1> HIDE DEF T
<1>2. MildList(SetToSeq(T), u, D, n)
  BY <1>1, SetToSeqFacts DEF MildList
<1> QED BY <1>2 DEF T

(* Calls on documents that are no credentials. *)
LEMMA MildCalls ==
  ASSUME NEW u, NEW D, NEW n
  PROVE  /\ \A key, value : key[1] \notin Credentials => Mild(Put(key, value), u, D, n) /\ Mild(Delete(key), u, D, n)
         /\ \A key : key[1] \in {"RESET", "VERIFY"} => Mild(Delete(key), u, D, n)
         /\ \A of : /\ Mild(Later("memberships", of), u, D, n) /\ Mild(Later("acks", of), u, D, n)
                    /\ Mild(Later("answer", of), u, D, n) /\ Mild(Later("index", of), u, D, n)
                    /\ Mild(Later("since", of), u, D, n) /\ Mild(Later("fetch", of), u, D, n)
BY DEF Mild, Unrelated, DropsLink, Put, Delete, Later

LEMMA OtherKeys ==
  /\ \A x : /\ Lock(x)[1] \notin Credentials /\ Policy(x)[1] \notin Credentials /\ Signal(x)[1] \notin Credentials
            /\ Training(x)[1] \notin Credentials /\ Invite(x)[1] \notin Credentials
            /\ Member(x)[1] \notin Credentials /\ MemberOf(x)[1] \notin Credentials
  /\ \A x : /\ Event(x)[1] \notin Credentials /\ Cursor(x)[1] \notin Credentials /\ Sync(x)[1] \notin Credentials
            /\ Recent(x)[1] \notin Credentials /\ Node(x)[1] \notin Credentials /\ Edge(x)[1] \notin Credentials
            /\ Signalled(x)[1] \notin Credentials /\ Incident(x)[1] \notin Credentials /\ Audited(x)[1] \notin Credentials
  /\ \A p, u : Ack(p, u)[1] \notin Credentials
  /\ Marker[1] \notin Credentials /\ Org[1] \notin Credentials /\ Player[1] \notin Credentials
<1> USE DEF Credentials
<1>1. \A x : /\ Lock(x)[1] \notin Credentials /\ Policy(x)[1] \notin Credentials /\ Signal(x)[1] \notin Credentials
             /\ Training(x)[1] \notin Credentials /\ Invite(x)[1] \notin Credentials
             /\ Member(x)[1] \notin Credentials /\ MemberOf(x)[1] \notin Credentials
  BY DEF Lock, Policy, Signal, Training, Invite, Member, MemberOf
<1>2. \A x : /\ Event(x)[1] \notin Credentials /\ Cursor(x)[1] \notin Credentials /\ Sync(x)[1] \notin Credentials
             /\ Recent(x)[1] \notin Credentials /\ Node(x)[1] \notin Credentials /\ Edge(x)[1] \notin Credentials
             /\ Signalled(x)[1] \notin Credentials /\ Incident(x)[1] \notin Credentials /\ Audited(x)[1] \notin Credentials
  BY DEF Event, Cursor, Sync, Recent, Node, Edge, Signalled, Incident, Audited
<1>3. (\A p, u : Ack(p, u)[1] \notin Credentials) /\ Marker[1] \notin Credentials /\ Org[1] \notin Credentials /\ Player[1] \notin Credentials
  BY DEF Ack, Marker, Org, Player
<1> QED BY <1>1, <1>2, <1>3

(* Who is known: nobody not yet given an id, everybody whose id a link or a key names, everybody signed in. *)
LEMMA WhoIsKnown ==
  ASSUME IInv, AccountInv
  PROVE  /\ \A k \in Handlers : \A u : Unclaimed(k, u) =>
              /\ u \in 1..minted
              /\ \E x : ForAddress(About(k), u, x) /\ SigningUp(Todo(k), u, x, doc) /\ SignsIn(doc, u) \subseteq {x}
         /\ Known(0) /\ \A u : u \notin 1..minted => Known(u)
         /\ \A u : NamedIn(doc, u) \/ SignedIn(u) => Known(u)
<1>1. ASSUME NEW k \in Handlers, NEW u, Unclaimed(k, u)
      PROVE  /\ u \in 1..minted
             /\ \E x : ForAddress(About(k), u, x) /\ SigningUp(Todo(k), u, x, doc) /\ SignsIn(doc, u) \subseteq {x}
  <2>1. PICK v \in 1..minted : \E x : ForAddress(About(k), v, x) /\ SigningUp(Todo(k), v, x, doc) /\ Unclaimed(k, v)
    BY <1>1, TameOrSigningUp
  <2>2. PICK x : ForAddress(About(k), v, x) /\ SigningUp(Todo(k), v, x, doc) /\ Unclaimed(k, v)
    BY <2>1
  <2>3. \E j \in DOMAIN Todo(k) : Unclaims(Todo(k)[j], About(k), u)
    BY <1>1 DEF Unclaimed
  <2>4. u = v
    <3>1. IsList(Todo(k))
      BY DEF IInv, Shapes, Fits, Ahead, Alone
    <3>2. PICK j \in DOMAIN Todo(k) : Unclaims(Todo(k)[j], About(k), u)
      BY <2>3
    <3> QED BY <2>2, <3>1, <3>2, StageFacts
  <2>5. SignsIn(doc, v) \subseteq {x}
    BY <2>2 DEF SigningUp, Makes1, MakesAt, ClaimsAt, TakesBackAt, SignsIn
  <2> QED BY <2>2, <2>4, <2>5
<1>2. Known(0) /\ \A u : u \notin 1..minted => Known(u)
  <2>1. 0 \notin 1..minted
    BY DEF AccountInv, StoredCredentials
  <2> QED BY <1>1, <2>1 DEF Known
<1>3. ASSUME NEW u, NamedIn(doc, u) PROVE Known(u)
  BY <1>3 DEF Known, AccountInv, Unknown
<1>4. ASSUME NEW u, SignedIn(u) PROVE Known(u)
  <2>1. SUFFICES ASSUME NEW k \in Handlers, Unclaimed(k, u) PROVE FALSE
    BY DEF Known
  <2>2. PICK x : ForAddress(About(k), u, x)
    BY <1>1, <2>1
  <2>3. Working(k)
    BY <2>1, ShortLists DEF Unclaimed, Working, Todo
  <2> QED BY <1>4, <2>2, <2>3 DEF ForAddress, Alters, AccountOf, SignedIn, Makes, About
<1> QED BY <1>1, <1>2, <1>3, <1>4

(* A request of this kind begins. *)
LEMMA StartsMildly ==
  ASSUME IInv, AccountInv, NEW h \in Handlers, NEW op, NEW about, NEW s, Starts(h, op, about, s),
         leaving' = leaving, minted' \in Nat, minted <= minted',
         NEW u, MildList(s, u, doc, minted'), Known(u)
  PROVE  AccountInv'
<1>1. /\ Todo(h) = <<>> /\ doc' = doc /\ crossed' = crossed \cup Meets(about) /\ GoesTo(h, about, s)
  BY AfterStarts DEF IInv, GoesTo
<1>2. Grows /\ leaving' \subseteq 1..minted'
  <2>1. minted \in Nat /\ leaving \subseteq 1..minted
    BY DEF AccountInv, StoredCredentials
  <2> QED BY <1>1, <2>1 DEF Grows
<1>3. \A v : ~Unclaimed(h, v)
  BY <1>1, ShortLists DEF Unclaimed
<1>4. \A i \in DOMAIN s : Mild(s[i], u, doc, minted')
  BY DEF MildList
<1>5. \A i \in DOMAIN s : /\ Tame(s[i], about, doc, minted', leaving') /\ \A v : Names(s[i], v) => v = u
                          /\ \A x : ~Puts(s[i], Login(x)) /\ ~Drops(s[i], Login(x))
  BY <1>4, MildFacts
<1>6. \A k \in Handlers : \A v : Unclaimed(k, v) => v \notin leaving' /\ \A i \in DOMAIN s : ~Names(s[i], v)
  BY <1>5 DEF Known, AccountInv, Unknown
<1> QED BY <1>1, <1>2, <1>3, <1>5, <1>6, TameMove

(* A request that reads on is not signing anybody up. *)
LEMMA ReadersAreTame ==
  ASSUME IInv, AccountInv, NEW h \in Handlers, Working(h),
         \/ Task(h).call \notin {"put", "new", "delete"}
         \/ Task(h).call = "put" /\ Task(h).key[1] = "SYNC"
  PROVE  /\ \A i \in DOMAIN Todo(h) : Tame(Todo(h)[i], About(h), doc, minted, leaving)
         /\ Known(0) /\ \A u : ~Unclaimed(h, u)
<1>1. Task(h) = Todo(h)[1]
  BY AtWork DEF IInv
<1>2. ASSUME NEW u, NEW x, SigningUp(Todo(h), u, x, doc) PROVE FALSE
  BY <1>1, <1>2, CredentialKeys DEF SigningUp, Makes1, MakesAt, ClaimsAt, ClaimsKey, TakesBackAt, Puts, Drops
<1> QED BY <1>2, TameOrSigningUp, WhoIsKnown

(* It goes on, with the calls l, of this kind or ahead of it before. *)
LEMMA ContinuesMildly ==
  ASSUME IInv, AccountInv, NEW h \in Handlers, Working(h), NEW l, Continues(h, l),
         \/ Task(h).call \notin {"put", "new", "delete"}
         \/ Task(h).call = "put" /\ Task(h).key[1] = "SYNC",
         doc' = doc, leaving' = leaving, minted' \in Nat, minted <= minted',
         NEW u, Known(u),
         \A i \in DOMAIN l : Mild(l[i], u, doc, minted') \/ \E j \in DOMAIN Todo(h) : l[i] = Todo(h)[j]
  PROVE  AccountInv'
<1> DEFINE about == About(h)
<1>1. GoesTo(h, about, l) /\ crossed' = crossed
  BY AfterContinues DEF IInv, GoesTo
<1>2. Grows /\ leaving' \subseteq 1..minted' /\ minted \in Nat
  <2>1. minted \in Nat /\ leaving \subseteq 1..minted
    BY DEF AccountInv, StoredCredentials
  <2> QED BY <1>1, <2>1 DEF Grows
<1>3. (\A i \in DOMAIN Todo(h) : Tame(Todo(h)[i], about, doc, minted, leaving)) /\ \A v : ~Unclaimed(h, v)
  BY ReadersAreTame
<1>4. ASSUME NEW i \in DOMAIN l, Mild(l[i], u, doc, minted')
      PROVE  /\ Tame(l[i], about, doc, minted', leaving') /\ \A v : Names(l[i], v) => v = u
             /\ \A x : ~Puts(l[i], Login(x)) /\ ~Drops(l[i], Login(x))
  BY <1>4, MildFacts
<1>5. ASSUME NEW i \in DOMAIN l, NEW j \in DOMAIN Todo(h), l[i] = Todo(h)[j]
      PROVE  /\ Tame(l[i], about, doc, minted', leaving')
             /\ \A k \in Handlers : \A v : Unclaimed(k, v) => ~Names(l[i], v)
             /\ \A x : AddressOf(x) \notin crossed' =>
                  /\ Drops(l[i], Login(x)) /\ Login(x) \in DOMAIN doc => doc[Login(x)] \in leaving'
                  /\ Puts(l[i], Login(x)) => \A v : x \in SignsIn(doc, v) => v \in leaving'
  <2>1. Tame(l[i], about, doc, minted', leaving')
    <3> DEFINE t == l[i]
    <3>1. Tame(t, about, doc, minted, leaving)
      BY <1>3, <1>5
    <3> HIDE DEF t
    <3>2. Tame(t, about, doc, minted', leaving')
      BY <1>2, <3>1, TameStays DEF Grows
    <3> QED BY <3>2 DEF t
  <2>2. \A k \in Handlers : \A v : Unclaimed(k, v) => ~Names(l[i], v)
    BY <1>3, <1>5 DEF AccountInv, Unknown
  <2>3. \A x : AddressOf(x) \notin crossed =>
          /\ Drops(l[i], Login(x)) /\ Login(x) \in DOMAIN doc => doc[Login(x)] \in leaving
          /\ Puts(l[i], Login(x)) => \A v : x \in SignsIn(doc, v) => v \in leaving
    BY <1>5 DEF AccountInv, DropsOwn, GivesFree, Held
  <2> QED BY <1>1, <2>1, <2>2, <2>3
<1>6. \A k \in Handlers : \A v : Unclaimed(k, v) => v \notin leaving'
  BY DEF AccountInv, Unknown
<1>7. \A k \in Handlers : \A v : Unclaimed(k, v) => \A i \in DOMAIN l : ~Names(l[i], v)
  BY <1>4, <1>5 DEF Known
<1> QED BY <1>1, <1>2, <1>3, <1>4, <1>5, <1>6, <1>7, TameMove

LEMMA ReadsOnMildly ==
  ASSUME IInv, AccountInv, NEW h \in Handlers, Working(h), Task(h).call \notin {"put", "new", "delete"},
         NEW p, Continues(h, p \o Next1(h)), doc' = doc, leaving' = leaving, minted' \in Nat, minted <= minted',
         NEW u, Known(u), MildList(p, u, doc, minted')
  PROVE  AccountInv'
<1> DEFINE q == Tail(Todo(h))
           l == p \o q
<1>1. Todo(h) # <<>> /\ IsList(Todo(h)) /\ Next1(h) = q
  BY AtWork DEF IInv
<1>2. IsList(p) /\ IsList(q) /\ \A i \in DOMAIN q : \E j \in DOMAIN Todo(h) : q[i] = Todo(h)[j]
  BY <1>1, TailOf DEF MildList
<1>3. Continues(h, l)
  BY <1>1
<1> HIDE DEF q
<1>4. ASSUME NEW i \in DOMAIN l
      PROVE  Mild(l[i], u, doc, minted') \/ \E j \in DOMAIN Todo(h) : l[i] = Todo(h)[j]
  <2>1. (\E j \in DOMAIN p : l[i] = p[j]) \/ (\E j \in DOMAIN q : l[i] = q[j])
    BY <1>2, <1>4, ElementsOfJoin
  <2> QED BY <1>2, <2>1 DEF MildList
<1> HIDE DEF l
<1> QED BY <1>3, <1>4, ContinuesMildly

-----------------------------------------------------------------------------
(* An account document, as read and as saved *)

(* A record with fields replaced has the other fields. *)
LEMMA ReplacedFields ==
  ASSUME NEW v, IsAccount(v), NEW g
  PROVE  /\ IsAccount([v EXCEPT !.password = g, !.version = @ + 1])
         /\ Signs([v EXCEPT !.password = g, !.version = @ + 1]) = Signs(v)
         /\ IsAccount([v EXCEPT !.version = @ + 1]) /\ Signs([v EXCEPT !.version = @ + 1]) = Signs(v)
         /\ IsAccount([v EXCEPT !.verified = g]) /\ Signs([v EXCEPT !.verified = g]) = Signs(v)
<1>1. ASSUME NEW a, IsAccount(a), NEW x
      PROVE  /\ IsAccount([a EXCEPT !.version = x]) /\ Signs([a EXCEPT !.version = x]) = Signs(a)
             /\ IsAccount([a EXCEPT !.verified = x]) /\ Signs([a EXCEPT !.verified = x]) = Signs(a)
             /\ IsAccount([a EXCEPT !.password = x]) /\ Signs([a EXCEPT !.password = x]) = Signs(a)
             /\ [a EXCEPT !.password = x].version = a.version
  BY <1>1 DEF IsAccount, Signs
<1>2. [v EXCEPT !.password = g, !.version = @ + 1] = [[v EXCEPT !.password = g] EXCEPT !.version = v.version + 1]
  BY DEF IsAccount
<1> DEFINE w == [v EXCEPT !.password = g]
<1>3. IsAccount(w) /\ Signs(w) = Signs(v)
  BY <1>1
<1> HIDE DEF w
<1>4. IsAccount([w EXCEPT !.version = v.version + 1]) /\ Signs([w EXCEPT !.version = v.version + 1]) = Signs(w)
  BY <1>1, <1>3
<1>5. /\ IsAccount([v EXCEPT !.password = g, !.version = @ + 1])
      /\ Signs([v EXCEPT !.password = g, !.version = @ + 1]) = Signs(v)
  BY <1>2, <1>3, <1>4 DEF w
<1> QED BY <1>1, <1>5

LEMMA AccountFacts ==
  ASSUME AccountInv, NEW u
  PROVE  /\ IsAccount(Account(u)) /\ Signs(Account(u)) = SignsIn(doc, u)
         /\ \A password :
              LET a == [Account(u) EXCEPT !.password = password, !.version = @ + 1]
              IN IsAccount(a) /\ Signs(a) = SignsIn(doc, u)
         /\ LET a == [Account(u) EXCEPT !.version = @ + 1] IN IsAccount(a) /\ Signs(a) = SignsIn(doc, u)
         /\ LET a == [Account(u) EXCEPT !.verified = TRUE] IN IsAccount(a) /\ Signs(a) = SignsIn(doc, u)
<1> DEFINE v == Account(u)
<1>1. IsAccount(v) /\ Signs(v) = SignsIn(doc, u)
  <2>1. CASE Held(User(u))
    <3>1. v = doc[User(u)]
      BY <2>1 DEF Account
    <3>2. IsAccount(doc[User(u)])
      BY <2>1, CredentialKeys DEF AccountInv, StoredCredentials, Held
    <3> QED BY <2>1, <3>1, <3>2 DEF SignsIn, Held
  <2>2. CASE ~Held(User(u))
    <3>1. v = NoFields
      BY <2>2 DEF Account
    <3>2. IsAccount(NoFields) /\ Signs(NoFields) = {}
      BY DEF NoFields, IsAccount, Signs, None
    <3> QED BY <2>2, <3>1, <3>2 DEF SignsIn, Held
  <2> QED BY <2>1, <2>2
<1> HIDE DEF v
<1> QED BY <1>1, ReplacedFields DEF v

LEMMA NewAccountFacts ==
  ASSUME NEW provider, NEW email, NEW password
  PROVE  LET a == NewAccount(provider, email, password)
         IN IsAccount(a) /\ Signs(a) = IF provider = "email" THEN {email} ELSE {}
BY DEF NewAccount, IsAccount, Signs

LEMMA MildSaves ==
  ASSUME NEW u, NEW n, u \in 1..n
  PROVE  /\ \A value : IsAccount(value) /\ Signs(value) = SignsIn(doc, u) => Mild(Put(User(u), value), u, doc, n)
         /\ \A token : Mild(Put(Reset(token), u), u, doc, n)
         /\ \A token, email : Mild(Put(Verify(token), [user |-> u, email |-> email]), u, doc, n)
         /\ \A password : Mild(Later("password", [user |-> u, password |-> password]), u, doc, n)
         /\ Mild(Later("verification", u), u, doc, n)
<1>1. ASSUME NEW value, IsAccount(value), Signs(value) = SignsIn(doc, u) PROVE Mild(Put(User(u), value), u, doc, n)
  BY <1>1 DEF Mild, Puts, Put
<1>2. ASSUME NEW token PROVE Mild(Put(Reset(token), u), u, doc, n)
  BY CredentialKeys DEF Mild, Put
<1>3. ASSUME NEW token, NEW email PROVE Mild(Put(Verify(token), [user |-> u, email |-> email]), u, doc, n)
  BY CredentialKeys DEF Mild, Put
<1>4. ASSUME NEW password PROVE Mild(Later("password", [user |-> u, password |-> password]), u, doc, n)
  BY DEF Mild, Later
<1>5. Mild(Later("verification", u), u, doc, n)
  BY DEF Mild, Later
<1> QED BY <1>1, <1>2, <1>3, <1>4, <1>5

LEMMA VerificationIsMild ==
  ASSUME AccountInv, NEW u, NEW n, u \in 1..n
  PROVE  MildList(Verification(u), u, doc, n)
<1> DEFINE a == Put(User(u), Account(u))
           b == Put(Verify(minted + 1), [user |-> u, email |-> Account(u).email])
<1>1. Verification(u) = <<a, b>>
  BY DEF Verification
<1>2. Mild(a, u, doc, n) /\ Mild(b, u, doc, n)
  BY AccountFacts, MildSaves
<1> HIDE DEF a, b
<1> QED BY <1>1, <1>2, MildShort

LEMMA SetPasswordIsMild ==
  ASSUME AccountInv, NEW u, NEW n, u \in 1..n, NEW password
  PROVE  MildList(SetPassword(u, password), u, doc, n)
<1> DEFINE v == [Account(u) EXCEPT !.password = password, !.version = @ + 1]
           a == Put(User(u), v)
           b == IF Account(u).email = None THEN <<>> ELSE <<Delete(Lock(Account(u).email))>>
<1>1. SetPassword(u, password) = <<a>> \o b
  BY DEF SetPassword
<1>2. IsAccount(v) /\ Signs(v) = SignsIn(doc, u)
  BY AccountFacts
<1> HIDE DEF v
<1>3. MildList(<<a>>, u, doc, n)
  BY <1>2, MildSaves, MildShort
<1>4. MildList(b, u, doc, n)
  BY MildCalls, OtherKeys, MildShort
<1> HIDE DEF a, b
<1> QED BY <1>1, <1>3, <1>4, MildJoin

-----------------------------------------------------------------------------
(* What a request reads again, and what answers *)

LEMMA ReadAgainIsTame ==
  ASSUME IInv, AccountInv, NEW h \in Handlers, ReadAgain(h)
  PROVE  AccountInv'
<1> DEFINE t == Todo(h)[1]
           p == Decided(t)
<1>1. /\ Working(h) /\ t.call \in {"password", "memberships", "acks", "verification"} /\ Task(h) = t
      /\ Continues(h, p \o Next1(h)) /\ doc' = doc /\ leaving' = leaving
      /\ Task(h).call \notin {"put", "new", "delete"} /\ 1 \in DOMAIN Todo(h)
  BY AtWork DEF ReadAgain, Others, accountVars, IInv
<1>2. minted \in Nat /\ minted' \in Nat /\ minted <= minted' /\ 1..minted \subseteq 1..minted'
  <2>1. minted \in Nat
    BY DEF AccountInv, StoredCredentials
  <2> QED BY <2>1 DEF ReadAgain, Mints
<1>3. Tame(t, About(h), doc, minted, leaving) /\ \A u : ~Unclaimed(h, u)
  BY <1>1, ReadersAreTame
<1>4. \A u : Names(t, u) => Known(u)
  BY <1>1, <1>3 DEF Known, AccountInv, Unknown
<1>5. CASE t.call = "password"
  <2> DEFINE u == t.of.user
  <2>1. p = SetPassword(u, t.of.password)
    BY <1>5 DEF Decided
  <2>2. u \in 1..minted'
    BY <1>2, <1>3, <1>5, TameFacts DEF Reads
  <2>3. MildList(p, u, doc, minted')
    BY <2>1, <2>2, SetPasswordIsMild
  <2>4. Known(u)
    BY <1>4, <1>5 DEF Names
  <2> HIDE DEF p, u
  <2> QED BY <1>1, <1>2, <2>3, <2>4, ReadsOnMildly
<1>6. CASE t.call = "verification"
  <2> DEFINE u == t.of
  <2>1. p = Verification(u)
    BY <1>6 DEF Decided
  <2>2. u \in 1..minted'
    BY <1>2, <1>3, <1>6, TameFacts DEF Reads
  <2>3. MildList(p, u, doc, minted')
    BY <2>1, <2>2, VerificationIsMild
  <2>4. Known(u)
    BY <1>4, <1>6 DEF Names
  <2> HIDE DEF p, u
  <2> QED BY <1>1, <1>2, <2>3, <2>4, ReadsOnMildly
<1>7. CASE t.call = "acks"
  <2> DEFINE keys == {key \in Partition("ACK") : key[2] = t.of}
             f == [key \in keys |-> Delete(key)]
  <2>1. p = SetToSeq({f[key] : key \in keys})
    <3>1. {Delete(key) : key \in keys} = {f[key] : key \in keys}
      OBVIOUS
    <3>2. p = DeleteAll(keys)
      BY <1>7 DEF Decided
    <3> QED BY <3>1, <3>2 DEF DeleteAll
  <2>2. IsFiniteSet(keys)
    BY PartitionIsFinite DEF Partition, IInv
  <2>3. f = [key \in keys |-> f[key]] /\ \A key \in keys : Mild(f[key], 0, doc, minted')
    BY MildCalls DEF Partition, Credentials
  <2> HIDE DEF keys, f
  <2>4. MildList(p, 0, doc, minted')
    BY <2>1, <2>2, <2>3, MildSetList
  <2> HIDE DEF p
  <2> QED BY <1>1, <1>2, <2>4, WhoIsKnown, ReadsOnMildly
<1>8. CASE t.call = "memberships"
  <2>1. p = IF Held(MemberOf(t.of)) THEN <<Delete(Member(t.of)), Delete(MemberOf(t.of))>> ELSE <<>>
    BY <1>8 DEF Decided, Leaves
  <2>2. MildList(p, 0, doc, minted')
    BY <2>1, MildCalls, OtherKeys, MildShort
  <2> HIDE DEF p
  <2> QED BY <1>1, <1>2, <2>2, WhoIsKnown, ReadsOnMildly
<1> QED BY <1>1, <1>5, <1>6, <1>7, <1>8

LEMMA AnswersIsTame ==
  ASSUME IInv, AccountInv, NEW h \in Handlers, AnswersDeletion(h)
  PROVE  AccountInv'
<1>1. /\ Working(h) /\ Task(h).call = "answer" /\ Continues(h, Next1(h))
      /\ doc' = doc /\ leaving' = leaving /\ minted' = minted /\ minted \in Nat
  BY DEF AnswersDeletion, Mints, AccountInv, StoredCredentials
<1>2. Todo(h) # <<>> /\ IsList(Todo(h)) /\ Next1(h) = Tail(Todo(h))
  BY <1>1, AtWork DEF IInv
<1>3. \A i \in DOMAIN Next1(h) : \E j \in DOMAIN Todo(h) : Next1(h)[i] = Todo(h)[j]
  BY <1>2, TailOf
<1> QED BY <1>1, <1>3, WhoIsKnown, ContinuesMildly

-----------------------------------------------------------------------------
(* Signing up *)

LEMMA FreshIsUnknown ==
  ASSUME IInv, AccountInv, NEW u, u \notin 1..minted
  PROVE  /\ Known(u) /\ u \notin leaving /\ ~NamedIn(doc, u) /\ User(u) \notin DOMAIN doc
         /\ \A k \in Handlers : \A j \in DOMAIN Todo(k) : ~Names(Todo(k)[j], u)
<1>1. Known(u)
  BY WhoIsKnown
<1>2. u \notin leaving /\ ~NamedIn(doc, u) /\ User(u) \notin DOMAIN doc
  BY CredentialKeys DEF AccountInv, StoredCredentials, NamedIn
<1>3. ASSUME NEW k \in Handlers, NEW j \in DOMAIN Todo(k), Names(Todo(k)[j], u) PROVE FALSE
  <2>1. IsList(Todo(k))
    BY DEF IInv, Shapes, Fits, Ahead, Alone
  <2>2. CASE Tame(Todo(k)[j], About(k), doc, minted, leaving)
    <3>1. leaving \subseteq 1..minted
      BY DEF AccountInv, StoredCredentials
    <3> QED BY <1>3, <2>2, <3>1, NamesInRange
  <2>3. ASSUME NEW v \in 1..minted, NEW x, SigningUp(Todo(k), v, x, doc) PROVE FALSE
    <3>1. j = 1 \/ j = 2 \/ j > 2
      BY <2>1, ListFacts
    <3>2. CASE Makes1(Todo(k), v, x, doc)
      BY <1>3, <2>3, <3>1, <3>2, CredentialKeys DEF Makes1, MakesAt, ClaimsKey, Names, Puts
    <3>3. CASE ClaimsAt(Todo(k), 1, v, x, doc)
      <4>1. j = 1 \/ j > 1
        BY <2>1, ListFacts
      <4> QED BY <1>3, <2>3, <3>3, <4>1, CredentialKeys DEF ClaimsAt, ClaimsKey, Names
    <3>4. CASE TakesBackAt(Todo(k), 1, v, x, doc)
      BY <1>3, <2>3, <3>4, CredentialKeys DEF TakesBackAt, Names, Drops
    <3> QED BY <2>3, <3>2, <3>3, <3>4 DEF SigningUp
  <2> QED BY <2>2, <2>3, TameOrSigningUp
<1> QED BY <1>1, <1>2, <1>3

LEMMA RegisterIsTame ==
  ASSUME IInv, AccountInv, NEW h \in Handlers, NEW x, NEW password, Register(h, x, password)
  PROVE  AccountInv'
<1> DEFINE u == minted + 1
           about == And(OfAccount(u, "create"), OfLogin(x, "claim"))
           a == Put(User(u), NewAccount("email", x, password))
           b == PutNew(Login(x), u, User(u))
           r == IF MailEnabled THEN <<Later("verification", u)>> ELSE <<>>
           s == <<a>> \o <<b>> \o r
<1>1. Starts(h, "register", about, s) /\ minted' = minted + 1 /\ leaving' = leaving
  BY DEF Register, Claims, Mints, Others, accountVars
<1>2. /\ minted \in Nat /\ u \in 1..minted' /\ minted <= minted' /\ 1..minted \subseteq 1..minted' /\ minted' \in Nat
      /\ leaving \subseteq 1..minted /\ u \notin 1..minted
  BY <1>1 DEF AccountInv, StoredCredentials
<1>3. ForAddress(about, u, x)
  BY CredentialKeys DEF And, OfAccount, OfLogin, Of, ForAddress, Alters, AccountOf, AddressOf
<1>4. /\ IsList(s) /\ 1 \in DOMAIN s /\ 2 \in DOMAIN s /\ s[1] = a /\ s[2] = b
      /\ \A i \in DOMAIN s : i \in Nat /\ i > 0 /\ (i > 2 => s[i].call = "verification" /\ s[i].of = u)
  <2> DEFINE c == Later("verification", u)
             p == <<a>> \o <<b>>
  <2>1. /\ IsList(<<a>>) /\ Len(<<a>>) = 1 /\ IsList(<<b>>) /\ Len(<<b>>) = 1 /\ <<a>>[1] = a /\ <<b>>[1] = b
        /\ IsList(r) /\ Len(r) \in Nat /\ \A i \in DOMAIN r : r[i] = c
    <3>1. CASE r = <<c>>
      BY <3>1, ShortLists
    <3>2. CASE r = <<>>
      BY <3>2, ShortLists
    <3>3. Len(<<a>>) = 1 /\ Len(<<b>>) = 1
      OBVIOUS
    <3> QED BY <3>1, <3>2, <3>3, ShortLists
  <2>2. c.call = "verification" /\ c.of = u
    BY DEF Later
  <2> HIDE DEF a, b, c, r
  <2>3. IsList(p) /\ Len(p) = 2 /\ p[1] = a /\ p[2] = b
    <3>1. /\ IsList(p) /\ DOMAIN p = 1..2 /\ p[1] = <<a>>[1] /\ p[2] = <<b>>[2 - 1]
      BY <2>1, JoinFacts
    <3>2. Len(p) = 2
      BY <3>1, ListFacts
    <3> QED BY <2>1, <3>1, <3>2
  <2> HIDE DEF p
  <2>4. /\ IsList(s) /\ DOMAIN s = 1..2 + Len(r) /\ s[1] = p[1] /\ s[2] = p[2]
        /\ \A i \in 3..2 + Len(r) : s[i] = r[i - 2] /\ i - 2 \in DOMAIN r
    <3>1. s = p \o r
      BY DEF p
    <3> QED BY <2>1, <2>3, <3>1, JoinFacts
  <2> HIDE DEF s
  <2>5. ASSUME NEW i \in DOMAIN s, i > 2 PROVE s[i].call = "verification" /\ s[i].of = u
    BY <2>1, <2>2, <2>4, <2>5
  <2> QED BY <2>1, <2>3, <2>4, <2>5
<1>5. /\ Puts(a, User(u)) /\ IsAccount(a.value) /\ Signs(a.value) = {x}
      /\ ClaimsKey(b, u, x)
  BY NewAccountFacts DEF Puts, Put, PutNew, ClaimsKey
<1> HIDE DEF a, b, s, about
<1>6. /\ Todo(h) = <<>> /\ doc' = doc /\ crossed' = crossed \cup Meets(about) /\ GoesTo(h, about, s)
  BY <1>1, AfterStarts DEF IInv, GoesTo
<1> HIDE DEF u
<1>7. /\ u \notin leaving /\ ~NamedIn(doc, u) /\ User(u) \notin DOMAIN doc /\ OnlyOf(h, u) /\ Known(u)
  BY <1>2, FreshIsUnknown DEF OnlyOf
<1>8. Grows
  BY <1>1, <1>2, <1>6 DEF Grows
<1>9. MakesAt(s, 1, u, x, doc) /\ ClaimsAt(s, 2, u, x, doc)
  BY <1>4, <1>5, <1>7 DEF MakesAt, ClaimsAt
<1>10. ASSUME NEW i \in DOMAIN s
       PROVE  Tame(s[i], about, doc', minted', leaving') \/ SignsUpAt(s, i, about, doc', minted')
  <2>1. i = 1 \/ i = 2 \/ i > 2
    BY <1>4
  <2>2. i > 2 => Tame(s[i], about, doc', minted', leaving')
    BY <1>2, <1>4 DEF Tame, Reads
  <2>3. i = 1 \/ i = 2 => SignsUpAt(s, i, about, doc', minted')
    BY <1>2, <1>3, <1>6, <1>9 DEF SignsUpAt
  <2> QED BY <2>1, <2>2, <2>3
<1>11. \A v : (\E i \in DOMAIN s : Unclaims(s[i], about, v)) => v = u
  <2>1. SigningUp(s, u, x, doc)
    BY <1>4, <1>9 DEF SigningUp, Makes1
  <2> QED BY <1>4, <2>1, StageFacts
<1>12. ASSUME NEW i \in DOMAIN s
       PROVE  /\ \A v : Names(s[i], v) => v = u
              /\ \A y : ~Drops(s[i], Login(y)) /\ ~Puts(s[i], Login(y))
  <2>1. i = 1 \/ i = 2 \/ i > 2
    BY <1>4
  <2>2. CASE i = 1
    BY <1>4, <1>5, <2>2, CredentialKeys DEF Names, Puts, Drops
  <2>3. CASE i = 2
    BY <1>4, <1>5, <2>3, CredentialKeys DEF Names, Puts, Drops, ClaimsKey
  <2>4. CASE i > 2
    BY <1>4, <2>4 DEF Names, Puts, Drops
  <2> QED BY <2>1, <2>2, <2>3, <2>4
<1>13. StoredCredentials'
  BY <1>1, <1>2, <1>6 DEF AccountInv, StoredCredentials
<1>14. LeavesOthers(h, s)
  <2>1. ASSUME NEW k \in Handlers \ {h}, NEW v, Unclaimed(k, v)
        PROVE  v \notin leaving /\ \A i \in DOMAIN s : ~Names(s[i], v)
    BY <1>7, <1>12, <2>1 DEF Known, AccountInv, Unknown
  <2> QED BY <1>1, <1>6, <2>1 DEF LeavesOthers
<1>15. CallsAreTame' /\ Unknown'
  <2>1. \A v : (\E i \in DOMAIN s : Unclaims(s[i], about, v)) => v \notin leaving' /\ ~NamedIn(doc', v) /\ OnlyOf(h, v)
    BY <1>1, <1>6, <1>7, <1>11
  <2>2. \A v : v \notin leaving' /\ SignsIn(doc', v) # SignsIn(doc, v) => OnlyOf(h, v)
    BY <1>6
  <2> QED BY <1>6, <1>8, <1>10, <1>14, <2>1, <2>2, CallsAfter
<1>16. KeysAreKept'
  <2>1. ASSUME NEW v, NEW y \in SignsIn(doc', v)
        PROVE  /\ y \in SignsIn(doc, v) /\ ~Unclaimed(h, v)
               /\ Held(Login(y)) /\ doc[Login(y)] = v => Login(y) \in DOMAIN doc' /\ doc'[Login(y)] = v
    BY <1>6, <2>1, ShortLists DEF Held, Unclaimed
  <2> QED BY <1>6, <1>8, <2>1, KeysAfter
<1>17. DropsOwn' /\ GivesFree'
  BY <1>6, <1>8, <1>12, AddressesAfter DEF Held
<1> QED BY <1>13, <1>15, <1>16, <1>17 DEF AccountInv

LEMMA GoogleIsTame ==
  ASSUME IInv, AccountInv, NEW h \in Handlers, NEW subject, Google(h, subject)
  PROVE  AccountInv'
<1> DEFINE u == minted + 1
           about == And(OfAccount(u, "create"), OfLogin(subject, "google"))
           a == Put(User(u), NewAccount("google", None, None))
           b == Put(Login(subject), u)
           s == <<a, b>>
<1>1. Starts(h, "google", about, s) /\ minted' = minted + 1 /\ leaving' = leaving
  BY DEF Google, Mints, Others, accountVars
<1>2. /\ minted \in Nat /\ u \in 1..minted' /\ minted <= minted' /\ 1..minted \subseteq 1..minted' /\ minted' \in Nat
      /\ leaving \subseteq 1..minted /\ u \notin 1..minted
  BY <1>1 DEF AccountInv, StoredCredentials
<1>3. AddressOf(subject) \in DOMAIN about /\ about[AddressOf(subject)] = "google"
  BY CredentialKeys DEF And, OfAccount, OfLogin, Of, AccountOf, AddressOf
<1>4. DOMAIN s = {1, 2} /\ s[1] = a /\ s[2] = b
  BY ShortLists
<1>5. User(u) \notin DOMAIN doc /\ Known(u)
  BY <1>2, FreshIsUnknown
<1>6. SignsIn(doc, u) = {} /\ Puts(a, User(u)) /\ IsAccount(a.value) /\ Signs(a.value) = {} /\ Puts(b, Login(subject)) /\ b.value = u
  BY <1>5, NewAccountFacts DEF SignsIn, Puts, Put
<1> HIDE DEF a, b, s, about
<1>7. /\ Todo(h) = <<>> /\ doc' = doc /\ crossed' = crossed \cup Meets(about) /\ GoesTo(h, about, s)
  BY <1>1, AfterStarts DEF IInv, GoesTo
<1>8. Held(Login(subject)) => ~Held(User(doc[Login(subject)]))
  BY DEF Google
<1> HIDE DEF u
<1>9. Tame(a, about, doc, minted', leaving') /\ Tame(b, about, doc, minted', leaving')
  <2>1. SavesAccount(a, doc, minted', leaving')
    BY <1>2, <1>6 DEF SavesAccount
  <2>2. GivesKey(b, about, minted')
    BY <1>2, <1>3, <1>6 DEF GivesKey, Alters
  <2> QED BY <2>1, <2>2 DEF Tame
<1>10. \A v : Names(a, v) \/ Names(b, v) => v = u
  BY <1>6, CredentialKeys DEF Names, Puts
<1>11. ASSUME AddressOf(subject) \notin crossed', NEW v, subject \in SignsIn(doc, v) PROVE v \in leaving
  <2>1. SUFFICES ASSUME v \notin leaving PROVE FALSE
    OBVIOUS
  <2>2. AddressOf(subject) \notin crossed /\ AddressOf(subject) \notin Meets(about)
    BY <1>7, <1>11
  <2>3. ASSUME NEW k \in Handlers, Unclaimed(k, v) PROVE FALSE
    <3>1. PICK x : ForAddress(About(k), v, x) /\ SignsIn(doc, v) \subseteq {x}
      BY <2>3, WhoIsKnown
    <3>2. x = subject
      BY <1>11, <3>1
    <3>3. Working(k)
      BY <2>3, ShortLists DEF Unclaimed, Working, Todo
    <3>4. AddressOf(subject) \in DOMAIN handler[k].about /\ handler[k].about[AddressOf(subject)] = "claim"
      BY <3>1, <3>2 DEF ForAddress, Alters, About
    <3> QED BY <1>3, <2>2, <3>3, <3>4 DEF Meets
  <2>4. Held(Login(subject)) /\ doc[Login(subject)] = v
    BY <1>11, <2>1, <2>2, <2>3 DEF AccountInv, KeysAreKept
  <2>5. Held(User(v))
    BY <1>11 DEF SignsIn, Held
  <2> QED BY <1>8, <2>4, <2>5
<1>12. \A k \in Handlers : \A v : Unclaimed(k, v) => v \notin leaving' /\ \A i \in DOMAIN s : ~Names(s[i], v)
  BY <1>1, <1>4, <1>5, <1>10 DEF Known, AccountInv, Unknown
<1>13. ASSUME NEW i \in DOMAIN s, NEW x, AddressOf(x) \notin crossed'
       PROVE  /\ ~Drops(s[i], Login(x))
              /\ Puts(s[i], Login(x)) => \A v : x \in SignsIn(doc, v) => v \in leaving'
  <2>1. ~Drops(s[i], Login(x)) /\ (Puts(s[i], Login(x)) => x = subject)
    BY <1>4, <1>6, CredentialKeys DEF Puts, Drops
  <2> QED BY <1>1, <1>11, <1>13, <2>1
<1>14. Grows /\ leaving' \subseteq 1..minted' /\ \A v : ~Unclaimed(h, v)
  BY <1>1, <1>2, <1>7, ShortLists DEF Grows, Unclaimed
<1>15. \A i \in DOMAIN s : Tame(s[i], about, doc, minted', leaving')
  BY <1>4, <1>9
<1> QED BY <1>7, <1>12, <1>13, <1>14, <1>15, TameMove

LEMMA SignsUpIsTame ==
  ASSUME IInv, AccountInv, NEW h \in Handlers, SignsUp(h)
  PROVE  AccountInv'
<1>1. minted \in Nat
  BY DEF AccountInv, StoredCredentials
<1>2. CASE Guest(h)
  <2> DEFINE u == minted + 1
             a == Put(User(u), NewAccount("guest", None, None))
             s == <<a>>
  <2>1. Starts(h, "guest", NoTopic, s) /\ minted' = minted + 1 /\ leaving' = leaving
    BY <1>2 DEF Guest, Mints, Others, accountVars
  <2>2. u \in 1..minted' /\ u \notin 1..minted /\ minted' \in Nat /\ minted <= minted'
    BY <1>1, <2>1
  <2>3. Known(u) /\ SignsIn(doc, u) = {}
    BY <2>2, FreshIsUnknown DEF SignsIn
  <2>4. Mild(a, u, doc, minted')
    BY <2>2, <2>3, NewAccountFacts, MildSaves
  <2> HIDE DEF a
  <2>5. MildList(s, u, doc, minted')
    BY <2>4, MildShort
  <2> HIDE DEF s, u
  <2> QED BY <2>1, <2>2, <2>3, <2>5, StartsMildly
<1>3. ASSUME NEW email \in Emails, NEW password \in Passwords, NEW elapsed \in BOOLEAN,
             SignIn(h, email, password, elapsed)
      PROVE  AccountInv'
  <2>1. \E s : /\ Starts(h, "login", NoTopic, s) /\ minted' = minted /\ leaving' = leaving
               /\ s = <<Delete(Lock(email))>> \/ \E value : s = <<Put(Lock(email), value)>>
    BY <1>1, <1>3 DEF SignIn, Mints, Others, accountVars
  <2>2. PICK s : /\ Starts(h, "login", NoTopic, s) /\ minted' = minted /\ leaving' = leaving
                 /\ s = <<Delete(Lock(email))>> \/ \E value : s = <<Put(Lock(email), value)>>
    BY <2>1
  <2>3. MildList(s, 0, doc, minted')
    BY <2>2, MildCalls, OtherKeys, MildShort
  <2> QED BY <1>1, <2>2, <2>3, WhoIsKnown, StartsMildly
<1> QED BY <1>2, <1>3, RegisterIsTame, GoogleIsTame DEF SignsUp

-----------------------------------------------------------------------------
(* An account's own requests *)

LEMMA DeleteAccountIsTame ==
  ASSUME IInv, AccountInv, NEW h \in Handlers, NEW u \in Accounts, DeleteAccount(h, u)
  PROVE  AccountInv'
<1> DEFINE keys == KeysOf(u)
           topics == {<<"account", u>>, <<"training", u>>} \cup {<<"login", key[2]>> : key \in keys}
           about == And(OfMembership(u, None), [topic \in topics |-> "delete"])
           p == DeleteAll(keys)
           q == <<Later("memberships", u), Delete(Training(u)), Delete(User(u)), Later("answer", u)>>
           s == p \o q
<1>1. Starts(h, "delete", about, s) /\ minted' = minted /\ leaving' = leaving \cup {u} /\ SignedIn(u)
  BY DEF DeleteAccount, Mints, AccountInv, StoredCredentials
<1>2. minted \in Nat /\ leaving \subseteq 1..minted /\ u \in 1..minted /\ Known(u)
  <2>1. u \in 1..minted
    BY DEF Accounts, Partition, AccountInv, StoredCredentials
  <2> QED BY <1>1, <2>1, WhoIsKnown DEF AccountInv, StoredCredentials
<1>3. \A key \in keys : key \in DOMAIN doc /\ key = Login(key[2]) /\ doc[key] = u
  BY DEF KeysOf, Partition, AccountInv, StoredCredentials
<1>4. /\ Alters(about, AccountOf(u), {"delete"})
      /\ \A key \in keys : Alters(about, AddressOf(key[2]), {"delete"})
  <2>1. \A topic \in topics : topic # <<"membership", u>> => Alters(about, topic, {"delete"})
    BY DEF And, OfMembership, Of, Alters
  <2>2. AccountOf(u) \in topics /\ \A key \in keys : AddressOf(key[2]) \in topics
    BY DEF AccountOf, AddressOf
  <2>3. AccountOf(u) # <<"membership", u>> /\ \A x : AddressOf(x) # <<"membership", u>>
    BY DEF AccountOf, AddressOf
  <2> HIDE DEF topics, about
  <2> QED BY <2>1, <2>2, <2>3
<1>5. IsList(p) /\ \A i \in DOMAIN p : \E key \in keys : p[i] = Delete(key)
  <2> DEFINE deletes == {Delete(key) : key \in keys}
             f == [key \in keys |-> Delete(key)]
  <2>1. IsFiniteSet(keys)
    BY PartitionIsFinite DEF KeysOf, Partition, IInv
  <2>2. f = [key \in keys |-> f[key]] /\ {f[key] : key \in keys} = deletes
    OBVIOUS
  <2> HIDE DEF f
  <2>3. IsFiniteSet(deletes)
    BY <2>1, <2>2, FiniteImage
  <2>4. p = SetToSeq(deletes) /\ \A t \in deletes : \E key \in keys : t = Delete(key)
    BY DEF DeleteAll
  <2> HIDE DEF p, deletes
  <2> QED BY <2>3, <2>4, SetToSeqFacts
<1>6. /\ IsList(q)
      /\ \A i \in DOMAIN q : \/ q[i] = Delete(User(u)) \/ q[i] = Delete(Training(u))
                             \/ q[i] = Later("memberships", u) \/ q[i] = Later("answer", u)
  <2> DEFINE a == Later("memberships", u)
             b == Delete(Training(u))
             c == Delete(User(u))
             d == Later("answer", u)
  <2>1. q = <<a, b, c, d>>
    OBVIOUS
  <2> HIDE DEF a, b, c, d, q
  <2>2. IsList(q) /\ \A i \in DOMAIN q : q[i] = a \/ q[i] = b \/ q[i] = c \/ q[i] = d
    BY <2>1, LongLists
  <2> QED BY <2>2 DEF a, b, c, d
<1> HIDE DEF p, q, about, keys
<1>7. ASSUME NEW i \in DOMAIN s
      PROVE  \/ \E key \in keys : s[i] = Delete(key)
             \/ s[i] = Delete(User(u)) \/ s[i] = Delete(Training(u))
             \/ s[i] = Later("memberships", u) \/ s[i] = Later("answer", u)
  <2>1. (\E j \in DOMAIN p : s[i] = p[j]) \/ (\E j \in DOMAIN q : s[i] = q[j])
    BY <1>5, <1>6, <1>7, ElementsOfJoin
  <2> QED BY <1>5, <1>6, <2>1
<1> HIDE DEF s
<1>8. ASSUME NEW i \in DOMAIN s
      PROVE  /\ Tame(s[i], about, doc, minted', leaving') /\ \A v : Names(s[i], v) => v = u
             /\ \A x : ~Puts(s[i], Login(x)) /\ (Drops(s[i], Login(x)) => Held(Login(x)) /\ doc[Login(x)] = u)
  <2>1. CASE \E key \in keys : s[i] = Delete(key)
    <3>1. PICK key \in keys : s[i] = Delete(key)
      BY <2>1
    <3>2. s[i].call = "delete" /\ s[i].key = Login(key[2]) /\ Alters(about, AddressOf(key[2]), {"delete"})
      BY <1>3, <1>4, <3>1 DEF Delete
    <3>3. DropsKey(s[i], about)
      BY <3>2 DEF DropsKey, Drops
    <3> QED BY <1>3, <3>1, <3>2, <3>3, CredentialKeys DEF Tame, Names, Puts, Drops, Held
  <2>2. CASE s[i] = Delete(User(u))
    <3>1. DropsAccount(s[i], about, leaving')
      BY <1>1, <1>4, <2>2 DEF DropsAccount, Drops, Delete
    <3>2. s[i].call = "delete" /\ s[i].key = User(u)
      BY <2>2 DEF Delete
    <3> QED BY <3>1, <3>2, CredentialKeys DEF Tame, Names, Puts, Drops
  <2>3. CASE s[i] = Delete(Training(u)) \/ s[i] = Later("memberships", u) \/ s[i] = Later("answer", u)
    <3>1. Mild(s[i], u, doc, minted')
      BY <2>3, MildCalls, OtherKeys
    <3> QED BY <3>1, MildFacts
  <2> QED BY <1>7, <2>1, <2>2, <2>3
<1>9. /\ Todo(h) = <<>> /\ doc' = doc /\ crossed' = crossed \cup Meets(about) /\ GoesTo(h, about, s)
  BY <1>1, AfterStarts DEF IInv, GoesTo
<1>10. Grows /\ leaving' \subseteq 1..minted' /\ \A v : ~Unclaimed(h, v)
  BY <1>1, <1>2, <1>9, ShortLists DEF Grows, Unclaimed
<1>11. \A k \in Handlers : \A v : Unclaimed(k, v) => v \notin leaving' /\ \A i \in DOMAIN s : ~Names(s[i], v)
  BY <1>1, <1>2, <1>8 DEF Known, AccountInv, Unknown
<1>12. \A i \in DOMAIN s : \A x : AddressOf(x) \notin crossed' =>
            /\ Drops(s[i], Login(x)) /\ Login(x) \in DOMAIN doc => doc[Login(x)] \in leaving'
            /\ Puts(s[i], Login(x)) => \A v : x \in SignsIn(doc, v) => v \in leaving'
  BY <1>1, <1>8
<1> QED BY <1>8, <1>9, <1>10, <1>11, <1>12, TameMove

LEMMA OwnRequestIsTame ==
  ASSUME IInv, AccountInv, NEW h \in Handlers, OwnRequest(h)
  PROVE  AccountInv'
<1>1. /\ minted \in Nat /\ minted + 1 \in Nat /\ minted <= minted + 1 /\ minted <= minted /\ minted + 0 = minted
      /\ 1..minted \subseteq 1..minted + 1
  BY DEF AccountInv, StoredCredentials
<1>2. \A u \in Accounts : u \in 1..minted
  BY DEF Accounts, Partition, AccountInv, StoredCredentials
<1>3. ASSUME NEW u \in Accounts, Rename(h, u) PROVE AccountInv'
  <2> DEFINE a == Put(User(u), Account(u))
             s == <<a>>
             about == OfAccount(u, "rename")
  <2>1. Starts(h, "rename", about, s) /\ minted' = minted /\ leaving' = leaving /\ SignedIn(u)
    BY <1>1, <1>3 DEF Rename, Mints, Others, accountVars
  <2>2. Mild(a, u, doc, minted')
    BY <1>2, <2>1, AccountFacts, MildSaves
  <2> HIDE DEF a
  <2>3. MildList(s, u, doc, minted') /\ Known(u)
    BY <2>1, <2>2, MildShort, WhoIsKnown
  <2> HIDE DEF s, about
  <2> QED BY <1>1, <2>1, <2>3, StartsMildly
<1>4. ASSUME NEW u \in Accounts, SignOutEverywhere(h, u) PROVE AccountInv'
  <2> DEFINE v == [Account(u) EXCEPT !.version = @ + 1]
             a == Put(User(u), v)
             s == <<a>>
             about == OfAccount(u, "version")
  <2>1. Starts(h, "sign out", about, s) /\ minted' = minted /\ leaving' = leaving /\ SignedIn(u)
    <3>1. Starts(h, "sign out", about, s)
      BY <1>4 DEF SignOutEverywhere
    <3>2. minted' = minted /\ leaving' = leaving /\ SignedIn(u)
      BY <1>1, <1>4 DEF SignOutEverywhere, Mints, Others, accountVars
    <3> QED BY <3>1, <3>2
  <2>2. IsAccount(v) /\ Signs(v) = SignsIn(doc, u)
    BY AccountFacts
  <2> HIDE DEF v
  <2>3. Mild(a, u, doc, minted')
    BY <1>2, <2>1, <2>2, MildSaves
  <2> HIDE DEF a
  <2>4. MildList(s, u, doc, minted') /\ Known(u)
    BY <2>1, <2>3, MildShort, WhoIsKnown
  <2> HIDE DEF s, about
  <2> QED BY <1>1, <2>1, <2>4, StartsMildly
<1>5. ASSUME NEW u \in Accounts, NEW password \in Passwords, ChangePassword(h, u, password) PROVE AccountInv'
  <2> DEFINE a == Later("password", [user |-> u, password |-> password])
             s == <<a>>
             about == OfAccount(u, "password")
  <2>1. Starts(h, "change password", about, s) /\ minted' = minted /\ leaving' = leaving /\ SignedIn(u)
    <3>1. Starts(h, "change password", about, s)
      BY <1>5 DEF ChangePassword
    <3>2. minted' = minted /\ leaving' = leaving /\ SignedIn(u)
      BY <1>1, <1>5 DEF ChangePassword, Mints, Others, accountVars
    <3> QED BY <3>1, <3>2
  <2>2. Mild(a, u, doc, minted')
    BY <1>2, <2>1, MildSaves
  <2> HIDE DEF a
  <2>3. MildList(s, u, doc, minted') /\ Known(u)
    BY <2>1, <2>2, MildShort, WhoIsKnown
  <2> HIDE DEF s, about
  <2> QED BY <1>1, <2>1, <2>3, StartsMildly
<1>6. ASSUME NEW email \in Emails, RequestReset(h, email) PROVE AccountInv'
  <2> DEFINE u == doc[Login(email)]
             a == Put(Reset(minted + 1), u)
             s == <<a>>
  <2>1. Starts(h, "request reset", NoTopic, s) /\ minted' = minted + 1 /\ leaving' = leaving /\ Held(Login(email))
    BY <1>6 DEF RequestReset, Mints, Others, accountVars
  <2>2. u \in 1..minted /\ NamedIn(doc, u)
    BY <2>1, CredentialKeys DEF Held, NamedIn, AccountInv, StoredCredentials
  <2> HIDE DEF u
  <2>3. Mild(a, u, doc, minted')
    BY <1>1, <2>1, <2>2, MildSaves
  <2> HIDE DEF a
  <2>4. MildList(s, u, doc, minted') /\ Known(u)
    BY <2>2, <2>3, MildShort, WhoIsKnown
  <2> HIDE DEF s
  <2> QED BY <1>1, <2>1, <2>4, StartsMildly
<1>7. ASSUME NEW actor \in Accounts, NEW u \in Accounts, AdminReset(h, actor, u) PROVE AccountInv'
  <2> DEFINE a == Put(Reset(minted + 1), u)
             s == <<a>>
  <2>1. Starts(h, "admin reset", NoTopic, s) /\ minted' = minted + 1 /\ leaving' = leaving /\ SignedIn(u)
    BY <1>7 DEF AdminReset, Mints, Others, accountVars
  <2>2. Mild(a, u, doc, minted')
    BY <1>1, <1>2, <2>1, MildSaves
  <2> HIDE DEF a
  <2>3. MildList(s, u, doc, minted') /\ Known(u)
    BY <2>1, <2>2, MildShort, WhoIsKnown
  <2> HIDE DEF s
  <2> QED BY <1>1, <2>1, <2>3, StartsMildly
<1>8. ASSUME NEW key \in Partition("RESET"), NEW password \in Passwords, ResetPassword(h, key, password) PROVE AccountInv'
  <2> DEFINE u == doc[key]
             a == Later("password", [user |-> u, password |-> password])
             b == Delete(key)
             s == <<a, b>>
             about == OfAccount(u, "password")
  <2>1. Starts(h, "reset", about, s) /\ minted' = minted /\ leaving' = leaving
    BY <1>1, <1>8 DEF ResetPassword, Mints, Others, accountVars
  <2>2. u \in 1..minted /\ NamedIn(doc, u) /\ key[1] = "RESET"
    BY DEF Partition, NamedIn, AccountInv, StoredCredentials
  <2> HIDE DEF u
  <2>3. Mild(a, u, doc, minted') /\ Mild(b, u, doc, minted')
    BY <2>1, <2>2, MildSaves, MildCalls
  <2> HIDE DEF a, b
  <2>4. MildList(s, u, doc, minted') /\ Known(u)
    BY <2>2, <2>3, MildShort, WhoIsKnown
  <2> HIDE DEF s, about
  <2> QED BY <1>1, <2>1, <2>4, StartsMildly
<1>9. ASSUME NEW u \in Accounts, SendVerification(h, u) PROVE AccountInv'
  <2> DEFINE s == Verification(u)
             about == OfAccount(u, "verification")
  <2>1. Starts(h, "verification", about, s) /\ minted' = minted + 1 /\ leaving' = leaving /\ SignedIn(u)
    BY <1>9 DEF SendVerification, Mints, Others, accountVars
  <2>2. MildList(s, u, doc, minted') /\ Known(u)
    BY <1>1, <1>2, <2>1, VerificationIsMild, WhoIsKnown
  <2> HIDE DEF s, about
  <2> QED BY <1>1, <2>1, <2>2, StartsMildly
<1>10. ASSUME NEW key \in Partition("VERIFY"), ConfirmEmail(h, key) PROVE AccountInv'
  <2> DEFINE u == doc[key].user
             v == [Account(u) EXCEPT !.verified = TRUE]
             fits == Held(User(u)) /\ doc[User(u)].email = doc[key].email
             p == IF fits THEN <<Put(User(u), v)>> ELSE <<>>
             b == Delete(key)
             about == OfAccount(u, "confirm")
  <2>1. Starts(h, "confirm", about, p \o <<b>>) /\ minted' = minted /\ leaving' = leaving
    BY <1>1, <1>10 DEF ConfirmEmail, Mints, Others, accountVars
  <2>2. u \in 1..minted /\ NamedIn(doc, u) /\ key[1] = "VERIFY"
    BY DEF Partition, NamedIn, AccountInv, StoredCredentials
  <2>3. IsAccount(v) /\ Signs(v) = SignsIn(doc, u)
    BY AccountFacts
  <2> HIDE DEF u, v, fits
  <2>4. MildList(p, u, doc, minted')
    BY <2>1, <2>2, <2>3, MildSaves, MildShort
  <2>5. MildList(<<b>>, u, doc, minted')
    <3>1. Mild(b, u, doc, minted')
      BY <2>2, MildCalls
    <3> HIDE DEF b
    <3> QED BY <3>1, MildShort
  <2> HIDE DEF p, b, about
  <2>6. MildList(p \o <<b>>, u, doc, minted') /\ Known(u)
    BY <2>2, <2>4, <2>5, MildJoin, WhoIsKnown
  <2> QED BY <1>1, <2>1, <2>6, StartsMildly
<1>11. ASSUME NEW u \in Accounts, NEW passed \in BOOLEAN, NEW marked \in BOOLEAN, RecordTraining(h, u, passed, marked)
       PROVE  AccountInv'
  <2> DEFINE s == <<Put(Training(u), Merged(Record(u), passed, marked))>>
             about == OfTraining(u, h)
  <2>1. Starts(h, "training", about, s) /\ minted' = minted /\ leaving' = leaving
    BY <1>1, <1>11 DEF RecordTraining, Mints, Others, accountVars
  <2>2. MildList(s, 0, doc, minted')
    BY MildCalls, OtherKeys, MildShort
  <2> HIDE DEF s, about
  <2> QED BY <1>1, <2>1, <2>2, WhoIsKnown, StartsMildly
<1> QED BY <1>3, <1>4, <1>5, <1>6, <1>7, <1>8, <1>9, <1>10, <1>11, DeleteAccountIsTame DEF OwnRequest

-----------------------------------------------------------------------------
(* The requests that have to do with no account *)

LEMMA CompanyRequestIsTame ==
  ASSUME IInv, AccountInv, NEW h \in Handlers, CompanyRequest(h)
  PROVE  AccountInv'
<1>1. /\ minted \in Nat /\ minted + 1 \in Nat /\ minted <= minted + 1 /\ minted <= minted /\ minted + 0 = minted
      /\ Known(0)
  BY WhoIsKnown DEF AccountInv, StoredCredentials
<1> DEFINE Begun(n) == \E op, about, s : Starts(h, op, about, s) /\ minted' = minted + n /\ leaving' = leaving
                                         /\ MildList(s, 0, doc, minted')
<1>2. Begun(0) \/ Begun(1) => AccountInv'
  BY <1>1, StartsMildly
<1> HIDE DEF Begun
<1>3. \A key, value : key[1] \notin Credentials => Mild(Put(key, value), 0, doc, minted') /\ Mild(Delete(key), 0, doc, minted')
  BY MildCalls
<1>4. \A a : Mild(a, 0, doc, minted') => MildList(<<a>>, 0, doc, minted')
  BY MildShort
<1>5. \A a, b : Mild(a, 0, doc, minted') /\ Mild(b, 0, doc, minted') => MildList(<<a, b>>, 0, doc, minted')
  BY MildShort
<1>6. \A u, role : MildList(Joins(u, role), 0, doc, minted') /\ MildList(Leaves(u), 0, doc, minted')
  BY <1>3, <1>5, OtherKeys DEF Joins, Leaves
<1>7. ASSUME NEW u \in Accounts, CreateCompany(h, u) PROVE AccountInv'
  <2> DEFINE code == minted + 1
             about == And(OfCompany("create"), OfMembership(u, "owner"))
             p == <<Put(Org, [owner |-> u, invite |-> code, intake |-> None]), Put(Invite(code), Company)>>
             q == Joins(u, "owner")
  <2>1. Starts(h, "create", about, p \o q) /\ minted' = minted + 1 /\ leaving' = leaving
    BY <1>7 DEF CreateCompany, Mints, Others, accountVars
  <2>2. MildList(p, 0, doc, minted') /\ MildList(q, 0, doc, minted')
    BY <1>3, <1>5, <1>6, OtherKeys
  <2> HIDE DEF p, q, about
  <2>3. MildList(p \o q, 0, doc, minted')
    BY <2>2, MildJoin
  <2> QED BY <1>2, <2>1, <2>3 DEF Begun
<1>8. ASSUME NEW u \in Accounts, NEW code \in Codes, Join(h, u, code) PROVE AccountInv'
  <2> DEFINE about == OfMembership(u, "employee")
             s == Joins(u, "employee")
  <2>1. Starts(h, "join", about, s) /\ minted' = minted + 0 /\ leaving' = leaving /\ MildList(s, 0, doc, minted')
    BY <1>6, <1>8 DEF Join, Mints, Others, accountVars
  <2> HIDE DEF s, about
  <2> QED BY <1>2, <2>1 DEF Begun
<1>9. ASSUME NEW actor \in Accounts, RotateInvite(h, actor) PROVE AccountInv'
  <2> DEFINE code == minted + 1
             about == OfCompany("rotate")
             a == Delete(Invite(doc[Org].invite))
             b == Put(Org, [doc[Org] EXCEPT !.invite = code])
             c == Put(Invite(code), Company)
             s == <<a, b, c>>
  <2>1. Starts(h, "rotate", about, s) /\ minted' = minted + 1 /\ leaving' = leaving
    BY <1>9 DEF RotateInvite, Rotates, Mints, Others, accountVars
  <2>2. Mild(a, 0, doc, minted') /\ Mild(b, 0, doc, minted') /\ Mild(c, 0, doc, minted')
    BY <1>3, OtherKeys
  <2> HIDE DEF a, b, c
  <2>3. IsList(s) /\ DOMAIN s = {1, 2, 3} /\ s[1] = a /\ s[2] = b /\ s[3] = c
    BY LongLists
  <2> HIDE DEF s, about
  <2>4. MildList(s, 0, doc, minted')
    BY <2>2, <2>3 DEF MildList
  <2> QED BY <1>2, <2>1, <2>4 DEF Begun
<1>10. ASSUME NEW actor \in Accounts, NEW u \in Accounts, NEW role \in {"admin", "employee"}, SetRole(h, actor, u, role)
       PROVE  AccountInv'
  <2> DEFINE about == OfMembership(u, role)
             s == Joins(u, role)
  <2>1. Starts(h, "set role", about, s) /\ minted' = minted + 0 /\ leaving' = leaving /\ MildList(s, 0, doc, minted')
    BY <1>6, <1>10 DEF SetRole, Mints, Others, accountVars
  <2> HIDE DEF s, about
  <2> QED BY <1>2, <2>1 DEF Begun
<1>11. ASSUME NEW actor \in Accounts, NEW u \in Accounts, RemoveMember(h, actor, u) PROVE AccountInv'
  <2> DEFINE about == OfMembership(u, None)
             s == Leaves(u)
  <2>1. Starts(h, "remove", about, s) /\ minted' = minted + 0 /\ leaving' = leaving /\ MildList(s, 0, doc, minted')
    BY <1>6, <1>11 DEF RemoveMember, Mints, Others, accountVars
  <2> HIDE DEF s, about
  <2> QED BY <1>2, <2>1 DEF Begun
<1>12. ASSUME NEW actor \in Accounts, UpdateSettings(h, actor) PROVE AccountInv'
  <2> DEFINE about == OfCompany("settings")
             a == Put(Org, doc[Org])
             s == <<a>>
  <2>1. Starts(h, "settings", about, s) /\ minted' = minted + 0 /\ leaving' = leaving
    BY <1>12 DEF UpdateSettings, Mints, Others, accountVars
  <2>2. Mild(a, 0, doc, minted')
    BY <1>3, OtherKeys
  <2> HIDE DEF a
  <2>3. MildList(s, 0, doc, minted')
    BY <1>4, <2>2
  <2> HIDE DEF s, about
  <2> QED BY <1>2, <2>1, <2>3 DEF Begun
<1>13. ASSUME NEW actor \in Accounts, CreateIngestKey(h, actor) PROVE AccountInv'
  <2> DEFINE about == OfCompany("intake")
             a == Put(Org, [doc[Org] EXCEPT !.intake = ToString(minted + 1)])
             s == <<a>>
  <2>1. Starts(h, "intake key", about, s) /\ minted' = minted + 1 /\ leaving' = leaving
    BY <1>13 DEF CreateIngestKey, Mints, Others, accountVars
  <2>2. Mild(a, 0, doc, minted')
    BY <1>3, OtherKeys
  <2> HIDE DEF a
  <2>3. MildList(s, 0, doc, minted')
    BY <1>4, <2>2
  <2> HIDE DEF s, about
  <2> QED BY <1>2, <2>1, <2>3 DEF Begun
<1>14. ASSUME NEW actor \in Accounts, RevokeIngestKey(h, actor) PROVE AccountInv'
  <2> DEFINE about == OfCompany("intake")
             a == Put(Org, [doc[Org] EXCEPT !.intake = None])
             s == <<a>>
  <2>1. Starts(h, "revoke key", about, s) /\ minted' = minted + 0 /\ leaving' = leaving
    BY <1>14 DEF RevokeIngestKey, Mints, Others, accountVars
  <2>2. Mild(a, 0, doc, minted')
    BY <1>3, OtherKeys
  <2> HIDE DEF a
  <2>3. MildList(s, 0, doc, minted')
    BY <1>4, <2>2
  <2> HIDE DEF s, about
  <2> QED BY <1>2, <2>1, <2>3 DEF Begun
<1>15. CASE Ingest(h)
  <2> DEFINE a == Put(Signal(minted + 1), None)
             s == <<a>>
  <2>1. Starts(h, "ingest", NoTopic, s) /\ minted' = minted + 1 /\ leaving' = leaving
    BY <1>15 DEF Ingest, Mints, Others, accountVars
  <2>2. Mild(a, 0, doc, minted')
    BY <1>3, OtherKeys
  <2> HIDE DEF a
  <2>3. MildList(s, 0, doc, minted')
    BY <1>4, <2>2
  <2> HIDE DEF s
  <2> QED BY <1>2, <2>1, <2>3 DEF Begun
<1>16. ASSUME NEW actor \in Accounts, AddPolicy(h, actor) PROVE AccountInv'
  <2> DEFINE a == Put(Policy(minted + 1), actor)
             s == <<a>>
  <2>1. Starts(h, "add policy", NoTopic, s) /\ minted' = minted + 1 /\ leaving' = leaving
    BY <1>16 DEF AddPolicy, Mints, Others, accountVars
  <2>2. Mild(a, 0, doc, minted')
    BY <1>3, OtherKeys
  <2> HIDE DEF a
  <2>3. MildList(s, 0, doc, minted')
    BY <1>4, <2>2
  <2> HIDE DEF s
  <2> QED BY <1>2, <2>1, <2>3 DEF Begun
<1>17. ASSUME NEW actor \in Accounts, NEW key \in Partition("POLICY"), RemovePolicy(h, actor, key) PROVE AccountInv'
  <2> DEFINE a == Delete(key)
             b == Later("acks", key[2])
             s == <<a, b>>
  <2>1. Starts(h, "remove policy", NoTopic, s) /\ minted' = minted + 0 /\ leaving' = leaving
    BY <1>17 DEF RemovePolicy, Mints, Others, accountVars
  <2>2. key[1] \notin Credentials
    BY DEF Partition, Credentials
  <2>3. Mild(a, 0, doc, minted') /\ Mild(b, 0, doc, minted')
    BY <1>3, <2>2, MildCalls
  <2> HIDE DEF a, b
  <2>4. MildList(s, 0, doc, minted')
    BY <1>5, <2>3
  <2> HIDE DEF s
  <2> QED BY <1>2, <2>1, <2>4 DEF Begun
<1>18. ASSUME NEW u \in Accounts, NEW key \in Partition("POLICY"), Acknowledge(h, u, key) PROVE AccountInv'
  <2> DEFINE a == Put(Ack(key[2], u), None)
             s == <<a>>
  <2>1. Starts(h, "acknowledge", NoTopic, s) /\ minted' = minted + 0 /\ leaving' = leaving
    BY <1>18 DEF Acknowledge, Mints, Others, accountVars
  <2>2. Mild(a, 0, doc, minted')
    BY <1>3, OtherKeys
  <2> HIDE DEF a
  <2>3. MildList(s, 0, doc, minted')
    BY <1>4, <2>2
  <2> HIDE DEF s
  <2> QED BY <1>2, <2>1, <2>3 DEF Begun
<1> QED BY <1>7, <1>8, <1>9, <1>10, <1>11, <1>12, <1>13, <1>14, <1>15, <1>16, <1>17, <1>18 DEF CompanyRequest

-----------------------------------------------------------------------------
(* The feeds, the seeding and the player touch documents of their own only *)

Ordinary == {"EVENT", "FEED", "SYNC", "RECENT", "NODE", "EDGE", "INCIDENT", "AUDIT", "META", "PLAYER"}
Neutral(t) == (t.call = "put" /\ t.key[1] \in Ordinary) \/ t.call \in {"index", "since", "fetch"}
NeutralList(s) == IsList(s) /\ \A i \in DOMAIN s : Neutral(s[i])

(* A request that does begins, or goes on with calls of this kind and what it had ahead. *)
NeutralStep(h) ==
    /\ doc' = doc /\ minted' \in Nat /\ minted <= minted'
    /\ \/ \E op, about, s : Starts(h, op, about, s) /\ NeutralList(s)
       \/ /\ Working(h)
          /\ Task(h).call \notin {"put", "new", "delete"} \/ (Task(h).call = "put" /\ Task(h).key[1] = "SYNC")
          /\ \E l : /\ Continues(h, l)
                    /\ \A i \in DOMAIN l : Neutral(l[i]) \/ \E j \in DOMAIN Todo(h) : l[i] = Todo(h)[j]

LEMMA NeutralShort ==
  /\ NeutralList(<<>>)
  /\ \A a : Neutral(a) => NeutralList(<<a>>)
<1>1. NeutralList(<<>>)
  BY ShortLists DEF NeutralList
<1>2. ASSUME NEW a, Neutral(a) PROVE NeutralList(<<a>>)
  <2> DEFINE s == <<a>>
  <2>1. IsList(s) /\ DOMAIN s = {1} /\ s[1] = a
    BY ShortLists
  <2> HIDE DEF s
  <2>2. NeutralList(s)
    BY <1>2, <2>1 DEF NeutralList
  <2> QED BY <2>2 DEF s
<1> QED BY <1>1, <1>2

LEMMA NeutralJoin ==
  ASSUME NEW p, NEW q, NeutralList(p), NeutralList(q)
  PROVE  NeutralList(p \o q)
<1>1. IsList(p) /\ IsList(q)
  BY DEF NeutralList
<1>2. ASSUME NEW i \in DOMAIN (p \o q) PROVE Neutral((p \o q)[i])
  <2>1. (\E j \in DOMAIN p : (p \o q)[i] = p[j]) \/ (\E j \in DOMAIN q : (p \o q)[i] = q[j])
    BY <1>1, <1>2, ElementsOfJoin
  <2> QED BY <2>1 DEF NeutralList
<1> QED BY <1>1, <1>2, JoinFacts DEF NeutralList

LEMMA NeutralFunction ==
  ASSUME NEW n \in Nat, NEW f, f = [i \in 1..n |-> f[i]], \A i \in 1..n : Neutral(f[i])
  PROVE  NeutralList(f)
BY FunctionIsList DEF NeutralList

LEMMA NeutralSetList ==
  ASSUME NEW S, IsFiniteSet(S), NEW f, f = [x \in S |-> f[x]], \A x \in S : Neutral(f[x])
  PROVE  NeutralList(SetToSeq({f[x] : x \in S}))
<1> DEFINE T == {f[x] : x \in S}
<1>1. IsFiniteSet(T) /\ \A t \in T : Neutral(t)
  BY FiniteImage
<1> HIDE DEF T
<1>2. NeutralList(SetToSeq(T))
  BY <1>1, SetToSeqFacts DEF NeutralList
<1> QED BY <1>2 DEF T

LEMMA NeutralCalls ==
  /\ \A key, value : key[1] \in Ordinary => Neutral(Put(key, value))
  /\ \A of : Neutral(Later("index", of)) /\ Neutral(Later("since", of)) /\ Neutral(Later("fetch", of))
BY DEF Neutral, Put, Later

LEMMA OrdinaryKeys ==
  /\ \A x : /\ Event(x)[1] \in Ordinary /\ Cursor(x)[1] \in Ordinary /\ Sync(x)[1] \in Ordinary
            /\ Recent(x)[1] \in Ordinary /\ Node(x)[1] \in Ordinary /\ Edge(x)[1] \in Ordinary
            /\ Signalled(x)[1] \in Ordinary /\ Incident(x)[1] \in Ordinary /\ Audited(x)[1] \in Ordinary
  /\ Marker[1] \in Ordinary /\ Player[1] \in Ordinary
<1> USE DEF Ordinary
<1>1. \A x : /\ Event(x)[1] \in Ordinary /\ Cursor(x)[1] \in Ordinary /\ Sync(x)[1] \in Ordinary
             /\ Recent(x)[1] \in Ordinary /\ Node(x)[1] \in Ordinary /\ Edge(x)[1] \in Ordinary
             /\ Signalled(x)[1] \in Ordinary /\ Incident(x)[1] \in Ordinary /\ Audited(x)[1] \in Ordinary
  BY DEF Event, Cursor, Sync, Recent, Node, Edge, Signalled, Incident, Audited
<1>2. Marker[1] \in Ordinary /\ Player[1] \in Ordinary
  BY DEF Marker, Player
<1> QED BY <1>1, <1>2

LEMMA NeutralReadsOn ==
  ASSUME IInv, NEW h \in Handlers, Working(h), Task(h).call \notin {"put", "new", "delete"},
         NEW p, Continues(h, p \o Next1(h)), doc' = doc, minted' \in Nat, minted <= minted', NeutralList(p)
  PROVE  NeutralStep(h)
<1> DEFINE q == Tail(Todo(h))
           l == p \o q
<1>1. Todo(h) # <<>> /\ IsList(Todo(h)) /\ Next1(h) = q
  BY AtWork DEF IInv
<1>2. IsList(p) /\ IsList(q) /\ \A i \in DOMAIN q : \E j \in DOMAIN Todo(h) : q[i] = Todo(h)[j]
  BY <1>1, TailOf DEF NeutralList
<1>3. Continues(h, l)
  BY <1>1
<1> HIDE DEF q
<1>4. \A i \in DOMAIN (p \o q) : (\E j \in DOMAIN p : (p \o q)[i] = p[j]) \/ (\E j \in DOMAIN q : (p \o q)[i] = q[j])
  BY <1>2, ElementsOfJoin
<1>5. ASSUME NEW i \in DOMAIN l
      PROVE  Neutral(l[i]) \/ \E j \in DOMAIN Todo(h) : l[i] = Todo(h)[j]
  <2>1. (\E j \in DOMAIN p : l[i] = p[j]) \/ (\E j \in DOMAIN q : l[i] = q[j])
    BY <1>5, <1>4
  <2> QED BY <1>2, <2>1 DEF NeutralList
<1> HIDE DEF l
<1> QED BY <1>3, <1>5 DEF NeutralStep

LEMMA PollsAreNeutral ==
  ASSUME IInv, minted \in Nat, NEW h \in Handlers, FeedStep(h)
  PROVE  NeutralStep(h)
<1> DEFINE t == Todo(h)[1]
<1>1. minted \in Nat /\ minted <= minted /\ minted + 0 = minted
  OBVIOUS
<1>2. Working(h) => Task(h) = t /\ Todo(h) # <<>> /\ IsList(Todo(h)) /\ Next1(h) = Tail(Todo(h))
  BY AtWork DEF IInv
<1>3. ASSUME NEW p, Working(h), Task(h).call \in {"since", "fetch", "index"}, Continues(h, p \o Next1(h)),
             doc' = doc, minted' \in Nat, minted <= minted', NeutralList(p)
      PROVE  NeutralStep(h)
  BY <1>1, <1>3, NeutralReadsOn
<1>4. CASE Poll(h)
  <2> DEFINE about == [topic \in {<<"recent", f>> : f \in FeedNames} |-> h]
             s == [i \in DOMAIN FeedOrder |-> Later("since", FeedOrder[i])]
             n == Len(FeedOrder)
  <2>1. Starts(h, "poll", about, s) /\ minted' = minted
    BY <1>1, <1>4 DEF Poll, Mints
  <2>2. n \in Nat /\ DOMAIN FeedOrder = 1..n
    BY FeedsAssumption
  <2>3. s = [i \in 1..n |-> s[i]] /\ \A i \in 1..n : Neutral(s[i])
    BY <2>2, NeutralCalls
  <2> HIDE DEF about, s, n
  <2>4. NeutralList(s)
    BY <2>2, <2>3, NeutralFunction
  <2> QED BY <1>1, <2>1, <2>4 DEF NeutralStep, Starts
<1>5. CASE Rebuild(h)
  <2> DEFINE stored == {f \in FeedNames : Stored(f) # {}}
             about == [topic \in {<<"recent", f>> : f \in stored} |-> h]
             calls == [f \in stored |->
                         Put(Recent(f), MergeRecent(<<>>, {[id |-> id, at |-> At(id)] : id \in Stored(f)}))]
             s == SetToSeq({calls[f] : f \in stored})
  <2>1. Starts(h, "rebuild", about, s) /\ minted' = minted
    <3>1. {calls[f] : f \in stored} = {Put(Recent(f), MergeRecent(<<>>, {[id |-> id, at |-> At(id)] : id \in Stored(f)})) : f \in stored}
      BY Zenon
    <3>2. minted' = minted
      BY <1>1, <1>5 DEF Rebuild, Mints
    <3> QED BY <1>5, <3>1, <3>2 DEF Rebuild
  <2>2. IsFiniteSet(stored)
    <3>1. FeedOrder = [i \in DOMAIN FeedOrder |-> FeedOrder[i]]
      BY FeedsAssumption
    <3>2. IsFiniteSet(DOMAIN FeedOrder)
      <4>1. Len(FeedOrder) \in Nat /\ DOMAIN FeedOrder = 1..Len(FeedOrder)
        BY FeedsAssumption
      <4> QED BY <4>1, FS_Interval
    <3>3. IsFiniteSet({FeedOrder[i] : i \in DOMAIN FeedOrder})
      BY <3>1, <3>2, FiniteImage
    <3>4. IsFiniteSet(FeedNames)
      BY <3>3 DEF FeedNames
    <3>5. stored \subseteq FeedNames
      OBVIOUS
    <3> HIDE DEF stored
    <3> QED BY <3>4, <3>5, FS_Subset
  <2>3. calls = [f \in stored |-> calls[f]] /\ \A f \in stored : Neutral(calls[f])
    BY NeutralCalls, OrdinaryKeys
  <2> HIDE DEF about, stored, calls
  <2>4. NeutralList(s)
    BY <2>2, <2>3, NeutralSetList
  <2> HIDE DEF s
  <2> QED BY <1>1, <2>1, <2>4 DEF NeutralStep, Starts
<1>6. CASE ReadsCursor(h)
  <2> DEFINE a == Later("fetch", [feed |-> Task(h).of, since |-> Since(Task(h).of)])
  <2>1. Working(h) /\ Task(h).call = "since" /\ Continues(h, <<a>> \o Next1(h)) /\ doc' = doc /\ minted' = minted
    BY <1>1, <1>6 DEF ReadsCursor, Mints
  <2>2. Neutral(a)
    BY NeutralCalls
  <2> HIDE DEF a
  <2>3. NeutralList(<<a>>)
    BY <2>2, NeutralShort
  <2> QED BY <1>1, <1>3, <2>1, <2>3
<1>7. CASE Fetches(h)
  <2> DEFINE f == Task(h).of.feed
  <2>0. PICK entries \in Answers(f, Task(h).of.since) :
            /\ Continues(h, <<Put(Sync(f), "ok")>>
                              \o (IF entries = <<>> THEN <<>> ELSE SavesThenMoves(f, entries)) \o Next1(h))
            /\ Mints(Len(entries))
    BY <1>7 DEF Fetches
  <2> DEFINE a == Put(Sync(f), "ok")
             q == IF entries = <<>> THEN <<>> ELSE SavesThenMoves(f, entries)
             p == <<a>> \o q
  <2>1. /\ Working(h) /\ Task(h).call = "fetch" /\ Continues(h, p \o Next1(h)) /\ doc' = doc
        /\ minted' = minted + Len(entries)
    BY <1>7, <2>0 DEF Fetches, Mints
  <2>2. f \in FeedNames
    <3>1. Plain(t) \/ ReadsMembership(t, About(h))
      BY <1>2, <2>1, HarmlessHead DEF IInv
    <3> QED BY <1>2, <2>1, <3>1 DEF Plain, ReadsMembership
  <2>3. PICK n \in Nat : entries = [i \in 1..n |-> entries[i]]
    BY <2>2, AnswerIsList DEF TypeInv, IInv
  <2>4. Len(entries) = n /\ DOMAIN entries = 1..n /\ minted' \in Nat /\ minted <= minted'
    <3>1. Len(entries) = n /\ DOMAIN entries = 1..n
      BY <2>3, FunctionIsList
    <3> QED BY <1>1, <2>1, <3>1
  <2>5. NeutralList(SavesThenMoves(f, entries))
    <3> DEFINE e == [i \in DOMAIN entries |->
                       Put(Event(minted + i), [feed |-> f, n |-> entries[i], at |-> Stamps(f)[entries[i]]])]
               b == Later("index", [feed |-> f, fresh |-> {[id |-> minted + i, at |-> Stamps(f)[entries[i]]]
                                                             : i \in DOMAIN entries}])
               c == Put(Cursor(f), NewestStamp(f, entries))
    <3>1. SavesThenMoves(f, entries) = (e \o <<b>>) \o <<c>>
      BY DEF SavesThenMoves, Saves, Moves
    <3>2. e = [i \in 1..n |-> e[i]] /\ \A i \in 1..n : Neutral(e[i])
      BY <2>4, NeutralCalls, OrdinaryKeys
    <3>3. Neutral(b) /\ Neutral(c)
      BY NeutralCalls, OrdinaryKeys
    <3> HIDE DEF e, b, c
    <3>4. NeutralList(e) /\ NeutralList(<<b>>) /\ NeutralList(<<c>>)
      BY <3>2, <3>3, NeutralFunction, NeutralShort
    <3>5. NeutralList(e \o <<b>>)
      BY <3>4, NeutralJoin
    <3> QED BY <3>1, <3>4, <3>5, NeutralJoin
  <2>6. Neutral(a)
    BY NeutralCalls, OrdinaryKeys
  <2> HIDE DEF a
  <2>7. NeutralList(<<a>>) /\ NeutralList(q)
    BY <2>5, <2>6, NeutralShort
  <2> HIDE DEF q
  <2>8. NeutralList(p)
    BY <2>7, NeutralJoin
  <2> HIDE DEF p
  <2> QED BY <1>3, <2>1, <2>4, <2>8
<1>8. CASE Unavailable(h)
  <2> DEFINE a == Put(Sync(Task(h).of.feed), "failed")
  <2>1. Working(h) /\ Task(h).call = "fetch" /\ Continues(h, <<a>> \o Next1(h)) /\ doc' = doc /\ minted' = minted
    BY <1>1, <1>8 DEF Unavailable, Mints
  <2>2. Neutral(a)
    BY NeutralCalls, OrdinaryKeys
  <2> HIDE DEF a
  <2>3. NeutralList(<<a>>)
    BY <2>2, NeutralShort
  <2> QED BY <1>1, <1>3, <2>1, <2>3
<1>9. CASE SyncIsLost(h)
  <2>1. /\ Working(h) /\ Task(h).call = "put" /\ Task(h).key[1] = "SYNC" /\ Continues(h, Next1(h))
        /\ doc' = doc /\ minted' = minted
    BY <1>1, <1>9 DEF SyncIsLost, Mints
  <2>2. \A i \in DOMAIN Next1(h) : \E j \in DOMAIN Todo(h) : Next1(h)[i] = Todo(h)[j]
    BY <1>2, <2>1, TailOf
  <2> QED BY <1>1, <2>1, <2>2 DEF NeutralStep
<1>10. CASE Indexes(h)
  <2> DEFINE f == Task(h).of.feed
             a == Put(Recent(f), MergeRecent(Index(f), Task(h).of.fresh))
  <2>1. Working(h) /\ Task(h).call = "index" /\ Continues(h, <<a>> \o Next1(h)) /\ doc' = doc /\ minted' = minted
    BY <1>1, <1>10 DEF Indexes, Mints
  <2>2. Neutral(a)
    BY NeutralCalls, OrdinaryKeys
  <2> HIDE DEF a
  <2>3. NeutralList(<<a>>)
    BY <2>2, NeutralShort
  <2> QED BY <1>1, <1>3, <2>1, <2>3
<1> QED BY <1>4, <1>5, <1>6, <1>7, <1>8, <1>9, <1>10 DEF FeedStep

-----------------------------------------------------------------------------

LEMMA SeedsAreNeutral == NeutralList(Seeds)
<1> DEFINE nodes == [s \in Scripts |-> Put(Node(s), None)]
           edges == [s \in Scripts |-> Put(Edge(s), None)]
           k == Cardinality(Scripts)
           signals == [i \in 1..k |->
                         Put(Signalled(SetToSeq(Scripts)[i]), [feed |-> "scenario", n |-> SetToSeq(Scripts)[i], at |-> 0])]
           index == <<Later("index", [feed |-> "scenario", fresh |-> Signals])>>
           m == 2 * k
           marked == <<Put(Marker, None)>>
<1>1. k \in Nat /\ m \in Nat
  BY SeedingAssumption, FS_CardinalityType
<1>2. /\ NeutralList(SetToSeq({nodes[s] : s \in Scripts}))
      /\ NeutralList(SetToSeq({edges[s] : s \in Scripts}))
  <2>1. /\ nodes = [s \in Scripts |-> nodes[s]] /\ \A s \in Scripts : Neutral(nodes[s])
        /\ edges = [s \in Scripts |-> edges[s]] /\ \A s \in Scripts : Neutral(edges[s])
    BY NeutralCalls, OrdinaryKeys
  <2> HIDE DEF nodes, edges
  <2> QED BY <2>1, SeedingAssumption, NeutralSetList
<1>3. NeutralList(Maps)
  <2>1. /\ {nodes[s] : s \in Scripts} = {Put(Node(s), None) : s \in Scripts}
        /\ {edges[s] : s \in Scripts} = {Put(Edge(s), None) : s \in Scripts}
    OBVIOUS
  <2> QED BY <1>2, <2>1, NeutralJoin DEF Maps
<1>4. NeutralList(signals)
  <2>1. signals = [i \in 1..k |-> signals[i]] /\ \A i \in 1..k : Neutral(signals[i])
    BY NeutralCalls, OrdinaryKeys
  <2> HIDE DEF signals, k
  <2> QED BY <1>1, <2>1, NeutralFunction
<1>5. NeutralList(index) /\ NeutralList(marked)
  BY NeutralCalls, OrdinaryKeys, NeutralShort
<1>6. SavesSignals = signals \o index
  BY DEF SavesSignals
<1>7. NeutralList(SavesIncidents)
  <2>1. SavesIncidents = [i \in 1..m |-> SavesIncidents[i]]
    BY DEF SavesIncidents
  <2>2. ASSUME NEW i \in 1..m PROVE Neutral(SavesIncidents[i])
    <3>1. CASE i % 2 = 1
      <4>1. SavesIncidents[i] = Put(Incident(SetToSeq(Scripts)[(i + 1) \div 2]), None)
        BY <3>1 DEF SavesIncidents
      <4> QED BY <4>1, NeutralCalls, OrdinaryKeys
    <3>2. CASE i % 2 # 1
      <4>1. SavesIncidents[i] = Put(Audited(minted + ((i + 1) \div 2)), SetToSeq(Scripts)[(i + 1) \div 2])
        BY <3>2 DEF SavesIncidents
      <4> QED BY <4>1, NeutralCalls, OrdinaryKeys
    <3> QED BY <3>1, <3>2
  <2> HIDE DEF m
  <2> QED BY <1>1, <2>1, <2>2, NeutralFunction
<1> HIDE DEF nodes, edges, signals, index, marked, k, m
<1>8. NeutralList(SavesSignals)
  BY <1>4, <1>5, <1>6, NeutralJoin
<1>9. Seeds = ((Maps \o SavesSignals) \o SavesIncidents) \o marked
  BY DEF Seeds, marked
<1>10. NeutralList(Maps \o SavesSignals)
  BY <1>3, <1>8, NeutralJoin
<1>11. NeutralList((Maps \o SavesSignals) \o SavesIncidents)
  BY <1>7, <1>10, NeutralJoin
<1> QED BY <1>5, <1>9, <1>11, NeutralJoin

LEMMA OthersAreNeutral ==
  ASSUME minted \in Nat, NEW h \in Handlers,
         SeedDemo(h) \/ \E scenario \in Scenarios, total \in Scores : Attempt(h, scenario, total)
  PROVE  NeutralStep(h)
<1>1. minted \in Nat /\ minted <= minted /\ minted + 0 = minted
  OBVIOUS
<1>2. CASE SeedDemo(h)
  <2>1. Cardinality(Scripts) \in Nat
    BY SeedingAssumption, FS_CardinalityType
  <2>2. Starts(h, "seed", NoTopic, Seeds) /\ minted' = minted + Cardinality(Scripts)
    BY <1>2 DEF SeedDemo, Mints
  <2>3. minted' \in Nat /\ minted <= minted'
    BY <1>1, <2>1, <2>2
  <2>4. NeutralList(Seeds)
    BY SeedsAreNeutral
  <2> QED BY <2>2, <2>3, <2>4 DEF NeutralStep, Starts
<1>3. ASSUME NEW scenario \in Scenarios, NEW total \in Scores, Attempt(h, scenario, total) PROVE NeutralStep(h)
  <2> DEFINE a == Put(Player, Folded(Played, scenario, total))
             about == Of("player", "token", h)
             s == <<a>>
  <2>1. Starts(h, "attempt", about, s) /\ minted' = minted
    BY <1>1, <1>3 DEF Attempt, Mints
  <2>2. Neutral(a)
    BY NeutralCalls, OrdinaryKeys
  <2> HIDE DEF a, about
  <2>3. NeutralList(s)
    BY <2>2, NeutralShort
  <2> HIDE DEF s
  <2> QED BY <1>1, <2>1, <2>3 DEF NeutralStep, Starts
<1> QED BY <1>2, <1>3

LEMMA NeutralIsTame ==
  ASSUME IInv, AccountInv, NEW h \in Handlers, NeutralStep(h), leaving' = leaving
  PROVE  AccountInv'
<1>1. \A t, n : Neutral(t) => Mild(t, 0, doc, n)
  BY DEF Neutral, Ordinary, Mild, Unrelated, Credentials
<1>2. Known(0) /\ minted' \in Nat /\ minted <= minted'
  BY WhoIsKnown DEF NeutralStep
<1>3. ASSUME NEW op, NEW about, NEW s, Starts(h, op, about, s), NeutralList(s) PROVE AccountInv'
  <2>1. MildList(s, 0, doc, minted')
    BY <1>1, <1>3 DEF NeutralList, MildList
  <2> QED BY <1>2, <1>3, <2>1, StartsMildly
<1>4. ASSUME NEW l, Continues(h, l), Working(h),
             Task(h).call \notin {"put", "new", "delete"} \/ (Task(h).call = "put" /\ Task(h).key[1] = "SYNC"),
             \A i \in DOMAIN l : Neutral(l[i]) \/ \E j \in DOMAIN Todo(h) : l[i] = Todo(h)[j]
      PROVE  AccountInv'
  <2>1. doc' = doc
    BY DEF NeutralStep
  <2>2. \A i \in DOMAIN l : Mild(l[i], 0, doc, minted') \/ \E j \in DOMAIN Todo(h) : l[i] = Todo(h)[j]
    BY <1>1, <1>4
  <2> QED BY <1>2, <1>4, <2>1, <2>2, ContinuesMildly
<1> QED BY <1>3, <1>4 DEF NeutralStep

-----------------------------------------------------------------------------
(* Every other step, and the start *)

LEMMA RestIsTame ==
  ASSUME AccountInv, UNCHANGED <<doc, minted, handler, leaving, crossed>>
  PROVE  AccountInv'
<1>1. /\ \A h : Todo(h)' = Todo(h) /\ About(h)' = About(h)
      /\ \A h, u : Unclaimed(h, u)' <=> Unclaimed(h, u)
  BY DEF Todo, About, Unclaimed
<1>2. StoredCredentials'
  BY DEF AccountInv, StoredCredentials
<1>3. CallsAreTame'
  BY <1>1 DEF AccountInv, CallsAreTame
<1>4. Unknown'
  BY <1>1 DEF AccountInv, Unknown
<1>5. KeysAreKept'
  BY <1>1 DEF AccountInv, KeysAreKept, Held
<1>6. DropsOwn' /\ GivesFree'
  BY <1>1 DEF AccountInv, DropsOwn, GivesFree, Held
<1> QED BY <1>2, <1>3, <1>4, <1>5, <1>6 DEF AccountInv

LEMMA AccountStepHolds ==
  ASSUME IInv, AccountInv, [Next]_vars
  PROVE  AccountInv'
<1>0. minted \in Nat
  BY DEF AccountInv, StoredCredentials
<1>1. CASE UNCHANGED vars
  BY <1>1, RestIsTame DEF vars, storeVars, accountVars
<1>2. CASE \E f \in FeedNames : (Publishes(f) \/ WindowMoves(f)) /\ UNCHANGED accountVars
  BY <1>2, RestIsTame DEF Publishes, WindowMoves, storeVars, accountVars
<1>3. ASSUME NEW h \in Handlers, AccountStep(h) PROVE AccountInv'
  BY <1>3, SignsUpIsTame, OwnRequestIsTame, CompanyRequestIsTame, ReadAgainIsTame, AnswersIsTame DEF AccountStep
<1>4. ASSUME NEW h \in Handlers, FeedStep(h), UNCHANGED accountVars PROVE AccountInv'
  BY <1>0, <1>4, PollsAreNeutral, NeutralIsTame DEF accountVars
<1>5. ASSUME NEW h \in Handlers, UNCHANGED accountVars,
             SeedDemo(h) \/ \E scenario \in Scenarios, total \in Scores : Attempt(h, scenario, total)
      PROVE  AccountInv'
  BY <1>0, <1>5, OthersAreNeutral, NeutralIsTame DEF accountVars
<1>6. ASSUME NEW h \in Handlers, StorageCall(h), UNCHANGED accountVars PROVE AccountInv'
  BY <1>6, StorageCallIsTame
<1>7. SUFFICES ASSUME Next PROVE AccountInv'
  BY <1>1
<1>8. CASE \E f \in FeedNames : (Publishes(f) \/ WindowMoves(f)) /\ UNCHANGED accountVars
  BY <1>2, <1>8
<1>9. ASSUME NEW h \in Handlers,
             \/ AccountStep(h) /\ UNCHANGED published
             \/ FeedStep(h) /\ UNCHANGED accountVars
             \/ \E scenario \in Scenarios, total \in Scores :
                  Attempt(h, scenario, total) /\ UNCHANGED <<accountVars, published>>
             \/ SeedDemo(h) /\ UNCHANGED <<accountVars, published>>
             \/ StorageCall(h) /\ UNCHANGED <<accountVars, published>>
      PROVE  AccountInv'
  BY <1>3, <1>4, <1>5, <1>6, <1>9
<1> QED BY <1>7, <1>8, <1>9 DEF Next

LEMMA AccountsAtRest ==
  ASSUME Init
  PROVE  AccountInv
<1>1. PICK world \in Worlds : doc = world.doc /\ minted = world.minted
  BY DEF Init, StoreInit
<1>2. AtRest(world)
  BY PlatformAssumption
<1>3. \A h \in Handlers : Todo(h) = <<>>
  BY DEF Init, StoreInit, Todo, Idle
<1>4. leaving = {}
  BY DEF Init, AccountInit
<1>5. ASSUME NEW key \in DOMAIN doc, key[1] = "USER"
      PROVE  /\ key = User(key[2]) /\ key[2] \in 1..minted /\ IsAccount(doc[key])
             /\ \A x \in Signs(doc[key]) : Held(Login(x)) /\ doc[Login(x)] = key[2]
  <2> DEFINE account == doc[key]
  <2>1. /\ key = User(key[2]) /\ key[2] \in 1..minted
        /\ account \in [whole : BOOLEAN, provider : {None, "guest", "google", "email"},
                        email : Emails \cup {None}, password : Passwords \cup {None},
                        version : Nat, verified : BOOLEAN]
        /\ account.whole /\ account.provider = "email" =>
             Login(account.email) \in DOMAIN doc /\ doc[Login(account.email)] = key[2]
    BY <1>1, <1>2, <1>5 DEF AtRest
  <2> HIDE DEF account
  <2>2. IsAccount(account)
    BY <2>1 DEF IsAccount
  <2>3. \A x \in Signs(account) : x = account.email /\ account.whole /\ account.provider = "email"
    BY <2>1 DEF Signs
  <2> QED BY <2>1, <2>2, <2>3 DEF Held, account
<1>6. StoredCredentials
  BY <1>1, <1>2, <1>4, <1>5 DEF AtRest, StoredCredentials
<1>7. KeysAreKept
  <2>1. SUFFICES ASSUME NEW u, NEW x \in SignsIn(doc, u) PROVE Held(Login(x)) /\ doc[Login(x)] = u
    BY DEF KeysAreKept
  <2>2. User(u) \in DOMAIN doc /\ x \in Signs(doc[User(u)]) /\ User(u)[1] = "USER" /\ User(u)[2] = u
    BY <2>1 DEF SignsIn, User
  <2> QED BY <1>5, <2>2
<1>8. CallsAreTame /\ Unknown /\ DropsOwn /\ GivesFree
  BY <1>3, ShortLists DEF CallsAreTame, Unknown, Unclaimed, DropsOwn, GivesFree
<1> QED BY <1>6, <1>7, <1>8 DEF AccountInv

(* Whose each address is, and what every request will yet do to it. *)
THEOREM AccountsInductive == Spec => [](IInv /\ AccountInv)
<1>1. Init => IInv /\ AccountInv
  BY InitHolds, AccountsAtRest
<1>2. IInv /\ AccountInv /\ [Next]_vars => IInv' /\ AccountInv'
  BY StepHolds, AccountStepHolds
<1> QED BY <1>1, <1>2, PTL DEF Spec

(* Of the sign-ups racing for one address exactly one wins (accounts.py, register, by way of dynamo.py, *)
(* put_doc, only_if_new): once its sign-up has answered, an account that is whole and signed up by email is the *)
(* one its address signs in to, whatever sign-ups lost and took back what they wrote, whoever deleted an *)
(* account, changed a password or confirmed an address meanwhile. *)
THEOREM OneAlwaysWins == Spec => []OneWinner
<1>1. IInv /\ AccountInv => OneWinner
  <2>1. SUFFICES ASSUME IInv, AccountInv, NEW u \in Accounts \ leaving,
                        doc[User(u)].whole, doc[User(u)].provider = "email", ~WorksOn(<<"account", u>>),
                        <<"login", doc[User(u)].email>> \notin crossed
                 PROVE  Held(Login(doc[User(u)].email)) /\ doc[Login(doc[User(u)].email)] = u
    BY DEF OneWinner
  <2> DEFINE x == doc[User(u)].email
  <2>2. User(u) \in DOMAIN doc
    BY <2>1 DEF Accounts, Partition, AccountInv, StoredCredentials
  <2>3. x \in SignsIn(doc, u)
    BY <2>1, <2>2 DEF SignsIn, Signs
  <2>4. \A h \in Handlers : ~Unclaimed(h, u)
    <3>1. SUFFICES ASSUME NEW h \in Handlers, Unclaimed(h, u) PROVE FALSE
      OBVIOUS
    <3>2. PICK y : ForAddress(About(h), u, y)
      BY <2>1, <3>1, WhoIsKnown
    <3>3. Working(h)
      BY <3>1, ShortLists DEF Unclaimed, Working, Todo
    <3> QED BY <2>1, <3>2, <3>3 DEF ForAddress, Alters, AccountOf, WorksOn, About
  <2>5. AddressOf(x) \notin crossed
    BY <2>1 DEF AddressOf
  <2> QED BY <2>1, <2>3, <2>4, <2>5 DEF AccountInv, KeysAreKept
<1> QED BY <1>1, AccountsInductive, PTL

-----------------------------------------------------------------------------
(* The fields of every document, stored or about to be (the type invariant) *)

Users == [whole : BOOLEAN, provider : {None, "guest", "google", "email"}, email : Emails \cup {None},
          password : Passwords \cup {None}, version : Nat, verified : BOOLEAN]

(* A document whose readers find in it what they take, when the ids 1..n have been given out. *)
Fielded(key, value, n) ==
    /\ key[1] = "USER" => key[2] \in 1..n /\ value \in Users
    /\ key[1] \in {"LOGIN", "RESET"} => value \in 1..n
    /\ key[1] = "VERIFY" => value.user \in 1..n
    /\ key[1] = "LOCK" => value \in 1..LockAfter
    /\ key[1] \in {"MEMBER", "MEMBEROF"} => value \in Roles
    /\ key = Org => IsCompany(value) /\ value.owner \in 1..n /\ value.invite \in 1..n

Sound(t, n) ==
    /\ t.call \in {"put", "new"} => Fielded(t.key, t.value, n)
    /\ t.call = "password" => t.of.user \in 1..n /\ t.of.password \in Passwords
    /\ t.call \in {"verification", "answer"} => t.of \in 1..n
SoundList(s, n) == IsList(s) /\ \A i \in DOMAIN s : Sound(s[i], n)

FieldInv ==
    /\ minted \in Nat /\ requests \in 0..MaxRequests /\ deaths \in 0..MaxDeaths
    /\ leaving \cup gone \subseteq 1..minted
    /\ \A key \in DOMAIN doc : Fielded(key, doc[key], minted)
    /\ \A h \in Handlers : \A i \in DOMAIN Todo(h) : Sound(Todo(h)[i], minted)
    /\ \A h \in Handlers : Working(h) => handler[h].op \in menu

-----------------------------------------------------------------------------
(* What keeps the fields *)

LEMMA FieldedLater ==
  ASSUME NEW n \in Nat, NEW m \in Nat, n <= m
  PROVE  /\ \A key, value : Fielded(key, value, n) => Fielded(key, value, m)
         /\ \A t : Sound(t, n) => Sound(t, m)
<1>1. 1..n \subseteq 1..m
  OBVIOUS
<1>2. \A key, value : Fielded(key, value, n) => Fielded(key, value, m)
  BY <1>1 DEF Fielded
<1> QED BY <1>1, <1>2 DEF Sound

LEMMA SoundShort ==
  ASSUME NEW n
  PROVE  /\ SoundList(<<>>, n)
         /\ \A a : Sound(a, n) => SoundList(<<a>>, n)
         /\ \A a, b : Sound(a, n) /\ Sound(b, n) => SoundList(<<a, b>>, n)
<1>1. SoundList(<<>>, n)
  BY ShortLists DEF SoundList
<1>2. ASSUME NEW a, Sound(a, n) PROVE SoundList(<<a>>, n)
  <2> DEFINE s == <<a>>
  <2>1. IsList(s) /\ DOMAIN s = {1} /\ s[1] = a
    BY ShortLists
  <2> HIDE DEF s
  <2>2. SoundList(s, n)
    BY <1>2, <2>1 DEF SoundList
  <2> QED BY <2>2 DEF s
<1>3. ASSUME NEW a, NEW b, Sound(a, n), Sound(b, n) PROVE SoundList(<<a, b>>, n)
  <2> DEFINE s == <<a, b>>
  <2>1. IsList(s) /\ DOMAIN s = {1, 2} /\ s[1] = a /\ s[2] = b
    BY ShortLists
  <2> HIDE DEF s
  <2>2. SoundList(s, n)
    BY <1>3, <2>1 DEF SoundList
  <2> QED BY <2>2 DEF s
<1> QED BY <1>1, <1>2, <1>3

LEMMA SoundJoin ==
  ASSUME NEW p, NEW q, NEW n, SoundList(p, n), SoundList(q, n)
  PROVE  SoundList(p \o q, n)
<1>1. IsList(p) /\ IsList(q)
  BY DEF SoundList
<1>2. \A i \in DOMAIN (p \o q) : (\E j \in DOMAIN p : (p \o q)[i] = p[j]) \/ (\E j \in DOMAIN q : (p \o q)[i] = q[j])
  BY <1>1, ElementsOfJoin
<1>3. \A i \in DOMAIN (p \o q) : Sound((p \o q)[i], n)
  BY <1>2 DEF SoundList
<1> QED BY <1>1, <1>3, JoinFacts DEF SoundList

LEMMA SoundDeletes ==
  ASSUME NEW keys, IsFiniteSet(keys), NEW n
  PROVE  SoundList(DeleteAll(keys), n)
<1> DEFINE f == [key \in keys |-> Delete(key)]
           T == {f[key] : key \in keys}
<1>1. IsFiniteSet(T) /\ \A t \in T : Sound(t, n)
  <2>1. f = [key \in keys |-> f[key]]
    OBVIOUS
  <2>2. \A key \in keys : Sound(f[key], n)
    BY DEF Sound, Delete
  <2> HIDE DEF f
  <2> QED BY <2>1, <2>2, FiniteImage
<1>2. DeleteAll(keys) = SetToSeq(T)
  <2>1. {Delete(key) : key \in keys} = T
    OBVIOUS
  <2> QED BY <2>1 DEF DeleteAll
<1> HIDE DEF T
<1> QED BY <1>1, <1>2, SetToSeqFacts DEF SoundList

\* One request goes on to the calls l; the ids given out do not become fewer.
LEMMA FieldsGoOn ==
  ASSUME FieldInv, NEW h \in Handlers, NEW l, Todo(h)' = l, \A k \in Handlers \ {h} : Todo(k)' = Todo(k),
         minted' \in Nat, minted <= minted', leaving' \cup gone' \subseteq 1..minted',
         requests' \in 0..MaxRequests, deaths' \in 0..MaxDeaths,
         \A k \in Handlers : Working(k)' => handler'[k].op \in menu',
         \A i \in DOMAIN l : Sound(l[i], minted') \/ \E j \in DOMAIN Todo(h) : l[i] = Todo(h)[j],
         \A key \in DOMAIN doc' : (Held(key) /\ doc'[key] = doc[key]) \/ Fielded(key, doc'[key], minted')
  PROVE  FieldInv'
<1>1. minted \in Nat
  BY DEF FieldInv
<1>2. /\ \A key, value : Fielded(key, value, minted) => Fielded(key, value, minted')
      /\ \A t : Sound(t, minted) => Sound(t, minted')
  BY <1>1, FieldedLater
<1>3. \A key \in DOMAIN doc' : Fielded(key, doc'[key], minted')
  BY <1>2 DEF FieldInv, Held
<1>4. ASSUME NEW k \in Handlers, NEW i \in DOMAIN Todo(k)' PROVE Sound(Todo(k)'[i], minted')
  <2>1. Sound(Todo(k)'[i], minted') \/ \E j \in DOMAIN Todo(k) : Todo(k)'[i] = Todo(k)[j]
    BY <1>4
  <2> QED BY <1>2, <2>1 DEF FieldInv
<1> QED BY <1>3, <1>4 DEF FieldInv

LEMMA StartsSoundly ==
  ASSUME IInv, FieldInv, NEW h \in Handlers, NEW op, NEW about, NEW s, Starts(h, op, about, s),
         minted' \in Nat, minted <= minted', leaving' \cup gone' \subseteq 1..minted', SoundList(s, minted')
  PROVE  FieldInv'
<1>1. /\ Todo(h)' = s /\ doc' = doc /\ \A k \in Handlers \ {h} : Todo(k)' = Todo(k) /\ (Working(k)' <=> Working(k))
  BY AfterStarts DEF IInv
<1>2. /\ op \in menu /\ menu' = menu /\ deaths' = deaths /\ requests < MaxRequests /\ requests' = requests + 1
      /\ handler'[h].op = op /\ \A k \in Handlers \ {h} : handler'[k] = handler[k]
  BY DEF Starts, IInv, TypeInv
<1>3. requests' \in 0..MaxRequests /\ deaths' \in 0..MaxDeaths
  BY <1>2, DocumentStoreAssumption DEF FieldInv
<1>4. \A k \in Handlers : Working(k)' => handler'[k].op \in menu'
  BY <1>1, <1>2 DEF FieldInv
<1>5. \A i \in DOMAIN s : Sound(s[i], minted')
  BY DEF SoundList
<1> QED BY <1>1, <1>3, <1>4, <1>5, FieldsGoOn DEF Held

LEMMA ContinuesSoundly ==
  ASSUME IInv, FieldInv, NEW h \in Handlers, Working(h), NEW l, Continues(h, l),
         minted' \in Nat, minted <= minted', leaving' \cup gone' \subseteq 1..minted',
         \A i \in DOMAIN l : Sound(l[i], minted') \/ \E j \in DOMAIN Todo(h) : l[i] = Todo(h)[j],
         \A key \in DOMAIN doc' : (Held(key) /\ doc'[key] = doc[key]) \/ Fielded(key, doc'[key], minted')
  PROVE  FieldInv'
<1>1. Todo(h)' = l /\ \A k \in Handlers \ {h} : Todo(k)' = Todo(k) /\ (Working(k)' <=> Working(k))
  BY AfterContinues DEF IInv
<1>2. /\ menu' = menu /\ deaths' = deaths /\ requests' = requests
      /\ \A k \in Handlers \ {h} : handler'[k] = handler[k]
      /\ l # <<>> => handler'[h].op = handler[h].op
  BY DEF Continues, IInv, TypeInv
<1>3. Working(h)' => l # <<>>
  BY <1>1 DEF Working, Todo
<1>4. \A k \in Handlers : Working(k)' => handler'[k].op \in menu'
  BY <1>1, <1>2, <1>3 DEF FieldInv
<1>5. requests' \in 0..MaxRequests /\ deaths' \in 0..MaxDeaths
  BY <1>2 DEF FieldInv
<1> QED BY <1>1, <1>4, <1>5, FieldsGoOn

LEMMA ReadsOnSoundly ==
  ASSUME IInv, FieldInv, NEW h \in Handlers, Working(h), NEW p, Continues(h, p \o Next1(h)), doc' = doc,
         minted' \in Nat, minted <= minted', leaving' \cup gone' \subseteq 1..minted', SoundList(p, minted')
  PROVE  FieldInv'
<1> DEFINE q == Tail(Todo(h))
           l == p \o q
<1>1. Todo(h) # <<>> /\ IsList(Todo(h)) /\ Next1(h) = q
  BY AtWork DEF IInv
<1>2. IsList(p) /\ IsList(q)
  BY <1>1, TailOf DEF SoundList
<1>6. \A i \in DOMAIN q : \E j \in DOMAIN Todo(h) : q[i] = Todo(h)[j]
  BY <1>1, TailOf
<1>3. Continues(h, l)
  BY <1>1
<1> HIDE DEF q, l
<1>4. \A i \in DOMAIN l : (\E j \in DOMAIN p : l[i] = p[j]) \/ (\E j \in DOMAIN q : l[i] = q[j])
  BY <1>2, ElementsOfJoin DEF l
<1>5. \A i \in DOMAIN l : Sound(l[i], minted') \/ \E j \in DOMAIN Todo(h) : l[i] = Todo(h)[j]
  BY <1>4, <1>6 DEF SoundList
<1> QED BY <1>3, <1>5, ContinuesSoundly DEF Held

-----------------------------------------------------------------------------
(* The calls that keep them *)

LEMMA SoundCalls ==
  ASSUME NEW n
  PROVE  /\ \A key : Sound(Delete(key), n)
         /\ \A of : Sound(Later("memberships", of), n) /\ Sound(Later("acks", of), n)
         /\ \A key, value : Fielded(key, value, n) =>
              Sound(Put(key, value), n) /\ \A else : Sound(PutNew(key, value, else), n)
         /\ \A u \in 1..n : /\ Sound(Later("verification", u), n) /\ Sound(Later("answer", u), n)
                            /\ \A password \in Passwords : Sound(Later("password", [user |-> u, password |-> password]), n)
BY DEF Sound, Delete, Later, Put, PutNew

\* Documents of the other partitions have no fields that are read here.
LEMMA FreeKeys ==
  ASSUME NEW n
  PROVE  \A x, y, value : /\ Fielded(Training(x), value, n) /\ Fielded(Invite(x), value, n) /\ Fielded(Policy(x), value, n)
                          /\ Fielded(Ack(x, y), value, n) /\ Fielded(Signal(x), value, n)
BY DEF Fielded, Training, Invite, Policy, Ack, Signal, Org

LEMMA FieldedKeys ==
  ASSUME NEW n
  PROVE  /\ \A u \in 1..n, value \in Users : Fielded(User(u), value, n)
         /\ \A x : \A u \in 1..n : /\ Fielded(Login(x), u, n) /\ Fielded(Reset(x), u, n)
                                   /\ \A email : Fielded(Verify(x), [user |-> u, email |-> email], n)
         /\ \A x : \A tries \in 1..LockAfter : Fielded(Lock(x), tries, n)
         /\ \A x : \A role \in Roles : Fielded(Member(x), role, n) /\ Fielded(MemberOf(x), role, n)
         /\ \A c : IsCompany(c) /\ c.owner \in 1..n /\ c.invite \in 1..n => Fielded(Org, c, n)
<1>1. \A u \in 1..n, value \in Users : Fielded(User(u), value, n)
  BY DEF Fielded, User, Org
<1>2. \A x : \A u \in 1..n : Fielded(Login(x), u, n) /\ Fielded(Reset(x), u, n)
  BY DEF Fielded, Login, Reset, Org
<1>3. \A x : \A u \in 1..n : \A email : Fielded(Verify(x), [user |-> u, email |-> email], n)
  BY DEF Fielded, Verify, Org
<1>4. \A x : \A tries \in 1..LockAfter : Fielded(Lock(x), tries, n)
  BY DEF Fielded, Lock, Org
<1>5. \A x : \A role \in Roles : Fielded(Member(x), role, n) /\ Fielded(MemberOf(x), role, n)
  BY DEF Fielded, Member, MemberOf, Org
<1>6. \A c : IsCompany(c) /\ c.owner \in 1..n /\ c.invite \in 1..n => Fielded(Org, c, n)
  BY DEF Fielded, Org
<1> QED BY <1>1, <1>2, <1>3, <1>4, <1>5, <1>6

\* What a request reads of the documents it saves again.
LEMMA WhatIsRead ==
  ASSUME FieldInv
  PROVE  /\ minted \in Nat
         /\ \A u : Held(User(u)) => u \in 1..minted
         /\ \A u : SignedIn(u) => u \in 1..minted
         /\ \A u \in Accounts : u \in 1..minted
         /\ \A u : Account(u) \in Users
         /\ \A x : Held(Login(x)) => doc[Login(x)] \in 1..minted
         /\ \A key \in Partition("RESET") : doc[key] \in 1..minted
         /\ \A x : Tries(x) \in 0..LockAfter
         /\ Held(Org) => IsCompany(doc[Org]) /\ doc[Org].owner \in 1..minted /\ doc[Org].invite \in 1..minted
<1>1. minted \in Nat /\ \A key \in DOMAIN doc : Fielded(key, doc[key], minted)
  BY DEF FieldInv
<1>2. \A u : Held(User(u)) => u \in 1..minted /\ doc[User(u)] \in Users
  BY <1>1, CredentialKeys DEF Held, Fielded
<1>3. \A u : SignedIn(u) => u \in 1..minted
  BY <1>2 DEF SignedIn
<1>4. \A u \in Accounts : u \in 1..minted
  BY <1>1 DEF Accounts, Partition, Fielded
<1>5. NoFields \in Users
  BY DEF NoFields, Users
<1>6. \A u : Account(u) \in Users
  BY <1>2, <1>5 DEF Account
<1>7. \A x : Held(Login(x)) => doc[Login(x)] \in 1..minted
  BY <1>1, CredentialKeys DEF Held, Fielded
<1>8. \A key \in Partition("RESET") : doc[key] \in 1..minted
  BY <1>1 DEF Partition, Fielded
<1>9. \A x : Tries(x) \in 0..LockAfter
  <2>1. \A x : Lock(x)[1] = "LOCK"
    BY DEF Lock
  <2>2. \A x : Held(Lock(x)) => doc[Lock(x)] \in 1..LockAfter
    BY <1>1, <2>1 DEF Held, Fielded
  <2> QED BY <2>2, AccountsAssumption DEF Tries
<1>10. Held(Org) => IsCompany(doc[Org]) /\ doc[Org].owner \in 1..minted /\ doc[Org].invite \in 1..minted
  BY <1>1 DEF Held, Fielded
<1> QED BY <1>1, <1>2, <1>3, <1>4, <1>6, <1>7, <1>8, <1>9, <1>10

\* A record of any fields stays one when a field is replaced by a value it may have.
LEMMA ReplacedField ==
  ASSUME NEW B, NEW P, NEW E, NEW W, NEW N, NEW F,
         NEW v \in [whole : B, provider : P, email : E, password : W, version : N, verified : F]
  PROVE  /\ v.version \in N
         /\ \A x \in N : [v EXCEPT !.version = x] \in [whole : B, provider : P, email : E, password : W, version : N, verified : F]
         /\ \A x \in F : [v EXCEPT !.verified = x] \in [whole : B, provider : P, email : E, password : W, version : N, verified : F]
         /\ \A x \in W, y \in N : [v EXCEPT !.password = x, !.version = y]
                                    \in [whole : B, provider : P, email : E, password : W, version : N, verified : F]
OBVIOUS

LEMMA SavedUsers ==
  /\ \A v \in Users : [v EXCEPT !.version = @ + 1] \in Users /\ [v EXCEPT !.verified = TRUE] \in Users
  /\ \A v \in Users, password \in Passwords : [v EXCEPT !.password = password, !.version = @ + 1] \in Users
  /\ NewAccount("guest", None, None) \in Users /\ NewAccount("google", None, None) \in Users
  /\ \A email \in Emails, password \in Passwords : NewAccount("email", email, password) \in Users
<1>1. ASSUME NEW v \in Users
      PROVE  /\ [v EXCEPT !.version = @ + 1] \in Users /\ [v EXCEPT !.verified = TRUE] \in Users
             /\ \A password \in Passwords : [v EXCEPT !.password = password, !.version = @ + 1] \in Users
  <2>1. /\ v.version \in Nat /\ \A x \in Nat : [v EXCEPT !.version = x] \in Users
        /\ \A x \in BOOLEAN : [v EXCEPT !.verified = x] \in Users
        /\ \A x \in Passwords \cup {None}, y \in Nat : [v EXCEPT !.password = x, !.version = y] \in Users
    BY ReplacedField DEF Users
  <2> DEFINE y == v.version + 1
  <2>0. v.version \in Nat
    BY <2>1
  <2>2. y \in Nat
    BY <2>0
  <2>3. [v EXCEPT !.version = y] \in Users
    BY <2>1, <2>2
  <2>4. [v EXCEPT !.verified = TRUE] \in Users
    BY <2>1, Zenon
  <2>5. \A password \in Passwords : [v EXCEPT !.password = password, !.version = y] \in Users
    BY <2>1, <2>2
  <2> QED BY <2>3, <2>4, <2>5
<1>2. /\ NewAccount("guest", None, None) \in Users /\ NewAccount("google", None, None) \in Users
      /\ \A email \in Emails, password \in Passwords : NewAccount("email", email, password) \in Users
  BY DEF Users, NewAccount
<1> QED BY <1>1, <1>2

-----------------------------------------------------------------------------
(* The requests on accounts and companies save only fields that fit *)

LEMMA BegunSoundly ==
  ASSUME IInv, FieldInv, NEW h \in Handlers, NEW n \in {0, 1},
         \E op, about, s : /\ Starts(h, op, about, s) /\ minted' = minted + n
                           /\ leaving' = leaving /\ gone' = gone /\ SoundList(s, minted')
  PROVE  FieldInv'
<1>1. PICK op, about, s : /\ Starts(h, op, about, s) /\ minted' = minted + n
                          /\ leaving' = leaving /\ gone' = gone /\ SoundList(s, minted')
  OBVIOUS
<1>2. minted \in Nat /\ leaving \cup gone \subseteq 1..minted
  BY DEF FieldInv
<1>3. minted' \in Nat /\ minted <= minted' /\ leaving' \cup gone' \subseteq 1..minted'
  BY <1>1, <1>2
<1> QED BY <1>1, <1>3, StartsSoundly

LEMMA VerificationIsSound ==
  ASSUME FieldInv, NEW u \in 1..minted, minted' = minted + 1
  PROVE  SoundList(Verification(u), minted')
<1> DEFINE found == Account(u)
           token == minted + 1
           a == Put(User(u), found)
           b == Put(Verify(token), [user |-> u, email |-> found.email])
<1>1. u \in 1..minted' /\ found \in Users
  BY WhatIsRead
<1>2. Fielded(User(u), found, minted') /\ Fielded(Verify(token), [user |-> u, email |-> found.email], minted')
  BY <1>1, FieldedKeys
<1>3. Sound(a, minted') /\ Sound(b, minted')
  BY <1>2, SoundCalls
<1>4. Verification(u) = <<a, b>>
  BY DEF Verification
<1> HIDE DEF a, b
<1> QED BY <1>3, <1>4, SoundShort

LEMMA SetPasswordIsSound ==
  ASSUME FieldInv, NEW u \in 1..minted, NEW password \in Passwords, minted' = minted
  PROVE  SoundList(SetPassword(u, password), minted')
<1> DEFINE found == Account(u)
           changed == [found EXCEPT !.password = password, !.version = @ + 1]
           a == Put(User(u), changed)
           b == Delete(Lock(found.email))
           q == IF found.email = None THEN <<>> ELSE <<b>>
<1>1. found \in Users
  BY WhatIsRead
<1>2. changed \in Users
  BY <1>1, SavedUsers
<1>3. SetPassword(u, password) = <<a>> \o q
  BY DEF SetPassword
<1> HIDE DEF changed
<1>4. Sound(a, minted') /\ Sound(b, minted')
  BY <1>2, FieldedKeys, SoundCalls
<1> HIDE DEF a, b
<1>5. SoundList(<<a>>, minted') /\ SoundList(q, minted')
  BY <1>4, SoundShort
<1> HIDE DEF q
<1> QED BY <1>3, <1>5, SoundJoin

LEMMA SignsUpIsSound ==
  ASSUME IInv, FieldInv, NEW h \in Handlers, SignsUp(h)
  PROVE  FieldInv'
<1>1. minted \in Nat /\ minted + 1 \in 1..minted + 1
  BY DEF FieldInv
<1> DEFINE u == minted + 1
           Begun(n) == \E op, about, s : /\ Starts(h, op, about, s) /\ minted' = minted + n
                                         /\ leaving' = leaving /\ gone' = gone /\ SoundList(s, minted')
<1>2. Begun(0) \/ Begun(1) => FieldInv'
  BY BegunSoundly
<1> HIDE DEF Begun
<1>3. CASE Guest(h)
  <2> DEFINE a == Put(User(u), NewAccount("guest", None, None))
             s == <<a>>
  <2>1. Starts(h, "guest", NoTopic, s) /\ minted' = minted + 1 /\ leaving' = leaving /\ gone' = gone
    BY <1>3 DEF Guest, Mints, Others, accountVars
  <2>2. Sound(a, minted')
    BY <1>1, <2>1, SavedUsers, FieldedKeys, SoundCalls
  <2> HIDE DEF a
  <2>3. SoundList(s, minted')
    BY <2>2, SoundShort
  <2> HIDE DEF s
  <2> QED BY <1>2, <2>1, <2>3 DEF Begun
<1>4. ASSUME NEW email \in Emails, NEW password \in Passwords, Register(h, email, password) PROVE FieldInv'
  <2> DEFINE about == And(OfAccount(u, "create"), OfLogin(email, "claim"))
             a == Put(User(u), NewAccount("email", email, password))
             b == PutNew(Login(email), u, User(u))
             c == Later("verification", u)
             q == IF MailEnabled THEN <<c>> ELSE <<>>
             s == <<a>> \o <<b>> \o q
  <2>1. Starts(h, "register", about, s) /\ minted' = minted + 1 /\ leaving' = leaving /\ gone' = gone
    BY <1>4 DEF Register, Claims, Mints, Others, accountVars
  <2>2. Sound(a, minted') /\ Sound(b, minted') /\ Sound(c, minted')
    <3>1. Fielded(User(u), NewAccount("email", email, password), minted') /\ Fielded(Login(email), u, minted')
      BY <1>1, <2>1, SavedUsers, FieldedKeys
    <3> QED BY <1>1, <2>1, <3>1, SoundCalls
  <2> HIDE DEF a, b, c
  <2>3. SoundList(<<a>>, minted') /\ SoundList(<<b>>, minted') /\ SoundList(q, minted')
    BY <2>2, SoundShort
  <2> HIDE DEF q, about
  <2>4. SoundList(s, minted')
    <3> DEFINE p == <<a>> \o <<b>>
    <3>1. SoundList(p, minted')
      BY <2>3, SoundJoin
    <3>2. s = p \o q
      OBVIOUS
    <3> HIDE DEF p, s
    <3> QED BY <2>3, <3>1, <3>2, SoundJoin
  <2> HIDE DEF s
  <2> QED BY <1>2, <2>1, <2>4 DEF Begun
<1>5. ASSUME NEW subject \in Subjects, Google(h, subject) PROVE FieldInv'
  <2> DEFINE about == And(OfAccount(u, "create"), OfLogin(subject, "google"))
             a == Put(User(u), NewAccount("google", None, None))
             b == Put(Login(subject), u)
             s == <<a, b>>
  <2>1. Starts(h, "google", about, s) /\ minted' = minted + 1 /\ leaving' = leaving /\ gone' = gone
    BY <1>5 DEF Google, Mints, Others, accountVars
  <2>2. Sound(a, minted') /\ Sound(b, minted')
    BY <1>1, <2>1, SavedUsers, FieldedKeys, SoundCalls
  <2> HIDE DEF a, b, about
  <2>3. SoundList(s, minted')
    BY <2>2, SoundShort
  <2> HIDE DEF s
  <2> QED BY <1>2, <2>1, <2>3 DEF Begun
<1>6. ASSUME NEW email \in Emails, NEW password \in Passwords, NEW elapsed \in BOOLEAN,
             SignIn(h, email, password, elapsed)
      PROVE  FieldInv'
  <2> DEFINE tries == IF elapsed THEN 0 ELSE Tries(email)
             a == Delete(Lock(email))
             b == Put(Lock(email), tries + 1)
  <2>1. /\ ~Locked(tries) /\ minted' = minted + 0 /\ leaving' = leaving /\ gone' = gone
        /\ Starts(h, "login", NoTopic, <<a>>) \/ Starts(h, "login", NoTopic, <<b>>)
    BY <1>6 DEF SignIn, Mints, Others, accountVars
  <2>2. tries \in 0..LockAfter
    BY WhatIsRead, AccountsAssumption
  <2>3. tries + 1 \in 1..LockAfter
    BY <2>1, <2>2, AccountsAssumption DEF Locked
  <2>4. Sound(a, minted') /\ Sound(b, minted')
    BY <2>3, FieldedKeys, SoundCalls
  <2> HIDE DEF a, b
  <2>5. SoundList(<<a>>, minted') /\ SoundList(<<b>>, minted')
    BY <2>4, SoundShort
  <2> QED BY <1>2, <2>1, <2>5 DEF Begun
<1> QED BY <1>3, <1>4, <1>5, <1>6 DEF SignsUp

LEMMA DeleteAccountIsSound ==
  ASSUME IInv, FieldInv, NEW h \in Handlers, NEW u \in Accounts, DeleteAccount(h, u)
  PROVE  FieldInv'
<1> DEFINE keys == KeysOf(u)
           about == And(OfMembership(u, None),
                        [topic \in {<<"account", u>>, <<"training", u>>} \cup {<<"login", key[2]>> : key \in keys} |-> "delete"])
           p == DeleteAll(keys)
           q == <<Later("memberships", u), Delete(Training(u)), Delete(User(u)), Later("answer", u)>>
           s == p \o q
<1>1. minted \in Nat /\ leaving \cup gone \subseteq 1..minted /\ u \in 1..minted
  BY WhatIsRead DEF FieldInv
<1>2. Starts(h, "delete", about, s) /\ minted' = minted /\ leaving' = leaving \cup {u} /\ gone' = gone
  <2>1. Starts(h, "delete", about, s)
    BY DEF DeleteAccount
  <2>2. minted' = minted /\ leaving' = leaving \cup {u} /\ gone' = gone
    BY <1>1 DEF DeleteAccount, Mints
  <2> QED BY <2>1, <2>2
<1>3. SoundList(p, minted')
  <2>1. IsFiniteSet(keys)
    BY PartitionIsFinite DEF KeysOf, Partition, IInv
  <2> HIDE DEF keys
  <2> QED BY <2>1, SoundDeletes
<1>4. SoundList(q, minted')
  <2> DEFINE a == Later("memberships", u)
             b == Delete(Training(u))
             c == Delete(User(u))
             d == Later("answer", u)
  <2>1. Sound(a, minted') /\ Sound(b, minted') /\ Sound(c, minted') /\ Sound(d, minted')
    BY <1>1, <1>2, SoundCalls
  <2>2. q = <<a, b, c, d>>
    OBVIOUS
  <2> HIDE DEF a, b, c, d, q
  <2>3. IsList(q) /\ \A i \in DOMAIN q : q[i] = a \/ q[i] = b \/ q[i] = c \/ q[i] = d
    BY <2>2, LongLists
  <2> QED BY <2>1, <2>3 DEF SoundList
<1> HIDE DEF p, q, about, keys
<1>5. SoundList(s, minted')
  BY <1>3, <1>4, SoundJoin
<1>6. minted' \in Nat /\ minted <= minted' /\ leaving' \cup gone' \subseteq 1..minted'
  BY <1>1, <1>2
<1> HIDE DEF s
<1> QED BY <1>2, <1>5, <1>6, StartsSoundly

LEMMA OwnRequestIsSound ==
  ASSUME IInv, FieldInv, NEW h \in Handlers, OwnRequest(h)
  PROVE  FieldInv'
<1>1. minted \in Nat /\ minted + 0 = minted /\ 1..minted \subseteq 1..minted + 1
  BY DEF FieldInv
<1> DEFINE Begun(n) == \E op, about, s : /\ Starts(h, op, about, s) /\ minted' = minted + n
                                         /\ leaving' = leaving /\ gone' = gone /\ SoundList(s, minted')
<1>2. Begun(0) \/ Begun(1) => FieldInv'
  BY BegunSoundly
<1> HIDE DEF Begun
\* An account is saved again.
<1>3. ASSUME NEW u \in 1..minted, NEW v \in Users, NEW op, NEW about, Starts(h, op, about, <<Put(User(u), v)>>),
             minted' = minted + 0, leaving' = leaving, gone' = gone
      PROVE  FieldInv'
  <2> DEFINE a == Put(User(u), v)
             s == <<a>>
  <2>1. Sound(a, minted')
    BY <1>1, <1>3, FieldedKeys, SoundCalls
  <2>2. Starts(h, op, about, s)
    BY <1>3
  <2> HIDE DEF a
  <2>3. SoundList(s, minted')
    BY <2>1, SoundShort
  <2> HIDE DEF s
  <2> QED BY <1>2, <1>3, <2>2, <2>3 DEF Begun
<1>4. ASSUME NEW u \in Accounts, Rename(h, u) PROVE FieldInv'
  <2> DEFINE v == Account(u)
             about == OfAccount(u, "rename")
  <2>1. Starts(h, "rename", about, <<Put(User(u), v)>>) /\ minted' = minted + 0 /\ leaving' = leaving /\ gone' = gone
    BY <1>4 DEF Rename, Mints, Others, accountVars
  <2>2. u \in 1..minted /\ v \in Users
    BY WhatIsRead
  <2> HIDE DEF v, about
  <2> QED BY <1>3, <2>1, <2>2
<1>5. ASSUME NEW u \in Accounts, SignOutEverywhere(h, u) PROVE FieldInv'
  <2> DEFINE v == [Account(u) EXCEPT !.version = @ + 1]
             about == OfAccount(u, "version")
  <2>1. Starts(h, "sign out", about, <<Put(User(u), v)>>)
    BY <1>5 DEF SignOutEverywhere
  <2>2. minted' = minted + 0 /\ leaving' = leaving /\ gone' = gone
    BY <1>5 DEF SignOutEverywhere, Mints, Others, accountVars
  <2>3. u \in 1..minted /\ v \in Users
    BY WhatIsRead, SavedUsers
  <2> HIDE DEF v, about
  <2> QED BY <1>3, <2>1, <2>2, <2>3
<1>6. ASSUME NEW u \in Accounts, NEW password \in Passwords, ChangePassword(h, u, password) PROVE FieldInv'
  <2> DEFINE a == Later("password", [user |-> u, password |-> password])
             s == <<a>>
             about == OfAccount(u, "password")
  <2>1. Starts(h, "change password", about, s)
    BY <1>6 DEF ChangePassword
  <2>2. minted' = minted + 0 /\ leaving' = leaving /\ gone' = gone
    BY <1>6 DEF ChangePassword, Mints, Others, accountVars
  <2>3. Sound(a, minted')
    BY <1>1, <2>2, WhatIsRead, SoundCalls
  <2> HIDE DEF a
  <2>4. SoundList(s, minted')
    BY <2>3, SoundShort
  <2> HIDE DEF s, about
  <2> QED BY <1>2, <2>1, <2>2, <2>4 DEF Begun
<1>7. ASSUME NEW email \in Emails, RequestReset(h, email) PROVE FieldInv'
  <2> DEFINE u == doc[Login(email)]
             a == Put(Reset(minted + 1), u)
             s == <<a>>
  <2>1. /\ Starts(h, "request reset", NoTopic, s) /\ minted' = minted + 1 /\ leaving' = leaving /\ gone' = gone
        /\ Held(Login(email))
    BY <1>7 DEF RequestReset, Mints, Others, accountVars
  <2>2. u \in 1..minted'
    BY <1>1, <2>1, WhatIsRead
  <2> HIDE DEF u
  <2>3. Sound(a, minted')
    BY <2>2, FieldedKeys, SoundCalls
  <2> HIDE DEF a
  <2>4. SoundList(s, minted')
    BY <2>3, SoundShort
  <2> HIDE DEF s
  <2> QED BY <1>2, <2>1, <2>4 DEF Begun
<1>8. ASSUME NEW actor \in Accounts, NEW u \in Accounts, AdminReset(h, actor, u) PROVE FieldInv'
  <2> DEFINE a == Put(Reset(minted + 1), u)
             s == <<a>>
  <2>1. Starts(h, "admin reset", NoTopic, s) /\ minted' = minted + 1 /\ leaving' = leaving /\ gone' = gone
    BY <1>8 DEF AdminReset, Mints, Others, accountVars
  <2>2. u \in 1..minted'
    BY <1>1, <2>1, WhatIsRead
  <2>3. Sound(a, minted')
    BY <2>2, FieldedKeys, SoundCalls
  <2> HIDE DEF a
  <2>4. SoundList(s, minted')
    BY <2>3, SoundShort
  <2> HIDE DEF s
  <2> QED BY <1>2, <2>1, <2>4 DEF Begun
<1>9. ASSUME NEW key \in Partition("RESET"), NEW password \in Passwords, ResetPassword(h, key, password) PROVE FieldInv'
  <2> DEFINE u == doc[key]
             a == Later("password", [user |-> u, password |-> password])
             b == Delete(key)
             s == <<a, b>>
             about == OfAccount(u, "password")
  <2>1. Starts(h, "reset", about, s) /\ minted' = minted + 0 /\ leaving' = leaving /\ gone' = gone
    BY <1>9 DEF ResetPassword, Mints, Others, accountVars
  <2>2. u \in 1..minted'
    BY <1>1, <2>1, WhatIsRead
  <2> HIDE DEF u
  <2>3. Sound(a, minted') /\ Sound(b, minted')
    BY <2>2, SoundCalls
  <2> HIDE DEF a, b
  <2>4. SoundList(s, minted')
    BY <2>3, SoundShort
  <2> HIDE DEF s, about
  <2> QED BY <1>2, <2>1, <2>4 DEF Begun
<1>10. ASSUME NEW u \in Accounts, SendVerification(h, u) PROVE FieldInv'
  <2> DEFINE about == OfAccount(u, "verification")
             s == Verification(u)
  <2>1. Starts(h, "verification", about, s) /\ minted' = minted + 1 /\ leaving' = leaving /\ gone' = gone
    BY <1>10 DEF SendVerification, Mints, Others, accountVars
  <2>2. SoundList(s, minted')
    BY <2>1, WhatIsRead, VerificationIsSound
  <2> HIDE DEF s, about
  <2> QED BY <1>2, <2>1, <2>2 DEF Begun
<1>11. ASSUME NEW key \in Partition("VERIFY"), ConfirmEmail(h, key) PROVE FieldInv'
  <2> DEFINE u == doc[key].user
             v == [Account(u) EXCEPT !.verified = TRUE]
             fits == Held(User(u)) /\ doc[User(u)].email = doc[key].email
             a == Put(User(u), v)
             p == IF fits THEN <<a>> ELSE <<>>
             b == Delete(key)
             s == p \o <<b>>
             about == OfAccount(u, "confirm")
  <2>1. Starts(h, "confirm", about, s) /\ minted' = minted + 0 /\ leaving' = leaving /\ gone' = gone
    BY <1>11 DEF ConfirmEmail, Mints, Others, accountVars
  <2>2. u \in 1..minted'
    BY <1>1, <2>1 DEF FieldInv, Partition, Fielded
  <2>3. v \in Users
    BY WhatIsRead, SavedUsers
  <2> HIDE DEF u, v
  <2>4. Sound(a, minted') /\ Sound(b, minted')
    BY <2>2, <2>3, FieldedKeys, SoundCalls
  <2> HIDE DEF a, b, fits
  <2>5. SoundList(p, minted') /\ SoundList(<<b>>, minted')
    BY <2>4, SoundShort
  <2> HIDE DEF p
  <2>6. SoundList(s, minted')
    BY <2>5, SoundJoin
  <2> HIDE DEF s, about
  <2> QED BY <1>2, <2>1, <2>6 DEF Begun
<1>12. ASSUME NEW u \in Accounts, NEW passed \in BOOLEAN, NEW marked \in BOOLEAN, RecordTraining(h, u, passed, marked)
       PROVE  FieldInv'
  <2> DEFINE about == OfTraining(u, h)
             a == Put(Training(u), Merged(Record(u), passed, marked))
             s == <<a>>
  <2>1. Starts(h, "training", about, s) /\ minted' = minted + 0 /\ leaving' = leaving /\ gone' = gone
    BY <1>12 DEF RecordTraining, Mints, Others, accountVars
  <2>2. Sound(a, minted')
    BY FreeKeys, SoundCalls
  <2> HIDE DEF a
  <2>3. SoundList(s, minted')
    BY <2>2, SoundShort
  <2> HIDE DEF s, about
  <2> QED BY <1>2, <2>1, <2>3 DEF Begun
<1> QED BY <1>4, <1>5, <1>6, <1>7, <1>8, <1>9, <1>10, <1>11, <1>12, DeleteAccountIsSound DEF OwnRequest

LEMMA SavedCompanies ==
  ASSUME NEW n, NEW c, IsCompany(c), c.owner \in 1..n, c.invite \in 1..n
  PROVE  /\ \A x \in 1..n : Fielded(Org, [c EXCEPT !.invite = x], n)
         /\ \A x : Fielded(Org, [c EXCEPT !.intake = x], n)
<1>1. ASSUME NEW x \in 1..n PROVE Fielded(Org, [c EXCEPT !.invite = x], n)
  <2> DEFINE d == [c EXCEPT !.invite = x]
  <2>1. d = [owner |-> c.owner, invite |-> x, intake |-> c.intake]
    BY DEF IsCompany
  <2> HIDE DEF d
  <2>2. IsCompany(d) /\ d.owner = c.owner /\ d.invite = x
    BY <2>1 DEF IsCompany
  <2> QED BY <2>2, FieldedKeys DEF d
<1>2. ASSUME NEW x PROVE Fielded(Org, [c EXCEPT !.intake = x], n)
  <2> DEFINE d == [c EXCEPT !.intake = x]
  <2>1. d = [owner |-> c.owner, invite |-> c.invite, intake |-> x]
    BY DEF IsCompany
  <2> HIDE DEF d
  <2>2. IsCompany(d) /\ d.owner = c.owner /\ d.invite = c.invite
    BY <2>1 DEF IsCompany
  <2> QED BY <2>2, FieldedKeys DEF d
<1> QED BY <1>1, <1>2

LEMMA CompanyRequestIsSound ==
  ASSUME IInv, FieldInv, NEW h \in Handlers, CompanyRequest(h)
  PROVE  FieldInv'
<1>1. /\ minted \in Nat /\ minted + 0 = minted /\ 1..minted \subseteq 1..minted + 1
      /\ minted + 1 \in 1..minted + 1
  BY DEF FieldInv
<1> DEFINE Begun(n) == \E op, about, s : /\ Starts(h, op, about, s) /\ minted' = minted + n
                                         /\ leaving' = leaving /\ gone' = gone /\ SoundList(s, minted')
<1>2. Begun(0) \/ Begun(1) => FieldInv'
  BY BegunSoundly
<1> HIDE DEF Begun
\* A call or two are begun.
<1>3. ASSUME NEW a, Sound(a, minted'), NEW n \in {0, 1}, minted' = minted + n, leaving' = leaving, gone' = gone,
             \E op, about : Starts(h, op, about, <<a>>)
      PROVE  FieldInv'
  <2> DEFINE s == <<a>>
  <2>1. SoundList(s, minted') /\ \E op, about : Starts(h, op, about, s)
    BY <1>3, SoundShort
  <2> HIDE DEF s
  <2> QED BY <1>2, <1>3, <2>1 DEF Begun
<1>4. ASSUME NEW a, NEW b, Sound(a, minted'), Sound(b, minted'), minted' = minted + 0, leaving' = leaving, gone' = gone,
             \E op, about : Starts(h, op, about, <<a, b>>)
      PROVE  FieldInv'
  <2> DEFINE s == <<a, b>>
  <2>1. SoundList(s, minted') /\ \E op, about : Starts(h, op, about, s)
    BY <1>4, SoundShort
  <2> HIDE DEF s
  <2> QED BY <1>2, <1>4, <2>1 DEF Begun
<1>5. \A u : \A role \in Roles : Sound(Put(Member(u), role), minted') /\ Sound(Put(MemberOf(u), role), minted')
  BY FieldedKeys, SoundCalls
<1>6. ASSUME NEW u \in Accounts, CreateCompany(h, u) PROVE FieldInv'
  <2> DEFINE code == minted + 1
             about == And(OfCompany("create"), OfMembership(u, "owner"))
             c == [owner |-> u, invite |-> code, intake |-> None]
             a == Put(Org, c)
             b == Put(Invite(code), Company)
             p == <<a, b>>
             q == Joins(u, "owner")
             s == p \o q
  <2>1. Starts(h, "create", about, s) /\ minted' = minted + 1 /\ leaving' = leaving /\ gone' = gone
    BY <1>6 DEF CreateCompany, Mints, Others, accountVars
  <2>2. IsCompany(c) /\ c.owner = u /\ c.invite = code
    BY DEF IsCompany
  <2> HIDE DEF c
  <2>3. Sound(a, minted') /\ Sound(b, minted')
    BY <1>1, <2>1, <2>2, WhatIsRead, FieldedKeys, FreeKeys, SoundCalls
  <2> HIDE DEF a, b
  <2>4. SoundList(p, minted')
    BY <2>3, SoundShort
  <2>5. SoundList(q, minted')
    BY <1>5, SoundShort DEF Joins, Roles
  <2> HIDE DEF p, q, about
  <2>6. SoundList(s, minted')
    BY <2>4, <2>5, SoundJoin
  <2> HIDE DEF s
  <2> QED BY <1>2, <2>1, <2>6 DEF Begun
<1>7. ASSUME NEW u \in Accounts, NEW code \in Codes, Join(h, u, code) PROVE FieldInv'
  <2> DEFINE about == OfMembership(u, "employee")
             a == Put(Member(u), "employee")
             b == Put(MemberOf(u), "employee")
  <2>1. Starts(h, "join", about, <<a, b>>) /\ minted' = minted + 0 /\ leaving' = leaving /\ gone' = gone
    BY <1>7 DEF Join, Joins, Mints, Others, accountVars
  <2>2. Sound(a, minted') /\ Sound(b, minted')
    BY <1>5 DEF Roles
  <2> HIDE DEF a, b, about
  <2> QED BY <1>4, <2>1, <2>2
<1>8. ASSUME NEW actor \in Accounts, RotateInvite(h, actor) PROVE FieldInv'
  <2> DEFINE code == minted + 1
             about == OfCompany("rotate")
             a == Delete(Invite(doc[Org].invite))
             b == Put(Org, [doc[Org] EXCEPT !.invite = code])
             c == Put(Invite(code), Company)
             s == <<a, b, c>>
  <2>1. Starts(h, "rotate", about, s) /\ minted' = minted + 1 /\ leaving' = leaving /\ gone' = gone /\ Held(Org)
    BY <1>8 DEF RotateInvite, IsAdmin, Rotates, Mints, Others, accountVars
  <2>2. Fielded(Org, [doc[Org] EXCEPT !.invite = code], minted')
    BY <1>1, <2>1, WhatIsRead, SavedCompanies
  <2>3. Sound(a, minted') /\ Sound(b, minted') /\ Sound(c, minted')
    BY <2>2, FreeKeys, SoundCalls
  <2> HIDE DEF a, b, c
  <2>4. IsList(s) /\ DOMAIN s = {1, 2, 3} /\ s[1] = a /\ s[2] = b /\ s[3] = c
    BY LongLists
  <2> HIDE DEF s, about
  <2>5. SoundList(s, minted')
    BY <2>3, <2>4 DEF SoundList
  <2> QED BY <1>2, <2>1, <2>5 DEF Begun
<1>9. ASSUME NEW actor \in Accounts, NEW u \in Accounts, NEW role \in {"admin", "employee"}, SetRole(h, actor, u, role)
      PROVE  FieldInv'
  <2> DEFINE about == OfMembership(u, role)
             a == Put(Member(u), role)
             b == Put(MemberOf(u), role)
  <2>1. Starts(h, "set role", about, <<a, b>>) /\ minted' = minted + 0 /\ leaving' = leaving /\ gone' = gone
    BY <1>9 DEF SetRole, Joins, Mints, Others, accountVars
  <2>2. Sound(a, minted') /\ Sound(b, minted')
    BY <1>5 DEF Roles
  <2> HIDE DEF a, b, about
  <2> QED BY <1>4, <2>1, <2>2
<1>10. ASSUME NEW actor \in Accounts, NEW u \in Accounts, RemoveMember(h, actor, u) PROVE FieldInv'
  <2> DEFINE about == OfMembership(u, None)
             a == Delete(Member(u))
             b == Delete(MemberOf(u))
  <2>1. Starts(h, "remove", about, <<a, b>>) /\ minted' = minted + 0 /\ leaving' = leaving /\ gone' = gone
    BY <1>10 DEF RemoveMember, Leaves, Mints, Others, accountVars
  <2>2. Sound(a, minted') /\ Sound(b, minted')
    BY SoundCalls
  <2> HIDE DEF a, b, about
  <2> QED BY <1>4, <2>1, <2>2
<1>11. ASSUME NEW actor \in Accounts, UpdateSettings(h, actor) PROVE FieldInv'
  <2> DEFINE about == OfCompany("settings")
             a == Put(Org, doc[Org])
  <2>1. Starts(h, "settings", about, <<a>>) /\ minted' = minted + 0 /\ leaving' = leaving /\ gone' = gone /\ Held(Org)
    BY <1>11 DEF UpdateSettings, IsAdmin, Mints, Others, accountVars
  <2>2. Sound(a, minted')
    BY <1>1, <2>1, WhatIsRead, FieldedKeys, SoundCalls
  <2> HIDE DEF a, about
  <2> QED BY <1>3, <2>1, <2>2
<1>12. ASSUME NEW actor \in Accounts, CreateIngestKey(h, actor) PROVE FieldInv'
  <2> DEFINE about == OfCompany("intake")
             a == Put(Org, [doc[Org] EXCEPT !.intake = ToString(minted + 1)])
  <2>1. Starts(h, "intake key", about, <<a>>) /\ minted' = minted + 1 /\ leaving' = leaving /\ gone' = gone /\ Held(Org)
    BY <1>12 DEF CreateIngestKey, IsAdmin, Mints, Others, accountVars
  <2>2. Sound(a, minted')
    BY <1>1, <2>1, WhatIsRead, SavedCompanies, SoundCalls
  <2> HIDE DEF a, about
  <2> QED BY <1>3, <2>1, <2>2
<1>13. ASSUME NEW actor \in Accounts, RevokeIngestKey(h, actor) PROVE FieldInv'
  <2> DEFINE about == OfCompany("intake")
             a == Put(Org, [doc[Org] EXCEPT !.intake = None])
  <2>1. Starts(h, "revoke key", about, <<a>>) /\ minted' = minted + 0 /\ leaving' = leaving /\ gone' = gone /\ Held(Org)
    BY <1>13 DEF RevokeIngestKey, IsAdmin, Mints, Others, accountVars
  <2>2. Sound(a, minted')
    BY <1>1, <2>1, WhatIsRead, SavedCompanies, SoundCalls
  <2> HIDE DEF a, about
  <2> QED BY <1>3, <2>1, <2>2
<1>14. CASE Ingest(h)
  <2> DEFINE a == Put(Signal(minted + 1), None)
  <2>1. Starts(h, "ingest", NoTopic, <<a>>) /\ minted' = minted + 1 /\ leaving' = leaving /\ gone' = gone
    BY <1>14 DEF Ingest, Mints, Others, accountVars
  <2>2. Sound(a, minted')
    BY FreeKeys, SoundCalls
  <2> HIDE DEF a
  <2> QED BY <1>3, <2>1, <2>2
<1>15. ASSUME NEW actor \in Accounts, AddPolicy(h, actor) PROVE FieldInv'
  <2> DEFINE a == Put(Policy(minted + 1), actor)
  <2>1. Starts(h, "add policy", NoTopic, <<a>>) /\ minted' = minted + 1 /\ leaving' = leaving /\ gone' = gone
    BY <1>15 DEF AddPolicy, Mints, Others, accountVars
  <2>2. Sound(a, minted')
    BY FreeKeys, SoundCalls
  <2> HIDE DEF a
  <2> QED BY <1>3, <2>1, <2>2
<1>16. ASSUME NEW actor \in Accounts, NEW key \in Partition("POLICY"), RemovePolicy(h, actor, key) PROVE FieldInv'
  <2> DEFINE a == Delete(key)
             b == Later("acks", key[2])
  <2>1. Starts(h, "remove policy", NoTopic, <<a, b>>) /\ minted' = minted + 0 /\ leaving' = leaving /\ gone' = gone
    BY <1>16 DEF RemovePolicy, Mints, Others, accountVars
  <2>2. Sound(a, minted') /\ Sound(b, minted')
    BY SoundCalls
  <2> HIDE DEF a, b
  <2> QED BY <1>4, <2>1, <2>2
<1>17. ASSUME NEW u \in Accounts, NEW key \in Partition("POLICY"), Acknowledge(h, u, key) PROVE FieldInv'
  <2> DEFINE a == Put(Ack(key[2], u), None)
  <2>1. Starts(h, "acknowledge", NoTopic, <<a>>) /\ minted' = minted + 0 /\ leaving' = leaving /\ gone' = gone
    BY <1>17 DEF Acknowledge, Mints, Others, accountVars
  <2>2. Sound(a, minted')
    BY FreeKeys, SoundCalls
  <2> HIDE DEF a
  <2> QED BY <1>3, <2>1, <2>2
<1> QED BY <1>6, <1>7, <1>8, <1>9, <1>10, <1>11, <1>12, <1>13, <1>14, <1>15, <1>16, <1>17 DEF CompanyRequest

-----------------------------------------------------------------------------
(* Every other step keeps the fields *)

LEMMA ReadAgainIsSound ==
  ASSUME IInv, FieldInv, NEW h \in Handlers, ReadAgain(h)
  PROVE  FieldInv'
<1> DEFINE t == Todo(h)[1]
           p == Decided(t)
<1>1. /\ Working(h) /\ t.call \in {"password", "memberships", "acks", "verification"}
      /\ Continues(h, p \o Next1(h)) /\ doc' = doc /\ leaving' = leaving /\ gone' = gone
      /\ minted' = minted + (IF t.call = "verification" THEN 1 ELSE 0)
  BY AtWork DEF ReadAgain, Mints, Others, accountVars, IInv
<1>2. minted \in Nat /\ leaving \cup gone \subseteq 1..minted /\ Sound(t, minted)
  <2>1. 1 \in DOMAIN Todo(h)
    BY <1>1, AtWork DEF IInv
  <2> QED BY <2>1 DEF FieldInv
<1>3. minted' \in Nat /\ minted <= minted' /\ leaving' \cup gone' \subseteq 1..minted'
  BY <1>1, <1>2
<1>4. CASE t.call = "password"
  <2>1. p = SetPassword(t.of.user, t.of.password) /\ t.of.user \in 1..minted /\ t.of.password \in Passwords
    BY <1>2, <1>4 DEF Decided, Sound
  <2>2. minted' = minted
    BY <1>1, <1>2, <1>4
  <2>3. SoundList(p, minted')
    BY <2>1, <2>2, SetPasswordIsSound
  <2> HIDE DEF p
  <2> QED BY <1>1, <1>3, <2>3, ReadsOnSoundly
<1>5. CASE t.call = "verification"
  <2>1. p = Verification(t.of) /\ t.of \in 1..minted /\ minted' = minted + 1
    BY <1>1, <1>2, <1>5 DEF Decided, Sound
  <2>2. SoundList(p, minted')
    BY <2>1, VerificationIsSound
  <2> HIDE DEF p
  <2> QED BY <1>1, <1>3, <2>2, ReadsOnSoundly
<1>6. CASE t.call = "acks"
  <2> DEFINE keys == {key \in Partition("ACK") : key[2] = t.of}
  <2>1. p = DeleteAll(keys)
    BY <1>6 DEF Decided
  <2>2. IsFiniteSet(keys)
    BY PartitionIsFinite DEF Partition, IInv
  <2> HIDE DEF keys
  <2>3. SoundList(p, minted')
    BY <2>1, <2>2, SoundDeletes
  <2> HIDE DEF p
  <2> QED BY <1>1, <1>3, <2>3, ReadsOnSoundly
<1>7. CASE t.call = "memberships"
  <2> DEFINE a == Delete(Member(t.of))
             b == Delete(MemberOf(t.of))
  <2>1. p = IF Held(MemberOf(t.of)) THEN <<a, b>> ELSE <<>>
    BY <1>7 DEF Decided, Leaves
  <2>2. Sound(a, minted') /\ Sound(b, minted')
    BY SoundCalls
  <2> HIDE DEF a, b
  <2>3. SoundList(p, minted')
    BY <2>1, <2>2, SoundShort
  <2> HIDE DEF p
  <2> QED BY <1>1, <1>3, <2>3, ReadsOnSoundly
<1> QED BY <1>1, <1>4, <1>5, <1>6, <1>7

LEMMA AnswersIsSound ==
  ASSUME IInv, FieldInv, NEW h \in Handlers, AnswersDeletion(h)
  PROVE  FieldInv'
<1> DEFINE t == Todo(h)[1]
           q == Tail(Todo(h))
<1>1. /\ Working(h) /\ IsList(Todo(h)) /\ Todo(h) # <<>> /\ 1 \in DOMAIN Todo(h)
      /\ Task(h) = t /\ Next1(h) = q
  BY AtWork DEF AnswersDeletion, IInv
<1>2. minted \in Nat /\ leaving \cup gone \subseteq 1..minted /\ Sound(t, minted)
  BY <1>1 DEF FieldInv
<1>3. /\ Continues(h, q) /\ doc' = doc /\ leaving' = leaving /\ gone' = gone \cup {t.of} /\ minted' = minted
      /\ t.of \in 1..minted
  BY <1>1, <1>2 DEF AnswersDeletion, Mints, Sound
<1>4. \A i \in DOMAIN q : \E j \in DOMAIN Todo(h) : q[i] = Todo(h)[j]
  BY <1>1, TailOf
<1> HIDE DEF q, t
<1>5. minted' \in Nat /\ minted <= minted' /\ leaving' \cup gone' \subseteq 1..minted'
  BY <1>2, <1>3
<1> QED BY <1>1, <1>3, <1>4, <1>5, ContinuesSoundly DEF Held

LEMMA NeutralIsSound ==
  ASSUME IInv, FieldInv, NEW h \in Handlers, NeutralStep(h), UNCHANGED accountVars
  PROVE  FieldInv'
<1>1. \A t, n : Neutral(t) => Sound(t, n)
  BY DEF Neutral, Ordinary, Sound, Fielded, Org
<1>2. /\ minted \in Nat /\ leaving \cup gone \subseteq 1..minted /\ leaving' = leaving /\ gone' = gone
      /\ minted' \in Nat /\ minted <= minted' /\ doc' = doc
  BY DEF NeutralStep, FieldInv, accountVars
<1>3. leaving' \cup gone' \subseteq 1..minted'
  BY <1>2
<1>4. ASSUME NEW op, NEW about, NEW s, Starts(h, op, about, s), NeutralList(s) PROVE FieldInv'
  <2>1. SoundList(s, minted')
    BY <1>1, <1>4 DEF NeutralList, SoundList
  <2> QED BY <1>2, <1>3, <1>4, <2>1, StartsSoundly
<1>5. ASSUME NEW l, Continues(h, l), Working(h),
             \A i \in DOMAIN l : Neutral(l[i]) \/ \E j \in DOMAIN Todo(h) : l[i] = Todo(h)[j]
      PROVE  FieldInv'
  <2>1. \A i \in DOMAIN l : Sound(l[i], minted') \/ \E j \in DOMAIN Todo(h) : l[i] = Todo(h)[j]
    BY <1>1, <1>5
  <2> QED BY <1>2, <1>3, <1>5, <2>1, ContinuesSoundly DEF Held
<1> QED BY <1>4, <1>5 DEF NeutralStep

LEMMA StorageCallIsSound ==
  ASSUME IInv, FieldInv, NEW h \in Handlers, StorageCall(h), UNCHANGED accountVars
  PROVE  FieldInv'
<1> DEFINE t == Todo(h)[1]
           q == Tail(Todo(h))
<1>1. /\ Working(h) /\ IsList(Todo(h)) /\ Todo(h) # <<>> /\ 1 \in DOMAIN Todo(h)
      /\ Task(h) = t /\ Next1(h) = q /\ TypeInv
  <2>1. Working(h)
    BY DEF StorageCall, WriteDoc, LosesKey, DeleteDoc, Dies
  <2> QED BY <2>1, AtWork DEF IInv
<1>2. /\ minted \in Nat /\ leaving \cup gone \subseteq 1..minted /\ leaving' = leaving /\ gone' = gone
      /\ Sound(t, minted)
  BY <1>1 DEF FieldInv, accountVars
<1>3. minted' = minted /\ minted' \in Nat /\ minted <= minted' /\ leaving' \cup gone' \subseteq 1..minted'
  <2>1. minted' = minted
    BY <1>2 DEF StorageCall, WriteDoc, LosesKey, DeleteDoc, Dies, Mints
  <2> QED BY <1>2, <2>1
<1>4. \A i \in DOMAIN q : \E j \in DOMAIN Todo(h) : q[i] = Todo(h)[j]
  BY <1>1, TailOf
<1> HIDE DEF q, t
<1>5. CASE WriteDoc(h)
  <2>1. doc' = With(t.key, t.value) /\ t.call \in {"put", "new"} /\ Continues(h, q)
    BY <1>1, <1>5 DEF WriteDoc
  <2>2. \A key \in DOMAIN doc' : (Held(key) /\ doc'[key] = doc[key]) \/ Fielded(key, doc'[key], minted')
    BY <1>2, <1>3, <2>1 DEF With, Held, Sound
  <2> QED BY <1>1, <1>3, <1>4, <2>1, <2>2, ContinuesSoundly
<1>6. CASE LosesKey(h)
  <2> DEFINE a == Delete(t.else)
             l == <<a>>
  <2>1. doc' = doc /\ Continues(h, l)
    BY <1>1, <1>6 DEF LosesKey
  <2>2. Sound(a, minted')
    BY SoundCalls
  <2> HIDE DEF a
  <2>3. SoundList(l, minted')
    BY <2>2, SoundShort
  <2> HIDE DEF l
  <2>4. \A i \in DOMAIN l : Sound(l[i], minted')
    BY <2>3 DEF SoundList
  <2> QED BY <1>1, <1>3, <2>1, <2>4, ContinuesSoundly DEF Held
<1>7. CASE DeleteDoc(h)
  <2>1. doc' = Without(t.key) /\ Continues(h, q)
    BY <1>1, <1>7 DEF DeleteDoc
  <2>2. \A key \in DOMAIN doc' : Held(key) /\ doc'[key] = doc[key]
    BY <2>1 DEF Without, Held
  <2> QED BY <1>1, <1>3, <1>4, <2>1, <2>2, ContinuesSoundly
<1>8. CASE Dies(h)
  <2> DEFINE l == <<>>
  <2>1. /\ doc' = doc /\ menu' = menu /\ requests' = requests /\ deaths < MaxDeaths /\ deaths' = deaths + 1
        /\ Todo(h)' = l /\ ~Working(h)' /\ \A k \in Handlers \ {h} : handler'[k] = handler[k]
    BY <1>1, <1>8 DEF Dies, TypeInv, Todo, Working, Idle
  <2>2. \A i : i \notin DOMAIN l
    BY ShortLists
  <2> HIDE DEF l
  <2>3. requests' \in 0..MaxRequests /\ deaths' \in 0..MaxDeaths
    BY <2>1, DocumentStoreAssumption DEF FieldInv
  <2>4. /\ \A k \in Handlers \ {h} : Todo(k)' = Todo(k) /\ (Working(k)' <=> Working(k))
        /\ \A k \in Handlers : Working(k)' => handler'[k].op \in menu'
    BY <2>1 DEF Todo, Working, FieldInv
  <2> QED BY <1>3, <2>1, <2>2, <2>3, <2>4, FieldsGoOn DEF Held
<1> QED BY <1>5, <1>6, <1>7, <1>8 DEF StorageCall

LEMMA RestIsSound ==
  ASSUME FieldInv, UNCHANGED storeVars, UNCHANGED accountVars
  PROVE  FieldInv'
<1>1. /\ doc' = doc /\ minted' = minted /\ handler' = handler /\ menu' = menu /\ requests' = requests
      /\ deaths' = deaths /\ leaving' = leaving /\ gone' = gone
  BY DEF storeVars, accountVars
<1>2. \A h : Todo(h)' = Todo(h) /\ (Working(h)' <=> Working(h))
  BY <1>1 DEF Todo, Working
<1> QED BY <1>1, <1>2 DEF FieldInv

LEMMA FieldStepHolds ==
  ASSUME IInv, FieldInv, [Next]_vars
  PROVE  FieldInv'
<1>0. minted \in Nat
  BY DEF FieldInv
<1>1. CASE UNCHANGED vars
  BY <1>1, RestIsSound DEF vars
<1>2. CASE \E f \in FeedNames : (Publishes(f) \/ WindowMoves(f)) /\ UNCHANGED accountVars
  BY <1>2, RestIsSound DEF Publishes, WindowMoves
<1>3. ASSUME NEW h \in Handlers, AccountStep(h) PROVE FieldInv'
  BY <1>3, SignsUpIsSound, OwnRequestIsSound, CompanyRequestIsSound, ReadAgainIsSound, AnswersIsSound DEF AccountStep
<1>4. ASSUME NEW h \in Handlers, FeedStep(h), UNCHANGED accountVars PROVE FieldInv'
  BY <1>0, <1>4, PollsAreNeutral, NeutralIsSound
<1>5. ASSUME NEW h \in Handlers, UNCHANGED accountVars,
             SeedDemo(h) \/ \E scenario \in Scenarios, total \in Scores : Attempt(h, scenario, total)
      PROVE  FieldInv'
  BY <1>0, <1>5, OthersAreNeutral, NeutralIsSound
<1>6. ASSUME NEW h \in Handlers, StorageCall(h), UNCHANGED accountVars PROVE FieldInv'
  BY <1>6, StorageCallIsSound
<1>7. SUFFICES ASSUME Next PROVE FieldInv'
  BY <1>1
<1>8. ASSUME NEW h \in Handlers,
             \/ AccountStep(h) /\ UNCHANGED published
             \/ FeedStep(h) /\ UNCHANGED accountVars
             \/ \E scenario \in Scenarios, total \in Scores :
                  Attempt(h, scenario, total) /\ UNCHANGED <<accountVars, published>>
             \/ SeedDemo(h) /\ UNCHANGED <<accountVars, published>>
             \/ StorageCall(h) /\ UNCHANGED <<accountVars, published>>
      PROVE  FieldInv'
  <2>1. UNCHANGED <<accountVars, published>> => UNCHANGED accountVars
    OBVIOUS
  <2> QED BY <1>3, <1>4, <1>5, <1>6, <1>8, <2>1
<1> QED BY <1>2, <1>7, <1>8 DEF Next

LEMMA FieldsAtRest ==
  ASSUME Init
  PROVE  FieldInv
<1>1. PICK world \in Worlds : doc = world.doc /\ minted = world.minted
  BY DEF Init, StoreInit
<1>2. AtRest(world)
  BY PlatformAssumption
<1>3. \A h \in Handlers : Todo(h) = <<>> /\ ~Working(h)
  BY DEF Init, StoreInit, Todo, Working, Idle
<1>4. leaving = {} /\ gone = {} /\ requests = 0 /\ deaths = 0
  BY DEF Init, StoreInit, AccountInit
<1>5. ASSUME NEW key \in DOMAIN doc PROVE Fielded(key, doc[key], minted)
  <2>1. key[1] = "USER" => key[2] \in 1..minted /\ doc[key] \in Users
    <3> DEFINE account == doc[key]
    <3>1. key[1] = "USER" => key[2] \in 1..minted
             /\ account \in [whole : BOOLEAN, provider : {None, "guest", "google", "email"},
                             email : Emails \cup {None}, password : Passwords \cup {None},
                             version : Nat, verified : BOOLEAN]
      BY <1>1, <1>2 DEF AtRest
    <3> HIDE DEF account
    <3> QED BY <3>1 DEF Users, account
  <2>2. /\ key[1] \in {"LOGIN", "RESET"} => doc[key] \in 1..minted
        /\ key[1] = "VERIFY" => doc[key].user \in 1..minted
        /\ key[1] = "LOCK" => doc[key] \in 1..LockAfter
        /\ key[1] \in {"MEMBER", "MEMBEROF"} => doc[key] \in Roles
    BY <1>1, <1>2 DEF AtRest, Roles
  <2>3. key = Org => IsCompany(doc[Org]) /\ doc[Org].owner \in 1..minted /\ doc[Org].invite \in 1..minted
    BY <1>1, <1>2 DEF AtRest, IsCompany
  <2> QED BY <2>1, <2>2, <2>3 DEF Fielded
<1>6. minted \in Nat /\ requests \in 0..MaxRequests /\ deaths \in 0..MaxDeaths
  BY <1>1, <1>2, <1>4, DocumentStoreAssumption DEF AtRest
<1> QED BY <1>3, <1>4, <1>5, <1>6, ShortLists DEF FieldInv

(* Whatever requests overlap, lose a key or die, each partition holds what its readers take from it *)
(* (accounts.py, _user, login, join, role_in): accounts with all their fields, sign-in keys and reset links *)
(* that name an id given out, counts of wrong passwords that stop where they lock, roles, and a company whose *)
(* owner and code were given out. *)
THEOREM PlatformTypeCorrect == Spec => []TypeOK
<1>1. Init => IInv /\ FieldInv
  BY InitHolds, FieldsAtRest
<1>2. IInv /\ FieldInv /\ [Next]_vars => IInv' /\ FieldInv'
  BY StepHolds, FieldStepHolds
<1>3. FieldInv => TypeOK
  <2>1. SUFFICES ASSUME FieldInv PROVE TypeOK
    OBVIOUS
  <2>2. \A key \in Partition("USER") : doc[key] \in Users
    BY <2>1 DEF FieldInv, Partition, Fielded
  <2>3. \A key \in Partition("LOGIN") \cup Partition("RESET") : doc[key] \in 1..minted
    BY <2>1 DEF FieldInv, Partition, Fielded
  <2>4. \A key \in Partition("LOCK") : doc[key] \in 1..LockAfter
    BY <2>1 DEF FieldInv, Partition, Fielded
  <2>5. \A key \in Partition("MEMBER") \cup Partition("MEMBEROF") : doc[key] \in Roles
    BY <2>1 DEF FieldInv, Partition, Fielded
  <2>6. Held(Org) => doc[Org].owner \in 1..minted /\ doc[Org].invite \in 1..minted
    BY <2>1, WhatIsRead
  <2> QED BY <2>1, <2>2, <2>3, <2>4, <2>5, <2>6 DEF TypeOK, FieldInv, Users, Roles
<1> QED BY <1>1, <1>2, <1>3, PTL DEF Spec
=============================================================================

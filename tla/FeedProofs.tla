------------------------------ MODULE FeedProofs ------------------------------
(***************************************************************************)
(* What holds of the documents of feeds and of seeded scenarios, whichever *)
(* polls, rebuilding readers and starting containers overlap, and wherever *)
(* they die.                                                               *)
(*                                                                         *)
(* Of every call still ahead, the invariant says what has to be stored     *)
(* before it, by the store as it is or by an earlier call of the same      *)
(* request; and that what is stored stays.  Of the index of a feed, the    *)
(* second part of the module says how far the one request that works on it *)
(* has come.                                                               *)
(***************************************************************************)
EXTENDS PlatformProofs

-----------------------------------------------------------------------------
(* What a call is *)

Public == {"EVENT", "FEED", "RECENT", "NODE", "EDGE", "INCIDENT", "AUDIT", "META"}
Lasting == {"EVENT", "NODE", "EDGE", "INCIDENT", "AUDIT", "META"}

(* A call that has to do with none of these documents. *)
Aside(t) ==
    \/ t.call \in {"put", "delete"} /\ t.key[1] \notin Public
    \/ t.call = "new" /\ t.key[1] \notin Public /\ t.else[1] \notin Public
    \/ t.call \in {"password", "memberships", "acks", "verification", "answer"}
AsideList(s) == IsList(s) /\ \A i \in DOMAIN s : Aside(s[i])
Apart(about) == \A topic \in DOMAIN about : topic[1] # "recent"

(* What is written under a key once and for all.  Ids up to n have been given out. *)
SignalOf(s) == [feed |-> "scenario", n |-> s, at |-> 0]
EntryOf(f, n, at) == [feed |-> f, n |-> n, at |-> at]
Fixed(key, value) ==
    \/ key = Marker /\ value = None
    \/ \E s \in Scripts : key \in {Node(s), Edge(s), Incident(s)} /\ value = None
    \/ \E s \in Scripts : key = Signalled(s) /\ value = SignalOf(s)
Numbered(key, value, n) ==
    \E m \in 1..n :
        \/ key = Audited(m) /\ value \in Scripts
        \/ key = Event(m) /\ \E f \in FeedNames, k, at \in Nat : value = EntryOf(f, k, at)
Kind(key, value, n) == Fixed(key, value) \/ Numbered(key, value, n)

(* By the time of the i-th of the calls l, a store that holds D now holds a document. *)
Stands(D, key, value) == key \in DOMAIN D /\ D[key] = value
Before(l, i, D, key, value) ==
    Stands(D, key, value) \/ \E j \in DOMAIN l : j < i /\ l[j] = Put(key, value)

AuditedBefore(l, i, D, s) == \E m \in Nat : Before(l, i, D, Audited(m), s)
GotBefore(l, i, D, f, n) == \E m, at \in Nat : Before(l, i, D, Event(m), EntryOf(f, n, at))

(* The entries of a feed, listed as P says, that are there when its cursor moves to a stamp: an entry up to it is *)
(* missing only if the first window began after it, or it was listed with the stamp of one that is there, or with *)
(* an older stamp than one that is there had before it. *)
Excused(l, i, D, f, P, n) ==
    \/ P.stamps[n] < P.window
    \/ \E k \in DOMAIN P.stamps :
         GotBefore(l, i, D, f, k) /\ (P.stamps[k] = P.stamps[n] \/ (k < n /\ P.stamps[k] > P.stamps[n]))
NoneMissed(l, i, D, f, P, at) ==
    f \in OldestFirst =>
        \A n \in DOMAIN P.stamps : P.stamps[n] <= at => GotBefore(l, i, D, f, n) \/ Excused(l, i, D, f, P, n)
Reached(l, i, D, f, P, at) ==
    /\ \E n \in DOMAIN P.stamps : P.stamps[n] = at /\ GotBefore(l, i, D, f, n)
    /\ NoneMissed(l, i, D, f, P, at)

Needs(l, i, D) ==
    /\ \A s \in Scripts : l[i].key = Incident(s) =>
         /\ Before(l, i, D, Node(s), None) /\ Before(l, i, D, Edge(s), None)
         /\ Before(l, i, D, Signalled(s), SignalOf(s))
    /\ l[i].key = Marker =>
         \A s \in Scripts : Before(l, i, D, Incident(s), None) /\ AuditedBefore(l, i, D, s)

SavesRecent(t) == \E f : t = Put(Recent(f), t.value)
MovesCursor(l, i, D, P) ==
    \E f \in FeedNames : l[i] = Put(Cursor(f), l[i].value) /\ Reached(l, i, D, f, P[f], l[i].value)
SavesOnce(l, i, D, n) == l[i] = Put(l[i].key, l[i].value) /\ Kind(l[i].key, l[i].value, n) /\ Needs(l, i, D)
Asks(l, i, D, P) ==
    \/ l[i].call = "index"
    \/ l[i].call = "since" /\ l[i].of \in FeedNames
    \/ /\ l[i].call = "fetch" /\ l[i].of.feed \in FeedNames
       /\ l[i].of.since = 0 \/ Reached(<<>>, 1, D, l[i].of.feed, P[l[i].of.feed], l[i].of.since)

GoodAt(l, i, D, n, P) ==
    Aside(l[i]) \/ Asks(l, i, D, P) \/ SavesOnce(l, i, D, n) \/ SavesRecent(l[i]) \/ MovesCursor(l, i, D, P)
GoodList(l, D, n, P) == IsList(l) /\ \A i \in DOMAIN l : GoodAt(l, i, D, n, P)

-----------------------------------------------------------------------------
(* The inductive invariant *)

(* No entry has the stamp of a poll without a cursor. *)
Dated(P) == \A n \in DOMAIN P.stamps : P.stamps[n] > 0

StoredOnce ==
    /\ minted \in Nat
    /\ \A key \in DOMAIN doc : key[1] \in Lasting => Kind(key, doc[key], minted)
    /\ \A s \in Scripts : Held(Incident(s)) =>
         Held(Node(s)) /\ Held(Edge(s)) /\ Held(Signalled(s))
    /\ Held(Marker) => \A s \in Scripts : Held(Incident(s)) /\ AuditedBefore(<<>>, 1, doc, s)
    /\ \A f \in FeedNames :
         /\ Dated(published[f])
         /\ Held(Cursor(f)) => Reached(<<>>, 1, doc, f, published[f], doc[Cursor(f)])

GoodCalls == \A h \in Handlers : GoodList(Todo(h), doc, minted, published)

(* What is put under one key, or stored there, is the same. *)
PutsLasting(t) == t.call = "put" /\ t.key[1] \in Lasting
NoneDiffer ==
    \A h \in Handlers : \A i \in DOMAIN Todo(h) : LET t == Todo(h)[i] IN PutsLasting(t) =>
        /\ Held(t.key) => doc[t.key] = t.value
        /\ \A k \in Handlers : \A j \in DOMAIN Todo(k) :
             Todo(k)[j].call = "put" /\ Todo(k)[j].key = t.key => Todo(k)[j].value = t.value

FeedInv == StoredOnce /\ GoodCalls /\ NoneDiffer

-----------------------------------------------------------------------------
(* Documents and kinds *)

LEMMA PublicKeys ==
  /\ \A x : /\ Event(x) = <<"EVENT", x>> /\ Event(x)[1] = "EVENT" /\ Event(x)[2] = x
            /\ Cursor(x)[1] = "FEED" /\ Cursor(x)[2] = x /\ Recent(x)[1] = "RECENT" /\ Recent(x)[2] = x
            /\ Node(x)[1] = "NODE" /\ Node(x)[2] = x /\ Edge(x)[1] = "EDGE" /\ Edge(x)[2] = x
            /\ Signalled(x)[1] = "EVENT" /\ Signalled(x)[2] = x
            /\ Incident(x)[1] = "INCIDENT" /\ Incident(x)[2] = x
            /\ Audited(x)[1] = "AUDIT" /\ Audited(x)[2] = x
  /\ Marker[1] = "META"
BY DEF Event, Cursor, Recent, Node, Edge, Signalled, Incident, Audited, Marker

LEMMA KindFacts ==
  ASSUME NEW key, NEW value, NEW n \in Nat, Kind(key, value, n)
  PROVE  /\ key[1] \in Lasting
         /\ \A s \in Scripts : key \in {Node(s), Edge(s), Incident(s)} => value = None
         /\ \A s \in Scripts : key = Signalled(s) => value = SignalOf(s)
         /\ key = Marker => value = None
         /\ Numbered(key, value, n) <=> key[1] \in {"AUDIT", "EVENT"} /\ key[2] \in 1..n
         /\ \A m \in Nat : m >= n => Kind(key, value, m)
         /\ key[1] = "EVENT" => key = Event(key[2])
<1> USE PublicKeys, SeedingAssumption
<1>1. CASE Fixed(key, value)
  <2>1. key[1] \in Lasting
    BY <1>1 DEF Fixed, Lasting
  <2>2. ~(key[1] \in {"AUDIT", "EVENT"} /\ key[2] \in 1..n)
    BY <1>1 DEF Fixed
  <2>3. /\ \A s \in Scripts : key \in {Node(s), Edge(s), Incident(s)} => value = None
        /\ \A s \in Scripts : key = Signalled(s) => value = SignalOf(s)
        /\ key = Marker => value = None
    BY <1>1 DEF Fixed
  <2>4. ~Numbered(key, value, n)
    BY <2>2 DEF Numbered
  <2>5. key[1] = "EVENT" => key = Event(key[2])
    BY <1>1 DEF Fixed, Event, Signalled
  <2> QED BY <1>1, <2>1, <2>2, <2>3, <2>4, <2>5 DEF Kind
<1>2. CASE Numbered(key, value, n)
  <2>1. key[1] \in {"AUDIT", "EVENT"} /\ key[2] \in 1..n
    BY <1>2 DEF Numbered
  <2>2. key[1] \in Lasting /\ key # Marker
    BY <2>1 DEF Lasting
  <2>3. \A s \in Scripts : key \notin {Node(s), Edge(s), Incident(s), Signalled(s)}
    BY <2>1
  <2>4. \A m \in Nat : m >= n => Numbered(key, value, m)
    BY <1>2 DEF Numbered
  <2>5. key[1] = "EVENT" => key = Event(key[2])
    BY <1>2 DEF Numbered
  <2> QED BY <1>2, <2>1, <2>2, <2>3, <2>4, <2>5 DEF Kind
<1> QED BY <1>1, <1>2 DEF Kind

(* Only what has a number may differ under one key. *)
LEMMA FixedAgree ==
  ASSUME NEW key, NEW v, NEW w, NEW n \in Nat, Fixed(key, v), Kind(key, w, n)
  PROVE  v = w
<1>1. Kind(key, v, n)
  BY DEF Kind
<1> QED BY <1>1, KindFacts DEF Fixed

LEMMA PublicApart ==
  ASSUME NEW l, NEW i, NEW D, NEW n \in Nat, NEW P, GoodAt(l, i, D, n, P), l[i].call \in {"put", "delete"}, l[i].key[1] \in Public
  PROVE  l[i].call = "put" /\ (SavesOnce(l, i, D, n) \/ SavesRecent(l[i]) \/ MovesCursor(l, i, D, P))
<1>1. \A key, value : Put(key, value).call = "put"
  BY DEF Put
<1>2. SavesOnce(l, i, D, n) \/ SavesRecent(l[i]) \/ MovesCursor(l, i, D, P) => l[i].call = "put"
  BY <1>1 DEF SavesOnce, SavesRecent, MovesCursor
<1>3. ~Asks(l, i, D, P)
  BY DEF Asks
<1>4. ~Aside(l[i])
  BY DEF Aside
<1> QED BY <1>2, <1>3, <1>4 DEF GoodAt

LEMMA PutFields ==
  \A key, value : /\ Put(key, value).call = "put" /\ Put(key, value).key = key /\ Put(key, value).value = value
BY DEF Put

LEMMA NewIsAside ==
  ASSUME NEW l, NEW i, NEW D, NEW n, NEW P, GoodAt(l, i, D, n, P), l[i].call = "new"
  PROVE  Aside(l[i])
<1>1. ~SavesOnce(l, i, D, n) /\ ~SavesRecent(l[i]) /\ ~MovesCursor(l, i, D, P)
  BY PutFields DEF SavesOnce, SavesRecent, MovesCursor
<1>2. ~Asks(l, i, D, P)
  BY DEF Asks
<1> QED BY <1>1, <1>2 DEF GoodAt

(* What a position knows it keeps, while what is stored stays and the list goes on. *)
LEMMA BeforeStays ==
  ASSUME NEW l, NEW i, NEW D, NEW m, NEW j, NEW E,
         \A key, value : Before(l, i, D, key, value) /\ key[1] \in Lasting => Before(m, j, E, key, value)
  PROVE  /\ \A s : AuditedBefore(l, i, D, s) => AuditedBefore(m, j, E, s)
         /\ \A f, n : GotBefore(l, i, D, f, n) => GotBefore(m, j, E, f, n)
         /\ \A f, P, at : NoneMissed(l, i, D, f, P, at) => NoneMissed(m, j, E, f, P, at)
         /\ \A f, P, at : Reached(l, i, D, f, P, at) => Reached(m, j, E, f, P, at)
         /\ m[j] = l[i] => (Needs(l, i, D) => Needs(m, j, E))
<1> USE PublicKeys DEF Lasting
<1>1. \A s : AuditedBefore(l, i, D, s) => AuditedBefore(m, j, E, s)
  BY DEF AuditedBefore
<1>2. \A f, n : GotBefore(l, i, D, f, n) => GotBefore(m, j, E, f, n)
  BY DEF GotBefore
<1>3. \A f, P, at : NoneMissed(l, i, D, f, P, at) => NoneMissed(m, j, E, f, P, at)
  BY <1>2 DEF NoneMissed, Excused
<1>4. \A f, P, at : Reached(l, i, D, f, P, at) => Reached(m, j, E, f, P, at)
  BY <1>2, <1>3 DEF Reached
<1>5. m[j] = l[i] => (Needs(l, i, D) => Needs(m, j, E))
  BY <1>1 DEF Needs
<1> QED BY <1>1, <1>2, <1>3, <1>4, <1>5

LEMMA GoodStays ==
  ASSUME NEW l, NEW i, NEW D, NEW n \in Nat, NEW P, GoodAt(l, i, D, n, P),
         NEW m, NEW j, NEW E, NEW o \in Nat, o >= n, m[j] = l[i],
         \A key, value : Before(l, i, D, key, value) /\ key[1] \in Lasting => Before(m, j, E, key, value),
         \A key, value : Stands(D, key, value) /\ key[1] \in Lasting => Stands(E, key, value)
  PROVE  GoodAt(m, j, E, o, P)
<1>1. \A key, value : Before(<<>>, 1, D, key, value) /\ key[1] \in Lasting => Before(<<>>, 1, E, key, value)
  BY ShortLists DEF Before
<1>2. Asks(l, i, D, P) => Asks(m, j, E, P)
  <2>1. \A f, Q, at : Reached(<<>>, 1, D, f, Q, at) => Reached(<<>>, 1, E, f, Q, at)
    BY <1>1, BeforeStays
  <2> QED BY <2>1 DEF Asks
<1>3. SavesOnce(l, i, D, n) => SavesOnce(m, j, E, o)
  <2>1. \A key, value : Kind(key, value, n) => Kind(key, value, o)
    BY KindFacts
  <2>2. Needs(l, i, D) => Needs(m, j, E)
    BY BeforeStays
  <2> QED BY <2>1, <2>2 DEF SavesOnce
<1>4. MovesCursor(l, i, D, P) => MovesCursor(m, j, E, P)
  <2>1. \A f, Q, at : Reached(l, i, D, f, Q, at) => Reached(m, j, E, f, Q, at)
    BY BeforeStays
  <2>2. \A f : m[j] = Put(Cursor(f), m[j].value) <=> l[i] = Put(Cursor(f), l[i].value)
    OBVIOUS
  <2> QED BY <2>1 DEF MovesCursor
<1> QED BY <1>2, <1>3, <1>4 DEF GoodAt

(* The store goes on: everything written once stays. *)
LEMMA GoodLater ==
  ASSUME NEW l, NEW D, NEW n \in Nat, NEW P, GoodList(l, D, n, P), NEW E, NEW o \in Nat, o >= n,
         \A key, value : Stands(D, key, value) /\ key[1] \in Lasting => Stands(E, key, value)
  PROVE  GoodList(l, E, o, P)
<1>1. ASSUME NEW i \in DOMAIN l PROVE GoodAt(l, i, E, o, P)
  <2>1. \A key, value : Before(l, i, D, key, value) /\ key[1] \in Lasting => Before(l, i, E, key, value)
    BY DEF Before
  <2> QED BY <2>1, GoodStays DEF GoodList
<1> QED BY <1>1 DEF GoodList

(* One request's calls go on without the first, when what that one writes is written. *)
LEMMA GoodTail ==
  ASSUME NEW l, NEW D, NEW n \in Nat, NEW P, GoodList(l, D, n, P), l # <<>>,
         PutsLasting(l[1]) => Stands(D, l[1].key, l[1].value)
  PROVE  GoodList(Tail(l), D, n, P)
<1> DEFINE t == Tail(l)
<1>1. /\ IsList(l) /\ IsList(t) /\ Len(l) \in Nat \ {0} /\ DOMAIN t = 1..Len(l) - 1 /\ DOMAIN l = 1..Len(l)
      /\ \A i \in DOMAIN t : t[i] = l[i + 1] /\ i + 1 \in DOMAIN l
  BY TailFacts, ListFacts DEF GoodList
<1> HIDE DEF t
<1>2. ASSUME NEW i \in DOMAIN t PROVE GoodAt(t, i, D, n, P)
  <2>1. ASSUME NEW key, NEW value, Before(l, i + 1, D, key, value), key[1] \in Lasting
        PROVE  Before(t, i, D, key, value)
    <3>1. SUFFICES ASSUME NEW j \in DOMAIN l, j < i + 1, l[j] = Put(key, value)
                   PROVE  Before(t, i, D, key, value)
      BY <2>1 DEF Before
    <3>2. CASE j = 1
      BY <2>1, <3>1, <3>2 DEF Put, PutsLasting, Before
    <3>3. CASE j # 1
      <4>1. j - 1 \in DOMAIN t /\ j - 1 < i /\ t[j - 1] = l[j]
        BY <1>1, <3>1, <3>3
      <4> QED BY <3>1, <4>1 DEF Before
    <3> QED BY <3>2, <3>3
  <2>2. GoodAt(l, i + 1, D, n, P) /\ t[i] = l[i + 1]
    BY <1>1 DEF GoodList
  <2> QED BY <2>1, <2>2, GoodStays
<1> QED BY <1>1, <1>2 DEF GoodList, t

LEMMA GoodJoin ==
  ASSUME NEW p, NEW q, NEW D, NEW n \in Nat, NEW P, GoodList(p, D, n, P), GoodList(q, D, n, P)
  PROVE  GoodList(p \o q, D, n, P)
<1> DEFINE t == p \o q
           a == Len(p)
<1>1. /\ IsList(p) /\ IsList(q) /\ IsList(t) /\ a \in Nat /\ Len(q) \in Nat
      /\ DOMAIN t = 1..a + Len(q) /\ DOMAIN p = 1..a /\ DOMAIN q = 1..Len(q)
      /\ \A i \in 1..a : t[i] = p[i]
      /\ \A i \in a + 1..a + Len(q) : t[i] = q[i - a] /\ i - a \in DOMAIN q
  BY JoinFacts, ListFacts DEF GoodList
<1> HIDE DEF t, a
<1>2. ASSUME NEW i \in 1..a PROVE GoodAt(t, i, D, n, P)
  <2>1. \A key, value : Before(p, i, D, key, value) => Before(t, i, D, key, value)
    BY <1>1 DEF Before
  <2>2. GoodAt(p, i, D, n, P) /\ t[i] = p[i]
    BY <1>1 DEF GoodList
  <2> QED BY <2>1, <2>2, GoodStays
<1>3. ASSUME NEW i \in a + 1..a + Len(q) PROVE GoodAt(t, i, D, n, P)
  <2>1. ASSUME NEW key, NEW value, NEW j \in DOMAIN q, j < i - a, q[j] = Put(key, value)
        PROVE  Before(t, i, D, key, value)
    <3>1. j + a \in DOMAIN t /\ j + a < i /\ j + a \in a + 1..a + Len(q) /\ (j + a) - a = j
      BY <1>1, <2>1
    <3>2. t[j + a] = q[j]
      BY <1>1, <3>1
    <3> QED BY <2>1, <3>1, <3>2 DEF Before
  <2>2. \A key, value : Before(q, i - a, D, key, value) => Before(t, i, D, key, value)
    BY <2>1 DEF Before
  <2>3. GoodAt(q, i - a, D, n, P) /\ t[i] = q[i - a]
    BY <1>1 DEF GoodList
  <2> QED BY <2>2, <2>3, GoodStays
<1> QED BY <1>1, <1>2, <1>3 DEF GoodList, t

LEMMA AsideIsGood ==
  ASSUME NEW l, AsideList(l), NEW D, NEW n, NEW P
  PROVE  GoodList(l, D, n, P)
BY DEF AsideList, GoodList, GoodAt

-----------------------------------------------------------------------------
(* The requests that have to do with none of these documents *)

Enters(h) == \E op, about, s : Starts(h, op, about, s) /\ AsideList(s) /\ Apart(about)
Passes(h) ==
    /\ Working(h) /\ (Aside(Todo(h)[1]) \/ Todo(h)[1].call = "fetch")
    /\ \E p : AsideList(p) /\ Continues(h, p \o Tail(Todo(h)))
    /\ doc' = doc
StandsAside(h) == (Enters(h) \/ Passes(h)) /\ (minted' = minted \/ minted' = minted + 1)

LEMMA AsideCalls ==
  /\ \A key, value : key[1] \notin Public => Aside(Put(key, value)) /\ Aside(Delete(key))
  /\ \A key, value, else : key[1] \notin Public /\ else[1] \notin Public => Aside(PutNew(key, value, else))
  /\ \A of : /\ Aside(Later("password", of)) /\ Aside(Later("memberships", of)) /\ Aside(Later("acks", of))
             /\ Aside(Later("verification", of)) /\ Aside(Later("answer", of))
BY DEF Aside, Put, Delete, PutNew, Later

LEMMA AsideKeys ==
  /\ \A x : /\ User(x)[1] \notin Public /\ Login(x)[1] \notin Public /\ Lock(x)[1] \notin Public
            /\ Reset(x)[1] \notin Public /\ Verify(x)[1] \notin Public /\ Policy(x)[1] \notin Public
            /\ Signal(x)[1] \notin Public /\ Training(x)[1] \notin Public /\ Invite(x)[1] \notin Public
            /\ Member(x)[1] \notin Public /\ MemberOf(x)[1] \notin Public /\ Sync(x)[1] \notin Public
  /\ Org[1] \notin Public /\ Player[1] \notin Public
  /\ \A p, u : Ack(p, u)[1] \notin Public
<1> USE DEF Public
<1>1. \A x : /\ User(x)[1] \notin Public /\ Login(x)[1] \notin Public /\ Lock(x)[1] \notin Public
             /\ Reset(x)[1] \notin Public /\ Verify(x)[1] \notin Public /\ Policy(x)[1] \notin Public
  BY DEF User, Login, Lock, Reset, Verify, Policy
<1>2. \A x : /\ Signal(x)[1] \notin Public /\ Training(x)[1] \notin Public /\ Invite(x)[1] \notin Public
             /\ Member(x)[1] \notin Public /\ MemberOf(x)[1] \notin Public /\ Sync(x)[1] \notin Public
  BY DEF Signal, Training, Invite, Member, MemberOf, Sync
<1>3. (\A p, u : Ack(p, u)[1] \notin Public) /\ Org[1] \notin Public /\ Player[1] \notin Public
  BY DEF Ack, Org, Player
<1> QED BY <1>1, <1>2, <1>3

LEMMA AsideShort ==
  /\ AsideList(<<>>)
  /\ \A a : Aside(a) => AsideList(<<a>>)
  /\ \A a, b : Aside(a) /\ Aside(b) => AsideList(<<a, b>>)
  /\ \A a, b, c : Aside(a) /\ Aside(b) /\ Aside(c) => AsideList(<<a, b, c>>)
  /\ \A a, b, c, d : Aside(a) /\ Aside(b) /\ Aside(c) /\ Aside(d) => AsideList(<<a, b, c, d>>)
<1>1. AsideList(<<>>)
  BY ShortLists DEF AsideList
<1>2. ASSUME NEW s, IsList(s), \A i \in DOMAIN s : Aside(s[i]) PROVE AsideList(s)
  BY <1>2 DEF AsideList
<1>3. ASSUME NEW a, Aside(a) PROVE \A i \in DOMAIN <<a>> : Aside(<<a>>[i])
  BY <1>3, ShortLists
<1>4. ASSUME NEW a, NEW b, Aside(a), Aside(b) PROVE \A i \in DOMAIN <<a, b>> : Aside(<<a, b>>[i])
  BY <1>4, ShortLists
<1>5. ASSUME NEW a, NEW b, NEW c, Aside(a), Aside(b), Aside(c)
      PROVE  \A i \in DOMAIN <<a, b, c>> : Aside(<<a, b, c>>[i])
  BY <1>5, LongLists
<1>6. ASSUME NEW a, NEW b, NEW c, NEW d, Aside(a), Aside(b), Aside(c), Aside(d)
      PROVE  \A i \in DOMAIN <<a, b, c, d>> : Aside(<<a, b, c, d>>[i])
  BY <1>6, LongLists
<1> QED BY <1>1, <1>2, <1>3, <1>4, <1>5, <1>6, ShortLists, LongLists

LEMMA AsideJoin ==
  ASSUME NEW p, NEW q, AsideList(p), AsideList(q)
  PROVE  AsideList(p \o q)
<1>1. IsList(p) /\ IsList(q) /\ IsList(p \o q)
  BY JoinFacts DEF AsideList
<1>2. \A i \in DOMAIN (p \o q) : Aside((p \o q)[i])
  BY <1>1, ElementsOfJoin DEF AsideList
<1> QED BY <1>1, <1>2 DEF AsideList

LEMMA AsideDeleteAll ==
  ASSUME NEW keys, IsFiniteSet(keys), \A key \in keys : key[1] \notin Public
  PROVE  AsideList(DeleteAll(keys))
<1> DEFINE f == [key \in keys |-> Delete(key)]
           T == {f[key] : key \in keys}
<1>1. f = [key \in keys |-> f[key]] /\ (\A key \in keys : Aside(f[key]))
  BY AsideCalls
<1>2. T = {Delete(key) : key \in keys}
  OBVIOUS
<1> HIDE DEF f
<1>3. IsFiniteSet(T) /\ \A t \in T : Aside(t)
  BY <1>1, FiniteImage
<1> HIDE DEF T
<1>4. AsideList(SetToSeq(T))
  BY <1>3, SetToSeqFacts DEF AsideList
<1> QED BY <1>2, <1>4 DEF DeleteAll

LEMMA AsideTopics ==
  /\ Apart(NoTopic)
  /\ \A u, change : Apart(OfAccount(u, change)) /\ Apart(OfLogin(u, change)) /\ Apart(OfMembership(u, change))
                    /\ Apart(OfTraining(u, change))
  /\ \A change : Apart(OfCompany(change)) /\ Apart(Of("player", "token", change))
  /\ \A a, b : Apart(a) /\ Apart(b) => Apart(And(a, b))
<1>1. \A name, subject, change : name # "recent" => Apart(Of(name, subject, change))
  BY DEF Apart, Of
<1>2. Apart(NoTopic) /\ \A a, b : Apart(a) /\ Apart(b) => Apart(And(a, b))
  BY DEF Apart, NoTopic, And
<1> QED BY <1>1, <1>2 DEF OfAccount, OfLogin, OfMembership, OfTraining, OfCompany

LEMMA VerificationIsAside ==
  ASSUME NEW u PROVE AsideList(Verification(u))
<1> DEFINE a == Put(User(u), Account(u))
           b == Put(Verify(minted + 1), [user |-> u, email |-> Account(u).email])
<1>1. Verification(u) = <<a, b>>
  BY DEF Verification
<1>2. Aside(a) /\ Aside(b)
  BY AsideCalls, AsideKeys
<1> HIDE DEF a, b
<1> QED BY <1>1, <1>2, AsideShort

LEMMA SetPasswordIsAside ==
  ASSUME NEW u, NEW password PROVE AsideList(SetPassword(u, password))
<1> DEFINE a == Put(User(u), [Account(u) EXCEPT !.password = password, !.version = @ + 1])
           b == IF Account(u).email = None THEN <<>> ELSE <<Delete(Lock(Account(u).email))>>
<1>1. SetPassword(u, password) = <<a>> \o b
  BY DEF SetPassword
<1>2. AsideList(<<a>>) /\ AsideList(b)
  BY AsideCalls, AsideKeys, AsideShort
<1> HIDE DEF a, b
<1> QED BY <1>1, <1>2, AsideJoin

LEMMA MembershipIsAside ==
  ASSUME NEW u, NEW role
  PROVE  AsideList(Joins(u, role)) /\ AsideList(Leaves(u))
BY AsideCalls, AsideKeys, AsideShort DEF Joins, Leaves

LEMMA EntersWith ==
  ASSUME minted \in Nat, NEW h \in Handlers, NEW op, NEW about, NEW s, Starts(h, op, about, s),
         Mints(0) \/ Mints(1), Apart(about), AsideList(s)
  PROVE  StandsAside(h)
BY DEF StandsAside, Enters, Mints

LEMMA PassesWith ==
  ASSUME minted \in Nat, IInv, NEW h \in Handlers, Working(h), Aside(Todo(h)[1]) \/ Todo(h)[1].call = "fetch",
         NEW p, AsideList(p), Continues(h, p \o Next1(h)), doc' = doc, Mints(0) \/ Mints(1)
  PROVE  StandsAside(h)
<1>1. Next1(h) = Tail(Todo(h))
  BY AtWork DEF IInv
<1>2. Continues(h, p \o Tail(Todo(h)))
  BY <1>1
<1>3. Passes(h)
  BY <1>2 DEF Passes
<1>4. minted' = minted \/ minted' = minted + 1
  BY DEF Mints
<1> QED BY <1>3, <1>4 DEF StandsAside

LEMMA PassesOn ==
  ASSUME minted \in Nat, IInv, NEW h \in Handlers, Working(h), Aside(Todo(h)[1]) \/ Todo(h)[1].call = "fetch",
         Continues(h, Next1(h)), doc' = doc, Mints(0)
  PROVE  StandsAside(h)
<1>1. IsList(Tail(Todo(h))) /\ Next1(h) = Tail(Todo(h))
  BY AtWork, TailFacts DEF IInv
<1>2. <<>> \o Tail(Todo(h)) = Tail(Todo(h))
  BY <1>1 DEF IsList
<1>3. Continues(h, <<>> \o Next1(h))
  BY <1>1, <1>2
<1> QED BY <1>3, AsideShort, PassesWith

LEMMA SignsUpAside ==
  ASSUME minted \in Nat, NEW h \in Handlers, SignsUp(h)
  PROVE  StandsAside(h)
<1>1. CASE Guest(h)
  BY <1>1, EntersWith, AsideTopics, AsideCalls, AsideKeys, AsideShort DEF Guest
<1>2. ASSUME NEW email \in Emails, NEW password \in Passwords, Register(h, email, password) PROVE StandsAside(h)
  <2> DEFINE u == minted + 1
             about == And(OfAccount(u, "create"), OfLogin(email, "claim"))
             p == <<Put(User(u), NewAccount("email", email, password))>>
             q == Claims(email, u)
             r == IF MailEnabled THEN <<Later("verification", u)>> ELSE <<>>
  <2>1. Starts(h, "register", about, p \o q \o r) /\ Mints(1)
    BY <1>2 DEF Register
  <2>2. AsideList(p) /\ AsideList(q) /\ AsideList(r)
    BY AsideCalls, AsideKeys, AsideShort DEF Claims
  <2>3. Apart(about)
    BY AsideTopics
  <2> HIDE DEF p, q, r, about
  <2>4. AsideList(p \o q \o r)
    BY <2>2, AsideJoin
  <2> QED BY <2>1, <2>3, <2>4, EntersWith
<1>3. ASSUME NEW subject \in Subjects, Google(h, subject) PROVE StandsAside(h)
  BY <1>3, EntersWith, AsideTopics, AsideCalls, AsideKeys, AsideShort DEF Google
<1>4. ASSUME NEW email \in Emails, NEW password \in Passwords, NEW elapsed \in BOOLEAN,
             SignIn(h, email, password, elapsed)
      PROVE  StandsAside(h)
  <2>1. \E value : \/ Starts(h, "login", NoTopic, <<Delete(Lock(email))>>) /\ Mints(0)
                   \/ Starts(h, "login", NoTopic, <<Put(Lock(email), value)>>) /\ Mints(0)
    BY <1>4 DEF SignIn
  <2> QED BY <2>1, EntersWith, AsideTopics, AsideCalls, AsideKeys, AsideShort
<1> QED BY <1>1, <1>2, <1>3, <1>4 DEF SignsUp

LEMMA DeletesAside ==
  ASSUME IInv, minted \in Nat, NEW h \in Handlers, NEW u, DeleteAccount(h, u)
  PROVE  StandsAside(h)
<1> DEFINE about == And(OfMembership(u, None),
                        [topic \in {<<"account", u>>, <<"training", u>>} \cup {<<"login", key[2]>> : key \in KeysOf(u)}
                           |-> "delete"])
           p == DeleteAll(KeysOf(u))
           q == <<Later("memberships", u), Delete(Training(u)), Delete(User(u)), Later("answer", u)>>
<1>1. Starts(h, "delete", about, p \o q) /\ Mints(0)
  BY DEF DeleteAccount
<1>2. AsideList(p)
  <2>1. IsFiniteSet(KeysOf(u)) /\ \A key \in KeysOf(u) : key[1] \notin Public
    BY PartitionIsFinite DEF KeysOf, Partition, Public, IInv
  <2> QED BY <2>1, AsideDeleteAll
<1>3. AsideList(q)
  BY AsideCalls, AsideKeys, AsideShort
<1>4. Apart(about)
  BY AsideTopics DEF Apart, And
<1> HIDE DEF p, q, about
<1> QED BY <1>1, <1>2, <1>3, <1>4, AsideJoin, EntersWith

LEMMA OwnRequestAside ==
  ASSUME IInv, minted \in Nat, NEW h \in Handlers, OwnRequest(h)
  PROVE  StandsAside(h)
<1> USE AsideTopics, AsideCalls, AsideKeys, AsideShort, EntersWith
<1>1. ASSUME NEW u \in Accounts, Rename(h, u) PROVE StandsAside(h)
  BY <1>1 DEF Rename
<1>2. ASSUME NEW u \in Accounts, SignOutEverywhere(h, u) PROVE StandsAside(h)
  BY <1>2 DEF SignOutEverywhere
<1>3. ASSUME NEW u \in Accounts, NEW password \in Passwords, ChangePassword(h, u, password) PROVE StandsAside(h)
  BY <1>3 DEF ChangePassword
<1>4. ASSUME NEW u \in Accounts, DeleteAccount(h, u) PROVE StandsAside(h)
  BY <1>4, DeletesAside
<1>5. ASSUME NEW email \in Emails, RequestReset(h, email) PROVE StandsAside(h)
  BY <1>5 DEF RequestReset
<1>6. ASSUME NEW actor \in Accounts, NEW u \in Accounts, AdminReset(h, actor, u) PROVE StandsAside(h)
  BY <1>6 DEF AdminReset
<1>7. ASSUME NEW key \in Partition("RESET"), NEW password \in Passwords, ResetPassword(h, key, password)
      PROVE  StandsAside(h)
  <2>1. key[1] \notin Public
    BY DEF Partition, Public
  <2> QED BY <1>7, <2>1 DEF ResetPassword
<1>8. ASSUME NEW u \in Accounts, SendVerification(h, u) PROVE StandsAside(h)
  BY <1>8, VerificationIsAside DEF SendVerification
<1>9. ASSUME NEW key \in Partition("VERIFY"), ConfirmEmail(h, key) PROVE StandsAside(h)
  <2> DEFINE u == doc[key].user
             fits == Held(User(u)) /\ doc[User(u)].email = doc[key].email
             p == IF fits THEN <<Put(User(u), [Account(u) EXCEPT !.verified = TRUE])>> ELSE <<>>
             q == <<Delete(key)>>
             about == OfAccount(u, "confirm")
  <2>1. Starts(h, "confirm", about, p \o q) /\ Mints(0)
    BY <1>9 DEF ConfirmEmail
  <2>2. AsideList(p)
    OBVIOUS
  <2>3. AsideList(q) /\ Apart(about)
    BY DEF Partition, Public
  <2> HIDE DEF p, q, about
  <2> QED BY <2>1, <2>2, <2>3, AsideJoin
<1>10. ASSUME NEW u \in Accounts, NEW passed \in BOOLEAN, NEW marked \in BOOLEAN, RecordTraining(h, u, passed, marked)
       PROVE  StandsAside(h)
  BY <1>10 DEF RecordTraining
<1> QED BY <1>1, <1>2, <1>3, <1>4, <1>5, <1>6, <1>7, <1>8, <1>9, <1>10 DEF OwnRequest

LEMMA CompanyRequestAside ==
  ASSUME minted \in Nat, NEW h \in Handlers, CompanyRequest(h)
  PROVE  StandsAside(h)
<1> USE AsideTopics, AsideCalls, AsideKeys, AsideShort, EntersWith
<1>1. ASSUME NEW u \in Accounts, CreateCompany(h, u) PROVE StandsAside(h)
  <2> DEFINE p == <<Put(Org, [owner |-> u, invite |-> minted + 1, intake |-> None]), Put(Invite(minted + 1), Company)>>
             q == Joins(u, "owner")
             about == And(OfCompany("create"), OfMembership(u, "owner"))
  <2>1. Starts(h, "create", about, p \o q) /\ Mints(1)
    BY <1>1 DEF CreateCompany
  <2>2. AsideList(p) /\ AsideList(q) /\ Apart(about)
    BY MembershipIsAside
  <2> HIDE DEF p, q, about
  <2> QED BY <2>1, <2>2, AsideJoin
<1>2. ASSUME NEW u \in Accounts, NEW code \in Codes, Join(h, u, code) PROVE StandsAside(h)
  BY <1>2, MembershipIsAside DEF Join
<1>3. ASSUME NEW actor \in Accounts, RotateInvite(h, actor) PROVE StandsAside(h)
  BY <1>3 DEF RotateInvite, Rotates
<1>4. ASSUME NEW actor \in Accounts, NEW u \in Accounts, NEW role \in {"admin", "employee"}, SetRole(h, actor, u, role)
      PROVE  StandsAside(h)
  BY <1>4, MembershipIsAside DEF SetRole
<1>5. ASSUME NEW actor \in Accounts, NEW u \in Accounts, RemoveMember(h, actor, u) PROVE StandsAside(h)
  BY <1>5, MembershipIsAside DEF RemoveMember
<1>6. ASSUME NEW actor \in Accounts, UpdateSettings(h, actor) PROVE StandsAside(h)
  BY <1>6 DEF UpdateSettings
<1>7. ASSUME NEW actor \in Accounts, CreateIngestKey(h, actor) PROVE StandsAside(h)
  BY <1>7 DEF CreateIngestKey
<1>8. ASSUME NEW actor \in Accounts, RevokeIngestKey(h, actor) PROVE StandsAside(h)
  BY <1>8 DEF RevokeIngestKey
<1>9. CASE Ingest(h)
  BY <1>9 DEF Ingest
<1>10. ASSUME NEW actor \in Accounts, AddPolicy(h, actor) PROVE StandsAside(h)
  BY <1>10 DEF AddPolicy
<1>11. ASSUME NEW actor \in Accounts, NEW key \in Partition("POLICY"), RemovePolicy(h, actor, key) PROVE StandsAside(h)
  <2>1. key[1] \notin Public
    BY DEF Partition, Public
  <2> QED BY <1>11, <2>1 DEF RemovePolicy
<1>12. ASSUME NEW u \in Accounts, NEW key \in Partition("POLICY"), Acknowledge(h, u, key) PROVE StandsAside(h)
  BY <1>12 DEF Acknowledge
<1> QED BY <1>1, <1>2, <1>3, <1>4, <1>5, <1>6, <1>7, <1>8, <1>9, <1>10, <1>11, <1>12 DEF CompanyRequest

LEMMA AccountsAside ==
  ASSUME IInv, minted \in Nat, NEW h \in Handlers, AccountStep(h)
  PROVE  StandsAside(h)
<1>1. CASE ReadAgain(h)
  <2> DEFINE t == Todo(h)[1]
             p == Decided(t)
  <2>1. /\ Working(h) /\ t.call \in {"password", "memberships", "acks", "verification"}
        /\ Continues(h, p \o Next1(h)) /\ doc' = doc /\ (Mints(0) \/ Mints(1))
    BY <1>1, AtWork DEF ReadAgain, IInv
  <2>2. AsideList(p)
    <3>1. CASE t.call = "password"
      BY <3>1, SetPasswordIsAside DEF Decided
    <3>2. CASE t.call = "memberships"
      BY <3>2, MembershipIsAside, AsideShort DEF Decided
    <3>3. CASE t.call = "acks"
      <4> DEFINE keys == {key \in Partition("ACK") : key[2] = t.of}
      <4>1. IsFiniteSet(keys) /\ \A key \in keys : key[1] \notin Public
        BY PartitionIsFinite DEF Partition, Public, IInv
      <4>2. p = DeleteAll(keys)
        BY <3>3 DEF Decided
      <4> HIDE DEF keys, p
      <4> QED BY <4>1, <4>2, AsideDeleteAll
    <3>4. CASE t.call = "verification"
      BY <3>4, VerificationIsAside DEF Decided
    <3> QED BY <2>1, <3>1, <3>2, <3>3, <3>4
  <2>3. Aside(t)
    BY <2>1 DEF Aside
  <2> HIDE DEF p, t
  <2> QED BY <2>1, <2>2, <2>3, PassesWith DEF t
<1>2. CASE AnswersDeletion(h)
  <2>1. Working(h) /\ Todo(h)[1].call = "answer" /\ Continues(h, Next1(h)) /\ doc' = doc /\ Mints(0)
    BY <1>2, AtWork DEF AnswersDeletion, IInv
  <2> QED BY <2>1, PassesOn DEF Aside
<1> QED BY <1>1, <1>2, SignsUpAside, OwnRequestAside, CompanyRequestAside DEF AccountStep

LEMMA FeedsAside ==
  ASSUME IInv, minted \in Nat, NEW h \in Handlers, Unavailable(h) \/ SyncIsLost(h)
  PROVE  StandsAside(h)
<1> DEFINE t == Todo(h)[1]
<1>1. CASE Unavailable(h)
  <2> DEFINE p == <<Put(Sync(t.of.feed), "failed")>>
  <2>1. Working(h) /\ t.call = "fetch" /\ Continues(h, p \o Next1(h)) /\ doc' = doc /\ Mints(0)
    BY <1>1, AtWork DEF Unavailable, IInv
  <2>2. AsideList(p)
    BY AsideCalls, AsideKeys, AsideShort
  <2> HIDE DEF p
  <2> QED BY <2>1, <2>2, PassesWith
<1>2. CASE SyncIsLost(h)
  <2>1. Working(h) /\ t.call = "put" /\ t.key[1] = "SYNC" /\ Continues(h, Next1(h)) /\ doc' = doc /\ Mints(0)
    BY <1>2, AtWork DEF SyncIsLost, IInv
  <2> QED BY <2>1, PassesOn DEF Aside, Public
<1> QED BY <1>1, <1>2

(* Every other step is one of these. *)
LEMMA FeedNext ==
  ASSUME IInv, minted \in Nat, [Next]_vars
  PROVE  \/ \E h \in Handlers :
              /\ published' = published
              /\ \/ StandsAside(h) \/ Poll(h) \/ ReadsCursor(h) \/ Fetches(h) \/ Indexes(h) \/ Rebuild(h)
                 \/ SeedDemo(h) \/ StorageCall(h)
         \/ \E f \in FeedNames : Publishes(f) \/ WindowMoves(f)
         \/ UNCHANGED <<storeVars, published>>
<1>1. ASSUME NEW h \in Handlers, NEW scenario \in Scenarios, NEW total \in Scores, Attempt(h, scenario, total)
      PROVE  StandsAside(h)
  BY <1>1, EntersWith, AsideTopics, AsideCalls, AsideKeys, AsideShort DEF Attempt
<1>2. CASE UNCHANGED vars
  BY <1>2 DEF vars
<1>3. ASSUME NEW h \in Handlers, FeedStep(h)
      PROVE  /\ published' = published
             /\ \/ StandsAside(h) \/ Poll(h) \/ ReadsCursor(h) \/ Fetches(h) \/ Indexes(h) \/ Rebuild(h)
  BY <1>3, FeedsAside DEF FeedStep, Poll, ReadsCursor, Fetches, Unavailable, SyncIsLost, Indexes, Rebuild
<1> QED BY <1>1, <1>2, <1>3, AccountsAside DEF Next

-----------------------------------------------------------------------------
(* What a step leaves of the invariant *)

LEMMA PutsKind ==
  ASSUME NEW l, NEW D, NEW n \in Nat, NEW P, GoodList(l, D, n, P), NEW i \in DOMAIN l, PutsLasting(l[i])
  PROVE  SavesOnce(l, i, D, n) /\ Kind(l[i].key, l[i].value, n)
<1>1. GoodAt(l, i, D, n, P) /\ l[i].call = "put" /\ l[i].key[1] \in Lasting
  BY DEF GoodList, PutsLasting
<1>2. l[i].key[1] \in Public
  BY <1>1 DEF Lasting, Public
<1>3. SavesOnce(l, i, D, n) \/ SavesRecent(l[i]) \/ MovesCursor(l, i, D, P)
  BY <1>1, <1>2, PublicApart
<1>4. \A key, value : Put(key, value).key = key
  BY DEF Put
<1>5. ~SavesRecent(l[i])
  BY <1>1, <1>4, PublicKeys DEF SavesRecent, Lasting
<1>6. ~MovesCursor(l, i, D, P)
  BY <1>1, <1>4, PublicKeys DEF MovesCursor, Lasting
<1> QED BY <1>3, <1>5, <1>6 DEF SavesOnce

(* Request h goes on with the calls p and then q, of its calls so far. *)
Turns(h, p, q) ==
    /\ IsList(p) /\ Todo(h)' = p \o q /\ \A k \in Handlers \ {h} : Todo(k)' = Todo(k)
    /\ doc' = doc /\ published' = published /\ minted' \in Nat /\ minted' >= minted
    /\ q = <<>> \/ (Todo(h) # <<>> /\ q = Tail(Todo(h)) /\ ~PutsLasting(Todo(h)[1]))
NewNumbers(p) ==
    \A i \in DOMAIN p : PutsLasting(p[i]) =>
        \/ Fixed(p[i].key, p[i].value)
        \/ /\ p[i].key[2] \in Nat /\ p[i].key[2] > minted
           /\ \A j \in DOMAIN p : p[j].call = "put" /\ p[j].key = p[i].key => p[j].value = p[i].value

LEMMA TurnStep ==
  ASSUME FeedInv, NEW h \in Handlers, NEW p, NEW q, Turns(h, p, q),
         GoodList(p, doc, minted', published), NewNumbers(p)
  PROVE  FeedInv'
<1>1. /\ minted \in Nat /\ minted' \in Nat /\ minted' >= minted /\ doc' = doc /\ published' = published
      /\ Todo(h)' = p \o q /\ \A k \in Handlers \ {h} : Todo(k)' = Todo(k)
  BY DEF FeedInv, StoredOnce, Turns
<1>2. StoredOnce'
  <2>1. \A key \in DOMAIN doc : key[1] \in Lasting => Kind(key, doc[key], minted')
    BY <1>1, KindFacts DEF FeedInv, StoredOnce
  <2> QED BY <1>1, <2>1 DEF FeedInv, StoredOnce, Held
<1>3. IsList(q) /\ GoodList(q, doc, minted, published)
  <2>1. CASE q = <<>>
    BY <2>1, ShortLists DEF GoodList
  <2>2. CASE Todo(h) # <<>> /\ q = Tail(Todo(h)) /\ ~PutsLasting(Todo(h)[1])
    <3>1. GoodList(Todo(h), doc, minted, published)
      BY DEF FeedInv, GoodCalls
    <3> QED BY <1>1, <2>2, <3>1, GoodTail DEF GoodList
  <2> QED BY <2>1, <2>2 DEF Turns
<1>4. GoodCalls'
  <2>1. ASSUME NEW k \in Handlers PROVE GoodList(Todo(k)', doc, minted', published)
    <3>1. CASE k = h
      <4>1. GoodList(q, doc, minted', published)
        BY <1>1, <1>3, GoodLater
      <4>2. GoodList(p \o q, doc, minted', published)
        BY <1>1, <4>1, GoodJoin
      <4> QED BY <1>1, <3>1, <4>2
    <3>2. CASE k # h
      <4>1. GoodList(Todo(k), doc, minted, published)
        BY DEF FeedInv, GoodCalls
      <4>2. GoodList(Todo(k), doc, minted', published)
        BY <1>1, <4>1, GoodLater
      <4> QED BY <1>1, <3>2, <4>2
    <3> QED BY <3>1, <3>2
  <2> QED BY <1>1, <2>1 DEF GoodCalls
<1>5. ASSUME NEW k \in Handlers, NEW i \in DOMAIN Todo(k)'
      PROVE  \/ \E j \in DOMAIN Todo(k) : Todo(k)'[i] = Todo(k)[j]
             \/ k = h /\ \E j \in DOMAIN p : Todo(k)'[i] = p[j]
  <2>1. CASE k # h
    BY <1>1, <1>5, <2>1
  <2>2. CASE k = h
    <3>1. (\E j \in DOMAIN p : (p \o q)[i] = p[j]) \/ (\E j \in DOMAIN q : (p \o q)[i] = q[j])
      BY <1>1, <1>3, <1>5, <2>2, ElementsOfJoin DEF Turns
    <3>2. ASSUME NEW j \in DOMAIN q PROVE \E m \in DOMAIN Todo(h) : q[j] = Todo(h)[m]
      <4>1. Todo(h) # <<>> /\ q = Tail(Todo(h))
        BY <3>2, ShortLists DEF Turns
      <4>2. IsList(Todo(h))
        BY DEF FeedInv, GoodCalls, GoodList
      <4> QED BY <3>2, <4>1, <4>2, TailFacts
    <3> QED BY <1>1, <2>2, <3>1, <3>2
  <2> QED BY <2>1, <2>2
<1>6. ASSUME NEW k \in Handlers, NEW i \in DOMAIN Todo(k)', PutsLasting(Todo(k)'[i])
      PROVE  LET t == Todo(k)'[i]
             IN /\ Held(t.key) => doc[t.key] = t.value
                /\ \A m \in Handlers : \A j \in DOMAIN Todo(m)' :
                     Todo(m)'[j].call = "put" /\ Todo(m)'[j].key = t.key => Todo(m)'[j].value = t.value
  <2> DEFINE t == Todo(k)'[i]
  <2>1. Kind(t.key, t.value, minted') /\ t.key[1] \in Lasting /\ t.call = "put"
    BY <1>1, <1>4, <1>6, PutsKind DEF GoodCalls, PutsLasting
  <2>2. Held(t.key) => Kind(t.key, doc[t.key], minted)
    BY <2>1 DEF FeedInv, StoredOnce, Held
  <2>3. Held(t.key) => Kind(t.key, doc[t.key], minted')
    BY <1>1, <2>2, KindFacts
  <2>4. ASSUME NEW m \in Handlers, NEW j \in DOMAIN Todo(m)', Todo(m)'[j].call = "put", Todo(m)'[j].key = t.key
        PROVE  Kind(t.key, Todo(m)'[j].value, minted')
    <3>1. PutsLasting(Todo(m)'[j])
      BY <2>1, <2>4 DEF PutsLasting
    <3> QED BY <1>1, <1>4, <2>4, <3>1, PutsKind DEF GoodCalls
  <2>5. CASE Fixed(t.key, t.value)
    BY <1>1, <2>3, <2>4, <2>5, FixedAgree
  <2>6. CASE (\E j \in DOMAIN Todo(k) : t = Todo(k)[j]) /\ ~Fixed(t.key, t.value)
    <3>1. PICK j \in DOMAIN Todo(k) : t = Todo(k)[j]
      BY <2>6
    <3>2. PutsLasting(Todo(k)[j]) /\ GoodList(Todo(k), doc, minted, published)
      BY <1>6, <3>1 DEF FeedInv, GoodCalls
    <3>3. Kind(t.key, t.value, minted)
      BY <1>1, <3>1, <3>2, PutsKind
    <3>4. t.key[2] \in 1..minted
      BY <1>1, <2>6, <3>3, KindFacts DEF Kind
    <3>5. ASSUME NEW m \in Handlers, NEW d \in DOMAIN Todo(m)', Todo(m)'[d].call = "put", Todo(m)'[d].key = t.key
          PROVE  Todo(m)'[d].value = t.value
      <4>1. CASE \E e \in DOMAIN Todo(m) : Todo(m)'[d] = Todo(m)[e]
        BY <3>1, <3>2, <3>5, <4>1 DEF FeedInv, NoneDiffer
      <4>2. CASE \E e \in DOMAIN p : Todo(m)'[d] = p[e]
        <5>1. PICK e \in DOMAIN p : Todo(m)'[d] = p[e]
          BY <4>2
        <5>2. PutsLasting(p[e])
          BY <2>1, <3>5, <5>1 DEF PutsLasting
        <5>3. Fixed(t.key, p[e].value)
          BY <1>1, <3>4, <3>5, <5>1, <5>2 DEF NewNumbers
        <5> QED BY <1>1, <2>1, <5>1, <5>3, FixedAgree
      <4> QED BY <1>5, <3>5, <4>1, <4>2
    <3>6. Held(t.key) => doc[t.key] = t.value
      BY <3>1, <3>2 DEF FeedInv, NoneDiffer
    <3> QED BY <3>5, <3>6
  <2>7. CASE k = h /\ (\E j \in DOMAIN p : t = p[j]) /\ ~Fixed(t.key, t.value)
    <3>1. PICK j \in DOMAIN p : t = p[j]
      BY <2>7
    <3>2. /\ t.key[2] \in Nat /\ t.key[2] > minted
          /\ \A e \in DOMAIN p : p[e].call = "put" /\ p[e].key = t.key => p[e].value = t.value
      BY <1>6, <2>7, <3>1 DEF NewNumbers
    <3>3. t.key[1] \in {"AUDIT", "EVENT"} /\ t.key[2] \in Nat /\ t.key[2] \notin 1..minted
      BY <1>1, <2>1, <2>7, <3>2, KindFacts DEF Kind
    <3>4. \A value : ~Numbered(t.key, value, minted)
      BY <1>1, <3>3, KindFacts DEF Kind
    <3>5. \A value : ~Fixed(t.key, value)
      <4>1. Numbered(t.key, t.value, minted')
        BY <2>1, <2>7 DEF Kind
      <4>2. t.key[1] \in {"AUDIT", "EVENT"} /\ t.key[2] \in 1..minted'
        BY <1>1, <2>1, <4>1, KindFacts
      <4>3. ASSUME NEW value, Fixed(t.key, value) PROVE FALSE
        <5>1. value = t.value
          BY <1>1, <2>1, <4>3, FixedAgree
        <5> QED BY <2>7, <4>3, <5>1
      <4> QED BY <4>3
    <3>6. ~Held(t.key)
      BY <2>2, <3>4, <3>5 DEF Kind
    <3>7. ASSUME NEW m \in Handlers, NEW d \in DOMAIN Todo(m)', Todo(m)'[d].call = "put", Todo(m)'[d].key = t.key
          PROVE  Todo(m)'[d].value = t.value
      <4>1. CASE \E e \in DOMAIN Todo(m) : Todo(m)'[d] = Todo(m)[e]
        <5>1. PICK e \in DOMAIN Todo(m) : Todo(m)'[d] = Todo(m)[e]
          BY <4>1
        <5>2. PutsLasting(Todo(m)[e]) /\ GoodList(Todo(m), doc, minted, published)
          BY <2>1, <3>7, <5>1 DEF PutsLasting, FeedInv, GoodCalls
        <5>3. Kind(t.key, Todo(m)[e].value, minted)
          BY <1>1, <3>7, <5>1, <5>2, PutsKind
        <5> QED BY <3>4, <3>5, <5>3 DEF Kind
      <4>2. CASE \E e \in DOMAIN p : Todo(m)'[d] = p[e]
        BY <3>2, <3>7, <4>2
      <4> QED BY <1>5, <3>7, <4>1, <4>2
    <3> QED BY <3>6, <3>7
  <2> QED BY <1>5, <1>6, <2>5, <2>6, <2>7
<1>7. NoneDiffer'
  BY <1>1, <1>6 DEF NoneDiffer, Held, PutsLasting
<1> QED BY <1>2, <1>4, <1>7 DEF FeedInv

(* The first call ahead of h is made. *)
Calls(h) ==
    LET t == Todo(h)[1]
    IN /\ Todo(h) # <<>> /\ Todo(h)' = Tail(Todo(h)) /\ \A k \in Handlers \ {h} : Todo(k)' = Todo(k)
       /\ published' = published /\ minted' = minted
       /\ \A key : key # t.key => Same(key)
       /\ \/ t.call \in {"put", "new"} /\ t.key \in DOMAIN doc' /\ doc'[t.key] = t.value
          \/ t.call = "delete" /\ t.key \notin DOMAIN doc'

LEMMA CallsFacts ==
  ASSUME IInv, NEW h \in Handlers, WriteDoc(h) \/ DeleteDoc(h), published' = published, minted \in Nat
  PROVE  Calls(h)
<1> DEFINE t == Todo(h)[1]
<1>0. Working(h) /\ Continues(h, Next1(h)) /\ minted' = minted
  BY DEF WriteDoc, DeleteDoc, Mints
<1>1. /\ Task(h) = t /\ Next1(h) = Tail(Todo(h)) /\ Todo(h) # <<>> /\ Continues(h, Tail(Todo(h)))
      /\ minted' = minted
  <2>1. Task(h) = t /\ Next1(h) = Tail(Todo(h)) /\ Todo(h) # <<>>
    BY <1>0, AtWork DEF IInv
  <2> QED BY <1>0, <2>1
<1>2. Todo(h)' = Tail(Todo(h)) /\ \A k \in Handlers \ {h} : Todo(k)' = Todo(k)
  BY <1>1, AfterContinues DEF IInv
<1>3. CASE WriteDoc(h)
  <2>1. doc' = With(t.key, t.value) /\ t.call \in {"put", "new"}
    BY <1>1, <1>3 DEF WriteDoc
  <2>2. t.key \in DOMAIN doc' /\ doc'[t.key] = t.value /\ \A key : key # t.key => Same(key)
    BY <2>1 DEF With, Same
  <2> QED BY <1>1, <1>2, <2>1, <2>2 DEF Calls
<1>4. CASE DeleteDoc(h)
  <2>1. doc' = Without(t.key) /\ t.call = "delete"
    BY <1>1, <1>4 DEF DeleteDoc
  <2>2. t.key \notin DOMAIN doc' /\ \A key : key # t.key => Same(key)
    BY <2>1 DEF Without, Same
  <2> QED BY <1>1, <1>2, <2>1, <2>2 DEF Calls
<1> QED BY <1>3, <1>4

(* What is written once stays. *)
LEMMA LastingStays ==
  ASSUME FeedInv, NEW h \in Handlers, Calls(h), NEW key, key[1] \in Lasting, Held(key)
  PROVE  key \in DOMAIN doc' /\ doc'[key] = doc[key]
<1> DEFINE t == Todo(h)[1]
<1>1. CASE key # t.key
  BY <1>1 DEF Calls, Same, Held
<1>2. CASE key = t.key
  <2>1. IsList(Todo(h)) /\ 1 \in DOMAIN Todo(h) /\ GoodAt(Todo(h), 1, doc, minted, published) /\ minted \in Nat
    BY ListFacts DEF FeedInv, GoodCalls, GoodList, Calls, StoredOnce
  <2>2. key[1] \in Public
    BY DEF Lasting, Public
  <2>3. t.call # "new"
    BY <1>2, <2>1, <2>2, NewIsAside DEF Aside
  <2>4. t.call = "put"
    BY <1>2, <2>1, <2>2, <2>3, PublicApart DEF Calls
  <2>5. doc[t.key] = t.value
    BY <1>2, <2>1, <2>4 DEF FeedInv, NoneDiffer, PutsLasting
  <2> QED BY <1>2, <2>4, <2>5 DEF Calls
<1> QED BY <1>1, <1>2

LEMMA CallStep ==
  ASSUME FeedInv, NEW h \in Handlers, Calls(h)
  PROVE  FeedInv'
<1> DEFINE l == Todo(h)
           t == l[1]
<1>1. /\ minted \in Nat /\ minted' = minted /\ published' = published /\ l # <<>>
      /\ Todo(h)' = Tail(l) /\ \A k \in Handlers \ {h} : Todo(k)' = Todo(k)
      /\ \A key : key # t.key => Same(key)
      /\ IsList(l) /\ 1 \in DOMAIN l /\ GoodList(l, doc, minted, published)
  BY ListFacts DEF FeedInv, StoredOnce, Calls, GoodCalls, GoodList
<1>2. /\ t.call = "put" /\ t.key \in DOMAIN doc' /\ doc'[t.key] = t.value
      \/ t.key \notin DOMAIN doc' \/ t.key[1] \notin Public
  <2>1. CASE t.call = "new"
    <3>1. GoodAt(l, 1, doc, minted, published)
      BY <1>1 DEF GoodList
    <3>2. Aside(t)
      BY <2>1, <3>1, NewIsAside
    <3> QED BY <2>1, <3>2 DEF Aside
  <2> QED BY <2>1 DEF Calls
<1>3. \A key, value : Stands(doc, key, value) /\ key[1] \in Lasting => Stands(doc', key, value)
  BY LastingStays DEF Stands, Held
<1>4. PutsLasting(t) => Stands(doc', t.key, t.value)
  BY <1>2 DEF PutsLasting, Lasting, Public, Stands, Calls
<1>5. \A key, value : Before(l, 1, doc, key, value) /\ key[1] \in Lasting => Before(<<>>, 1, doc', key, value)
  <2>1. \A j \in DOMAIN l : ~(j < 1)
    BY <1>1, ListFacts
  <2> QED BY <1>3, <2>1 DEF Before
<1>6. \A key, value : Before(<<>>, 1, doc, key, value) /\ key[1] \in Lasting => Before(<<>>, 1, doc', key, value)
  BY <1>3, ShortLists DEF Before
<1>7. ASSUME NEW key \in DOMAIN doc', key[1] \in Public
      PROVE  (Held(key) /\ doc'[key] = doc[key]) \/ (key = t.key /\ t.call = "put" /\ doc'[key] = t.value)
  BY <1>1, <1>2, <1>7 DEF Same, Held
<1>8. StoredOnce'
  <2>1. ASSUME NEW key \in DOMAIN doc', key[1] \in Lasting PROVE Kind(key, doc'[key], minted)
    <3>1. key[1] \in Public
      BY <2>1 DEF Lasting, Public
    <3>2. CASE Held(key) /\ doc'[key] = doc[key]
      BY <2>1, <3>2 DEF FeedInv, StoredOnce, Held
    <3>3. CASE key = t.key /\ t.call = "put" /\ doc'[key] = t.value
      BY <1>1, <2>1, <3>3, PutsKind DEF PutsLasting
    <3> QED BY <1>7, <3>1, <3>2, <3>3
  <2>2. ASSUME NEW key, key[1] \in Lasting, NEW value, Before(<<>>, 1, doc', key, value) PROVE key \in DOMAIN doc'
    BY <2>2, ShortLists DEF Before, Stands
  <2>3. ASSUME NEW s \in Scripts, Incident(s) \in DOMAIN doc'
        PROVE  Node(s) \in DOMAIN doc' /\ Edge(s) \in DOMAIN doc' /\ Signalled(s) \in DOMAIN doc'
    <3> DEFINE key == Incident(s)
    <3>1. key[1] \in Lasting /\ key[1] \in Public
      BY PublicKeys DEF Lasting, Public
    <3>2. Node(s)[1] \in Lasting /\ Edge(s)[1] \in Lasting /\ Signalled(s)[1] \in Lasting
      BY PublicKeys DEF Lasting
    <3>3. CASE Held(key)
      <4>1. Held(Node(s)) /\ Held(Edge(s)) /\ Held(Signalled(s))
        BY <3>3 DEF FeedInv, StoredOnce
      <4> QED BY <3>2, <4>1, LastingStays
    <3>4. CASE key = t.key /\ t.call = "put"
      <4>1. Needs(l, 1, doc)
        BY <1>1, <3>1, <3>4, PutsKind DEF PutsLasting, SavesOnce
      <4>2. /\ Before(l, 1, doc, Node(s), None) /\ Before(l, 1, doc, Edge(s), None)
            /\ Before(l, 1, doc, Signalled(s), SignalOf(s))
        BY <3>4, <4>1 DEF Needs
      <4> QED BY <1>5, <2>2, <3>2, <4>2
    <3> QED BY <1>7, <2>3, <3>1, <3>3, <3>4
  <2>4. ASSUME NEW s \in Scripts, Marker \in DOMAIN doc'
        PROVE  Incident(s) \in DOMAIN doc' /\ AuditedBefore(<<>>, 1, doc', s)
    <3>1. Marker[1] \in Lasting /\ Marker[1] \in Public /\ Incident(s)[1] \in Lasting
      BY PublicKeys DEF Lasting, Public
    <3>2. CASE Held(Marker)
      <4>1. Held(Incident(s)) /\ AuditedBefore(<<>>, 1, doc, s)
        BY <3>2 DEF FeedInv, StoredOnce
      <4> QED BY <1>6, <3>1, <4>1, LastingStays, BeforeStays
    <3>3. CASE Marker = t.key /\ t.call = "put"
      <4>1. Needs(l, 1, doc)
        BY <1>1, <3>1, <3>3, PutsKind DEF PutsLasting, SavesOnce
      <4>2. Before(l, 1, doc, Incident(s), None) /\ AuditedBefore(l, 1, doc, s)
        BY <3>3, <4>1 DEF Needs
      <4> QED BY <1>5, <2>2, <3>1, <4>2, BeforeStays
    <3> QED BY <1>7, <2>4, <3>1, <3>2, <3>3
  <2>5. ASSUME NEW f \in FeedNames, Cursor(f) \in DOMAIN doc'
        PROVE  Reached(<<>>, 1, doc', f, published[f], doc'[Cursor(f)])
    <3>1. Cursor(f)[1] \in Public /\ Cursor(f)[1] \notin Lasting /\ Cursor(f)[1] # "RECENT"
      BY PublicKeys DEF Public, Lasting
    <3>2. CASE Held(Cursor(f)) /\ doc'[Cursor(f)] = doc[Cursor(f)]
      <4>1. Reached(<<>>, 1, doc, f, published[f], doc[Cursor(f)])
        BY <3>2 DEF FeedInv, StoredOnce
      <4> QED BY <1>6, <3>2, <4>1, BeforeStays
    <3>3. CASE Cursor(f) = t.key /\ t.call = "put" /\ doc'[Cursor(f)] = t.value
      <4>1. GoodAt(l, 1, doc, minted, published)
        BY <1>1 DEF GoodList
      <4>2. ~SavesOnce(l, 1, doc, minted)
        BY <1>1, <3>1, <3>3, KindFacts DEF SavesOnce
      <4>3. ~SavesRecent(t)
        BY <3>1, <3>3, PublicKeys, PutFields DEF SavesRecent
      <4>4. MovesCursor(l, 1, doc, published)
        BY <1>1, <3>1, <3>3, <4>1, <4>2, <4>3, PublicApart
      <4>5. PICK g \in FeedNames : t = Put(Cursor(g), t.value) /\ Reached(l, 1, doc, g, published[g], t.value)
        BY <4>4 DEF MovesCursor
      <4>6. g = f
        BY <3>3, <4>5, PublicKeys DEF Put
      <4> QED BY <1>5, <3>3, <4>5, <4>6, BeforeStays
    <3> QED BY <1>7, <2>5, <3>1, <3>2, <3>3
  <2>6. \A f \in FeedNames : Dated(published[f])
    BY DEF FeedInv, StoredOnce
  <2> QED BY <1>1, <2>1, <2>3, <2>4, <2>5, <2>6 DEF StoredOnce, Held
<1>9. GoodCalls'
  <2>1. ASSUME NEW k \in Handlers PROVE GoodList(Todo(k)', doc', minted, published)
    <3>1. GoodList(Todo(k), doc', minted, published)
      BY <1>1, <1>3, GoodLater DEF FeedInv, GoodCalls
    <3>2. CASE k = h
      BY <1>1, <1>4, <3>1, <3>2, GoodTail
    <3> QED BY <1>1, <3>1, <3>2
  <2> QED BY <1>1, <2>1 DEF GoodCalls
<1>10. ASSUME NEW k \in Handlers, NEW i \in DOMAIN Todo(k)' PROVE \E j \in DOMAIN Todo(k) : Todo(k)'[i] = Todo(k)[j]
  <2>1. CASE k = h
    BY <1>1, <1>10, <2>1, TailFacts
  <2> QED BY <1>1, <1>10, <2>1
<1>11. NoneDiffer'
  <2>1. ASSUME NEW k \in Handlers, NEW i \in DOMAIN Todo(k)', PutsLasting(Todo(k)'[i])
        PROVE  LET u == Todo(k)'[i]
               IN /\ u.key \in DOMAIN doc' => doc'[u.key] = u.value
                  /\ \A m \in Handlers : \A j \in DOMAIN Todo(m)' :
                       Todo(m)'[j].call = "put" /\ Todo(m)'[j].key = u.key => Todo(m)'[j].value = u.value
    <3> DEFINE u == Todo(k)'[i]
    <3>1. PICK j \in DOMAIN Todo(k) : u = Todo(k)[j]
      BY <1>10
    <3>2. /\ Held(u.key) => doc[u.key] = u.value
          /\ \A m \in Handlers : \A d \in DOMAIN Todo(m) :
               Todo(m)[d].call = "put" /\ Todo(m)[d].key = u.key => Todo(m)[d].value = u.value
      BY <2>1, <3>1 DEF FeedInv, NoneDiffer
    <3>3. u.key[1] \in Public
      BY <2>1 DEF PutsLasting, Lasting, Public
    <3>4. u.key \in DOMAIN doc' => doc'[u.key] = u.value
      BY <1>1, <1>7, <3>2, <3>3
    <3> QED BY <1>10, <3>2, <3>4
  <2> QED BY <2>1 DEF NoneDiffer, Held, PutsLasting
<1> QED BY <1>8, <1>9, <1>11 DEF FeedInv

(* A publisher lists one more entry, or the first window moves on: what was listed stays, and what is new is listed *)
(* after it. *)
Lengthens(P, Q) ==
    /\ P.stamps \in Seq(Nat) /\ Q.stamps \in Seq(Nat) /\ DOMAIN P.stamps \subseteq DOMAIN Q.stamps
    /\ \A n \in DOMAIN P.stamps : Q.stamps[n] = P.stamps[n]
    /\ \A n \in DOMAIN Q.stamps \ DOMAIN P.stamps : Q.stamps[n] > 0 /\ \A m \in DOMAIN P.stamps : m < n
    /\ P.window \in Nat /\ Q.window \in Nat /\ P.window <= Q.window

(* A new entry is newer than the cursor, or late: the entry the cursor names was listed before it. *)
LEMMA StampsStay ==
  ASSUME NEW f, NEW P, NEW Q, Lengthens(P, Q), NEW l, NEW i, NEW D, NEW at, Reached(l, i, D, f, P, at)
  PROVE  Reached(l, i, D, f, Q, at)
<1>1. PICK e \in DOMAIN P.stamps : P.stamps[e] = at /\ GotBefore(l, i, D, f, e)
  BY DEF Reached
<1>2. e \in DOMAIN Q.stamps /\ Q.stamps[e] = at
  BY <1>1 DEF Lengthens
<1>3. /\ \A n \in DOMAIN P.stamps : P.stamps[n] \in Nat
      /\ \A n \in DOMAIN Q.stamps : Q.stamps[n] \in Nat
  <2>1. \A s \in Seq(Nat) : \A n \in DOMAIN s : s[n] \in Nat
    OBVIOUS
  <2> QED BY <2>1 DEF Lengthens
<1>4. ASSUME f \in OldestFirst, NEW n \in DOMAIN Q.stamps, Q.stamps[n] <= at
      PROVE  GotBefore(l, i, D, f, n) \/ Excused(l, i, D, f, Q, n)
  <2>1. CASE n \in DOMAIN P.stamps
    <3>1. P.stamps[n] = Q.stamps[n]
      BY <2>1 DEF Lengthens
    <3>2. GotBefore(l, i, D, f, n) \/ Excused(l, i, D, f, P, n)
      BY <1>4, <2>1, <3>1 DEF Reached, NoneMissed
    <3>3. CASE P.stamps[n] < P.window
      <4>1. Q.stamps[n] < Q.window
        BY <1>3, <2>1, <3>1, <3>3 DEF Lengthens
      <4> QED BY <4>1 DEF Excused
    <3>4. ASSUME NEW k \in DOMAIN P.stamps, GotBefore(l, i, D, f, k),
                 P.stamps[k] = P.stamps[n] \/ (k < n /\ P.stamps[k] > P.stamps[n])
          PROVE  Excused(l, i, D, f, Q, n)
      <4>1. k \in DOMAIN Q.stamps /\ Q.stamps[k] = P.stamps[k]
        BY DEF Lengthens
      <4> QED BY <3>1, <3>4, <4>1 DEF Excused
    <3> QED BY <3>2, <3>3, <3>4 DEF Excused
  <2>2. CASE n \notin DOMAIN P.stamps
    <3>1. e < n
      BY <1>1, <1>4, <2>2 DEF Lengthens
    <3>2. Q.stamps[e] = Q.stamps[n] \/ Q.stamps[e] > Q.stamps[n]
      BY <1>2, <1>3, <1>4
    <3> QED BY <1>1, <1>2, <3>1, <3>2 DEF Excused
  <2> QED BY <2>1, <2>2
<1> QED BY <1>1, <1>2, <1>4 DEF Reached, NoneMissed

LEMMA ListedStep ==
  ASSUME IInv, FeedInv, UNCHANGED storeVars, \A g \in FeedNames : Lengthens(published[g], published'[g])
  PROVE  FeedInv'
<1>1. doc' = doc /\ minted' = minted /\ handler' = handler
  BY DEF storeVars
<1>2. \A g \in FeedNames : Dated(published'[g])
  <2>1. \A g \in FeedNames : Dated(published[g])
    BY DEF FeedInv, StoredOnce
  <2> QED BY <2>1 DEF Lengthens, Dated
<1>3. StoredOnce'
  <2>1. ASSUME NEW g \in FeedNames, Held(Cursor(g)) PROVE Reached(<<>>, 1, doc, g, published'[g], doc[Cursor(g)])
    <3>1. Reached(<<>>, 1, doc, g, published[g], doc[Cursor(g)])
      BY <2>1 DEF FeedInv, StoredOnce
    <3> QED BY <3>1, StampsStay
  <2> QED BY <1>1, <1>2, <2>1 DEF FeedInv, StoredOnce, Held
<1>4. GoodCalls'
  <2>1. ASSUME NEW h \in Handlers, NEW i \in DOMAIN Todo(h) PROVE GoodAt(Todo(h), i, doc, minted, published')
    <3> DEFINE l == Todo(h)
    <3>1. GoodAt(l, i, doc, minted, published)
      BY <2>1 DEF FeedInv, GoodCalls, GoodList
    <3> HIDE DEF l
    <3>2. MovesCursor(l, i, doc, published) => MovesCursor(l, i, doc, published')
      BY StampsStay DEF MovesCursor
    <3>3. Asks(l, i, doc, published) => Asks(l, i, doc, published')
      BY StampsStay DEF Asks
    <3> QED BY <3>1, <3>2, <3>3 DEF GoodAt, l
  <2> QED BY <1>1, <2>1 DEF FeedInv, GoodCalls, GoodList, Todo
<1>5. NoneDiffer'
  BY <1>1 DEF FeedInv, NoneDiffer, Todo, Held, PutsLasting
<1> QED BY <1>3, <1>4, <1>5 DEF FeedInv

LEMMA PublishStep ==
  ASSUME IInv, FeedInv, NEW f \in FeedNames, Publishes(f) \/ WindowMoves(f)
  PROVE  FeedInv'
<1>1. UNCHANGED storeVars
  BY DEF Publishes, WindowMoves
<1>2. published \in [FeedNames -> [stamps : Seq(Nat), window : Nat]]
  BY DEF IInv, TypeInv
<1> DEFINE S == Stamps(f)
           w == published[f].window
<1>3. S \in Seq(Nat) /\ w \in Nat /\ Len(S) \in Nat /\ DOMAIN S = 1..Len(S)
  BY <1>2 DEF Stamps
<1>4. ASSUME NEW g \in FeedNames PROVE Lengthens(published[g], published[g])
  BY <1>2 DEF Lengthens
<1>5. CASE Publishes(f)
  <2>1. MaxEntries[f] \in Nat
    BY FeedsAssumption
  <2>2. PICK at \in 1..MaxEntries[f] :
            published' = [published EXCEPT ![f] = [stamps |-> Append(S, at), window |-> w]]
    BY <1>5 DEF Publishes
  <2> DEFINE T == Append(S, at)
  <2>3. at \in Nat /\ at > 0
    BY <2>1
  <2> HIDE DEF S
  <2>4. /\ T \in Seq(Nat) /\ DOMAIN T = 1..Len(S) + 1 /\ T[Len(S) + 1] = at
        /\ \A n \in DOMAIN S : T[n] = S[n]
    BY <1>3, <2>3
  <2> HIDE DEF T, w
  <2>5. published'[f] = [stamps |-> T, window |-> w] /\ \A g \in FeedNames : g # f => published'[g] = published[g]
    BY <1>2, <2>2 DEF T
  <2>6. published[f].stamps = S /\ published[f].window = w
    BY DEF S, w, Stamps
  <2>7. \A n \in DOMAIN T \ DOMAIN S : T[n] > 0 /\ \A m \in DOMAIN S : m < n
    BY <1>3, <2>3, <2>4
  <2>8. DOMAIN S \subseteq DOMAIN T /\ w <= w
    BY <1>3, <2>4
  <2>9. Lengthens(published[f], published'[f])
    BY <1>3, <2>4, <2>5, <2>6, <2>7, <2>8 DEF Lengthens
  <2> QED BY <1>1, <1>4, <2>5, <2>9, ListedStep
<1>6. CASE WindowMoves(f)
  <2>1. /\ published'[f] = [stamps |-> S, window |-> w + 1]
        /\ \A g \in FeedNames : g # f => published'[g] = published[g]
    BY <1>2, <1>6 DEF WindowMoves
  <2>2. published[f].stamps = S /\ published[f].window = w
    BY DEF Stamps
  <2> HIDE DEF S, w
  <2>3. w <= w + 1 /\ w + 1 \in Nat
    BY <1>3
  <2>4. Lengthens(published[f], published'[f])
    BY <1>3, <2>1, <2>2, <2>3 DEF Lengthens
  <2> QED BY <1>1, <1>4, <2>1, <2>4, ListedStep
<1> QED BY <1>5, <1>6

LEMMA FeedInit0 ==
  ASSUME Init
  PROVE  FeedInv
<1>1. PICK world \in Worlds : doc = world.doc /\ minted = world.minted
  BY DEF Init, StoreInit
<1>2. AtRest(world)
  BY PlatformAssumption
<1>3. minted \in Nat /\ \A key \in DOMAIN doc : key[1] \notin Public
  BY <1>1, <1>2 DEF AtRest, Public
<1>4. \A h \in Handlers : Todo(h) = <<>>
  BY DEF Init, StoreInit, Todo, Idle
<1>5. \A f \in FeedNames : published[f].stamps = <<>>
  BY DEF Init, FeedInit
<1>6. StoredOnce
  <2>1. \A key \in DOMAIN doc : key[1] \notin Lasting
    BY <1>3 DEF Lasting, Public
  <2>2. /\ \A s : ~Held(Incident(s))
        /\ ~Held(Marker)
        /\ \A f : ~Held(Cursor(f))
    BY <1>3, PublicKeys DEF Held, Public
  <2>3. \A f \in FeedNames : Dated(published[f])
    BY <1>5, ShortLists DEF Dated
  <2> QED BY <1>3, <2>1, <2>2, <2>3 DEF StoredOnce
<1>7. GoodCalls
  BY <1>4, ShortLists DEF GoodCalls, GoodList
<1>8. NoneDiffer
  BY <1>4, ShortLists DEF NoneDiffer
<1> QED BY <1>6, <1>7, <1>8 DEF FeedInv

-----------------------------------------------------------------------------
(* Every action preserves the invariant *)

LEMMA GoingOn ==
  ASSUME IInv, FeedInv, NEW h \in Handlers, Working(h), NEW p, IsList(p), Continues(h, p \o Next1(h)),
         doc' = doc, published' = published, NEW n \in Nat, Mints(n), ~PutsLasting(Todo(h)[1])
  PROVE  Turns(h, p, Tail(Todo(h))) /\ minted' = minted + n
<1>1. Next1(h) = Tail(Todo(h)) /\ Todo(h) # <<>>
  BY AtWork DEF IInv
<1>2. Todo(h)' = p \o Tail(Todo(h)) /\ \A k \in Handlers \ {h} : Todo(k)' = Todo(k)
  BY <1>1, AfterContinues DEF IInv
<1>3. minted \in Nat /\ minted' = minted + n
  BY DEF FeedInv, StoredOnce, Mints
<1> QED BY <1>1, <1>2, <1>3 DEF Turns

LEMMA Beginning ==
  ASSUME IInv, FeedInv, NEW h \in Handlers, NEW op, NEW about, NEW s, IsList(s), Starts(h, op, about, s),
         published' = published, NEW n \in Nat, Mints(n)
  PROVE  Turns(h, s, <<>>) /\ minted' = minted + n
<1>1. Todo(h)' = s /\ doc' = doc /\ \A k \in Handlers \ {h} : Todo(k)' = Todo(k)
  BY AfterStarts DEF IInv
<1>2. minted \in Nat /\ minted' = minted + n
  BY DEF FeedInv, StoredOnce, Mints
<1>3. s \o <<>> = s
  BY DEF IsList
<1> QED BY <1>1, <1>2, <1>3 DEF Turns

LEMMA AsideIsNotLasting ==
  ASSUME NEW t, Aside(t) PROVE ~PutsLasting(t)
BY DEF Aside, PutsLasting, Lasting, Public

LEMMA AsideTurn ==
  ASSUME FeedInv, NEW h \in Handlers, NEW p, NEW q, Turns(h, p, q), AsideList(p)
  PROVE  FeedInv'
<1>1. GoodList(p, doc, minted', published)
  BY AsideIsGood
<1>2. NewNumbers(p)
  BY AsideIsNotLasting DEF NewNumbers, AsideList
<1> QED BY <1>1, <1>2, TurnStep

LEMMA AsideStep ==
  ASSUME IInv, FeedInv, NEW h \in Handlers, StandsAside(h), published' = published
  PROVE  FeedInv'
<1>1. minted \in Nat /\ (Mints(0) \/ Mints(1))
  BY DEF StandsAside, Mints, FeedInv, StoredOnce
<1>2. CASE Enters(h)
  <2>1. PICK op, about, s : Starts(h, op, about, s) /\ AsideList(s) /\ Apart(about)
    BY <1>2 DEF Enters
  <2>2. Turns(h, s, <<>>)
    BY <1>1, <2>1, Beginning DEF AsideList
  <2> QED BY <2>1, <2>2, AsideTurn
<1>3. CASE Passes(h)
  <2>1. PICK p : AsideList(p) /\ Continues(h, p \o Tail(Todo(h)))
    BY <1>3 DEF Passes
  <2>2. Working(h) /\ doc' = doc /\ (Aside(Todo(h)[1]) \/ Todo(h)[1].call = "fetch")
    BY <1>3 DEF Passes
  <2>3. ~PutsLasting(Todo(h)[1])
    BY <2>2, AsideIsNotLasting DEF PutsLasting
  <2>4. Next1(h) = Tail(Todo(h))
    BY <2>2, AtWork DEF IInv
  <2>5. Continues(h, p \o Next1(h))
    BY <2>1, <2>4
  <2>6. Turns(h, p, Tail(Todo(h)))
    BY <1>1, <2>1, <2>2, <2>3, <2>5, GoingOn DEF AsideList
  <2> QED BY <2>1, <2>6, AsideTurn
<1> QED BY <1>2, <1>3 DEF StandsAside

LEMMA EndsStep ==
  ASSUME IInv, FeedInv, NEW h \in Handlers, LosesKey(h) \/ Dies(h), published' = published
  PROVE  FeedInv'
<1>1. minted \in Nat
  BY DEF FeedInv, StoredOnce
<1>2. CASE LosesKey(h)
  <2> DEFINE t == Todo(h)[1]
             p == <<Delete(t.else)>>
  <2>1. Working(h) /\ t.call = "new" /\ Continues(h, p) /\ doc' = doc /\ Mints(0) /\ 1 \in DOMAIN Todo(h)
    BY <1>2, AtWork DEF LosesKey, IInv
  <2>2. GoodAt(Todo(h), 1, doc, minted, published)
    BY <2>1 DEF FeedInv, GoodCalls, GoodList
  <2>3. Aside(t)
    BY <2>1, <2>2, NewIsAside
  <2>4. Aside(Delete(t.else))
    BY <2>1, <2>3 DEF Aside, Delete
  <2>5. AsideList(p)
    BY <2>4, AsideShort
  <2>6. Todo(h)' = p /\ \A k \in Handlers \ {h} : Todo(k)' = Todo(k)
    BY <2>1, AfterContinues DEF IInv
  <2>7. IsList(p) /\ p \o <<>> = p
    BY <2>5 DEF AsideList, IsList
  <2> HIDE DEF p
  <2>8. Turns(h, p, <<>>)
    BY <1>1, <2>1, <2>6, <2>7 DEF Turns, Mints
  <2> QED BY <2>5, <2>8, AsideTurn
<1>3. CASE Dies(h)
  <2>1. Todo(h)' = <<>> /\ (\A k \in Handlers \ {h} : Todo(k)' = Todo(k)) /\ doc' = doc /\ minted' = minted
    BY <1>3 DEF Dies, Todo, Idle, IInv, TypeInv
  <2>2. <<>> \o <<>> = <<>> /\ IsList(<<>>)
    BY DEF IsList
  <2>3. Turns(h, <<>>, <<>>)
    BY <1>1, <2>1, <2>2 DEF Turns
  <2> QED BY <2>3, AsideShort, AsideTurn
<1> QED BY <1>2, <1>3

(* A request goes on with reads, and with writes of what stands for nothing else. *)
LEMMA ReadsTurn ==
  ASSUME FeedInv, NEW h \in Handlers, NEW p, NEW q, Turns(h, p, q), IsList(p),
         \A i \in DOMAIN p : Asks(p, i, doc, published) \/ SavesRecent(p[i])
  PROVE  FeedInv'
<1>1. GoodList(p, doc, minted', published)
  BY DEF GoodList, GoodAt
<1>2. ASSUME NEW i \in DOMAIN p PROVE ~PutsLasting(p[i])
  <2>1. CASE Asks(p, i, doc, published)
    BY <2>1 DEF Asks, PutsLasting
  <2>2. CASE SavesRecent(p[i])
    BY <2>2, PutFields, PublicKeys DEF SavesRecent, PutsLasting, Lasting
  <2> QED BY <2>1, <2>2
<1> QED BY <1>1, <1>2, TurnStep DEF NewNumbers

LEMMA LaterFields == \A step, of : Later(step, of).call = step /\ Later(step, of).of = of
BY DEF Later

LEMMA FeedsAreFinite == IsFiniteSet(FeedNames)
<1>1. IsFiniteSet(DOMAIN FeedOrder)
  <2>1. Len(FeedOrder) \in Nat /\ DOMAIN FeedOrder = 1..Len(FeedOrder)
    BY FeedsAssumption
  <2> QED BY <2>1, FS_Interval
<1>2. FeedOrder = [i \in DOMAIN FeedOrder |-> FeedOrder[i]]
  BY FeedsAssumption
<1>3. IsFiniteSet({FeedOrder[i] : i \in DOMAIN FeedOrder})
  BY <1>1, <1>2, FiniteImage
<1> QED BY <1>3 DEF FeedNames

LEMMA PollStep ==
  ASSUME IInv, FeedInv, NEW h \in Handlers, Poll(h)
  PROVE  FeedInv'
<1> DEFINE about == [topic \in {<<"recent", f>> : f \in FeedNames} |-> h]
           s == [i \in DOMAIN FeedOrder |-> Later("since", FeedOrder[i])]
           n == Len(FeedOrder)
<1>1. Starts(h, "poll", about, s) /\ Mints(0) /\ published' = published
  BY DEF Poll
<1>2. n \in Nat /\ DOMAIN FeedOrder = 1..n /\ \A i \in 1..n : FeedOrder[i] \in FeedNames
  BY FeedsAssumption
<1>3. s = [i \in 1..n |-> s[i]] /\ \A i \in 1..n : s[i].call = "since" /\ s[i].of \in FeedNames
  BY <1>2, LaterFields
<1>4. DOMAIN s = 1..n
  BY <1>2
<1> HIDE DEF about, s, n
<1>5. IsList(s)
  BY <1>2, <1>3, FunctionIsList
<1>6. Turns(h, s, <<>>)
  BY <1>1, <1>5, Beginning
<1>7. \A i \in DOMAIN s : Asks(s, i, doc, published)
  BY <1>3, <1>4 DEF Asks
<1> QED BY <1>5, <1>6, <1>7, ReadsTurn

LEMMA RebuildStep ==
  ASSUME IInv, FeedInv, NEW h \in Handlers, Rebuild(h)
  PROVE  FeedInv'
<1> DEFINE stored == {f \in FeedNames : Stored(f) # {}}
           about == [topic \in {<<"recent", f>> : f \in stored} |-> h]
           calls == [f \in stored |->
                       Put(Recent(f), MergeRecent(<<>>, {[id |-> id, at |-> At(id)] : id \in Stored(f)}))]
           s == SetToSeq({calls[f] : f \in stored})
<1>1. Starts(h, "rebuild", about, s) /\ Mints(0) /\ published' = published
  <2>1. {calls[f] : f \in stored} = {Put(Recent(f), MergeRecent(<<>>, {[id |-> id, at |-> At(id)] : id \in Stored(f)})) : f \in stored}
    BY Zenon
  <2> QED BY <2>1 DEF Rebuild
<1>2. IsFiniteSet(stored)
  <2>1. stored \subseteq FeedNames
    OBVIOUS
  <2> HIDE DEF stored
  <2> QED BY <2>1, FeedsAreFinite, FS_Subset
<1>3. calls = [f \in stored |-> calls[f]] /\ \A f \in stored : SavesRecent(calls[f])
  BY PutFields DEF SavesRecent
<1> HIDE DEF about, stored, calls
<1> DEFINE T == {calls[f] : f \in stored}
<1>4. IsFiniteSet(T)
  BY <1>2, <1>3, FiniteImage
<1>5. \A t \in T : SavesRecent(t)
  BY <1>3
<1> HIDE DEF T
<1>6. IsList(SetToSeq(T)) /\ \A i \in DOMAIN SetToSeq(T) : SetToSeq(T)[i] \in T
  BY <1>4, SetToSeqFacts
<1>7. IsList(s) /\ \A i \in DOMAIN s : SavesRecent(s[i])
  BY <1>5, <1>6 DEF T
<1> HIDE DEF s
<1>8. Turns(h, s, <<>>)
  BY <1>1, <1>7, Beginning
<1> QED BY <1>7, <1>8, ReadsTurn

LEMMA ReadsCursorStep ==
  ASSUME IInv, FeedInv, NEW h \in Handlers, ReadsCursor(h)
  PROVE  FeedInv'
<1> DEFINE t == Todo(h)[1]
           f == t.of
           p == <<Later("fetch", [feed |-> f, since |-> Since(f)])>>
<1>1. /\ Working(h) /\ t.call = "since" /\ Continues(h, p \o Next1(h)) /\ Mints(0)
      /\ doc' = doc /\ published' = published /\ 1 \in DOMAIN Todo(h)
  BY AtWork DEF ReadsCursor, IInv
<1>2. f \in FeedNames
  <2>1. GoodAt(Todo(h), 1, doc, minted, published)
    BY <1>1 DEF FeedInv, GoodCalls, GoodList
  <2>2. ~SavesOnce(Todo(h), 1, doc, minted) /\ ~SavesRecent(t) /\ ~MovesCursor(Todo(h), 1, doc, published)
    BY <1>1, PutFields DEF SavesOnce, SavesRecent, MovesCursor
  <2>3. ~Aside(t)
    BY <1>1 DEF Aside
  <2>4. Asks(Todo(h), 1, doc, published)
    BY <2>1, <2>2, <2>3 DEF GoodAt
  <2> QED BY <1>1, <2>4 DEF Asks
<1>3. Since(f) = 0 \/ Reached(<<>>, 1, doc, f, published[f], Since(f))
  BY <1>2 DEF FeedInv, StoredOnce, Since
<1>4. IsList(p) /\ DOMAIN p = {1} /\ p[1].call = "fetch" /\ p[1].of.feed = f /\ p[1].of.since = Since(f)
  BY ShortLists, LaterFields
<1> HIDE DEF p
<1>5. \A i \in DOMAIN p : Asks(p, i, doc, published)
  BY <1>2, <1>3, <1>4 DEF Asks
<1>6. Turns(h, p, Tail(Todo(h)))
  BY <1>1, <1>4, GoingOn DEF PutsLasting
<1> QED BY <1>4, <1>5, <1>6, ReadsTurn

LEMMA IndexesStep ==
  ASSUME IInv, FeedInv, NEW h \in Handlers, Indexes(h)
  PROVE  FeedInv'
<1> DEFINE t == Todo(h)[1]
           f == t.of.feed
           p == <<Put(Recent(f), MergeRecent(Index(f), t.of.fresh))>>
<1>1. /\ Working(h) /\ t.call = "index" /\ Continues(h, p \o Next1(h)) /\ Mints(0)
      /\ doc' = doc /\ published' = published
  BY AtWork DEF Indexes, IInv
<1>2. IsList(p) /\ DOMAIN p = {1} /\ SavesRecent(p[1])
  BY ShortLists, PutFields DEF SavesRecent
<1> HIDE DEF p
<1>3. Turns(h, p, Tail(Todo(h)))
  BY <1>1, <1>2, GoingOn DEF PutsLasting
<1> QED BY <1>2, <1>3, ReadsTurn

Lists(p, t) == \E j \in DOMAIN p : p[j] = t

LEMMA ListsJoin ==
  ASSUME NEW p, NEW q, IsList(p), IsList(q), NEW t
  PROVE  Lists(p \o q, t) <=> Lists(p, t) \/ Lists(q, t)
<1>1. ASSUME NEW j \in DOMAIN q PROVE Len(p) + j \in DOMAIN (p \o q) /\ (p \o q)[Len(p) + j] = q[j]
  <2>1. j \in 1..Len(q) /\ Len(p) \in Nat /\ Len(q) \in Nat /\ DOMAIN (p \o q) = 1..Len(p) + Len(q)
    BY <1>1, ListFacts, JoinFacts
  <2>2. Len(p) + j \in Len(p) + 1..Len(p) + Len(q) /\ (Len(p) + j) - Len(p) = j
    BY <2>1
  <2> QED BY <2>1, <2>2, JoinFacts
<1>2. ASSUME NEW j \in DOMAIN p PROVE j \in DOMAIN (p \o q) /\ (p \o q)[j] = p[j]
  <2>1. j \in 1..Len(p) /\ Len(p) \in Nat /\ Len(q) \in Nat /\ DOMAIN (p \o q) = 1..Len(p) + Len(q)
    BY <1>2, ListFacts, JoinFacts
  <2> QED BY <2>1, JoinFacts
<1>3. Lists(p \o q, t) => Lists(p, t) \/ Lists(q, t)
  BY ElementsOfJoin DEF Lists
<1> QED BY <1>1, <1>2, <1>3 DEF Lists

LEMMA SetToSeqCovers ==
  ASSUME NEW S, IsFiniteSet(S), NEW x \in S
  PROVE  \E i \in DOMAIN SetToSeq(S) : SetToSeq(S)[i] = x
<1> DEFINE n == Cardinality(S)
           t == SetToSeq(S)
<1>1. n \in Nat /\ ExistsBijection(1..n, S)
  BY FS_CardinalityType
<1>2. \E f \in [1..n -> S] : IsInjective(f)
  BY <1>1 DEF ExistsBijection, Bijection, Injection
<1>3. t \in [1..n -> S] /\ IsInjective(t)
  BY <1>2 DEF SetToSeq
<1>4. t \in Injection(1..n, S)
  BY <1>3 DEF Injection
<1>5. IsFiniteSet(1..n) /\ Cardinality(1..n) = n
  BY <1>1, FS_Interval
<1> HIDE DEF t
<1>6. Cardinality(S) = n
  OBVIOUS
<1> HIDE DEF n
<1>7. t \in Surjection(1..n, S)
  BY <1>4, <1>5, <1>6, FS_Injection
<1>8. \E i \in 1..n : t[i] = x
  BY <1>7 DEF Surjection
<1> QED BY <1>3, <1>8 DEF t

(* What comes after a list has all of it before it. *)
LEMMA AllBefore ==
  ASSUME NEW p, NEW q, IsList(p), IsList(q), NEW i, i \in Nat, i > Len(p), NEW D, NEW key, NEW value,
         Lists(p, Put(key, value))
  PROVE  Before(p \o q, i, D, key, value)
<1>1. PICK j \in DOMAIN p : p[j] = Put(key, value)
  BY DEF Lists
<1>2. j \in 1..Len(p) /\ Len(p) \in Nat /\ Len(q) \in Nat /\ DOMAIN (p \o q) = 1..Len(p) + Len(q)
  BY ListFacts, JoinFacts
<1>3. j \in DOMAIN (p \o q) /\ j < i /\ (p \o q)[j] = p[j]
  BY <1>2, JoinFacts
<1> QED BY <1>1, <1>3 DEF Before

(* A list goes on with calls that are good after it. *)
LEMMA GoodAfter ==
  ASSUME NEW p, NEW q, NEW D, NEW n \in Nat, NEW P, GoodList(p, D, n, P), IsList(q),
         \A i \in DOMAIN q : GoodAt(p \o q, Len(p) + i, D, n, P)
  PROVE  GoodList(p \o q, D, n, P)
<1> DEFINE t == p \o q
           a == Len(p)
<1>1. /\ IsList(p) /\ IsList(t) /\ a \in Nat /\ Len(q) \in Nat
      /\ DOMAIN t = 1..a + Len(q) /\ DOMAIN p = 1..a /\ DOMAIN q = 1..Len(q)
      /\ \A i \in 1..a : t[i] = p[i]
  BY JoinFacts, ListFacts DEF GoodList
<1>2. \A i \in DOMAIN q : GoodAt(t, a + i, D, n, P)
  OBVIOUS
<1> HIDE DEF t, a
<1>3. ASSUME NEW i \in 1..a PROVE GoodAt(t, i, D, n, P)
  <2>1. \A key, value : Before(p, i, D, key, value) => Before(t, i, D, key, value)
    BY <1>1 DEF Before
  <2>2. GoodAt(p, i, D, n, P) /\ t[i] = p[i]
    BY <1>1 DEF GoodList
  <2> QED BY <2>1, <2>2, GoodStays
<1>4. ASSUME NEW i \in a + 1..a + Len(q) PROVE GoodAt(t, i, D, n, P)
  <2>1. i - a \in DOMAIN q /\ a + (i - a) = i
    BY <1>1
  <2> QED BY <1>2, <2>1
<1> QED BY <1>1, <1>3, <1>4 DEF GoodList, t

(* What a scenario's incident cites is written ahead of every incident, and the marker after all. *)
Cited(t) ==
    \/ t.call = "index" /\ t.of.feed = "scenario"
    \/ \E s \in Scripts : t \in {Put(Node(s), None), Put(Edge(s), None), Put(Signalled(s), SignalOf(s))}
Told(t, n) ==
    \/ \E s \in Scripts : t = Put(Incident(s), None)
    \/ \E k \in 1..Cardinality(Scripts) : t = Put(Audited(n + k), SetToSeq(Scripts)[k])

LEMMA ScriptsInOrder ==
  /\ Cardinality(Scripts) \in Nat
  /\ \A k \in 1..Cardinality(Scripts) : SetToSeq(Scripts)[k] \in Scripts
  /\ \A s \in Scripts : \E k \in 1..Cardinality(Scripts) : SetToSeq(Scripts)[k] = s
BY SeedingAssumption, SetToSeqFacts, SetToSeqCovers

LEMMA ListOfAll ==
  ASSUME NEW f, f = [s \in Scripts |-> f[s]]
  PROVE  LET l == SetToSeq({f[s] : s \in Scripts})
         IN /\ IsList(l)
            /\ \A i \in DOMAIN l : \E s \in Scripts : l[i] = f[s]
            /\ \A s \in Scripts : Lists(l, f[s])
<1> DEFINE T == {f[s] : s \in Scripts}
<1>1. IsFiniteSet(T)
  BY SeedingAssumption, FiniteImage
<1>2. \A s \in Scripts : f[s] \in T
  OBVIOUS
<1>3. \A t \in T : \E s \in Scripts : t = f[s]
  OBVIOUS
<1> HIDE DEF T
<1>4. IsList(SetToSeq(T)) /\ \A i \in DOMAIN SetToSeq(T) : SetToSeq(T)[i] \in T
  BY <1>1, SetToSeqFacts
<1>5. \A t \in T : \E i \in DOMAIN SetToSeq(T) : SetToSeq(T)[i] = t
  BY <1>1, SetToSeqCovers
<1>6. \A s \in Scripts : Lists(SetToSeq(T), f[s])
  BY <1>2, <1>5 DEF Lists
<1>7. \A i \in DOMAIN SetToSeq(T) : \E s \in Scripts : SetToSeq(T)[i] = f[s]
  BY <1>3, <1>4
<1> QED BY <1>4, <1>6, <1>7 DEF T

LEMMA MapsFacts ==
  /\ IsList(Maps) /\ \A i \in DOMAIN Maps : Cited(Maps[i])
  /\ \A s \in Scripts : Lists(Maps, Put(Node(s), None)) /\ Lists(Maps, Put(Edge(s), None))
<1> DEFINE nodes == [s \in Scripts |-> Put(Node(s), None)]
           edges == [s \in Scripts |-> Put(Edge(s), None)]
           p == SetToSeq({nodes[s] : s \in Scripts})
           q == SetToSeq({edges[s] : s \in Scripts})
<1>1. Maps = p \o q
  <2>1. /\ {nodes[s] : s \in Scripts} = {Put(Node(s), None) : s \in Scripts}
        /\ {edges[s] : s \in Scripts} = {Put(Edge(s), None) : s \in Scripts}
    OBVIOUS
  <2> QED BY <2>1 DEF Maps
<1>2. /\ nodes = [s \in Scripts |-> nodes[s]] /\ \A s \in Scripts : nodes[s] = Put(Node(s), None)
      /\ edges = [s \in Scripts |-> edges[s]] /\ \A s \in Scripts : edges[s] = Put(Edge(s), None)
  OBVIOUS
<1> HIDE DEF nodes, edges
<1>3. IsList(p) /\ (\A i \in DOMAIN p : \E s \in Scripts : p[i] = nodes[s]) /\ \A s \in Scripts : Lists(p, nodes[s])
  BY <1>2, ListOfAll
<1>4. IsList(q) /\ (\A i \in DOMAIN q : \E s \in Scripts : q[i] = edges[s]) /\ \A s \in Scripts : Lists(q, edges[s])
  BY <1>2, ListOfAll
<1> HIDE DEF p, q
<1>5. (\A i \in DOMAIN p : Cited(p[i])) /\ (\A i \in DOMAIN q : Cited(q[i]))
  BY <1>2, <1>3, <1>4 DEF Cited
<1>6. IsList(p \o q) /\ \A i \in DOMAIN (p \o q) : Cited((p \o q)[i])
  BY <1>3, <1>4, <1>5, JoinFacts, ElementsOfJoin
<1>7. \A s \in Scripts : Lists(p \o q, nodes[s]) /\ Lists(p \o q, edges[s])
  BY <1>3, <1>4, ListsJoin
<1> QED BY <1>1, <1>2, <1>6, <1>7

LEMMA SignalsFacts ==
  /\ IsList(SavesSignals) /\ \A i \in DOMAIN SavesSignals : Cited(SavesSignals[i])
  /\ \A s \in Scripts : Lists(SavesSignals, Put(Signalled(s), SignalOf(s)))
<1> DEFINE n == Cardinality(Scripts)
           p == [i \in 1..n |->
                   Put(Signalled(SetToSeq(Scripts)[i]), [feed |-> "scenario", n |-> SetToSeq(Scripts)[i], at |-> 0])]
           q == <<Later("index", [feed |-> "scenario", fresh |-> Signals])>>
<1>1. SavesSignals = p \o q
  BY DEF SavesSignals
<1>2. /\ p = [i \in 1..n |-> p[i]] /\ DOMAIN p = 1..n
      /\ \A i \in 1..n : p[i] = Put(Signalled(SetToSeq(Scripts)[i]), SignalOf(SetToSeq(Scripts)[i]))
  BY DEF SignalOf
<1>3. IsList(q) /\ \A i \in DOMAIN q : Cited(q[i])
  BY ShortLists, LaterFields DEF Cited
<1> HIDE DEF p, q
<1>4. n \in Nat /\ (\A i \in 1..n : SetToSeq(Scripts)[i] \in Scripts)
      /\ \A s \in Scripts : \E i \in 1..n : SetToSeq(Scripts)[i] = s
  BY ScriptsInOrder
<1> HIDE DEF n
<1>5. IsList(p)
  BY <1>2, <1>4, FunctionIsList
<1>6. \A i \in DOMAIN p : Cited(p[i])
  BY <1>2, <1>4 DEF Cited
<1>7. \A s \in Scripts : Lists(p, Put(Signalled(s), SignalOf(s)))
  BY <1>2, <1>4 DEF Lists
<1>8. IsList(p \o q) /\ \A i \in DOMAIN (p \o q) : Cited((p \o q)[i])
  BY <1>3, <1>5, <1>6, JoinFacts, ElementsOfJoin
<1>9. \A s \in Scripts : Lists(p \o q, Put(Signalled(s), SignalOf(s)))
  BY <1>3, <1>5, <1>7, ListsJoin
<1> QED BY <1>1, <1>8, <1>9

LEMMA IncidentsFacts ==
  ASSUME minted \in Nat
  PROVE  /\ IsList(SavesIncidents) /\ \A i \in DOMAIN SavesIncidents : Told(SavesIncidents[i], minted)
         /\ \A s \in Scripts : /\ Lists(SavesIncidents, Put(Incident(s), None))
                               /\ \E m \in Nat : Lists(SavesIncidents, Put(Audited(m), s))
<1> DEFINE n == Cardinality(Scripts)
           m == 2 * n
           l == SavesIncidents
<1>1. n \in Nat /\ (\A k \in 1..n : SetToSeq(Scripts)[k] \in Scripts)
      /\ \A s \in Scripts : \E k \in 1..n : SetToSeq(Scripts)[k] = s
  BY ScriptsInOrder
<1>2. l = [i \in 1..m |-> l[i]] /\ DOMAIN l = 1..m
  BY DEF SavesIncidents
<1>3. ASSUME NEW i \in 1..m
      PROVE  l[i] = IF i % 2 = 1 THEN Put(Incident(SetToSeq(Scripts)[(i + 1) \div 2]), None)
                    ELSE Put(Audited(minted + ((i + 1) \div 2)), SetToSeq(Scripts)[(i + 1) \div 2])
  BY DEF SavesIncidents
<1> HIDE DEF l
<1> DEFINE k(i) == (i + 1) \div 2
<1>4. ASSUME NEW i \in 1..m PROVE k(i) \in 1..n
  BY <1>1
<1>5. ASSUME NEW i \in 1..n PROVE /\ 2 * i - 1 \in 1..m /\ 2 * i \in 1..m
                                  /\ (2 * i - 1) % 2 = 1 /\ (2 * i) % 2 # 1
                                  /\ k(2 * i - 1) = i /\ k(2 * i) = i
  BY <1>1
<1>6. IsList(l)
  <2> HIDE DEF m
  <2>1. m \in Nat
    BY <1>1 DEF m
  <2> QED BY <1>2, <2>1, FunctionIsList
<1>7. ASSUME NEW i \in 1..m PROVE Told(l[i], minted)
  <2>1. CASE i % 2 = 1
    <3>1. l[i] = Put(Incident(SetToSeq(Scripts)[k(i)]), None)
      BY <1>3, <2>1
    <3> HIDE DEF k, n, m
    <3>2. SetToSeq(Scripts)[k(i)] \in Scripts
      BY <1>1, <1>4
    <3> QED BY <3>1, <3>2 DEF Told
  <2>2. CASE i % 2 # 1
    <3>1. l[i] = Put(Audited(minted + k(i)), SetToSeq(Scripts)[k(i)])
      BY <1>3, <2>2
    <3>2. k(i) \in 1..Cardinality(Scripts)
      BY <1>4
    <3> HIDE DEF k, n, m
    <3> QED BY <3>1, <3>2 DEF Told
  <2> QED BY <2>1, <2>2
<1>8. ASSUME NEW s \in Scripts
      PROVE  /\ Lists(l, Put(Incident(s), None))
             /\ \E a \in Nat : Lists(l, Put(Audited(a), s))
  <2>1. PICK i \in 1..n : SetToSeq(Scripts)[i] = s
    BY <1>1
  <2>2. 2 * i - 1 \in 1..m /\ l[2 * i - 1] = Put(Incident(s), None)
    BY <1>3, <1>5, <2>1
  <2>3. 2 * i \in 1..m /\ l[2 * i] = Put(Audited(minted + i), s) /\ minted + i \in Nat
    <3>1. 2 * i \in 1..m /\ (2 * i) % 2 # 1 /\ k(2 * i) = i
      BY <1>5, <2>1
    <3>2. l[2 * i] = Put(Audited(minted + k(2 * i)), SetToSeq(Scripts)[k(2 * i)])
      BY <1>3, <3>1
    <3>3. minted + i \in Nat
      OBVIOUS
    <3> HIDE DEF k
    <3> QED BY <2>1, <3>1, <3>2, <3>3
  <2> QED BY <1>2, <2>2, <2>3 DEF Lists
<1> QED BY <1>2, <1>6, <1>7, <1>8 DEF l

LEMMA NeedsNothing ==
  ASSUME NEW l, NEW i, NEW D, l[i].key[1] \notin {"INCIDENT", "META"}
  PROVE  Needs(l, i, D)
BY PublicKeys DEF Needs

LEMMA CitedIsGood ==
  ASSUME NEW l, NEW i, Cited(l[i]), NEW D, NEW n \in Nat, NEW P
  PROVE  GoodAt(l, i, D, n, P)
<1>1. CASE l[i].call = "index"
  BY <1>1 DEF GoodAt, Asks
<1>2. ASSUME NEW s \in Scripts, l[i] \in {Put(Node(s), None), Put(Edge(s), None), Put(Signalled(s), SignalOf(s))}
      PROVE  GoodAt(l, i, D, n, P)
  <2>1. l[i] = Put(l[i].key, l[i].value) /\ Fixed(l[i].key, l[i].value)
    BY <1>2, PutFields DEF Fixed
  <2>2. l[i].key[1] \notin {"INCIDENT", "META"}
    BY <1>2, PutFields, PublicKeys
  <2> QED BY <2>1, <2>2, NeedsNothing DEF GoodAt, SavesOnce, Kind
<1> QED BY <1>1, <1>2 DEF Cited

LEMMA CitedOnce ==
  ASSUME NEW t, Cited(t), t.call = "put"
  PROVE  Fixed(t.key, t.value) /\ t.key[1] # "AUDIT"
BY PutFields, PublicKeys DEF Cited, Fixed

LEMMA ToldOnce ==
  ASSUME NEW n, NEW t, Told(t, n)
  PROVE  \/ Fixed(t.key, t.value) /\ t.key[1] # "AUDIT"
         \/ \E k \in 1..Cardinality(Scripts) : t.key = Audited(n + k) /\ t.value = SetToSeq(Scripts)[k]
BY PutFields, PublicKeys DEF Told, Fixed

LEMMA SeedsAreGood ==
  ASSUME minted \in Nat, NEW D, NEW n, n = minted + Cardinality(Scripts), NEW P
  PROVE  /\ GoodList(Seeds, D, n, P)
         /\ \A i \in DOMAIN Seeds : Cited(Seeds[i]) \/ Told(Seeds[i], minted) \/ Seeds[i] = Put(Marker, None)
<1> DEFINE A == Maps \o SavesSignals
           I == SavesIncidents
           B == A \o I
           M == <<Put(Marker, None)>>
<1>1. Seeds = B \o M
  BY DEF Seeds
<1>2. IsList(A) /\ \A i \in DOMAIN A : Cited(A[i])
  BY MapsFacts, SignalsFacts, JoinFacts, ElementsOfJoin
<1>3. \A s \in Scripts : /\ Lists(A, Put(Node(s), None)) /\ Lists(A, Put(Edge(s), None))
                         /\ Lists(A, Put(Signalled(s), SignalOf(s)))
  BY MapsFacts, SignalsFacts, ListsJoin
<1>4. /\ IsList(I) /\ \A i \in DOMAIN I : Told(I[i], minted)
      /\ \A s \in Scripts : Lists(I, Put(Incident(s), None)) /\ \E m \in Nat : Lists(I, Put(Audited(m), s))
  BY IncidentsFacts
<1>5. IsList(M) /\ DOMAIN M = {1} /\ M[1] = Put(Marker, None) /\ Len(M) = 1
  BY ShortLists
<1>6. Cardinality(Scripts) \in Nat /\ n \in Nat /\ \A k \in 1..Cardinality(Scripts) : SetToSeq(Scripts)[k] \in Scripts
  BY ScriptsInOrder
<1> HIDE DEF A, I, M
<1>7. GoodList(A, D, n, P)
  BY <1>2, <1>6, CitedIsGood DEF GoodList
<1>8. /\ IsList(B) /\ Len(A) \in Nat /\ Len(I) \in Nat /\ DOMAIN I = 1..Len(I)
      /\ DOMAIN B = 1..Len(A) + Len(I)
      /\ \A i \in Len(A) + 1..Len(A) + Len(I) : B[i] = I[i - Len(A)]
  BY <1>2, <1>4, JoinFacts, ListFacts
<1>9. ASSUME NEW i \in DOMAIN I PROVE GoodAt(B, Len(A) + i, D, n, P)
  <2> DEFINE j == Len(A) + i
  <2>1. j \in Nat /\ j > Len(A) /\ j \in Len(A) + 1..Len(A) + Len(I) /\ j - Len(A) = i
    BY <1>8
  <2> HIDE DEF j
  <2>2. B[j] = I[i] /\ Told(I[i], minted)
    BY <1>4, <1>8, <2>1
  <2>3. ASSUME NEW key, NEW value, Lists(A, Put(key, value)) PROVE Before(B, j, D, key, value)
    BY <1>2, <1>4, <2>1, <2>3, AllBefore
  <2> HIDE DEF B
  <2>4. ASSUME NEW s \in Scripts, I[i] = Put(Incident(s), None) PROVE GoodAt(B, j, D, n, P)
    <3>1. B[j] = Put(B[j].key, B[j].value) /\ Fixed(B[j].key, B[j].value) /\ B[j].key = Incident(s)
      BY <2>2, <2>4, PutFields DEF Fixed
    <3>2. \A r \in Scripts : B[j].key = Incident(r) => r = s
      <4>1. B[j].key[2] = s
        BY <3>1, PublicKeys
      <4> QED BY <4>1, PublicKeys
    <3>3. B[j].key # Marker
      BY <3>1, PublicKeys
    <3>4. Before(B, j, D, Node(s), None) /\ Before(B, j, D, Edge(s), None) /\ Before(B, j, D, Signalled(s), SignalOf(s))
      BY <1>3, <2>3
    <3>5. Needs(B, j, D)
      BY <3>2, <3>3, <3>4 DEF Needs
    <3> QED BY <3>1, <3>5 DEF GoodAt, SavesOnce, Kind
  <2>5. ASSUME NEW k \in 1..Cardinality(Scripts), I[i] = Put(Audited(minted + k), SetToSeq(Scripts)[k])
        PROVE  GoodAt(B, j, D, n, P)
    <3>1. /\ B[j] = Put(B[j].key, B[j].value) /\ B[j].key = Audited(minted + k) /\ B[j].value = SetToSeq(Scripts)[k]
      BY <2>2, <2>5, PutFields
    <3>2. minted + k \in 1..n
      BY <1>6
    <3>3. B[j].value \in Scripts
      BY <1>6, <3>1
    <3>4. Numbered(B[j].key, B[j].value, n)
      BY <3>1, <3>2, <3>3 DEF Numbered
    <3>5. Needs(B, j, D)
      BY <3>1, PublicKeys, NeedsNothing
    <3> QED BY <3>1, <3>4, <3>5 DEF GoodAt, SavesOnce, Kind
  <2> QED BY <2>2, <2>4, <2>5 DEF Told, j
<1>10. GoodList(B, D, n, P)
  BY <1>4, <1>6, <1>7, <1>9, GoodAfter
<1>11. \A s \in Scripts : Lists(B, Put(Incident(s), None)) /\ \E m \in Nat : Lists(B, Put(Audited(m), s))
  BY <1>2, <1>4, ListsJoin
<1>12. \A i \in DOMAIN B : Cited(B[i]) \/ Told(B[i], minted)
  BY <1>2, <1>4, ElementsOfJoin
<1> HIDE DEF B
<1> DEFINE C == B \o M
<1>13. /\ IsList(C) /\ Len(B) \in Nat /\ C[Len(B) + 1] = Put(Marker, None)
  <2>1. /\ IsList(C) /\ Len(B) \in Nat /\ \A i \in Len(B) + 1..Len(B) + Len(M) : C[i] = M[i - Len(B)]
    BY <1>5, <1>8, JoinFacts
  <2> HIDE DEF C
  <2> QED BY <1>5, <2>1
<1>14. ASSUME NEW i \in DOMAIN M PROVE GoodAt(C, Len(B) + i, D, n, P)
  <2> DEFINE j == Len(B) + 1
  <2>1. i = 1 /\ j \in Nat /\ j > Len(B) /\ C[j] = Put(Marker, None)
    BY <1>5, <1>13, <1>14
  <2> HIDE DEF j
  <2>2. ASSUME NEW key, NEW value, Lists(B, Put(key, value)) PROVE Before(C, j, D, key, value)
    BY <1>5, <1>8, <2>1, <2>2, AllBefore
  <2> HIDE DEF C
  <2>3. C[j] = Put(C[j].key, C[j].value) /\ Fixed(C[j].key, C[j].value) /\ C[j].key = Marker
    BY <2>1, PutFields DEF Fixed
  <2>4. \A s \in Scripts : Before(C, j, D, Incident(s), None) /\ AuditedBefore(C, j, D, s)
    BY <1>11, <2>2 DEF AuditedBefore
  <2>5. Needs(C, j, D)
    BY <2>3, <2>4, PublicKeys DEF Needs
  <2> QED BY <2>1, <2>3, <2>5 DEF GoodAt, SavesOnce, Kind, j
<1>15. GoodList(C, D, n, P)
  BY <1>5, <1>6, <1>10, <1>14, GoodAfter
<1>16. \A i \in DOMAIN C : Cited(C[i]) \/ Told(C[i], minted) \/ C[i] = Put(Marker, None)
  <2>1. ASSUME NEW i \in DOMAIN C PROVE Cited(C[i]) \/ Told(C[i], minted) \/ C[i] = Put(Marker, None)
    <3>1. (\E j \in DOMAIN B : C[i] = B[j]) \/ (\E j \in DOMAIN M : C[i] = M[j])
      BY <1>5, <1>8, ElementsOfJoin
    <3> QED BY <1>5, <1>12, <3>1
  <2> QED BY <2>1
<1> QED BY <1>1, <1>15, <1>16

LEMMA SeedStep ==
  ASSUME IInv, FeedInv, NEW h \in Handlers, SeedDemo(h), published' = published
  PROVE  FeedInv'
<1> DEFINE n == Cardinality(Scripts)
           l == Seeds
<1>1. Starts(h, "seed", NoTopic, l) /\ Mints(n)
  BY DEF SeedDemo
<1>2. minted \in Nat /\ n \in Nat
  BY ScriptsInOrder DEF FeedInv, StoredOnce
<1>3. minted' = minted + n
  BY <1>1 DEF Mints
<1>4. /\ GoodList(l, doc, minted', published)
      /\ \A i \in DOMAIN l : Cited(l[i]) \/ Told(l[i], minted) \/ l[i] = Put(Marker, None)
  BY <1>2, <1>3, SeedsAreGood
<1> HIDE DEF l, n
<1>5. IsList(l)
  BY <1>4 DEF GoodList
<1>6. Turns(h, l, <<>>)
  BY <1>1, <1>2, <1>5, Beginning
<1>7. ASSUME NEW i \in DOMAIN l, l[i].call = "put"
      PROVE  \/ Fixed(l[i].key, l[i].value) /\ l[i].key[1] # "AUDIT"
             \/ \E k \in 1..n : l[i].key = Audited(minted + k) /\ l[i].value = SetToSeq(Scripts)[k]
  <2>1. CASE l[i] = Put(Marker, None)
    BY <2>1, PutFields, PublicKeys DEF Fixed
  <2> QED BY <1>4, <1>7, <2>1, CitedOnce, ToldOnce DEF n
<1>8. NewNumbers(l)
  <2>1. SUFFICES ASSUME NEW i \in DOMAIN l, PutsLasting(l[i]), ~Fixed(l[i].key, l[i].value)
                 PROVE  /\ l[i].key[2] \in Nat /\ l[i].key[2] > minted
                        /\ \A j \in DOMAIN l : l[j].call = "put" /\ l[j].key = l[i].key => l[j].value = l[i].value
    BY DEF NewNumbers
  <2>2. PICK k \in 1..n : l[i].key = Audited(minted + k) /\ l[i].value = SetToSeq(Scripts)[k]
    BY <1>7, <2>1 DEF PutsLasting
  <2>3. minted + k \in Nat /\ minted + k > minted
    BY <1>2
  <2>4. l[i].key[1] = "AUDIT" /\ l[i].key[2] = minted + k
    BY <2>2, PublicKeys
  <2>5. ASSUME NEW j \in DOMAIN l, l[j].call = "put", l[j].key = l[i].key PROVE l[j].value = l[i].value
    <3>1. PICK m \in 1..n : l[j].key = Audited(minted + m) /\ l[j].value = SetToSeq(Scripts)[m]
      BY <1>7, <2>4, <2>5
    <3>2. minted + m = minted + k
      BY <2>4, <2>5, <3>1, PublicKeys
    <3>3. m = k
      BY <1>2, <3>2
    <3> QED BY <2>2, <3>1, <3>3
  <2> QED BY <2>3, <2>4, <2>5
<1> QED BY <1>4, <1>6, <1>8, TurnStep

(* In a finite set that is ordered, how many come ahead of an element numbers its elements. *)
LEMMA RanksNumber ==
  ASSUME NEW S, IsFiniteSet(S), NEW ahead \in [S -> SUBSET S],
         \A x \in S : x \notin ahead[x],
         \A x, y \in S : x = y \/ x \in ahead[y] \/ y \in ahead[x],
         \A x, y \in S : y \in ahead[x] => ahead[y] \subseteq ahead[x]
  PROVE  /\ Cardinality(S) \in Nat /\ \A x \in S : Cardinality(ahead[x]) \in 0..Cardinality(S) - 1
         /\ \A x, y \in S : y \in ahead[x] <=> Cardinality(ahead[y]) < Cardinality(ahead[x])
         /\ \A k \in 0..Cardinality(S) - 1 : \E x \in S : Cardinality(ahead[x]) = k
<1> DEFINE rank == [x \in S |-> Cardinality(ahead[x])]
           n == Cardinality(S)
<1>1. n \in Nat
  BY FS_CardinalityType
<1>2. ASSUME NEW x \in S, NEW T \in SUBSET S, T \subseteq ahead[x], NEW U \in SUBSET S, ahead[x] \subseteq U, x \in U
      PROVE  Cardinality(T) \in Nat /\ Cardinality(ahead[x]) \in Nat /\ Cardinality(U) \in Nat
             /\ Cardinality(T) <= Cardinality(ahead[x]) /\ Cardinality(ahead[x]) < Cardinality(U)
  <2>1. IsFiniteSet(T) /\ IsFiniteSet(U) /\ IsFiniteSet(ahead[x])
    BY FS_Subset
  <2>2. Cardinality(T) \in Nat /\ Cardinality(ahead[x]) \in Nat /\ Cardinality(U) \in Nat
    BY <2>1, FS_CardinalityType
  <2>3. Cardinality(T) <= Cardinality(ahead[x])
    BY <1>2, <2>1, FS_Subset
  <2>4. ahead[x] \in SUBSET U /\ ahead[x] # U
    BY <1>2
  <2>5. Cardinality(ahead[x]) <= Cardinality(U) /\ Cardinality(ahead[x]) # Cardinality(U)
    BY <2>1, <2>4, FS_Subset
  <2> QED BY <2>2, <2>3, <2>5
<1>3. \A x \in S : Cardinality(ahead[x]) \in Nat /\ Cardinality(ahead[x]) < n
  BY <1>2
<1>4. ASSUME NEW x \in S, NEW y \in S, y \in ahead[x] PROVE Cardinality(ahead[y]) < Cardinality(ahead[x])
  <2>1. ahead[y] \subseteq ahead[x] /\ ahead[x] \in SUBSET S
    BY <1>4
  <2> QED BY <1>2, <1>4, <2>1
<1>5. ASSUME NEW x \in S, NEW y \in S PROVE y \in ahead[x] <=> Cardinality(ahead[y]) < Cardinality(ahead[x])
  <2>1. x = y \/ x \in ahead[y] \/ y \in ahead[x]
    OBVIOUS
  <2>2. Cardinality(ahead[x]) \in Nat /\ Cardinality(ahead[y]) \in Nat
    BY <1>3
  <2>3. y \in ahead[x] => Cardinality(ahead[y]) < Cardinality(ahead[x])
    BY <1>4
  <2>4. x \in ahead[y] => Cardinality(ahead[x]) < Cardinality(ahead[y])
    BY <1>4
  <2> QED BY <2>1, <2>2, <2>3, <2>4
<1>6. rank \in [S -> 0..n - 1]
  BY <1>1, <1>3
<1>7. \A x \in S : rank[x] = Cardinality(ahead[x])
  OBVIOUS
<1> HIDE DEF rank
<1>8. IsInjective(rank)
  <2>1. ASSUME NEW x \in S, NEW y \in S, rank[x] = rank[y] PROVE x = y
    <3>1. Cardinality(ahead[x]) = Cardinality(ahead[y]) /\ Cardinality(ahead[x]) \in Nat
      BY <1>3, <1>7, <2>1
    <3>2. x \notin ahead[y] /\ y \notin ahead[x]
      BY <1>5, <3>1
    <3> QED BY <3>2
  <2> QED BY <1>6, <2>1 DEF IsInjective
<1>9. IsFiniteSet(0..n - 1) /\ Cardinality(0..n - 1) = n
  BY <1>1, FS_Interval
<1>10. rank \in Surjection(S, 0..n - 1)
  <2>1. rank \in Injection(S, 0..n - 1)
    BY <1>6, <1>8 DEF Injection
  <2> QED BY <1>9, <2>1, FS_Injection
<1>11. ASSUME NEW k \in 0..n - 1 PROVE \E x \in S : Cardinality(ahead[x]) = k
  BY <1>7, <1>10 DEF Surjection
<1> QED BY <1>1, <1>3, <1>5, <1>11

LEMMA NumbersNumber ==
  ASSUME NEW S, IsFiniteSet(S), S \subseteq Nat, NEW ahead \in [S -> SUBSET S],
         \A x, y \in S : y \in ahead[x] <=> y > x
  PROVE  /\ \A x, y \in S : x = y \/ x \in ahead[y] \/ y \in ahead[x]
         /\ Cardinality(S) \in Nat /\ \A x \in S : Cardinality(ahead[x]) \in 0..Cardinality(S) - 1
         /\ \A x, y \in S : y \in ahead[x] <=> Cardinality(ahead[y]) < Cardinality(ahead[x])
         /\ \A k \in 0..Cardinality(S) - 1 : \E x \in S : Cardinality(ahead[x]) = k
<1>1. \A x, y \in S : y \in ahead[x] <=> y > x
  OBVIOUS
<1>2. \A x \in S : x \notin ahead[x]
  BY <1>1
<1>3. \A x, y \in S : x = y \/ x \in ahead[y] \/ y \in ahead[x]
  BY <1>1
<1>4. ASSUME NEW x \in S, NEW y \in S, y \in ahead[x] PROVE ahead[y] \subseteq ahead[x]
  <2>1. SUFFICES ASSUME NEW z \in ahead[y] PROVE z \in ahead[x]
    OBVIOUS
  <2>2. z \in S
    OBVIOUS
  <2>3. x \in Nat /\ y \in Nat /\ z \in Nat
    BY <2>2
  <2> QED BY <1>1, <1>4, <2>1, <2>2, <2>3
<1> QED BY <1>1, <1>2, <1>3, <1>4, RanksNumber

(* So a finite set of numbers that is not empty has a greatest. *)
LEMMA GreatestExists ==
  ASSUME NEW T, IsFiniteSet(T), T \subseteq Nat, T # {}
  PROVE  \E x \in T : \A y \in T : y <= x
<1> DEFINE ahead == [x \in T |-> {y \in T : y > x}]
<1>1. ahead \in [T -> SUBSET T] /\ \A x, y \in T : y \in ahead[x] <=> y > x
  OBVIOUS
<1> HIDE DEF ahead
<1>2. Cardinality(T) \in Nat /\ \A k \in 0..Cardinality(T) - 1 : \E x \in T : Cardinality(ahead[x]) = k
  BY <1>1, NumbersNumber
<1>3. Cardinality(T) # 0
  BY FS_EmptySet
<1>4. PICK x \in T : Cardinality(ahead[x]) = 0
  BY <1>2, <1>3
<1>5. IsFiniteSet(ahead[x])
  BY <1>1, FS_Subset
<1>6. ahead[x] = {}
  BY <1>4, <1>5, FS_EmptySet
<1>7. \A y \in T : y <= x
  BY <1>1, <1>6
<1> QED BY <1>7

(* A poll lists fresh entries, and none before one that is ahead of it. *)
LEMMA AnswerFacts ==
  ASSUME NEW f \in FeedNames, NEW since, NEW e \in Answers(f, since), published \in [FeedNames -> [stamps : Seq(Nat), window : Nat]]
  PROVE  \E n \in Nat : /\ e = [i \in 1..n |-> e[i]]
                        /\ \A i \in 1..n : e[i] \in Fresh(f, since)
                        /\ \A i \in 1..n : \A y \in Fresh(f, since) :
                             Precedes(f, y, e[i]) => \E j \in 1..n : e[j] = y
<1> DEFINE S == Fresh(f, since)
           size == IF Cardinality(S) < LimitAfter(since) THEN Cardinality(S) ELSE LimitAfter(since)
<1>1. PICK n \in Nat : e = [i \in 1..n |-> e[i]]
  BY AnswerIsList
<1>2. /\ e \in [1..size -> S]
      /\ \A y \in S : (\E i \in 1..size : Precedes(f, y, e[i])) => \E i \in 1..size : e[i] = y
  BY DEF Answers
<1> HIDE DEF S, size
<1>3. DOMAIN e = 1..n /\ DOMAIN e = 1..size
  BY <1>1, <1>2
<1>4. 1..size = 1..n
  BY <1>3
<1>5. \A i \in 1..n : e[i] \in S
  BY <1>2, <1>4
<1>6. \A i \in 1..n : \A y \in S : Precedes(f, y, e[i]) => \E j \in 1..n : e[j] = y
  BY <1>2, <1>4
<1> QED BY <1>1, <1>5, <1>6 DEF S

(* What a poll writes of the entries it got: the cursor moves to the newest, when all of them are stored. *)
LEMMA SavesAreGood ==
  ASSUME IInv, FeedInv, NEW f \in FeedNames, NEW since \in Nat, NEW e \in Answers(f, since), e # <<>>,
         since = 0 \/ Reached(<<>>, 1, doc, f, published[f], since), NEW n, n = minted + Len(e)
  PROVE  /\ GoodList(SavesThenMoves(f, e), doc, n, published)
         /\ \A i \in DOMAIN SavesThenMoves(f, e) : LET t == SavesThenMoves(f, e)[i]
            IN \/ \E j \in 1..Len(e) : t = Put(Event(minted + j), EntryOf(f, e[j], Stamps(f)[e[j]]))
               \/ t.call = "index" \/ t.key = Cursor(f)
<1> DEFINE P == Stamps(f)
           W == published[f]
           S == Fresh(f, since)
           m == Len(e)
           E == [i \in DOMAIN e |->
                   Put(Event(minted + i), [feed |-> f, n |-> e[i], at |-> Stamps(f)[e[i]]])]
           X == <<Later("index", [feed |-> f,
                                  fresh |-> {[id |-> minted + i, at |-> Stamps(f)[e[i]]] : i \in DOMAIN e}])>>
           A == E \o X
           at == NewestStamp(f, e)
           M == <<Put(Cursor(f), at)>>
           C == A \o M
<1>1. SavesThenMoves(f, e) = C
  BY DEF SavesThenMoves, Saves, Moves
<1>2. /\ published \in [FeedNames -> [stamps : Seq(Nat), window : Nat]] /\ P \in Seq(Nat) /\ minted \in Nat
      /\ W.stamps = P
  BY DEF IInv, TypeInv, FeedInv, StoredOnce, Stamps
<1>3. DOMAIN P = 1..Len(P) /\ Len(P) \in Nat /\ \A k \in DOMAIN P : P[k] \in Nat
  BY <1>2
<1>4. /\ m \in Nat \ {0} /\ DOMAIN e = 1..m
      /\ \A i \in 1..m : e[i] \in S
      /\ \A i \in 1..m : \A y \in S : Precedes(f, y, e[i]) => \E j \in 1..m : e[j] = y
  <2> HIDE DEF S
  <2>1. \E k \in Nat : /\ e = [i \in 1..k |-> e[i]]
                       /\ \A i \in 1..k : e[i] \in S
                       /\ \A i \in 1..k : \A y \in S : Precedes(f, y, e[i]) => \E j \in 1..k : e[j] = y
    BY <1>2, AnswerFacts DEF S
  <2>2. PICK k \in Nat : /\ e = [i \in 1..k |-> e[i]]
                         /\ \A i \in 1..k : e[i] \in S
                         /\ \A i \in 1..k : \A y \in S : Precedes(f, y, e[i]) => \E j \in 1..k : e[j] = y
    BY <2>1
  <2>3. Len(e) = k /\ DOMAIN e = 1..k
    BY <2>2, FunctionIsList
  <2>4. k # 0
    <3>1. SUFFICES ASSUME k = 0 PROVE FALSE
      OBVIOUS
    <3>2. DOMAIN e = {} /\ IsList(e)
      BY <2>2, <2>3, <3>1, FunctionIsList
    <3> QED BY <3>2, ListFacts
  <2> QED BY <2>2, <2>3, <2>4
<1>5. /\ \A k \in S : k \in DOMAIN P
      /\ f \in OldestFirst => \A k \in DOMAIN P \ S : IF since = 0 THEN ~(P[k] >= W.window) ELSE ~(P[k] > since)
  BY DEF Fresh
<1> HIDE DEF m, S, W
<1>6. \A i \in 1..m : e[i] \in DOMAIN P /\ P[e[i]] \in Nat /\ e[i] \in Nat
  BY <1>3, <1>4, <1>5
<1>7. E = [i \in 1..m |-> E[i]] /\ DOMAIN E = 1..m
      /\ \A i \in 1..m : E[i] = Put(Event(minted + i), EntryOf(f, e[i], P[e[i]]))
  BY <1>4 DEF EntryOf
<1>8. IsList(X) /\ DOMAIN X = {1} /\ X[1].call = "index"
  BY ShortLists, LaterFields
<1>9. IsList(M) /\ DOMAIN M = {1} /\ M[1] = Put(Cursor(f), at)
  BY ShortLists
<1>10. (\E i \in 1..m : P[e[i]] = at) /\ \A i \in 1..m : P[e[i]] <= at
  <2> DEFINE stamps == {Stamps(f)[e[i]] : i \in DOMAIN e}
             g == [i \in 1..m |-> P[e[i]]]
  <2>1. g = [i \in 1..m |-> g[i]] /\ IsFiniteSet(1..m)
    BY <1>4, FS_Interval
  <2>2. stamps = {g[i] : i \in 1..m}
    BY <1>4
  <2> HIDE DEF g
  <2>3. IsFiniteSet(stamps)
    <3>1. IsFiniteSet({g[i] : i \in 1..m})
      BY <2>1, FiniteImage
    <3> HIDE DEF stamps
    <3> QED BY <2>2, <3>1
  <2>4. stamps \subseteq Nat /\ stamps # {}
    BY <1>4, <1>6
  <2>5. \A i \in 1..m : P[e[i]] \in stamps
    BY <1>4
  <2>6. \A x \in stamps : \E i \in 1..m : P[e[i]] = x
    BY <1>4
  <2> HIDE DEF stamps
  <2>7. \E x \in stamps : \A y \in stamps : y <= x
    BY <2>3, <2>4, GreatestExists
  <2>8. \E x \in stamps : \A i \in DOMAIN e : Stamps(f)[e[i]] <= x
    BY <1>4, <2>5, <2>7
  <2>9. at = CHOOSE x \in stamps : \A i \in DOMAIN e : Stamps(f)[e[i]] <= x
    BY DEF NewestStamp, stamps
  <2>10. at \in stamps /\ \A i \in DOMAIN e : Stamps(f)[e[i]] <= at
    BY <2>8, <2>9
  <2> QED BY <1>4, <2>6, <2>10
<1> HIDE DEF E, X, M, at
<1>11. IsList(E) /\ IsList(A) /\ minted + m = n
  BY <1>4, <1>7, <1>8, FunctionIsList, JoinFacts DEF m
<1>12. n \in Nat /\ n >= minted
  BY <1>2, <1>4, <1>11
<1>13. GoodList(E, doc, n, published)
  <2>1. ASSUME NEW i \in 1..m PROVE GoodAt(E, i, doc, n, published)
    <3>1. E[i] = Put(E[i].key, E[i].value) /\ E[i].key = Event(minted + i) /\ E[i].value = EntryOf(f, e[i], P[e[i]])
      BY <1>7, PutFields
    <3>2. minted + i \in 1..n
      BY <1>2, <1>4, <1>11
    <3>3. Numbered(E[i].key, E[i].value, n)
      BY <1>6, <3>1, <3>2 DEF Numbered
    <3>4. Needs(E, i, doc)
      BY <3>1, PublicKeys, NeedsNothing
    <3> QED BY <3>1, <3>3, <3>4 DEF GoodAt, SavesOnce, Kind
  <2> QED BY <1>7, <1>11, <2>1 DEF GoodList
<1>14. GoodList(X, doc, n, published)
  BY <1>8 DEF GoodList, GoodAt, Asks
<1>15. GoodList(A, doc, n, published)
  BY <1>12, <1>13, <1>14, GoodJoin
<1>16. \A i \in 1..m : Lists(A, Put(Event(minted + i), EntryOf(f, e[i], P[e[i]])))
  <2>1. \A i \in 1..m : Lists(E, Put(Event(minted + i), EntryOf(f, e[i], P[e[i]])))
    BY <1>7 DEF Lists
  <2> QED BY <1>8, <1>11, <2>1, ListsJoin
<1>17. \A i \in DOMAIN A : (\E j \in 1..m : A[i] = Put(Event(minted + j), EntryOf(f, e[j], P[e[j]]))) \/ A[i].call = "index"
  <2>1. ASSUME NEW i \in DOMAIN A
        PROVE  (\E j \in 1..m : A[i] = Put(Event(minted + j), EntryOf(f, e[j], P[e[j]]))) \/ A[i].call = "index"
    <3>1. (\E j \in DOMAIN E : A[i] = E[j]) \/ (\E j \in DOMAIN X : A[i] = X[j])
      BY <1>8, <1>11, ElementsOfJoin
    <3> QED BY <1>7, <1>8, <3>1
  <2> QED BY <2>1
<1> HIDE DEF A
<1>18. ASSUME NEW i \in DOMAIN M PROVE GoodAt(C, Len(A) + i, doc, n, published)
  <2> DEFINE j == Len(A) + 1
  <2>1. i = 1 /\ Len(A) \in Nat /\ j \in Nat /\ j > Len(A)
    BY <1>9, <1>11, <1>18, ListFacts
  <2>2. C[j] = Put(Cursor(f), at)
    <3>1. Len(M) = 1
      BY <1>9, ListFacts
    <3>2. j \in Len(A) + 1..Len(A) + Len(M) /\ j - Len(A) = 1
      BY <2>1, <3>1
    <3>3. C[j] = M[j - Len(A)]
      BY <1>9, <1>11, <3>2, JoinFacts
    <3> HIDE DEF j, C
    <3> QED BY <1>9, <3>2, <3>3
  <2> HIDE DEF j
  <2>3. ASSUME NEW k \in 1..m PROVE GotBefore(C, j, doc, f, e[k])
    <3>1. Before(C, j, doc, Event(minted + k), EntryOf(f, e[k], P[e[k]]))
      BY <1>9, <1>11, <1>16, <2>1, AllBefore
    <3>2. minted + k \in Nat
      BY <1>2, <1>4
    <3> QED BY <1>6, <3>1, <3>2 DEF GotBefore
  <2> HIDE DEF C, P
  <2>4. \E k \in DOMAIN P : P[k] = at /\ GotBefore(C, j, doc, f, k)
    BY <1>6, <1>10, <2>3
  <2>5. ASSUME f \in OldestFirst, NEW k \in DOMAIN P, P[k] <= at
        PROVE  GotBefore(C, j, doc, f, k) \/ Excused(C, j, doc, f, W, k)
    <3>1. P[k] \in Nat /\ W.window \in Nat
      BY <1>2, <1>3 DEF W
    <3>2. CASE k \in S
      <4>1. PICK i0 \in 1..m : P[e[i0]] = at
        BY <1>10
      <4>2. CASE P[k] = at
        <5>1. e[i0] \in DOMAIN W.stamps /\ GotBefore(C, j, doc, f, e[i0]) /\ W.stamps[e[i0]] = W.stamps[k]
          BY <1>2, <1>6, <2>3, <4>1, <4>2
        <5> QED BY <5>1 DEF Excused
      <4>3. CASE P[k] < at
        <5>1. Precedes(f, k, e[i0])
          BY <2>5, <4>1, <4>3 DEF Precedes, P
        <5>2. \E d \in 1..m : e[d] = k
          BY <1>4, <3>2, <4>1, <5>1
        <5> QED BY <2>3, <5>2
      <4>4. at \in Nat
        BY <1>6, <4>1
      <4> QED BY <2>5, <3>1, <4>2, <4>3, <4>4
    <3>3. CASE k \notin S /\ since = 0
      <4>1. W.stamps[k] < W.window
        BY <1>2, <1>5, <2>5, <3>1, <3>3
      <4> QED BY <4>1 DEF Excused
    <3>4. CASE k \notin S /\ since # 0
      <4>1. W.stamps[k] <= since
        BY <1>2, <1>5, <2>5, <3>1, <3>4
      <4>2. NoneMissed(<<>>, 1, doc, f, W, since)
        BY <3>4 DEF Reached, W
      <4>3. \A key, value : Before(<<>>, 1, doc, key, value) => Before(C, j, doc, key, value)
        BY ShortLists DEF Before
      <4>4. NoneMissed(C, j, doc, f, W, since)
        BY <4>2, <4>3, BeforeStays
      <4> QED BY <1>2, <2>5, <4>1, <4>4 DEF NoneMissed
    <3> QED BY <3>2, <3>3, <3>4
  <2>6. Reached(C, j, doc, f, W, at)
    BY <1>2, <2>4, <2>5 DEF Reached, NoneMissed
  <2>7. MovesCursor(C, j, doc, published)
    BY <2>2, <2>6, PutFields DEF MovesCursor, W
  <2> QED BY <2>1, <2>7 DEF GoodAt, j
<1>19. GoodList(C, doc, n, published)
  BY <1>9, <1>12, <1>15, <1>18, GoodAfter
<1>20. ASSUME NEW i \in DOMAIN C
       PROVE  \/ \E j \in 1..m : C[i] = Put(Event(minted + j), EntryOf(f, e[j], P[e[j]]))
              \/ C[i].call = "index" \/ C[i].key = Cursor(f)
  <2>1. (\E j \in DOMAIN A : C[i] = A[j]) \/ (\E j \in DOMAIN M : C[i] = M[j])
    <3>1. i \in DOMAIN (A \o M)
      BY <1>20
    <3>2. C = A \o M
      OBVIOUS
    <3> HIDE DEF P, C
    <3>3. (\E j \in DOMAIN A : (A \o M)[i] = A[j]) \/ (\E j \in DOMAIN M : (A \o M)[i] = M[j])
      BY <1>9, <1>11, <3>1, ElementsOfJoin
    <3> QED BY <3>2, <3>3
  <2> HIDE DEF C, P
  <2>2. M[1].key = Cursor(f)
    BY <1>9, PutFields
  <2> QED BY <1>9, <1>17, <2>1, <2>2
<1> QED BY <1>1, <1>19, <1>20 DEF m

LEMMA FetchesStep ==
  ASSUME IInv, FeedInv, NEW h \in Handlers, Fetches(h)
  PROVE  FeedInv'
<1> DEFINE t == Todo(h)[1]
           f == t.of.feed
           since == t.of.since
<1>0. PICK e \in Answers(f, since) :
          /\ Continues(h, <<Put(Sync(f), "ok")>>
                            \o (IF e = <<>> THEN <<>> ELSE SavesThenMoves(f, e)) \o Next1(h))
          /\ Mints(Len(e))
  BY AtWork DEF Fetches, IInv
<1> DEFINE m == Len(e)
           n == minted + m
           p == <<Put(Sync(f), "ok")>>
           q == IF e = <<>> THEN <<>> ELSE SavesThenMoves(f, e)
           Saved(u) == \E j \in 1..m : u = Put(Event(minted + j), EntryOf(f, e[j], Stamps(f)[e[j]]))
<1>1. /\ Working(h) /\ t.call = "fetch" /\ Continues(h, p \o q \o Next1(h)) /\ Mints(m)
      /\ doc' = doc /\ published' = published /\ 1 \in DOMAIN Todo(h)
  BY <1>0, AtWork DEF Fetches, IInv
<1>2. f \in FeedNames /\ (since = 0 \/ Reached(<<>>, 1, doc, f, published[f], since))
  <2>1. GoodAt(Todo(h), 1, doc, minted, published)
    BY <1>1 DEF FeedInv, GoodCalls, GoodList
  <2>2. ~SavesOnce(Todo(h), 1, doc, minted) /\ ~SavesRecent(t) /\ ~MovesCursor(Todo(h), 1, doc, published)
    BY <1>1, PutFields DEF SavesOnce, SavesRecent, MovesCursor
  <2>3. ~Aside(t)
    BY <1>1 DEF Aside
  <2>4. Asks(Todo(h), 1, doc, published)
    BY <2>1, <2>2, <2>3 DEF GoodAt
  <2> QED BY <1>1, <2>4 DEF Asks
<1>3. minted \in Nat /\ published \in [FeedNames -> [stamps : Seq(Nat), window : Nat]]
  BY DEF FeedInv, StoredOnce, IInv, TypeInv
<1>4. since \in Nat
  BY <1>2, <1>3 DEF Reached
<1> HIDE DEF since, f
<1>5. m \in Nat
  <2>1. \E k \in Nat : e = [i \in 1..k |-> e[i]]
    BY <1>2, <1>3, AnswerFacts
  <2> QED BY <2>1, FunctionIsList
<1>6. n \in Nat /\ n >= minted
  BY <1>3, <1>5
<1>7. GoodList(p, doc, n, published) /\ IsList(p) /\ DOMAIN p = {1} /\ p[1].call = "put" /\ p[1].key[1] = "SYNC"
  <2>1. AsideList(p)
    BY AsideCalls, AsideKeys, AsideShort
  <2>2. GoodList(p, doc, n, published)
    BY <2>1, AsideIsGood
  <2>3. Sync(f)[1] = "SYNC"
    BY DEF Sync
  <2> QED BY <2>2, <2>3, ShortLists, PutFields
<1> HIDE DEF m, n
<1>8. /\ GoodList(q, doc, n, published)
      /\ \A i \in DOMAIN q : Saved(q[i]) \/ q[i].call = "index" \/ q[i].key = Cursor(f)
  <2>1. CASE e = <<>>
    BY <2>1, ShortLists DEF GoodList
  <2>2. CASE e # <<>>
    <3>1. n = minted + Len(e)
      BY DEF n, m
    <3>2. /\ GoodList(SavesThenMoves(f, e), doc, n, published)
          /\ \A i \in DOMAIN SavesThenMoves(f, e) : LET u == SavesThenMoves(f, e)[i]
             IN \/ \E j \in 1..Len(e) : u = Put(Event(minted + j), EntryOf(f, e[j], Stamps(f)[e[j]]))
                \/ u.call = "index" \/ u.key = Cursor(f)
      BY <1>2, <1>4, <2>2, <3>1, SavesAreGood
    <3>3. q = SavesThenMoves(f, e)
      BY <2>2
    <3> HIDE DEF q
    <3> QED BY <3>2, <3>3 DEF m
  <2> QED BY <2>1, <2>2
<1> HIDE DEF p, q
<1> DEFINE l == p \o q
<1>9. GoodList(l, doc, n, published)
  BY <1>6, <1>7, <1>8, GoodJoin
<1>10. ASSUME NEW i \in DOMAIN l, l[i].call = "put", l[i].key[1] \notin {"SYNC", "FEED"} PROVE Saved(l[i])
  <2>1. IsList(q) /\ IsList(p)
    BY <1>7, <1>8 DEF GoodList
  <2>2. (\E j \in DOMAIN p : l[i] = p[j]) \/ (\E j \in DOMAIN q : l[i] = q[j])
    BY <1>10, <2>1, ElementsOfJoin
  <2> HIDE DEF l, Saved
  <2> QED BY <1>7, <1>8, <1>10, <2>2, PublicKeys
<1>11. Continues(h, l \o Next1(h))
  BY <1>1
<1> HIDE DEF l
<1>12. IsList(l)
  BY <1>9 DEF GoodList
<1>13. Turns(h, l, Tail(Todo(h))) /\ minted' = minted + m
  <2>1. ~PutsLasting(Todo(h)[1])
    BY <1>1 DEF PutsLasting
  <2> QED BY <1>1, <1>5, <1>11, <1>12, <2>1, GoingOn
<1>14. NewNumbers(l)
  <2>1. SUFFICES ASSUME NEW i \in DOMAIN l, PutsLasting(l[i])
                 PROVE  /\ l[i].key[2] \in Nat /\ l[i].key[2] > minted
                        /\ \A j \in DOMAIN l : l[j].call = "put" /\ l[j].key = l[i].key => l[j].value = l[i].value
    BY DEF NewNumbers
  <2>2. l[i].call = "put" /\ l[i].key[1] \notin {"SYNC", "FEED"}
    BY <2>1 DEF PutsLasting, Lasting
  <2>3. PICK k \in 1..m : l[i] = Put(Event(minted + k), EntryOf(f, e[k], Stamps(f)[e[k]]))
    BY <1>10, <2>2
  <2>4. l[i].key = Event(minted + k) /\ l[i].value = EntryOf(f, e[k], Stamps(f)[e[k]])
    BY <2>3, PutFields
  <2>5. l[i].key[2] = minted + k /\ minted + k \in Nat /\ minted + k > minted
    BY <1>3, <2>4, PublicKeys
  <2>6. ASSUME NEW j \in DOMAIN l, l[j].call = "put", l[j].key = l[i].key PROVE l[j].value = l[i].value
    <3>1. PICK d \in 1..m : l[j] = Put(Event(minted + d), EntryOf(f, e[d], Stamps(f)[e[d]]))
      BY <1>10, <2>2, <2>6
    <3>2. l[j].key = Event(minted + d) /\ l[j].value = EntryOf(f, e[d], Stamps(f)[e[d]])
      BY <3>1, PutFields
    <3>3. minted + d = minted + k
      BY <2>5, <2>6, <3>2, PublicKeys
    <3>4. d = k
      BY <1>3, <3>3
    <3> QED BY <2>4, <3>2, <3>4
  <2> QED BY <2>5, <2>6
<1>15. GoodList(l, doc, minted', published)
  BY <1>9, <1>13 DEF n
<1> QED BY <1>13, <1>14, <1>15, TurnStep

LEMMA FeedStepHolds ==
  ASSUME IInv, FeedInv, [Next]_vars
  PROVE  FeedInv'
<1>1. minted \in Nat
  BY DEF FeedInv, StoredOnce
<1>2. ASSUME NEW h \in Handlers, published' = published,
             \/ StandsAside(h) \/ Poll(h) \/ ReadsCursor(h) \/ Fetches(h) \/ Indexes(h) \/ Rebuild(h)
             \/ SeedDemo(h) \/ StorageCall(h)
      PROVE  FeedInv'
  <2>1. CASE StorageCall(h)
    <3>1. CASE WriteDoc(h) \/ DeleteDoc(h)
      BY <1>1, <1>2, <3>1, CallsFacts, CallStep
    <3>2. CASE LosesKey(h) \/ Dies(h)
      BY <1>2, <3>2, EndsStep
    <3> QED BY <2>1, <3>1, <3>2 DEF StorageCall
  <2> QED BY <1>2, <2>1, AsideStep, PollStep, ReadsCursorStep, FetchesStep, IndexesStep, RebuildStep, SeedStep
<1>3. ASSUME NEW f \in FeedNames, Publishes(f) \/ WindowMoves(f) PROVE FeedInv'
  BY <1>3, PublishStep
<1>4. CASE UNCHANGED <<storeVars, published>>
  BY <1>4 DEF storeVars, FeedInv, StoredOnce, GoodCalls, NoneDiffer, Todo, Held, PutsLasting
<1> QED BY <1>1, <1>2, <1>3, <1>4, FeedNext

(* What was written once stays, and every call ahead has what it needs before it. *)
THEOREM FeedInductive == Spec => [](IInv /\ FeedInv)
<1>1. Init => IInv /\ FeedInv
  BY InitHolds, FeedInit0
<1>2. (IInv /\ FeedInv) /\ [Next]_vars => (IInv /\ FeedInv)'
  BY StepHolds, FeedStepHolds
<1> QED BY <1>1, <1>2, PTL DEF Spec

(* "A citation that dangles for even one request is the defect this ordering exists to prevent" (seed.py), and no *)
(* container trusts a marker before everything is there: for any number of containers that start at once, wherever *)
(* they die, whatever else is asked of the deployment meanwhile. *)
THEOREM SeededIsAlwaysWhole == Spec => []SeededIsWhole
<1>1. FeedInv => SeededIsWhole
  <2> SUFFICES ASSUME FeedInv PROVE SeededIsWhole
    OBVIOUS
  <2>1. ASSUME NEW s \in Scripts, Held(Incident(s))
        PROVE  Held(Node(s)) /\ Held(Signalled(s)) /\ \E key \in Partition("EDGE") : key[2] = s
    <3>1. Held(Node(s)) /\ Held(Edge(s)) /\ Held(Signalled(s))
      BY <2>1 DEF FeedInv, StoredOnce
    <3>2. Edge(s) \in Partition("EDGE") /\ Edge(s)[2] = s
      BY <3>1, PublicKeys DEF Partition, Held
    <3> QED BY <3>1, <3>2
  <2>2. ASSUME Held(Marker), NEW s \in Scripts
        PROVE  Held(Incident(s)) /\ \E key \in Partition("AUDIT") : doc[key] = s
    <3>1. Held(Incident(s)) /\ AuditedBefore(<<>>, 1, doc, s)
      BY <2>2 DEF FeedInv, StoredOnce
    <3>2. PICK m \in Nat : Before(<<>>, 1, doc, Audited(m), s)
      BY <3>1 DEF AuditedBefore
    <3>3. Audited(m) \in DOMAIN doc /\ doc[Audited(m)] = s
      BY <3>2, ShortLists DEF Before, Stands
    <3>4. Audited(m) \in Partition("AUDIT")
      BY <3>3, PublicKeys DEF Partition
    <3> QED BY <3>1, <3>3, <3>4
  <2> QED BY <2>1, <2>2 DEF SeededIsWhole
<1> QED BY <1>1, FeedInductive, PTL

(* The cursor of a feed names a stored entry, and on a feed that answers oldest first nothing up to it is missing *)
(* but what the first window left out, what shares the stamp of a stored entry and what was listed late *)
(* (feeds/ingest.py:7 and :88): for any feeds and limits, however the publisher orders and stamps its entries, *)
(* whichever polls fail, die, overlap or are repeated. *)
THEOREM CursorAlwaysFollows == Spec => []CursorFollowsTheWrite
<1>1. FeedInv => CursorFollowsTheWrite
  <2> SUFFICES ASSUME FeedInv, NEW f \in FeedNames, Held(Cursor(f))
               PROVE  LET stored == {doc[Event(id)].n : id \in Stored(f)}
                      IN /\ \E n \in stored : Stamps(f)[n] = doc[Cursor(f)]
                         /\ f \in OldestFirst =>
                              \A n \in (DOMAIN Stamps(f)) \ stored : Stamps(f)[n] <= doc[Cursor(f)] =>
                                \/ Stamps(f)[n] < published[f].window
                                \/ \E k \in stored : \/ Stamps(f)[k] = Stamps(f)[n]
                                                     \/ k < n /\ Stamps(f)[k] > Stamps(f)[n]
    BY DEF CursorFollowsTheWrite
  <2> DEFINE stored == {doc[Event(id)].n : id \in Stored(f)}
  <2>1. Reached(<<>>, 1, doc, f, published[f], doc[Cursor(f)])
    BY DEF FeedInv, StoredOnce
  <2>2. ASSUME NEW n, GotBefore(<<>>, 1, doc, f, n) PROVE n \in stored
    <3>1. PICK m \in Nat, at \in Nat : Before(<<>>, 1, doc, Event(m), EntryOf(f, n, at))
      BY <2>2 DEF GotBefore
    <3>2. Event(m) \in DOMAIN doc /\ doc[Event(m)] = EntryOf(f, n, at)
      BY <3>1, ShortLists DEF Before, Stands
    <3>3. Event(m) \in Partition("EVENT") /\ Event(m)[2] = m /\ doc[Event(m)].feed = f /\ doc[Event(m)].n = n
      BY <3>2, PublicKeys DEF Partition, EntryOf
    <3>4. m \in Stored(f)
      BY <3>3 DEF Stored
    <3> QED BY <3>3, <3>4
  <2> HIDE DEF stored
  <2>3. \E n \in stored : Stamps(f)[n] = doc[Cursor(f)]
    BY <2>1, <2>2 DEF Reached, Stamps
  <2>4. ASSUME f \in OldestFirst, NEW n \in (DOMAIN Stamps(f)) \ stored, Stamps(f)[n] <= doc[Cursor(f)]
        PROVE  \/ Stamps(f)[n] < published[f].window
               \/ \E k \in stored : Stamps(f)[k] = Stamps(f)[n] \/ (k < n /\ Stamps(f)[k] > Stamps(f)[n])
    <3>1. Excused(<<>>, 1, doc, f, published[f], n)
      BY <2>1, <2>2, <2>4 DEF Reached, NoneMissed, Stamps
    <3> QED BY <2>2, <3>1 DEF Excused, Stamps
  <2> QED BY <2>3, <2>4 DEF stored
<1> QED BY <1>1, FeedInductive, PTL

-----------------------------------------------------------------------------
(* The index of a feed *)

(* The events of a feed, as its index lists them, and the index, of a store that holds D. *)
EventsIn(D, f) == {[id |-> key[2], at |-> D[key].at] : key \in {k \in DOMAIN D : k[1] = "EVENT" /\ D[k].feed = f}}
IndexIn(D, f) == IF Recent(f) \in DOMAIN D THEN D[Recent(f)] ELSE <<>>

NewerIn(events, e) == {x \in events : Newer(x, e)}
(* A list is of the newest of these events, the newest first. *)
IsNewest(l, events) ==
    /\ ToSet(l) = {e \in events : Cardinality(NewerIn(events, e)) < RecentCap}
    /\ \A i \in DOMAIN l : Cardinality(NewerIn(events, l[i])) = i - 1

(* What of a call has to do with the index of a feed. *)
SavesEvent(t, f) == t.call = "put" /\ t.key[1] = "EVENT" /\ t.value.feed = f
EventOf(t) == [id |-> t.key[2], at |-> t.value.at]
IndexesFeed(t, f) == t.call = "index" /\ t.of.feed = f
SavesIndex(t, f) == t.call = "put" /\ t.key = Recent(f)
Touches(t, f) == SavesEvent(t, f) \/ IndexesFeed(t, f) \/ SavesIndex(t, f)
Quiet(l, f) == \A i \in DOMAIN l : ~Touches(l[i], f)

ReadsFeed(t) == t.call \in {"since", "fetch"}
Concerns(t, f) == Touches(t, f) \/ (t.call = "since" /\ t.of = f) \/ (t.call = "fetch" /\ t.of.feed = f)

(* Ahead is to index what was fetched, events that are stored or that are put before; the index is of all others. *)
Collects(l, i, D, f) ==
    /\ IndexesFeed(l[i], f)
    /\ \A j \in DOMAIN l : Touches(l[j], f) =>
         j = i \/ (j < i /\ SavesEvent(l[j], f) /\ EventOf(l[j]) \in l[i].of.fresh)
    /\ \A e \in l[i].of.fresh :
         e \in EventsIn(D, f) \/ \E j \in DOMAIN l : j < i /\ SavesEvent(l[j], f) /\ EventOf(l[j]) = e
    /\ IsNewest(IndexIn(D, f), EventsIn(D, f) \ l[i].of.fresh)

(* Nothing is ahead that touches the feed, or only to save an index that was read and merged. *)
Rewrites(l, D, f) ==
    \A j \in DOMAIN l : Touches(l[j], f) => SavesIndex(l[j], f) /\ IsNewest(l[j].value, EventsIn(D, f))
Stage(l, D, f) == Rewrites(l, D, f) \/ \E i \in DOMAIN l : Collects(l, i, D, f)

(* Who reads or writes events of a feed works on its index, and polls one feed after the other. *)
RecentOf(f) == <<"recent", f>>
WorkersAreNamed ==
    \A h \in Handlers :
        /\ \A topic : Works(h, topic) /\ topic[1] = "recent" => About(h)[topic] = h
        /\ \A i \in DOMAIN Todo(h) : \A f \in FeedNames :
             Concerns(Todo(h)[i], f) => RecentOf(f) \in DOMAIN About(h)
InTurn(l) ==
    \A i \in DOMAIN l : ReadsFeed(l[i]) =>
        /\ \A j \in DOMAIN l : j > i => l[j].call = "since"
        /\ l[i].call = "fetch" => i = 1
FeedsInTurn == \A h \in Handlers : InTurn(Todo(h))

(* The index lists the newest events, or a request that works on it will make it so. *)
IndexOf(f) ==
    /\ \A h \in Handlers : Stage(Todo(h), doc, f)
    /\ (\A h \in Handlers : Quiet(Todo(h), f)) => IsNewest(IndexIn(doc, f), EventsIn(doc, f))
IndexIsGood == \A f \in FeedNames : RecentOf(f) \notin crossed => IndexOf(f)

IndexInv == WorkersAreNamed /\ FeedsInTurn /\ IndexIsGood

-----------------------------------------------------------------------------
(* Events in their order *)

LEMMA NewerOrders ==
  ASSUME NEW x \in [id : Nat, at : Nat], NEW y \in [id : Nat, at : Nat]
  PROVE  /\ ~Newer(x, x)
         /\ x = y \/ Newer(x, y) \/ Newer(y, x)
         /\ \A z \in [id : Nat, at : Nat] : Newer(z, y) /\ Newer(y, x) => Newer(z, x)
<1>1. x.id \in Nat /\ x.at \in Nat /\ y.id \in Nat /\ y.at \in Nat
  OBVIOUS
<1>2. ~Newer(x, x)
  BY <1>1 DEF Newer
<1>3. x = y \/ Newer(x, y) \/ Newer(y, x)
  <2>1. x.id = y.id /\ x.at = y.at => x = y
    OBVIOUS
  <2> QED BY <1>1, <2>1 DEF Newer
<1>4. ASSUME NEW z \in [id : Nat, at : Nat], Newer(z, y), Newer(y, x) PROVE Newer(z, x)
  <2>1. z.id \in Nat /\ z.at \in Nat
    OBVIOUS
  <2> QED BY <1>1, <1>4, <2>1 DEF Newer
<1> QED BY <1>2, <1>3, <1>4

LEMMA NewerRanks ==
  ASSUME NEW S, IsFiniteSet(S), S \subseteq [id : Nat, at : Nat]
  PROVE  /\ Cardinality(S) \in Nat /\ \A x \in S : Cardinality(NewerIn(S, x)) \in 0..Cardinality(S) - 1
         /\ \A x, y \in S : y \in NewerIn(S, x) <=> Cardinality(NewerIn(S, y)) < Cardinality(NewerIn(S, x))
         /\ \A k \in 0..Cardinality(S) - 1 : \E x \in S : Cardinality(NewerIn(S, x)) = k
         /\ \A x, y \in S : x = y \/ x \in NewerIn(S, y) \/ y \in NewerIn(S, x)
<1> DEFINE ahead == [x \in S |-> NewerIn(S, x)]
<1>1. ahead \in [S -> SUBSET S] /\ \A x \in S : ahead[x] = NewerIn(S, x)
  BY DEF NewerIn
<1> HIDE DEF ahead
<1>2. \A x, y \in S : y \in ahead[x] <=> Newer(y, x)
  BY <1>1 DEF NewerIn
<1>3. \A x \in S : x \notin ahead[x]
  BY <1>2, NewerOrders
<1>4. \A x, y \in S : x = y \/ x \in ahead[y] \/ y \in ahead[x]
  BY <1>2, NewerOrders
<1>5. ASSUME NEW x \in S, NEW y \in S, y \in ahead[x] PROVE ahead[y] \subseteq ahead[x]
  <2>1. SUFFICES ASSUME NEW z \in ahead[y] PROVE z \in ahead[x]
    OBVIOUS
  <2>2. z \in S
    BY <1>1
  <2>3. Newer(z, y) /\ Newer(y, x)
    BY <1>2, <1>5, <2>1, <2>2
  <2>4. Newer(z, x)
    BY <2>2, <2>3, NewerOrders
  <2> QED BY <1>2, <2>2, <2>4
<1>6. /\ Cardinality(S) \in Nat /\ \A x \in S : Cardinality(ahead[x]) \in 0..Cardinality(S) - 1
      /\ \A x, y \in S : y \in ahead[x] <=> Cardinality(ahead[y]) < Cardinality(ahead[x])
      /\ \A k \in 0..Cardinality(S) - 1 : \E x \in S : Cardinality(ahead[x]) = k
  BY <1>1, <1>3, <1>4, <1>5, RanksNumber
<1> QED BY <1>1, <1>4, <1>6

-----------------------------------------------------------------------------
(* The newest of a set of events *)

(* What MergeRecent keeps is the newest of what was indexed and what arrived. *)
LEMMA MergeFacts ==
  ASSUME NEW entries, NEW fresh, IsFiniteSet(ToSet(entries) \cup fresh),
         ToSet(entries) \cup fresh \subseteq [id : Nat, at : Nat]
  PROVE  IsNewest(MergeRecent(entries, fresh), ToSet(entries) \cup fresh)
<1> DEFINE S == ToSet(entries) \cup fresh
           c == Cardinality(S)
           n == IF c < RecentCap THEN c ELSE RecentCap
           d(i) == CHOOSE x \in S : Cardinality({y \in S : Newer(y, x)}) = i - 1
           l == MergeRecent(entries, fresh)
<1>1. l = [i \in 1..n |-> d(i)]
  BY Zenon DEF MergeRecent, First
<1>4. IsFiniteSet(S) /\ S \subseteq [id : Nat, at : Nat]
  OBVIOUS
<1> HIDE DEF S
<1>2. /\ c \in Nat /\ \A x \in S : Cardinality(NewerIn(S, x)) \in 0..c - 1
      /\ \A x, y \in S : y \in NewerIn(S, x) <=> Cardinality(NewerIn(S, y)) < Cardinality(NewerIn(S, x))
      /\ \A k \in 0..c - 1 : \E x \in S : Cardinality(NewerIn(S, x)) = k
      /\ \A x, y \in S : x = y \/ x \in NewerIn(S, y) \/ y \in NewerIn(S, x)
  BY <1>4, NewerRanks
<1>3. n \in Nat /\ n <= c /\ n <= RecentCap /\ RecentCap \in Nat
  BY <1>2, FeedsAssumption
<1>5. ASSUME NEW i \in 1..n PROVE d(i) \in S /\ Cardinality(NewerIn(S, d(i))) = i - 1
  <2>1. i - 1 \in 0..c - 1
    BY <1>2, <1>3
  <2>2. PICK x \in S : Cardinality(NewerIn(S, x)) = i - 1
    BY <1>2, <2>1
  <2>3. \E y \in S : Cardinality({z \in S : Newer(z, y)}) = i - 1
    BY <2>2 DEF NewerIn
  <2>4. d(i) \in S /\ Cardinality({z \in S : Newer(z, d(i))}) = i - 1
    BY <2>3
  <2> QED BY <2>4 DEF NewerIn
<1> HIDE DEF d, n, l, c
<1>6. DOMAIN l = 1..n /\ \A i \in 1..n : l[i] \in S /\ Cardinality(NewerIn(S, l[i])) = i - 1
  BY <1>1, <1>5
<1>7. ASSUME NEW e \in S PROVE (\E i \in DOMAIN l : l[i] = e) <=> Cardinality(NewerIn(S, e)) < RecentCap
  <2> DEFINE k == Cardinality(NewerIn(S, e))
  <2>1. k \in Nat /\ k < c
    <3>1. c \in Nat /\ k \in 0..c - 1
      BY <1>2
    <3> HIDE DEF k
    <3> QED BY <3>1
  <2>2. ASSUME NEW i \in DOMAIN l, l[i] = e PROVE k < RecentCap
    <3>1. i \in 1..n /\ k = i - 1
      BY <1>6, <2>2
    <3> HIDE DEF k
    <3> QED BY <1>3, <3>1
  <2>3. ASSUME k < RecentCap PROVE \E i \in DOMAIN l : l[i] = e
    <3>1. k + 1 \in 1..n /\ (k + 1) - 1 = k
      BY <2>1, <2>3, <1>3 DEF n
    <3>2. l[k + 1] \in S /\ Cardinality(NewerIn(S, l[k + 1])) = k
      BY <1>6, <3>1
    <3>3. l[k + 1] \notin NewerIn(S, e) /\ e \notin NewerIn(S, l[k + 1])
      <4>1. ~(k < k)
        BY <2>1
      <4> QED BY <1>2, <3>2, <4>1
    <3>4. l[k + 1] = e
      BY <1>2, <3>2, <3>3
    <3> QED BY <1>6, <3>1, <3>4
  <2> QED BY <2>2, <2>3
<1>8. ToSet(l) = {e \in S : Cardinality(NewerIn(S, e)) < RecentCap}
  <2>1. ToSet(l) = {l[i] : i \in DOMAIN l}
    BY DEF ToSet
  <2>2. ToSet(l) \subseteq S
    BY <1>6, <2>1
  <2> QED BY <1>7, <2>1, <2>2
<1> QED BY <1>6, <1>8 DEF IsNewest, l, S

(* The newest of all are the newest of some of them and of the newest of the others. *)
LEMMA NewestOfRest ==
  ASSUME NEW A, IsFiniteSet(A), A \subseteq [id : Nat, at : Nat], NEW B, B \subseteq A,
         NEW S, S = {e \in A \ B : Cardinality(NewerIn(A \ B, e)) < RecentCap} \cup B,
         NEW l, IsNewest(l, S)
  PROVE  IsNewest(l, A)
<1> DEFINE R(X, e) == Cardinality(NewerIn(X, e))
           G == {e \in A : R(A, e) < RecentCap}
           C == A \ B
<1>1. S \subseteq A /\ \A e : e \in S <=> e \in B \/ (e \in C /\ R(C, e) < RecentCap)
  OBVIOUS
<1>2. RecentCap \in Nat
  BY FeedsAssumption
<1>3. \A X, e : NewerIn(X, e) = {x \in X : Newer(x, e)}
  BY DEF NewerIn
<1>4. \A X \in SUBSET A : \A e : IsFiniteSet(NewerIn(X, e)) /\ R(X, e) \in Nat
  <2>1. SUFFICES ASSUME NEW X \in SUBSET A, NEW e PROVE IsFiniteSet(NewerIn(X, e)) /\ R(X, e) \in Nat
    OBVIOUS
  <2>2. NewerIn(X, e) \subseteq A
    BY <1>3
  <2> QED BY <2>2, FS_Subset, FS_CardinalityType
<1>5. \A X, Y \in SUBSET A : \A d, e : NewerIn(X, d) \subseteq NewerIn(Y, e) => R(X, d) <= R(Y, e)
  BY <1>4, FS_Subset
<1>6. /\ Cardinality(A) \in Nat /\ \A x \in A : R(A, x) \in 0..Cardinality(A) - 1
      /\ \A x, y \in A : y \in NewerIn(A, x) <=> R(A, y) < R(A, x)
      /\ \A k \in 0..Cardinality(A) - 1 : \E x \in A : R(A, x) = k
  BY NewerRanks
<1> HIDE DEF R, C
<1>7. ASSUME NEW e \in G PROVE e \in S /\ NewerIn(S, e) = NewerIn(A, e)
  <2>1. ASSUME NEW d \in G PROVE d \in S
    <3>1. CASE d \in B
      BY <1>1, <3>1
    <3>2. CASE d \in C
      <4>1. NewerIn(C, d) \subseteq NewerIn(A, d) /\ C \in SUBSET A
        BY <1>3 DEF C
      <4>2. R(C, d) <= R(A, d) /\ R(C, d) \in Nat /\ R(A, d) \in Nat /\ R(A, d) < RecentCap
        BY <1>4, <1>5, <2>1, <4>1
      <4>3. R(C, d) < RecentCap
        BY <1>2, <4>2
      <4> QED BY <1>1, <3>2, <4>3
    <3> QED BY <3>1, <3>2 DEF C
  <2>2. ASSUME NEW x \in NewerIn(A, e) PROVE x \in G
    <3>1. x \in A /\ e \in A
      BY <1>3
    <3>2. R(A, x) < R(A, e) /\ R(A, e) < RecentCap
      BY <1>6, <2>2, <3>1
    <3>3. R(A, x) \in Nat /\ R(A, e) \in Nat
      BY <1>4
    <3> QED BY <1>2, <3>1, <3>2, <3>3
  <2>3. NewerIn(A, e) \subseteq S
    BY <2>1, <2>2
  <2> QED BY <1>1, <1>3, <2>1, <2>3
<1>8. ASSUME NEW e \in S, R(S, e) < RecentCap PROVE e \in G
  <2>1. SUFFICES ASSUME e \notin G PROVE FALSE
    OBVIOUS
  <2>2. e \in A /\ R(A, e) \in 0..Cardinality(A) - 1 /\ ~(R(A, e) < RecentCap)
    BY <1>1, <1>6, <2>1
  <2>3. RecentCap \in 0..Cardinality(A) - 1
    BY <1>2, <1>6, <2>2
  <2>4. PICK x \in A : R(A, x) = RecentCap
    BY <1>6, <2>3
  <2>5. ASSUME NEW y \in NewerIn(A, x) PROVE y \in NewerIn(S, e)
    <3>1. y \in A /\ R(A, y) < RecentCap /\ R(A, y) \in Nat
      BY <1>3, <1>4, <1>6, <2>4
    <3>2. R(A, y) < R(A, e)
      BY <1>2, <2>2, <3>1
    <3>3. y \in NewerIn(A, e)
      BY <1>6, <2>2, <3>1, <3>2
    <3>4. y \in S
      BY <1>7, <3>1
    <3> QED BY <1>3, <3>3, <3>4
  <2>6. R(A, x) <= R(S, e)
    BY <1>1, <1>5, <2>5
  <2> QED BY <1>1, <1>2, <1>4, <1>8, <2>4, <2>6
<1>9. {e \in S : R(S, e) < RecentCap} = G
  <2>1. ASSUME NEW e \in G PROVE e \in S /\ R(S, e) < RecentCap
    <3>1. NewerIn(S, e) = NewerIn(A, e) /\ e \in S /\ R(A, e) < RecentCap
      BY <1>7
    <3> QED BY <3>1 DEF R
  <2> QED BY <1>8, <2>1
<1>10. ToSet(l) = {e \in S : R(S, e) < RecentCap} /\ \A i \in DOMAIN l : R(S, l[i]) = i - 1
  BY DEF IsNewest, R
<1>11. ASSUME NEW i \in DOMAIN l PROVE R(A, l[i]) = i - 1
  <2>1. l[i] \in G
    BY <1>9, <1>10 DEF ToSet
  <2>2. NewerIn(S, l[i]) = NewerIn(A, l[i])
    BY <1>7, <2>1
  <2> QED BY <1>10, <2>2 DEF R
<1> QED BY <1>9, <1>10, <1>11 DEF IsNewest, R

LEMMA NoneIsNewest == IsNewest(<<>>, {})
<1>1. DOMAIN <<>> = {} /\ ToSet(<<>>) = {}
  BY ShortLists DEF ToSet
<1> QED BY <1>1 DEF IsNewest

-----------------------------------------------------------------------------
(* What a store says of one feed *)

(* An event of a feed, but of no scenario, has an id that was given out. *)
LEMMA EventsFacts ==
  ASSUME IInv, FeedInv, NEW f \in FeedNames
  PROVE  /\ IsFiniteSet(EventsIn(doc, f)) /\ EventsIn(doc, f) \subseteq [id : Nat, at : Nat]
         /\ \A e \in EventsIn(doc, f) : e.id <= minted
         /\ \A e : e \in EventsIn(doc, f) <=>
              \E m \in Nat : /\ Event(m) \in DOMAIN doc /\ doc[Event(m)].feed = f
                             /\ e = [id |-> m, at |-> doc[Event(m)].at]
<1> DEFINE K == {k \in DOMAIN doc : k[1] = "EVENT" /\ doc[k].feed = f}
           g == [key \in K |-> [id |-> key[2], at |-> doc[key].at]]
<1>1. minted \in Nat /\ "scenario" \notin FeedNames
  BY PlatformAssumption DEF FeedInv, StoredOnce
<1>2. ASSUME NEW key \in K
      PROVE  \E m \in 1..minted : key = Event(m) /\ doc[key].at \in Nat
  <2>1. Kind(key, doc[key], minted) /\ key[1] = "EVENT" /\ doc[key].feed = f
    BY DEF FeedInv, StoredOnce, Lasting
  <2>2. ~Fixed(key, doc[key])
    <3>1. ASSUME NEW s \in Scripts, key = Signalled(s), doc[key] = SignalOf(s) PROVE FALSE
      BY <1>1, <2>1, <3>1 DEF SignalOf
    <3> QED BY <2>1, <3>1, PublicKeys DEF Fixed
  <2>3. PICK m \in 1..minted :
          \/ key = Audited(m) /\ doc[key] \in Scripts
          \/ key = Event(m) /\ \E d \in FeedNames, k, at \in Nat : doc[key] = EntryOf(d, k, at)
    BY <2>1, <2>2 DEF Kind, Numbered
  <2> QED BY <2>1, <2>3, PublicKeys DEF EntryOf
<1>3. IsFiniteSet(K)
  <2>1. K \subseteq DOMAIN doc /\ IsFiniteSet(DOMAIN doc)
    BY DEF IInv, TypeInv
  <2> QED BY <2>1, FS_Subset
<1>4. EventsIn(doc, f) = {g[key] : key \in K}
  BY DEF EventsIn
<1>5. \A m : Event(m) \in K <=> Event(m) \in DOMAIN doc /\ doc[Event(m)].feed = f
  BY PublicKeys
<1>6. g = [key \in K |-> g[key]] /\ \A key \in K : g[key] = [id |-> key[2], at |-> doc[key].at]
  OBVIOUS
<1> HIDE DEF K, g
<1>7. IsFiniteSet(EventsIn(doc, f))
  BY <1>3, <1>4, <1>6, FiniteImage
<1>8. ASSUME NEW key \in K
      PROVE  \E m \in 1..minted : /\ key = Event(m) /\ g[key] = [id |-> m, at |-> doc[Event(m)].at]
                                  /\ doc[Event(m)].at \in Nat
  BY <1>2, <1>6, PublicKeys
<1>9. ASSUME NEW e \in EventsIn(doc, f)
      PROVE  \E m \in 1..minted : /\ Event(m) \in DOMAIN doc /\ doc[Event(m)].feed = f
                                  /\ e = [id |-> m, at |-> doc[Event(m)].at] /\ doc[Event(m)].at \in Nat
  BY <1>4, <1>5, <1>8
<1>10. ASSUME NEW e, NEW m, Event(m) \in DOMAIN doc, doc[Event(m)].feed = f, e = [id |-> m, at |-> doc[Event(m)].at]
       PROVE  e \in EventsIn(doc, f)
  BY <1>4, <1>5, <1>6, <1>10, PublicKeys
<1>11. ASSUME NEW e \in EventsIn(doc, f) PROVE e \in [id : Nat, at : Nat] /\ e.id <= minted
  BY <1>1, <1>9
<1>12. \A m \in 1..minted : m \in Nat
  BY <1>1
<1> QED BY <1>7, <1>9, <1>10, <1>11, <1>12

-----------------------------------------------------------------------------
(* How the calls ahead go on *)

LEMMA Untouched ==
  ASSUME NEW t, NEW f, Touches(t, f)
  PROVE  /\ t.call \in {"put", "index"} /\ Concerns(t, f)
         /\ SavesEvent(t, f) => t.call = "put" /\ t.key[1] = "EVENT" /\ ~SavesIndex(t, f)
         /\ SavesIndex(t, f) => t.call = "put" /\ t.key[1] = "RECENT" /\ ~SavesEvent(t, f)
         /\ IndexesFeed(t, f) => t.call = "index" /\ ~SavesEvent(t, f) /\ ~SavesIndex(t, f)
BY PublicKeys DEF Touches, Concerns, SavesEvent, SavesIndex, IndexesFeed

(* A stage is one of the events and the index that are stored. *)
LEMMA SameStage ==
  ASSUME NEW l, NEW f, NEW D, NEW E, Stage(l, D, f), EventsIn(E, f) = EventsIn(D, f), IndexIn(E, f) = IndexIn(D, f)
  PROVE  Stage(l, E, f)
<1>1. Rewrites(l, D, f) => Rewrites(l, E, f)
  BY DEF Rewrites
<1>2. \A i : Collects(l, i, D, f) => Collects(l, i, E, f)
  BY DEF Collects
<1> QED BY <1>1, <1>2 DEF Stage

LEMMA QuietJoin ==
  ASSUME NEW p, NEW q, IsList(p), IsList(q), NEW f
  PROVE  /\ Quiet(p \o q, f) <=> Quiet(p, f) /\ Quiet(q, f)
         /\ Quiet(p, f) => \A D : Stage(p, D, f)
<1>1. /\ DOMAIN (p \o q) = 1..Len(p) + Len(q) /\ DOMAIN p = 1..Len(p) /\ DOMAIN q = 1..Len(q)
      /\ Len(p) \in Nat /\ Len(q) \in Nat
      /\ \A i \in 1..Len(p) : (p \o q)[i] = p[i]
      /\ \A i \in Len(p) + 1..Len(p) + Len(q) : (p \o q)[i] = q[i - Len(p)]
  BY JoinFacts, ListFacts
<1>2. Quiet(p, f) /\ Quiet(q, f) => Quiet(p \o q, f)
  BY ElementsOfJoin DEF Quiet
<1>3. ASSUME Quiet(p \o q, f) PROVE Quiet(p, f) /\ Quiet(q, f)
  <2>1. ASSUME NEW i \in DOMAIN q PROVE ~Touches(q[i], f)
    <3>1. Len(p) + i \in Len(p) + 1..Len(p) + Len(q) /\ (Len(p) + i) - Len(p) = i /\ Len(p) + i \in 1..Len(p) + Len(q)
      BY <1>1
    <3> QED BY <1>1, <1>3, <3>1 DEF Quiet
  <2>2. ASSUME NEW i \in DOMAIN p PROVE ~Touches(p[i], f)
    <3>1. i \in 1..Len(p) + Len(q)
      BY <1>1
    <3> QED BY <1>1, <1>3, <3>1 DEF Quiet
  <2> QED BY <2>1, <2>2 DEF Quiet
<1> QED BY <1>2, <1>3 DEF Quiet, Stage, Rewrites

(* Calls that do not touch the feed come before those of a stage, or after. *)
LEMMA StageJoin ==
  ASSUME NEW p, NEW q, IsList(p), IsList(q), NEW f, NEW D,
         (Quiet(p, f) /\ Stage(q, D, f)) \/ (Stage(p, D, f) /\ Quiet(q, f))
  PROVE  Stage(p \o q, D, f)
<1> DEFINE l == p \o q
           a == Len(p)
<1>1. /\ DOMAIN l = 1..a + Len(q) /\ DOMAIN p = 1..a /\ DOMAIN q = 1..Len(q)
      /\ a \in Nat /\ Len(q) \in Nat
      /\ \A i \in 1..a : l[i] = p[i]
      /\ \A i \in a + 1..a + Len(q) : l[i] = q[i - a] /\ i - a \in DOMAIN q
  BY JoinFacts, ListFacts
<1>2. \A i \in DOMAIN l : (\E j \in DOMAIN p : l[i] = p[j]) \/ (\E j \in DOMAIN q : l[i] = q[j])
  BY ElementsOfJoin
<1> HIDE DEF l, a
<1>3. ASSUME NEW i \in DOMAIN q PROVE a + i \in DOMAIN l /\ l[a + i] = q[i]
  <2>1. a + i \in a + 1..a + Len(q) /\ (a + i) - a = i /\ a + i \in 1..a + Len(q)
    BY <1>1
  <2> QED BY <1>1, <2>1
<1>4. ASSUME NEW i \in DOMAIN p PROVE i \in DOMAIN l /\ l[i] = p[i]
  <2>1. i \in 1..a + Len(q)
    BY <1>1
  <2> QED BY <1>1, <2>1
<1>5. \A i \in DOMAIN l : i \in DOMAIN p \/ (i - a \in DOMAIN q /\ l[i] = q[i - a])
  BY <1>1
<1>6. CASE Rewrites(p, D, f) /\ Rewrites(q, D, f)
  BY <1>2, <1>6 DEF Stage, Rewrites, l
<1>7. ASSUME NEW i, Collects(q, i, D, f), i \in DOMAIN q, Quiet(p, f) PROVE Stage(l, D, f)
  <2> DEFINE c == a + i
  <2>1. c \in DOMAIN l /\ l[c] = q[i] /\ c \in Int /\ c - a = i
    BY <1>1, <1>3, <1>7
  <2> HIDE DEF c
  <2>2. ASSUME NEW j \in DOMAIN l, Touches(l[j], f)
        PROVE  j = c \/ (j < c /\ SavesEvent(l[j], f) /\ EventOf(l[j]) \in q[i].of.fresh)
    <3>1. j - a \in DOMAIN q /\ l[j] = q[j - a]
      BY <1>4, <1>5, <1>7, <2>2 DEF Quiet
    <3>2. j - a = i \/ (j - a < i /\ SavesEvent(q[j - a], f) /\ EventOf(q[j - a]) \in q[i].of.fresh)
      BY <1>7, <2>2, <3>1 DEF Collects
    <3>3. j \in Int /\ a \in Int /\ i \in Int
      BY <1>1, <1>7
    <3>4. (j - a = i => j = c) /\ (j - a < i => j < c)
      BY <2>1, <3>3
    <3> QED BY <3>1, <3>2, <3>4
  <2>3. ASSUME NEW e, NEW j \in DOMAIN q, j < i, SavesEvent(q[j], f), EventOf(q[j]) = e
        PROVE  \E k \in DOMAIN l : k < c /\ SavesEvent(l[k], f) /\ EventOf(l[k]) = e
    <3>1. a + j < c
      BY <1>1, <1>7, <2>1, <2>3
    <3> QED BY <1>3, <2>3, <3>1
  <2>4. Collects(l, c, D, f)
    BY <1>7, <2>1, <2>2, <2>3 DEF Collects
  <2> QED BY <2>1, <2>4 DEF Stage
<1>8. ASSUME NEW i, Collects(p, i, D, f), i \in DOMAIN p, Quiet(q, f) PROVE Stage(l, D, f)
  <2>1. ASSUME NEW j \in DOMAIN l, Touches(l[j], f)
        PROVE  j = i \/ (j < i /\ SavesEvent(l[j], f) /\ EventOf(l[j]) \in p[i].of.fresh)
    <3>1. j \in DOMAIN p /\ l[j] = p[j]
      BY <1>4, <1>5, <1>8, <2>1 DEF Quiet
    <3> QED BY <1>8, <2>1, <3>1 DEF Collects
  <2>2. Collects(l, i, D, f)
    BY <1>4, <1>8, <2>1 DEF Collects
  <2> QED BY <1>4, <1>8, <2>2 DEF Stage
<1>9. \A m : Quiet(m, f) => Rewrites(m, D, f)
  BY DEF Quiet, Rewrites
<1> QED BY <1>6, <1>7, <1>8, <1>9 DEF Stage, l

(* The first call is made, or passed: what it does to the events and the index of the feed leaves the others a stage. *)
LEMMA StageOfTail ==
  ASSUME NEW l, IsList(l), l # <<>>, NEW f, ~IndexesFeed(l[1], f), NEW D, NEW E, Stage(l, D, f),
         EventsIn(E, f) = IF SavesEvent(l[1], f) THEN EventsIn(D, f) \cup {EventOf(l[1])} ELSE EventsIn(D, f),
         IndexIn(E, f) = IF SavesIndex(l[1], f) THEN l[1].value ELSE IndexIn(D, f)
  PROVE  /\ Stage(Tail(l), E, f)
         /\ Quiet(Tail(l), f) /\ Touches(l[1], f) => IsNewest(IndexIn(E, f), EventsIn(E, f))
<1> DEFINE m == Tail(l)
           t == l[1]
<1>1. /\ IsList(m) /\ Len(l) \in Nat \ {0} /\ DOMAIN m = 1..Len(l) - 1 /\ DOMAIN l = 1..Len(l)
      /\ \A i \in DOMAIN m : m[i] = l[i + 1] /\ i + 1 \in DOMAIN l
  BY TailFacts, ListFacts
<1> HIDE DEF m
<1>2. 1 \in DOMAIN l
  BY <1>1
<1>3. ASSUME NEW j \in DOMAIN l, j # 1 PROVE j - 1 \in DOMAIN m /\ m[j - 1] = l[j]
  <2>1. j - 1 \in 1..Len(l) - 1 /\ (j - 1) + 1 = j
    BY <1>1, <1>3
  <2> QED BY <1>1, <2>1
<1>4. CASE Rewrites(l, D, f)
  <2>1. Touches(t, f) => SavesIndex(t, f) /\ IsNewest(t.value, EventsIn(D, f)) /\ ~SavesEvent(t, f)
    BY <1>2, <1>4, Untouched DEF Rewrites
  <2>2. EventsIn(E, f) = EventsIn(D, f)
    BY <2>1 DEF Touches
  <2>3. Rewrites(m, E, f)
    BY <1>1, <1>4, <2>2 DEF Rewrites
  <2> QED BY <2>1, <2>2, <2>3 DEF Stage, m
<1>5. ASSUME NEW i \in DOMAIN l, Collects(l, i, D, f)
      PROVE  Stage(m, E, f) /\ ~Quiet(m, f)
  <2>1. i # 1
    BY <1>5 DEF Collects
  <2> DEFINE c == i - 1
             fresh == l[i].of.fresh
  <2>2. c \in DOMAIN m /\ m[c] = l[i] /\ c \in Int /\ c + 1 = i
    BY <1>1, <1>3, <2>1
  <2> HIDE DEF c
  <2>3. Touches(t, f) => SavesEvent(t, f) /\ EventOf(t) \in fresh /\ ~SavesIndex(t, f)
    BY <1>2, <1>5, <2>1, Untouched DEF Collects
  <2>4. IndexIn(E, f) = IndexIn(D, f) /\ EventsIn(E, f) \ fresh = EventsIn(D, f) \ fresh
    BY <2>3 DEF Touches
  <2>5. ASSUME NEW j \in DOMAIN m, Touches(m[j], f)
        PROVE  j = c \/ (j < c /\ SavesEvent(m[j], f) /\ EventOf(m[j]) \in fresh)
    <3>1. j + 1 \in DOMAIN l /\ m[j] = l[j + 1] /\ j \in Int
      BY <1>1
    <3>2. j + 1 = i \/ (j + 1 < i /\ SavesEvent(l[j + 1], f) /\ EventOf(l[j + 1]) \in fresh)
      BY <1>5, <2>5, <3>1 DEF Collects
    <3>3. (j + 1 = i => j = c) /\ (j + 1 < i => j < c)
      BY <2>2, <3>1
    <3> QED BY <3>1, <3>2, <3>3
  <2>6. ASSUME NEW e \in fresh
        PROVE  e \in EventsIn(E, f) \/ \E j \in DOMAIN m : j < c /\ SavesEvent(m[j], f) /\ EventOf(m[j]) = e
    <3>1. CASE e \in EventsIn(D, f)
      BY <3>1
    <3>2. ASSUME NEW j \in DOMAIN l, j < i, SavesEvent(l[j], f), EventOf(l[j]) = e, j # 1
          PROVE  \E k \in DOMAIN m : k < c /\ SavesEvent(m[k], f) /\ EventOf(m[k]) = e
      <4>1. j - 1 < c
        BY <1>1, <2>2, <3>2
      <4> QED BY <1>3, <3>2, <4>1
    <3>3. SavesEvent(t, f) /\ EventOf(t) = e => e \in EventsIn(E, f)
      OBVIOUS
    <3> QED BY <1>5, <3>1, <3>2, <3>3 DEF Collects
  <2>7. IndexesFeed(m[c], f) /\ Touches(m[c], f)
    BY <1>5, <2>2 DEF Collects, Touches
  <2>8. Collects(m, c, E, f)
    <3>1. IsNewest(IndexIn(D, f), EventsIn(D, f) \ fresh)
      BY <1>5 DEF Collects
    <3> QED BY <2>2, <2>4, <2>5, <2>6, <2>7, <3>1 DEF Collects
  <2> QED BY <2>2, <2>7, <2>8 DEF Stage, Quiet
<1> QED BY <1>4, <1>5 DEF Stage, m

LEMMA QuietTail ==
  ASSUME NEW l, IsList(l), l # <<>>, NEW f, ~Touches(l[1], f)
  PROVE  Quiet(Tail(l), f) <=> Quiet(l, f)
<1>1. /\ IsList(Tail(l)) /\ Len(l) \in Nat /\ DOMAIN l = 1..Len(l) /\ DOMAIN Tail(l) = 1..Len(l) - 1
      /\ \A i \in 1..Len(l) - 1 : Tail(l)[i] = l[i + 1] /\ i + 1 \in DOMAIN l
  BY TailFacts, ListFacts
<1>2. ASSUME Quiet(Tail(l), f), NEW i \in DOMAIN l, i # 1 PROVE ~Touches(l[i], f)
  <2>1. i - 1 \in 1..Len(l) - 1 /\ (i - 1) + 1 = i
    BY <1>1, <1>2
  <2> QED BY <1>1, <1>2, <2>1 DEF Quiet
<1> QED BY <1>1, <1>2 DEF Quiet

(* A request passes a call, and goes on with others, that have to do with no index. *)
LEMMA StagePasses ==
  ASSUME NEW l, IsList(l), l # <<>>, NEW f, ~Touches(l[1], f), NEW p, IsList(p), Quiet(p, f), NEW D, Stage(l, D, f)
  PROVE  Stage(p \o Tail(l), D, f) /\ (Quiet(p \o Tail(l), f) => Quiet(l, f))
<1>1. IsList(Tail(l))
  BY TailFacts
<1>2. Stage(Tail(l), D, f)
  BY StageOfTail DEF Touches
<1> QED BY <1>1, <1>2, StageJoin, QuietJoin, QuietTail

-----------------------------------------------------------------------------
(* What a storage call does to the events and the index of a feed *)

LEMMA PublicCall ==
  ASSUME FeedInv, NEW h \in Handlers, Calls(h), Todo(h)[1].key[1] \in Public
  PROVE  Todo(h)[1].call = "put" /\ Todo(h)[1].key \in DOMAIN doc' /\ doc'[Todo(h)[1].key] = Todo(h)[1].value
<1> DEFINE t == Todo(h)[1]
<1>1. IsList(Todo(h)) /\ 1 \in DOMAIN Todo(h) /\ GoodAt(Todo(h), 1, doc, minted, published) /\ minted \in Nat
  BY ListFacts DEF FeedInv, GoodCalls, GoodList, Calls, StoredOnce
<1>2. t.call # "new"
  BY <1>1, NewIsAside DEF Aside
<1>3. t.call = "put"
  BY <1>1, <1>2, PublicApart DEF Calls
<1> QED BY <1>3 DEF Calls

LEMMA CallEffects ==
  ASSUME FeedInv, NEW h \in Handlers, Calls(h), NEW f \in FeedNames
  PROVE  LET t == Todo(h)[1]
         IN /\ EventsIn(doc', f) =
                 IF SavesEvent(t, f) THEN EventsIn(doc, f) \cup {EventOf(t)} ELSE EventsIn(doc, f)
            /\ IndexIn(doc', f) = IF SavesIndex(t, f) THEN t.value ELSE IndexIn(doc, f)
<1> DEFINE t == Todo(h)[1]
           K(D) == {k \in DOMAIN D : k[1] = "EVENT" /\ D[k].feed = f}
           Ev(D, k) == [id |-> k[2], at |-> D[k].at]
<1>1. \A key : key # t.key => Same(key)
  BY DEF Calls
<1>2. t.key[1] \in Public => t.call = "put" /\ t.key \in DOMAIN doc' /\ doc'[t.key] = t.value
  BY PublicCall
<1>3. "EVENT" \in Public /\ "RECENT" \in Public /\ "EVENT" \in Lasting
  BY DEF Public, Lasting
<1>4. 1 \in DOMAIN Todo(h)
  BY ListFacts DEF FeedInv, GoodCalls, GoodList, Calls
<1>5. t.key[1] = "EVENT" /\ Held(t.key) => doc[t.key] = t.value
  BY <1>2, <1>3, <1>4 DEF FeedInv, NoneDiffer, PutsLasting
<1>6. \A D, e : e \in EventsIn(D, f) <=> \E k \in K(D) : e = Ev(D, k)
  BY DEF EventsIn
<1>7. ASSUME NEW k PROVE /\ k \in K(doc) => k \in K(doc') /\ Ev(doc', k) = Ev(doc, k)
                         /\ k \in K(doc') => \/ k \in K(doc) /\ Ev(doc', k) = Ev(doc, k)
                                             \/ k = t.key /\ SavesEvent(t, f) /\ Ev(doc', k) = EventOf(t)
  <2>1. CASE k # t.key
    BY <1>1, <2>1 DEF Same
  <2>2. CASE k = t.key /\ k[1] = "EVENT"
    <3>1. t.call = "put" /\ k \in DOMAIN doc' /\ doc'[k] = t.value /\ (k \in DOMAIN doc => doc[k] = t.value)
      BY <1>2, <1>3, <1>5, <2>2 DEF Held
    <3> QED BY <2>2, <3>1 DEF SavesEvent, EventOf
  <2> QED BY <2>1, <2>2
<1>8. SavesEvent(t, f) => t.key \in K(doc') /\ Ev(doc', t.key) = EventOf(t)
  BY <1>2, <1>3 DEF SavesEvent, EventOf
<1> HIDE DEF K, Ev, t
<1>9. EventsIn(doc', f) = IF SavesEvent(t, f) THEN EventsIn(doc, f) \cup {EventOf(t)} ELSE EventsIn(doc, f)
  <2>1. \A e : e \in EventsIn(doc, f) => e \in EventsIn(doc', f)
    BY <1>6, <1>7
  <2>2. \A e : e \in EventsIn(doc', f) => e \in EventsIn(doc, f) \/ (SavesEvent(t, f) /\ e = EventOf(t))
    BY <1>6, <1>7
  <2>3. SavesEvent(t, f) => EventOf(t) \in EventsIn(doc', f)
    BY <1>6, <1>8
  <2> QED BY <2>1, <2>2, <2>3
<1>10. IndexIn(doc', f) = IF SavesIndex(t, f) THEN t.value ELSE IndexIn(doc, f)
  <2>1. CASE t.key # Recent(f)
    BY <1>1, <2>1 DEF Same, IndexIn, SavesIndex
  <2>2. CASE t.key = Recent(f)
    BY <1>2, <1>3, <2>2, PublicKeys DEF IndexIn, SavesIndex
  <2> QED BY <2>1, <2>2
<1> QED BY <1>9, <1>10 DEF t

-----------------------------------------------------------------------------
(* Who works on the index of a feed *)

(* While no request crossed another, one at most has to do with a feed. *)
LEMMA OneWorker ==
  ASSUME IInv, WorkersAreNamed, NEW f \in FeedNames, RecentOf(f) \notin crossed, NEW h \in Handlers,
         NEW i \in DOMAIN Todo(h), Concerns(Todo(h)[i], f), NEW k \in Handlers \ {h}
  PROVE  Quiet(Todo(k), f)
<1>1. SUFFICES ASSUME NEW j \in DOMAIN Todo(k), Touches(Todo(k)[j], f) PROVE FALSE
  BY DEF Quiet
<1>2. Concerns(Todo(k)[j], f)
  BY <1>1, Untouched
<1>3. RecentOf(f) \in DOMAIN About(h) /\ RecentOf(f) \in DOMAIN About(k)
  BY <1>2 DEF WorkersAreNamed
<1>4. Working(h) /\ Working(k)
  BY ShortLists DEF Working, Todo
<1>5. Works(h, RecentOf(f)) /\ Works(k, RecentOf(f)) /\ RecentOf(f)[1] = "recent"
  BY <1>3, <1>4 DEF Works, RecentOf
<1>6. About(h)[RecentOf(f)] = h /\ About(k)[RecentOf(f)] = k
  BY <1>5 DEF WorkersAreNamed
<1>7. About(h)[RecentOf(f)] = About(k)[RecentOf(f)]
  BY <1>5 DEF IInv, Alike
<1> QED BY <1>6, <1>7

(* The calls of h change, and no other's. *)
OnlyMoves(h) == \A k \in Handlers \ {h} : Todo(k)' = Todo(k)

LEMMA IndexRests ==
  ASSUME NEW h \in Handlers, OnlyMoves(h), NEW f, IndexOf(f),
         EventsIn(doc', f) = EventsIn(doc, f), IndexIn(doc', f) = IndexIn(doc, f),
         Stage(Todo(h)', doc, f), Quiet(Todo(h)', f) => Quiet(Todo(h), f)
  PROVE  IndexOf(f)'
<1>1. ASSUME NEW k \in Handlers PROVE Stage(Todo(k)', doc', f)
  <2>1. Stage(Todo(k)', doc, f)
    BY DEF OnlyMoves, IndexOf
  <2> QED BY <2>1, SameStage
<1>2. ASSUME \A k \in Handlers : Quiet(Todo(k)', f) PROVE IsNewest(IndexIn(doc', f), EventsIn(doc', f))
  <2>1. \A k \in Handlers : Quiet(Todo(k), f)
    BY <1>2 DEF OnlyMoves
  <2> QED BY <2>1 DEF IndexOf
<1> QED BY <1>1, <1>2 DEF IndexOf

LEMMA IndexGoesOn ==
  ASSUME NEW h \in Handlers, OnlyMoves(h), NEW f, IndexOf(f), \A k \in Handlers \ {h} : Quiet(Todo(k), f),
         Stage(Todo(h)', doc', f), Quiet(Todo(h)', f) => IsNewest(IndexIn(doc', f), EventsIn(doc', f))
  PROVE  IndexOf(f)'
<1>1. \A l, D : Quiet(l, f) => Stage(l, D, f)
  BY DEF Quiet, Stage, Rewrites
<1>2. \A k \in Handlers : Stage(Todo(k)', doc', f)
  BY <1>1 DEF OnlyMoves
<1> QED BY <1>2 DEF IndexOf

LEMMA CallKeepsIndex ==
  ASSUME IInv, FeedInv, WorkersAreNamed, NEW h \in Handlers, Calls(h), NEW f \in FeedNames, RecentOf(f) \notin crossed, IndexOf(f)
  PROVE  IndexOf(f)'
<1> DEFINE l == Todo(h)
           t == l[1]
<1>1. IsList(l) /\ l # <<>> /\ 1 \in DOMAIN l /\ Todo(h)' = Tail(l) /\ OnlyMoves(h) /\ ~IndexesFeed(t, f)
  BY ListFacts DEF FeedInv, GoodCalls, GoodList, Calls, OnlyMoves, IndexesFeed
<1>2. /\ EventsIn(doc', f) = IF SavesEvent(t, f) THEN EventsIn(doc, f) \cup {EventOf(t)} ELSE EventsIn(doc, f)
      /\ IndexIn(doc', f) = IF SavesIndex(t, f) THEN t.value ELSE IndexIn(doc, f)
  BY CallEffects
<1>3. Stage(l, doc, f)
  BY DEF IndexOf
<1>4. /\ Stage(Tail(l), doc', f)
      /\ Quiet(Tail(l), f) /\ Touches(t, f) => IsNewest(IndexIn(doc', f), EventsIn(doc', f))
  BY <1>1, <1>2, <1>3, StageOfTail
<1>5. CASE Touches(t, f)
  <2>1. Concerns(t, f)
    BY <1>5, Untouched
  <2>2. \A k \in Handlers \ {h} : Quiet(Todo(k), f)
    BY <1>1, <2>1, OneWorker
  <2> QED BY <1>1, <1>4, <1>5, <2>2, IndexGoesOn
<1>6. CASE ~Touches(t, f)
  <2>1. EventsIn(doc', f) = EventsIn(doc, f) /\ IndexIn(doc', f) = IndexIn(doc, f)
    BY <1>2, <1>6 DEF Touches
  <2>2. Stage(Tail(l), doc, f)
    BY <1>4, <2>1, SameStage
  <2>3. Quiet(Tail(l), f) => Quiet(l, f)
    BY <1>1, <1>6, QuietTail
  <2> QED BY <1>1, <2>1, <2>2, <2>3, IndexRests
<1> QED BY <1>5, <1>6

-----------------------------------------------------------------------------
(* Names, and turns *)

LEMMA AsideIsQuiet ==
  ASSUME NEW t, Aside(t)
  PROVE  ~ReadsFeed(t) /\ \A f : ~Touches(t, f) /\ ~Concerns(t, f)
<1>1. ~ReadsFeed(t) /\ \A f : ~IndexesFeed(t, f)
  BY DEF Aside, ReadsFeed, IndexesFeed
<1>2. \A f : ~SavesEvent(t, f) /\ ~SavesIndex(t, f)
  BY PublicKeys DEF Aside, SavesEvent, SavesIndex, Public
<1> QED BY <1>1, <1>2 DEF Touches, Concerns, ReadsFeed

LEMMA AsideListIsQuiet ==
  ASSUME NEW p, AsideList(p)
  PROVE  /\ IsList(p) /\ \A f : Quiet(p, f)
         /\ \A i \in DOMAIN p : ~ReadsFeed(p[i]) /\ \A f : ~Concerns(p[i], f)
BY AsideIsQuiet DEF AsideList, Quiet

LEMMA NamesStay ==
  ASSUME IInv, WorkersAreNamed, NEW h \in Handlers, Working(h), NEW s, Continues(h, s),
         \A i \in DOMAIN s : \A f \in FeedNames : Concerns(s[i], f) => \E j \in DOMAIN Todo(h) : Concerns(Todo(h)[j], f)
  PROVE  WorkersAreNamed' /\ OnlyMoves(h) /\ crossed' = crossed /\ Todo(h)' = s
<1>1. /\ Todo(h)' = s /\ (s # <<>> => About(h)' = About(h)) /\ crossed' = crossed
      /\ \A k \in Handlers \ {h} : Todo(k)' = Todo(k) /\ About(k)' = About(k) /\ (Working(k)' <=> Working(k))
  BY AfterContinues DEF IInv
<1>2. Working(h)' => s # <<>>
  BY <1>1 DEF Working, Todo
<1>3. ASSUME NEW k \in Handlers, NEW topic, Works(k, topic)', topic[1] = "recent" PROVE About(k)'[topic] = k
  <2>1. Works(k, topic) /\ About(k)' = About(k)
    BY <1>1, <1>2, <1>3 DEF Works
  <2> QED BY <1>3, <2>1 DEF WorkersAreNamed
<1>4. ASSUME NEW k \in Handlers, NEW i \in DOMAIN Todo(k)', NEW f \in FeedNames, Concerns(Todo(k)'[i], f)
      PROVE  RecentOf(f) \in DOMAIN About(k)'
  <2>1. CASE k = h
    <3>1. s # <<>>
      BY <1>1, <1>4, <2>1, ShortLists
    <3>2. \E j \in DOMAIN Todo(h) : Concerns(Todo(h)[j], f)
      BY <1>1, <1>4, <2>1
    <3>3. RecentOf(f) \in DOMAIN About(h)
      BY <3>2 DEF WorkersAreNamed
    <3> QED BY <1>1, <2>1, <3>1, <3>3
  <2>2. CASE k # h
    <3>1. Todo(k)' = Todo(k) /\ About(k)' = About(k)
      BY <1>1, <2>2
    <3> QED BY <1>4, <3>1 DEF WorkersAreNamed
  <2> QED BY <2>1, <2>2
<1>5. WorkersAreNamed'
  BY <1>3, <1>4 DEF WorkersAreNamed
<1> QED BY <1>1, <1>5 DEF OnlyMoves

LEMMA NamesBegin ==
  ASSUME IInv, WorkersAreNamed, NEW h \in Handlers, NEW op, NEW about, NEW s, Starts(h, op, about, s),
         \A topic \in DOMAIN about : topic[1] = "recent" => about[topic] = h,
         \A i \in DOMAIN s : \A f \in FeedNames : Concerns(s[i], f) => RecentOf(f) \in DOMAIN about
  PROVE  WorkersAreNamed' /\ OnlyMoves(h) /\ crossed \subseteq crossed' /\ Todo(h)' = s /\ Todo(h) = <<>> /\ doc' = doc
<1>1. /\ Todo(h) = <<>> /\ Todo(h)' = s /\ About(h)' = about /\ doc' = doc /\ crossed' = crossed \cup Meets(about)
      /\ \A k \in Handlers \ {h} : Todo(k)' = Todo(k) /\ About(k)' = About(k) /\ (Working(k)' <=> Working(k))
  BY AfterStarts DEF IInv
<1>2. ASSUME NEW k \in Handlers, NEW topic, Works(k, topic)', topic[1] = "recent" PROVE About(k)'[topic] = k
  <2>1. CASE k = h
    BY <1>1, <1>2, <2>1 DEF Works
  <2>2. CASE k # h
    <3>1. Works(k, topic) /\ About(k)' = About(k)
      BY <1>1, <1>2, <2>2 DEF Works
    <3> QED BY <1>2, <3>1 DEF WorkersAreNamed
  <2> QED BY <2>1, <2>2
<1>3. ASSUME NEW k \in Handlers, NEW i \in DOMAIN Todo(k)', NEW f \in FeedNames, Concerns(Todo(k)'[i], f)
      PROVE  RecentOf(f) \in DOMAIN About(k)'
  <2>1. CASE k = h
    BY <1>1, <1>3, <2>1
  <2>2. CASE k # h
    <3>1. Todo(k)' = Todo(k) /\ About(k)' = About(k)
      BY <1>1, <2>2
    <3> QED BY <1>3, <3>1 DEF WorkersAreNamed
  <2> QED BY <2>1, <2>2
<1>4. WorkersAreNamed'
  BY <1>2, <1>3 DEF WorkersAreNamed
<1> QED BY <1>1, <1>4 DEF OnlyMoves

LEMMA NamesEnd ==
  ASSUME IInv, WorkersAreNamed, NEW h \in Handlers, Dies(h)
  PROVE  /\ WorkersAreNamed' /\ OnlyMoves(h) /\ crossed' = crossed \cup DOMAIN About(h) /\ Todo(h)' = <<>> /\ doc' = doc
<1>1. /\ Todo(h)' = <<>> /\ crossed' = crossed \cup DOMAIN About(h) /\ doc' = doc /\ ~Working(h)'
      /\ \A k \in Handlers \ {h} : Todo(k)' = Todo(k) /\ About(k)' = About(k) /\ (Working(k)' <=> Working(k))
  BY DEF Dies, Todo, About, Working, Idle, IInv, TypeInv
<1>2. ASSUME NEW k \in Handlers, NEW topic, Works(k, topic)', topic[1] = "recent" PROVE About(k)'[topic] = k
  <2>1. k # h
    BY <1>1, <1>2 DEF Works
  <2>2. Works(k, topic) /\ About(k)' = About(k)
    BY <1>1, <1>2, <2>1 DEF Works
  <2> QED BY <1>2, <2>2 DEF WorkersAreNamed
<1>3. ASSUME NEW k \in Handlers, NEW i \in DOMAIN Todo(k)', NEW f \in FeedNames, Concerns(Todo(k)'[i], f)
      PROVE  RecentOf(f) \in DOMAIN About(k)'
  <2>1. k # h
    BY <1>1, <1>3, ShortLists
  <2>2. Todo(k)' = Todo(k) /\ About(k)' = About(k)
    BY <1>1, <2>1
  <2> QED BY <1>3, <2>2 DEF WorkersAreNamed
<1>4. WorkersAreNamed'
  BY <1>2, <1>3 DEF WorkersAreNamed
<1> QED BY <1>1, <1>4 DEF OnlyMoves

Sinces(q) == \A j \in DOMAIN q : q[j].call = "since"
NoFetch(q) == \A j \in DOMAIN q : q[j].call # "fetch"

LEMMA TurnOfTail ==
  ASSUME NEW l, IsList(l), l # <<>>, InTurn(l)
  PROVE  /\ InTurn(Tail(l)) /\ NoFetch(Tail(l))
         /\ ReadsFeed(l[1]) => Sinces(Tail(l))
<1> DEFINE m == Tail(l)
<1>1. /\ IsList(m) /\ Len(l) \in Nat \ {0} /\ DOMAIN m = 1..Len(l) - 1 /\ DOMAIN l = 1..Len(l)
      /\ \A i \in DOMAIN m : m[i] = l[i + 1] /\ i + 1 \in DOMAIN l
  BY TailFacts, ListFacts
<1> HIDE DEF m
<1>2. 1 \in DOMAIN l /\ \A i \in DOMAIN m : i + 1 > 1 /\ i + 1 # 1
  BY <1>1
<1>3. \A i, j \in DOMAIN m : j > i => j + 1 > i + 1
  BY <1>1
<1>4. NoFetch(m)
  BY <1>1, <1>2 DEF NoFetch, InTurn, ReadsFeed
<1>5. ASSUME NEW i \in DOMAIN m, ReadsFeed(m[i]) PROVE \A j \in DOMAIN m : j > i => m[j].call = "since"
  BY <1>1, <1>3, <1>5 DEF InTurn
<1>6. InTurn(m)
  BY <1>4, <1>5 DEF InTurn, NoFetch
<1>7. ReadsFeed(l[1]) => Sinces(m)
  BY <1>1, <1>2 DEF InTurn, Sinces
<1> QED BY <1>4, <1>6, <1>7 DEF m

LEMMA TurnOfSinces ==
  ASSUME NEW q, IsList(q), Sinces(q)
  PROVE  InTurn(q) /\ NoFetch(q) /\ \A f : Quiet(q, f)
<1>1. \A t, f : t.call = "since" => ~Touches(t, f)
  BY Untouched
<1> QED BY <1>1 DEF InTurn, Sinces, NoFetch, Quiet

LEMMA TurnOfJoin ==
  ASSUME NEW p, NEW q, IsList(p), IsList(q), InTurn(q), NoFetch(q), \A i \in DOMAIN p : ~ReadsFeed(p[i])
  PROVE  InTurn(p \o q)
<1> DEFINE l == p \o q
           a == Len(p)
<1>1. /\ DOMAIN l = 1..a + Len(q) /\ DOMAIN p = 1..a /\ DOMAIN q = 1..Len(q)
      /\ a \in Nat /\ Len(q) \in Nat
      /\ \A i \in 1..a : l[i] = p[i]
      /\ \A i \in a + 1..a + Len(q) : l[i] = q[i - a] /\ i - a \in DOMAIN q
  BY JoinFacts, ListFacts
<1> HIDE DEF l, a
<1>2. ASSUME NEW i \in DOMAIN l, ReadsFeed(l[i])
      PROVE  (\A j \in DOMAIN l : j > i => l[j].call = "since") /\ l[i].call # "fetch"
  <2>1. i \in a + 1..a + Len(q)
    BY <1>1, <1>2
  <2>2. ASSUME NEW j \in DOMAIN l, j > i PROVE l[j].call = "since"
    <3>1. j \in a + 1..a + Len(q) /\ j - a > i - a
      BY <1>1, <2>1, <2>2
    <3> QED BY <1>1, <1>2, <2>1, <3>1 DEF InTurn
  <2> QED BY <1>1, <2>1, <2>2 DEF NoFetch
<1> QED BY <1>2 DEF InTurn, l

(* A request moves, and nothing is written. *)
LEMMA IndexMoves ==
  ASSUME IndexInv, NEW h \in Handlers, OnlyMoves(h), WorkersAreNamed', InTurn(Todo(h)'), crossed \subseteq crossed', doc' = doc,
         \A f \in FeedNames : RecentOf(f) \notin crossed' /\ Stage(Todo(h), doc, f) =>
           Stage(Todo(h)', doc, f) /\ (Quiet(Todo(h)', f) => Quiet(Todo(h), f))
  PROVE  IndexInv'
<1>1. FeedsInTurn'
  BY DEF IndexInv, FeedsInTurn, OnlyMoves
<1>2. ASSUME NEW f \in FeedNames, RecentOf(f) \notin crossed' PROVE IndexOf(f)'
  <2>1. IndexOf(f) /\ Stage(Todo(h), doc, f)
    BY <1>2 DEF IndexInv, IndexIsGood, IndexOf
  <2> QED BY <1>2, <2>1, IndexRests
<1>3. IndexIsGood'
  BY <1>2 DEF IndexIsGood, RecentOf
<1> QED BY <1>1, <1>3 DEF IndexInv

(* A request goes on in place of a call, with others, that have to do with no index. *)
LEMMA IndexPasses ==
  ASSUME IInv, FeedInv, IndexInv, NEW h \in Handlers, Working(h), NEW p, IsList(p), Continues(h, p \o Tail(Todo(h))), doc' = doc,
         \A f \in FeedNames : ~Touches(Todo(h)[1], f) /\ Quiet(p, f),
         \A i \in DOMAIN p : \A f \in FeedNames : Concerns(p[i], f) => Concerns(Todo(h)[1], f),
         InTurn(p \o Tail(Todo(h)))
  PROVE  IndexInv'
<1> DEFINE l == Todo(h)
           s == p \o Tail(l)
<1>1. IsList(l) /\ l # <<>> /\ 1 \in DOMAIN l /\ IsList(Tail(l))
  BY AtWork, TailFacts DEF IInv
<1>2. ASSUME NEW i \in DOMAIN s, NEW f \in FeedNames, Concerns(s[i], f) PROVE \E j \in DOMAIN l : Concerns(l[j], f)
  <2>1. (\E j \in DOMAIN p : s[i] = p[j]) \/ (\E j \in DOMAIN Tail(l) : s[i] = Tail(l)[j])
    <3> DEFINE q == Tail(l)
    <3>1. IsList(q) /\ i \in DOMAIN (p \o q)
      BY <1>1
    <3> HIDE DEF q
    <3>2. (\E j \in DOMAIN p : (p \o q)[i] = p[j]) \/ (\E j \in DOMAIN q : (p \o q)[i] = q[j])
      BY <3>1, ElementsOfJoin
    <3> QED BY <3>2 DEF q
  <2>2. \A j \in DOMAIN Tail(l) : Tail(l)[j] = l[j + 1] /\ j + 1 \in DOMAIN l
    BY <1>1, TailFacts
  <2> QED BY <1>1, <1>2, <2>1, <2>2
<1> HIDE DEF s
<1>3. WorkersAreNamed' /\ OnlyMoves(h) /\ crossed' = crossed /\ Todo(h)' = s
  BY <1>2, NamesStay DEF IndexInv, s
<1>4. ASSUME NEW f \in FeedNames, Stage(l, doc, f) PROVE Stage(s, doc, f) /\ (Quiet(s, f) => Quiet(l, f))
  BY <1>1, <1>4, StagePasses DEF s
<1>5. InTurn(s)
  BY DEF s
<1> QED BY <1>3, <1>4, <1>5, IndexMoves

LEMMA TurnOfOthers ==
  ASSUME NEW p, IsList(p), \A i \in DOMAIN p : ~ReadsFeed(p[i])
  PROVE  InTurn(p)
BY DEF InTurn

LEMMA TurnOfFetch ==
  ASSUME NEW t, NEW q, IsList(q), Sinces(q)
  PROVE  InTurn(<<t>> \o q)
<1> DEFINE p == <<t>>
           l == p \o q
<1>1. IsList(p) /\ Len(p) = 1
  BY ShortLists
<1> HIDE DEF p
<1>2. /\ DOMAIN l = 1..1 + Len(q) /\ Len(q) \in Nat
      /\ \A i \in 2..1 + Len(q) : l[i] = q[i - 1] /\ i - 1 \in DOMAIN q
  <2>1. /\ DOMAIN l = 1..Len(p) + Len(q) /\ Len(q) \in Nat
        /\ \A i \in Len(p) + 1..Len(p) + Len(q) : l[i] = q[i - Len(p)] /\ i - Len(p) \in DOMAIN q
    BY <1>1, JoinFacts
  <2> HIDE DEF l
  <2> QED BY <1>1, <2>1
<1> HIDE DEF l
<1>3. \A i \in DOMAIN l : i # 1 => l[i].call = "since"
  BY <1>2 DEF Sinces
<1>4. \A i, j \in DOMAIN l : j > i => j # 1
  BY <1>2
<1> QED BY <1>3, <1>4 DEF InTurn, l, p

(* A request begins. *)
LEMMA IndexBegins ==
  ASSUME IInv, IndexInv, NEW h \in Handlers, NEW op, NEW about, NEW s, Starts(h, op, about, s),
         \A topic \in DOMAIN about : topic[1] = "recent" => about[topic] = h,
         \A i \in DOMAIN s : \A f \in FeedNames : Concerns(s[i], f) => RecentOf(f) \in DOMAIN about,
         InTurn(s), \A f \in FeedNames : Stage(s, doc, f)
  PROVE  IndexInv'
<1>1. WorkersAreNamed' /\ OnlyMoves(h) /\ crossed \subseteq crossed' /\ Todo(h)' = s /\ Todo(h) = <<>> /\ doc' = doc
  BY NamesBegin DEF IndexInv
<1>2. \A f : Quiet(Todo(h), f)
  BY <1>1, ShortLists DEF Quiet
<1> QED BY <1>1, <1>2, IndexMoves

LEMMA IndexStandsAside ==
  ASSUME IInv, FeedInv, IndexInv, NEW h \in Handlers, StandsAside(h)
  PROVE  IndexInv'
<1>1. CASE Enters(h)
  <2>1. PICK op, about, s : Starts(h, op, about, s) /\ AsideList(s) /\ Apart(about)
    BY <1>1 DEF Enters
  <2>2. /\ IsList(s) /\ (\A f : Quiet(s, f))
        /\ \A i \in DOMAIN s : ~ReadsFeed(s[i]) /\ \A f : ~Concerns(s[i], f)
    BY <2>1, AsideListIsQuiet
  <2>3. InTurn(s) /\ \A f : Stage(s, doc, f)
    BY <2>2, TurnOfOthers DEF Stage, Rewrites, Quiet
  <2>4. \A topic \in DOMAIN about : topic[1] # "recent"
    BY <2>1 DEF Apart
  <2> QED BY <2>1, <2>2, <2>3, <2>4, IndexBegins
<1>2. CASE Passes(h)
  <2> DEFINE l == Todo(h)
  <2>1. PICK p : AsideList(p) /\ Continues(h, p \o Tail(l))
    BY <1>2 DEF Passes
  <2>2. Working(h) /\ doc' = doc /\ (Aside(l[1]) \/ l[1].call = "fetch") /\ l # <<>> /\ IsList(l)
    BY <1>2, AtWork DEF Passes, IInv
  <2>3. \A f : ~Touches(l[1], f)
    BY <2>2, AsideIsQuiet, Untouched
  <2>4. /\ IsList(p) /\ (\A f : Quiet(p, f))
        /\ \A i \in DOMAIN p : ~ReadsFeed(p[i]) /\ \A f : ~Concerns(p[i], f)
    BY <2>1, AsideListIsQuiet
  <2>5. InTurn(Tail(l)) /\ NoFetch(Tail(l)) /\ IsList(Tail(l))
    BY <2>2, TurnOfTail, TailFacts DEF IndexInv, FeedsInTurn
  <2>6. InTurn(p \o Tail(l))
    BY <2>4, <2>5, TurnOfJoin
  <2> QED BY <2>1, <2>2, <2>3, <2>4, <2>6, IndexPasses
<1> QED BY <1>1, <1>2 DEF StandsAside

LEMMA IndexPolls ==
  ASSUME IInv, FeedInv, IndexInv, NEW h \in Handlers, Poll(h)
  PROVE  IndexInv'
<1> DEFINE about == [topic \in {<<"recent", f>> : f \in FeedNames} |-> h]
           s == [i \in DOMAIN FeedOrder |-> Later("since", FeedOrder[i])]
           n == Len(FeedOrder)
<1>1. Starts(h, "poll", about, s)
  BY DEF Poll
<1>2. n \in Nat /\ DOMAIN FeedOrder = 1..n
  BY FeedsAssumption
<1>3. s = [i \in 1..n |-> s[i]] /\ DOMAIN s = 1..n /\ \A i \in 1..n : s[i].call = "since"
  BY <1>2, LaterFields
<1>4. (\A topic \in DOMAIN about : about[topic] = h) /\ \A f \in FeedNames : RecentOf(f) \in DOMAIN about
  BY DEF RecentOf
<1> HIDE DEF about, s, n
<1>5. IsList(s) /\ Sinces(s)
  BY <1>2, <1>3, FunctionIsList DEF Sinces
<1>6. InTurn(s) /\ \A f : Stage(s, doc, f)
  BY <1>5, TurnOfSinces DEF Stage, Rewrites, Quiet
<1> QED BY <1>1, <1>4, <1>6, IndexBegins

LEMMA IndexReadsCursor ==
  ASSUME IInv, FeedInv, IndexInv, NEW h \in Handlers, ReadsCursor(h)
  PROVE  IndexInv'
<1> DEFINE l == Todo(h)
           t == l[1]
           p == <<Later("fetch", [feed |-> t.of, since |-> Since(t.of)])>>
<1>1. /\ Working(h) /\ t.call = "since" /\ Continues(h, p \o Tail(l)) /\ doc' = doc
      /\ IsList(l) /\ l # <<>> /\ 1 \in DOMAIN l
  BY AtWork DEF ReadsCursor, IInv
<1>2. IsList(p) /\ DOMAIN p = {1} /\ p[1].call = "fetch" /\ p[1].of.feed = t.of
  BY ShortLists, LaterFields
<1>3. Sinces(Tail(l)) /\ IsList(Tail(l))
  BY <1>1, TurnOfTail, TailFacts DEF IndexInv, FeedsInTurn, ReadsFeed
<1>4. InTurn(p \o Tail(l))
  BY <1>3, TurnOfFetch
<1> HIDE DEF p
<1>5. \A f : ~Touches(t, f) /\ ~Touches(p[1], f)
  BY <1>1, <1>2, Untouched
<1>6. \A f : Quiet(p, f)
  BY <1>2, <1>5 DEF Quiet
<1>7. \A i \in DOMAIN p : \A f : Concerns(p[i], f) => Concerns(t, f)
  BY <1>1, <1>2, <1>5 DEF Concerns
<1> QED BY <1>1, <1>2, <1>4, <1>5, <1>6, <1>7, IndexPasses

LEMMA IndexIsSeeded ==
  ASSUME IInv, FeedInv, IndexInv, NEW h \in Handlers, SeedDemo(h)
  PROVE  IndexInv'
<1> DEFINE s == Seeds
           n == minted + Cardinality(Scripts)
<1>1. Starts(h, "seed", NoTopic, s) /\ DOMAIN NoTopic = {}
  BY DEF SeedDemo, NoTopic
<1>2. /\ IsList(s) /\ \A i \in DOMAIN s : Cited(s[i]) \/ Told(s[i], minted) \/ s[i] = Put(Marker, None)
  <2>1. minted \in Nat
    BY DEF FeedInv, StoredOnce
  <2> QED BY <2>1, SeedsAreGood DEF GoodList
<1> HIDE DEF s
<1>3. ASSUME NEW i \in DOMAIN s PROVE ~ReadsFeed(s[i]) /\ \A f \in FeedNames : ~Touches(s[i], f)
  <2> DEFINE t == s[i]
  <2>1. "scenario" \notin FeedNames
    BY PlatformAssumption
  <2>2. CASE t.call = "index" /\ t.of.feed = "scenario"
    BY <2>1, <2>2, Untouched DEF ReadsFeed, Touches, IndexesFeed
  <2>3. ASSUME NEW x, t = Put(Signalled(x), SignalOf(x)) PROVE ~ReadsFeed(t) /\ \A f \in FeedNames : ~Touches(t, f)
    BY <2>1, <2>3, PutFields, PublicKeys DEF ReadsFeed, Touches, SavesEvent, SavesIndex, IndexesFeed, SignalOf
  <2>4. ASSUME t = Put(t.key, t.value), t.key[1] \notin {"EVENT", "RECENT"}
        PROVE  ~ReadsFeed(t) /\ \A f \in FeedNames : ~Touches(t, f)
    BY <2>4, PutFields, PublicKeys DEF ReadsFeed, Touches, SavesEvent, SavesIndex, IndexesFeed
  <2>5. CASE Cited(t)
    BY <2>2, <2>3, <2>4, <2>5, PutFields, PublicKeys DEF Cited
  <2>6. CASE Told(t, minted) \/ t = Put(Marker, None)
    BY <2>4, <2>6, PutFields, PublicKeys DEF Told
  <2> QED BY <1>2, <2>5, <2>6
<1>4. InTurn(s) /\ \A f \in FeedNames : Stage(s, doc, f)
  BY <1>2, <1>3, TurnOfOthers DEF Stage, Rewrites
<1>5. \A i \in DOMAIN s : \A f \in FeedNames : ~Concerns(s[i], f)
  BY <1>3 DEF Concerns, ReadsFeed
<1> QED BY <1>1, <1>4, <1>5, IndexBegins

-----------------------------------------------------------------------------
(* The index is read and merged *)

LEMMA CollectedIsMerged ==
  ASSUME IInv, FeedInv, NEW f \in FeedNames, NEW l, NEW t, IsList(l), l # <<>>, t = l[1], IndexesFeed(t, f), Stage(l, doc, f)
  PROVE  /\ IsNewest(MergeRecent(Index(f), t.of.fresh), EventsIn(doc, f))
         /\ Quiet(Tail(l), f)
<1> DEFINE A == EventsIn(doc, f)
           B == t.of.fresh
           I == IndexIn(doc, f)
<1>1. 1 \in DOMAIN l /\ DOMAIN l = 1..Len(l) /\ Touches(t, f) /\ t.call = "index"
  BY ListFacts DEF Touches, IndexesFeed
<1>2. ~Rewrites(l, doc, f)
  BY <1>1, Untouched DEF Rewrites
<1>3. PICK i \in DOMAIN l : Collects(l, i, doc, f)
  BY <1>2 DEF Stage
<1>4. i = 1
  BY <1>1, <1>3, Untouched DEF Collects
<1>5. \A j \in DOMAIN l : ~(j < 1)
  BY <1>1
<1>6. B \subseteq A /\ IsNewest(I, A \ B)
  BY <1>3, <1>4, <1>5 DEF Collects
<1>7. \A j \in DOMAIN l : j # 1 => ~Touches(l[j], f)
  BY <1>3, <1>4, <1>5 DEF Collects
<1>8. IsFiniteSet(A) /\ A \subseteq [id : Nat, at : Nat]
  BY EventsFacts
<1>9. Index(f) = I
  BY DEF Index, IndexIn, Held
<1> HIDE DEF A, B, I
<1> DEFINE S == ToSet(I) \cup B
<1>10. S = {e \in A \ B : Cardinality(NewerIn(A \ B, e)) < RecentCap} \cup B
  BY <1>6 DEF IsNewest
<1>11. S \subseteq A
  BY <1>6, <1>10
<1>12. IsFiniteSet(S) /\ S \subseteq [id : Nat, at : Nat]
  BY <1>8, <1>11, FS_Subset
<1>13. IsNewest(MergeRecent(I, B), S)
  BY <1>12, MergeFacts
<1> HIDE DEF S
<1>14. IsNewest(MergeRecent(I, B), A)
  BY <1>6, <1>8, <1>10, <1>13, NewestOfRest
<1>15. Quiet(Tail(l), f)
  <2>1. /\ Len(l) \in Nat \ {0} /\ DOMAIN Tail(l) = 1..Len(l) - 1
        /\ \A j \in 1..Len(l) - 1 : Tail(l)[j] = l[j + 1] /\ j + 1 \in DOMAIN l
    BY TailFacts
  <2>2. \A j \in 1..Len(l) - 1 : j + 1 # 1
    BY <2>1
  <2> QED BY <1>7, <2>1, <2>2 DEF Quiet
<1> QED BY <1>9, <1>14, <1>15 DEF A, B

LEMMA IndexIsMerged ==
  ASSUME IInv, FeedInv, IndexInv, NEW h \in Handlers, Indexes(h)
  PROVE  IndexInv'
<1> DEFINE l == Todo(h)
           t == l[1]
           g == t.of.feed
           v == MergeRecent(Index(g), t.of.fresh)
           p == <<Put(Recent(g), v)>>
           s == p \o Tail(l)
<1>1. /\ Working(h) /\ t.call = "index" /\ Continues(h, s) /\ doc' = doc
      /\ IsList(l) /\ l # <<>> /\ 1 \in DOMAIN l
  BY AtWork DEF Indexes, IInv
<1>2. IsList(p) /\ DOMAIN p = {1} /\ p[1].call = "put" /\ p[1].key = Recent(g) /\ p[1].value = v
  BY ShortLists, PutFields
<1>3. InTurn(Tail(l)) /\ NoFetch(Tail(l)) /\ IsList(Tail(l))
  BY <1>1, TurnOfTail, TailFacts DEF IndexInv, FeedsInTurn
<1> HIDE DEF p, v
<1>4. InTurn(s)
  BY <1>2, <1>3, TurnOfJoin DEF ReadsFeed
<1>5. \A f : /\ Touches(p[1], f) <=> f = g
             /\ Concerns(p[1], f) => f = g
             /\ SavesIndex(p[1], g)
  BY <1>2, PublicKeys DEF Touches, Concerns, SavesEvent, SavesIndex, IndexesFeed
<1>6. \A f : /\ Touches(t, f) <=> f = g
             /\ IndexesFeed(t, f) <=> f = g
             /\ Concerns(t, g)
  BY <1>1, Untouched DEF IndexesFeed, Touches, Concerns
<1>7. ASSUME NEW i \in DOMAIN s, NEW f \in FeedNames, Concerns(s[i], f) PROVE \E j \in DOMAIN l : Concerns(l[j], f)
  <2> DEFINE q == Tail(l)
  <2>1. \A j \in DOMAIN q : q[j] = l[j + 1] /\ j + 1 \in DOMAIN l
    BY <1>1, TailFacts
  <2>2. IsList(q) /\ i \in DOMAIN (p \o q) /\ s = p \o q
    BY <1>3
  <2> HIDE DEF q, s
  <2>3. (\E j \in DOMAIN p : (p \o q)[i] = p[j]) \/ (\E j \in DOMAIN q : (p \o q)[i] = q[j])
    BY <1>2, <2>2, ElementsOfJoin
  <2> QED BY <1>1, <1>2, <1>5, <1>6, <1>7, <2>1, <2>2, <2>3
<1> HIDE DEF s
<1>8. WorkersAreNamed' /\ OnlyMoves(h) /\ crossed' = crossed /\ Todo(h)' = s
  BY <1>1, <1>7, NamesStay DEF IndexInv
<1>9. ASSUME NEW f \in FeedNames, Stage(l, doc, f) PROVE Stage(s, doc, f) /\ (Quiet(s, f) => Quiet(l, f))
  <2>1. CASE f # g
    <3>1. ~Touches(t, f) /\ Quiet(p, f)
      BY <1>2, <1>5, <1>6, <2>1 DEF Quiet
    <3> QED BY <1>1, <1>2, <1>9, <3>1, StagePasses DEF s
  <2>2. CASE f = g
    <3>1. IsNewest(v, EventsIn(doc, f)) /\ Quiet(Tail(l), f)
      BY <1>1, <1>6, <1>9, <2>2, CollectedIsMerged DEF v
    <3>2. Rewrites(p, doc, f) /\ ~Quiet(p, f)
      BY <1>2, <1>5, <2>2, <3>1 DEF Rewrites, Quiet
    <3>3. Stage(s, doc, f)
      BY <1>2, <1>3, <3>1, <3>2, StageJoin DEF Stage, s
    <3>4. ~Quiet(s, f)
      BY <1>2, <1>3, <3>2, QuietJoin DEF s
    <3> QED BY <3>3, <3>4
  <2> QED BY <2>1, <2>2
<1> QED BY <1>1, <1>4, <1>8, <1>9, IndexMoves

(* The events of a feed are those that a read of the whole partition finds. *)
LEMMA AllStored ==
  ASSUME IInv, FeedInv, NEW f \in FeedNames
  PROVE  {[id |-> id, at |-> At(id)] : id \in Stored(f)} = EventsIn(doc, f)
<1> DEFINE all == {[id |-> id, at |-> At(id)] : id \in Stored(f)}
<1>1. \A e : e \in EventsIn(doc, f) <=>
            \E m \in Nat : /\ Event(m) \in DOMAIN doc /\ doc[Event(m)].feed = f
                           /\ e = [id |-> m, at |-> doc[Event(m)].at]
  BY EventsFacts
<1>2. ASSUME NEW e \in EventsIn(doc, f) PROVE e \in all
  <2>1. PICK m \in Nat : Event(m) \in DOMAIN doc /\ doc[Event(m)].feed = f /\ e = [id |-> m, at |-> doc[Event(m)].at]
    BY <1>1
  <2>2. Event(m) \in {k \in Partition("EVENT") : doc[k].feed = f} /\ Event(m)[2] = m
    BY <2>1, PublicKeys DEF Partition
  <2>3. m \in Stored(f)
    BY <2>2 DEF Stored
  <2> QED BY <2>1, <2>3 DEF At
<1>3. ASSUME NEW e \in all PROVE e \in EventsIn(doc, f)
  <2>1. PICK m \in Stored(f) : e = [id |-> m, at |-> doc[Event(m)].at]
    BY DEF At
  <2>2. PICK key \in DOMAIN doc : key[1] = "EVENT" /\ doc[key].feed = f /\ key[2] = m
    BY DEF Stored, Partition
  <2>3. Kind(key, doc[key], minted) /\ minted \in Nat
    BY <2>2 DEF FeedInv, StoredOnce, Lasting
  <2>4. key = Event(m)
    BY <2>2, <2>3, KindFacts
  <2>5. e = [id |-> key[2], at |-> doc[key].at]
    BY <2>1, <2>2, <2>4
  <2> QED BY <2>2, <2>5 DEF EventsIn
<1> QED BY <1>2, <1>3

(* The index is rebuilt from one read of the events. *)
LEMMA IndexIsRebuilt ==
  ASSUME IInv, FeedInv, IndexInv, NEW h \in Handlers, Rebuild(h)
  PROVE  IndexInv'
<1> DEFINE stored == {f \in FeedNames : Stored(f) # {}}
           about == [topic \in {<<"recent", f>> : f \in stored} |-> h]
           all(f) == {[id |-> id, at |-> At(id)] : id \in Stored(f)}
           calls == [f \in stored |-> Put(Recent(f), MergeRecent(<<>>, all(f)))]
           T == {calls[f] : f \in stored}
           s == SetToSeq(T)
<1>1. Starts(h, "rebuild", about, s)
  <2>1. T = {Put(Recent(f), MergeRecent(<<>>, {[id |-> id, at |-> At(id)] : id \in Stored(f)})) : f \in stored}
    BY Zenon
  <2> QED BY <2>1 DEF Rebuild
<1>2. IsFiniteSet(stored) /\ stored \subseteq FeedNames
  <2>1. stored \subseteq FeedNames
    OBVIOUS
  <2> HIDE DEF stored
  <2> QED BY <2>1, FeedsAreFinite, FS_Subset
<1>3. \A f \in FeedNames : all(f) = EventsIn(doc, f)
  BY AllStored
<1>4. /\ calls = [f \in stored |-> calls[f]]
      /\ \A f \in stored : calls[f] = Put(Recent(f), MergeRecent(<<>>, all(f)))
  OBVIOUS
<1>5. (\A topic \in DOMAIN about : about[topic] = h) /\ \A f \in stored : RecentOf(f) \in DOMAIN about
  BY DEF RecentOf
<1> HIDE DEF stored, about, all, calls
<1>6. IsFiniteSet(T)
  BY <1>2, <1>4, FiniteImage
<1>7. \A x \in T : \E f \in stored : x = Put(Recent(f), MergeRecent(<<>>, all(f)))
  BY <1>4
<1> HIDE DEF T
<1>8. IsList(s) /\ \A i \in DOMAIN s : \E f \in stored : s[i] = Put(Recent(f), MergeRecent(<<>>, all(f)))
  BY <1>6, <1>7, SetToSeqFacts
<1> HIDE DEF s
<1>9. ASSUME NEW f \in FeedNames PROVE IsNewest(MergeRecent(<<>>, all(f)), EventsIn(doc, f))
  <2> DEFINE A == EventsIn(doc, f)
  <2>1. IsFiniteSet(A) /\ A \subseteq [id : Nat, at : Nat]
    BY EventsFacts
  <2>2. ToSet(<<>>) \cup A = A
    BY ShortLists DEF ToSet
  <2> HIDE DEF A
  <2>3. IsNewest(MergeRecent(<<>>, A), A)
    BY <2>1, <2>2, MergeFacts
  <2> QED BY <1>3, <2>3 DEF A
<1>10. ASSUME NEW i \in DOMAIN s
       PROVE  /\ ~ReadsFeed(s[i])
              /\ \A f \in FeedNames : Concerns(s[i], f) =>
                   f \in stored /\ SavesIndex(s[i], f) /\ s[i].value = MergeRecent(<<>>, all(f))
  <2>1. PICK g \in stored : s[i] = Put(Recent(g), MergeRecent(<<>>, all(g)))
    BY <1>8
  <2>2. s[i].call = "put" /\ s[i].key = Recent(g) /\ s[i].value = MergeRecent(<<>>, all(g))
    BY <2>1, PutFields
  <2>3. \A f : Concerns(s[i], f) => SavesIndex(s[i], f) /\ f = g
    BY <2>2, PublicKeys DEF Concerns, Touches, SavesEvent, IndexesFeed, SavesIndex
  <2> QED BY <2>2, <2>3 DEF ReadsFeed
<1>11. InTurn(s) /\ \A f \in FeedNames : Stage(s, doc, f)
  <2>1. \A f \in FeedNames : Rewrites(s, doc, f)
    BY <1>9, <1>10, Untouched DEF Rewrites
  <2> QED BY <1>8, <1>10, <2>1, TurnOfOthers DEF Stage
<1>12. \A i \in DOMAIN s : \A f \in FeedNames : Concerns(s[i], f) => RecentOf(f) \in DOMAIN about
  BY <1>5, <1>10
<1> QED BY <1>1, <1>5, <1>11, <1>12, IndexBegins

-----------------------------------------------------------------------------
(* What was fetched is saved, and indexed *)

Got(f, e, i) == [id |-> minted + i, at |-> Stamps(f)[e[i]]]

(* One more call after a list of calls. *)
LEMMA OneMoreCall ==
  ASSUME NEW s, NEW x, NEW n \in Nat, IsList(s), IsList(x), Len(s) = n, Len(x) = 1
  PROVE  /\ IsList(s \o x) /\ DOMAIN (s \o x) = 1..n + 1 /\ Len(s \o x) = n + 1
         /\ (\A i \in 1..n : (s \o x)[i] = s[i]) /\ (s \o x)[n + 1] = x[1]
<1> DEFINE t == s \o x
           k == Len(s)
           l == Len(x)
<1>1. /\ IsList(t) /\ DOMAIN t = 1..k + l
      /\ (\A i \in 1..k : t[i] = s[i])
      /\ \A i \in k + 1..k + l : t[i] = x[i - k]
  BY JoinFacts
<1>2. IsList(t) => DOMAIN t = 1..Len(t) /\ Len(t) \in Nat
  BY ListFacts
<1> HIDE DEF t
<1>3. k = n /\ l = 1
  OBVIOUS
<1> HIDE DEF k, l
<1>4. DOMAIN t = 1..n + 1 /\ (\A i \in 1..n : t[i] = s[i]) /\ \A i \in n + 1..n + 1 : t[i] = x[i - n]
  BY <1>1, <1>3
<1>5. n + 1 \in n + 1..n + 1 /\ (n + 1) - n = 1
  OBVIOUS
<1>6. t[n + 1] = x[1]
  BY <1>4, <1>5
<1>7. Len(t) = n + 1
  BY <1>1, <1>2, <1>4
<1> QED BY <1>1, <1>4, <1>6, <1>7 DEF t

LEMMA SavesInOrder ==
  ASSUME NEW f, NEW e, NEW m \in Nat, e = [i \in 1..m |-> e[i]]
  PROVE  LET q == SavesThenMoves(f, e)
         IN /\ IsList(q) /\ DOMAIN q = 1..m + 2
            /\ \A i \in 1..m : q[i] = Put(Event(minted + i), EntryOf(f, e[i], Stamps(f)[e[i]]))
            /\ q[m + 1] = Later("index", [feed |-> f, fresh |-> {Got(f, e, i) : i \in 1..m}])
            /\ q[m + 2] = Put(Cursor(f), NewestStamp(f, e))
<1> DEFINE A == [i \in DOMAIN e |->
                   Put(Event(minted + i), [feed |-> f, n |-> e[i], at |-> Stamps(f)[e[i]]])]
           X == <<Later("index", [feed |-> f,
                                  fresh |-> {[id |-> minted + i, at |-> Stamps(f)[e[i]]] : i \in DOMAIN e}])>>
           M == <<Put(Cursor(f), NewestStamp(f, e))>>
           B == A \o X
           C == B \o M
<1>1. SavesThenMoves(f, e) = C
  BY DEF SavesThenMoves, Saves, Moves
<1>2. DOMAIN e = 1..m
  OBVIOUS
<1>3. /\ A = [i \in 1..m |-> A[i]] /\ DOMAIN A = 1..m
      /\ \A i \in 1..m : A[i] = Put(Event(minted + i), EntryOf(f, e[i], Stamps(f)[e[i]]))
  BY <1>2 DEF EntryOf
<1>4. /\ IsList(X) /\ Len(X) = 1
      /\ X[1] = Later("index", [feed |-> f, fresh |-> {Got(f, e, i) : i \in 1..m}])
  BY <1>2, ShortLists DEF Got
<1>5. IsList(M) /\ Len(M) = 1 /\ M[1] = Put(Cursor(f), NewestStamp(f, e))
  BY ShortLists
<1> HIDE DEF A, X, M
<1>6. IsList(A) /\ Len(A) = m
  BY <1>3, FunctionIsList
<1>7. /\ IsList(B) /\ Len(B) = m + 1 /\ DOMAIN B = 1..m + 1
      /\ (\A i \in 1..m : B[i] = A[i]) /\ B[m + 1] = X[1]
  BY <1>4, <1>6, OneMoreCall
<1> HIDE DEF B
<1>8. m + 1 \in Nat /\ (m + 1) + 1 = m + 2
  OBVIOUS
<1>9. /\ IsList(C) /\ DOMAIN C = 1..(m + 1) + 1
      /\ (\A i \in 1..m + 1 : C[i] = B[i]) /\ C[(m + 1) + 1] = M[1]
  <2> DEFINE k == m + 1
  <2>1. k \in Nat /\ IsList(B) /\ Len(B) = k /\ IsList(M) /\ Len(M) = 1
    BY <1>5, <1>7
  <2> HIDE DEF k, C
  <2>2. /\ IsList(B \o M) /\ DOMAIN (B \o M) = 1..k + 1
        /\ (\A i \in 1..k : (B \o M)[i] = B[i]) /\ (B \o M)[k + 1] = M[1]
    BY ONLY <2>1, OneMoreCall
  <2> QED BY <2>2 DEF C, k
<1> HIDE DEF C
<1>10. (\A i \in 1..m : i \in 1..m + 1) /\ m + 1 \in 1..m + 1
  OBVIOUS
<1> QED BY <1>1, <1>3, <1>4, <1>5, <1>7, <1>8, <1>9, <1>10

(* What was fetched has new ids, so that the index is of all that is stored but it. *)
LEMMA AnswerIsCollected ==
  ASSUME IInv, FeedInv, NEW f \in FeedNames, NEW e, NEW m \in Nat, e = [i \in 1..m |-> e[i]]
  PROVE  LET q == SavesThenMoves(f, e)
         IN /\ IsNewest(IndexIn(doc, f), EventsIn(doc, f)) => Stage(q, doc, f)
            /\ \A i \in DOMAIN q : ~ReadsFeed(q[i]) /\ \A g : Concerns(q[i], g) => g = f
<1> DEFINE q == SavesThenMoves(f, e)
           fresh == {Got(f, e, i) : i \in 1..m}
           c == m + 1
<1>1. /\ IsList(q) /\ DOMAIN q = 1..m + 2
      /\ \A i \in 1..m : q[i] = Put(Event(minted + i), EntryOf(f, e[i], Stamps(f)[e[i]]))
      /\ q[m + 1] = Later("index", [feed |-> f, fresh |-> fresh])
      /\ q[m + 2] = Put(Cursor(f), NewestStamp(f, e))
  BY SavesInOrder
<1> HIDE DEF q
<1>2. /\ c \in DOMAIN q /\ c \in Nat
      /\ \A i \in DOMAIN q : i \in 1..m \/ i = c \/ i = m + 2
      /\ \A i \in 1..m : i < c /\ i \in DOMAIN q
  BY <1>1
<1>3. q[c].call = "index" /\ q[c].of.feed = f /\ q[c].of.fresh = fresh
  BY <1>1, LaterFields
<1>4. minted \in Nat
  BY DEF FeedInv, StoredOnce
<1> HIDE DEF c, fresh
<1>5. ASSUME NEW i \in 1..m
      PROVE  /\ q[i].call = "put" /\ SavesEvent(q[i], f) /\ EventOf(q[i]) = Got(f, e, i)
             /\ \A g : Concerns(q[i], g) => g = f
  <2> DEFINE v == EntryOf(f, e[i], Stamps(f)[e[i]])
  <2>1. q[i].call = "put" /\ q[i].key = Event(minted + i) /\ q[i].value = v
    BY <1>1, PutFields
  <2>2. v.feed = f /\ v.at = Stamps(f)[e[i]]
    BY DEF EntryOf
  <2> HIDE DEF v
  <2>3. SavesEvent(q[i], f) /\ EventOf(q[i]) = Got(f, e, i)
    BY <2>1, <2>2, PublicKeys DEF SavesEvent, EventOf, Got
  <2>4. \A g : Concerns(q[i], g) => g = f
    BY <2>1, <2>2, PublicKeys DEF Concerns, Touches, SavesEvent, SavesIndex, IndexesFeed
  <2> QED BY <2>1, <2>3, <2>4
<1>6. IndexesFeed(q[c], f) /\ \A g : Concerns(q[c], g) => g = f
  BY <1>3, Untouched DEF Concerns, Touches, SavesEvent, SavesIndex, IndexesFeed
<1>7. q[m + 2].call = "put" /\ \A g : ~Touches(q[m + 2], g) /\ ~Concerns(q[m + 2], g)
  <2>1. q[m + 2].call = "put" /\ q[m + 2].key[1] = "FEED"
    BY <1>1, PutFields, PublicKeys
  <2> QED BY <2>1, PublicKeys DEF Concerns, Touches, SavesEvent, SavesIndex, IndexesFeed
<1>8. \A i \in DOMAIN q : ~ReadsFeed(q[i]) /\ \A g : Concerns(q[i], g) => g = f
  BY <1>2, <1>3, <1>5, <1>6, <1>7 DEF ReadsFeed
<1>9. ASSUME IsNewest(IndexIn(doc, f), EventsIn(doc, f)) PROVE Collects(q, c, doc, f)
  <2>1. ASSUME NEW j \in DOMAIN q, Touches(q[j], f)
        PROVE  j = c \/ (j < c /\ SavesEvent(q[j], f) /\ EventOf(q[j]) \in fresh)
    <3>1. j \in 1..m => Got(f, e, j) \in fresh
      BY DEF fresh
    <3> QED BY <1>2, <1>5, <1>7, <2>1, <3>1
  <2>2. ASSUME NEW x \in fresh PROVE \E j \in DOMAIN q : j < c /\ SavesEvent(q[j], f) /\ EventOf(q[j]) = x
    <3>1. PICK i \in 1..m : x = Got(f, e, i)
      BY DEF fresh
    <3> QED BY <1>2, <1>5, <3>1
  <2>3. ASSUME NEW x \in EventsIn(doc, f) PROVE x \notin fresh
    <3>1. x.id \in Nat /\ x.id <= minted
      BY EventsFacts
    <3>2. \A i \in 1..m : Got(f, e, i).id = minted + i
      BY DEF Got
    <3>3. \A i \in 1..m : minted + i > minted
      BY <1>4
    <3>4. \A i \in 1..m : x.id # minted + i
      BY <1>4, <3>1
    <3> QED BY <3>2, <3>4 DEF fresh
  <2>4. EventsIn(doc, f) \ fresh = EventsIn(doc, f)
    BY <2>3
  <2> QED BY <1>3, <1>6, <1>9, <2>1, <2>2, <2>4 DEF Collects
<1> QED BY <1>2, <1>8, <1>9 DEF Stage, q

LEMMA IndexIsAnswered ==
  ASSUME IInv, FeedInv, IndexInv, NEW h \in Handlers, Fetches(h)
  PROVE  IndexInv'
<1> DEFINE l == Todo(h)
           t == l[1]
           f == t.of.feed
           since == t.of.since
<1>0. PICK e \in Answers(f, since) :
          Continues(h, <<Put(Sync(f), "ok")>> \o (IF e = <<>> THEN <<>> ELSE SavesThenMoves(f, e)) \o Next1(h))
  BY AtWork DEF Fetches, IInv
<1> DEFINE p == <<Put(Sync(f), "ok")>>
           q == IF e = <<>> THEN <<>> ELSE SavesThenMoves(f, e)
           r == p \o q
           s == r \o Tail(l)
<1>1. /\ Working(h) /\ t.call = "fetch" /\ Continues(h, s) /\ doc' = doc
      /\ IsList(l) /\ l # <<>> /\ 1 \in DOMAIN l
  BY <1>0, AtWork DEF Fetches, IInv
<1>2. f \in FeedNames
  <2>1. GoodAt(Todo(h), 1, doc, minted, published)
    BY <1>1 DEF FeedInv, GoodCalls, GoodList
  <2>2. ~SavesOnce(Todo(h), 1, doc, minted) /\ ~SavesRecent(t) /\ ~MovesCursor(Todo(h), 1, doc, published)
    BY <1>1, PutFields DEF SavesOnce, SavesRecent, MovesCursor
  <2>3. ~Aside(t)
    BY <1>1 DEF Aside
  <2>4. Asks(Todo(h), 1, doc, published)
    BY <2>1, <2>2, <2>3 DEF GoodAt
  <2> QED BY <1>1, <2>4 DEF Asks
<1> HIDE DEF since
<1>3. \E m \in Nat : e = [i \in 1..m |-> e[i]]
  <2>1. published \in [FeedNames -> [stamps : Seq(Nat), window : Nat]]
    BY DEF IInv, TypeInv
  <2> HIDE DEF f
  <2> QED BY <1>2, <2>1, AnswerIsList
<1>4. Concerns(t, f) /\ \A g : ~Touches(t, g)
  BY <1>1, Untouched DEF Concerns
<1> HIDE DEF f
<1>5. /\ IsList(q) /\ (IsNewest(IndexIn(doc, f), EventsIn(doc, f)) => Stage(q, doc, f))
      /\ \A i \in DOMAIN q : ~ReadsFeed(q[i]) /\ \A g : Concerns(q[i], g) => g = f
  <2>1. CASE e = <<>>
    <3>1. q = <<>>
      BY <2>1
    <3> HIDE DEF q
    <3> QED BY <3>1, ShortLists DEF Stage, Rewrites
  <2>2. CASE e # <<>>
    <3>1. q = SavesThenMoves(f, e)
      BY <2>2
    <3> HIDE DEF q
    <3> QED BY <1>2, <1>3, <3>1, SavesInOrder, AnswerIsCollected
  <2> QED BY <2>1, <2>2
<1>6. IsList(p) /\ DOMAIN p = {1} /\ ~ReadsFeed(p[1]) /\ \A g : ~Concerns(p[1], g) /\ ~Touches(p[1], g)
  <2>1. AsideList(p)
    BY AsideCalls, AsideKeys, AsideShort
  <2>2. DOMAIN p = {1} /\ IsList(p) /\ 1 \in DOMAIN p
    BY ShortLists
  <2> HIDE DEF p
  <2>3. Aside(p[1])
    BY <2>1, <2>2 DEF AsideList
  <2> QED BY <2>2, <2>3, AsideIsQuiet
<1> HIDE DEF p, q
<1>7. IsList(r) /\ \A i \in DOMAIN r : ~ReadsFeed(r[i]) /\ \A g : Concerns(r[i], g) => g = f
  <2>1. IsList(r)
    BY <1>5, <1>6, JoinFacts
  <2>2. \A i \in DOMAIN r : (\E j \in DOMAIN p : r[i] = p[j]) \/ (\E j \in DOMAIN q : r[i] = q[j])
    BY <1>5, <1>6, ElementsOfJoin
  <2> QED BY <1>5, <1>6, <2>1, <2>2
<1>8. Quiet(p, f) /\ (IsNewest(IndexIn(doc, f), EventsIn(doc, f)) => Stage(r, doc, f))
  <2>1. Quiet(p, f)
    BY <1>6 DEF Quiet
  <2> QED BY <1>5, <1>6, <2>1, StageJoin
<1> HIDE DEF r
<1>9. Sinces(Tail(l)) /\ IsList(Tail(l))
  BY <1>1, TurnOfTail, TailFacts DEF IndexInv, FeedsInTurn, ReadsFeed
<1>10. InTurn(Tail(l)) /\ NoFetch(Tail(l)) /\ \A g : Quiet(Tail(l), g)
  BY <1>9, TurnOfSinces
<1>11. \A g : Quiet(l, g)
  BY <1>1, <1>4, <1>10, QuietTail
<1>12. InTurn(s)
  BY <1>7, <1>9, <1>10, TurnOfJoin
<1>13. ASSUME NEW i \in DOMAIN s, NEW g \in FeedNames, Concerns(s[i], g) PROVE \E j \in DOMAIN l : Concerns(l[j], g)
  <2> DEFINE k == Tail(l)
  <2>1. \A j \in DOMAIN k : k[j] = l[j + 1] /\ j + 1 \in DOMAIN l
    BY <1>1, TailFacts
  <2>2. IsList(k) /\ i \in DOMAIN (r \o k) /\ s = r \o k
    BY <1>9
  <2> HIDE DEF k, s
  <2>3. (\E j \in DOMAIN r : (r \o k)[i] = r[j]) \/ (\E j \in DOMAIN k : (r \o k)[i] = k[j])
    BY <1>7, <2>2, ElementsOfJoin
  <2> QED BY <1>1, <1>4, <1>7, <1>13, <2>1, <2>2, <2>3
<1> HIDE DEF s
<1>14. WorkersAreNamed' /\ OnlyMoves(h) /\ crossed' = crossed /\ Todo(h)' = s
  BY <1>1, <1>13, NamesStay DEF IndexInv
<1>15. ASSUME NEW g \in FeedNames, RecentOf(g) \notin crossed, Stage(l, doc, g) PROVE Stage(s, doc, g)
  <2>1. CASE g # f
    <3>1. Quiet(r, g)
      BY <1>7, <2>1, Untouched DEF Quiet
    <3> QED BY <1>1, <1>4, <1>7, <1>15, <3>1, StagePasses DEF s
  <2>2. CASE g = f
    <3>1. \A k \in Handlers \ {h} : Quiet(Todo(k), f)
      BY <1>1, <1>2, <1>4, <1>15, <2>2, OneWorker DEF IndexInv
    <3>2. \A k \in Handlers : Quiet(Todo(k), f)
      BY <1>11, <3>1
    <3>3. IsNewest(IndexIn(doc, f), EventsIn(doc, f))
      BY <1>2, <1>15, <2>2, <3>2 DEF IndexInv, IndexIsGood, IndexOf
    <3>4. Stage(r, doc, f)
      BY <1>8, <3>3
    <3> QED BY <1>7, <1>9, <1>10, <2>2, <3>4, StageJoin DEF s
  <2> QED BY <2>1, <2>2
<1> QED BY <1>1, <1>11, <1>12, <1>14, <1>15, IndexMoves

-----------------------------------------------------------------------------
(* A storage call is made, and the last step of each kind *)

(* A request that claims a key has to do with no feed. *)
LEMMA ClaimsNoFeed ==
  ASSUME AccountInv, NEW h \in Handlers, IsList(Todo(h)), Todo(h) # <<>>, Todo(h)[1].call = "new", NEW f
  PROVE  Quiet(Todo(h), f)
<1> DEFINE l == Todo(h)
<1>1. 1 \in DOMAIN l /\ \A i \in DOMAIN l : i = 1 \/ i > 1
  BY ListFacts
<1>2. ~Tame(l[1], About(h), doc, minted, leaving)
  BY TameFacts
<1>3. PICK u \in 1..minted : \E x : SigningUp(l, u, x, doc)
  BY <1>1, <1>2, TameOrSigningUp
<1>4. PICK x : SigningUp(l, u, x, doc)
  BY <1>3
<1>5. ClaimsAt(l, 1, u, x, doc)
  BY <1>4 DEF SigningUp, Makes1, MakesAt, TakesBackAt, Puts, Drops
<1>6. \A i \in DOMAIN l : i = 1 \/ l[i].call = "verification"
  BY <1>1, <1>5 DEF ClaimsAt
<1> QED BY <1>6, Untouched DEF Quiet

LEMMA IndexLosesKey ==
  ASSUME IInv, AccountInv, FeedInv, IndexInv, NEW h \in Handlers, LosesKey(h)
  PROVE  IndexInv'
<1> DEFINE l == Todo(h)
           t == l[1]
           p == <<Delete(t.else)>>
<1>1. Working(h) /\ t.call = "new" /\ Continues(h, p) /\ doc' = doc /\ IsList(l) /\ l # <<>> /\ 1 \in DOMAIN l
  BY AtWork DEF LosesKey, IInv
<1>2. GoodAt(l, 1, doc, minted, published)
  BY <1>1 DEF FeedInv, GoodCalls, GoodList
<1>3. Aside(Delete(t.else))
  BY <1>1, <1>2, NewIsAside DEF Aside, Delete
<1>4. AsideList(p)
  BY <1>3, AsideShort
<1> HIDE DEF p
<1>5. /\ IsList(p) /\ (\A f : Quiet(p, f))
      /\ \A i \in DOMAIN p : ~ReadsFeed(p[i]) /\ \A f : ~Concerns(p[i], f)
  BY <1>4, AsideListIsQuiet
<1>6. InTurn(p) /\ \A f : Stage(p, doc, f)
  BY <1>5, TurnOfOthers DEF Stage, Rewrites, Quiet
<1>7. \A f : Quiet(l, f)
  BY <1>1, ClaimsNoFeed
<1>8. WorkersAreNamed' /\ OnlyMoves(h) /\ crossed' = crossed /\ Todo(h)' = p
  BY <1>1, <1>5, NamesStay DEF IndexInv
<1> QED BY <1>1, <1>6, <1>7, <1>8, IndexMoves

LEMMA IndexDies ==
  ASSUME IInv, IndexInv, NEW h \in Handlers, Dies(h)
  PROVE  IndexInv'
<1>1. WorkersAreNamed' /\ OnlyMoves(h) /\ crossed' = crossed \cup DOMAIN About(h) /\ Todo(h)' = <<>> /\ doc' = doc
  BY NamesEnd DEF IndexInv
<1>2. InTurn(<<>>) /\ \A f : Stage(<<>>, doc, f)
  BY ShortLists DEF InTurn, Stage, Rewrites
<1>3. ASSUME NEW f \in FeedNames, RecentOf(f) \notin crossed' PROVE Quiet(Todo(h), f)
  <2>1. RecentOf(f) \notin DOMAIN About(h)
    BY <1>1, <1>3
  <2> QED BY <2>1, Untouched DEF IndexInv, WorkersAreNamed, Quiet
<1> QED BY <1>1, <1>2, <1>3, IndexMoves

LEMMA IndexIsWritten ==
  ASSUME IInv, FeedInv, IndexInv, NEW h \in Handlers, WriteDoc(h) \/ DeleteDoc(h), published' = published
  PROVE  IndexInv'
<1> DEFINE l == Todo(h)
           s == Tail(l)
<1>1. minted \in Nat
  BY DEF FeedInv, StoredOnce
<1>2. Calls(h)
  BY <1>1, CallsFacts
<1>3. Working(h) /\ IsList(l) /\ l # <<>> /\ Continues(h, s)
  BY AtWork DEF WriteDoc, DeleteDoc, IInv
<1>4. \A i \in DOMAIN s : \A f \in FeedNames : Concerns(s[i], f) => \E j \in DOMAIN l : Concerns(l[j], f)
  BY <1>3, TailFacts
<1>5. InTurn(s)
  BY <1>3, TurnOfTail DEF IndexInv, FeedsInTurn
<1> HIDE DEF s
<1>6. WorkersAreNamed' /\ OnlyMoves(h) /\ crossed' = crossed /\ Todo(h)' = s
  BY <1>3, <1>4, NamesStay DEF IndexInv
<1>7. FeedsInTurn'
  BY <1>5, <1>6 DEF IndexInv, FeedsInTurn, OnlyMoves
<1>8. ASSUME NEW f \in FeedNames, RecentOf(f) \notin crossed PROVE IndexOf(f)'
  <2>1. IndexOf(f) /\ WorkersAreNamed
    BY <1>8 DEF IndexInv, IndexIsGood
  <2> QED BY <1>2, <1>8, <2>1, CallKeepsIndex
<1>9. IndexIsGood'
  BY <1>6, <1>8 DEF IndexIsGood, RecentOf
<1> QED BY <1>6, <1>7, <1>9 DEF IndexInv

LEMMA IndexStep ==
  ASSUME IInv, AccountInv, FeedInv, IndexInv, [Next]_vars
  PROVE  IndexInv'
<1>1. minted \in Nat
  BY DEF FeedInv, StoredOnce
<1>2. ASSUME NEW h \in Handlers, published' = published,
             \/ StandsAside(h) \/ Poll(h) \/ ReadsCursor(h) \/ Fetches(h) \/ Indexes(h) \/ Rebuild(h)
             \/ SeedDemo(h) \/ StorageCall(h)
      PROVE  IndexInv'
  <2>1. CASE StorageCall(h)
    BY <1>2, <2>1, IndexIsWritten, IndexLosesKey, IndexDies DEF StorageCall
  <2> QED BY <1>2, <2>1, IndexStandsAside, IndexPolls, IndexReadsCursor, IndexIsAnswered, IndexIsMerged, IndexIsRebuilt,
             IndexIsSeeded
<1>3. ASSUME UNCHANGED storeVars PROVE IndexInv'
  <2>1. /\ \A h : Todo(h)' = Todo(h) /\ About(h)' = About(h) /\ (Working(h)' <=> Working(h))
        /\ doc' = doc /\ crossed' = crossed
    BY <1>3 DEF storeVars, Todo, About, Working
  <2>2. WorkersAreNamed' /\ FeedsInTurn'
    BY <2>1 DEF IndexInv, WorkersAreNamed, FeedsInTurn, Works
  <2>3. IndexIsGood'
    BY <2>1 DEF IndexInv, IndexIsGood, IndexOf, RecentOf
  <2> QED BY <2>2, <2>3 DEF IndexInv
<1>4. ASSUME NEW f \in FeedNames, Publishes(f) \/ WindowMoves(f) PROVE UNCHANGED storeVars
  BY <1>4 DEF Publishes, WindowMoves
<1>5. CASE UNCHANGED <<storeVars, published>>
  BY <1>3, <1>5
<1> QED BY <1>1, <1>2, <1>3, <1>4, <1>5, FeedNext

LEMMA IndexInit ==
  ASSUME Init, IInv, FeedInv PROVE IndexInv
<1>1. /\ \A h \in Handlers : Todo(h) = <<>> /\ About(h) = NoTopic
      /\ \E world \in Worlds : doc = world.doc
  BY DEF Init, StoreInit, Todo, About, Idle
<1>2. PICK world \in Worlds : doc = world.doc
  BY <1>1
<1>3. AtRest(world)
  BY PlatformAssumption
<1>4. \A key \in DOMAIN doc : key[1] \notin {"EVENT", "RECENT"}
  BY <1>2, <1>3 DEF AtRest
<1>5. WorkersAreNamed
  BY <1>1, ShortLists DEF WorkersAreNamed, Works, NoTopic
<1>6. FeedsInTurn
  BY <1>1, ShortLists DEF FeedsInTurn, InTurn
<1>7. ASSUME NEW f \in FeedNames PROVE IndexOf(f)
  <2>1. EventsIn(doc, f) = {}
    BY <1>4 DEF EventsIn
  <2>2. IndexIn(doc, f) = <<>>
    BY <1>4, PublicKeys DEF IndexIn
  <2>3. \A h \in Handlers : Stage(Todo(h), doc, f)
    BY <1>1, ShortLists DEF Stage, Rewrites
  <2> QED BY <2>1, <2>2, <2>3, NoneIsNewest DEF IndexOf
<1> QED BY <1>5, <1>6, <1>7 DEF IndexInv, IndexIsGood

(* What is ahead of the request that works on an index makes it complete. *)
THEOREM IndexInductive == Spec => []IndexInv
<1>1. Init /\ IInv /\ FeedInv => IndexInv
  BY IndexInit
<1>2. IndexInv /\ IInv /\ AccountInv /\ FeedInv /\ [Next]_vars => IndexInv'
  BY IndexStep
<1> QED BY <1>1, <1>2, Inductive, AccountsInductive, FeedInductive, PTL DEF Spec

(* The index of a feed is what a read of the whole partition would list, the newest of its events (dynamo.py, *)
(* merge_recent), unless a poll died or two writers of it overlapped: for any feeds, limits and cap of the index. *)
THEOREM IndexIsAlwaysComplete == Spec => []IndexIsComplete
<1>1. IInv /\ FeedInv /\ IndexInv => IndexIsComplete
  <2> SUFFICES ASSUME IInv, FeedInv, IndexInv, NEW f \in FeedNames, Settled(<<"recent", f>>)
               PROVE  LET events == {[id |-> id, at |-> At(id)] : id \in Stored(f)}
                          ahead(e) == {x \in events : Newer(x, e)}
                      IN /\ ToSet(Index(f)) = {e \in events : Cardinality(ahead(e)) < RecentCap}
                         /\ \A i \in DOMAIN Index(f) : Cardinality(ahead(Index(f)[i])) = i - 1
    BY DEF IndexIsComplete
  <2> DEFINE events == {[id |-> id, at |-> At(id)] : id \in Stored(f)}
  <2>1. RecentOf(f) \notin crossed /\ \A h \in Handlers : ~Works(h, RecentOf(f))
    BY DEF Settled, WorksOn, RecentOf, Works, About
  <2>2. ASSUME NEW h \in Handlers, NEW i \in DOMAIN Todo(h) PROVE ~Touches(Todo(h)[i], f)
    <3>1. Working(h)
      BY <2>2, ShortLists DEF Working, Todo
    <3>2. ~Concerns(Todo(h)[i], f)
      BY <2>1, <2>2, <3>1 DEF IndexInv, WorkersAreNamed, Works
    <3> QED BY <3>2, Untouched
  <2>3. IsNewest(IndexIn(doc, f), EventsIn(doc, f))
    BY <2>1, <2>2 DEF IndexInv, IndexIsGood, IndexOf, Quiet
  <2>4. Index(f) = IndexIn(doc, f) /\ events = EventsIn(doc, f)
    BY AllStored DEF Index, IndexIn, Held
  <2> HIDE DEF events
  <2>5. IsNewest(Index(f), events)
    BY <2>3, <2>4
  <2> QED BY <2>5 DEF IsNewest, NewerIn, events
<1> QED BY <1>1, Inductive, FeedInductive, IndexInductive, PTL
=============================================================================

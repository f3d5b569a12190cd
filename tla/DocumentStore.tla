----------------------------- MODULE DocumentStore -----------------------------
(***************************************************************************)
(* The document store that accounts, feeds and progress share              *)
(* (services/api/app/dynamo.py, and _Memory in accounts.py), and how a     *)
(* request uses it.                                                        *)
(*                                                                         *)
(* Each storage call is atomic and nothing locks the store, so that        *)
(* between two calls of one request any call of another may run.  A        *)
(* request reads what it needs, refuses or decides what to write, and then *)
(* writes document by document.  The reads it makes before its first write *)
(* are one step, each later call is a step of its own, and a refused       *)
(* request, which writes nothing, is not a step.  A request may die between*)
(* two calls: the function is stopped, or the store raises.                *)
(***************************************************************************)
EXTENDS Integers, Sequences, FiniteSets, Functions, SequencesExt, TLC

CONSTANTS
    Handlers,      \* requests served at the same time
    Worlds,        \* what the store may hold at the start, and the families of requests served from there
    MaxRequests,   \* bound: the requests of a behaviour
    MaxDeaths      \* bound: the requests that die

ASSUME DocumentStoreAssumption == MaxRequests \in Nat /\ MaxDeaths \in Nat

VARIABLES
    doc,        \* a document under each key present
    minted,     \* random ids given out so far
    handler,    \* what each request at work has still to do
    menu,       \* bound: the one family of requests served, and the feeds that list entries meanwhile
    requests,   \* requests begun
    deaths,     \* requests that died
    crossed     \* ghost: topics whose change died, or met a different change at work

storeVars == <<doc, minted, handler, menu, requests, deaths, crossed>>

None == "none"
Held(key) == key \in DOMAIN doc
Partition(name) == {key \in DOMAIN doc : key[1] = name}
Mints(n) == minted' = minted + n

With(key, value) == [k \in DOMAIN doc \cup {key} |-> IF k = key THEN value ELSE doc[k]]
Without(key) == [k \in DOMAIN doc \ {key} |-> doc[k]]

-----------------------------------------------------------------------------
(* What a request still has to do: storage calls, and reads that decide further calls. *)

Put(key, value) == [call |-> "put", key |-> key, value |-> value]
PutNew(key, value, else) == [call |-> "new", key |-> key, value |-> value, else |-> else]
Delete(key) == [call |-> "delete", key |-> key]
Later(step, of) == [call |-> step, of |-> of]
DeleteAll(keys) == SetToSeq({Delete(key) : key \in keys})

(* What a request changes: a topic, and what it makes of it. *)
Of(subject, name, change) == [topic \in {<<subject, name>>} |-> change]
And(about, more) ==
    [topic \in DOMAIN about \cup DOMAIN more |->
        IF topic \in DOMAIN about THEN about[topic] ELSE more[topic]]
NoTopic == [topic \in {} |-> None]

Idle == [op |-> None, about |-> NoTopic, todo |-> <<>>]
Working(h) == handler[h].todo # <<>>
Task(h) == Head(handler[h].todo)
Next1(h) == Tail(handler[h].todo)

Makes(topic, change) ==
    \E h \in Handlers : /\ Working(h) /\ topic \in DOMAIN handler[h].about
                        /\ handler[h].about[topic] = change
WorksOn(topic) == \E h \in Handlers : Working(h) /\ topic \in DOMAIN handler[h].about
Settled(topic) == ~WorksOn(topic) /\ topic \notin crossed

Meets(about) ==
    {topic \in DOMAIN about :
        \E h \in Handlers : /\ Working(h) /\ topic \in DOMAIN handler[h].about
                            /\ handler[h].about[topic] # about[topic]}

(* A request of the menu begins: it will change what `about` names, by the calls of `todo`. *)
Starts(h, op, about, todo) ==
    /\ op \in menu
    /\ ~Working(h)
    /\ requests < MaxRequests
    /\ requests' = requests + 1
    /\ handler' = [handler EXCEPT ![h] = [op |-> op, about |-> about, todo |-> todo]]
    /\ crossed' = crossed \cup Meets(about)
    /\ UNCHANGED <<doc, menu, deaths>>

Continues(h, todo) ==
    /\ handler' = [handler EXCEPT ![h] = IF todo = <<>> THEN Idle ELSE [@ EXCEPT !.todo = todo]]
    /\ UNCHANGED <<menu, requests, deaths, crossed>>

-----------------------------------------------------------------------------
(* The next storage call of a request at work. *)

WriteDoc(h) ==
    /\ Working(h) /\ Task(h).call \in {"put", "new"}
    /\ Task(h).call = "new" => ~Held(Task(h).key)
    /\ doc' = With(Task(h).key, Task(h).value)
    /\ Continues(h, Next1(h))
    /\ Mints(0)

(* put_doc(only_if_new) finds the key taken: the request takes back what it wrote, and is refused. *)
LosesKey(h) ==
    /\ Working(h) /\ Task(h).call = "new" /\ Held(Task(h).key)
    /\ Continues(h, <<Delete(Task(h).else)>>)
    /\ Mints(0)
    /\ UNCHANGED doc

DeleteDoc(h) ==
    /\ Working(h) /\ Task(h).call = "delete"
    /\ doc' = Without(Task(h).key)
    /\ Continues(h, Next1(h))
    /\ Mints(0)

(* A request dies before its next call; what it has written stays. *)
Dies(h) ==
    /\ Working(h)
    /\ deaths < MaxDeaths
    /\ deaths' = deaths + 1
    /\ handler' = [handler EXCEPT ![h] = Idle]
    /\ crossed' = crossed \cup DOMAIN handler[h].about
    /\ UNCHANGED <<doc, minted, menu, requests>>

StorageCall(h) == WriteDoc(h) \/ LosesKey(h) \/ DeleteDoc(h) \/ Dies(h)

StoreInit ==
    /\ handler = [h \in Handlers |-> Idle]
    /\ \E world \in Worlds : doc = world.doc /\ minted = world.minted /\ menu \in world.menus
    /\ requests = 0 /\ deaths = 0 /\ crossed = {}
=============================================================================

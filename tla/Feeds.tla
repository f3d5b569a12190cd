--------------------------------- MODULE Feeds ---------------------------------
(***************************************************************************)
(* The threat feeds: what publishers list, the scheduled poll that stores  *)
(* what is new (services/api/app/feeds), and the index of recent events    *)
(* the durable store keeps with it (services/api/app/dynamo.py).           *)
(*                                                                         *)
(* The scheduler invokes the function at least once and again after an     *)
(* error, so that polls may overlap or die part of the way.                *)
(***************************************************************************)
EXTENDS DocumentStore

CONSTANTS
    FeedOrder,     \* FEEDS, in the order they are polled
    OldestFirst,   \* the feeds that answer oldest first (fetch_nvd); the others answer newest first
    Limit,         \* entries of one poll of one feed
    FirstLimit,    \* FIRST_RUN_LIMIT
    RecentCap,     \* RECENT_CAP
    MaxEntries     \* bound: the entries a publisher lists, and their stamps

FeedNames == {FeedOrder[i] : i \in DOMAIN FeedOrder}

ASSUME FeedsAssumption ==
    /\ FeedOrder \in Seq(FeedNames)
    /\ OldestFirst \subseteq FeedNames
    /\ Limit \in Nat \ {0} /\ FirstLimit \in Nat \ {0} /\ RecentCap \in Nat \ {0}
    /\ MaxEntries \in [FeedNames -> Nat]

VARIABLE published    \* of each feed: the stamps of its entries, in the order they were listed, and where
                      \* the window starts that a poll without a cursor asks an oldest-first feed for

Event(id) == <<"EVENT", id>>
Cursor(f) == <<"FEED", f>>
Sync(f) == <<"SYNC", f>>
Recent(f) == <<"RECENT", f>>

Since(f) == IF Held(Cursor(f)) THEN doc[Cursor(f)] ELSE 0
Index(f) == IF Held(Recent(f)) THEN doc[Recent(f)] ELSE <<>>
Stored(f) == {key[2] : key \in {k \in Partition("EVENT") : doc[k].feed = f}}
At(id) == doc[Event(id)].at

Stamps(f) == published[f].stamps

(* A publisher lists one more entry, stamped as it pleases: alike with another, or earlier than those it listed. *)
Publishes(f) ==
    /\ f \in menu
    /\ Len(Stamps(f)) < MaxEntries[f]
    /\ \E at \in 1..MaxEntries[f] :
         published' = [published EXCEPT ![f] =
                         [stamps |-> Append(Stamps(f), at), window |-> published[f].window]]
    /\ UNCHANGED storeVars

(* NVD_FIRST_WINDOW_HOURS before now: the clock moves it on while a poll may still ask for it. *)
AsksForFirst(h, f) == Working(h) /\ Task(h).call = "fetch" /\ Task(h).of = [feed |-> f, since |-> 0]
WindowMoves(f) ==
    /\ f \in OldestFirst /\ f \in menu
    /\ ~Held(Cursor(f)) \/ \E h \in Handlers : AsksForFirst(h, f)
    /\ published[f].window < MaxEntries[f]
    /\ published' = [published EXCEPT ![f] =
                        [stamps |-> Stamps(f), window |-> published[f].window + 1]]
    /\ UNCHANGED storeVars

-----------------------------------------------------------------------------
(* One poll of one feed *)

Fresh(f, since) ==
    {n \in DOMAIN Stamps(f) : IF f \in OldestFirst /\ since = 0 THEN Stamps(f)[n] >= published[f].window
                              ELSE Stamps(f)[n] > since}
LimitAfter(since) == IF since = 0 THEN FirstLimit ELSE Limit
Precedes(f, n, k) == IF f \in OldestFirst THEN Stamps(f)[n] < Stamps(f)[k] ELSE Stamps(f)[n] > Stamps(f)[k]

(* What fetch_kev and its like, or fetch_nvd, may answer: fresh entries in their order, up to the limit.  Which *)
(* of entries with one stamp come first, and which of them the limit cuts, is the publisher's choice. *)
Answers(f, since) ==
    LET fresh == Fresh(f, since)
        size == IF Cardinality(fresh) < LimitAfter(since) THEN Cardinality(fresh) ELSE LimitAfter(since)
    IN {e \in [1..size -> fresh] :
          /\ IsInjective(e)
          /\ \A i, j \in 1..size : i < j => ~Precedes(f, e[j], e[i])
          /\ \A n \in fresh : (\E i \in 1..size : Precedes(f, n, e[i])) => \E i \in 1..size : e[i] = n}

(* The first `limit` of a set, in the order `ahead`. *)
First(set, limit, ahead(_, _)) ==
    [i \in 1..(IF Cardinality(set) < limit THEN Cardinality(set) ELSE limit) |->
        CHOOSE x \in set : Cardinality({y \in set : ahead(y, x)}) = i - 1]

(* What merge_recent keeps: the newest of what was indexed and what arrived, by stamp and then id. *)
Newer(a, b) == a.at > b.at \/ (a.at = b.at /\ a.id > b.id)
(* Slip: an index that lists nothing yet is left to the reader that rebuilds it. *)
MergeExisting(entries, fresh) ==
    IF entries = <<>> THEN <<>> ELSE First(ToSet(entries) \cup fresh, RecentCap, Newer)
MergeRecent(entries, fresh) == First(ToSet(entries) \cup fresh, RecentCap, Newer)

NewestStamp(f, entries) == CHOOSE at \in {Stamps(f)[entries[i]] : i \in DOMAIN entries} :
                             \A i \in DOMAIN entries : Stamps(f)[entries[i]] <= at

(* save_events and set_feed_cursor: the events, the index, and only then the cursor. *)
Saves(f, entries) ==
    [i \in DOMAIN entries |->
        Put(Event(minted + i), [feed |-> f, n |-> entries[i], at |-> Stamps(f)[entries[i]]])]
    \o <<Later("index", [feed |-> f,
                         fresh |-> {[id |-> minted + i, at |-> Stamps(f)[entries[i]]]
                                       : i \in DOMAIN entries}])>>
Moves(f, entries) == <<Put(Cursor(f), NewestStamp(f, entries))>>

(* Slip: the cursor is advanced before the write. *)
MovesFirst(f, entries) == Moves(f, entries) \o Saves(f, entries)
SavesThenMoves(f, entries) == Saves(f, entries) \o Moves(f, entries)

-----------------------------------------------------------------------------
(* ingest.run: each feed in turn. *)
Poll(h) ==
    /\ Starts(h, "poll", [topic \in {<<"recent", f>> : f \in FeedNames} |-> h],
              [i \in DOMAIN FeedOrder |-> Later("since", FeedOrder[i])])
    /\ Mints(0)
    /\ UNCHANGED published

ReadsCursor(h) ==
    /\ Working(h) /\ Task(h).call = "since"
    /\ Continues(h, <<Later("fetch", [feed |-> Task(h).of, since |-> Since(Task(h).of)])>> \o Next1(h))
    /\ Mints(0)
    /\ UNCHANGED <<doc, published>>

Fetches(h) ==
    /\ Working(h) /\ Task(h).call = "fetch"
    /\ LET f == Task(h).of.feed
       IN \E entries \in Answers(f, Task(h).of.since) :
          /\ Continues(h, <<Put(Sync(f), "ok")>>
                          \o (IF entries = <<>> THEN <<>> ELSE SavesThenMoves(f, entries)) \o Next1(h))
          /\ Mints(Len(entries))
    /\ UNCHANGED <<doc, published>>

(* FeedUnavailable: recorded, and the next feed's turn. *)
Unavailable(h) ==
    /\ Working(h) /\ Task(h).call = "fetch"
    /\ Continues(h, <<Put(Sync(Task(h).of.feed), "failed")>> \o Next1(h))
    /\ Mints(0)
    /\ UNCHANGED <<doc, published>>

(* _record_sync is best effort: its failure is no failure of the poll. *)
SyncIsLost(h) ==
    /\ Working(h) /\ Task(h).call = "put" /\ Task(h).key[1] = "SYNC"
    /\ Continues(h, Next1(h))
    /\ Mints(0)
    /\ UNCHANGED <<doc, published>>

Indexes(h) ==
    /\ Working(h) /\ Task(h).call = "index"
    /\ LET f == Task(h).of.feed
       IN Continues(h, <<Put(Recent(f), MergeRecent(Index(f), Task(h).of.fresh))>> \o Next1(h))
    /\ Mints(0)
    /\ UNCHANGED <<doc, published>>

(* recent_events, of one source or of all, finds none of them indexed: the index of every source is rebuilt *)
(* from one read of the events.  A source that has no events yet is never indexed. *)
Unindexed(f) == Index(f) = <<>>
Rebuild(h) ==
    LET stored == {f \in FeedNames : Stored(f) # {}}
    IN /\ stored # {} /\ \E f \in FeedNames : Unindexed(f)
       /\ Starts(h, "rebuild", [topic \in {<<"recent", f>> : f \in stored} |-> h],
                 SetToSeq({Put(Recent(f), MergeRecent(<<>>, {[id |-> id, at |-> At(id)] : id \in Stored(f)}))
                             : f \in stored}))
       /\ Mints(0)
       /\ UNCHANGED published

FeedStep(h) ==
    \/ Poll(h)
    \/ ReadsCursor(h)
    \/ Fetches(h)
    \/ Unavailable(h)
    \/ SyncIsLost(h)
    \/ Indexes(h)
    \/ Rebuild(h)

FeedInit == published = [f \in FeedNames |-> [stamps |-> <<>>, window |-> 1]]

-----------------------------------------------------------------------------
(* Properties *)

(* The cursor follows what was stored (feeds/ingest.py:7 and :88): it names a stored entry, and of a feed that *)
(* answers oldest first every entry up to it is stored, whatever poll failed, died, overlapped or was repeated, *)
(* but for those older than the first window, and those that share the stamp of a stored entry or that the *)
(* publisher listed with an older one than it had before. *)
CursorFollowsTheWrite ==
    \A f \in FeedNames : Held(Cursor(f)) =>
        LET stored == {doc[Event(id)].n : id \in Stored(f)}
        IN /\ \E n \in stored : Stamps(f)[n] = doc[Cursor(f)]
           /\ f \in OldestFirst =>
                \A n \in (DOMAIN Stamps(f)) \ stored : Stamps(f)[n] <= doc[Cursor(f)] =>
                  \/ Stamps(f)[n] < published[f].window
                  \/ \E k \in stored : Stamps(f)[k] = Stamps(f)[n] \/ (k < n /\ Stamps(f)[k] > Stamps(f)[n])

(* "If it ever fell behind the page would show that as a growing gap between `published` and now rather than *)
(* skip silently" (sources.py:208, of fetch_nvd): what the first window reaches, and was listed before anything as *)
(* new, is stored when the cursor stands at it or after it. *)
NothingIsSkipped ==
    \A f \in OldestFirst : Held(Cursor(f)) =>
        \A n \in DOMAIN Stamps(f) :
            /\ published[f].window <= Stamps(f)[n] /\ Stamps(f)[n] <= doc[Cursor(f)]
            /\ \A k \in 1..n - 1 : Stamps(f)[k] < Stamps(f)[n]
            => \E id \in Stored(f) : doc[Event(id)].n = n

(* The index of a feed is what a read of the whole partition would list, the newest of its events *)
(* (dynamo.py, merge_recent), unless a poll died or two writers of it overlapped. *)
IndexIsComplete ==
    \A f \in FeedNames : Settled(<<"recent", f>>) =>
        LET events == {[id |-> id, at |-> At(id)] : id \in Stored(f)}
            ahead(e) == {x \in events : Newer(x, e)}
        IN ToSet(Index(f)) = {e \in events : Cardinality(ahead(e)) < RecentCap}
           /\ \A i \in DOMAIN Index(f) : Cardinality(ahead(Index(f)[i])) = i - 1
=============================================================================

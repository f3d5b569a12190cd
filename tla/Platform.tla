------------------------------- MODULE Platform -------------------------------
(***************************************************************************)
(* The requests and scheduled tasks of one deployment on its one store:    *)
(* accounts and companies, the feeds, the training game, and the seeding   *)
(* of its scripted scenarios.                                              *)
(***************************************************************************)
EXTENDS Accounts, Feeds, Progress, Seeding

(* The store at the start is one that finished requests have left: both documents of a membership are there *)
(* and agree, a company's code lets people in, an account's address signs in to it, the records have the fields *)
(* their readers take, and the ids they name were given out. *)
(* Nothing has been polled or seeded yet. *)
AtRest(world) ==
    LET held == DOMAIN world.doc
    IN /\ world.minted \in Nat /\ IsFiniteSet(held) /\ world.doc = [key \in held |-> world.doc[key]]
       /\ \A key \in held :
            /\ key[1] \notin {"EVENT", "FEED", "RECENT", "NODE", "EDGE", "INCIDENT", "AUDIT", "META"}
            /\ key[1] = "MEMBER" =>
                 MemberOf(key[2]) \in held /\ world.doc[MemberOf(key[2])] = world.doc[key]
            /\ key[1] = "MEMBEROF" =>
                 Member(key[2]) \in held /\ world.doc[Member(key[2])] = world.doc[key]
            /\ key[1] = "TRAINING" => world.doc[key] \in [passed : BOOLEAN, verifiedPassed : BOOLEAN]
            /\ key[1] = "USER" =>
                 LET account == world.doc[key]
                 IN /\ key = User(key[2]) /\ key[2] \in 1..world.minted
                    /\ account \in [whole : BOOLEAN, provider : {None, "guest", "google", "email"},
                                    email : Emails \cup {None}, password : Passwords \cup {None},
                                    version : Nat, verified : BOOLEAN]
                    /\ account.whole /\ account.provider = "email" =>
                         Login(account.email) \in held /\ world.doc[Login(account.email)] = key[2]
            /\ key[1] = "LOGIN" => key = Login(key[2])
            /\ key[1] \in {"LOGIN", "RESET"} => world.doc[key] \in 1..world.minted
            /\ key[1] = "VERIFY" => world.doc[key].user \in 1..world.minted
            /\ key[1] = "LOCK" => world.doc[key] \in 1..LockAfter
            /\ key[1] \in {"MEMBER", "MEMBEROF"} => world.doc[key] \in {"owner", "admin", "employee"}
       /\ Org \in held =>
            LET company == world.doc[Org]
            IN /\ company = [owner |-> company.owner, invite |-> company.invite, intake |-> company.intake]
               /\ company.owner \in 1..world.minted /\ company.invite \in 1..world.minted
               /\ Invite(company.invite) \in held
       /\ Player \in held => world.doc[Player] \in [attempts : Nat, streak : Nat, bestStreak : Nat,
                                                    cleared : SUBSET Scenarios, best : [Scenarios -> Nat]]

ASSUME PlatformAssumption ==
    /\ \A world \in Worlds : AtRest(world)
    /\ "scenario" \notin FeedNames      \* the scripted events have a source of their own

vars == <<storeVars, accountVars, published>>

Init ==
    /\ StoreInit
    /\ AccountInit
    /\ FeedInit

Next ==
    \/ \E f \in FeedNames : (Publishes(f) \/ WindowMoves(f)) /\ UNCHANGED accountVars
    \/ \E h \in Handlers :
        \/ AccountStep(h) /\ UNCHANGED published
        \/ FeedStep(h) /\ UNCHANGED accountVars
        \/ \E scenario \in Scenarios, total \in Scores :
             Attempt(h, scenario, total) /\ UNCHANGED <<accountVars, published>>
        \/ SeedDemo(h) /\ UNCHANGED <<accountVars, published>>
        \/ StorageCall(h) /\ UNCHANGED <<accountVars, published>>

Spec == Init /\ [][Next]_vars

-----------------------------------------------------------------------------
(* "Passing is never undone" (accounts.py:408) and a player's best score never falls (progress.py:79), for *)
(* as long as the account is not deleted, unless two results of one record were folded at once. *)
ProgressIsKept ==
    [][/\ \A u \in Accounts \ leaving :
            <<"training", u>> \notin crossed' /\ Record(u).passed
                => Training(u) \in DOMAIN doc' /\ doc'[Training(u)].passed
       /\ \A s \in Scenarios :
            <<"player", "token">> \notin crossed' /\ Held(Player)
                => /\ Player \in DOMAIN doc' /\ doc'[Player].best[s] >= doc[Player].best[s]
                   /\ doc[Player].cleared \subseteq doc'[Player].cleared]_vars
=============================================================================

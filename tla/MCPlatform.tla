------------------------------ MODULE MCPlatform ------------------------------
(* A deployment nobody has signed up to, and one with a company of two: an owner and an employee who *)
(* signed up by email. *)
EXTENDS Platform

NewDeployment ==
    [minted |-> 0, doc |-> <<>>,
     menus |-> {{"register", "google", "guest", "create", "join", "delete"},
                {"attempt"},
                {"seed"},
                {"poll", "rebuild", "kev"},
                {"poll", "rebuild", "nvd"}}]

Staffed ==
    [minted |-> 3,
     doc |-> User(1) :> NewAccount("email", "e1", "p") @@ Login("e1") :> 1
          @@ User(2) :> NewAccount("email", "e2", "p") @@ Login("e2") :> 2
          @@ Org :> [owner |-> 1, invite |-> 3, intake |-> None] @@ Invite(3) :> Company
          @@ Member(1) :> "owner" @@ MemberOf(1) :> "owner"
          @@ Member(2) :> "employee" @@ MemberOf(2) :> "employee",
     menus |-> {{"register", "delete", "rename", "verification", "confirm"},
                {"request reset", "admin reset", "reset", "change password", "sign out", "login"},
                {"rotate", "settings", "intake key", "revoke key", "ingest", "join", "remove"},
                {"set role", "remove", "join", "delete", "training"},
                {"add policy", "remove policy", "acknowledge", "remove"}}]

BothWorlds == {NewDeployment, Staffed}

AlongADeletion == {[Staffed EXCEPT !.menus = {{"request reset", "delete", "reset"}}]}

PolledFeeds == {[NewDeployment EXCEPT !.menus = {{"poll", "rebuild", "nvd"}}]}

TwoFeeds == <<"kev", "nvd">>
OneFeed == <<"nvd">>

ThreeEntries == [f \in {"nvd"} |-> 3]
TwoEntries == [f \in {"kev", "nvd"} |-> 2]

TwoScripts == {-1, -2}

Symmetry == Permutations(Handlers)
=============================================================================

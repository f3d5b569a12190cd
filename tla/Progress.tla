------------------------------- MODULE Progress -------------------------------
(* What a player of the training game has done (services/api/app/progress.py): an attempt is marked, and *)
(* folded into the record that was read before it. *)
EXTENDS DocumentStore

CONSTANTS
    Scenarios,     \* the drills
    Scores,        \* what an attempt may be marked
    KeepsStreak,   \* KEEPS_STREAK
    Clean          \* CLEAN

ASSUME ProgressAssumption == Scores \subseteq Nat /\ KeepsStreak \in Nat /\ Clean \in Nat

Player == <<"PLAYER", "token">>

Empty == [attempts |-> 0, streak |-> 0, bestStreak |-> 0, cleared |-> {}, best |-> [s \in Scenarios |-> 0]]
Played == IF Held(Player) THEN doc[Player] ELSE Empty

AtLeast(a, b) == IF a < b THEN b ELSE a

(* Slip: the last score of a scenario takes the place of its best. *)
FoldedLast(state, scenario, total) == [state EXCEPT !.attempts = @ + 1, !.best[scenario] = total]

(* record *)
Folded(state, scenario, total) ==
    LET streak == IF total >= KeepsStreak THEN state.streak + 1 ELSE 0
    IN [attempts |-> state.attempts + 1,
        streak |-> streak,
        bestStreak |-> AtLeast(state.bestStreak, streak),
        cleared |-> state.cleared \cup (IF total >= Clean THEN {scenario} ELSE {}),
        best |-> [state.best EXCEPT ![scenario] = AtLeast(@, total)]]

(* Progress.add *)
Attempt(h, scenario, total) ==
    /\ Starts(h, "attempt", Of("player", "token", h), <<Put(Player, Folded(Played, scenario, total))>>)
    /\ Mints(0)
=============================================================================

----------------------------- MODULE MCGateway ------------------------------
(***************************************************************************)
(* Instances of Gateway for TLC: the default choice is a provider with     *)
(* tools, the other one without.                                           *)
(***************************************************************************)
EXTENDS Gateway, TLC

CONSTANTS c1, c2

Singles == [default |-> <<"groq">>, sati |-> <<"sati">>]

Chat(choice) == [kind |-> "chat", choice |-> choice, incident |-> "i", question |-> "q"]
Reason == [kind |-> "complete", choice |-> "default", incident |-> "i"]

TwoCallers == c1 :> {Chat("default")} @@ c2 :> {Chat("sati"), Reason}

Says(refs, proposes) ==
  [refs |-> refs, answerable |-> TRUE, proposes |-> proposes, text |-> TRUE]
Msg(says, calls, tokens) == [says |-> says, calls |-> calls, tokens |-> tokens]

\* A look-up, cheap or dear; prose; an answer that cites the context, a tool
\* and what there is not; one that proposes.
Replies ==
  {Msg(Prose, TRUE, 1), Msg(Prose, TRUE, 2), Msg(Prose, FALSE, 1),
   Msg(Says({"e1", "t", "x"}, FALSE), FALSE, 1), Msg(Says({"e1"}, TRUE), FALSE, 1)}
=============================================================================

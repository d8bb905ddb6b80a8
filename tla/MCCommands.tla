----------------------------- MODULE MCCommands -----------------------------
(***************************************************************************)
(* What people do from Discord, in one run: Silencing, and Answering of    *)
(* one alert.  The two share nothing, so that a behaviour is one of one of *)
(* them and the other stays as it began.                                   *)
(***************************************************************************)
EXTENDS Silencing, Answering

CONSTANTS p1, p2

VARIABLE part

TwoPeers == <<p1, p2>>

ASSUME AnsweringAssumption

CommandsInit == part \in {"silencing", "answering"} /\ Init /\ AnsweringInit

CommandsNext ==
  /\ UNCHANGED part
  /\ \/ part = "silencing" /\ Next          /\ UNCHANGED answering
     \/ part = "answering" /\ AnsweringNext /\ UNCHANGED vars

CommandsSpec == CommandsInit /\ [][CommandsNext]_<<part, vars, answering>> /\ Fairness
=============================================================================

---------------------------- MODULE MCPeriphery ----------------------------
(***************************************************************************)
(* Three machines that share nothing, checked in one run: what the bot     *)
(* says of itself (AdminChannel), the process around the webhook           *)
(* (Listener), and the keys of cards (Storm).  A behaviour is one of one   *)
(* of them, and the others stay as they began.                             *)
(***************************************************************************)
EXTENDS AdminChannel, Listener, Storm

VARIABLE part

(* A text route with one card per alert, a forum route with one card per   *)
(* identity, and one with one card per group.                              *)
ThreeShapes ==
  { [ strategy |-> "per_alert", forum |-> FALSE, merged |-> FALSE ],
    [ strategy |-> "per_alert", forum |-> TRUE,  merged |-> TRUE  ],
    [ strategy |-> "per_group", forum |-> FALSE, merged |-> FALSE ] }

ASSUME ListenerAssumption

PeripheryInit ==
  /\ part \in {"admin", "listener", "storm"}
  /\ Init /\ ListenerInit /\ StormInit
  /\ part # "storm" => route = [ strategy |-> "per_alert", forum |-> FALSE ] /\ ~merged

PeripheryNext ==
  /\ UNCHANGED part
  /\ \/ part = "admin"    /\ Next         /\ UNCHANGED <<listener, storm>>
     \/ part = "listener" /\ ListenerNext /\ UNCHANGED <<vars, storm>>
     \/ part = "storm"    /\ StormNext    /\ UNCHANGED <<vars, listener>>

PeripherySpec ==
  /\ PeripheryInit /\ [][PeripheryNext]_<<part, vars, listener, storm>>
  /\ Fairness

(* The type invariants of the three.                                       *)
PeripheryTypeOK == TypeOK /\ ListenerTypeOK /\ StormTypeOK
=============================================================================

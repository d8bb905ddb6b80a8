------------------------------ MODULE MCRaces ------------------------------
(***************************************************************************)
(* Processes that meet on one card, in one run: the tasks that decide on   *)
(* one alert (Cards), and the sweeps of several processes that look for    *)
(* cards nobody answered (Escalation).  The two share nothing, so that a   *)
(* behaviour is one of one of them and the other stays as it began.        *)
(***************************************************************************)
EXTENDS Cards, Escalation

VARIABLE part

OneAlert == {"f1"}
Exact    == [ f \in Fps |-> f ]

BudgetRace ==
  [ s \in Sources |-> CASE s = "deliveries"         -> 4
                        [] s \in {"faults", "losses"} -> 1
                        [] OTHER                    -> 0 ]

(* The oldest card's route never escalates, and the batch holds one card.  *)
RouteOfEach == [ c \in CardIds |-> CASE c = 1 -> "silent" [] c = 2 -> "slow" [] c = 3 -> "quick" ]
Deadlines   == [ r \in {"silent", "slow", "quick"} |->
                 CASE r = "silent" -> Never [] r = "slow" -> 2 [] r = "quick" -> 1 ]

ASSUME CardsAssumption /\ EscalationAssumption

RacesInit == part \in {"tasks", "sweeps"} /\ Init /\ EscalationInit

RacesNext ==
  /\ UNCHANGED part
  /\ \/ part = "tasks"  /\ Next           /\ UNCHANGED escalation
     \/ part = "sweeps" /\ EscalationNext /\ UNCHANGED vars

RacesSpec ==
  /\ RacesInit /\ [][RacesNext]_<<part, vars, escalation>>
  /\ part = "sweeps" => EscalationFairness
=============================================================================

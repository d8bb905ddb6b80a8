------------------------------ MODULE MCCards ------------------------------
(* Instances of Cards for TLC.                                             *)
EXTENDS Cards

TwoAlerts == {"f1", "f2"}
Merged    == [ f \in Fps |-> "identity" ]

BudgetOne ==
  [ s \in Sources |-> CASE s = "deliveries" -> 3
                        [] s = "clicks"     -> 2
                        [] OTHER            -> 1 ]
=============================================================================

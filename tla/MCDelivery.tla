----------------------------- MODULE MCDelivery -----------------------------
(* Instances of Delivery for TLC.                                          *)
EXTENDS Delivery

AnyText == Nat

(* Two deliveries, and once whatever else there is.                        *)
BudgetAll == [ s \in Sources |-> IF s = "deliveries" THEN 2 ELSE 1 ]

TextRoute   == [ forum |-> FALSE, archiveOnResolve |-> FALSE, lockOnResolve |-> FALSE,
                 bump |-> FALSE, pins |-> FALSE, labelTag |-> FALSE ]
SealedRoute == [ forum |-> TRUE, archiveOnResolve |-> TRUE, lockOnResolve |-> TRUE,
                 bump |-> TRUE, pins |-> FALSE, labelTag |-> TRUE ]
OpenRoute   == [ forum |-> TRUE, archiveOnResolve |-> FALSE, lockOnResolve |-> FALSE,
                 bump |-> FALSE, pins |-> TRUE, labelTag |-> FALSE ]

AllRoutes    == {TextRoute, SealedRoute, OpenRoute}

(* One thing at a time changes of an alert, unless it fires again.         *)
OneChange ==
  \/ alert' = alert
  \/ alert.status = "resolved"
  \/ Cardinality({ f \in DOMAIN alert : alert[f] # alert'[f] }) = 1
=============================================================================

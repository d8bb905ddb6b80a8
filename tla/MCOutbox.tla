------------------------------ MODULE MCOutbox ------------------------------
(* Instances of Outbox for TLC.  A worker is <<process, index>>.           *)
EXTENDS Outbox

(* One process with two dispatchers, as `engine.dispatchers = 2'.          *)
OneProcess == {"p1"}
TwoLanes   == {<<"p1", 0>>, <<"p1", 1>>}

(* Two replicas with one dispatcher each: the lane assignment is None.     *)
TwoReplicas == {"p1", "p2"}
OneEach     == {<<"p1", 0>>, <<"p2", 0>>}

ProcessOf   == [ w \in Workers |-> w[1] ]
LaneIndexOf == [ w \in Workers |-> w[2] ]

(* A worker's name is its process id and index; replicas share a host.     *)
NameOnHost  == [ w \in Workers |-> w ]

TwoCards    == {"c1", "c2"}
OneCard     == {"c1"}
CardLanes   == [ c \in Cards \cup {NoCard} |-> IF c = "c2" THEN 1 ELSE 0 ]
=============================================================================

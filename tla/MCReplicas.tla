---------------------------- MODULE MCReplicas ----------------------------
(***************************************************************************)
(* Two replicas on PostgreSQL that share one queue.  Once there is a       *)
(* second effect to fold, the second replica is one that has been down all *)
(* along.                                                                  *)
(***************************************************************************)
EXTENDS MCOutbox

Second == <<"p2", 0>>

Edits     == { r \in Requests : about[r] \in [kind : AskKinds, card : Cards] }
AskedOnce == Cardinality(Edits) <= 1
Untouched == \A i \in DOMAIN rows : rows[i].claimedBy # Name[Second]

FoldedOrShared == AskedOnce \/ Untouched

(* Nothing is asked of a replica that is down.                             *)
ReplicasSpec ==
  /\ Spec
  /\ \A w \in Workers : WF_vars((w = Second => AskedOnce) /\ WorkerStep(w))
  /\ WF_vars(Reclaim)
  /\ WF_vars(Tick)
=============================================================================

---------------------------- MODULE OutboxQueue ----------------------------
(***************************************************************************)
(* The outbox table and the statements the two backends run against it    *)
(* (store-sqlite and store-postgres, src/store/outbox.rs).                 *)
(*                                                                         *)
(* A queue q is a function from row ids to rows.  Instants are kept        *)
(* relative to the present one: notBefore is how far in the future a row   *)
(* becomes claimable, claimedAt how far in the past it was claimed (so     *)
(* never positive), and the clock moves by ageing every row.  Claims older *)
(* than Horizon ticks, and rows overdue for more than Overdue ticks, are   *)
(* told apart no more.                                                     *)
(***************************************************************************)
EXTENDS Integers, FiniteSets

CONSTANTS
  Nobody,     (* The NULL of claimed_by.                                   *)
  NoCard,     (* The NULL of notification_id: silences, admin notices.     *)
  Horizon,    (* How many clock ticks in the past a claim is kept apart.   *)
  Overdue     (* The same for a not_before.                                *)

ASSUME HorizonAssumption == Horizon \in Nat /\ Overdue \in Nat

(***************************************************************************)
(* Effect::is_coalescable.                                                 *)
(***************************************************************************)
Coalescable == {"edit_card", "resync_card", "set_tags"}

Earlier(s, t) == IF s <= t THEN s ELSE t
Later(s, t)   == IF s >= t THEN s ELSE t

Pending(q, i) == q[i].claimedBy = Nobody

-----------------------------------------------------------------------------
(***************************************************************************)
(* enqueue: an entry [kind, card, lane, payload, notBefore] is folded into *)
(* every unclaimed row of its kind for its card, or inserted as a new row. *)
(***************************************************************************)
(* Mutants of Foldable: the card is not compared; a row somebody has       *)
(* claimed is folded into as well.                                         *)
FoldableAnyCard(q, e) ==
  { i \in DOMAIN q : /\ e.kind \in Coalescable
                     /\ e.card # NoCard
                     /\ Pending(q, i)
                     /\ q[i].kind = e.kind }

FoldableClaimed(q, e) ==
  { i \in DOMAIN q : /\ e.kind \in Coalescable
                     /\ e.card # NoCard
                     /\ q[i].kind = e.kind
                     /\ q[i].card = e.card }

Foldable(q, e) ==
  { i \in DOMAIN q : /\ e.kind \in Coalescable
                     /\ e.card # NoCard
                     /\ Pending(q, i)
                     /\ q[i].kind = e.kind
                     /\ q[i].card = e.card }

Folded(row, e) ==
  [ row EXCEPT !.payload = e.payload, !.notBefore = Earlier(@, e.notBefore) ]

Fold(q, e) ==
  [ i \in DOMAIN q |-> IF i \in Foldable(q, e) THEN Folded(q[i], e) ELSE q[i] ]

NewRow(e) ==
  [ kind |-> e.kind, card |-> e.card, lane |-> e.lane, payload |-> e.payload,
    notBefore |-> e.notBefore, attempts |-> 0,
    claimedBy |-> Nobody, claimedAt |-> 0 ]

Insert(q, id, e) ==
  [ i \in DOMAIN q \cup {id} |-> IF i = id THEN NewRow(e) ELSE q[i] ]

Enqueue(q, id, e) ==
  IF Foldable(q, e) # {} THEN Fold(q, e) ELSE Insert(q, id, e)

-----------------------------------------------------------------------------
(***************************************************************************)
(* claim_outbox: the first `limit` due rows of the worker's lanes, in the  *)
(* order (not_before, id).  A worker without a lane assignment is one of   *)
(* `of' = 1 workers.                                                       *)
(***************************************************************************)
(* A mutant: the lanes are not looked at.                                  *)
ClaimableAnyLane(q, index, of) ==
  { i \in DOMAIN q : Pending(q, i) /\ q[i].notBefore <= 0 }

Claimable(q, index, of) ==
  { i \in DOMAIN q : /\ Pending(q, i)
                     /\ q[i].notBefore <= 0
                     /\ q[i].lane % of = index }

Before(q, i, j) ==
  \/ q[i].notBefore < q[j].notBefore
  \/ q[i].notBefore = q[j].notBefore /\ i < j

Batch(q, index, of, limit) ==
  { i \in Claimable(q, index, of) :
      Cardinality({ j \in Claimable(q, index, of) : Before(q, j, i) }) < limit }

Claimed(row, worker) ==
  [ row EXCEPT !.claimedBy = worker, !.claimedAt = 0, !.attempts = @ + 1 ]

Claim(q, batch, worker) ==
  [ i \in DOMAIN q |-> IF i \in batch THEN Claimed(q[i], worker) ELSE q[i] ]

(* A mutant: it is enough that the row is there.                           *)
HoldsNoClaim(q, id, worker) == id \in DOMAIN q

(* take_claim: the row is there, and it is this worker's.                  *)
HoldsClaim(q, id, worker) == id \in DOMAIN q /\ q[id].claimedBy = worker

(* complete_outbox, and fail_outbox without a retry: DELETE ... WHERE id.  *)
Remove(q, id) == [ i \in DOMAIN q \ {id} |-> q[i] ]

Unclaimed(row, notBefore) ==
  [ row EXCEPT !.claimedBy = Nobody, !.claimedAt = 0, !.notBefore = notBefore ]

(* fail_outbox with a retry: UPDATE ... WHERE id.                          *)
Release(q, id, retryAt) ==
  [ i \in DOMAIN q |-> IF i = id THEN Unclaimed(q[i], retryAt) ELSE q[i] ]

(* reclaim_expired: every claim taken longer than `age' ago, dead or slow. *)
Expired(q, age) ==
  { i \in DOMAIN q : ~Pending(q, i) /\ q[i].claimedAt < 0 - age }

(* A mutant: the row is made due, and stays claimed.                       *)
ReclaimKeepingOwner(q, age) ==
  [ i \in DOMAIN q |->
      IF i \in Expired(q, age) THEN [ q[i] EXCEPT !.claimedAt = 0, !.notBefore = 0 ]
                               ELSE q[i] ]

ReclaimExpired(q, age) ==
  [ i \in DOMAIN q |-> IF i \in Expired(q, age) THEN Unclaimed(q[i], 0) ELSE q[i] ]

-----------------------------------------------------------------------------
(***************************************************************************)
(* One tick of the clock every timestamp of the table is compared with.    *)
(* The not_before of a claimed row is not aged: nothing reads it until the *)
(* row is released, and releasing it sets it anew.                         *)
(***************************************************************************)
Aged(t, limit) == IF t > 0 - limit THEN t - 1 ELSE t

Elapse(q) ==
  [ i \in DOMAIN q |->
      IF Pending(q, i)
        THEN [ q[i] EXCEPT !.notBefore = Aged(@, Overdue) ]
        ELSE [ q[i] EXCEPT !.claimedAt = Aged(@, Horizon) ] ]

=============================================================================

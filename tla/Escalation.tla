----------------------------- MODULE Escalation -----------------------------
(***************************************************************************)
(* The escalation timer (runtime/src/service.rs, escalate): sweeps, of one *)
(* process or of several, that look for cards nobody answered, claim each  *)
(* and queue a mention for it; the dispatcher that carries the mention     *)
(* out; and what moves a card meanwhile, the retention sweep included      *)
(* (store-postgres/src/store/audit.rs, prune).                             *)
(***************************************************************************)
EXTENDS Integers, Sequences, FiniteSets, FiniteSetsExt

CONSTANTS
  CardIds,      (* Numbers; a smaller one was inserted before.             *)
  Route,        (* The route of each card.                                 *)
  Deadline,     (* Escalation::after of each route; Never without a policy *)
  Never,
  Unborn, Pruned, (* A card not there yet, and one that retention took.    *)
  Sweepers,
  Batch,        (* ESCALATION_BATCH.                                       *)
  Retention,    (* RetentionPolicy::resolved.                              *)
  PruneBatch,   (* RetentionPolicy::batch_limit.                           *)
  MaxHour,      (* Bound: the clock.                                       *)
  Returns,      (* Bound: how often cards resolve and fire again.          *)
  Faults        (* Bound: queries that fail and processes that stop.       *)

Row == [ state : {"firing", "acked", "resolved"}, posted : BOOLEAN, created : Nat,
         updated : Nat, escalated : BOOLEAN ]

NoRow == {Unborn, Pruned}

ASSUME EscalationAssumption ==
  /\ CardIds \subseteq Nat /\ CardIds # {}
  /\ \A c \in CardIds : Deadline[Route[c]] \in Nat \cup {Never}
  /\ Never \notin Nat /\ Unborn \notin Row /\ Pruned \notin Row /\ Unborn # Pruned
  /\ {Batch, PruneBatch, Retention, MaxHour, Returns, Faults} \subseteq Nat

VARIABLES
  table,        (* The notifications table.                                *)
  sweeps,
  queued,       (* Escalate effects in the outbox, by card.                *)
  doing,        (* What the worker that holds a card's effect does next.   *)
  late,         (* Calls of workers that lost their lease while calling.   *)
  again,        (* How often an effect went back after its call may have   *)
                (* been made: the lease lapsed, or the answer was lost.    *)
  mentioned,    (* How often the targets were mentioned about each card.   *)
  hour,         (* The clock.                                              *)
  returns, faults

outbox == <<queued, doing, late, again, mentioned>>
escalation == <<table, sweeps, outbox, hour, returns, faults>>

Exists(c) == table[c] \notin NoRow

Asleep == [ pc |-> "idle", now |-> 0, todo |-> <<>> ]

EscalationInit ==
  /\ table = [ c \in CardIds |-> Unborn ]
  /\ sweeps = [ w \in Sweepers |-> Asleep ]
  /\ queued = [ c \in CardIds |-> 0 ] /\ doing = [ c \in CardIds |-> "no" ]
  /\ late = [ c \in CardIds |-> 0 ] /\ again = [ c \in CardIds |-> 0 ]
  /\ mentioned = [ c \in CardIds |-> 0 ]
  /\ hour = 0 /\ returns = 0 /\ faults = 0

HourPasses ==
  /\ hour < MaxHour
  /\ hour' = hour + 1
  /\ UNCHANGED <<table, sweeps, outbox, returns, faults>>

-----------------------------------------------------------------------------
(* What happens to a card elsewhere.                                       *)

Create(c) ==
  /\ table[c] = Unborn /\ \A d \in CardIds : d < c => table[d] # Unborn
  /\ table' = [ table EXCEPT ![c] = [ state |-> "firing", posted |-> FALSE, created |-> hour,
                                    updated |-> hour, escalated |-> FALSE ] ]
  /\ UNCHANGED <<sweeps, outbox, hour, returns, faults>>

PostCard(c) ==
  /\ Exists(c) /\ ~table[c].posted
  /\ table' = [ table EXCEPT ![c].posted = TRUE ]
  /\ UNCHANGED <<sweeps, outbox, hour, returns, faults>>

(* move_state; a card that fires again keeps its age and its claim.        *)
Move(c) ==
  /\ Exists(c) /\ returns < Returns
  /\ \E next \in {"firing", "acked", "resolved"} \ {table[c].state} :
       table' = [ table EXCEPT ![c] = [ @ EXCEPT !.state = next, !.updated = hour ] ]
  /\ returns' = returns + 1
  /\ UNCHANGED <<sweeps, outbox, hour, faults>>

FirstOf(S, n) == { c \in S : Cardinality({ d \in S : d < c }) < n }

(* prune: of the resolved cards past their horizon, the first few.         *)
Prune ==
  LET stale == { c \in CardIds : /\ Exists(c) /\ table[c].state = "resolved"
                               /\ table[c].updated < hour - Retention }
  IN  /\ stale # {}
      /\ table' = [ c \in CardIds |-> IF c \in FirstOf(stale, PruneBatch) THEN Pruned ELSE table[c] ]
      /\ UNCHANGED <<sweeps, outbox, hour, returns, faults>>

-----------------------------------------------------------------------------
(* The sweep.                                                              *)

Policies == { Deadline[Route[c]] : c \in CardIds } \ {Never}

(* A mutant: what was claimed goes on filling the batch.                   *)
WaitingClaimed(soonest) ==
  { c \in CardIds : /\ Exists(c) /\ table[c].posted
                  /\ table[c].state = "firing" /\ table[c].created <= hour - soonest }

Waiting(soonest) ==
  { c \in CardIds : /\ Exists(c) /\ ~table[c].escalated /\ table[c].posted
                  /\ table[c].state = "firing" /\ table[c].created <= hour - soonest }

Older(c, d) ==
  \/ table[c].created < table[d].created
  \/ table[c].created = table[d].created /\ c < d

(* pending_escalations: the oldest first, as many as the batch holds.      *)
Candidates(soonest) ==
  LET waiting == Waiting(soonest)
      Before(c) == { d \in waiting : Older(d, c) }
      n == IF Cardinality(waiting) < Batch THEN Cardinality(waiting) ELSE Batch
  IN  [ i \in 1..n |-> CHOOSE c \in waiting : Cardinality(Before(c)) = i - 1 ]

(* A card as the sweep remembers it.                                       *)
Read(c) == [ id |-> c, created |-> table[c].created ]

SweepReads(w) ==
  /\ sweeps[w].pc = "idle" /\ Policies # {}
  /\ LET found == Candidates(Min(Policies))
     IN  /\ found # <<>>
         /\ sweeps' = [ sweeps EXCEPT ![w] =
              [ pc |-> "claim", now |-> hour, todo |-> [ i \in DOMAIN found |-> Read(found[i]) ] ] ]
  /\ UNCHANGED <<table, outbox, hour, returns, faults>>

Rest(x) == IF Len(x.todo) = 1 THEN Asleep ELSE [ x EXCEPT !.pc = "claim", !.todo = Tail(@) ]

(* The card's own route has the last word.                                 *)
TooYoung(x, card) ==
  IF Deadline[Route[card.id]] = Never THEN TRUE ELSE x.now - card.created < Deadline[Route[card.id]]

SweepPasses(w) ==
  LET x == sweeps[w]
  IN  /\ x.pc = "claim" /\ TooYoung(x, Head(x.todo))
      /\ sweeps' = [ sweeps EXCEPT ![w] = Rest(x) ]
      /\ UNCHANGED <<table, outbox, hour, returns, faults>>

(* A mutant: any card that exists can be claimed.                          *)
ClaimableTwice(c) == Exists(c)

(* mark_escalated: WHERE escalated_at IS NULL.                             *)
Claimable(c) == Exists(c) /\ ~table[c].escalated

(* A card that is gone ends the sweep with an error.                       *)
SweepClaims(w) ==
  LET x == sweeps[w]
      c == Head(x.todo).id
  IN  /\ x.pc = "claim" /\ ~TooYoung(x, Head(x.todo))
      /\ IF Claimable(c)
           THEN /\ table' = [ table EXCEPT ![c] = [ @ EXCEPT !.escalated = TRUE, !.updated = x.now ] ]
                /\ sweeps' = [ sweeps EXCEPT ![w].pc = "enqueue" ]
           ELSE /\ sweeps' = [ sweeps EXCEPT ![w] = IF Exists(c) THEN Rest(x) ELSE Asleep ]
                /\ UNCHANGED table
      /\ UNCHANGED <<outbox, hour, returns, faults>>

(* enqueue_effects, a transaction of its own.                              *)
SweepEnqueues(w) ==
  LET x == sweeps[w]
  IN  /\ x.pc = "enqueue"
      /\ queued' = [ queued EXCEPT ![Head(x.todo).id] = @ + 1 ]
      /\ sweeps' = [ sweeps EXCEPT ![w] = Rest(x) ]
      /\ UNCHANGED <<table, doing, late, again, mentioned, hour, returns, faults>>

(* A query fails, or the process stops.                                    *)
SweepFails(w) ==
  /\ sweeps[w].pc # "idle" /\ faults < Faults
  /\ faults' = faults + 1
  /\ sweeps' = [ sweeps EXCEPT ![w] = Asleep ]
  /\ UNCHANGED <<table, outbox, hour, returns>>

-----------------------------------------------------------------------------
(* The dispatcher.  Discord is called first and the row is removed after,  *)
(* so that a worker whose lease lapses between, or while it calls, leaves  *)
(* the row to another that calls once more.                                *)

(* Answered or gone, the mention is dropped.                               *)
Mentionable(c) == Exists(c) /\ table[c].state = "firing"

Gone(c) == queued' = [ queued EXCEPT ![c] = @ - 1 ]
Turns(c, what) == doing' = [ doing EXCEPT ![c] = what ]

(* A worker takes the effect and reads the card.                           *)
Dispatch(c) ==
  /\ queued[c] > 0 /\ doing[c] = "no"
  /\ IF Mentionable(c) THEN Turns(c, "call") /\ UNCHANGED queued
                       ELSE Gone(c) /\ UNCHANGED doing
  /\ UNCHANGED <<table, sweeps, late, again, mentioned, hour, returns, faults>>

Mention(c) ==
  /\ doing[c] = "call"
  /\ mentioned' = [ mentioned EXCEPT ![c] = @ + 1 ]
  /\ Turns(c, "complete")
  /\ UNCHANGED <<table, sweeps, queued, late, again, hour, returns, faults>>

(* complete_outbox.                                                        *)
Complete(c) ==
  /\ doing[c] = "complete"
  /\ Gone(c) /\ Turns(c, "no")
  /\ UNCHANGED <<table, sweeps, late, again, mentioned, hour, returns, faults>>

(* Discord refuses: for good, or for now and not for the last time.        *)
CallRefused(c) ==
  /\ doing[c] = "call" /\ faults < Faults /\ faults' = faults + 1
  /\ Gone(c) \/ UNCHANGED queued
  /\ Turns(c, "no")
  /\ UNCHANGED <<table, sweeps, late, again, mentioned, hour, returns>>

(* Discord did what it was asked, and the worker does not hear of it.      *)
AnswerLost(c) ==
  /\ doing[c] = "call" /\ faults < Faults /\ faults' = faults + 1
  /\ mentioned' = [ mentioned EXCEPT ![c] = @ + 1 ]
  /\ again' = [ again EXCEPT ![c] = @ + 1 ]
  /\ Turns(c, "no")
  /\ UNCHANGED <<table, sweeps, queued, late, hour, returns>>

(* reclaim_expired: the worker stopped, or is slower than its lease.       *)
LeaseLapses(c) ==
  /\ doing[c] # "no" /\ faults < Faults /\ faults' = faults + 1
  /\ again' = [ again EXCEPT ![c] = @ + 1 ]
  /\ late' = IF doing[c] = "call" THEN [ late EXCEPT ![c] = @ + 1 ] ELSE late
  /\ Turns(c, "no")
  /\ UNCHANGED <<table, sweeps, queued, mentioned, hour, returns>>

(* The slow worker calls after all; it has no row left to complete.        *)
LateMention(c) ==
  /\ late[c] > 0 /\ late' = [ late EXCEPT ![c] = @ - 1 ]
  /\ mentioned' = [ mentioned EXCEPT ![c] = @ + 1 ]
  /\ UNCHANGED <<table, sweeps, queued, doing, again, hour, returns, faults>>

Works(c) == Dispatch(c) \/ Mention(c) \/ Complete(c)
Stumbles(c) == CallRefused(c) \/ AnswerLost(c) \/ LeaseLapses(c) \/ LateMention(c)

Sweep(w) == SweepReads(w) \/ SweepPasses(w) \/ SweepClaims(w) \/ SweepEnqueues(w)

EscalationNext ==
  \/ HourPasses
  \/ \E c \in CardIds : Create(c) \/ PostCard(c) \/ Move(c) \/ Works(c) \/ Stumbles(c)
  \/ Prune
  \/ \E w \in Sweepers : Sweep(w) \/ SweepFails(w)

(* The timer fires again and again whatever a pass came to, and the        *)
(* dispatcher empties its queue (Outbox).                                  *)
EscalationFairness ==
  /\ WF_escalation(HourPasses)
  /\ \A w \in Sweepers : WF_escalation(Sweep(w))
  /\ \A c \in CardIds : WF_escalation(Works(c))

EscalationSpec == EscalationInit /\ [][EscalationNext]_escalation /\ EscalationFairness

-----------------------------------------------------------------------------
(* The type invariant; a mention in the queue, or about to be, stands for  *)
(* the claim of a card that is there, or was.                              *)
EscalationTypeOK ==
  /\ table \in [ CardIds -> Row \cup NoRow ]
  /\ DOMAIN sweeps = Sweepers
  /\ \A w \in Sweepers :
       /\ sweeps[w].pc \in {"idle", "claim", "enqueue"} /\ sweeps[w].now \in Nat
       /\ sweeps[w] = [ pc |-> sweeps[w].pc, now |-> sweeps[w].now, todo |-> sweeps[w].todo ]
  /\ queued \in [ CardIds -> Nat ] /\ mentioned \in [ CardIds -> Nat ] /\ hour \in Nat
  /\ late \in [ CardIds -> Nat ] /\ again \in [ CardIds -> Nat ]
  /\ doing \in [ CardIds -> {"no", "call", "complete"} ]
  /\ \A c \in CardIds : queued[c] > 0 => table[c] # Unborn /\ (Exists(c) => table[c].escalated)

(* "The loser sends nothing, and the mention happens once"                 *)
(* (mark_escalated): however many sweeps meet on a card, one effect of     *)
(* theirs is ever queued, and it mentions the targets once, and once more  *)
(* at most for each time it went back after its call may have been made.   *)
MentionedOnce == \A c \in CardIds : queued[c] <= 1 /\ mentioned[c] <= 1 + again[c]

Unanswered(c) == Exists(c) /\ table[c].posted /\ table[c].state = "firing"

Escalates(c) == Deadline[Route[c]] # Never

(* A posted card nobody answered or claimed, past its deadline.            *)
Due(c) ==
  /\ Unanswered(c) /\ ~table[c].escalated
  /\ hour - table[c].created >= Deadline[Route[c]]

(* Older cards fill the batch that the sweep passes over each time: their  *)
(* routes give them longer, or never escalate.                             *)
PassedOver(d) == ~Escalates(d) \/ hour - table[d].created < Deadline[Route[d]]

Crowded(c) ==
  Cardinality({ d \in Waiting(Min(Policies)) : Older(d, c) /\ PassedOver(d) }) >= Batch

(* "What it does not reach this time it reaches on the next tick"          *)
(* (ESCALATION_BATCH): with a batch smaller than what waits, a card that   *)
(* is due is mentioned in the end, unless somebody answers it first, a     *)
(* step failed, or cards that are passed over fill the batch.  The last is *)
(* what the comment does not say: while it lasts, the card is not reached. *)
EveryCardIsReached ==
  \A c \in { d \in CardIds : Escalates(d) } :
    Due(c) ~> (mentioned[c] > 0 \/ ~Unanswered(c) \/ Crowded(c) \/ faults > 0)

=============================================================================

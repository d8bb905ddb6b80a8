--------------------------- MODULE DurableEffects ---------------------------
(***************************************************************************)
(* What the outbox promises to whoever queues an effect, with no workers,  *)
(* leases or clocks in it: a queued effect leaves the queue only by having *)
(* been carried out, by being given up on, or by being replaced by a later *)
(* effect of a replaceable kind about the same subject.  Nothing is lost,  *)
(* and nothing is ticked off that was not carried out; carrying one effect *)
(* out twice is allowed (delivery is at least once).                       *)
(***************************************************************************)
CONSTANTS
  Requests,      (* The effects that may ever be asked for.                *)
  Subjects,      (* What an effect is about: its kind and its card.        *)
  Replaceable,   (* The subjects where a later request is as good.         *)
  NoSubject

VARIABLES
  about,         (* The subject of each request, once it was made.         *)
  fate,          (* Where each request stands.                             *)
  performed      (* The requests carried out at least once.                *)

vars == <<about, fate, performed>>

Init ==
  /\ about = [ r \in Requests |-> NoSubject ]
  /\ fate = [ r \in Requests |-> "unasked" ]
  /\ performed = {}

(* A request joins the queue, taking the place of the requests in S.       *)
Ask(r, s, S) ==
  /\ fate[r] = "unasked"
  /\ \A old \in S : fate[old] = "queued" /\ about[old] = s
  /\ S # {} => s \in Replaceable
  /\ about' = [ about EXCEPT ![r] = s ]
  /\ fate' = [ x \in Requests |-> IF x = r THEN "queued"
                                  ELSE IF x \in S THEN "superseded" ELSE fate[x] ]
  /\ UNCHANGED performed

Perform(r) ==
  /\ fate[r] # "unasked"
  /\ performed' = performed \cup {r}
  /\ UNCHANGED <<about, fate>>

Finish(r) ==
  /\ fate[r] = "queued"
  /\ r \in performed
  /\ fate' = [ fate EXCEPT ![r] = "done" ]
  /\ UNCHANGED <<about, performed>>

GiveUp(r) ==
  /\ fate[r] = "queued"
  /\ fate' = [ fate EXCEPT ![r] = "dropped" ]
  /\ UNCHANGED <<about, performed>>

Next ==
  \E r \in Requests :
    \/ \E s \in Subjects, S \in SUBSET Requests : Ask(r, s, S)
    \/ Perform(r)
    \/ Finish(r)
    \/ GiveUp(r)

Spec == Init /\ [][Next]_vars

=============================================================================

---------------------------- MODULE AdminChannel ----------------------------
(***************************************************************************)
(* What the bot says about itself (runtime/src/admin.rs): the deadman of   *)
(* the poll (runtime/src/service.rs, check_deadman) and the health of a    *)
(* route, which any worker may report (runtime/src/dispatch.rs,            *)
(* report_route_health).                                                   *)
(***************************************************************************)
EXTENDS Integers, FiniteSets

CONSTANTS
  Workers,
  Routes,       (* Routes, which name a condition of route health each.    *)
  Deadman,      (* The condition of the deadman.                           *)
  Window,       (* The deadman's window.                                   *)
  MaxTime,      (* Bound: the clock.                                       *)
  Troubles,     (* Bound: effects that cannot be delivered.                *)
  Outages       (* Bound: notices the store does not take, and restarts.   *)

Keys == Routes \cup {Deadman}

ASSUME AdminAssumption ==
  /\ Deadman \notin Routes /\ Deadman \notin Workers
  /\ {Window, MaxTime, Troubles, Outages} \subseteq Nat

Reporters == Workers \cup {Deadman}

VARIABLES
  said,         (* AdminChannel::said.                                     *)
  saying,       (* Of each reporter, the notice it has yet to queue.       *)
  lastWebhook, lastPoll,   (* Stamps; 0 is none.                           *)
  now, troubles, outages,
  alarm,        (* History: what the last check of the deadman found.      *)
  lost,         (* History: conditions with a notice not taken since said. *)
  since         (* History: notices queued since the condition was last    *)
                (* forgotten.                                              *)

vars == <<said, saying, lastWebhook, lastPoll, now, troubles, outages,
          alarm, lost, since>>

Nothing == {}

Init ==
  /\ said = {}
  /\ saying = [ r \in Reporters |-> Nothing ]
  /\ lastWebhook = 0 /\ lastPoll = 0
  /\ now = 1
  /\ troubles = 0 /\ outages = 0
  /\ alarm = FALSE
  /\ lost = {}
  /\ since = [ k \in Keys |-> 0 ]

Tick ==
  /\ now < MaxTime
  /\ now' = now + 1
  /\ UNCHANGED <<said, saying, lastWebhook, lastPoll, troubles, outages, alarm, lost, since>>

(* ingest stamps the arrival, whatever becomes of the batch.               *)
Webhook ==
  /\ lastWebhook' = now
  /\ UNCHANGED <<said, saying, lastPoll, now, troubles, outages, alarm, lost, since>>

-----------------------------------------------------------------------------
(* A mutant: a notice is said again.                                       *)
SayAgain(r, key) == said' = said \cup {key} /\ saying' = [ saying EXCEPT ![r] = {key} ]

(* A mutant: the key is taken once the notice is queued.                   *)
SayUnnoted(r, key) ==
  said' = said /\ saying' = IF key \in said THEN saying ELSE [ saying EXCEPT ![r] = {key} ]

(* say_once: the key is taken before the notice is queued.                 *)
SayOnce(r, key) ==
  /\ said' = said \cup {key}
  /\ saying' = IF key \in said THEN saying ELSE [ saying EXCEPT ![r] = {key} ]

(* A mutant: nothing is forgotten.                                         *)
ForgetNothing(key) == said' = said /\ lost' = lost /\ since' = since

Forget(key) ==
  /\ said' = said \ {key}
  /\ lost' = lost \ {key}
  /\ since' = [ since EXCEPT ![key] = 0 ]

Quiet == lastWebhook # 0 /\ now - lastWebhook > Window

(* check_deadman, from a poll that reached Alertmanager or did not.  The   *)
(* poll's own clock moves at the end of a pass that did.                   *)
CheckDeadman(reachable) ==
  /\ saying[Deadman] = Nothing
  /\ alarm' = (Quiet /\ ~reachable)
  /\ IF Quiet /\ ~reachable
       THEN SayOnce(Deadman, Deadman) /\ UNCHANGED <<lost, since>>
       ELSE Forget(Deadman) /\ UNCHANGED saying
  /\ lastPoll' = IF reachable THEN now ELSE lastPoll
  /\ UNCHANGED <<lastWebhook, now, troubles, outages>>

(* report_route_health: an effect that cannot be delivered.                *)
ReportRoute(w, r) ==
  /\ saying[w] = Nothing /\ troubles < Troubles
  /\ troubles' = troubles + 1
  /\ SayOnce(w, r)
  /\ UNCHANGED <<lastWebhook, lastPoll, now, outages, alarm, lost, since>>

(* say: the notice goes to the queue ...                                   *)
Say(r) ==
  \E key \in saying[r] :
    /\ saying' = [ saying EXCEPT ![r] = Nothing ]
    /\ since' = [ since EXCEPT ![key] = @ + 1 ]
    /\ UNCHANGED <<said, lastWebhook, lastPoll, now, troubles, outages, alarm, lost>>

(* ... or the store does not take it, which is logged.                     *)
SayFails(r) ==
  /\ saying[r] # Nothing /\ outages < Outages
  /\ outages' = outages + 1
  /\ saying' = [ saying EXCEPT ![r] = Nothing ]
  /\ lost' = lost \cup saying[r]
  /\ UNCHANGED <<said, lastWebhook, lastPoll, now, troubles, alarm, since>>

(* All of it is in memory.                                                 *)
Restart ==
  /\ outages < Outages
  /\ outages' = outages + 1
  /\ said' = {} /\ saying' = [ r \in Reporters |-> Nothing ]
  /\ lastWebhook' = 0 /\ lastPoll' = 0
  /\ alarm' = FALSE /\ lost' = {} /\ since' = [ k \in Keys |-> 0 ]
  /\ UNCHANGED <<now, troubles>>

Next ==
  \/ Tick \/ Webhook
  \/ \E reachable \in BOOLEAN : CheckDeadman(reachable)
  \/ \E w \in Workers, r \in Routes : ReportRoute(w, r)
  \/ \E r \in Reporters : Say(r) \/ SayFails(r)
  \/ Restart

Spec == Init /\ [][Next]_vars

-----------------------------------------------------------------------------
(* The type invariant; nothing is being said that is not noted as said.    *)
TypeOK ==
  /\ said \subseteq Keys /\ lost \subseteq said
  /\ \A r \in Reporters : saying[r] \subseteq said
  /\ saying \in [ Reporters -> SUBSET Keys ]
  /\ since \in [ Keys -> Nat ]
  /\ lastWebhook \in 0..now /\ lastPoll \in 0..now

(* "Why the same notice is not said twice" (admin.rs): as long as a        *)
(* condition lasts, whoever meets it and however often, one notice is      *)
(* queued or about to be; unless the store refused that one, and then none *)
(* is.                                                                     *)
OneNoticePerCondition ==
  \A k \in Keys :
    since[k] + Cardinality({ r \in Reporters : k \in saying[r] })
      = IF k \in said \ lost THEN 1 ELSE 0

(* "Says so, once, when the bot has gone quiet and cannot tell whether     *)
(* that is the truth" (check_deadman): after a check that found it so the  *)
(* notice of this silence is in the queue, after one that did not the next *)
(* silence will have its own; and a process that never had a webhook has   *)
(* nothing to say.                                                         *)
DeadmanSpeaks ==
  saying[Deadman] = Nothing /\ Deadman \notin lost =>
    /\ alarm => since[Deadman] = 1 /\ lastWebhook # 0
    /\ ~alarm => since[Deadman] = 0

=============================================================================

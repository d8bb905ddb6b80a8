------------------------------ MODULE Listener ------------------------------
(***************************************************************************)
(* The process around the webhook: what a request goes through             *)
(* (ingest/src/router.rs, am/src/webhook.rs, runtime/src/service.rs,       *)
(* ingest), and how the process starts, drains and stops                   *)
(* (discord-alertmanager/src/main.rs, ingest/src/app.rs,                   *)
(* runtime/src/tasks.rs).                                                  *)
(*                                                                         *)
(* An alert is the number of its last change; what a decision makes of it  *)
(* is in Cards, and so is what comes of two requests with the same alert:  *)
(* here Alertmanager notifies of it one thing after the other.             *)
(***************************************************************************)
EXTENDS Integers, FiniteSets

CONSTANTS
  Alerts,
  Requests,     (* Requests under way at once.                             *)
  Jobs,         (* Dispatchers and periodic tasks; and the                 *)
  GatewayTask,  (* gateway's.                                              *)
  MaxChange,    (* Bound: changes of an alert.                             *)
  Mishaps       (* Bound: failed calls, timeouts, killed processes.        *)

(* What the theorems of PeripheryProofs assume of them.                    *)
ListenerAssumption == MaxChange \in Nat /\ Mishaps \in Nat

Tasks == Jobs \cup {GatewayTask}

VARIABLES
  current,      (* Alertmanager: the last change of each alert.            *)
  phase,        (* What run() is at.                                       *)
  tasks,        (* Each: at a pass, waiting for the next, or ended.        *)
  requests,     (* What each request is at.                                *)
  rows,         (* The alerts table: the change each row has.              *)
  decided,      (* The cards: the change that was last decided on.         *)
  cut,          (* History: alerts of a request not answered 200,          *)
  beaten,       (* and those whose last decision met a conflict.           *)
  mishaps

listener == <<current, phase, tasks, requests, rows, decided, cut, beaten, mishaps>>

process == <<phase, tasks>>

NoNews == [ f \in {} |-> 0 ]
Idle == [ pc |-> "idle", news |-> NoNews, todo |-> {} ]

ListenerInit ==
  /\ current = [ f \in Alerts |-> 0 ]
  /\ phase = "starting" /\ tasks = [ t \in Tasks |-> "ended" ]
  /\ requests = [ q \in Requests |-> Idle ]
  /\ rows = [ f \in Alerts |-> 0 ] /\ decided = [ f \in Alerts |-> 0 ]
  /\ cut = {} /\ beaten = {} /\ mishaps = 0

Mishap == mishaps < Mishaps /\ mishaps' = mishaps + 1

-----------------------------------------------------------------------------
(* Alertmanager.                                                           *)

Change(f) ==
  /\ current[f] < MaxChange
  /\ current' = [ current EXCEPT ![f] = @ + 1 ]
  /\ UNCHANGED <<process, requests, rows, decided, cut, beaten, mishaps>>

(* A notification, the first of its content or another.                    *)
Send(q, batch) ==
  /\ phase = "serving" /\ requests[q].pc = "idle"
  /\ \A p \in Requests : DOMAIN requests[p].news \cap batch = {}
  /\ requests' = [ requests EXCEPT ![q] =
       [ pc |-> "arrived", news |-> [ f \in batch |-> current[f] ], todo |-> {} ] ]
  /\ UNCHANGED <<current, process, rows, decided, cut, beaten, mishaps>>

-----------------------------------------------------------------------------
(* A request.  An answer other than 200 leaves its changes to the next.    *)

Answer(q, reply) ==
  /\ requests' = [ requests EXCEPT ![q] = Idle ]
  /\ cut' = IF reply = "200" THEN cut ELSE cut \cup requests[q].todo

(* require_bearer comes before the body is read, and nothing is stored of  *)
(* a body that is no payload of version 4 or has an alert that cannot be   *)
(* read.                                                                   *)
Refuse(q) ==
  /\ requests[q].pc = "arrived"
  /\ \E reply \in {"401", "400"} : Answer(q, reply)
  /\ UNCHANGED <<current, process, rows, decided, beaten, mishaps>>

Changed(news) == { f \in DOMAIN news : rows[f] # news[f] }

(* ingest_batch, one transaction.                                          *)
Store(q) ==
  LET news == requests[q].news
  IN  /\ requests[q].pc = "arrived"
      /\ rows' = [ f \in Alerts |-> IF f \in DOMAIN news THEN news[f] ELSE rows[f] ]
      /\ requests' = [ requests EXCEPT ![q].pc = "deciding", ![q].todo = Changed(news) ]
      /\ UNCHANGED <<current, process, decided, cut, beaten, mishaps>>

StoreFails(q) ==
  /\ requests[q].pc = "arrived" /\ Mishap
  /\ \E reply \in {"503", "500"} : Answer(q, reply)
  /\ UNCHANGED <<current, process, rows, decided, beaten>>

(* apply_deltas, one change after the other ...                            *)
Apply(q, f) ==
  /\ f \in requests[q].todo
  /\ decided' = [ decided EXCEPT ![f] = requests[q].news[f] ]
  /\ cut' = cut \ {f} /\ beaten' = beaten \ {f}
  /\ requests' = [ requests EXCEPT ![q].todo = @ \ {f} ]
  /\ UNCHANGED <<current, process, rows, mishaps>>

(* ... or the store refuses one as a conflict: "another worker created     *)
(* this card first".  The decision is dropped and the next one made.       *)
Conflict(q, f) ==
  /\ f \in requests[q].todo
  /\ beaten' = beaten \cup {f}
  /\ requests' = [ requests EXCEPT ![q].todo = @ \ {f} ]
  /\ UNCHANGED <<current, process, rows, decided, cut, mishaps>>

(* A mutant: a failure of any kind is dealt with as a conflict is, which   *)
(* is what polls and syncs do with all that is left of theirs.             *)
ApplyFailsQuietly(q) ==
  /\ Mishap
  /\ \E f \in requests[q].todo : requests' = [ requests EXCEPT ![q].todo = @ \ {f} ]
  /\ UNCHANGED <<current, process, rows, decided, cut, beaten>>

(* ... or the store fails, and with it what is left.                       *)
ApplyFails(q) ==
  /\ requests[q].todo # {} /\ Mishap
  /\ Answer(q, "503")
  /\ UNCHANGED <<current, process, rows, decided, beaten>>

Accept(q) ==
  /\ requests[q].pc = "deciding" /\ requests[q].todo = {}
  /\ Answer(q, "200")
  /\ UNCHANGED <<current, process, rows, decided, beaten, mishaps>>

(* TimeoutLayer: the handler is dropped wherever it waits.                 *)
Timeout(q) ==
  /\ requests[q].pc # "idle" /\ Mishap
  /\ Answer(q, "408")
  /\ UNCHANGED <<current, process, rows, decided, beaten>>

-----------------------------------------------------------------------------
(* The process.                                                            *)

(* The tasks are spawned before the listener has bound its address, which  *)
(* it may not get: the token is then cancelled.                            *)
Start ==
  /\ phase = "starting"
  /\ phase' \in {"serving", "joining"}
  /\ tasks' = [ t \in Tasks |-> "waiting" ]
  /\ UNCHANGED <<current, requests, rows, decided, cut, beaten, mishaps>>

Stopping == phase \in {"draining", "joining"}

(* A task's next pass; it may begin after the token was cancelled, as the  *)
(* select takes either branch that is ready.                               *)
Begin(t) ==
  /\ tasks[t] = "waiting"
  /\ tasks' = [ tasks EXCEPT ![t] = "running" ]
  /\ UNCHANGED <<current, phase, requests, rows, decided, cut, beaten, mishaps>>

Finish(t) ==
  /\ tasks[t] = "running"
  /\ tasks' = [ tasks EXCEPT ![t] = "waiting" ]
  /\ UNCHANGED <<current, phase, requests, rows, decided, cut, beaten, mishaps>>

(* The gateway may end by itself, which takes nothing else with it.        *)
End(t) ==
  /\ tasks[t] = "waiting" /\ (Stopping \/ t = GatewayTask)
  /\ tasks' = [ tasks EXCEPT ![t] = "ended" ]
  /\ UNCHANGED <<current, phase, requests, rows, decided, cut, beaten, mishaps>>

(* signal_watcher.                                                         *)
Signal ==
  /\ phase = "serving" /\ phase' = "draining"
  /\ UNCHANGED <<current, tasks, requests, rows, decided, cut, beaten, mishaps>>

(* A mutant: the drain has no deadline.                                    *)
DrainedFully ==
  /\ phase = "draining" /\ phase' = "joining"
  /\ \A q \in Requests : requests[q].pc = "idle"
  /\ UNCHANGED <<current, tasks, requests, rows, decided, cut, beaten, mishaps>>

(* serve returns: every request was answered, or the deadline has come and *)
(* what is under way goes on until the process ends.                       *)
Drained ==
  /\ phase = "draining" /\ phase' = "joining"
  /\ UNCHANGED <<current, tasks, requests, rows, decided, cut, beaten, mishaps>>

(* What is under way when the process ends is never answered.              *)
Ended ==
  /\ requests' = [ q \in Requests |-> Idle ]
  /\ cut' = cut \cup UNION { requests[q].todo : q \in Requests }
  /\ UNCHANGED <<current, rows, decided, beaten>>

(* run returns once every task has.                                        *)
Stop ==
  /\ phase = "joining" /\ \A t \in Tasks : tasks[t] = "ended"
  /\ phase' = "stopped"
  /\ Ended /\ UNCHANGED <<tasks, mishaps>>

(* Killed, or after an orderly stop, started again.                        *)
StartAgain ==
  /\ phase # "starting" /\ Mishap
  /\ phase' = "starting" /\ tasks' = [ t \in Tasks |-> "ended" ]
  /\ Ended

Handle(q) ==
  \/ Refuse(q) \/ Store(q) \/ StoreFails(q) \/ ApplyFails(q) \/ Accept(q) \/ Timeout(q)
  \/ \E f \in Alerts : Apply(q, f) \/ Conflict(q, f)

ListenerNext ==
  \/ \E f \in Alerts : Change(f)
  \/ \E q \in Requests, batch \in SUBSET Alerts \ {{}} : Send(q, batch)
  \/ \E q \in Requests : Handle(q)
  \/ Start \/ Signal \/ Drained \/ Stop \/ StartAgain
  \/ \E t \in Tasks : Begin(t) \/ Finish(t) \/ End(t)

(* A pass ends, as its calls have timeouts; the drain has its deadline;    *)
(* and a select whose token is cancelled takes that branch in the end.  No *)
(* request needs to.                                                       *)
Fairness ==
  /\ WF_listener(Drained) /\ WF_listener(Stop)
  /\ \A t \in Tasks : WF_listener(Finish(t)) /\ SF_listener(End(t))

ListenerSpec == ListenerInit /\ [][ListenerNext]_listener /\ Fairness

-----------------------------------------------------------------------------
Request ==
  [ pc : {"idle", "arrived", "deciding"},
    news : UNION { [ batch -> 0..MaxChange ] : batch \in SUBSET Alerts }, todo : SUBSET Alerts ]

(* The type invariant; only a request that is under way has work left, and *)
(* none is while the process is not.                                       *)
ListenerTypeOK ==
  /\ current \in [ Alerts -> 0..MaxChange ]
  /\ phase \in {"starting", "serving", "draining", "joining", "stopped"}
  /\ tasks \in [ Tasks -> {"waiting", "running", "ended"} ]
  /\ requests \in [ Requests -> Request ]
  /\ \A q \in Requests : requests[q].todo \subseteq DOMAIN requests[q].news
  /\ \A q \in Requests : requests[q].todo # {} => requests[q].pc = "deciding"
  /\ phase \in {"starting", "stopped"} => \A q \in Requests : requests[q] = Idle
  /\ rows \in [ Alerts -> 0..MaxChange ] /\ decided \in [ Alerts -> 0..MaxChange ]
  /\ cut \subseteq Alerts /\ beaten \subseteq Alerts /\ mishaps \in 0..Mishaps

(* A 200 is answered for a change whose decision was not applied only when *)
(* the store refused it as a conflict: a change that is in the alerts      *)
(* table was decided on, or a request is about to, or Alertmanager was not *)
(* answered 200 when it brought it, "and the batch is worth redelivering"  *)
(* (ingest_webhook), or a card had been created under its key before.      *)
(* What a redelivery is good for is another matter: it finds the row as it *)
(* should be, which is where Reconciler!CardsConverge fails.               *)
NoChangeLostQuietly ==
  \A f \in Alerts :
    rows[f] # decided[f] => f \in cut \cup beaten \/ \E q \in Requests : f \in requests[q].todo

(* However requests, tasks and the gateway stand when it is asked to stop, *)
(* the process ends, unless it is killed first ("a client holding one open *)
(* must not be able to keep a terminating pod alive indefinitely", serve). *)
StopEnds == phase = "draining" ~> phase \in {"stopped", "starting"}

=============================================================================

----------------------------- MODULE Silencing -----------------------------
(***************************************************************************)
(* Silences from Discord to Alertmanager: an interaction (discord/src/     *)
(* commands/mod.rs, components.rs, capability.rs) that queues a silence or *)
(* its end, or prolongs one itself; the dispatcher's two effects; the      *)
(* client that tries the peers in order and starts over                    *)
(* (am/src/client.rs); and the rows that say who asked for what            *)
(* (write_silence, sync_silences).                                         *)
(*                                                                         *)
(* The queue is reduced to what these effects need of it: Outbox has it.   *)
(* Any worker may take any effect, which lanes only restrict, and the time *)
(* a call may take is a bound on its rounds.                               *)
(***************************************************************************)
EXTENDS Integers, Sequences, FiniteSets

CONSTANTS
  Asks,          (* Silences somebody asks for, by what they match.        *)
  Workers, Desks,  (* Dispatchers; interactions under way at once.         *)
  Peers,         (* alertmanager.endpoints: a sequence.                    *)
  MaxTries,      (* MAX_ATTEMPTS                                           *)
  Rounds,        (* Bound: how often a call walks the peers.               *)
  Upsets,        (* Bound: how many things go wrong.                       *)
  Acts,          (* Bound: how many interactions there are.                *)
  None

ASSUME SilencingAssumption ==
  /\ Workers \cap Desks = {} /\ None \notin Asks \cup Workers
  /\ Len(Peers) \in Nat \ {0} /\ DOMAIN Peers = 1..Len(Peers)
  /\ {MaxTries, Rounds} \subseteq Nat \ {0} /\ {Upsets, Acts} \subseteq Nat

VARIABLES
  silences,     (* Alertmanager's silences, by id.                         *)
  lapsed,       (* Asks whose ends_at has passed.                          *)
  queue,        (* Effects in the outbox.                                  *)
  callers,      (* Workers and desks: what each is doing.                  *)
  links,        (* The silences table: the state it has, by id.            *)
  begun, queued, trail,  (* Interactions, what they queued, audit entries. *)
  missed,       (* History: ids a peer was asked to end and did not know.  *)
  upsets

vars == <<silences, lapsed, queue, callers, links, begun, queued, trail, missed, upsets>>

people == <<begun, queued, trail>>

Ops == [ kind : {"create"}, of : Asks ] \cup [ kind : {"expire", "extend"}, of : Nat ]

Idle == [ pc |-> "idle", op |-> None, at |-> 1, round |-> 1, result |-> "none", id |-> 0 ]

Init ==
  /\ silences = <<>> /\ lapsed = {}
  /\ queue = [ op \in {} |-> None ]
  /\ callers = [ c \in Workers \cup Desks |-> Idle ]
  /\ links = [ i \in {} |-> None ]
  /\ begun = {} /\ queued = {} /\ trail = {}
  /\ missed = {} /\ upsets = 0

Upset == upsets < Upsets /\ upsets' = upsets + 1

Put(c, state) == callers' = [ callers EXCEPT ![c] = state ]

Returned(c, result, id) ==
  Put(c, [ callers[c] EXCEPT !.pc = "returned", !.result = result, !.id = id ])

-----------------------------------------------------------------------------
(* Alertmanager.                                                           *)

New(ask, peer) == [ of |-> ask, active |-> TRUE, asAsked |-> TRUE, known |-> {peer} ]

(***************************************************************************)
(* What a peer may answer to an operation, and the silences after it.      *)
(* Without an id a POST makes a silence; with the id of one that has ended *)
(* it makes another.  The client takes a 4xx as final and a 5xx not: which *)
(* of the two, or a success, ending an ended silence brings is left open.  *)
(***************************************************************************)
Answers(op, peer) ==
  LET i == op.of
      Same(codes) == { [ code |-> c, id |-> i, silences |-> silences ] : c \in codes }
      Changed(s) == { [ code |-> "ok", id |-> i, silences |-> s ] }
      Made(silence) ==
        { [ code |-> "ok", id |-> Len(silences) + 1, silences |-> Append(silences, silence) ] }
  IN  IF op.kind = "create"
        THEN IF i \in lapsed THEN Same({"4xx"}) ELSE Made(New(i, peer))
      ELSE IF peer \notin silences[i].known THEN Same({"4xx"})
      ELSE IF op.kind = "expire"
        THEN IF silences[i].active THEN Changed([ silences EXCEPT ![i].active = FALSE ])
             ELSE Same({"ok", "4xx", "5xx"})
      ELSE IF silences[i].active THEN Changed([ silences EXCEPT ![i].asAsked = FALSE ])
           ELSE Made([ New(silences[i].of, peer) EXCEPT !.asAsked = FALSE ])

(* Silences gossip between peers.                                          *)
Gossip ==
  \E i \in DOMAIN silences, p \in { Peers[n] : n \in DOMAIN Peers } :
    /\ p \notin silences[i].known
    /\ silences' = [ silences EXCEPT ![i].known = @ \cup {p} ]
    /\ UNCHANGED <<lapsed, queue, callers, links, people, missed, upsets>>

(* The end that was asked for comes.                                       *)
Lapse(ask) ==
  /\ ask \notin lapsed /\ lapsed' = lapsed \cup {ask}
  /\ silences' = [ i \in DOMAIN silences |->
       [ silences[i] EXCEPT !.active = @ /\ ~(silences[i].of = ask /\ silences[i].asAsked) ] ]
  /\ UNCHANGED <<queue, callers, links, people, missed, upsets>>

-----------------------------------------------------------------------------
(* The client.                                                             *)

Calling(op) == [ Idle EXCEPT !.pc = "calling", !.op = op ]

(* A mutant: a peer that is not reached ends the call.                     *)
RetryableAnswered(error) == error \in {"5xx", "timeout"}

(* What a request comes to: a status, a peer that is not reached or does   *)
(* not answer in time, a success that cannot be read.                      *)
Codes == {"ok", "4xx", "5xx", "unreachable", "timeout", "garbled"}

(* AmError::is_retryable.                                                  *)
Retryable(error) == error \in {"5xx", "unreachable", "timeout"}

(* One request to one peer: what the caller gets to see of it, and the id  *)
(* that comes with a success.  A request may do its work although its      *)
(* answer is lost or cannot be read.                                       *)
Request(c, code, id) ==
  LET op == callers[c].op
      peer == Peers[callers[c].at]
  IN  \/ /\ code = "unreachable" /\ id = 0 /\ Upset
         /\ UNCHANGED <<silences, missed>>
      \/ \E answer \in Answers(op, peer) :
           /\ silences' = answer.silences
           /\ missed' = IF op.kind = "expire" /\ peer \notin silences[op.of].known
                          THEN missed \cup {op.of} ELSE missed
           /\ id = IF op.kind = "create" /\ code = "ok" THEN answer.id ELSE 0
           /\ \/ code = answer.code /\ UNCHANGED upsets
              \/ code = "timeout" /\ Upset
              \/ code = "garbled" /\ answer.code = "ok" /\ op.kind # "expire" /\ Upset

(* execute: success and what no retry can help return at once; the rest go *)
(* on to the next peer, and after the last to another round or give up.    *)
Attempt(c) ==
  /\ callers[c].pc = "calling"
  /\ \E code \in Codes :
     \E id \in 0..(Len(silences) + 1) :
       /\ Request(c, code, id)
       /\ \/ ~Retryable(code) /\ Returned(c, code, id)
          \/ /\ Retryable(code) /\ callers[c].at < Len(Peers)
             /\ Put(c, [ callers[c] EXCEPT !.at = @ + 1 ])
          \/ /\ Retryable(code) /\ callers[c].at = Len(Peers)
             /\ \/ Returned(c, code, 0)
                \/ /\ callers[c].round < Rounds
                   /\ Put(c, [ callers[c] EXCEPT !.at = 1, !.round = @ + 1 ])
  /\ UNCHANGED <<lapsed, queue, links, people>>

-----------------------------------------------------------------------------
(* Interactions.                                                           *)

(* What somebody without the capability asks is not run.                   *)
Begun(t, op) ==
  /\ callers[t].pc = "idle"
  /\ op \notin begun /\ Cardinality(begun) < Acts
  /\ begun' = begun \cup {op}
  /\ \E allowed \in BOOLEAN :
       Put(t, [ Idle EXCEPT !.op = op, !.pc = IF allowed THEN "run" ELSE "returned",
                            !.result = IF allowed THEN "none" ELSE "denied" ])
  /\ UNCHANGED <<silences, lapsed, queue, links, queued, trail, missed, upsets>>

(* /silence create, and expire and extend with an id from /silence list.   *)
Command(t, op) ==
  /\ op.kind # "create" => op.of \in DOMAIN silences
  /\ Begun(t, op)

(* A duration chosen from the picker a card's button opens.                *)
Choose(t, op) == op.kind = "create" /\ Begun(t, op)

(* A duration, a matcher or a reference that cannot be read; an alert that *)
(* is no longer in the database.                                           *)
Refuse(t) ==
  /\ callers[t].pc = "run" /\ Returned(t, "refused", 0)
  /\ UNCHANGED <<silences, lapsed, queue, links, people, missed, upsets>>

Enqueued(t) ==
  LET op == callers[t].op
  IN  /\ queue' = [ q \in DOMAIN queue \cup {op} |->
                      IF q = op THEN [ tries |-> 0, holder |-> None ] ELSE queue[q] ]
      /\ queued' = queued \cup {op}
      /\ Returned(t, "ok", 0)
      /\ UNCHANGED <<silences, lapsed, links, begun, trail, missed, upsets>>

QueueSilence(t) == callers[t].pc = "run" /\ callers[t].op.kind = "create" /\ Enqueued(t)
QueueExpiry(t) == callers[t].pc = "run" /\ callers[t].op.kind = "expire" /\ Enqueued(t)

(* extend looks its silence up first and then sends it again with its id.  *)
LookUp(t) ==
  /\ callers[t].pc = "run" /\ callers[t].op.kind = "extend"
  /\ \E n \in DOMAIN Peers :
       IF Peers[n] \in silences[callers[t].op.of].known
         THEN Put(t, Calling(callers[t].op)) ELSE Returned(t, "refused", 0)
  /\ UNCHANGED <<silences, lapsed, queue, links, people, missed, upsets>>

(* The store or Alertmanager fails before anything is done.                *)
RunFails(t) ==
  /\ callers[t].pc = "run" /\ Upset
  /\ Returned(t, "5xx", 0)
  /\ UNCHANGED <<silences, lapsed, queue, links, people, missed>>

(* A mutant: a call that may be repeated is reported as done.              *)
OutcomeHopeful(result) ==
  IF result \in {"ok", "5xx"} THEN "ok" ELSE IF result = "denied" THEN "denied" ELSE "error"

(* CommandError::result.                                                   *)
Outcome(result) ==
  IF result = "ok" THEN "ok" ELSE IF result = "denied" THEN "denied" ELSE "error"

(* The audit entry, which may fail to be written; the answer follows.      *)
Audit(t) ==
  /\ t \in Desks /\ callers[t].pc = "returned"
  /\ \/ /\ trail' = trail \cup {[ op |-> callers[t].op, result |-> Outcome(callers[t].result) ]}
        /\ UNCHANGED upsets
     \/ Upset /\ UNCHANGED trail
  /\ Put(t, Idle)
  /\ UNCHANGED <<silences, lapsed, queue, links, begun, queued, missed>>

-----------------------------------------------------------------------------
(* Dispatchers.                                                            *)

Take(w, op) ==
  /\ callers[w].pc = "idle"
  /\ op \in DOMAIN queue /\ queue[op].holder = None
  /\ queue' = [ queue EXCEPT ![op] = [ tries |-> @.tries + 1, holder |-> w ] ]
  /\ Put(w, Calling(op))
  /\ UNCHANGED <<silences, lapsed, links, people, missed, upsets>>

Removed(op) == [ q \in DOMAIN queue \ {op} |-> queue[q] ]

Linked(i, state) == [ j \in DOMAIN links \cup {i} |-> IF j = i THEN state ELSE links[j] ]

(* What an effect that came to an end leaves in the silences table; the    *)
(* row of an expiry is there if the silence was asked for here.            *)
LinksAfter(op, made) ==
  IF op.kind = "create" THEN Linked(made, "active")
  ELSE IF op.of \in DOMAIN links THEN [ links EXCEPT ![op.of] = "expired" ]
  ELSE links

(* A mutant: what is dropped is completed.                                 *)
SettledAnyhow(op, result, made) ==
  /\ queue' = Removed(op)
  /\ links' = IF result = "ok" \/ op.kind = "expire" THEN LinksAfter(op, made) ELSE links

(* A mutant: a success that cannot be read is one.                         *)
SettledUnread(op, result, made) ==
  IF result \in {"ok", "garbled"} THEN queue' = Removed(op) /\ links' = LinksAfter(op, made)
  ELSE IF Retryable(result) /\ queue[op].tries < MaxTries
    THEN queue' = [ queue EXCEPT ![op].holder = None ] /\ UNCHANGED links
  ELSE queue' = Removed(op) /\ UNCHANGED links

(* complete_outbox and fail_outbox.                                        *)
Settled(op, result, made) ==
  IF result = "ok" THEN queue' = Removed(op) /\ links' = LinksAfter(op, made)
  ELSE IF Retryable(result) /\ queue[op].tries < MaxTries
    THEN queue' = [ queue EXCEPT ![op].holder = None ] /\ UNCHANGED links
  ELSE queue' = Removed(op) /\ UNCHANGED links

(* take_claim                                                              *)
Holds(w, op) == op \in DOMAIN queue /\ queue[op].holder = w

Record(w) ==
  LET op == callers[w].op
  IN  /\ w \in Workers /\ callers[w].pc = "returned"
      /\ \/ /\ Holds(w, op) /\ Settled(op, callers[w].result, callers[w].id)
            /\ UNCHANGED upsets
         \/ /\ ~Holds(w, op) /\ UNCHANGED <<queue, links, upsets>>
         \/ Upset /\ UNCHANGED <<queue, links>>
      /\ Put(w, Idle)
      /\ UNCHANGED <<silences, lapsed, people, missed>>

Unclaimed(op) == queue' = [ queue EXCEPT ![op].holder = None ]

(* reclaim_leases, of a claim nobody is at any more.                       *)
Reclaim(op) ==
  /\ op \in DOMAIN queue /\ queue[op].holder # None
  /\ callers[queue[op].holder].op # op
  /\ Unclaimed(op)
  /\ UNCHANGED <<silences, lapsed, callers, links, people, missed, upsets>>

(* A call may take longer than the lease, three times over: reclaim_leases *)
(* then has it repeated while it is under way.                             *)
Overrun(op) ==
  /\ op \in DOMAIN queue /\ queue[op].holder # None
  /\ callers[queue[op].holder].op = op /\ Upset
  /\ Unclaimed(op)
  /\ UNCHANGED <<silences, lapsed, callers, links, people, missed>>

(* The process stops; what it was doing is forgotten.                      *)
Crash ==
  /\ Upset
  /\ callers' = [ c \in DOMAIN callers |-> Idle ]
  /\ UNCHANGED <<silences, lapsed, queue, links, people, missed>>

(* The state of each silence in the list a peer gives.                     *)
Listed(peer) ==
  [ i \in { j \in DOMAIN silences : peer \in silences[j].known } |->
      IF silences[i].active THEN "active" ELSE "expired" ]

(* sync_silences: the rows take the state of the list a peer gave.         *)
Sync ==
  /\ \E n \in DOMAIN Peers :
       LET list == Listed(Peers[n])
       IN  links' = [ i \in DOMAIN links |-> IF i \in DOMAIN list THEN list[i] ELSE links[i] ]
  /\ UNCHANGED <<silences, lapsed, queue, callers, people, missed, upsets>>

-----------------------------------------------------------------------------
Step(w) == Attempt(w) \/ Record(w) \/ \E op \in DOMAIN queue : Take(w, op)

Act(t) ==
  \/ \E op \in [ kind : {"create"}, of : Asks ]
             \cup [ kind : {"expire", "extend"}, of : DOMAIN silences ] : Command(t, op) \/ Choose(t, op)
  \/ Refuse(t) \/ QueueSilence(t) \/ QueueExpiry(t) \/ LookUp(t) \/ RunFails(t) \/ Attempt(t) \/ Audit(t)

Next ==
  \/ \E w \in Workers : Step(w)
  \/ \E t \in Desks : Act(t)
  \/ \E op \in DOMAIN queue : Reclaim(op) \/ Overrun(op)
  \/ Gossip \/ (\E a \in Asks : Lapse(a))
  \/ Sync \/ Crash

(* Workers keep taking and finishing effects, and the janitor comes round. *)
Fairness ==
  /\ \A w \in Workers : WF_vars(Step(w))
  /\ WF_vars(\E op \in DOMAIN queue : Reclaim(op))

Spec == Init /\ [][Next]_vars /\ Fairness

-----------------------------------------------------------------------------
Results == {"none", "denied", "refused"} \cup Codes

Caller ==
  [ pc : {"idle", "run", "calling", "returned"}, op : Ops \cup {None},
    at : DOMAIN Peers, round : 1..Rounds, result : Results, id : Nat ]

(* The type invariant; every effect is claimed by nobody, by somebody who  *)
(* is at it, or by one who went away, and a row is of a silence there was. *)
TypeOK ==
  /\ \A i \in DOMAIN silences :
       silences[i] \in [ of : Asks, active : BOOLEAN, asAsked : BOOLEAN,
                         known : SUBSET { Peers[n] : n \in DOMAIN Peers } ]
  /\ lapsed \subseteq Asks
  /\ \A op \in DOMAIN queue :
       op \in Ops /\ queue[op] \in [ tries : 0..(MaxTries + Upsets), holder : Workers \cup {None} ]
  /\ DOMAIN callers = Workers \cup Desks /\ \A c \in DOMAIN callers : callers[c] \in Caller
  /\ DOMAIN links \subseteq DOMAIN silences
  /\ \A i \in DOMAIN links : links[i] \in {"active", "expired"}
  /\ begun \subseteq Ops /\ queued \subseteq begun /\ missed \subseteq DOMAIN silences
  /\ \A e \in trail : e.op \in begun /\ e.result \in {"ok", "denied", "error"}
  /\ upsets \in 0..Upsets

Asked(ask) == [ kind |-> "create", of |-> ask ]

(* "A silence an operator was told about but which never reached           *)
(* Alertmanager is the worst of the available outcomes" (queue_silence):   *)
(* whatever happens to peers, answers, leases and the process, what was    *)
(* queued gets there, or its own end comes first.  Upsets < MaxTries.      *)
ToldSilenceReaches ==
  \A a \in Asks :
    Asked(a) \in DOMAIN queue ~> a \in lapsed \/ \E i \in DOMAIN silences : silences[i].of = a

(* The same of an end that was asked for, unless a peer was asked that had *)
(* not heard of the silence yet: its 4xx is taken as final.                *)
ToldEndReaches ==
  \A i \in 1..(Acts + Upsets) :
    [ kind |-> "expire", of |-> i ] \in DOMAIN queue ~>
      i \in missed \/ (i \in DOMAIN silences /\ ~silences[i].active)

(* What an operator was told would be done is done: both of these.         *)
ToldIsDone == ToldSilenceReaches /\ ToldEndReaches

(* The silences table calls nothing over that still mutes people.          *)
OverIsOver == \A i \in DOMAIN links : links[i] = "expired" => ~silences[i].active

(* What somebody asked for is credited to them once, however often it was  *)
(* carried out.                                                            *)
CreditedOnce ==
  \A i, j \in DOMAIN links : silences[i].of = silences[j].of => i = j

(* The rows /silence list shows, through drops, duplicates and a list that *)
(* lags: both of these.                                                    *)
RowsTellTruth == OverIsOver /\ CreditedOnce

(* The audit trail says ok of what was queued or reached Alertmanager, and *)
(* what it says was denied did neither ("exactly the question an incident  *)
(* review asks").                                                          *)
TrailTellsTruth ==
  \A e \in trail :
    /\ e.op.kind # "extend" => (e.result = "ok" <=> e.op \in queued)
    /\ e.op.kind = "extend" /\ e.result = "ok" =>
         \E i \in DOMAIN silences : ~silences[i].asAsked

(* "Creating is not idempotent: ... A retry therefore looks for the        *)
(* silence the previous attempt recorded and sets id" (SilenceRequest).    *)
OneSilencePerAsk ==
  \A i, j \in DOMAIN silences :
    silences[i].of = silences[j].of /\ silences[i].asAsked /\ silences[j].asAsked => i = j

=============================================================================

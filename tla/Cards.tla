------------------------------- MODULE Cards -------------------------------
(***************************************************************************)
(* The pipeline from an alert to its cards: deliveries written to the      *)
(* alerts table, decisions read and applied around several awaits          *)
(* (runtime/src/service.rs, apply_deltas; engine/src/decide.rs, decide),   *)
(* and what moves a card beside them: acknowledgements, ignore rules and   *)
(* messages found deleted (store-sqlite/src/store/notifications.rs).       *)
(*                                                                         *)
(* Every route groups per alert and none is storming, so a card's key is   *)
(* the identity of its alert.  A card is known by <<route, number>>.       *)
(***************************************************************************)
EXTENDS CardState, Naturals, FiniteSets

CONSTANTS
  Fps, Routes,
  IdentityOf,   (* IdentityPolicy: the identity of each fingerprint.       *)
  Tasks,        (* Webhook requests, polls and syncs that run at once.     *)
  Budget        (* Bound: how often each thing outside the pipeline occurs *)

Sources == {"deliveries", "faults", "clicks", "mutes", "losses"}

Keys == { IdentityOf[f] : f \in Fps }

(* A row of the notifications table.                                       *)
CardRow ==
  [ fp : Fps, key : Keys \cup {"superseded", "orphaned"}, state : States,
    resolvedAt : {"never", "recent", "old"}, supersedes : (Routes \X Nat) \cup {None},
    message : {"unsent", "live", "gone"} ]

(* A card as a task remembers it, and a change it has to apply.            *)
ReadCards == [ id : Routes \X Nat, card : CardRow ]
Changes   == [ fp : Fps, kind : Events, alert : Alert ]

ASSUME CardsAssumption ==
  /\ IdentityOf \in [ Fps -> Keys ]
  /\ "superseded" \notin Keys /\ "orphaned" \notin Keys
  /\ None \notin Alert /\ None \notin Events \cup Triggers \cup States
  /\ None \notin ReadCards /\ None \notin Routes \X Nat
  /\ Budget \in [ Sources -> Nat ]

VARIABLES
  alerts,       (* The alerts table: the last alert stored.                *)
  cards,        (* The notifications table.                                *)
  acks,         (* Fingerprints with an acknowledgement not revoked.       *)
  muted,        (* Routes whose channel an ignore rule covers.             *)
  tasks,        (* Each task's run of ingest and apply_deltas.             *)
  left          (* What is left of Budget.                                 *)

vars == <<alerts, cards, acks, muted, tasks, left>>

Spend(source) == left[source] > 0 /\ left' = [ left EXCEPT ![source] = @ - 1 ]

Idle ==
  [ pc |-> "idle", todo |-> {}, delta |-> None, mutes |-> {}, unread |-> {},
    existing |-> [ r \in Routes |-> None ], acked |-> FALSE, siblings |-> {} ]

Init ==
  /\ alerts = [ f \in Fps |-> None ]
  /\ cards = [ c \in {} |-> None ]
  /\ acks = {}
  /\ muted = {}
  /\ tasks = [ t \in Tasks |-> Idle ]
  /\ left = Budget

-----------------------------------------------------------------------------
(* The card rows.                                                          *)

Holders(table, r, key) == { c \in DOMAIN table : c[1] = r /\ table[c].key = key }

(* move_state: "resolved since when", for as long as it stays resolved.    *)
Moved(card, state) ==
  [ card EXCEPT !.state = state,
                !.resolvedAt = IF state # "resolved" THEN "never"
                               ELSE IF @ = "never" THEN "recent" ELSE @ ]

NewCard(fp, key, state, supersedes) ==
  [ fp |-> fp, key |-> key, state |-> state, resolvedAt |-> "never",
    supersedes |-> supersedes, message |-> "unsent" ]

(* read_cards_for.                                                         *)
CardsOf(f) ==
  { c \in DOMAIN cards : /\ cards[c].state # "orphaned"
                         /\ cards[c].fp = f \/ cards[c].key = f }

(* acknowledge: every card of the alert takes the trigger.                 *)
Triggered(f, trigger) ==
  [ c \in DOMAIN cards |->
      LET state == NextState(cards[c].state, trigger, trigger = "acknowledged")
      IN  IF c \in CardsOf(f) /\ state # None THEN Moved(cards[c], state) ELSE cards[c] ]

-----------------------------------------------------------------------------
(***************************************************************************)
(* A delivery, be it a webhook's, a poll's or a silence sync's, is written *)
(* to the alerts table in one transaction.  Alerts that change nothing     *)
(* yield no delta; the task goes on with the others, in any order.         *)
(***************************************************************************)
Deltas(batch) ==
  { [ fp |-> f, kind |-> Classify(alerts[f], batch[f]), alert |-> batch[f] ] :
      f \in { g \in DOMAIN batch : Classify(alerts[g], batch[g]) # None } }

Deliver(t, batch) ==
  /\ tasks[t].pc = "idle"
  /\ Spend("deliveries")
  /\ alerts' = [ f \in Fps |-> IF f \in DOMAIN batch THEN batch[f] ELSE alerts[f] ]
  /\ tasks' = IF Deltas(batch) = {} THEN tasks
              ELSE [ tasks EXCEPT ![t] = [ Idle EXCEPT !.pc = "start", !.todo = Deltas(batch) ] ]
  /\ UNCHANGED <<cards, acks, muted>>

(* apply_deltas takes its routing snapshot once, and then one delta after  *)
(* the other.                                                              *)
NextDelta(t) ==
  /\ tasks[t].pc \in {"start", "next"}
  /\ \E d \in tasks[t].todo :
       tasks' = [ tasks EXCEPT ![t] =
                    [ Idle EXCEPT !.pc = "cards", !.delta = d, !.todo = tasks[t].todo \ {d},
                                  !.unread = Routes,
                                  !.mutes = IF tasks[t].pc = "start" THEN muted ELSE tasks[t].mutes ] ]
  /\ UNCHANGED <<alerts, cards, acks, muted, left>>

Key(x) == IdentityOf[x.delta.fp]

(* notification_for, once for each route that wants the alert.             *)
ReadCard(t) ==
  LET x == tasks[t]
  IN  /\ x.pc = "cards"
      /\ \E r \in x.unread :
           LET holders == Holders(cards, r, Key(x))
               found == IF holders = {} THEN None
                        ELSE LET c == CHOOSE c \in holders : TRUE
                             IN  [ id |-> c, card |-> cards[c] ]
           IN  tasks' = [ tasks EXCEPT ![t].existing[r] = found,
                                       ![t].unread = @ \ {r},
                                       ![t].pc = IF x.unread = {r} THEN "ack" ELSE "cards" ]
      /\ UNCHANGED <<alerts, cards, acks, muted, left>>

(* acknowledgement: the alert is held, or one of its cards says so.  An    *)
(* identity policy that merges nothing has no siblings to read.            *)
ReadAck(t) ==
  LET x == tasks[t]
      onCard == \E r \in Routes : x.existing[r] # None /\ x.existing[r].card.state = "acked"
      exact == \A f \in Fps : IdentityOf[f] = f
  IN  /\ x.pc = "ack"
      /\ tasks' = [ tasks EXCEPT ![t].acked = x.delta.fp \in acks \/ onCard,
                                 ![t].pc = IF IsFiring(x.delta.alert) \/ exact
                                             THEN "apply" ELSE "siblings" ]
      /\ UNCHANGED <<alerts, cards, acks, muted, left>>

FiringWith(key) ==
  { f \in Fps : IdentityOf[f] = key /\ alerts[f] # None /\ IsFiring(alerts[f]) }

(* firing_siblings.                                                        *)
ReadSiblings(t) ==
  LET x == tasks[t]
  IN  /\ x.pc = "siblings"
      /\ tasks' = [ tasks EXCEPT ![t].siblings = FiringWith(Key(x)) \ {x.delta.fp},
                                 ![t].pc = "apply" ]
      /\ UNCHANGED <<alerts, cards, acks, muted, left>>

-----------------------------------------------------------------------------
(* decide, for a task x that has read all it needs.                        *)

(* A mutant: any card is replaced by a firing change, an open one too.     *)
OutlivedAnyCard(x, r) == x.existing[r] # None /\ IsFiring(x.delta.alert)

(* outlived: resolved for longer than the regroup window.                  *)
Outlived(x, r) ==
  /\ x.existing[r] # None
  /\ x.existing[r].card.state = "resolved"
  /\ x.existing[r].card.resolvedAt = "old"
  /\ IsFiring(x.delta.alert)

Updated(x) == { r \in Routes : x.existing[r] # None /\ ~Outlived(x, r) }

(* creation_for: muted or resolved before there was a card, it gets none.  *)
Created(x) ==
  IF IsFiring(x.delta.alert) THEN (Routes \ Updated(x)) \ x.mutes ELSE {}

(* A mutant: one resolution is enough, whoever else is still firing.       *)
StillFiringNobody(x, r) == {}

(* still_firing: the siblings that overrule a resolution.                  *)
StillFiring(x, r) ==
  IF TriggerFor(x.delta.kind, x.delta.alert, x.existing[r].card.state, r \in x.mutes) = "resolved"
    THEN x.siblings ELSE {}

(* update_for: the alert the card shows ...                                *)
Shown(x, r) ==
  LET card == x.existing[r].card
      live == StillFiring(x, r)
  IN  IF live = {} THEN x.delta.fp
      ELSE IF card.fp \in live THEN card.fp
      ELSE CHOOSE f \in live : TRUE

(* ... and the state it moves to.  A card re-armed for an alert that is    *)
(* suppressed comes back silenced.                                         *)
StateAfter(x, r) ==
  LET old == x.existing[r].card.state
      new == IF StillFiring(x, r) # {} THEN None
             ELSE NextState(old, TriggerFor(x.delta.kind, x.delta.alert, old, r \in x.mutes), x.acked)
  IN  IF old = "resolved" /\ new \in {"firing", "acked"} /\ x.delta.alert.suppressed
        THEN "silenced" ELSE new

-----------------------------------------------------------------------------
(***************************************************************************)
(* apply_decision: one transaction for the decision on every route.        *)
(***************************************************************************)
(* retire_key, if the card outlived still holds the key.                   *)
Retired(x) ==
  [ c \in DOMAIN cards |->
      IF /\ cards[c].key = Key(x)
         /\ \E r \in Created(x) : Outlived(x, r) /\ x.existing[r].id = c
        THEN [ cards[c] EXCEPT !.key = "superseded" ] ELSE cards[c] ]

(* A mutant: the unique index is missing.                                  *)
ConflictUnseen(x) == FALSE

(* The unique index on (channel_id, dedupe_key).                           *)
Conflict(x) == \E r \in Created(x) : Holders(Retired(x), r, Key(x)) # {}

NextId(r) == <<r, Cardinality({ c \in DOMAIN cards : c[1] = r }) + 1>>

(* insert_notification, set_card_alert and move_state.  The update names   *)
(* the row by its id, wherever the row has got to since it was read.       *)
Decided(x) ==
  LET fresh == { NextId(r) : r \in Created(x) }
      Update(c) == { r \in Updated(x) : x.existing[r].id = c }
  IN  [ c \in DOMAIN cards \cup fresh |->
          IF c \in fresh
            THEN NewCard(x.delta.fp, Key(x), InitialState(x.delta.alert),
                         IF Outlived(x, c[1]) THEN x.existing[c[1]].id ELSE None)
          ELSE IF Update(c) = {} THEN Retired(x)[c]
          ELSE LET card == [ cards[c] EXCEPT !.fp = Shown(x, c[1]) ]
               IN  IF StateAfter(x, c[1]) = None THEN card
                   ELSE Moved(card, StateAfter(x, c[1])) ]

Apply(t) ==
  LET x == tasks[t]
  IN  /\ x.pc = "apply"
      /\ cards' = IF Conflict(x) THEN cards ELSE Decided(x)
      /\ tasks' = [ tasks EXCEPT ![t] =
                      IF x.todo = {} THEN Idle
                      ELSE [ Idle EXCEPT !.pc = "next", !.todo = x.todo, !.mutes = x.mutes ] ]
      /\ UNCHANGED <<alerts, acks, muted, left>>

(* The request times out, a query fails or the process dies: what is left  *)
(* of the task is gone, and what it committed stays.                       *)
Fail(t) ==
  /\ tasks[t].pc # "idle"
  /\ Spend("faults")
  /\ tasks' = [ tasks EXCEPT ![t] = Idle ]
  /\ UNCHANGED <<alerts, cards, acks, muted>>

-----------------------------------------------------------------------------
(* A button or a command takes an alert; a second taker changes nothing.   *)
Acknowledge(f) ==
  /\ alerts[f] # None /\ f \notin acks
  /\ Spend("clicks")
  /\ acks' = acks \cup {f}
  /\ cards' = Triggered(f, "acknowledged")
  /\ UNCHANGED <<alerts, muted, tasks>>

Revoke(f) ==
  /\ f \in acks
  /\ Spend("clicks")
  /\ acks' = acks \ {f}
  /\ cards' = Triggered(f, "ack_revoked")
  /\ UNCHANGED <<alerts, muted, tasks>>

(* An ignore rule is added, revoked or runs out.  No card is touched.      *)
ToggleIgnore(r) ==
  /\ Spend("mutes")
  /\ muted' = IF r \in muted THEN muted \ {r} ELSE muted \cup {r}
  /\ UNCHANGED <<alerts, cards, acks, tasks>>

(* The dispatcher posts a card.                                            *)
Post(c) ==
  /\ cards[c].message = "unsent"
  /\ cards' = [ cards EXCEPT ![c].message = "live" ]
  /\ UNCHANGED <<alerts, acks, muted, tasks, left>>

(* A mutant: the key is not given up.                                      *)
OrphanKeepingKey(card) == [ card EXCEPT !.state = "orphaned", !.message = "gone" ]

OrphanRow(card) == [ card EXCEPT !.state = "orphaned", !.key = "orphaned", !.message = "gone" ]

(* orphan_notification: an edit or a resync finds the message deleted.     *)
Orphan(c) ==
  /\ cards[c].message = "live"
  /\ Spend("losses")
  /\ cards' = [ cards EXCEPT ![c] = OrphanRow(@) ]
  /\ UNCHANGED <<alerts, acks, muted, tasks>>

(* The regroup window of a resolved card ends.                             *)
Outlive(c) ==
  /\ cards[c].state = "resolved" /\ cards[c].resolvedAt = "recent"
  /\ cards' = [ cards EXCEPT ![c].resolvedAt = "old" ]
  /\ UNCHANGED <<alerts, acks, muted, tasks, left>>

Batches == UNION { [ S -> Alert ] : S \in SUBSET Fps \ {{}} }

TaskStep(t) ==
  \/ NextDelta(t)
  \/ ReadCard(t)
  \/ ReadAck(t)
  \/ ReadSiblings(t)
  \/ Apply(t)

Next ==
  \/ \E t \in Tasks, batch \in Batches : Deliver(t, batch)
  \/ \E t \in Tasks : TaskStep(t) \/ Fail(t)
  \/ \E f \in Fps : Acknowledge(f) \/ Revoke(f)
  \/ \E r \in Routes : ToggleIgnore(r)
  \/ \E c \in DOMAIN cards : Post(c) \/ Orphan(c) \/ Outlive(c)

Spec == Init /\ [][Next]_vars

-----------------------------------------------------------------------------
Task ==
  [ pc : {"idle", "start", "next", "cards", "ack", "siblings", "apply"},
    todo : SUBSET Changes, delta : Changes \cup {None},
    mutes : SUBSET Routes, unread : SUBSET Routes,
    existing : [ Routes -> ReadCards \cup {None} ],
    acked : BOOLEAN, siblings : SUBSET Fps ]

(* The type invariant; a key in a channel is one card's at most, and a     *)
(* card remembers when it resolved while, and only while, it is resolved   *)
(* (an orphaned row keeps what it had).                                    *)
TypeOK ==
  /\ alerts \in [ Fps -> Alert \cup {None} ]
  /\ DOMAIN cards \subseteq Routes \X Nat
  /\ \A c \in DOMAIN cards : cards[c] \in CardRow
  /\ \A r \in Routes, k \in Keys : \A c, d \in Holders(cards, r, k) : c = d
  /\ \A c \in DOMAIN cards : cards[c].state # "orphaned" =>
       (cards[c].resolvedAt # "never" <=> cards[c].state = "resolved")
  /\ acks \subseteq Fps /\ muted \subseteq Routes
  /\ tasks \in [ Tasks -> Task ]
  /\ left \in [ Sources -> Nat ]

Applies(t) == tasks[t].pc = "apply" /\ tasks'[t].pc # "apply" /\ left' = left

Agrees(x, r, state) ==
  IF IsFiring(x.delta.alert) THEN r \in x.mutes \/ IsOpen(state)
  ELSE x.siblings # {} \/ state = "resolved"

(* "A card that disagrees with its alert is corrected by whichever change  *)
(* reaches it next" (trigger_for): however many changes were lost before,  *)
(* once one is applied the card that holds the key is open if the alert    *)
(* fires and resolved if it does not.                                      *)
AppliedChangeIsShown ==
  [][ \A t \in Tasks : Applies(t) =>
        \A r \in Routes : \A c \in Holders(cards', r, Key(tasks[t])) :
          Agrees(tasks[t], r, cards'[c].state) ]_vars

(* "The winner's row is there" (apply_deltas): after a firing change was   *)
(* applied every route that does not ignore it has a card that stands for  *)
(* it, unless one was found deleted; and then the key is free for the next *)
(* change to post a fresh one.                                             *)
FiringHasCard ==
  [][ \A t \in Tasks : Applies(t) /\ IsFiring(tasks[t].delta.alert) =>
        \A r \in Routes \ tasks[t].mutes :
          LET holders == Holders(cards', r, Key(tasks[t]))
          IN  /\ \A c \in holders : cards'[c].state # "orphaned"
              /\ holders # {} \/ \E c \in DOMAIN cards : c[1] = r /\ cards[c].message = "gone" ]_vars

TurnsFiring(c) == cards[c].state # "firing" /\ cards'[c].state = "firing"

(* "A re-fire has to preserve it" (apply_deltas): no decision turns a card *)
(* red whose alert was held both when it was read and when it was applied. *)
RefireKeepsAckRead ==
  [][ \A t \in Tasks : Applies(t) /\ tasks[t].acked /\ tasks[t].delta.fp \in acks =>
        \A c \in DOMAIN cards : ~TurnsFiring(c) ]_vars

(* A route never has two cards about one alert that both look alive, while *)
(* no message was found deleted: a decision read before would revive it.   *)
OneOpenCard ==
  left["losses"] = Budget["losses"] => \A c, d \in DOMAIN cards :
    /\ c[1] = d[1]
    /\ IdentityOf[cards[c].fp] = IdentityOf[cards[d].fp]
    /\ \A e \in {c, d} : IsOpen(cards[e].state) \/ cards[e].state = "ignored"
    => c = d

(* Nothing was lost, muted or deleted on the way.                          *)
Undisturbed == \A s \in {"faults", "mutes", "losses"} : left[s] = Budget[s]

Quiet == \A t \in Tasks : tasks[t].pc = "idle"

(* "A card that merges fingerprints resolves when the last of them does,   *)
(* not the first" (AlertContext): with no change under way a card is       *)
(* resolved if and only if none of its alerts fires.                       *)
ResolvesWithLast ==
  Quiet /\ Undisturbed =>
    \A r \in Routes, k \in Keys : \A c \in Holders(cards, r, k) :
             cards[c].state = "resolved" <=> FiringWith(k) = {}

=============================================================================

---------------------------- MODULE CardsProofs ----------------------------
(***************************************************************************)
(* Proofs about the processes that meet on one card: Cards, for any number *)
(* of alerts, routes, tasks and events, and at the end Escalation, for any *)
(* number of cards, routes and sweeps.  For each, what its operators       *)
(* return, then the inductive invariant, then the theorems it yields.      *)
(***************************************************************************)
EXTENDS Cards, Escalation, FiniteSetTheorems, TLAPS

-----------------------------------------------------------------------------
(* The state machine.                                                      *)

Settled == States \ {"orphaned"}

(* No transition leads to an orphaned card.                                *)
LEMMA NextStateType ==
  ASSUME NEW state, NEW trigger, NEW acknowledged \in BOOLEAN
  PROVE  NextState(state, trigger, acknowledged) \in Settled \cup {None}
BY DEF NextState, Settled, States

LEMMA InitialStateType ==
  ASSUME NEW alert \in Alert
  PROVE  InitialState(alert) \in {"firing", "silenced"}
BY DEF InitialState

(* What is told of a change: a resolution that it does not fire, and so on.*)
Told(d) ==
  /\ d.kind = "resolved" => ~IsFiring(d.alert)
  /\ d.kind = "fired" => IsFiring(d.alert)

LEMMA ClassifyType ==
  ASSUME NEW previous, NEW incoming \in Alert, Classify(previous, incoming) # None
  PROVE  /\ Classify(previous, incoming) \in Events
         /\ Classify(previous, incoming) = "resolved" => ~IsFiring(incoming)
         /\ Classify(previous, incoming) = "fired" => IsFiring(incoming)
BY DEF Classify, Events

-----------------------------------------------------------------------------
(* The rows.                                                               *)

(* "Resolved since when" is known of resolved cards and of no others.      *)
Dated(card) == card.state # "orphaned" => (card.resolvedAt # "never" <=> card.state = "resolved")

LEMMA MovedRow ==
  ASSUME NEW card \in CardRow, NEW state \in Settled, Dated(card)
  PROVE  /\ Moved(card, state) \in CardRow
         /\ Dated(Moved(card, state))
         /\ Moved(card, state).key = card.key
         /\ Moved(card, state).state = state
         /\ Moved(card, state).message = card.message
         /\ Moved(card, state).fp = card.fp
<1> DEFINE since == IF state # "resolved" THEN "never"
                    ELSE IF card.resolvedAt = "never" THEN "recent" ELSE card.resolvedAt
           moved == [ card EXCEPT !.state = state, !.resolvedAt = since ]
<1>1. Moved(card, state) = moved
  BY DEF Moved, CardRow
<1>2. state \in States /\ since \in {"never", "recent", "old"}
  BY DEF Settled, CardRow
<1>3. moved \in CardRow
  BY <1>2 DEF CardRow
<1>4. moved.state = state /\ moved.resolvedAt = since
  BY DEF CardRow
<1>5. moved.key = card.key /\ moved.message = card.message /\ moved.fp = card.fp
  BY DEF CardRow
<1>6. Dated(moved)
  BY <1>4 DEF Dated, Settled
<1>7. QED BY <1>1, <1>3, <1>4, <1>5, <1>6

LEMMA NewRow ==
  ASSUME NEW fp \in Fps, NEW key \in Keys, NEW state \in Settled, state # "resolved",
         NEW supersedes \in (Routes \X Nat) \cup {None}
  PROVE  /\ NewCard(fp, key, state, supersedes) \in CardRow
         /\ Dated(NewCard(fp, key, state, supersedes))
         /\ NewCard(fp, key, state, supersedes).key = key
         /\ NewCard(fp, key, state, supersedes).state = state
         /\ NewCard(fp, key, state, supersedes).fp = fp
BY DEF NewCard, CardRow, Dated, Settled

(* The notifications stored: its rows are typed and dated, no two hold one *)
(* key of a channel, and each channel has finitely many.                   *)
Rows(notes, r) == { c \in DOMAIN notes : c[1] = r }

TableOK(notes) ==
  /\ DOMAIN notes \subseteq Routes \X Nat
  /\ \A c \in DOMAIN notes : notes[c] \in CardRow /\ Dated(notes[c])
  /\ \A r \in Routes, k \in Keys : \A c, d \in Holders(notes, r, k) : c = d
  /\ \A r \in Routes : IsFiniteSet(Rows(notes, r))

(* A row may change whatever it likes as long as it takes no key.          *)
LEMMA RowsChange ==
  ASSUME NEW notes, NEW new, TableOK(notes), DOMAIN new = DOMAIN notes,
         \A c \in DOMAIN notes : /\ new[c] \in CardRow /\ Dated(new[c])
                                 /\ new[c].key \in Keys => new[c].key = notes[c].key
  PROVE  TableOK(new)
<1>1. \A r \in Routes, k \in Keys : Holders(new, r, k) \subseteq Holders(notes, r, k)
  BY DEF Holders
<1>2. \A r \in Routes : Rows(new, r) = Rows(notes, r)
  BY DEF Rows
<1>3. QED BY <1>1, <1>2 DEF TableOK

-----------------------------------------------------------------------------
(* The inductive invariant.  A task remembers a route's card as a card of  *)
(* that route.                                                             *)
TaskOK(x) ==
  /\ x \in Task
  /\ x.pc \in {"cards", "ack", "siblings", "apply"} => x.delta \in Changes
  /\ \A r \in Routes : x.existing[r] # None => x.existing[r].id[1] = r

RestOK ==
  /\ alerts \in [ Fps -> Alert \cup {None} ]
  /\ acks \subseteq Fps
  /\ muted \subseteq Routes
  /\ left \in [ Sources -> Nat ]

Typed ==
  /\ TableOK(cards)
  /\ tasks \in [ Tasks -> Task ]
  /\ \A t \in Tasks : TaskOK(tasks[t])
  /\ RestOK

LEMMA TypedTypeOK == Typed => TypeOK
BY DEF Typed, TableOK, RestOK, TypeOK, Dated

(* A task that has nothing to do.                                          *)
LEMMA IdleTask == TaskOK(Idle)
BY CardsAssumption DEF Idle, TaskOK, Task

LEMMA InitTyped == Init => Typed
<1> SUFFICES ASSUME Init PROVE Typed
  OBVIOUS
<1>1. TableOK(cards)
  <2>1. \A r \in Routes : Rows(cards, r) = {}
    BY DEF Init, Rows
  <2>2. \A r \in Routes : IsFiniteSet(Rows(cards, r))
    BY <2>1, FS_EmptySet
  <2>3. QED BY <2>2 DEF Init, TableOK, Holders
<1>2. tasks \in [ Tasks -> Task ] /\ \A t \in Tasks : TaskOK(tasks[t])
  BY IdleTask DEF Init, TaskOK
<1>3. RestOK
  BY CardsAssumption DEF Init, RestOK
<1>4. QED BY <1>1, <1>2, <1>3 DEF Typed

(* A change is made of what a delivery brings.                             *)
LEMMA DeltasType ==
  ASSUME Typed, NEW batch \in Batches
  PROVE  Deltas(batch) \subseteq Changes /\ \A d \in Deltas(batch) : Told(d)
<1> SUFFICES ASSUME NEW f \in DOMAIN batch, Classify(alerts[f], batch[f]) # None
             PROVE  LET d == [ fp |-> f, kind |-> Classify(alerts[f], batch[f]), alert |-> batch[f] ]
                    IN  d \in Changes /\ Told(d)
  BY DEF Deltas
<1>1. f \in Fps /\ batch[f] \in Alert
  BY DEF Batches
<1>2. QED BY <1>1, ClassifyType DEF Changes, Told

(* When one task moves and the others stay, it is enough to look at it.    *)
LEMMA OneTaskMoves ==
  ASSUME Typed, NEW t \in Tasks, NEW x, TaskOK(x), tasks' = [ tasks EXCEPT ![t] = x ]
  PROVE  tasks' \in [ Tasks -> Task ] /\ \A u \in Tasks : TaskOK(tasks'[u])
BY DEF Typed, TaskOK

LEMMA DeliverTyped ==
  ASSUME Typed, NEW t \in Tasks, NEW batch \in Batches, Deliver(t, batch)
  PROVE  Typed'
<1> DEFINE x == [ Idle EXCEPT !.pc = "start", !.todo = Deltas(batch) ]
<1>1. TaskOK(x)
  BY DeltasType, CardsAssumption DEF Idle, TaskOK, Task
<1>2. tasks' \in [ Tasks -> Task ] /\ \A u \in Tasks : TaskOK(tasks'[u])
  <2>1. tasks' = tasks \/ tasks' = [ tasks EXCEPT ![t] = x ]
    BY DEF Deliver
  <2>2. QED BY <2>1, <1>1, OneTaskMoves DEF Typed
<1>3. RestOK'
  <2>1. alerts' \in [ Fps -> Alert \cup {None} ]
    BY DEF Deliver, Batches, Typed, RestOK
  <2>2. QED BY <2>1 DEF Deliver, Spend, Typed, RestOK, Sources
<1>4. QED BY <1>2, <1>3 DEF Deliver, Typed

LEMMA NextDeltaTyped ==
  ASSUME Typed, NEW t \in Tasks, NextDelta(t)
  PROVE  Typed'
<1>1. PICK d \in tasks[t].todo :
        tasks' = [ tasks EXCEPT ![t] =
                     [ Idle EXCEPT !.pc = "cards", !.delta = d, !.todo = tasks[t].todo \ {d},
                                   !.unread = Routes,
                                   !.mutes = IF tasks[t].pc = "start" THEN muted ELSE tasks[t].mutes ] ]
  BY DEF NextDelta
<1> DEFINE mutes == IF tasks[t].pc = "start" THEN muted ELSE tasks[t].mutes
           x == [ Idle EXCEPT !.pc = "cards", !.delta = d, !.todo = tasks[t].todo \ {d},
                              !.unread = Routes, !.mutes = mutes ]
<1>2. d \in Changes /\ tasks[t].todo \ {d} \subseteq Changes /\ mutes \subseteq Routes
  BY DEF Typed, RestOK, Task
<1>3. TaskOK(x)
  BY <1>2, CardsAssumption DEF Idle, TaskOK, Task
<1>4. QED BY <1>1, <1>3, OneTaskMoves DEF NextDelta, Typed, RestOK

LEMMA ReadCardTyped ==
  ASSUME Typed, NEW t \in Tasks, ReadCard(t)
  PROVE  Typed'
<1> DEFINE x == tasks[t]
<1>1. PICK r \in x.unread :
        LET holders == Holders(cards, r, Key(x))
            found == IF holders = {} THEN None
                     ELSE LET c == CHOOSE c \in holders : TRUE
                          IN  [ id |-> c, card |-> cards[c] ]
        IN  tasks' = [ tasks EXCEPT ![t].existing[r] = found,
                                    ![t].unread = @ \ {r},
                                    ![t].pc = IF x.unread = {r} THEN "ack" ELSE "cards" ]
  BY DEF ReadCard
<1> DEFINE holders == Holders(cards, r, Key(x))
           c == CHOOSE c \in holders : TRUE
           found == IF holders = {} THEN None ELSE [ id |-> c, card |-> cards[c] ]
           y == [ x EXCEPT !.existing[r] = found, !.unread = @ \ {r},
                           !.pc = IF x.unread = {r} THEN "ack" ELSE "cards" ]
<1>2. x \in Task /\ TaskOK(x) /\ r \in Routes /\ x.pc = "cards"
  BY DEF Typed, Task, ReadCard
<1>3. found \in ReadCards \cup {None} /\ (found # None => found.id[1] = r)
  <2>1. CASE holders = {}
    BY <2>1
  <2>2. CASE holders # {}
    <3>1. c \in holders
      BY <2>2
    <3>2. c \in DOMAIN cards /\ c[1] = r /\ c \in Routes \X Nat /\ cards[c] \in CardRow
      BY <3>1 DEF Holders, Typed, TableOK
    <3>3. QED BY <2>2, <3>2 DEF ReadCards
  <2>3. QED BY <2>1, <2>2
<1>4. tasks' = [ tasks EXCEPT ![t] = y ]
  BY <1>1
<1> HIDE DEF found
<1>5. TaskOK(y)
  <2>1. x.existing \in [ Routes -> ReadCards \cup {None} ]
    BY <1>2 DEF Task
  <2>2. /\ y.existing = [ x.existing EXCEPT ![r] = found ]
        /\ y.pc \in {"ack", "cards"}
        /\ y.delta = x.delta
        /\ y \in Task
    BY <1>2, <1>3, <2>1 DEF Task
  <2>3. \A q \in Routes : y.existing[q] = IF q = r THEN found ELSE x.existing[q]
    BY <2>1, <2>2
  <2>4. QED BY <1>2, <1>3, <2>2, <2>3 DEF TaskOK
<1>6. QED BY <1>4, <1>5, OneTaskMoves DEF ReadCard, Typed, RestOK

LEMMA ReadAckTyped ==
  ASSUME Typed, NEW t \in Tasks, ReadAck(t)
  PROVE  Typed'
<1> DEFINE x == tasks[t]
           onCard == \E r \in Routes : x.existing[r] # None /\ x.existing[r].card.state = "acked"
           acked == x.delta.fp \in acks \/ onCard
           pcs == IF IsFiring(x.delta.alert) \/ (\A f \in Fps : IdentityOf[f] = f)
                    THEN "apply" ELSE "siblings"
           y == [ x EXCEPT !.acked = acked, !.pc = pcs ]
<1>1. x \in Task /\ TaskOK(x) /\ x.pc = "ack"
  BY DEF Typed, ReadAck
<1>2. tasks' = [ tasks EXCEPT ![t] = y ]
  BY <1>1 DEF ReadAck
<1>3. acked \in BOOLEAN /\ pcs \in {"apply", "siblings"}
  OBVIOUS
<1> HIDE DEF acked, pcs
<1>4. TaskOK(y)
  BY <1>1, <1>3 DEF TaskOK, Task
<1>5. QED BY <1>2, <1>4, OneTaskMoves DEF ReadAck, Typed, RestOK

LEMMA ReadSiblingsTyped ==
  ASSUME Typed, NEW t \in Tasks, ReadSiblings(t)
  PROVE  Typed'
<1> DEFINE x == tasks[t]
           live == FiringWith(Key(x)) \ {x.delta.fp}
           y == [ x EXCEPT !.siblings = live, !.pc = "apply" ]
<1>1. x \in Task /\ TaskOK(x) /\ x.pc = "siblings"
  BY DEF Typed, ReadSiblings
<1>2. tasks' = [ tasks EXCEPT ![t] = y ]
  BY <1>1 DEF ReadSiblings
<1>3. live \subseteq Fps
  BY DEF FiringWith
<1> HIDE DEF live
<1>4. TaskOK(y)
  BY <1>1, <1>3 DEF TaskOK, Task
<1>5. QED BY <1>2, <1>4, OneTaskMoves DEF ReadSiblings, Typed, RestOK

LEMMA FailTyped ==
  ASSUME Typed, NEW t \in Tasks, Fail(t)
  PROVE  Typed'
<1>1. tasks' \in [ Tasks -> Task ] /\ \A u \in Tasks : TaskOK(tasks'[u])
  BY IdleTask, OneTaskMoves DEF Fail
<1>2. QED BY <1>1 DEF Fail, Spend, Typed, RestOK, Sources

(* Acknowledging and revoking moves cards and nothing else of theirs.      *)
LEMMA TriggeredTable ==
  ASSUME Typed, NEW f \in Fps, NEW trigger \in {"acknowledged", "ack_revoked"}
  PROVE  TableOK(Triggered(f, trigger))
<1> DEFINE new == Triggered(f, trigger)
<1>1. DOMAIN new = DOMAIN cards
  BY DEF Triggered
<1>2. ASSUME NEW c \in DOMAIN cards
      PROVE  new[c] \in CardRow /\ Dated(new[c]) /\ new[c].key = cards[c].key
  <2> DEFINE state == NextState(cards[c].state, trigger, trigger = "acknowledged")
  <2>1. new[c] = IF c \in CardsOf(f) /\ state # None THEN Moved(cards[c], state) ELSE cards[c]
    BY DEF Triggered
  <2>2. state \in Settled \cup {None}
    BY NextStateType
  <2>3. cards[c] \in CardRow /\ Dated(cards[c])
    BY DEF Typed, TableOK
  <2> HIDE DEF state
  <2>4. QED BY <2>1, <2>2, <2>3, MovedRow
<1>3. QED BY <1>1, <1>2, RowsChange DEF Typed

LEMMA ClickTyped ==
  ASSUME Typed, NEW f \in Fps, Acknowledge(f) \/ Revoke(f)
  PROVE  Typed'
<1>1. TableOK(cards')
  BY TriggeredTable DEF Acknowledge, Revoke
<1>2. RestOK'
  BY DEF Acknowledge, Revoke, Spend, Typed, RestOK, Sources
<1>3. QED BY <1>1, <1>2 DEF Acknowledge, Revoke, Typed

(* One card changes and takes no key.                                      *)
LEMMA CardChange ==
  ASSUME Typed, NEW c \in DOMAIN cards, NEW new, new \in CardRow, Dated(new),
         new.key \in Keys => new.key = cards[c].key,
         cards' = [ cards EXCEPT ![c] = new ]
  PROVE  TableOK(cards')
BY RowsChange DEF Typed, TableOK

LEMMA CardTyped ==
  ASSUME Typed, NEW c \in DOMAIN cards, Post(c) \/ Orphan(c) \/ Outlive(c)
  PROVE  Typed'
<1>1. cards[c] \in CardRow /\ Dated(cards[c])
  BY DEF Typed, TableOK
<1>2. TableOK(cards')
  <2>1. CASE Post(c)
    BY <1>1, <2>1, CardChange DEF Post, CardRow, Dated
  <2>2. CASE Orphan(c)
    BY <1>1, <2>2, CardChange, CardsAssumption DEF Orphan, OrphanRow, CardRow, Dated, States
  <2>3. CASE Outlive(c)
    BY <1>1, <2>3, CardChange DEF Outlive, CardRow, Dated
  <2>4. QED BY <2>1, <2>2, <2>3
<1>3. RestOK'
  BY DEF Post, Orphan, Outlive, Spend, Typed, RestOK, Sources
<1>4. QED BY <1>2, <1>3 DEF Post, Orphan, Outlive, Typed

-----------------------------------------------------------------------------
(* A decision, row by row.                                                 *)
Fresh(x) == { NextId(r) : r \in Created(x) }

RouteOf(x, c) == { r \in Updated(x) : x.existing[r].id = c }

LEMMA StateAfterType ==
  ASSUME NEW x \in Task, NEW r
  PROVE  StateAfter(x, r) \in Settled \cup {None}
<1> DEFINE old == x.existing[r].card.state
           after == NextState(old, TriggerFor(x.delta.kind, x.delta.alert, old, r \in x.mutes), x.acked)
           new == IF StillFiring(x, r) # {} THEN None ELSE after
<1>1. after \in Settled \cup {None}
  BY NextStateType DEF Task
<1>2. StateAfter(x, r) = IF old = "resolved" /\ new \in {"firing", "acked"} /\ x.delta.alert.suppressed
                           THEN "silenced" ELSE new
  BY DEF StateAfter
<1> HIDE DEF after
<1>3. QED BY <1>1, <1>2 DEF Settled, States

LEMMA ShownType ==
  ASSUME NEW x \in Task, x.delta \in Changes, NEW r \in Routes
  PROVE  Shown(x, r) \in Fps
<1>1. StillFiring(x, r) \subseteq Fps /\ x.delta.fp \in Fps
  BY DEF StillFiring, Task, Changes
<1>2. StillFiring(x, r) # {} => (CHOOSE f \in StillFiring(x, r) : TRUE) \in StillFiring(x, r)
  OBVIOUS
<1>3. QED BY <1>1, <1>2 DEF Shown

(* Giving up a key changes nothing else.                                   *)
LEMMA RetiredRow ==
  ASSUME Typed, NEW x, NEW c \in DOMAIN cards
  PROVE  /\ Retired(x)[c] \in CardRow /\ Dated(Retired(x)[c])
         /\ Retired(x)[c].key \in {cards[c].key, "superseded"}
         /\ Retired(x)[c].state = cards[c].state
         /\ Retired(x)[c].message = cards[c].message /\ Retired(x)[c].fp = cards[c].fp
         /\ \A r \in Created(x) :
              Outlived(x, r) /\ x.existing[r].id = c /\ cards[c].key = Key(x)
                => Retired(x)[c].key = "superseded"
         /\ \/ cards[c].key # Key(x)
            \/ \A r \in Created(x) : ~(Outlived(x, r) /\ x.existing[r].id = c)
            => Retired(x)[c] = cards[c]
<1>1. cards[c] \in CardRow /\ Dated(cards[c])
  BY DEF Typed, TableOK
<1>2. Retired(x)[c] = IF /\ cards[c].key = Key(x)
                         /\ \E r \in Created(x) : Outlived(x, r) /\ x.existing[r].id = c
                        THEN [ cards[c] EXCEPT !.key = "superseded" ] ELSE cards[c]
  BY DEF Retired
<1>3. /\ [ cards[c] EXCEPT !.key = "superseded" ] \in CardRow
      /\ Dated([ cards[c] EXCEPT !.key = "superseded" ])
      /\ [ cards[c] EXCEPT !.key = "superseded" ].key = "superseded"
      /\ [ cards[c] EXCEPT !.key = "superseded" ].state = cards[c].state
      /\ [ cards[c] EXCEPT !.key = "superseded" ].message = cards[c].message
      /\ [ cards[c] EXCEPT !.key = "superseded" ].fp = cards[c].fp
  BY <1>1 DEF CardRow, Dated
<1>4. QED BY <1>1, <1>2, <1>3

LEMMA DecidedDomain ==
  ASSUME NEW x
  PROVE  DOMAIN Decided(x) = DOMAIN cards \cup Fresh(x)
BY DEF Decided, Fresh

LEMMA FreshRow ==
  ASSUME Typed, NEW x, TaskOK(x), x.delta \in Changes, NEW r \in Created(x)
  PROVE  /\ NextId(r) \in Routes \X Nat /\ NextId(r)[1] = r /\ r \in Routes
         /\ Decided(x)[NextId(r)] \in CardRow /\ Dated(Decided(x)[NextId(r)])
         /\ Decided(x)[NextId(r)].key = Key(x)
         /\ Decided(x)[NextId(r)].state \in {"firing", "silenced"}
         /\ Decided(x)[NextId(r)].fp = x.delta.fp
<1> DEFINE c == NextId(r)
           old == IF Outlived(x, r) THEN x.existing[r].id ELSE None
<1>1. r \in Routes /\ x \in Task
  BY DEF Created, Updated, TaskOK
<1>2. Cardinality(Rows(cards, r)) \in Nat
  BY <1>1, FS_CardinalityType DEF Typed, TableOK
<1>3. c \in Routes \X Nat /\ c[1] = r
  BY <1>1, <1>2 DEF NextId, Rows
<1>4. Decided(x)[c] = NewCard(x.delta.fp, Key(x), InitialState(x.delta.alert), old)
  BY <1>3 DEF Decided
<1>5. x.delta.fp \in Fps /\ Key(x) \in Keys /\ x.delta.alert \in Alert
  BY CardsAssumption DEF Changes, Key, Keys
<1>6. InitialState(x.delta.alert) \in {"firing", "silenced"}
  BY <1>5, InitialStateType
<1>7. old \in (Routes \X Nat) \cup {None}
  BY <1>1 DEF Outlived, Task, ReadCards
<1>8. QED BY <1>3, <1>4, <1>5, <1>6, <1>7, NewRow DEF Settled, States

LEMMA OldRow ==
  ASSUME Typed, NEW x, TaskOK(x), x.delta \in Changes, NEW c \in DOMAIN cards \ Fresh(x)
  PROVE  /\ Decided(x)[c] \in CardRow /\ Dated(Decided(x)[c])
         /\ Decided(x)[c].key \in {cards[c].key, "superseded"}
         /\ Decided(x)[c].message = cards[c].message
         /\ RouteOf(x, c) = {} => Decided(x)[c] = Retired(x)[c]
         /\ \A r \in RouteOf(x, c) :
              /\ c[1] = r
              /\ Decided(x)[c].key = cards[c].key /\ Decided(x)[c].fp = Shown(x, r)
              /\ Decided(x)[c].state =
                   IF StateAfter(x, r) = None THEN cards[c].state ELSE StateAfter(x, r)
         /\ Decided(x)[c].key = Retired(x)[c].key
<1>1. cards[c] \in CardRow /\ Dated(cards[c]) /\ c \in Routes \X Nat /\ x \in Task
  BY DEF Typed, TableOK, TaskOK
<1>2. CASE RouteOf(x, c) = {}
  <2>1. Decided(x)[c] = Retired(x)[c]
    BY <1>2 DEF Decided, Fresh, RouteOf
  <2>2. QED BY <1>2, <2>1, RetiredRow
<1>3. ASSUME NEW r \in RouteOf(x, c)
      PROVE  c[1] = r
  BY <1>3 DEF RouteOf, Updated, TaskOK
<1>4. CASE RouteOf(x, c) # {}
  <2> DEFINE r == c[1]
             card == [ cards[c] EXCEPT !.fp = Shown(x, r) ]
             after == StateAfter(x, r)
  <2>1. RouteOf(x, c) = {r}
    BY <1>3, <1>4
  <2>2. Decided(x)[c] = IF after = None THEN card ELSE Moved(card, after)
    BY <1>4 DEF Decided, Fresh, RouteOf
  <2>3. Shown(x, r) \in Fps
    BY <1>1, ShownType
  <2>4. card \in CardRow /\ Dated(card) /\ card.key = cards[c].key /\ card.state = cards[c].state
        /\ card.message = cards[c].message /\ card.fp = Shown(x, r)
    BY <1>1, <2>3 DEF CardRow, Dated
  <2>5. after \in Settled \cup {None}
    BY <1>1, StateAfterType
  <2>6. Retired(x)[c].key = cards[c].key
    <3>1. r \in Updated(x)
      BY <2>1 DEF RouteOf
    <3>2. ASSUME NEW q \in Created(x), Outlived(x, q), x.existing[q].id = c
          PROVE  q = r
      BY <3>2 DEF Created, Outlived, TaskOK
    <3>3. QED BY <3>1, <3>2, RetiredRow DEF Updated
  <2> HIDE DEF after, card
  <2>7. /\ Decided(x)[c] \in CardRow /\ Dated(Decided(x)[c])
        /\ Decided(x)[c].key = cards[c].key
        /\ Decided(x)[c].message = cards[c].message /\ Decided(x)[c].fp = Shown(x, r)
        /\ Decided(x)[c].state = IF after = None THEN cards[c].state ELSE after
    BY <2>2, <2>4, <2>5, MovedRow
  <2>8. QED BY <2>1, <2>6, <2>7 DEF after
<1>5. QED BY <1>2, <1>4

LEMMA DecidedTable ==
  ASSUME Typed, NEW x, TaskOK(x), x.delta \in Changes, ~Conflict(x)
  PROVE  TableOK(Decided(x))
<1> DEFINE new == Decided(x)
<1>1. DOMAIN new = DOMAIN cards \cup Fresh(x)
  BY DecidedDomain
<1>2. DOMAIN new \subseteq Routes \X Nat
  BY <1>1, FreshRow DEF Fresh, Typed, TableOK
<1>3. \A c \in DOMAIN new : new[c] \in CardRow /\ Dated(new[c])
  BY <1>1, FreshRow, OldRow DEF Fresh
<1>4. ASSUME NEW r \in Routes, NEW k \in Keys,
             NEW c \in Holders(new, r, k), NEW d \in Holders(new, r, k)
      PROVE  c = d
  <2>1. /\ c \in DOMAIN new /\ c[1] = r /\ new[c].key = k
        /\ d \in DOMAIN new /\ d[1] = r /\ new[d].key = k
    BY DEF Holders
  <2>2. ASSUME NEW e \in DOMAIN new, e \notin Fresh(x), new[e].key = k, e[1] = r
        PROVE  e \in Holders(Retired(x), r, k) /\ e \in Holders(cards, r, k)
    <3>1. e \in DOMAIN cards \ Fresh(x)
      BY <1>1, <2>2
    <3>2. Retired(x)[e].key = k /\ cards[e].key = k
      BY <2>2, <3>1, OldRow, CardsAssumption
    <3>3. DOMAIN Retired(x) = DOMAIN cards
      BY DEF Retired
    <3>4. QED BY <2>2, <3>1, <3>2, <3>3 DEF Holders
  <2>3. ASSUME NEW e \in Fresh(x), e[1] = r
        PROVE  r \in Created(x) /\ e = NextId(r) /\ new[e].key = Key(x)
    BY <2>3, FreshRow DEF Fresh
  <2>4. CASE c \in Fresh(x) /\ d \in Fresh(x)
    BY <2>1, <2>3, <2>4
  <2>5. CASE c \notin Fresh(x) /\ d \notin Fresh(x)
    BY <2>1, <2>2, <2>5 DEF Typed, TableOK
  <2>6. ASSUME NEW e \in Fresh(x), e[1] = r, new[e].key = k,
               NEW o \in DOMAIN new, o \notin Fresh(x), new[o].key = k, o[1] = r
        PROVE  FALSE
    BY <2>2, <2>3, <2>6 DEF Conflict
  <2>7. QED BY <2>1, <2>4, <2>5, <2>6
<1>5. ASSUME NEW r \in Routes
      PROVE  IsFiniteSet(Rows(new, r))
  <2>1. Rows(new, r) \subseteq Rows(cards, r) \cup {NextId(r)}
    BY <1>1, FreshRow DEF Rows, Fresh
  <2>2. IsFiniteSet(Rows(cards, r) \cup {NextId(r)})
    BY FS_AddElement DEF Typed, TableOK
  <2>3. QED BY <2>1, <2>2, FS_Subset
<1>6. QED BY <1>2, <1>3, <1>4, <1>5 DEF TableOK

LEMMA ApplyTyped ==
  ASSUME Typed, NEW t \in Tasks, Apply(t)
  PROVE  Typed'
<1> DEFINE x == tasks[t]
           next == [ Idle EXCEPT !.pc = "next", !.todo = x.todo, !.mutes = x.mutes ]
<1>1. TaskOK(x) /\ x.delta \in Changes /\ x \in Task
  BY DEF Apply, Typed, TaskOK
<1>2. TableOK(cards')
  BY <1>1, DecidedTable DEF Apply, Typed
<1>3. TaskOK(next)
  BY <1>1, CardsAssumption DEF Idle, TaskOK, Task
<1>4. tasks' = [ tasks EXCEPT ![t] = IF x.todo = {} THEN Idle ELSE next ]
  BY DEF Apply
<1>5. tasks' \in [ Tasks -> Task ] /\ \A u \in Tasks : TaskOK(tasks'[u])
  BY <1>3, <1>4, IdleTask, OneTaskMoves
<1>6. QED BY <1>2, <1>5 DEF Apply, Typed, RestOK

LEMMA NextTyped == Typed /\ [Next]_vars => Typed'
<1> SUFFICES ASSUME Typed, [Next]_vars PROVE Typed'
  OBVIOUS
<1>1. ASSUME NEW t \in Tasks, NEW batch \in Batches, Deliver(t, batch) PROVE Typed'
  BY <1>1, DeliverTyped
<1>2. ASSUME NEW t \in Tasks, TaskStep(t) \/ Fail(t) PROVE Typed'
  BY <1>2, NextDeltaTyped, ReadCardTyped, ReadAckTyped, ReadSiblingsTyped, ApplyTyped, FailTyped
  DEF TaskStep
<1>3. ASSUME NEW f \in Fps, Acknowledge(f) \/ Revoke(f) PROVE Typed'
  BY <1>3, ClickTyped
<1>4. ASSUME NEW r \in Routes, ToggleIgnore(r) PROVE Typed'
  BY <1>4 DEF ToggleIgnore, Spend, Typed, RestOK, Sources
<1>5. ASSUME NEW c \in DOMAIN cards, Post(c) \/ Orphan(c) \/ Outlive(c) PROVE Typed'
  BY <1>5, CardTyped
<1>6. CASE UNCHANGED vars
  BY <1>6 DEF vars, Typed, RestOK
<1>7. QED BY <1>1, <1>2, <1>3, <1>4, <1>5, <1>6 DEF Next

(* The tables and the tasks are typed, and the unique key of a channel is  *)
(* one card's, whichever tasks race (the index on channel and dedupe key,  *)
(* and apply_decision's answer to a conflict).                             *)
THEOREM CardsTypeCorrect == Spec => []TypeOK
<1>1. Spec => []Typed
  BY InitTyped, NextTyped, PTL DEF Spec
<1>2. QED BY <1>1, TypedTypeOK, PTL

-----------------------------------------------------------------------------
(* What a task may rely on when it applies a change.  A change says which  *)
(* way its alert went, and every route's card was read.                    *)
Deciding(t) == tasks[t].pc \in {"cards", "ack", "siblings", "apply"}

Informed ==
  \A t \in Tasks :
    /\ \A d \in tasks[t].todo : Told(d)
    /\ Deciding(t) => Told(tasks[t].delta)
    /\ tasks[t].pc \in {"ack", "siblings", "apply"} => tasks[t].unread = {}

(* A card that holds its key has its message, or will get one.             *)
KeyedAlive == \A c \in DOMAIN cards : cards[c].key \in Keys => cards[c].state # "orphaned"

(* Between the read of a card and the change only people move it.          *)
SameButForAck(s, t) == s = t \/ {s, t} \subseteq {"firing", "acked"}

(* The changes a task still has to apply.                                  *)
Pending(x) ==
  x.todo \cup (IF x.pc \in {"cards", "ack", "siblings", "apply"} THEN {x.delta} ELSE {})

(* Tasks may overlap as they like, but two of them never have changes of   *)
(* one identity to apply at once.  It is what the code does not ensure,    *)
(* and as much as it has to be given: what is shown under it holds while   *)
(* the changes of one card come one after the other.                       *)
Apart ==
  \A t, u \in Tasks : t # u =>
    \A d \in Pending(tasks[t]), e \in Pending(tasks[u]) : IdentityOf[d.fp] # IdentityOf[e.fp]

(* Then the holder of a key a task has read is the card it remembers.      *)
RemembersIts(t) ==
  Deciding(t) =>
    \A r \in Routes \ tasks[t].unread : \A c \in Holders(cards, r, Key(tasks[t])) :
      /\ tasks[t].existing[r] # None
      /\ tasks[t].existing[r].id = c
      /\ SameButForAck(tasks[t].existing[r].card.state, cards[c].state)

Remembers == \A t \in Tasks : RemembersIts(t)

(* A card a task has read held the task's key, and takes no other.         *)
ReadIts(t) ==
  Deciding(t) =>
    \A r \in Routes : tasks[t].existing[r] # None =>
      /\ tasks[t].existing[r].id \in DOMAIN cards
      /\ cards[tasks[t].existing[r].id].key \in {Key(tasks[t]), "superseded", "orphaned"}

ReadKeys == \A t \in Tasks : ReadIts(t)

(* Any tasks: a card once read still holds its key, or another does, or    *)
(* one of the route was found deleted.                                     *)
KeyHeld ==
  \A t \in Tasks : Deciding(t) =>
    \A r \in Routes \ tasks[t].unread : tasks[t].existing[r] # None =>
      \/ Holders(cards, r, Key(tasks[t])) # {}
      \/ \E c \in DOMAIN cards : c[1] = r /\ cards[c].message = "gone"

OneRoute == \A r, s \in Routes : r = s

(* The cards of a route are numbered in the order they were created.       *)
Numbered == \A r \in Routes : \A c \in Rows(cards, r) : c[2] \in 1..Cardinality(Rows(cards, r))

(* Every step leaves the cards alone but for the following, or applies a   *)
(* decision.                                                               *)
Calm ==
  /\ DOMAIN cards' = DOMAIN cards
  /\ \A c \in DOMAIN cards :
       \/ /\ cards'[c].key = cards[c].key /\ cards'[c].fp = cards[c].fp
          /\ SameButForAck(cards[c].state, cards'[c].state)
          /\ cards[c].message = "gone" => cards'[c].message = "gone"
       \/ cards'[c].key = "orphaned" /\ cards'[c].message = "gone" /\ Spend("losses")

LEMMA ClickCalm ==
  ASSUME Typed, NEW f \in Fps, Acknowledge(f) \/ Revoke(f)
  PROVE  Calm
<1> SUFFICES ASSUME NEW trigger \in {"acknowledged", "ack_revoked"},
                    cards' = Triggered(f, trigger),
                    NEW c \in DOMAIN cards
             PROVE  /\ cards'[c].key = cards[c].key /\ cards'[c].fp = cards[c].fp
                    /\ SameButForAck(cards[c].state, cards'[c].state)
                    /\ cards[c].message = cards'[c].message
  <2>1. DOMAIN cards' = DOMAIN cards
    BY DEF Acknowledge, Revoke, Triggered
  <2>2. QED BY <2>1 DEF Acknowledge, Revoke, Calm
<1> DEFINE state == NextState(cards[c].state, trigger, trigger = "acknowledged")
<1>1. cards'[c] = IF c \in CardsOf(f) /\ state # None THEN Moved(cards[c], state) ELSE cards[c]
  BY DEF Triggered
<1>2. cards[c] \in CardRow /\ Dated(cards[c])
  BY DEF Typed, TableOK
<1>3. state \in Settled \cup {None}
  BY NextStateType
<1>4. state # None => SameButForAck(cards[c].state, state)
  BY DEF NextState, SameButForAck
<1> HIDE DEF state
<1>5. QED BY <1>1, <1>2, <1>3, <1>4, MovedRow DEF SameButForAck

LEMMA CardCalm ==
  ASSUME Typed, NEW c \in DOMAIN cards, Post(c) \/ Orphan(c) \/ Outlive(c)
  PROVE  Calm
<1>1. cards[c] \in CardRow
  BY DEF Typed, TableOK
<1>2. CASE Post(c)
  BY <1>1, <1>2 DEF Post, Calm, SameButForAck, CardRow
<1>3. CASE Orphan(c)
  BY <1>1, <1>3 DEF Orphan, OrphanRow, Calm, SameButForAck, CardRow
<1>4. CASE Outlive(c)
  BY <1>1, <1>4 DEF Outlive, Calm, SameButForAck, CardRow
<1>5. QED BY <1>2, <1>3, <1>4

LEMMA SameCalm == ASSUME cards' = cards PROVE Calm
BY DEF Calm, SameButForAck

(* Seen from the cards, and from the tasks: who moves what.                *)
LEMMA StepKinds ==
  ASSUME Typed, [Next]_vars
  PROVE  \/ Calm /\ tasks' = tasks /\ alerts' = alerts /\ (muted' = muted \/ Spend("mutes"))
         \/ cards' = cards /\ \E t \in Tasks :
              \/ \E batch \in Batches : Deliver(t, batch)
              \/ NextDelta(t) \/ ReadCard(t) \/ ReadAck(t) \/ ReadSiblings(t) \/ Fail(t)
         \/ \E t \in Tasks : Apply(t)
<1> DEFINE Still == Calm /\ tasks' = tasks /\ alerts' = alerts /\ (muted' = muted \/ Spend("mutes"))
<1>1. ASSUME NEW t \in Tasks, TaskStep(t) \/ Fail(t)
      PROVE  Apply(t) \/ (cards' = cards /\ (NextDelta(t) \/ ReadCard(t) \/ ReadAck(t) \/ ReadSiblings(t) \/ Fail(t)))
  BY <1>1 DEF TaskStep, NextDelta, ReadCard, ReadAck, ReadSiblings, Fail
<1>2. ASSUME NEW t \in Tasks, NEW batch \in Batches, Deliver(t, batch) PROVE cards' = cards
  BY <1>2 DEF Deliver
<1>3. ASSUME NEW f \in Fps, Acknowledge(f) \/ Revoke(f) PROVE Still
  BY <1>3, ClickCalm DEF Acknowledge, Revoke
<1>4. ASSUME NEW c \in DOMAIN cards, Post(c) \/ Orphan(c) \/ Outlive(c) PROVE Still
  BY <1>4, CardCalm DEF Post, Orphan, Outlive
<1>5. ASSUME NEW r \in Routes, ToggleIgnore(r) PROVE Still
  BY <1>5, SameCalm DEF ToggleIgnore
<1>6. ASSUME UNCHANGED vars PROVE Still
  BY <1>6, SameCalm DEF vars
<1>7. QED BY <1>1, <1>2, <1>3, <1>4, <1>5, <1>6 DEF Next

(* A decision is applied whole or not at all.                              *)
LEMMA ApplyCards ==
  ASSUME Typed, NEW t \in Tasks, Apply(t)
  PROVE  /\ TaskOK(tasks[t]) /\ tasks[t].delta \in Changes
         /\ cards' = IF Conflict(tasks[t]) THEN cards ELSE Decided(tasks[t])
         /\ tasks'[t].pc \in {"idle", "next"}
         /\ \A u \in Tasks \ {t} : tasks'[u] = tasks[u]
         /\ \A u \in Tasks : tasks'[u].todo \subseteq tasks[u].todo
         /\ left' = left
BY DEF Apply, Typed, TaskOK, Idle

(* What reading one card does to the task.                                 *)
LEMMA ReadCardEffect ==
  ASSUME Typed, NEW t \in Tasks, ReadCard(t)
  PROVE  /\ tasks[t].pc = "cards"
         /\ tasks'[t].todo = tasks[t].todo /\ tasks'[t].delta = tasks[t].delta
         /\ tasks'[t].siblings = tasks[t].siblings /\ tasks'[t].mutes = tasks[t].mutes
         /\ \A u \in Tasks \ {t} : tasks'[u] = tasks[u]
         /\ \E r \in tasks[t].unread :
              /\ r \in Routes
              /\ tasks'[t].pc = IF tasks[t].unread = {r} THEN "ack" ELSE "cards"
              /\ tasks'[t].unread = tasks[t].unread \ {r}
              /\ \A q \in Routes \ {r} : tasks'[t].existing[q] = tasks[t].existing[q]
              /\ LET holders == Holders(cards, r, Key(tasks[t]))
                 IN  \/ holders = {} /\ tasks'[t].existing[r] = None
                     \/ \E c \in holders :
                          /\ tasks'[t].existing[r] # None
                          /\ tasks'[t].existing[r].id = c
                          /\ tasks'[t].existing[r].card = cards[c]
<1> DEFINE x == tasks[t]
<1>1. PICK r \in x.unread :
        LET holders == Holders(cards, r, Key(x))
            found == IF holders = {} THEN None
                     ELSE LET c == CHOOSE c \in holders : TRUE
                          IN  [ id |-> c, card |-> cards[c] ]
        IN  tasks' = [ tasks EXCEPT ![t].existing[r] = found,
                                    ![t].unread = @ \ {r},
                                    ![t].pc = IF x.unread = {r} THEN "ack" ELSE "cards" ]
  BY DEF ReadCard
<1> DEFINE holders == Holders(cards, r, Key(x))
           c == CHOOSE c \in holders : TRUE
           found == IF holders = {} THEN None ELSE [ id |-> c, card |-> cards[c] ]
           y == [ x EXCEPT !.existing[r] = found, !.unread = @ \ {r},
                           !.pc = IF x.unread = {r} THEN "ack" ELSE "cards" ]
<1>2. x \in Task /\ r \in Routes /\ x.pc = "cards" /\ x.existing \in [ Routes -> ReadCards \cup {None} ]
  BY DEF Typed, Task, ReadCard
<1>3. tasks' = [ tasks EXCEPT ![t] = y ]
  BY <1>1
<1>4. holders # {} => /\ c \in holders /\ found # None
                      /\ found.id = c /\ found.card = cards[c]
  <2>1. ASSUME holders # {} PROVE c \in holders
    BY <2>1
  <2>2. ASSUME holders # {} PROVE [ id |-> c, card |-> cards[c] ] \in ReadCards
    BY <2>1, <2>2 DEF Holders, Typed, TableOK, ReadCards
  <2>3. QED BY <2>1, <2>2, CardsAssumption
<1>5. holders = {} => found = None
  OBVIOUS
<1> HIDE DEF found, c, holders
<1>6. /\ y.existing = [ x.existing EXCEPT ![r] = found ]
      /\ y.unread = x.unread \ {r} /\ y.todo = x.todo /\ y.delta = x.delta
      /\ y.siblings = x.siblings /\ y.mutes = x.mutes
      /\ y.pc = IF x.unread = {r} THEN "ack" ELSE "cards"
  BY <1>2 DEF Task
<1>7. \A q \in Routes : y.existing[q] = IF q = r THEN found ELSE x.existing[q]
  BY <1>2, <1>6
<1>8. tasks'[t] = y /\ \A u \in Tasks \ {t} : tasks'[u] = tasks[u]
  BY <1>3 DEF Typed
<1> HIDE DEF y
<1>9. QED BY <1>2, <1>4, <1>5, <1>6, <1>7, <1>8 DEF holders

-----------------------------------------------------------------------------
LEMMA InitInformed ==
  Init => Informed /\ KeyedAlive /\ Remembers /\ ReadKeys /\ KeyHeld /\ Numbered
BY DEF Init, Informed, KeyedAlive, Remembers, RemembersIts, ReadKeys, ReadIts, KeyHeld, Numbered, Rows, Deciding, Idle

LEMMA NextInformed == Typed /\ Informed /\ [Next]_vars => Informed'
<1> SUFFICES ASSUME Typed, Informed, [Next]_vars PROVE Informed'
  OBVIOUS
<1>1. CASE tasks' = tasks
  BY <1>1 DEF Informed, Deciding
<1>2. ASSUME NEW t \in Tasks, NEW batch \in Batches, Deliver(t, batch)
      PROVE  Informed'
  BY <1>2, DeltasType DEF Deliver, Informed, Deciding, Idle, Typed
<1>3. ASSUME NEW t \in Tasks, NextDelta(t)
      PROVE  Informed'
  BY <1>3 DEF NextDelta, Informed, Deciding, Idle, Typed
<1>4. ASSUME NEW t \in Tasks, ReadCard(t)
      PROVE  Informed'
  BY <1>4, ReadCardEffect DEF Informed, Deciding
<1>5. ASSUME NEW t \in Tasks, ReadAck(t) \/ ReadSiblings(t)
      PROVE  Informed'
  BY <1>5 DEF ReadAck, ReadSiblings, Informed, Deciding, Typed, Task
<1>6. ASSUME NEW t \in Tasks, Fail(t)
      PROVE  Informed'
  BY <1>6 DEF Fail, Informed, Deciding, Idle, Typed
<1>7. ASSUME NEW t \in Tasks, Apply(t)
      PROVE  Informed'
  BY <1>7, ApplyCards DEF Informed, Deciding
<1>8. QED BY <1>1, <1>2, <1>3, <1>4, <1>5, <1>6, <1>7, StepKinds

LEMMA NextAlive == Typed /\ KeyedAlive /\ [Next]_vars => KeyedAlive'
<1> SUFFICES ASSUME Typed, KeyedAlive, [Next]_vars PROVE KeyedAlive'
  OBVIOUS
<1>1. CASE Calm
  BY <1>1, CardsAssumption DEF Calm, KeyedAlive, SameButForAck
<1>2. CASE cards' = cards
  BY <1>2 DEF KeyedAlive
<1>3. ASSUME NEW t \in Tasks, Apply(t), ~Conflict(tasks[t]),
             NEW c \in DOMAIN cards', cards'[c].key \in Keys
      PROVE  cards'[c].state # "orphaned"
  <2> DEFINE x == tasks[t]
  <2>1. cards' = Decided(x) /\ TaskOK(x) /\ x.delta \in Changes /\ x \in Task
    BY <1>3, ApplyCards DEF Typed
  <2>2. CASE c \in Fresh(x)
    BY <2>1, <2>2, FreshRow DEF Fresh
  <2>3. CASE c \notin Fresh(x)
    <3>1. c \in DOMAIN cards \ Fresh(x)
      BY <2>1, <2>3, <1>3, DecidedDomain
    <3>2. cards[c].key \in Keys /\ cards[c].state # "orphaned"
      BY <1>3, <2>1, <3>1, OldRow, CardsAssumption DEF KeyedAlive
    <3>3. CASE RouteOf(x, c) = {}
      BY <2>1, <3>1, <3>2, <3>3, OldRow, RetiredRow
    <3>4. ASSUME NEW r \in RouteOf(x, c)
          PROVE  cards'[c].state # "orphaned"
      BY <2>1, <3>1, <3>2, <3>4, OldRow, StateAfterType DEF Settled
    <3>5. QED BY <3>3, <3>4
  <2>4. QED BY <2>2, <2>3
<1>4. QED BY <1>1, <1>2, <1>3, StepKinds, ApplyCards DEF KeyedAlive

(* Any number of tasks.  A card that is created takes a number of its own. *)
LEMMA FreshIsNew ==
  ASSUME Typed, Numbered, NEW r \in Routes
  PROVE  NextId(r) \notin DOMAIN cards
<1>1. Cardinality(Rows(cards, r)) \in Nat
  BY FS_CardinalityType DEF Typed, TableOK
<1>2. NextId(r) = <<r, Cardinality(Rows(cards, r)) + 1>>
  BY DEF NextId, Rows
<1>3. NextId(r) \notin Rows(cards, r)
  BY <1>1, <1>2 DEF Numbered
<1>4. QED BY <1>2, <1>3 DEF Rows

LEMMA NextNumbered == Typed /\ Numbered /\ [Next]_vars => Numbered'
<1> SUFFICES ASSUME Typed, Numbered, [Next]_vars PROVE Numbered'
  OBVIOUS
<1>1. CASE DOMAIN cards' = DOMAIN cards
  BY <1>1 DEF Numbered, Rows
<1>2. ASSUME NEW t \in Tasks, Apply(t), ~Conflict(tasks[t]), NEW r \in Routes
      PROVE  \A c \in Rows(cards', r) : c[2] \in 1..Cardinality(Rows(cards', r))
  <2> DEFINE x == tasks[t]
             n == Cardinality(Rows(cards, r))
  <2>1. cards' = Decided(x) /\ TaskOK(x) /\ x.delta \in Changes
    BY <1>2, ApplyCards
  <2>2. DOMAIN cards' = DOMAIN cards \cup Fresh(x)
    BY <2>1, DecidedDomain
  <2>3. n \in Nat /\ IsFiniteSet(Rows(cards, r))
    BY FS_CardinalityType DEF Typed, TableOK
  <2>4. NextId(r) = <<r, n + 1>>
    BY DEF NextId, Rows
  <2>5. \A q \in Created(x) : NextId(q)[1] = q
    BY <2>1, FreshRow
  <2>6. CASE r \in Created(x)
    <3>1. Rows(cards', r) = Rows(cards, r) \cup {NextId(r)}
      BY <2>2, <2>5, <2>6 DEF Rows, Fresh
    <3>2. NextId(r) \notin Rows(cards, r)
      BY FreshIsNew DEF Rows
    <3>3. Cardinality(Rows(cards', r)) = n + 1
      BY <2>3, <3>1, <3>2, FS_AddElement
    <3>4. QED BY <2>3, <2>4, <3>1, <3>3 DEF Numbered
  <2>7. CASE r \notin Created(x)
    <3>1. Rows(cards', r) = Rows(cards, r)
      BY <2>2, <2>5, <2>7 DEF Rows, Fresh
    <3>2. QED BY <3>1 DEF Numbered
  <2>8. QED BY <2>6, <2>7
<1>3. QED BY <1>1, <1>2, StepKinds, ApplyCards DEF Calm, Numbered

(* A card gives its key up for good.                                       *)
LEMMA KeysFall ==
  ASSUME Typed, Numbered, [Next]_vars, NEW c \in DOMAIN cards
  PROVE  c \in DOMAIN cards' /\ cards'[c].key \in {cards[c].key, "superseded", "orphaned"}
<1>1. CASE Calm \/ cards' = cards
  BY <1>1 DEF Calm
<1>2. ASSUME NEW t \in Tasks, Apply(t), ~Conflict(tasks[t])
      PROVE  c \in DOMAIN cards' /\ cards'[c].key \in {cards[c].key, "superseded"}
  <2>1. cards' = Decided(tasks[t]) /\ TaskOK(tasks[t]) /\ tasks[t].delta \in Changes
    BY <1>2, ApplyCards
  <2>2. c \notin Fresh(tasks[t])
    BY FreshIsNew DEF Fresh, Created
  <2>3. QED BY ZenonT(60), <2>1, <2>2, DecidedDomain, OldRow
<1>3. QED BY <1>1, <1>2, StepKinds, ApplyCards

(* What a task remembers is its own affair.                                *)
LEMMA TaskAlone ==
  ASSUME Typed, [Next]_vars, cards' = cards
  PROVE  \/ tasks' = tasks
         \/ \E t \in Tasks :
              /\ \A u \in Tasks \ {t} : tasks'[u] = tasks[u]
              /\ \/ ReadCard(t)
                 \/ /\ Deciding(t) /\ tasks'[t].existing = tasks[t].existing
                    /\ tasks'[t].unread = tasks[t].unread /\ tasks'[t].delta = tasks[t].delta
                 \/ ~Deciding(t)'
                 \/ /\ tasks'[t].unread = Routes
                    /\ \A r \in Routes : tasks'[t].existing[r] = None
<1>1. ASSUME NEW t \in Tasks, NEW batch \in Batches, Deliver(t, batch)
      PROVE  tasks' = tasks \/ (~Deciding(t)' /\ \A u \in Tasks \ {t} : tasks'[u] = tasks[u])
  BY <1>1 DEF Deliver, Deciding, Idle, Typed
<1>2. ASSUME NEW t \in Tasks, NextDelta(t)
      PROVE  /\ \A u \in Tasks \ {t} : tasks'[u] = tasks[u]
             /\ tasks'[t].unread = Routes
             /\ \A r \in Routes : tasks'[t].existing[r] = None
  BY <1>2 DEF NextDelta, Idle, Typed
<1>3. ASSUME NEW t \in Tasks, ReadAck(t) \/ ReadSiblings(t)
      PROVE  /\ \A u \in Tasks \ {t} : tasks'[u] = tasks[u]
             /\ Deciding(t) /\ tasks'[t].existing = tasks[t].existing
             /\ tasks'[t].unread = tasks[t].unread /\ tasks'[t].delta = tasks[t].delta
  BY <1>3 DEF ReadAck, ReadSiblings, Deciding, Typed, Task
<1>4. ASSUME NEW t \in Tasks, Fail(t)
      PROVE  ~Deciding(t)' /\ \A u \in Tasks \ {t} : tasks'[u] = tasks[u]
  BY <1>4 DEF Fail, Deciding, Idle, Typed
<1>5. ASSUME NEW t \in Tasks, Apply(t)
      PROVE  ~Deciding(t)' /\ \A u \in Tasks \ {t} : tasks'[u] = tasks[u]
  BY <1>5, ApplyCards DEF Deciding
<1>6. ASSUME NEW t \in Tasks, ReadCard(t)
      PROVE  \A u \in Tasks \ {t} : tasks'[u] = tasks[u]
  BY <1>6, ReadCardEffect
<1>7. QED BY <1>1, <1>2, <1>3, <1>4, <1>5, <1>6, StepKinds

LEMMA KeyTyped ==
  ASSUME Typed, NEW t \in Tasks, Deciding(t)
  PROVE  Key(tasks[t]) \in Keys
BY CardsAssumption DEF Deciding, Typed, TaskOK, Changes, Key, Keys

LEMMA NextReadKeys == Typed /\ Numbered /\ ReadKeys /\ [Next]_vars => ReadKeys'
<1> SUFFICES ASSUME Typed, Numbered, ReadKeys, [Next]_vars, NEW u \in Tasks PROVE ReadIts(u)'
  BY DEF ReadKeys
<1>1. ASSUME Deciding(u)' => Deciding(u), tasks'[u].delta = tasks[u].delta,
             tasks'[u].existing = tasks[u].existing
      PROVE  ReadIts(u)'
  <2> SUFFICES ASSUME Deciding(u), NEW r \in Routes, tasks[u].existing[r] # None
               PROVE  /\ tasks[u].existing[r].id \in DOMAIN cards'
                      /\ cards'[tasks[u].existing[r].id].key \in {Key(tasks[u]), "superseded", "orphaned"}
    BY <1>1 DEF ReadIts, Key
  <2>1. /\ tasks[u].existing[r].id \in DOMAIN cards
        /\ cards[tasks[u].existing[r].id].key \in {Key(tasks[u]), "superseded", "orphaned"}
    BY DEF ReadKeys, ReadIts
  <2>2. QED BY <2>1, KeysFall
<1>2. CASE tasks'[u] = tasks[u]
  BY <1>1, <1>2 DEF Deciding
<1>3. CASE ReadCard(u) /\ cards' = cards
  <2>1. PICK r \in tasks[u].unread :
          /\ r \in Routes
          /\ \A q \in Routes \ {r} : tasks'[u].existing[q] = tasks[u].existing[q]
          /\ LET holders == Holders(cards, r, Key(tasks[u]))
             IN  \/ holders = {} /\ tasks'[u].existing[r] = None
                 \/ \E c \in holders : tasks'[u].existing[r].id = c
    BY <1>3, ReadCardEffect
  <2>2. Deciding(u) /\ Key(tasks'[u]) = Key(tasks[u])
    BY <1>3, ReadCardEffect DEF Deciding, Key
  <2> SUFFICES ASSUME NEW q \in Routes, tasks'[u].existing[q] # None
               PROVE  /\ tasks'[u].existing[q].id \in DOMAIN cards
                      /\ cards[tasks'[u].existing[q].id].key \in {Key(tasks[u]), "superseded", "orphaned"}
    BY <1>3, <2>2 DEF ReadIts, Key
  <2>3. CASE q = r
    BY <2>1, <2>3 DEF Holders
  <2>4. CASE q # r
    BY <2>1, <2>2, <2>4 DEF ReadKeys, ReadIts
  <2>5. QED BY <2>3, <2>4
<1>4. CASE cards' = cards
  <2>1. CASE ~Deciding(u)' \/ \A r \in Routes : tasks'[u].existing[r] = None
    BY <2>1 DEF ReadIts
  <2>2. CASE Deciding(u) /\ tasks'[u].existing = tasks[u].existing /\ tasks'[u].delta = tasks[u].delta
    BY <1>1, <2>2
  <2>3. QED BY <1>2, <1>3, <1>4, <2>1, <2>2, TaskAlone
<1>5. ASSUME NEW t \in Tasks, Apply(t) PROVE ReadIts(u)'
  <2>1. CASE u = t
    BY <1>5, <2>1, ApplyCards DEF ReadIts, Deciding
  <2>2. CASE u # t
    BY <1>2, <1>5, <2>2, ApplyCards
  <2>3. QED BY <2>1, <2>2
<1>6. QED BY <1>2, <1>4, <1>5, StepKinds

(* A decision is about the cards of its key.                               *)
LEMMA OthersCards ==
  ASSUME Typed, ReadKeys, NEW t \in Tasks, Apply(t), NEW c \in DOMAIN cards',
         cards'[c].key \in Keys, cards'[c].key # Key(tasks[t])
  PROVE  c \in DOMAIN cards /\ cards'[c] = cards[c]
<1> DEFINE x == tasks[t]
<1>1. CASE Conflict(x)
  BY <1>1, ApplyCards
<1>2. CASE ~Conflict(x)
  <2>1. cards' = Decided(x) /\ TaskOK(x) /\ x.delta \in Changes /\ Deciding(t)
    BY <1>2, ApplyCards DEF Apply, Deciding
  <2>2. c \in DOMAIN cards \ Fresh(x)
    <3>1. \A q \in Created(x) : Decided(x)[NextId(q)].key = Key(x)
      BY <2>1, FreshRow
    <3>2. c \notin Fresh(x)
      BY <2>1, <3>1 DEF Fresh
    <3>3. QED BY <2>1, <3>2, DecidedDomain
  <2>3. Retired(x)[c].key = cards'[c].key /\ cards[c].key = cards'[c].key
    <3>1. cards'[c].key = Retired(x)[c].key
      BY <2>1, <2>2, OldRow
    <3>2. Retired(x)[c].key \in {cards[c].key, "superseded"}
      BY <2>2, RetiredRow
    <3>3. QED BY <3>1, <3>2, CardsAssumption
  <2>4. RouteOf(x, c) = {}
    <3> SUFFICES ASSUME NEW r \in Routes, x.existing[r] # None, x.existing[r].id = c PROVE FALSE
      BY DEF RouteOf, Updated
    <3>1. cards[c].key \in {Key(x), "superseded", "orphaned"}
      BY <2>1 DEF ReadKeys, ReadIts
    <3>2. QED BY <2>3, <3>1, CardsAssumption
  <2>5. Decided(x)[c] = Retired(x)[c]
    BY <2>1, <2>2, <2>4, OldRow
  <2>6. Retired(x)[c] = cards[c]
    BY <2>2, <2>3, RetiredRow
  <2>7. QED BY <2>1, <2>2, <2>5, <2>6
<1>3. QED BY <1>1, <1>2

LEMMA ApartKeys ==
  ASSUME Apart, NEW t \in Tasks, NEW u \in Tasks, t # u, Deciding(t), Deciding(u)
  PROVE  Key(tasks[t]) # Key(tasks[u])
BY DEF Apart, Pending, Deciding, Key

(* While the changes of an identity come one after the other a task        *)
(* remembers the holder of its key.                                        *)
LEMMA NextRemembers == Apart /\ Typed /\ ReadKeys /\ Remembers /\ [Next]_vars => Remembers'
<1> SUFFICES ASSUME Apart, Typed, ReadKeys, Remembers, [Next]_vars, NEW u \in Tasks
             PROVE  RemembersIts(u)'
  BY DEF Remembers
<1>1. CASE Calm /\ tasks' = tasks
  <2> SUFFICES ASSUME Deciding(u), NEW r \in Routes \ tasks[u].unread,
                      NEW c \in Holders(cards', r, Key(tasks[u]))
               PROVE  /\ tasks[u].existing[r] # None
                      /\ tasks[u].existing[r].id = c
                      /\ SameButForAck(tasks[u].existing[r].card.state, cards'[c].state)
    BY <1>1 DEF RemembersIts, Deciding, Key
  <2>1. c \in DOMAIN cards /\ c[1] = r /\ cards'[c].key = Key(tasks[u]) /\ Key(tasks[u]) \in Keys
    BY <1>1, KeyTyped DEF Holders, Calm
  <2>2. cards'[c].key = cards[c].key /\ SameButForAck(cards[c].state, cards'[c].state)
    BY <1>1, <2>1, CardsAssumption DEF Calm
  <2>3. c \in Holders(cards, r, Key(tasks[u]))
    BY <2>1, <2>2 DEF Holders
  <2>4. QED BY <2>2, <2>3 DEF Remembers, RemembersIts, SameButForAck
<1>2. CASE cards' = cards /\ tasks'[u] = tasks[u]
  BY <1>2 DEF Remembers, RemembersIts, Deciding, Key
<1>3. CASE cards' = cards /\ ReadCard(u)
  <2>1. PICK r \in tasks[u].unread :
          /\ r \in Routes
          /\ tasks'[u].unread = tasks[u].unread \ {r}
          /\ \A q \in Routes \ {r} : tasks'[u].existing[q] = tasks[u].existing[q]
          /\ LET holders == Holders(cards, r, Key(tasks[u]))
             IN  \/ holders = {} /\ tasks'[u].existing[r] = None
                 \/ \E c \in holders :
                      /\ tasks'[u].existing[r] # None
                      /\ tasks'[u].existing[r].id = c
                      /\ tasks'[u].existing[r].card = cards[c]
    BY <1>3, ReadCardEffect
  <2>2. Deciding(u) /\ Key(tasks'[u]) = Key(tasks[u]) /\ Key(tasks[u]) \in Keys
    BY <1>3, ReadCardEffect, KeyTyped DEF Deciding, Key
  <2> SUFFICES ASSUME NEW q \in Routes \ tasks'[u].unread,
                      NEW c \in Holders(cards, q, Key(tasks[u]))
               PROVE  /\ tasks'[u].existing[q] # None
                      /\ tasks'[u].existing[q].id = c
                      /\ SameButForAck(tasks'[u].existing[q].card.state, cards[c].state)
    BY <1>3, <2>2 DEF RemembersIts, Key
  <2>3. CASE q = r
    <3>1. \A d \in Holders(cards, r, Key(tasks[u])) : d = c
      BY <2>2, <2>3 DEF Typed, TableOK
    <3>2. QED BY <2>1, <2>3, <3>1 DEF SameButForAck
  <2>4. CASE q # r
    BY <2>1, <2>2, <2>4 DEF Remembers, RemembersIts
  <2>5. QED BY <2>3, <2>4
<1>4. CASE cards' = cards
  <2>1. CASE ~Deciding(u)' \/ tasks'[u].unread = Routes
    BY <2>1 DEF RemembersIts
  <2>2. CASE /\ Deciding(u) /\ tasks'[u].existing = tasks[u].existing
             /\ tasks'[u].unread = tasks[u].unread /\ tasks'[u].delta = tasks[u].delta
    BY <1>4, <2>2 DEF Remembers, RemembersIts, Key
  <2>3. QED BY <1>2, <1>3, <1>4, <2>1, <2>2, TaskAlone
<1>5. ASSUME NEW t \in Tasks, Apply(t), cards' # cards PROVE RemembersIts(u)'
  <2>1. CASE u = t
    BY <1>5, <2>1, ApplyCards DEF RemembersIts, Deciding
  <2>2. CASE u # t
    <3>1. tasks'[u] = tasks[u]
      BY <1>5, <2>2, ApplyCards
    <3> SUFFICES ASSUME Deciding(u), NEW r \in Routes \ tasks[u].unread,
                        NEW c \in Holders(cards', r, Key(tasks[u]))
                 PROVE  /\ tasks[u].existing[r] # None
                        /\ tasks[u].existing[r].id = c
                        /\ SameButForAck(tasks[u].existing[r].card.state, cards'[c].state)
      BY <3>1 DEF RemembersIts, Deciding, Key
    <3>2. Key(tasks[u]) # Key(tasks[t]) /\ Key(tasks[u]) \in Keys
      BY <1>5, <2>2, ApartKeys, KeyTyped DEF Apply, Deciding
    <3>3. c \in DOMAIN cards' /\ c[1] = r /\ cards'[c].key = Key(tasks[u])
      BY DEF Holders
    <3>4. c \in DOMAIN cards /\ cards'[c] = cards[c]
      BY <1>5, <3>2, <3>3, OthersCards
    <3>5. c \in Holders(cards, r, Key(tasks[u]))
      BY <3>3, <3>4 DEF Holders
    <3>6. QED BY <3>4, <3>5 DEF Remembers, RemembersIts
  <2>3. QED BY <2>1, <2>2
<1>6. QED BY <1>1, <1>4, <1>5, StepKinds

(* A task that remembers the holder of its key meets no conflict.          *)
LEMMA NoConflict ==
  ASSUME Typed, Informed, Remembers, NEW t \in Tasks, Apply(t)
  PROVE  ~Conflict(tasks[t])
<1> DEFINE x == tasks[t]
<1> SUFFICES ASSUME NEW r \in Created(x), NEW c \in Holders(Retired(x), r, Key(x))
             PROVE  FALSE
  BY DEF Conflict
<1>1. Deciding(t) /\ x.unread = {} /\ r \in Routes /\ Key(x) \in Keys /\ x.delta \in Changes
  BY CardsAssumption DEF Apply, Deciding, Informed, Created, Updated, Typed, TaskOK, Key, Keys, Changes
<1>2. c \in DOMAIN cards /\ c[1] = r /\ Retired(x)[c].key = Key(x)
  BY DEF Holders, Retired
<1>3. cards[c].key = Key(x)
  BY <1>1, <1>2, RetiredRow, CardsAssumption
<1>4. x.existing[r] # None /\ x.existing[r].id = c
  BY <1>1, <1>2, <1>3 DEF Remembers, RemembersIts, Holders
<1>5. Outlived(x, r)
  BY <1>1, <1>4 DEF Created, Updated
<1>6. QED BY <1>1, <1>2, <1>3, <1>4, <1>5, RetiredRow, CardsAssumption

(* Which action an application is.                                         *)
LEMMA AppliesApply ==
  ASSUME Typed, NEW t \in Tasks, [Next]_vars, Applies(t)
  PROVE  Apply(t)
<1>1. tasks' # tasks /\ tasks[t].pc = "apply" /\ tasks'[t].pc # "apply"
  BY DEF Applies
<1>2. \A u \in Tasks : ~Fail(u)
  <2>1. left["faults"] > 0 => [ left EXCEPT !["faults"] = @ - 1 ] # left
    <3>1. left["faults"] \in Nat /\ left \in [ Sources -> Nat ] /\ "faults" \in Sources
      BY DEF Typed, RestOK, Sources
    <3>2. [ left EXCEPT !["faults"] = @ - 1 ]["faults"] = left["faults"] - 1
      BY <3>1
    <3>3. left["faults"] - 1 # left["faults"]
      BY <3>1
    <3>4. QED BY <3>2, <3>3
  <2>2. QED BY <2>1 DEF Fail, Spend, Applies
<1>3. ASSUME NEW u \in Tasks,
             (\E batch \in Batches : Deliver(u, batch)) \/ NextDelta(u) \/ ReadCard(u) \/ ReadAck(u)
               \/ ReadSiblings(u)
      PROVE  FALSE
  <2>1. \A v \in Tasks \ {u} : tasks'[v] = tasks[v]
    BY <1>3, ReadCardEffect DEF Deliver, NextDelta, ReadAck, ReadSiblings, Typed
  <2>2. tasks[u].pc # "apply"
    BY <1>3 DEF Deliver, NextDelta, ReadCard, ReadAck, ReadSiblings
  <2>3. QED BY <1>1, <2>1, <2>2
<1>4. ASSUME NEW u \in Tasks, Apply(u)
      PROVE  u = t
  BY <1>1, <1>4, ApplyCards
<1>5. QED BY <1>1, <1>2, <1>3, <1>4, StepKinds

-----------------------------------------------------------------------------
(* The state a decision moves a card to agrees with the alert, whichever   *)
(* state it was read in, and so does leaving it where it is.               *)
LEMMA StateAfterAgrees ==
  ASSUME NEW x \in Task, x.delta \in Changes, Told(x.delta), NEW r \in Routes,
         x.existing[r].card.state \in Settled,
         NEW state, SameButForAck(x.existing[r].card.state, state)
  PROVE  Agrees(x, r, IF StateAfter(x, r) = None THEN state ELSE StateAfter(x, r))
<1> DEFINE old == x.existing[r].card.state
           trigger == TriggerFor(x.delta.kind, x.delta.alert, old, r \in x.mutes)
           after == NextState(old, trigger, x.acked)
<1>1. /\ old \in Settled /\ SameButForAck(old, state) /\ x.delta.kind \in Events
      /\ x.acked \in BOOLEAN
  BY DEF Task, Changes
<1>2. /\ x.delta.kind = "resolved" => ~IsFiring(x.delta.alert)
      /\ x.delta.kind = "fired" => IsFiring(x.delta.alert)
  BY DEF Told
<1>3. \A s \in States \cup Events : s # None
  BY CardsAssumption
<1>4. ASSUME IsFiring(x.delta.alert), r \notin x.mutes
      PROVE  IsOpen(IF StateAfter(x, r) = None THEN state ELSE StateAfter(x, r))
  <2>1. trigger = CASE old = "ignored"  -> "unignored"
                    [] old = "resolved" -> "fired"
                    [] OTHER            -> FromEvent(x.delta.kind)
    BY <1>1, <1>4 DEF TriggerFor
  <2>2. trigger # "resolved"
    BY <1>1, <1>2, <1>3, <1>4, <2>1 DEF FromEvent, Events, States
  <2>3. StillFiring(x, r) = {}
    BY <2>2 DEF StillFiring
  <2>4. StateAfter(x, r) = IF old = "resolved" /\ after \in {"firing", "acked"}
                                /\ x.delta.alert.suppressed
                             THEN "silenced" ELSE after
    BY <2>3 DEF StateAfter
  <2>5. CASE old \in {"ignored", "resolved"}
    <3>1. after \in {"firing", "acked"}
      BY <2>1, <2>5 DEF NextState, IsOpen
    <3>2. QED BY <1>3, <2>4, <3>1 DEF IsOpen, States
  <2>6. CASE old \in {"firing", "acked", "silenced"}
    <3>1. after \in {"firing", "acked", "silenced", "ignored", None}
      BY <2>2, <2>6 DEF NextState
    <3>2. after # "ignored"
      <4>1. trigger = FromEvent(x.delta.kind)
        BY <2>1, <2>6
      <4>2. trigger # "ignored"
        BY <1>1, <1>3, <4>1 DEF FromEvent, Events, States
      <4>3. QED BY <1>3, <2>6, <4>2 DEF NextState, States
    <3>3. IsOpen(state)
      BY <1>1, <2>6 DEF SameButForAck, IsOpen
    <3>4. QED BY <2>4, <2>6, <3>1, <3>2, <3>3 DEF IsOpen
  <2>7. QED BY <1>1, <2>5, <2>6 DEF Settled, States
<1>5. ASSUME ~IsFiring(x.delta.alert), x.siblings = {}
      PROVE  (IF StateAfter(x, r) = None THEN state ELSE StateAfter(x, r)) = "resolved"
  <2>1. trigger = IF IsOpen(old) \/ old = "ignored" THEN "resolved" ELSE FromEvent(x.delta.kind)
    BY <1>5 DEF TriggerFor
  <2>2. StillFiring(x, r) = {}
    BY <1>5 DEF StillFiring
  <2>3. CASE IsOpen(old) \/ old = "ignored"
    <3>1. after = "resolved"
      BY <2>1, <2>3 DEF NextState, IsOpen
    <3>2. QED BY <1>3, <2>2, <2>3, <3>1 DEF StateAfter, States, IsOpen
  <2>4. CASE old = "resolved"
    <3>1. trigger # "fired"
      BY <1>1, <1>2, <1>3, <1>5, <2>1, <2>4 DEF FromEvent, IsOpen, Events, States
    <3>2. after = None
      BY <2>4, <3>1 DEF NextState, IsOpen
    <3>3. state = "resolved"
      BY <1>1, <2>4 DEF SameButForAck
    <3>4. QED BY <1>3, <2>2, <3>2, <3>3 DEF StateAfter, States
  <2>5. QED BY <1>1, <2>3, <2>4 DEF Settled, States, IsOpen
<1>6. QED BY <1>4, <1>5 DEF Agrees

LEMMA ChangeShown ==
  ASSUME Typed, Informed, KeyedAlive, Remembers, [Next]_vars,
         NEW t \in Tasks, Applies(t), NEW r \in Routes, NEW c \in Holders(cards', r, Key(tasks[t]))
  PROVE  Agrees(tasks[t], r, cards'[c].state)
<1> DEFINE x == tasks[t]
<1>1. Apply(t) /\ Deciding(t)
  BY AppliesApply DEF Applies, Deciding
<1>2. /\ x \in Task /\ TaskOK(x) /\ x.delta \in Changes /\ Told(x.delta) /\ x.unread = {}
      /\ Key(x) \in Keys
  BY <1>1, ApplyCards, CardsAssumption DEF Applies, Informed, Typed, Changes, Key, Keys
<1>3. cards' = Decided(x)
  BY <1>1, NoConflict, ApplyCards
<1>4. c \in DOMAIN Decided(x) /\ c[1] = r /\ Decided(x)[c].key = Key(x)
  BY <1>3 DEF Holders
<1>5. CASE c \in Fresh(x)
  <2>1. PICK q \in Created(x) : c = NextId(q)
    BY <1>5 DEF Fresh
  <2>2. IsFiring(x.delta.alert)
    BY <2>1 DEF Created
  <2>3. Decided(x)[c].state \in {"firing", "silenced"}
    BY <1>2, <2>1, FreshRow
  <2>4. QED BY <1>3, <2>2, <2>3 DEF Agrees, IsOpen
<1>6. CASE c \notin Fresh(x)
  <2>1. c \in DOMAIN cards \ Fresh(x)
    BY <1>4, <1>6, DecidedDomain
  <2>2. Retired(x)[c].key = Key(x) /\ cards[c].key = Key(x)
    BY <1>2, <1>4, <2>1, OldRow, CardsAssumption
  <2>3. /\ x.existing[r] # None /\ x.existing[r].id = c
        /\ SameButForAck(x.existing[r].card.state, cards[c].state)
    BY <1>1, <1>2, <1>4, <2>1, <2>2 DEF Remembers, RemembersIts, Holders
  <2>4. x.existing[r].card.state \in Settled
    <3>1. x.existing[r].card \in CardRow
      BY <1>2, <2>3 DEF Task, ReadCards
    <3>2. cards[c].state # "orphaned"
      BY <1>2, <2>1, <2>2 DEF KeyedAlive
    <3>3. QED BY <2>3, <3>1, <3>2 DEF SameButForAck, Settled, CardRow
  <2>5. CASE Outlived(x, r)
    <3>1. r \notin Created(x)
      BY <1>2, <2>1, <2>2, <2>3, <2>5, RetiredRow, CardsAssumption
    <3>2. r \in x.mutes /\ IsFiring(x.delta.alert)
      BY <2>5, <3>1 DEF Created, Updated, Outlived
    <3>3. QED BY <3>2 DEF Agrees
  <2>6. CASE ~Outlived(x, r)
    <3>1. r \in RouteOf(x, c)
      BY <2>3, <2>6 DEF RouteOf, Updated
    <3>2. cards'[c].state = IF StateAfter(x, r) = None THEN cards[c].state ELSE StateAfter(x, r)
      BY <1>2, <1>3, <2>1, <3>1, OldRow
    <3>3. QED BY <1>2, <2>3, <2>4, <3>2, StateAfterAgrees
  <2>7. QED BY <2>5, <2>6
<1>7. QED BY <1>5, <1>6

(* While the changes of one identity come one after the other, whatever    *)
(* other tasks do at once, a change that is applied puts the cards right:  *)
(* whatever changes were lost before it, and whoever takes or releases the *)
(* alert, adds an ignore rule or deletes the message in between.           *)
THEOREM ChangesCorrectCards == Spec /\ []Apart => AppliedChangeIsShown
<1> DEFINE Shows == \A t \in Tasks : Applies(t) =>
              \A r \in Routes : \A c \in Holders(cards', r, Key(tasks[t])) :
                Agrees(tasks[t], r, cards'[c].state)
<1>1. Typed /\ Informed /\ KeyedAlive /\ Remembers /\ [Next]_vars => [Shows]_vars
  BY ChangeShown
<1> HIDE DEF Shows
<1>2. Spec /\ []Apart => [][Shows]_vars
  BY <1>1, InitTyped, InitInformed, NextTyped, NextInformed, NextAlive, NextNumbered, NextReadKeys,
     NextRemembers, PTL DEF Spec
<1>3. QED BY <1>2 DEF Shows, AppliedChangeIsShown

-----------------------------------------------------------------------------
(* Cards that are not lost.  What is left to spend only falls, so a source *)
(* unspent now was never used.                                             *)
Within == \A s \in Sources : left[s] <= Budget[s]

Unspent(s) == left[s] = Budget[s]

LEMMA LeftFalls ==
  ASSUME Typed, Within, [Next]_vars
  PROVE  Within' /\ \A s \in Sources : (left'[s] = Budget[s] => Unspent(s))
<1>1. left' = left \/ \E s \in Sources : Spend(s)
  BY DEF Next, vars, Deliver, TaskStep, NextDelta, ReadCard, ReadAck, ReadSiblings, Apply, Fail,
         Acknowledge, Revoke, ToggleIgnore, Post, Orphan, Outlive, Sources
<1>2. left \in [ Sources -> Nat ] /\ Budget \in [ Sources -> Nat ]
  BY CardsAssumption DEF Typed, RestOK
<1>3. ASSUME NEW s \in Sources, Spend(s)
      PROVE  \A q \in Sources : left'[q] = IF q = s THEN left[q] - 1 ELSE left[q]
  BY <1>2, <1>3 DEF Spend
<1>4. \A s \in Sources : left'[s] <= left[s]
  BY <1>1, <1>2, <1>3
<1>5. \A s \in Sources : left'[s] \in Int /\ left[s] \in Int /\ Budget[s] \in Int
  BY <1>1, <1>2, <1>3
<1>6. QED BY <1>4, <1>5 DEF Within, Unspent

LEMMA NotSpent ==
  ASSUME Typed, NEW s \in Sources, Unspent(s), left'[s] = Budget[s]
  PROVE  ~Spend(s)
<1>1. left[s] \in Nat /\ left \in [ Sources -> Nat ]
  BY DEF Typed, RestOK
<1>2. QED BY <1>1 DEF Spend, Unspent

(* A card is about an alert of its key, and one that gave its key up is    *)
(* resolved.                                                               *)
Stands(card) ==
  /\ card.state # "orphaned" /\ card.key # "orphaned"
  /\ card.key \in Keys => IdentityOf[card.fp] = card.key
  /\ card.key = "superseded" => card.state = "resolved"

AllStand == \A c \in DOMAIN cards : Stands(cards[c])

(* The card a task has read still holds its key.                           *)
HoldsIts(t) ==
  Deciding(t) =>
    \A r \in Routes : tasks[t].existing[r] # None =>
      tasks[t].existing[r].id \in Holders(cards, r, Key(tasks[t]))

ReadHolds == \A t \in Tasks : HoldsIts(t)

(* The changes a task still has to apply are the last of their alerts, and *)
(* once it knows its siblings, they are the others that fire.              *)
Knows(x) ==
  /\ x.pc = "idle" => x.todo = {}
  /\ \A d \in Pending(x) : alerts[d.fp] = d.alert
  /\ x.pc \in {"cards", "ack", "siblings"} => x.siblings = {}
  /\ x.pc = "apply" => \A f \in x.siblings : IdentityOf[f] = Key(x)
  /\ x.pc = "apply" /\ ~IsFiring(x.delta.alert) => x.siblings = FiringWith(Key(x)) \ {x.delta.fp}

Reads == \A t \in Tasks : Knows(tasks[t])

Unmuted == muted = {} /\ \A t \in Tasks : tasks[t].mutes = {}

(* A card is not resolved while an alert of its key fires, unless it is    *)
(* due to hear of it; and it is resolved when none does, unless it is due  *)
(* to hear of a resolution.                                                *)
Owed == UNION { Pending(tasks[t]) : t \in Tasks }

Following ==
  \A r \in Routes, k \in Keys : \A c \in Holders(cards, r, k) :
    /\ \A f \in FiringWith(k) : (\A d \in Owed : d.fp # f) => cards[c].state # "resolved"
    /\ cards[c].state # "resolved" =>
         FiringWith(k) # {} \/ \E d \in Owed : ~IsFiring(d.alert) /\ IdentityOf[d.fp] = k

LEMMA InitLone == Init => Within /\ AllStand /\ ReadHolds /\ Reads /\ Unmuted /\ Following
<1> SUFFICES ASSUME Init PROVE Within /\ AllStand /\ ReadHolds /\ Reads /\ Unmuted /\ Following
  OBVIOUS
<1>1. Within
  BY CardsAssumption DEF Init, Within
<1>2. AllStand /\ ReadHolds /\ Unmuted
  BY DEF Init, AllStand, ReadHolds, HoldsIts, Unmuted, Deciding, Idle
<1>3. Reads
  BY DEF Init, Reads, Knows, Pending, Idle
<1>4. Following
  BY DEF Init, Following, Holders
<1>5. QED BY <1>1, <1>2, <1>3, <1>4

(* The sibling a card is left to is one of its key.                        *)
LEMMA ShownIdentity ==
  ASSUME NEW x, NEW r, \A f \in x.siblings : IdentityOf[f] = Key(x)
  PROVE  IdentityOf[Shown(x, r)] = Key(x)
<1>1. \A f \in StillFiring(x, r) : IdentityOf[f] = Key(x)
  BY DEF StillFiring
<1>2. StillFiring(x, r) # {} => (CHOOSE f \in StillFiring(x, r) : TRUE) \in StillFiring(x, r)
  OBVIOUS
<1>3. QED BY <1>1, <1>2 DEF Shown, Key

LEMMA NextStands ==
  ASSUME Typed, Informed, KeyedAlive, Remembers, Reads, AllStand, ReadHolds,
         [Next]_vars, Unspent("losses"), left'["losses"] = Budget["losses"]
  PROVE  AllStand'
<1>1. ~Spend("losses")
  BY NotSpent DEF Sources
<1>2. CASE Calm
  <2> SUFFICES ASSUME NEW c \in DOMAIN cards PROVE Stands(cards'[c])
    BY <1>2 DEF Calm, AllStand
  <2>1. Stands(cards[c])
    BY DEF AllStand
  <2>2. /\ cards'[c].key = cards[c].key /\ cards'[c].fp = cards[c].fp
        /\ SameButForAck(cards[c].state, cards'[c].state)
    BY <1>1, <1>2 DEF Calm
  <2>3. QED BY <2>1, <2>2 DEF Stands, SameButForAck
<1>3. CASE cards' = cards
  BY <1>3 DEF AllStand
<1>4. ASSUME NEW t \in Tasks, Apply(t), NEW c \in DOMAIN cards'
      PROVE  Stands(cards'[c])
  <2> DEFINE x == tasks[t]
  <2>1. /\ x \in Task /\ TaskOK(x) /\ x.delta \in Changes /\ Key(x) \in Keys /\ Deciding(t)
        /\ x.unread = {}
    BY <1>4, ApplyCards, CardsAssumption DEF Apply, Deciding, Informed, Typed, Changes, Key, Keys
  <2>2. cards' = Decided(x)
    BY <1>4, NoConflict, ApplyCards
  <2>3. CASE c \in Fresh(x)
    <3>1. PICK q \in Created(x) : c = NextId(q)
      BY <2>3 DEF Fresh
    <3>2. /\ Decided(x)[c].key = Key(x) /\ Decided(x)[c].fp = x.delta.fp
          /\ Decided(x)[c].state \in {"firing", "silenced"}
      BY <2>1, <3>1, FreshRow
    <3>3. QED BY <2>1, <2>2, <3>2, CardsAssumption DEF Stands, Key
  <2>4. CASE c \in DOMAIN cards \ Fresh(x) /\ RouteOf(x, c) = {}
    <3>1. Decided(x)[c] = Retired(x)[c] /\ Stands(cards[c])
      BY <2>1, <2>4, OldRow DEF AllStand
    <3>2. /\ Retired(x)[c].state = cards[c].state /\ Retired(x)[c].fp = cards[c].fp
          /\ Retired(x)[c].key \in {cards[c].key, "superseded"}
      BY <2>4, RetiredRow
    <3>3. CASE Retired(x)[c] = cards[c]
      BY <2>2, <3>1, <3>3
    <3>4. CASE Retired(x)[c] # cards[c]
      <4>1. cards[c].key = Key(x) /\ \E r \in Created(x) : Outlived(x, r) /\ x.existing[r].id = c
        BY <2>4, <3>4, RetiredRow
      <4>2. PICK r \in Created(x) : Outlived(x, r) /\ x.existing[r].id = c
        BY <4>1
      <4>3. r \in Routes /\ c[1] = r
        BY <2>1, <4>2 DEF Created, Updated, Outlived, TaskOK
      <4>4. SameButForAck("resolved", cards[c].state)
        BY <2>1, <2>4, <4>1, <4>2, <4>3 DEF Remembers, RemembersIts, Holders, Outlived
      <4>5. Retired(x)[c].key = "superseded"
        BY <2>1, <2>4, <4>1, <4>2, RetiredRow
      <4>6. QED BY <2>2, <3>1, <3>2, <4>4, <4>5, CardsAssumption DEF Stands, SameButForAck
    <3>5. QED BY <3>3, <3>4
  <2>5. ASSUME c \in DOMAIN cards \ Fresh(x), NEW r \in RouteOf(x, c)
        PROVE  Stands(cards'[c])
    <3>1. r \in Routes /\ x.existing[r] # None /\ x.existing[r].id = c
      BY <2>5 DEF RouteOf, Updated
    <3>2. cards[c].key = Key(x)
      BY <2>1, <3>1 DEF ReadHolds, HoldsIts, Holders
    <3>3. /\ Decided(x)[c].key = Key(x) /\ Decided(x)[c].fp = Shown(x, r)
          /\ Decided(x)[c].state = IF StateAfter(x, r) = None THEN cards[c].state ELSE StateAfter(x, r)
      BY <2>1, <2>5, <3>2, OldRow
    <3>4. IdentityOf[Shown(x, r)] = Key(x)
      BY <1>4, ShownIdentity DEF Reads, Knows, Apply
    <3>5. Decided(x)[c].state # "orphaned"
      BY <2>1, <2>5, <3>3, StateAfterType DEF AllStand, Stands, Settled
    <3>6. QED BY <2>1, <2>2, <3>3, <3>4, <3>5, CardsAssumption DEF Stands
  <2>6. QED BY <1>4, <2>2, <2>3, <2>4, <2>5, DecidedDomain
<1>5. QED BY <1>2, <1>3, <1>4, StepKinds DEF AllStand

LEMMA NextReadHolds ==
  ASSUME Apart, Typed, Numbered, ReadHolds, [Next]_vars,
         Unspent("losses"), left'["losses"] = Budget["losses"]
  PROVE  ReadHolds'
<1> SUFFICES ASSUME NEW u \in Tasks PROVE HoldsIts(u)'
  BY DEF ReadHolds
<1>1. ~Spend("losses")
  BY NotSpent DEF Sources
<1>2. CASE Calm /\ tasks' = tasks
  <2> SUFFICES ASSUME Deciding(u), NEW r \in Routes, tasks[u].existing[r] # None
               PROVE  tasks[u].existing[r].id \in Holders(cards', r, Key(tasks[u]))
    BY <1>2 DEF HoldsIts, Deciding, Key
  <2>1. tasks[u].existing[r].id \in Holders(cards, r, Key(tasks[u]))
    BY DEF ReadHolds, HoldsIts
  <2>2. QED BY <1>1, <1>2, <2>1 DEF Calm, Holders
<1>3. CASE cards' = cards /\ tasks'[u] = tasks[u]
  BY <1>3 DEF ReadHolds, HoldsIts, Deciding, Key
<1>4. CASE cards' = cards /\ ReadCard(u)
  <2>1. PICK r \in tasks[u].unread :
          /\ r \in Routes
          /\ \A q \in Routes \ {r} : tasks'[u].existing[q] = tasks[u].existing[q]
          /\ LET holders == Holders(cards, r, Key(tasks[u]))
             IN  \/ holders = {} /\ tasks'[u].existing[r] = None
                 \/ \E c \in holders : tasks'[u].existing[r].id = c
    BY <1>4, ReadCardEffect
  <2>2. Deciding(u) /\ Key(tasks'[u]) = Key(tasks[u])
    BY <1>4, ReadCardEffect DEF Deciding, Key
  <2> SUFFICES ASSUME NEW q \in Routes, tasks'[u].existing[q] # None
               PROVE  tasks'[u].existing[q].id \in Holders(cards, q, Key(tasks[u]))
    BY <1>4, <2>2 DEF HoldsIts, Key
  <2>3. CASE q = r
    BY <2>1, <2>3
  <2>4. CASE q # r
    BY <2>1, <2>2, <2>4 DEF ReadHolds, HoldsIts
  <2>5. QED BY <2>3, <2>4
<1>5. CASE cards' = cards
  <2>1. CASE ~Deciding(u)' \/ \A r \in Routes : tasks'[u].existing[r] = None
    BY <2>1 DEF HoldsIts
  <2>2. CASE Deciding(u) /\ tasks'[u].existing = tasks[u].existing /\ tasks'[u].delta = tasks[u].delta
    BY <1>5, <2>2 DEF ReadHolds, HoldsIts, Key
  <2>3. QED BY <1>3, <1>4, <1>5, <2>1, <2>2, TaskAlone
<1>6. ASSUME NEW t \in Tasks, Apply(t), cards' # cards PROVE HoldsIts(u)'
  <2>1. CASE u = t
    BY <1>6, <2>1, ApplyCards DEF HoldsIts, Deciding
  <2>2. CASE u # t
    <3>1. tasks'[u] = tasks[u]
      BY <1>6, <2>2, ApplyCards
    <3> SUFFICES ASSUME Deciding(u), NEW r \in Routes, tasks[u].existing[r] # None
                 PROVE  tasks[u].existing[r].id \in Holders(cards', r, Key(tasks[u]))
      BY <3>1 DEF HoldsIts, Deciding, Key
    <3> DEFINE c == tasks[u].existing[r].id
    <3>2. c \in DOMAIN cards /\ c[1] = r /\ cards[c].key = Key(tasks[u])
      BY DEF ReadHolds, HoldsIts, Holders
    <3>3. cards[c].key # Key(tasks[t])
      BY <1>6, <2>2, <3>2, ApartKeys DEF Apply, Deciding
    <3>4. c \in DOMAIN cards' /\ cards'[c].key = cards[c].key
      <4>1. cards' = Decided(tasks[t]) /\ TaskOK(tasks[t]) /\ tasks[t].delta \in Changes
        BY <1>6, ApplyCards
      <4>2. c \notin Fresh(tasks[t])
        BY <3>2, FreshIsNew DEF Fresh, Created
      <4>3. c \in DOMAIN cards' /\ cards'[c].key = Retired(tasks[t])[c].key
        <5> HIDE DEF c
        <5>1. c \in DOMAIN cards \ Fresh(tasks[t])
          BY <3>2, <4>2
        <5>2. Decided(tasks[t])[c].key = Retired(tasks[t])[c].key
          BY <4>1, <5>1, OldRow
        <5>3. DOMAIN Decided(tasks[t]) = DOMAIN cards \cup Fresh(tasks[t])
          BY DecidedDomain
        <5>4. QED BY <4>1, <5>1, <5>2, <5>3
      <4>4. Retired(tasks[t])[c] = cards[c]
        BY <3>2, <3>3, RetiredRow
      <4>5. QED BY <4>3, <4>4
    <3>5. QED BY <3>2, <3>4 DEF Holders
  <2>3. QED BY <2>1, <2>2
<1>7. QED BY <1>2, <1>5, <1>6, StepKinds

(* A delivery that makes a change of an identity leaves no other task one; *)
(* the alerts another task is to tell of stay as they are.                 *)
LEMMA OthersAlerts ==
  ASSUME Apart', Typed, NEW t \in Tasks, NEW batch \in Batches, Deliver(t, batch),
         NEW u \in Tasks \ {t}, NEW d \in Pending(tasks[u]), NEW f \in Fps,
         IdentityOf[f] = IdentityOf[d.fp]
  PROVE  alerts'[f] = alerts[f]
<1>1. tasks'[u] = tasks[u] /\ tasks[t].pc = "idle"
  BY DEF Deliver, Typed
<1>2. alerts'[f] = IF f \in DOMAIN batch THEN batch[f] ELSE alerts[f]
  BY DEF Deliver
<1>3. CASE f \in DOMAIN batch /\ Classify(alerts[f], batch[f]) # None
  <2> DEFINE e == [ fp |-> f, kind |-> Classify(alerts[f], batch[f]), alert |-> batch[f] ]
  <2>1. e \in Deltas(batch)
    BY <1>3 DEF Deltas
  <2>2. tasks'[t].todo = Deltas(batch)
    BY <2>1 DEF Deliver, Idle, Typed
  <2>3. e \in Pending(tasks'[t]) /\ e.fp = f
    BY <2>1, <2>2 DEF Pending
  <2>4. d \in Pending(tasks'[u])
    BY <1>1
  <2> HIDE DEF e
  <2>5. IdentityOf[e.fp] # IdentityOf[d.fp]
    BY <2>3, <2>4 DEF Apart, Pending
  <2>6. QED BY <2>3, <2>5
<1>4. CASE f \in DOMAIN batch /\ Classify(alerts[f], batch[f]) = None
  <2>1. batch[f] \in Alert /\ alerts[f] \in Alert \cup {None}
    BY <1>4 DEF Batches, Typed, RestOK
  <2>2. /\ alerts[f] # None /\ alerts[f].status = batch[f].status
        /\ alerts[f].suppressed = batch[f].suppressed /\ alerts[f].text = batch[f].text
    BY <1>4, CardsAssumption DEF Classify, Events
  <2>3. alerts[f] = batch[f]
    BY <2>1, <2>2 DEF Alert
  <2>4. QED BY <1>2, <1>4, <2>3
<1>5. QED BY <1>2, <1>3, <1>4

LEMMA NextReads ==
  ASSUME Apart', Typed, Reads, [Next]_vars
  PROVE  Reads'
<1>1. CASE tasks' = tasks /\ alerts' = alerts
  BY <1>1 DEF Reads, Knows, FiringWith, Pending, Key
<1>a. ASSUME NEW t \in Tasks, alerts' = alerts, \A u \in Tasks \ {t} : tasks'[u] = tasks[u],
             Knows(tasks[t])'
      PROVE  Reads'
  <2>1. ASSUME NEW u \in Tasks \ {t} PROVE Knows(tasks[u])'
    BY <1>a, <2>1 DEF Reads, Knows, FiringWith, Pending, Key
  <2>2. QED BY <1>a, <2>1 DEF Reads
<1>2. ASSUME NEW t \in Tasks, NEW batch \in Batches, Deliver(t, batch)
      PROVE  Reads'
  <2>1. tasks[t].pc = "idle" /\ tasks[t].todo = {}
    BY <1>2 DEF Deliver, Reads, Knows
  <2>2. Knows(tasks[t])'
    <3>1. CASE tasks' = tasks
      BY <2>1, <3>1 DEF Knows, Pending
    <3>2. CASE tasks'[t] = [ Idle EXCEPT !.pc = "start", !.todo = Deltas(batch) ]
      <4>1. tasks'[t].pc = "start" /\ tasks'[t].todo = Deltas(batch)
        BY <3>2 DEF Idle
      <4>2. \A d \in Deltas(batch) : d.fp \in Fps /\ alerts'[d.fp] = d.alert
        BY <1>2 DEF Deliver, Deltas, Batches
      <4>3. QED BY <4>1, <4>2 DEF Knows, Pending
    <3>3. QED BY <1>2, <3>1, <3>2 DEF Deliver, Typed
  <2>3. ASSUME NEW u \in Tasks \ {t} PROVE Knows(tasks[u])'
    <3>1. tasks'[u] = tasks[u] /\ Knows(tasks[u]) /\ TaskOK(tasks[u])
      BY <1>2 DEF Deliver, Reads, Typed
    <3>2. \A d \in Pending(tasks[u]) : d.fp \in Fps
      BY <3>1 DEF Pending, TaskOK, Task, Changes
    <3>3. \A d \in Pending(tasks[u]), f \in Fps : IdentityOf[f] = IdentityOf[d.fp] => alerts'[f] = alerts[f]
      BY <1>2, OthersAlerts
    <3>4. \A d \in Pending(tasks[u]) : alerts'[d.fp] = d.alert
      BY <3>1, <3>2, <3>3 DEF Knows
    <3>5. tasks[u].pc = "apply" => FiringWith(Key(tasks[u]))' = FiringWith(Key(tasks[u]))
      <4> SUFFICES ASSUME tasks[u].pc = "apply"
                   PROVE  FiringWith(Key(tasks[u]))' = FiringWith(Key(tasks[u]))
        OBVIOUS
      <4>1. tasks[u].delta \in Pending(tasks[u])
        BY DEF Pending
      <4>2. \A f \in Fps : IdentityOf[f] = Key(tasks[u]) => alerts'[f] = alerts[f]
        BY <3>3, <4>1 DEF Key
      <4>3. QED BY <3>1, <4>2 DEF FiringWith, Key
    <3>6. Pending(tasks'[u]) = Pending(tasks[u]) /\ Key(tasks'[u]) = Key(tasks[u])
      BY <3>1
    <3>7. QED BY <3>1, <3>4, <3>5, <3>6 DEF Knows
  <2>4. QED BY <2>2, <2>3 DEF Reads
<1>3. ASSUME NEW t \in Tasks, NextDelta(t)
      PROVE  Reads'
  <2>1. PICK d \in tasks[t].todo :
          /\ tasks'[t].pc = "cards" /\ tasks'[t].delta = d /\ tasks'[t].todo = tasks[t].todo \ {d}
          /\ tasks'[t].siblings = {}
    BY <1>3 DEF NextDelta, Idle, Typed
  <2>2. \A e \in tasks[t].todo : alerts[e.fp] = e.alert
    BY DEF Reads, Knows, Pending
  <2>3. Knows(tasks[t])'
    BY <1>3, <2>1, <2>2 DEF Knows, Pending, NextDelta
  <2>4. QED BY <1>3, <1>a, <2>3 DEF NextDelta, Typed
<1>4. ASSUME NEW t \in Tasks, ReadCard(t), alerts' = alerts
      PROVE  Reads'
  <2>1. /\ tasks[t].pc = "cards" /\ tasks'[t].pc \in {"cards", "ack"}
        /\ tasks'[t].todo = tasks[t].todo /\ tasks'[t].delta = tasks[t].delta
        /\ tasks'[t].siblings = tasks[t].siblings
        /\ \A u \in Tasks \ {t} : tasks'[u] = tasks[u]
    BY <1>4, ReadCardEffect
  <2>2. Knows(tasks[t])'
    BY <1>4, <2>1 DEF Reads, Knows, Pending
  <2>3. QED BY <1>4, <1>a, <2>1, <2>2
<1>5. ASSUME NEW t \in Tasks, ReadAck(t)
      PROVE  Reads'
  <2> DEFINE x == tasks[t]
             exact == \A f \in Fps : IdentityOf[f] = f
  <2>1. /\ x.pc = "ack" /\ x.delta \in Changes
        /\ tasks'[t].pc = IF IsFiring(x.delta.alert) \/ exact THEN "apply" ELSE "siblings"
        /\ tasks'[t].todo = x.todo /\ tasks'[t].delta = x.delta
        /\ tasks'[t].siblings = x.siblings
    BY <1>5 DEF ReadAck, Typed, TaskOK, Task
  <2>2. x.siblings = {} /\ alerts' = alerts /\ x.delta.fp \in Fps
    BY <1>5, <2>1 DEF ReadAck, Reads, Knows, Changes
  <2>3. exact => FiringWith(Key(x)) \ {x.delta.fp} = {}
    BY <2>2 DEF FiringWith, Key
  <2>4. \A d \in Pending(x) : alerts[d.fp] = d.alert
    BY DEF Reads, Knows
  <2> HIDE DEF exact
  <2>5. Knows(tasks[t])'
    BY <2>1, <2>2, <2>3, <2>4 DEF Knows, Pending, FiringWith, Key
  <2>6. QED BY <1>5, <1>a, <2>2, <2>5 DEF ReadAck, Typed
<1>6. ASSUME NEW t \in Tasks, ReadSiblings(t)
      PROVE  Reads'
  <2> DEFINE x == tasks[t]
  <2>1. /\ x.pc = "siblings" /\ tasks'[t].pc = "apply"
        /\ tasks'[t].todo = x.todo /\ tasks'[t].delta = x.delta
        /\ tasks'[t].siblings = FiringWith(Key(x)) \ {x.delta.fp} /\ alerts' = alerts
    BY <1>6 DEF ReadSiblings, Typed, Task
  <2>2. \A d \in Pending(x) : alerts[d.fp] = d.alert
    BY DEF Reads, Knows
  <2>3. Knows(tasks[t])'
    BY <2>1, <2>2 DEF Knows, Pending, FiringWith, Key
  <2>4. QED BY <1>6, <1>a, <2>1, <2>3 DEF ReadSiblings, Typed
<1>7. ASSUME NEW t \in Tasks, Fail(t)
      PROVE  Reads'
  <2>1. Knows(tasks[t])'
    BY <1>7 DEF Fail, Reads, Knows, Pending, Idle, Typed
  <2>2. QED BY <1>7, <1>a, <2>1 DEF Fail, Typed
<1>8. ASSUME NEW t \in Tasks, Apply(t)
      PROVE  Reads'
  <2>1. /\ alerts' = alerts /\ tasks'[t].todo = tasks[t].todo
        /\ \/ tasks'[t].pc = "idle" /\ tasks[t].todo = {}
           \/ tasks'[t].pc = "next"
    BY <1>8 DEF Apply, Idle, Typed
  <2>2. Knows(tasks[t])'
    BY <2>1 DEF Reads, Knows, Pending
  <2>3. QED BY <1>8, <1>a, <2>1, <2>2, ApplyCards
<1>9. QED BY <1>1, <1>2, <1>3, <1>4, <1>5, <1>6, <1>7, <1>8, StepKinds DEF ReadCard

LEMMA StandApart ==
  ASSUME Typed, Unspent("losses") => AllStand
  PROVE  OneOpenCard
<1> SUFFICES ASSUME Unspent("losses"), NEW c \in DOMAIN cards, NEW d \in DOMAIN cards, c[1] = d[1],
                    IdentityOf[cards[c].fp] = IdentityOf[cards[d].fp],
                    \A e \in {c, d} : IsOpen(cards[e].state) \/ cards[e].state = "ignored"
             PROVE  c = d
  BY DEF OneOpenCard, Unspent
<1>1. ASSUME NEW e \in {c, d}
      PROVE  cards[e].key \in Keys /\ IdentityOf[cards[e].fp] = cards[e].key
  <2>1. Stands(cards[e]) /\ cards[e] \in CardRow /\ cards[e].state # "resolved"
    BY DEF AllStand, Typed, TableOK, IsOpen
  <2>2. QED BY <2>1 DEF Stands, CardRow
<1>2. c \in Holders(cards, c[1], cards[c].key) /\ d \in Holders(cards, c[1], cards[c].key)
  BY <1>1 DEF Holders
<1>3. c[1] \in Routes
  BY DEF Typed, TableOK
<1>4. QED BY <1>1, <1>2, <1>3 DEF Typed, TableOK

(* While the changes of one identity come one after the other, whatever    *)
(* other tasks do at once, whatever is lost but messages, and whatever     *)
(* people and ignore rules do meanwhile, a route never shows two open      *)
(* cards about one alert.                                                  *)
THEOREM OneCardIsOpen == Spec /\ []Apart => []OneOpenCard
<1> DEFINE Unlost == Unspent("losses") => AllStand /\ ReadHolds
           Inv == /\ Typed /\ Informed /\ KeyedAlive /\ Numbered /\ ReadKeys
                  /\ Remembers /\ Within /\ Reads /\ Unlost
<1>1. Init => Inv
  BY InitTyped, InitInformed, InitLone
<1>2. Inv /\ Apart /\ Apart' /\ [Next]_vars => Inv'
  <2> SUFFICES ASSUME Inv, Apart, Apart', [Next]_vars PROVE Inv'
    OBVIOUS
  <2>1. /\ Typed' /\ Informed' /\ KeyedAlive' /\ Numbered' /\ ReadKeys'
        /\ Remembers' /\ Within' /\ Reads'
    BY NextTyped, NextInformed, NextAlive, NextNumbered, NextReadKeys, NextRemembers, LeftFalls, NextReads
  <2>2. left'["losses"] = Budget["losses"] => Unspent("losses")
    BY LeftFalls DEF Sources
  <2>3. left'["losses"] = Budget["losses"] => AllStand' /\ ReadHolds'
    BY <2>2, NextStands, NextReadHolds
  <2>4. QED BY <2>1, <2>3 DEF Unspent
<1>3. Inv => OneOpenCard
  BY StandApart
<1> HIDE DEF Inv
<1>4. QED BY <1>1, <1>2, <1>3, PTL DEF Spec

LEMMA NextUnmuted ==
  ASSUME Typed, Unmuted, [Next]_vars, Unspent("mutes"), left'["mutes"] = Budget["mutes"]
  PROVE  Unmuted'
<1>1. ~Spend("mutes")
  BY NotSpent DEF Sources
<1>2. muted' = muted
  BY <1>1 DEF Next, vars, Deliver, TaskStep, NextDelta, ReadCard, ReadAck, ReadSiblings, Apply, Fail,
              Acknowledge, Revoke, ToggleIgnore, Post, Orphan, Outlive
<1>3. ASSUME NEW t \in Tasks, NEW batch \in Batches, Deliver(t, batch)
      PROVE  \A u \in Tasks : tasks'[u].mutes = {}
  BY <1>3 DEF Deliver, Idle, Unmuted, Typed
<1>4. ASSUME NEW t \in Tasks, NextDelta(t) \/ ReadAck(t) \/ ReadSiblings(t) \/ Fail(t) \/ Apply(t)
      PROVE  \A u \in Tasks : tasks'[u].mutes = {}
  <2>1. /\ \A u \in Tasks \ {t} : tasks'[u] = tasks[u]
        /\ tasks'[t].mutes \in {{}, muted, tasks[t].mutes}
    <3>1. CASE NextDelta(t)
      BY <3>1 DEF NextDelta, Idle, Typed
    <3>2. CASE ReadAck(t)
      BY <3>2 DEF ReadAck, Typed, Task
    <3>3. CASE ReadSiblings(t)
      BY <3>3 DEF ReadSiblings, Typed, Task
    <3>4. CASE Fail(t)
      BY <3>4 DEF Fail, Idle, Typed
    <3>5. CASE Apply(t)
      BY <3>5 DEF Apply, Idle, Typed
    <3>6. QED BY <1>4, <3>1, <3>2, <3>3, <3>4, <3>5
  <2>2. QED BY <2>1 DEF Unmuted
<1>5. ASSUME NEW t \in Tasks, ReadCard(t)
      PROVE  \A u \in Tasks : tasks'[u].mutes = {}
  BY <1>5, ReadCardEffect DEF Unmuted
<1>6. QED BY <1>2, <1>3, <1>4, <1>5, StepKinds DEF Unmuted

(* What is owed, when one task moves: its own changes and the others'.     *)
LEMMA DueOfOne ==
  ASSUME NEW t \in Tasks, \A u \in Tasks \ {t} : tasks'[u] = tasks[u]
  PROVE  /\ Owed \subseteq Owed' \cup Pending(tasks[t])
         /\ Owed' \subseteq Owed \cup Pending(tasks'[t])
         /\ Pending(tasks[t]) \subseteq Owed /\ Pending(tasks'[t]) \subseteq Owed'
<1>1. \A u \in Tasks \ {t} : Pending(tasks'[u]) = Pending(tasks[u])
  OBVIOUS
<1>2. Owed' = UNION { Pending(tasks'[u]) : u \in Tasks }
  BY DEF Owed, Pending
<1> QED BY <1>1, <1>2 DEF Owed

(* A delivery that changes whether an alert fires is a change to apply.    *)
LEMMA DeliverFollows ==
  ASSUME Typed, Reads, Following, NEW t \in Tasks, NEW batch \in Batches, Deliver(t, batch)
  PROVE  Following'
<1>1. Pending(tasks[t]) = {}
  BY DEF Deliver, Reads, Knows, Pending
<1>2. Owed \subseteq Owed' /\ Deltas(batch) \subseteq Owed'
  <2>1. \A u \in Tasks \ {t} : tasks'[u] = tasks[u]
    BY DEF Deliver, Typed
  <2>2. Deltas(batch) \subseteq Pending(tasks'[t])
    BY DEF Deliver, Pending, Idle, Typed
  <2>3. QED BY <1>1, <2>1, <2>2, DueOfOne
<1>3. cards' = cards /\ \A f \in Fps : alerts'[f] = IF f \in DOMAIN batch THEN batch[f] ELSE alerts[f]
  BY DEF Deliver
<1>4. DOMAIN batch \subseteq Fps /\ \A f \in DOMAIN batch : batch[f] \in Alert
  BY DEF Batches
<1>5. ASSUME NEW f \in Fps, \A d \in Owed' : d.fp # f, alerts'[f] # None, IsFiring(alerts'[f])
      PROVE  alerts[f] # None /\ IsFiring(alerts[f])
  <2>1. CASE f \notin DOMAIN batch
    BY <1>3, <1>5, <2>1
  <2>2. CASE f \in DOMAIN batch
    <3>1. Classify(alerts[f], batch[f]) = None
      <4> DEFINE d == [ fp |-> f, kind |-> Classify(alerts[f], batch[f]), alert |-> batch[f] ]
      <4>1. Classify(alerts[f], batch[f]) # None => d \in Deltas(batch)
        BY <2>2 DEF Deltas
      <4>2. d.fp = f
        OBVIOUS
      <4>3. QED BY <1>2, <1>5, <4>1, <4>2
    <3>2. alerts[f] # None /\ alerts[f].status = batch[f].status
      BY <3>1, CardsAssumption DEF Classify, Events
    <3>3. QED BY <1>3, <1>5, <2>2, <3>2 DEF IsFiring
  <2>3. QED BY <2>1, <2>2
<1>6. ASSUME NEW f \in Fps, alerts[f] # None, IsFiring(alerts[f]), ~(alerts'[f] # None /\ IsFiring(alerts'[f]))
      PROVE  \E d \in Owed' : ~IsFiring(d.alert) /\ d.fp = f
  <2>1. f \in DOMAIN batch /\ ~IsFiring(batch[f])
    BY <1>3, <1>4, <1>6, CardsAssumption
  <2>2. Classify(alerts[f], batch[f]) # None
    BY <1>6, <2>1, CardsAssumption DEF Classify, Events, IsFiring
  <2>3. [ fp |-> f, kind |-> Classify(alerts[f], batch[f]), alert |-> batch[f] ] \in Deltas(batch)
    BY <2>1, <2>2 DEF Deltas
  <2>4. QED BY <1>2, <2>1, <2>3
<1> SUFFICES ASSUME NEW r \in Routes, NEW k \in Keys, NEW c \in Holders(cards, r, k)
             PROVE  /\ \A f \in FiringWith(k)' : (\A d \in Owed' : d.fp # f) => cards[c].state # "resolved"
                    /\ cards[c].state # "resolved" =>
                         \/ FiringWith(k)' # {}
                         \/ \E d \in Owed' : ~IsFiring(d.alert) /\ IdentityOf[d.fp] = k
  BY <1>3 DEF Following, Holders
<1>7. ASSUME NEW f \in FiringWith(k)', \A d \in Owed' : d.fp # f
      PROVE  cards[c].state # "resolved"
  <2>1. f \in FiringWith(k)
    BY <1>5, <1>7 DEF FiringWith
  <2>2. QED BY <1>2, <1>7, <2>1 DEF Following
<1>8. ASSUME cards[c].state # "resolved", FiringWith(k)' = {}
      PROVE  \E d \in Owed' : ~IsFiring(d.alert) /\ IdentityOf[d.fp] = k
  <2>1. CASE FiringWith(k) # {}
    <3>1. PICK f \in FiringWith(k) : TRUE
      BY <2>1
    <3>2. QED BY <1>6, <1>8, <3>1 DEF FiringWith
  <2>2. CASE FiringWith(k) = {}
    BY <1>2, <1>8, <2>2 DEF Following
  <2>3. QED BY <2>1, <2>2
<1>9. QED BY <1>7, <1>8

(* A resolution that siblings overrule leaves an unresolved card alone.    *)
LEMMA OverruledStays ==
  ASSUME NEW x \in Task, NEW r \in Routes, ~IsFiring(x.delta.alert), x.siblings # {},
         x.existing[r].card.state \in Settled \ {"resolved"}
  PROVE  StateAfter(x, r) = None
<1> DEFINE old == x.existing[r].card.state
<1>1. IsOpen(old) \/ old = "ignored"
  BY DEF Settled, States, IsOpen
<1>2. StillFiring(x, r) = x.siblings
  BY <1>1 DEF StillFiring, TriggerFor
<1>3. QED BY <1>2 DEF StateAfter

LEMMA ApplyFollows ==
  ASSUME Typed, Informed, KeyedAlive, Remembers, Reads, ReadHolds, Unmuted, Following,
         [Next]_vars, NEW t \in Tasks, Apply(t)
  PROVE  Following'
<1> DEFINE x == tasks[t]
           d == x.delta
<1>1. /\ x \in Task /\ TaskOK(x) /\ d \in Changes /\ Key(x) \in Keys /\ Deciding(t)
      /\ x.unread = {} /\ x.mutes = {}
  BY ApplyCards, CardsAssumption DEF Apply, Deciding, Informed, Unmuted, Typed, Changes, Key, Keys
<1>2. cards' = Decided(x) /\ alerts' = alerts
  BY NoConflict, ApplyCards DEF Apply
<1>3. Owed \subseteq Owed' \cup {d} /\ d \in Pending(x)
  <2>1. Pending(x) = x.todo \cup {d}
    BY DEF Apply, Pending
  <2>2. Pending(tasks'[t]) = x.todo
    BY DEF Apply, Pending, Idle, Typed
  <2>3. QED BY <2>1, <2>2, DueOfOne, ApplyCards
<1>4. Applies(t)
  BY ApplyCards DEF Applies, Apply
<1>5. alerts[d.fp] = d.alert /\ d.fp \in Fps /\ d.alert # None /\ IdentityOf[d.fp] = Key(x)
  BY <1>1, <1>3, CardsAssumption DEF Reads, Knows, Changes, Key
<1> SUFFICES ASSUME NEW r \in Routes, NEW k \in Keys, NEW c \in Holders(cards', r, k)
             PROVE  /\ \A f \in FiringWith(k) : (\A e \in Owed' : e.fp # f) => cards'[c].state # "resolved"
                    /\ cards'[c].state # "resolved" =>
                         \/ FiringWith(k) # {}
                         \/ \E e \in Owed' : ~IsFiring(e.alert) /\ IdentityOf[e.fp] = k
  BY <1>2, <1>3 DEF Following, FiringWith
<1>6. c \in DOMAIN Decided(x) /\ c[1] = r /\ Decided(x)[c].key = k
  BY <1>2 DEF Holders
<1>7. CASE k = Key(x) /\ IsFiring(d.alert)
  <2>1. IsOpen(cards'[c].state)
    BY <1>1, <1>4, <1>7, ChangeShown DEF Agrees
  <2>2. d.fp \in FiringWith(k)
    BY <1>5, <1>7 DEF FiringWith
  <2>3. QED BY <2>1, <2>2 DEF IsOpen
<1>8. CASE k = Key(x) /\ ~IsFiring(d.alert)
  <2>1. x.siblings = FiringWith(k)
    BY <1>5, <1>8 DEF Reads, Knows, Apply, FiringWith
  <2>2. x.siblings # {} \/ cards'[c].state = "resolved"
    BY <1>4, <1>8, ChangeShown DEF Agrees
  <2>3. ASSUME NEW f \in FiringWith(k), \A e \in Owed' : e.fp # f
        PROVE  cards'[c].state # "resolved"
    <3>1. c \in DOMAIN cards \ Fresh(x)
      BY <1>6, <1>8, DecidedDomain DEF Fresh, Created
    <3>2. cards[c].key = k
      BY <1>1, <1>6, <3>1, OldRow, CardsAssumption
    <3>3. cards[c].state # "resolved"
      <4>1. \A e \in Owed : e.fp # f
        BY <1>3, <1>5, <1>8, <2>3 DEF FiringWith
      <4>2. QED BY <1>6, <2>3, <3>1, <3>2, <4>1 DEF Following, Holders
    <3>4. /\ x.existing[r] # None /\ x.existing[r].id = c
          /\ SameButForAck(x.existing[r].card.state, cards[c].state)
      BY <1>1, <1>6, <1>8, <3>1, <3>2 DEF Remembers, RemembersIts, Holders
    <3>5. cards[c].state \in States \ {"orphaned"}
      BY <3>1, <3>2 DEF KeyedAlive, Typed, TableOK, CardRow
    <3>6. x.existing[r].card.state \in Settled \ {"resolved"}
      BY <3>3, <3>4, <3>5 DEF SameButForAck, Settled, States
    <3>7. StateAfter(x, r) = None
      BY <1>1, <1>8, <2>1, <2>3, <3>6, OverruledStays
    <3>8. r \in RouteOf(x, c)
      BY <1>8, <3>4 DEF RouteOf, Updated, Outlived
    <3>9. QED BY <1>1, <1>2, <3>1, <3>3, <3>7, <3>8, OldRow
  <2>4. QED BY <2>1, <2>2, <2>3
<1>9. CASE k # Key(x)
  <2>1. c \in DOMAIN cards \ Fresh(x)
    <3>1. \A q \in Created(x) : Decided(x)[NextId(q)].key = Key(x)
      BY <1>1, FreshRow
    <3>2. c \notin Fresh(x)
      BY <1>6, <1>9, <3>1 DEF Fresh
    <3>3. QED BY <1>6, <3>2, DecidedDomain
  <2>2. cards[c].key = k
    BY <1>1, <1>6, <2>1, OldRow, CardsAssumption
  <2>3. RouteOf(x, c) = {}
    BY <1>1, <1>9, <2>2 DEF RouteOf, Updated, ReadHolds, HoldsIts, Holders
  <2>4. cards'[c].state = cards[c].state
    BY <1>1, <1>2, <2>1, <2>3, OldRow, RetiredRow
  <2>5. c \in Holders(cards, r, k)
    BY <1>6, <2>1, <2>2 DEF Holders
  <2>6. ASSUME NEW f \in FiringWith(k), \A e \in Owed' : e.fp # f
        PROVE  cards'[c].state # "resolved"
    <3>1. \A e \in Owed : e.fp # f
      BY <1>3, <1>5, <1>9, <2>6 DEF FiringWith
    <3>2. QED BY <2>4, <2>5, <2>6, <3>1 DEF Following
  <2>7. ASSUME cards'[c].state # "resolved", FiringWith(k) = {}
        PROVE  \E e \in Owed' : ~IsFiring(e.alert) /\ IdentityOf[e.fp] = k
    BY <1>3, <1>5, <1>9, <2>4, <2>5, <2>7 DEF Following
  <2>8. QED BY <2>6, <2>7
<1>10. QED BY <1>7, <1>8, <1>9

LEMMA NextFollowing ==
  ASSUME Typed, Informed, KeyedAlive, Remembers, Reads, ReadHolds, Unmuted, Following,
         [Next]_vars, Undisturbed, Undisturbed'
  PROVE  Following'
<1>1. ~Spend("losses") /\ ~Spend("faults") /\ ~Spend("mutes")
  BY NotSpent DEF Undisturbed, Unspent, Sources
<1>2. ASSUME Owed' = Owed, alerts' = alerts, Calm
      PROVE  Following'
  <2> SUFFICES ASSUME NEW r \in Routes, NEW k \in Keys, NEW c \in Holders(cards', r, k)
               PROVE  /\ c \in Holders(cards, r, k)
                      /\ cards'[c].state = "resolved" <=> cards[c].state = "resolved"
    BY <1>2 DEF Following, FiringWith
  <2>1. cards'[c].key = cards[c].key /\ SameButForAck(cards[c].state, cards'[c].state) /\ c \in DOMAIN cards
    BY <1>1, <1>2 DEF Calm, Holders
  <2>2. QED BY <2>1 DEF Holders, SameButForAck
<1>3. CASE Calm /\ tasks' = tasks /\ alerts' = alerts
  BY <1>2, <1>3 DEF Owed, Pending
<1>a. ASSUME NEW t \in Tasks, \A u \in Tasks \ {t} : tasks'[u] = tasks[u],
             Pending(tasks'[t]) = Pending(tasks[t])
      PROVE  Owed' = Owed
  BY <1>a, DueOfOne
<1>4. ASSUME NEW t \in Tasks, cards' = cards, NextDelta(t)
      PROVE  Following'
  <2>1. Pending(tasks'[t]) = Pending(tasks[t])
    BY <1>4 DEF NextDelta, Pending, Idle, Typed
  <2>2. \A u \in Tasks \ {t} : tasks'[u] = tasks[u]
    BY <1>4 DEF NextDelta, Typed
  <2>3. QED BY <1>2, <1>4, <1>a, <2>1, <2>2, SameCalm DEF NextDelta
<1>5. ASSUME NEW t \in Tasks, cards' = cards, ReadCard(t) \/ ReadAck(t) \/ ReadSiblings(t)
      PROVE  Following'
  <2>1. /\ tasks'[t].todo = tasks[t].todo /\ tasks'[t].delta = tasks[t].delta
        /\ Deciding(t) /\ Deciding(t)' /\ alerts' = alerts
        /\ \A u \in Tasks \ {t} : tasks'[u] = tasks[u]
    <3>1. CASE ReadCard(t)
      BY <3>1, ReadCardEffect DEF Deciding, ReadCard
    <3>2. CASE ReadAck(t)
      BY <3>2 DEF Deciding, ReadAck, Typed, Task
    <3>3. CASE ReadSiblings(t)
      BY <3>3 DEF Deciding, ReadSiblings, Typed, Task
    <3>4. QED BY <1>5, <3>1, <3>2, <3>3
  <2>2. Pending(tasks'[t]) = Pending(tasks[t])
    BY <2>1 DEF Pending, Deciding
  <2>3. QED BY <1>2, <1>5, <1>a, <2>1, <2>2, SameCalm
<1>6. ASSUME NEW t \in Tasks, Fail(t) PROVE FALSE
  BY <1>1, <1>6 DEF Fail
<1>7. QED BY <1>3, <1>4, <1>5, <1>6, StepKinds, DeliverFollows, ApplyFollows

(* While the changes of one identity come one after the other, whatever    *)
(* other tasks do at once, and with nothing lost, ignored or deleted, a    *)
(* card that merges alerts is resolved exactly when the last of them is.   *)
THEOREM LastResolves == Spec /\ []Apart => []ResolvesWithLast
<1> DEFINE Unlost == Unspent("losses") => ReadHolds
           Calmly == Undisturbed => Unmuted /\ Following
           Inv == /\ Typed /\ Informed /\ KeyedAlive /\ Numbered /\ ReadKeys
                  /\ Remembers /\ Within /\ Reads /\ Unlost /\ Calmly
<1>1. Init => Inv
  BY InitTyped, InitInformed, InitLone
<1>2. Inv /\ Apart /\ Apart' /\ [Next]_vars => Inv'
  <2> SUFFICES ASSUME Inv, Apart, Apart', [Next]_vars PROVE Inv'
    OBVIOUS
  <2>1. /\ Typed' /\ Informed' /\ KeyedAlive' /\ Numbered' /\ ReadKeys'
        /\ Remembers' /\ Within' /\ Reads'
    BY NextTyped, NextInformed, NextAlive, NextNumbered, NextReadKeys, NextRemembers, LeftFalls, NextReads
  <2>2. \A s \in Sources : left'[s] = Budget[s] => Unspent(s)
    BY LeftFalls
  <2>3. left'["losses"] = Budget["losses"] => ReadHolds'
    BY <2>2, NextReadHolds DEF Sources
  <2>4. ASSUME Undisturbed'
        PROVE  Unmuted' /\ Following'
    <3>1. /\ left'["losses"] = Budget["losses"] /\ left'["mutes"] = Budget["mutes"]
          /\ left'["faults"] = Budget["faults"]
      BY <2>4 DEF Undisturbed
    <3>2. Unspent("losses") /\ Unspent("mutes") /\ Unspent("faults")
      BY <2>2, <3>1 DEF Sources
    <3>3. Undisturbed
      BY <3>2 DEF Undisturbed, Unspent
    <3>4. QED BY <2>4, <3>1, <3>2, <3>3, NextUnmuted, NextFollowing
  <2>5. QED BY <2>1, <2>3, <2>4 DEF Unspent
<1>3. Inv => ResolvesWithLast
  <2> SUFFICES ASSUME Inv, Quiet, Undisturbed PROVE ResolvesWithLast
    BY DEF ResolvesWithLast
  <2>1. Owed = {}
    BY DEF Quiet, Reads, Knows, Owed, Pending
  <2>2. QED BY <2>1 DEF ResolvesWithLast, Following
<1> HIDE DEF Inv
<1>4. QED BY <1>1, <1>2, <1>3, PTL DEF Spec

-----------------------------------------------------------------------------
(* A decision lets no key go that it does not take up again.               *)
LEMMA KeyStays ==
  ASSUME Typed, Numbered, NEW t \in Tasks, Apply(t), NEW r \in Routes, NEW k \in Keys,
         Holders(cards, r, k) # {}
  PROVE  Holders(cards', r, k) # {}
<1> DEFINE x == tasks[t]
<1>1. TaskOK(x) /\ x.delta \in Changes
  BY ApplyCards
<1>2. CASE cards' = cards
  BY <1>2
<1>3. CASE cards' = Decided(x)
  <2>1. PICK c \in Holders(cards, r, k) : TRUE
    OBVIOUS
  <2>2. c \in DOMAIN cards /\ c[1] = r /\ cards[c].key = k
    BY DEF Holders
  <2>3. c \notin Fresh(x)
    BY <2>2, FreshIsNew DEF Fresh, Created
  <2>4. c \in DOMAIN cards' /\ cards'[c].key = Retired(x)[c].key
    BY ZenonT(60), <1>1, <1>3, <2>2, <2>3, DecidedDomain, OldRow
  <2>5. CASE Retired(x)[c] = cards[c]
    BY <2>2, <2>4, <2>5 DEF Holders
  <2>6. CASE Retired(x)[c] # cards[c]
    <3>1. PICK q \in Created(x) : cards[c].key = Key(x) /\ Outlived(x, q) /\ x.existing[q].id = c
      BY <2>2, <2>6, RetiredRow
    <3>2. q = r
      BY <1>1, <2>2, <3>1 DEF TaskOK, Created, Outlived
    <3>3. NextId(q)[1] = q /\ Decided(x)[NextId(q)].key = Key(x)
      BY <1>1, FreshRow
    <3>4. NextId(q) \in DOMAIN Decided(x)
      BY DecidedDomain DEF Fresh
    <3>5. QED BY <1>3, <2>2, <3>1, <3>2, <3>3, <3>4 DEF Holders
  <2>7. QED BY <2>5, <2>6
<1>4. QED BY <1>2, <1>3, ApplyCards

(* A message found deleted stays deleted.                                  *)
LEMMA GoneStays ==
  ASSUME Typed, Numbered, NEW t \in Tasks, Apply(t), NEW c \in DOMAIN cards
  PROVE  c \in DOMAIN cards' /\ cards'[c].message = cards[c].message
<1>1. TaskOK(tasks[t]) /\ tasks[t].delta \in Changes
  BY ApplyCards
<1>2. c \notin Fresh(tasks[t])
  BY FreshIsNew DEF Fresh, Created
<1>3. c \in DOMAIN Decided(tasks[t]) /\ Decided(tasks[t])[c].message = cards[c].message
  BY ZenonT(60), <1>1, <1>2, DecidedDomain, OldRow
<1>4. cards' = cards \/ cards' = Decided(tasks[t])
  BY ApplyCards
<1>5. QED BY <1>3, <1>4

LEMMA NextKeyHeld == Typed /\ Numbered /\ KeyHeld /\ [Next]_vars => KeyHeld'
<1> SUFFICES ASSUME Typed, Numbered, KeyHeld, [Next]_vars PROVE KeyHeld'
  OBVIOUS
<1> DEFINE Held(notes, r, k) == \/ Holders(notes, r, k) # {}
                                \/ \E c \in DOMAIN notes : c[1] = r /\ notes[c].message = "gone"
<1>1. \A u \in Tasks : Deciding(u) => Key(tasks[u]) \in Keys
  BY CardsAssumption DEF Deciding, Typed, TaskOK, Changes, Key, Keys
<1>2. ASSUME Calm, NEW r \in Routes, NEW k \in Keys, Held(cards, r, k)
      PROVE  Held(cards', r, k)
  <2>1. ASSUME NEW c \in Holders(cards, r, k) PROVE Held(cards', r, k)
    BY <1>2, <2>1 DEF Calm, Holders
  <2>2. ASSUME NEW c \in DOMAIN cards, c[1] = r, cards[c].message = "gone" PROVE Held(cards', r, k)
    BY <1>2, <2>2 DEF Calm
  <2>3. QED BY <1>2, <2>1, <2>2
<1>3. ASSUME NEW u \in Tasks, Apply(u), NEW r \in Routes, NEW k \in Keys, Held(cards, r, k)
      PROVE  Held(cards', r, k)
  <2>1. CASE Holders(cards, r, k) # {}
    BY <1>3, <2>1, KeyStays
  <2>2. ASSUME NEW c \in DOMAIN cards, c[1] = r, cards[c].message = "gone" PROVE Held(cards', r, k)
    BY <1>3, <2>2, GoneStays
  <2>3. QED BY <1>3, <2>1, <2>2
<1> SUFFICES ASSUME NEW t \in Tasks, Deciding(t)', NEW r \in Routes \ tasks'[t].unread,
                    tasks'[t].existing[r] # None
             PROVE  Held(cards', r, Key(tasks'[t]))
  BY DEF KeyHeld
<1>4. CASE tasks'[t] = tasks[t]
  <2>1. Deciding(t) /\ Held(cards, r, Key(tasks[t])) /\ Key(tasks[t]) \in Keys
    BY <1>1, <1>4 DEF KeyHeld, Deciding
  <2>2. CASE Calm
    BY <1>2, <1>4, <2>1, <2>2
  <2>3. CASE cards' = cards
    BY <1>4, <2>1, <2>3
  <2>4. ASSUME NEW u \in Tasks, Apply(u) PROVE Held(cards', r, Key(tasks'[t]))
    BY <1>3, <1>4, <2>1, <2>4
  <2> HIDE DEF Held
  <2>5. QED BY <2>2, <2>3, <2>4, StepKinds
<1>5. ASSUME cards' = cards, NEW u \in Tasks, u # t,
             (\E batch \in Batches : Deliver(u, batch)) \/ NextDelta(u) \/ ReadCard(u) \/ ReadAck(u)
               \/ ReadSiblings(u) \/ Fail(u)
      PROVE  tasks'[t] = tasks[t]
  BY ZenonT(60), <1>5, ReadCardEffect DEF Deliver, NextDelta, ReadAck, ReadSiblings, Fail, Typed
<1>6. ~Fail(t) /\ ~NextDelta(t) /\ ~Apply(t) /\ \A batch \in Batches : ~Deliver(t, batch)
  <2>1. tasks'[t].pc \in {"cards", "ack", "siblings", "apply"}
    BY DEF Deciding
  <2>2. ~Apply(t)
    BY <2>1, ApplyCards
  <2>3. ~Fail(t)
    BY <2>1 DEF Fail, Typed, Idle
  <2>4. ASSUME NEW batch \in Batches, Deliver(t, batch) PROVE FALSE
    <3>1. tasks[t].pc = "idle" /\ Idle.pc = "idle"
      BY <2>4 DEF Deliver, Idle
    <3>2. \/ tasks' = tasks
          \/ tasks' = [ tasks EXCEPT ![t] = [ Idle EXCEPT !.pc = "start", !.todo = Deltas(batch) ] ]
      BY <2>4 DEF Deliver
    <3>3. [ Idle EXCEPT !.pc = "start", !.todo = Deltas(batch) ].pc = "start"
      BY DEF Idle
    <3>4. tasks'[t].pc \in {"idle", "start"}
      BY <3>1, <3>2, <3>3 DEF Typed
    <3>5. QED BY <2>1, <3>4
  <2>5. NextDelta(t) => tasks'[t].unread = Routes
    BY DEF NextDelta, Typed, Idle
  <2>6. QED BY <2>2, <2>3, <2>4, <2>5
<1>7. ASSUME cards' = cards, ReadCard(t) PROVE Held(cards', r, Key(tasks'[t]))
  <2>1. PICK q \in tasks[t].unread :
          /\ q \in Routes
          /\ tasks'[t].unread = tasks[t].unread \ {q}
          /\ \A p \in Routes \ {q} : tasks'[t].existing[p] = tasks[t].existing[p]
          /\ \/ tasks'[t].existing[q] = None
             \/ Holders(cards, q, Key(tasks[t])) # {}
    BY <1>7, ReadCardEffect
  <2>2. Deciding(t) /\ Key(tasks'[t]) = Key(tasks[t])
    BY <1>7, ReadCardEffect DEF Deciding, Key
  <2>3. QED BY <1>7, <2>1, <2>2 DEF KeyHeld
<1>8. ASSUME cards' = cards, ReadAck(t) \/ ReadSiblings(t) PROVE Held(cards', r, Key(tasks'[t]))
  <2>1. /\ Deciding(t)
        /\ tasks'[t].existing = tasks[t].existing
        /\ tasks'[t].unread = tasks[t].unread
        /\ tasks'[t].delta = tasks[t].delta
    BY <1>8 DEF ReadAck, ReadSiblings, Deciding, Typed, Task
  <2>2. QED BY <1>8, <2>1 DEF KeyHeld, Key
<1> HIDE DEF Held
<1>9. ASSUME NEW u \in Tasks, Apply(u) PROVE tasks'[t] = tasks[t]
  BY <1>6, <1>9, ApplyCards
<1>10. QED BY <1>4, <1>5, <1>6, <1>7, <1>8, <1>9, StepKinds

-----------------------------------------------------------------------------
LEMMA ChangeHasCard ==
  ASSUME OneRoute \/ Remembers, Typed, Informed, KeyedAlive, KeyHeld, Numbered,
         [Next]_vars,
         NEW t \in Tasks, Applies(t), IsFiring(tasks[t].delta.alert),
         NEW r \in Routes \ tasks[t].mutes
  PROVE  LET holders == Holders(cards', r, Key(tasks[t]))
         IN  /\ \A c \in holders : cards'[c].state # "orphaned"
             /\ holders # {} \/ \E c \in DOMAIN cards : c[1] = r /\ cards[c].message = "gone"
<1> DEFINE x == tasks[t]
           k == Key(x)
<1>1. Apply(t) /\ Deciding(t)
  BY AppliesApply DEF Applies, Deciding
<1>2. TaskOK(x) /\ x.delta \in Changes /\ x.unread = {} /\ k \in Keys
  BY <1>1, ApplyCards, CardsAssumption DEF Applies, Informed, Changes, Key, Keys
<1>3. \A c \in Holders(cards', r, k) : cards'[c].state # "orphaned"
  BY <1>2, NextAlive DEF KeyedAlive, Holders
<1>4. Holders(cards, r, k) # {} => Holders(cards', r, k) # {}
  BY <1>1, <1>2, KeyStays
<1>5. CASE Conflict(x)
  <2>1. PICK q \in Created(x) : Holders(Retired(x), q, k) # {}
    BY <1>5 DEF Conflict
  <2>2. q = r
    BY <1>1, <1>5, NoConflict DEF OneRoute, Created
  <2>3. PICK c \in DOMAIN cards : c[1] = r /\ Retired(x)[c].key = k
    BY <2>1, <2>2 DEF Holders, Retired
  <2>4. cards[c].key = k
    BY <1>2, <2>3, RetiredRow, CardsAssumption
  <2>5. QED BY <1>3, <1>4, <2>3, <2>4 DEF Holders
<1>6. CASE ~Conflict(x) /\ r \in Created(x)
  <2>1. cards' = Decided(x)
    BY <1>1, <1>6, ApplyCards
  <2>2. NextId(r)[1] = r /\ Decided(x)[NextId(r)].key = k
    BY <1>2, <1>6, FreshRow
  <2>3. NextId(r) \in DOMAIN Decided(x)
    BY <1>6, DecidedDomain DEF Fresh
  <2>4. QED BY <1>3, <2>1, <2>2, <2>3 DEF Holders
<1>7. CASE r \notin Created(x)
  <2>1. x.existing[r] # None
    BY <1>7 DEF Created, Updated
  <2>2. QED BY <1>1, <1>2, <1>3, <1>4, <2>1 DEF KeyHeld
<1>8. QED BY <1>5, <1>6, <1>7

(* Any number of tasks may race for one route's card, or, while the        *)
(* changes of one identity come one after the other, write the cards of    *)
(* any number of routes: once a firing change is applied its card is       *)
(* there, the one it created or the winner's.                              *)
THEOREM FiringChangesHaveCards == Spec /\ (OneRoute \/ []Apart) => FiringHasCard
<1> DEFINE Shows == \A t \in Tasks : Applies(t) /\ IsFiring(tasks[t].delta.alert) =>
              \A r \in Routes \ tasks[t].mutes :
                LET holders == Holders(cards', r, Key(tasks[t]))
                IN  /\ \A c \in holders : cards'[c].state # "orphaned"
                    /\ holders # {} \/ \E c \in DOMAIN cards : c[1] = r /\ cards[c].message = "gone"
           Known == Typed /\ Informed /\ KeyedAlive /\ KeyHeld /\ Numbered /\ ReadKeys
<1>1. (OneRoute \/ Remembers) /\ Known /\ [Next]_vars => [Shows]_vars
  BY ChangeHasCard
<1>2. Init => Known /\ Remembers
  BY InitTyped, InitInformed
<1>3. Known /\ [Next]_vars => Known'
  BY NextTyped, NextInformed, NextAlive, NextKeyHeld, NextNumbered, NextReadKeys
<1>4. Known /\ Apart /\ Remembers /\ [Next]_vars => Remembers'
  BY NextRemembers
<1> HIDE DEF Shows, Known
<1>5. OneRoute => (Spec => [][Shows]_vars)
  <2> SUFFICES ASSUME OneRoute PROVE Spec => [][Shows]_vars
    OBVIOUS
  <2>1. Known /\ [Next]_vars => [Shows]_vars
    BY <1>1
  <2>2. QED BY <1>2, <1>3, <2>1, PTL DEF Spec
<1>6. Spec /\ []Apart => [][Shows]_vars
  <2>1. Remembers /\ Known /\ [Next]_vars => [Shows]_vars
    BY <1>1
  <2>2. QED BY <1>2, <1>3, <1>4, <2>1, PTL DEF Spec
<1>7. [][Shows]_vars => FiringHasCard
  BY DEF Shows, FiringHasCard
<1>8. QED BY <1>5, <1>6, <1>7, PTL

-----------------------------------------------------------------------------
(* No trigger a change is turned into revokes an acknowledgement, and an   *)
(* acknowledged card resumes as one.                                       *)
LEMMA AckedStaysAcked ==
  ASSUME NEW x \in Task, x.delta \in Changes, x.acked, NEW r \in Routes
  PROVE  StateAfter(x, r) # "firing"
<1> DEFINE old == x.existing[r].card.state
           trigger == TriggerFor(x.delta.kind, x.delta.alert, old, r \in x.mutes)
           after == NextState(old, trigger, x.acked)
<1>1. trigger # "ack_revoked"
  <2>1. trigger \in {"resolved", "ignored", "unignored", "fired", FromEvent(x.delta.kind)}
    BY DEF TriggerFor
  <2>2. FromEvent(x.delta.kind) \in Events \cup {None}
    BY DEF FromEvent, Changes
  <2>3. None # "ack_revoked" /\ "ack_revoked" \notin Events
    BY CardsAssumption DEF Events, Triggers
  <2>4. QED BY <2>1, <2>2, <2>3
<1>2. after # "firing"
  <2> HIDE DEF trigger
  <2>1. QED BY <1>1, CardsAssumption DEF NextState, States
<1>3. StateAfter(x, r) \in {"silenced", None, after}
  BY DEF StateAfter
<1>4. QED BY <1>2, <1>3, CardsAssumption DEF States

LEMMA ChangeKeepsAck ==
  ASSUME Typed, Numbered, [Next]_vars, NEW t \in Tasks, Applies(t), tasks[t].acked,
         NEW c \in DOMAIN cards
  PROVE  ~TurnsFiring(c)
<1> DEFINE x == tasks[t]
<1>1. Apply(t) /\ TaskOK(x) /\ x.delta \in Changes /\ x \in Task
  BY AppliesApply, ApplyCards DEF TaskOK
<1>2. CASE cards' = cards
  BY <1>2 DEF TurnsFiring
<1>3. CASE cards' = Decided(x)
  <2>1. c \in DOMAIN cards \ Fresh(x)
    BY FreshIsNew DEF Fresh, Created
  <2>2. CASE RouteOf(x, c) = {}
    BY <1>1, <1>3, <2>1, <2>2, OldRow, RetiredRow DEF TurnsFiring
  <2>3. ASSUME NEW r \in RouteOf(x, c)
        PROVE  ~TurnsFiring(c)
    <3>1. r \in Routes
      BY DEF RouteOf, Updated
    <3>2. cards'[c].state \in {cards[c].state, StateAfter(x, r)}
      BY <1>1, <1>3, <2>1, OldRow
    <3>3. QED BY <1>1, <3>1, <3>2, AckedStaysAcked DEF TurnsFiring
  <2>4. QED BY <2>2, <2>3
<1>4. QED BY <1>1, <1>2, <1>3, ApplyCards

(* Whichever tasks race: a decision that read the alert as held turns no   *)
(* card red.                                                               *)
THEOREM RefiresKeepAck == Spec => RefireKeepsAckRead
<1> DEFINE Keeps == \A t \in Tasks : Applies(t) /\ tasks[t].acked /\ tasks[t].delta.fp \in acks =>
              \A c \in DOMAIN cards : ~TurnsFiring(c)
<1>1. Typed /\ Numbered /\ [Next]_vars => [Keeps]_vars
  BY ChangeKeepsAck
<1> HIDE DEF Keeps
<1>2. Spec => [][Keeps]_vars
  BY <1>1, InitTyped, InitInformed, NextTyped, NextNumbered, PTL DEF Spec
<1>3. QED BY <1>2 DEF Keeps, RefireKeepsAckRead

-----------------------------------------------------------------------------
(***************************************************************************)
(* Escalation: nobody is mentioned twice about a card for nothing.         *)
(* MentionedOnce is not inductive: a sweep that has claimed a card and not *)
(* queued its mention yet is what the count leaves out, and so are the     *)
(* calls still to come, of the worker that has the row and of those that   *)
(* lost it.  The invariant says of such a sweep that it is the only one,   *)
(* and that nothing was queued for the card before it; it ties both to the *)
(* claim in the card's row, which no step takes back; and it counts every  *)
(* call to come with those that were made.                                 *)
(***************************************************************************)

(* A sweep between its claim of a card and the mention.                    *)
Holds(w, c) == sweeps[w].pc = "enqueue" /\ Head(sweeps[w].todo).id = c

(* Nobody has claimed the card.                                            *)
Unclaimed(c) == table[c] = Unborn \/ (Exists(c) /\ ~table[c].escalated)

Untold(c) == queued[c] = 0 /\ late[c] = 0 /\ mentioned[c] = 0

(* Whoever has the row, or takes it next, still calls.                     *)
ToCome(c) == IF queued[c] > 0 /\ doing[c] # "complete" THEN 1 ELSE 0

Account(c) ==
  /\ queued[c] <= 1 /\ (doing[c] # "no" => queued[c] = 1)
  /\ mentioned[c] + late[c] + ToCome(c) <= 1 + again[c]

ClaimsAreTold ==
  \A c \in CardIds :
    /\ Account(c)
    /\ Unclaimed(c) => Untold(c) /\ \A w \in Sweepers : ~Holds(w, c)
    /\ \A w \in Sweepers : Holds(w, c) => Untold(c)
    /\ \A v, w \in Sweepers : Holds(v, c) /\ Holds(w, c) => v = w

ClaimInv == EscalationTypeOK /\ ClaimsAreTold

-----------------------------------------------------------------------------
USE EscalationAssumption

(* No sweep is at work at first and no card is there.                      *)
LEMMA ClaimAtStart == EscalationInit => ClaimInv
BY DEF EscalationInit, ClaimInv, EscalationTypeOK, ClaimsAreTold, Account, ToCome, Asleep, Holds, Unclaimed, Untold, Exists, NoRow, Row

(* Neither a sweep nor a mention is touched: what a step may do to table is *)
(* to leave who has claimed what.                                          *)
LEMMA ClaimsStand ==
  ASSUME ClaimInv, UNCHANGED <<sweeps, outbox>>,
         \A c \in CardIds : Unclaimed(c)' => Unclaimed(c)
  PROVE  ClaimsAreTold'
BY DEF ClaimInv, ClaimsAreTold, Account, ToCome, Untold, Holds, outbox

(* Creation, posting, moving and retention.                                *)
LEMMA RowSteps ==
  ASSUME ClaimInv, Prune \/ \E c \in CardIds : Create(c) \/ PostCard(c) \/ Move(c)
  PROVE  ClaimInv'
<1>1. CASE Prune
  <2>0. PICK gone : table' = [ c \in CardIds |-> IF c \in gone THEN Pruned ELSE table[c] ]
    BY <1>1 DEF Prune
  <2>1. EscalationTypeOK'
    <3>1. table' \in [ CardIds -> Row \cup NoRow ]
      BY <2>0 DEF ClaimInv, EscalationTypeOK, NoRow
    <3>2. \A c \in CardIds : queued[c] > 0 => table'[c] # Unborn /\ (Exists(c)' => table'[c].escalated)
      BY <2>0, EscalationAssumption DEF ClaimInv, EscalationTypeOK, Exists, NoRow
    <3> QED BY <1>1, <3>1, <3>2 DEF ClaimInv, EscalationTypeOK, Prune, Exists, outbox
  <2>2. \A c \in CardIds : Unclaimed(c)' => Unclaimed(c)
    BY <2>0, EscalationAssumption DEF Unclaimed, Exists, NoRow
  <2> QED BY <1>1, <2>1, <2>2, ClaimsStand DEF ClaimInv, Prune
<1>2. ASSUME NEW c \in CardIds, Create(c)
      PROVE  ClaimInv'
  <2>1. EscalationTypeOK'
    BY <1>2 DEF ClaimInv, EscalationTypeOK, Create, Exists, NoRow, Row, outbox
  <2>2. \A d \in CardIds : Unclaimed(d)' => Unclaimed(d)
    BY <1>2 DEF ClaimInv, EscalationTypeOK, Create, Unclaimed, Exists, NoRow
  <2> QED BY <1>2, <2>1, <2>2, ClaimsStand DEF ClaimInv, Create
<1>3. ASSUME NEW c \in CardIds, PostCard(c)
      PROVE  ClaimInv'
  <2>1. table[c] \in Row
    BY <1>3 DEF ClaimInv, EscalationTypeOK, PostCard, Exists
  <2>2. table' = [ table EXCEPT ![c] = [ table[c] EXCEPT !.posted = TRUE ] ]
    BY <1>3 DEF PostCard
  <2>3. table'[c] \in Row /\ table'[c].escalated = table[c].escalated
    BY <2>1, <2>2 DEF ClaimInv, EscalationTypeOK, Row
  <2>4. EscalationTypeOK'
    BY <1>3, <2>2, <2>3 DEF ClaimInv, EscalationTypeOK, PostCard, Exists, NoRow, outbox
  <2>5. \A d \in CardIds : Unclaimed(d)' => Unclaimed(d)
    BY <1>3, <2>1, <2>2, <2>3 DEF ClaimInv, EscalationTypeOK, Unclaimed, Exists, NoRow
  <2> QED BY <1>3, <2>4, <2>5, ClaimsStand DEF ClaimInv, PostCard
<1>4. ASSUME NEW c \in CardIds, Move(c)
      PROVE  ClaimInv'
  <2>1. table[c] \in Row
    BY <1>4 DEF ClaimInv, EscalationTypeOK, Move, Exists
  <2>2. PICK next \in {"firing", "acked", "resolved"} :
          table' = [ table EXCEPT ![c] = [ table[c] EXCEPT !.state = next, !.updated = hour ] ]
    BY <1>4 DEF Move
  <2>3. table'[c] \in Row /\ table'[c].escalated = table[c].escalated
    BY <2>1, <2>2 DEF ClaimInv, EscalationTypeOK, Row
  <2>4. EscalationTypeOK'
    BY <1>4, <2>2, <2>3 DEF ClaimInv, EscalationTypeOK, Move, Exists, NoRow, outbox
  <2>5. \A d \in CardIds : Unclaimed(d)' => Unclaimed(d)
    BY <1>4, <2>1, <2>2, <2>3 DEF ClaimInv, EscalationTypeOK, Unclaimed, Exists, NoRow
  <2> QED BY <1>4, <2>4, <2>5, ClaimsStand DEF ClaimInv, Move
<1> QED BY <1>1, <1>2, <1>3, <1>4

(* What a worker does to one card's effect.  It has its row, or had it, so *)
(* that the card was claimed and no sweep is about to queue another.       *)
LEMMA WorkerSteps ==
  ASSUME ClaimInv, NEW c \in CardIds, Works(c) \/ Stumbles(c)
  PROVE  ClaimInv'
<1> USE DEF Works, Stumbles, Dispatch, Mention, Complete, CallRefused, AnswerLost, LeaseLapses,
            LateMention, Gone, Turns
<1>0. /\ queued[c] \in Nat /\ mentioned[c] \in Nat /\ late[c] \in Nat /\ again[c] \in Nat
      /\ doing[c] \in {"no", "call", "complete"} /\ Account(c)
  BY DEF ClaimInv, EscalationTypeOK, ClaimsAreTold
<1>1. ~Untold(c)
  BY <1>0 DEF Account, Untold
<1>2. UNCHANGED <<table, sweeps, hour>>
  OBVIOUS
<1>3. \A d \in CardIds : d # c =>
        /\ queued'[d] = queued[d] /\ mentioned'[d] = mentioned[d] /\ late'[d] = late[d]
        /\ again'[d] = again[d] /\ doing'[d] = doing[d]
  BY DEF ClaimInv, EscalationTypeOK
<1>4. /\ queued'[c] \in Nat /\ mentioned'[c] \in Nat /\ late'[c] \in Nat /\ again'[c] \in Nat
      /\ doing'[c] \in {"no", "call", "complete"} /\ queued'[c] <= queued[c] /\ Account(c)'
  <2> USE <1>0 DEF ClaimInv, EscalationTypeOK, Account, ToCome
  <2>1. CASE Dispatch(c)
    BY <2>1
  <2>2. CASE Mention(c)
    BY <2>2
  <2>3. CASE Complete(c)
    BY <2>3
  <2>4. CASE CallRefused(c)
    BY <2>4
  <2>5. CASE AnswerLost(c)
    BY <2>5
  <2>6. CASE LeaseLapses(c)
    BY <2>6
  <2>7. CASE LateMention(c)
    BY <2>7
  <2> QED BY <2>1, <2>2, <2>3, <2>4, <2>5, <2>6, <2>7
<1>5. /\ queued' \in [ CardIds -> Nat ] /\ mentioned' \in [ CardIds -> Nat ]
      /\ late' \in [ CardIds -> Nat ] /\ again' \in [ CardIds -> Nat ]
      /\ doing' \in [ CardIds -> {"no", "call", "complete"} ]
  BY <1>3, <1>4 DEF ClaimInv, EscalationTypeOK
<1>6. EscalationTypeOK'
  BY <1>0, <1>2, <1>3, <1>4, <1>5 DEF ClaimInv, EscalationTypeOK, Exists
<1>7. ~Unclaimed(c) /\ \A w \in Sweepers : ~Holds(w, c)
  BY <1>1 DEF ClaimInv, ClaimsAreTold
<1>8. ClaimsAreTold'
  <2> SUFFICES ASSUME NEW d \in CardIds
               PROVE  /\ Account(d)'
                      /\ Unclaimed(d)' => Untold(d)' /\ \A w \in Sweepers : ~Holds(w, d)'
                      /\ \A w \in Sweepers : Holds(w, d)' => Untold(d)'
                      /\ \A v, w \in Sweepers : Holds(v, d)' /\ Holds(w, d)' => v = w
    BY DEF ClaimsAreTold
  <2>1. /\ Unclaimed(d)' <=> Unclaimed(d)
        /\ \A w \in Sweepers : Holds(w, d)' <=> Holds(w, d)
    BY <1>2 DEF Unclaimed, Exists, Holds
  <2>2. CASE d = c
    BY <1>4, <1>7, <2>1, <2>2
  <2>3. CASE d # c
    <3>1. (Account(d)' <=> Account(d)) /\ (Untold(d)' <=> Untold(d))
      BY <1>3, <2>3 DEF Account, ToCome, Untold
    <3> QED BY <2>1, <3>1 DEF ClaimInv, ClaimsAreTold
  <2> QED BY <2>2, <2>3
<1> QED BY <1>6, <1>8 DEF ClaimInv

(* A sweep's steps that neither claim nor queue leave it without a card.   *)
LEMMA SweepLetsGo ==
  ASSUME ClaimInv, NEW w \in Sweepers, UNCHANGED <<table, outbox>>,
         \A v \in Sweepers : v # w => sweeps'[v] = sweeps[v],
         sweeps'[w].pc # "enqueue"
  PROVE  ClaimsAreTold'
<1>1. \A v \in Sweepers, c \in CardIds : Holds(v, c)' => Holds(v, c)
  BY DEF Holds
<1> QED BY <1>1 DEF ClaimInv, ClaimsAreTold, Account, ToCome, Unclaimed, Exists, Untold, outbox

LEMMA RestIsNoClaim ==
  ASSUME ClaimInv, NEW w \in Sweepers
  PROVE  LET next == Rest(sweeps[w])
         IN  /\ next.pc \in {"idle", "claim"} /\ next.now \in Nat
             /\ next = [ pc |-> next.pc, now |-> next.now, todo |-> next.todo ]
<1>1. /\ sweeps[w].now \in Nat
      /\ sweeps[w] = [ pc |-> sweeps[w].pc, now |-> sweeps[w].now, todo |-> sweeps[w].todo ]
  BY DEF ClaimInv, EscalationTypeOK
<1>2. CASE Len(sweeps[w].todo) = 1
  BY <1>2 DEF Rest, Asleep
<1>3. CASE Len(sweeps[w].todo) # 1
  <2>1. Rest(sweeps[w])
          = [ pc |-> "claim", now |-> sweeps[w].now, todo |-> Tail(sweeps[w].todo) ]
    BY <1>1, <1>3 DEF Rest
  <2> QED BY <1>1, <2>1
<1> QED BY <1>2, <1>3

LEMMA SweepSteps ==
  ASSUME ClaimInv, NEW w \in Sweepers, Sweep(w) \/ SweepFails(w)
  PROVE  ClaimInv'
<1> DEFINE SweepTyped(x) ==
      /\ x.pc \in {"idle", "claim", "enqueue"} /\ x.now \in Nat
      /\ x = [ pc |-> x.pc, now |-> x.now, todo |-> x.todo ]
<1>0. \A v \in Sweepers : SweepTyped(sweeps[v])
  BY DEF ClaimInv, EscalationTypeOK
<1>1. ASSUME NEW next, sweeps' = [ sweeps EXCEPT ![w] = next ], SweepTyped(next), next.pc # "enqueue",
             UNCHANGED <<table, outbox, hour>>
      PROVE  ClaimInv'
  <2>1. EscalationTypeOK'
    BY <1>0, <1>1 DEF ClaimInv, EscalationTypeOK, Exists, outbox
  <2>2. ClaimsAreTold'
    BY <1>1, SweepLetsGo DEF ClaimInv, EscalationTypeOK
  <2> QED BY <2>1, <2>2 DEF ClaimInv
<1>2. CASE SweepReads(w)
  <2>1. PICK found : sweeps' = [ sweeps EXCEPT ![w] =
            [ pc |-> "claim", now |-> hour, todo |-> [ i \in DOMAIN found |-> Read(found[i]) ] ] ]
    BY <1>2 DEF SweepReads
  <2>2. hour \in Nat
    BY DEF ClaimInv, EscalationTypeOK
  <2> QED BY <1>1, <1>2, <2>1, <2>2 DEF SweepReads
<1>3. CASE SweepPasses(w)
  <2>1. SweepTyped(Rest(sweeps[w])) /\ Rest(sweeps[w]).pc # "enqueue"
    BY RestIsNoClaim
  <2> QED BY <1>1, <1>3, <2>1 DEF SweepPasses
<1>4. CASE SweepFails(w)
  <2>1. SweepTyped(Asleep) /\ Asleep.pc # "enqueue"
    BY DEF Asleep
  <2>2. sweeps' = [ sweeps EXCEPT ![w] = Asleep ] /\ UNCHANGED <<table, outbox, hour>>
    BY <1>4 DEF SweepFails
  <2> QED BY <1>1, <2>1, <2>2
<1>5. CASE SweepEnqueues(w)
  <2> DEFINE c == Head(sweeps[w].todo).id
  <2>1. /\ queued' = [ queued EXCEPT ![c] = @ + 1 ] /\ sweeps' = [ sweeps EXCEPT ![w] = Rest(sweeps[w]) ]
        /\ sweeps[w].pc = "enqueue"
        /\ UNCHANGED <<table, doing, late, again, mentioned, hour>>
    BY <1>5 DEF SweepEnqueues
  <2>2. SweepTyped(sweeps'[w]) /\ sweeps'[w].pc # "enqueue"
    BY <2>1, RestIsNoClaim DEF ClaimInv, EscalationTypeOK
  <2>3. \A v \in Sweepers : v # w => sweeps'[v] = sweeps[v]
    BY <2>1 DEF ClaimInv, EscalationTypeOK
  <2>4. \A v \in Sweepers, d \in CardIds : Holds(v, d)' => v # w /\ Holds(v, d)
    BY <2>2, <2>3 DEF Holds
  <2>5. \A d \in CardIds : d # c => queued'[d] = queued[d]
    BY <2>1 DEF ClaimInv, EscalationTypeOK
  <2>6. c \in CardIds => queued[c] = 0 /\ Untold(c) /\ queued'[c] = 1 /\ ~Unclaimed(c)
                       /\ \A v \in Sweepers : Holds(v, c) => v = w
    BY <2>1 DEF ClaimInv, EscalationTypeOK, ClaimsAreTold, Holds, Untold
  <2>9. \A d \in CardIds : d = c => Account(d)'
    <3> SUFFICES ASSUME NEW d \in CardIds, d = c PROVE Account(d)'
      OBVIOUS
    <3>1. Account(d) /\ Untold(d) /\ queued'[d] = 1
      BY <2>6 DEF ClaimInv, ClaimsAreTold
    <3>2. doing[d] = "no" /\ again[d] \in Nat /\ mentioned[d] = 0 /\ late[d] = 0
      BY <3>1 DEF ClaimInv, EscalationTypeOK, Account, Untold
    <3>3. UNCHANGED <<doing, late, again, mentioned>>
      BY <2>1
    <3> HIDE DEF c
    <3> QED BY ONLY <3>1, <3>2, <3>3 DEF Account, ToCome
  <2>7. EscalationTypeOK'
    <3>1. queued' \in [ CardIds -> Nat ]
      <4>1. queued \in [ CardIds -> Nat ]
        BY DEF ClaimInv, EscalationTypeOK
      <4>2. queued' = [ queued EXCEPT ![c] = queued[c] + 1 ]
        BY <2>1
      <4> HIDE DEF c
      <4>3. c \in CardIds => queued[c] + 1 \in Nat
        <5>1. c \in CardIds => queued[c] \in Nat
          BY <4>1
        <5> QED BY <5>1
      <4> QED BY <4>1, <4>2, <4>3
    <3>2. \A d \in CardIds : queued'[d] > 0 => table[d] # Unborn /\ (Exists(d) => table[d].escalated)
      <4> SUFFICES ASSUME NEW d \in CardIds, queued'[d] > 0
                   PROVE  table[d] # Unborn /\ (Exists(d) => table[d].escalated)
        OBVIOUS
      <4>1. CASE d = c
        BY <2>6, <4>1 DEF Unclaimed
      <4>2. CASE d # c
        BY <2>5, <4>2 DEF ClaimInv, EscalationTypeOK
      <4> QED BY <4>1, <4>2
    <3>3. DOMAIN sweeps' = Sweepers
      BY <2>1 DEF ClaimInv, EscalationTypeOK
    <3>4. \A v \in Sweepers : SweepTyped(sweeps'[v])
      BY <1>0, <2>2, <2>3
    <3> QED BY <2>1, <3>1, <3>2, <3>3, <3>4 DEF ClaimInv, EscalationTypeOK, Exists
  <2>8. ClaimsAreTold'
    <3> SUFFICES ASSUME NEW d \in CardIds
                 PROVE  /\ Account(d)'
                        /\ Unclaimed(d)' => Untold(d)' /\ \A v \in Sweepers : ~Holds(v, d)'
                        /\ \A v \in Sweepers : Holds(v, d)' => Untold(d)'
                        /\ \A u, v \in Sweepers : Holds(u, d)' /\ Holds(v, d)' => u = v
      BY DEF ClaimsAreTold
    <3>1. Unclaimed(d)' <=> Unclaimed(d)
      BY <2>1 DEF Unclaimed, Exists
    <3>2. CASE d = c
      <4> HIDE DEF c
      <4>1. Account(d)' /\ ~Unclaimed(d)'
        BY <2>6, <2>9, <3>1, <3>2
      <4>2. \A v \in Sweepers : ~Holds(v, d)'
        BY <2>4, <2>6, <3>2
      <4> QED BY <4>1, <4>2
    <3>3. CASE d # c
      <4>1. (Account(d)' <=> Account(d)) /\ (Untold(d)' <=> Untold(d))
        BY <2>1, <2>5, <3>3 DEF Account, ToCome, Untold
      <4> QED BY <2>4, <3>1, <4>1 DEF ClaimInv, ClaimsAreTold
    <3> QED BY <3>2, <3>3
  <2> QED BY <2>7, <2>8 DEF ClaimInv
<1>6. CASE SweepClaims(w)
  <2> DEFINE c == Head(sweeps[w].todo).id
  <2>1. CASE ~Claimable(c)
    <3>1. PICK next \in {Rest(sweeps[w]), Asleep} : sweeps' = [ sweeps EXCEPT ![w] = next ]
      BY <1>6, <2>1 DEF SweepClaims
    <3>2. SweepTyped(Rest(sweeps[w])) /\ Rest(sweeps[w]).pc # "enqueue"
      BY RestIsNoClaim
    <3>3. SweepTyped(Asleep) /\ Asleep.pc # "enqueue"
      BY DEF Asleep
    <3>4. SweepTyped(next) /\ next.pc # "enqueue"
      BY <3>1, <3>2, <3>3
    <3>5. UNCHANGED <<table, outbox, hour>>
      BY <1>6, <2>1 DEF SweepClaims
    <3> QED BY <1>1, <3>1, <3>4, <3>5
  <2>2. CASE Claimable(c)
    <3>1. /\ table' = [ table EXCEPT ![c] = [ table[c] EXCEPT !.escalated = TRUE, !.updated = sweeps[w].now ] ]
          /\ sweeps' = [ sweeps EXCEPT ![w] = [ sweeps[w] EXCEPT !.pc = "enqueue" ] ]
          /\ sweeps[w].pc = "claim" /\ UNCHANGED <<outbox, hour>>
      BY <1>6, <2>2 DEF SweepClaims
    <3>2. sweeps'[w] = [ pc |-> "enqueue", now |-> sweeps[w].now, todo |-> sweeps[w].todo ]
      BY <1>0, <3>1 DEF ClaimInv, EscalationTypeOK
    <3>3. \A v \in Sweepers : v # w => sweeps'[v] = sweeps[v]
      BY <3>1 DEF ClaimInv, EscalationTypeOK
    <3>4. \A d \in CardIds : d # c => table'[d] = table[d]
      BY <3>1 DEF ClaimInv, EscalationTypeOK
    <3>5. c \in CardIds => table[c] \in Row /\ Unclaimed(c)
      BY <2>2 DEF ClaimInv, EscalationTypeOK, Claimable, Unclaimed, Exists
    <3>6. c \in CardIds => table'[c] \in Row /\ table'[c].escalated
      BY <1>0, <3>1, <3>5 DEF ClaimInv, EscalationTypeOK, Row
    <3>7. c \in CardIds => Untold(c) /\ \A v \in Sweepers : ~Holds(v, c)
      BY <3>5 DEF ClaimInv, ClaimsAreTold
    <3>8. \A v \in Sweepers, d \in CardIds : Holds(v, d)' => Holds(v, d) \/ (v = w /\ d = c)
      BY <3>2, <3>3 DEF Holds
    <3>9. EscalationTypeOK'
      <4>1. table' \in [ CardIds -> Row \cup NoRow ]
        BY <3>1, <3>4, <3>6 DEF ClaimInv, EscalationTypeOK
      <4>2. DOMAIN sweeps' = Sweepers
        BY <3>1 DEF ClaimInv, EscalationTypeOK
      <4>3. \A v \in Sweepers : SweepTyped(sweeps'[v])
        <5>1. sweeps[w].now \in Nat
          BY <1>0
        <5>2. SweepTyped([ pc |-> "enqueue", now |-> sweeps[w].now, todo |-> sweeps[w].todo ])
          BY <5>1
        <5> HIDE DEF SweepTyped
        <5>3. SweepTyped(sweeps'[w])
          BY <3>2, <5>2
        <5> QED BY <1>0, <3>3, <5>3
      <4>4. \A d \in CardIds : queued'[d] > 0 => table'[d] # Unborn /\ (Exists(d)' => table'[d].escalated)
        BY <3>1, <3>4, <3>6 DEF ClaimInv, EscalationTypeOK, Exists, NoRow, outbox
      <4> QED BY <3>1, <4>1, <4>2, <4>3, <4>4 DEF ClaimInv, EscalationTypeOK, outbox
    <3>10. ClaimsAreTold'
      <4> SUFFICES ASSUME NEW d \in CardIds
                   PROVE  /\ Account(d)'
                          /\ Unclaimed(d)' => Untold(d)' /\ \A v \in Sweepers : ~Holds(v, d)'
                          /\ \A v \in Sweepers : Holds(v, d)' => Untold(d)'
                          /\ \A u, v \in Sweepers : Holds(u, d)' /\ Holds(v, d)' => u = v
        BY DEF ClaimsAreTold
      <4>1. (Account(d)' <=> Account(d)) /\ (Untold(d)' <=> Untold(d))
        BY <3>1 DEF Account, ToCome, Untold, outbox
      <4>2. CASE d = c
        <5>1. ~Unclaimed(d)'
          BY <3>6, <4>2 DEF Unclaimed, Exists, NoRow
        <5> QED BY <3>1, <3>7, <3>8, <4>1, <4>2, <5>1 DEF ClaimInv, ClaimsAreTold
      <4>3. CASE d # c
        <5>1. Unclaimed(d)' <=> Unclaimed(d)
          BY <3>4, <4>3 DEF Unclaimed, Exists
        <5> QED BY <3>1, <3>8, <4>1, <4>3, <5>1 DEF ClaimInv, ClaimsAreTold
      <4> QED BY <4>2, <4>3
    <3> QED BY <3>9, <3>10 DEF ClaimInv
  <2> QED BY <2>1, <2>2
<1> QED BY <1>2, <1>3, <1>4, <1>5, <1>6 DEF Sweep

LEMMA ClaimStep == ClaimInv /\ [EscalationNext]_escalation => ClaimInv'
<1> SUFFICES ASSUME ClaimInv, [EscalationNext]_escalation
             PROVE  ClaimInv'
  OBVIOUS
<1>1. CASE HourPasses \/ UNCHANGED escalation
  <2>1. hour' \in Nat /\ UNCHANGED <<table, sweeps, outbox>>
    BY <1>1 DEF HourPasses, escalation, ClaimInv, EscalationTypeOK
  <2>2. EscalationTypeOK'
    BY <2>1 DEF ClaimInv, EscalationTypeOK, Exists, outbox
  <2>3. \A c \in CardIds : Unclaimed(c)' => Unclaimed(c)
    BY <2>1 DEF Unclaimed, Exists
  <2> QED BY <2>1, <2>2, <2>3, ClaimsStand DEF ClaimInv
<1>2. CASE Prune \/ \E c \in CardIds : Create(c) \/ PostCard(c) \/ Move(c)
  BY <1>2, RowSteps
<1>3. CASE \E c \in CardIds : Works(c) \/ Stumbles(c)
  BY <1>3, WorkerSteps
<1>4. CASE \E w \in Sweepers : Sweep(w) \/ SweepFails(w)
  BY <1>4, SweepSteps
<1> QED BY <1>1, <1>2, <1>3, <1>4 DEF EscalationNext

-----------------------------------------------------------------------------
THEOREM AlwaysClaimInv == EscalationSpec => []ClaimInv
<1>1. EscalationInit /\ [][EscalationNext]_escalation => []ClaimInv
  BY ClaimAtStart, ClaimStep, PTL
<1> QED BY <1>1, PTL DEF EscalationSpec

(* The type invariant, with the claim behind every queued mention: what    *)
(* mark_escalated writes before enqueue_effects is called.                 *)
THEOREM EscalationTypeCorrect == EscalationSpec => []EscalationTypeOK
<1>1. ClaimInv => EscalationTypeOK
  BY DEF ClaimInv
<1> QED BY <1>1, AlwaysClaimInv, PTL

(* However many sweeps of however many processes read one card before      *)
(* either claims it, one effect of them at most is queued: the condition   *)
(* of mark_escalated is enough.  It is carried out once, and once more for *)
(* each time it went back to the queue after its call may have been made.  *)
THEOREM OneMention == EscalationSpec => []MentionedOnce
<1>1. ClaimInv => MentionedOnce
  <2> SUFFICES ASSUME ClaimInv, NEW c \in CardIds
               PROVE  queued[c] <= 1 /\ mentioned[c] <= 1 + again[c]
    BY DEF MentionedOnce
  <2>1. /\ mentioned[c] \in Nat /\ late[c] \in Nat /\ again[c] \in Nat /\ Account(c)
        /\ ToCome(c) \in {0, 1}
    BY DEF ClaimInv, EscalationTypeOK, ClaimsAreTold, ToCome
  <2> HIDE DEF ToCome
  <2> QED BY <2>1 DEF Account
<1> QED BY <1>1, AlwaysClaimInv, PTL
=============================================================================

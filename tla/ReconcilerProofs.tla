------------------------- MODULE ReconcilerProofs -------------------------
(***************************************************************************)
(* Proofs about Reconciler, for any alerts, silences and bounds: what each *)
(* write makes of the table, the type invariant, and then one invariant    *)
(* for each of the three properties.                                       *)
(***************************************************************************)
EXTENDS Reconciler, TLAPS

-----------------------------------------------------------------------------
(* What Alertmanager says of alerts.  A truthful alert is suppressed just  *)
(* when it names what suppresses it.                                       *)
Told == [ status : {"firing", "resolved"}, suppressed : BOOLEAN, text : Suppression ]

Truthful(alert) == alert.suppressed <=> alert.text.silencedBy # {} \/ alert.text.inhibited

Answers == UNION { [ S -> Told ] : S \in SUBSET Fps }

TruthfulAnswer(batch) == batch \in Answers /\ \A f \in DOMAIN batch : Truthful(batch[f])

WorldOK ==
  /\ am \in [ Fps -> {"firing", "ended", "absent"} ]
  /\ silences \in [ Silences -> Lifecycle ] /\ links \in [ Silences -> Lifecycle ]
  /\ inhibited \subseteq Fps
  /\ mail \subseteq Fps \X {"firing", "resolved"}
  /\ left \in [ Sources -> Nat ]
  /\ card \in [ Fps -> States \cup {None} ]

RowsOK ==
  /\ rows \in [ Fps -> Row \cup {None} ]
  /\ \A f \in Fps : rows[f] # None => Truthful(rows[f]) /\ rows[f].seen <= clock

Task ==
  [ pc : {"idle", "ingest", "apply", "missing", "resolve", "applyMissing", "alerts", "write"},
    started : Nat, answer : Answers \cup {None}, snapshot : SUBSET (Silences \X Lifecycle),
    todo : SUBSET Changes ]

TasksOK ==
  /\ tasks \in [ Names -> Task ]
  /\ tasks["poll"].pc \in {"idle", "ingest", "apply", "missing", "resolve", "applyMissing"}
  /\ tasks["poll"].pc \in {"ingest", "apply", "missing", "resolve"} => TruthfulAnswer(tasks["poll"].answer)
  /\ tasks["sync"].pc \in {"idle", "alerts", "write", "apply"}
  /\ tasks["sync"].pc = "write" => tasks["sync"].answer \in Answers
  /\ tasks["webhook"].pc \in {"idle", "apply"}

(* The clocks of a process lag behind the count of polls.                  *)
ClocksOK ==
  /\ clock \in Nat /\ lastPoll \in Nat /\ previousPoll \in Nat /\ calm \in Nat
  /\ undisturbed \in BOOLEAN /\ overlapped \in BOOLEAN
  /\ absences \in [ Fps -> Nat ]
  /\ previousPoll <= lastPoll /\ lastPoll <= clock
  /\ tasks["poll"].pc # "idle" => tasks["poll"].started = clock /\ clock >= 1

Typed == WorldOK /\ RowsOK /\ TasksOK /\ ClocksOK

LEMMA TypedTypeOK == Typed => TypeOK
BY DEF Typed, TypeOK, WorldOK, RowsOK, TasksOK, Task, Truthful

LEMMA IdleTask == Idle \in Task
BY DEF Idle, Task

LEMMA InitTyped == Init => Typed
<1> SUFFICES ASSUME Init PROVE Typed
  OBVIOUS
<1>1. WorldOK
  BY ReconcilerAssumption DEF Init, WorldOK, Lifecycle
<1>2. RowsOK
  BY DEF Init, RowsOK
<1>a. ClocksOK
  <2>1. absences \in [ Fps -> Nat ]
    BY DEF Init
  <2>2. tasks["poll"].pc = "idle"
    BY DEF Init, Idle, Names
  <2>3. undisturbed \in BOOLEAN /\ overlapped \in BOOLEAN
    BY Zenon DEF Init
  <2>4. clock = 0 /\ lastPoll = 0 /\ previousPoll = 0 /\ calm = 0
    BY DEF Init
  <2>5. QED BY <2>1, <2>2, <2>3, <2>4 DEF ClocksOK
<1>3. TasksOK
  <2>1. tasks \in [ Names -> Task ]
    BY IdleTask DEF Init
  <2>2. \A t \in Names : tasks[t].pc = "idle"
    BY DEF Init, Idle
  <2>3. QED BY <2>1, <2>2 DEF TasksOK, Names
<1>4. QED BY <1>1, <1>2, <1>a, <1>3 DEF Typed

-----------------------------------------------------------------------------
(* What the writes make of the table.                                      *)

LEMMA ClassifyType ==
  ASSUME NEW previous, NEW incoming
  PROVE  Classify(previous, incoming) \in Events \cup {None}
BY DEF Classify, Events

LEMMA AlertOK ==
  ASSUME NEW status \in {"firing", "resolved"}, NEW silencedBy \in SUBSET Silences, NEW inhibits \in BOOLEAN
  PROVE  /\ Alert_(status, silencedBy, inhibits) \in Told
         /\ Truthful(Alert_(status, silencedBy, inhibits))
         /\ Alert_(status, silencedBy, inhibits).status = status
         /\ Alert_(status, silencedBy, inhibits).text =
              [ silencedBy |-> silencedBy, inhibited |-> inhibits ]
<1> DEFINE flag == silencedBy # {} \/ inhibits
           text == [ silencedBy |-> silencedBy, inhibited |-> inhibits ]
           alert == [ status |-> status, suppressed |-> flag, text |-> text ]
<1>1. Alert_(status, silencedBy, inhibits) = alert
  BY DEF Alert_
<1>2. flag \in BOOLEAN /\ text \in Suppression
  BY DEF Suppression
<1>3. text.silencedBy = silencedBy /\ text.inhibited = inhibits
  OBVIOUS
<1>4. flag <=> text.silencedBy # {} \/ text.inhibited
  BY <1>3
<1> HIDE DEF flag, text
<1>5. alert \in Told
  BY <1>2 DEF Told
<1>6. alert.status = status /\ alert.suppressed = flag /\ alert.text = text
  OBVIOUS
<1> HIDE DEF alert
<1>7. Truthful(alert)
  BY <1>4, <1>6 DEF Truthful
<1>8. QED BY <1>1, <1>5, <1>6, <1>7 DEF text

LEMMA ListingOK ==
  ASSUME WorldOK
  PROVE  /\ Listed \subseteq Fps /\ DOMAIN Listing = Listed /\ TruthfulAnswer(Listing)
         /\ \A f \in Listed :
              /\ Listing[f].status = IF am[f] = "firing" THEN "firing" ELSE "resolved"
              /\ Listing[f].text = [ silencedBy |-> Active, inhibited |-> f \in inhibited ]
<1>1. Listed \subseteq Fps /\ DOMAIN Listing = Listed /\ Active \subseteq Silences
  BY DEF Listed, Listing, Active
<1>2. ASSUME NEW f \in Listed
      PROVE  /\ Listing[f] \in Told /\ Truthful(Listing[f])
             /\ Listing[f].status = IF am[f] = "firing" THEN "firing" ELSE "resolved"
             /\ Listing[f].text = [ silencedBy |-> Active, inhibited |-> f \in inhibited ]
  <2> DEFINE status == IF am[f] = "firing" THEN "firing" ELSE "resolved"
  <2> DEFINE inhibits == f \in inhibited
  <2>1. Listing[f] = Alert_(status, Active, inhibits)
    BY DEF Listing
  <2>2. status \in {"firing", "resolved"} /\ inhibits \in BOOLEAN
    OBVIOUS
  <2>3. /\ Alert_(status, Active, inhibits) \in Told /\ Truthful(Alert_(status, Active, inhibits))
        /\ Alert_(status, Active, inhibits).status = status
        /\ Alert_(status, Active, inhibits).text = [ silencedBy |-> Active, inhibited |-> inhibits ]
    <3> HIDE DEF status, inhibits
    <3>1. QED BY <1>1, <2>2, AlertOK
  <2>4. QED BY Zenon, <2>1, <2>3
<1>3. Listing \in [ Listed -> Told ]
  BY <1>2 DEF Listing
<1>4. Listing \in Answers
  BY <1>1, <1>3 DEF Answers
<1>5. QED BY <1>1, <1>2, <1>4 DEF TruthfulAnswer

(* What ingest makes of one row.                                           *)
LEMMA IngestRow ==
  ASSUME NEW batch \in Answers, NEW now, NEW f \in Fps
  PROVE  /\ DOMAIN batch \subseteq Fps
         /\ f \in DOMAIN batch =>
              /\ batch[f] \in Told
              /\ Ingest(batch, now)[f].status = batch[f].status
              /\ Ingest(batch, now)[f].suppressed = batch[f].suppressed
              /\ Ingest(batch, now)[f].text = batch[f].text
              /\ Ingest(batch, now)[f].seen = now
              /\ now \in Nat => Ingest(batch, now)[f] \in Row
         /\ f \notin DOMAIN batch => Ingest(batch, now)[f] = rows[f]
<1>1. DOMAIN batch \subseteq Fps /\ \A g \in DOMAIN batch : batch[g] \in Told
  BY DEF Answers
<1>2. QED BY <1>1 DEF Ingest, Told, Row

LEMMA IngestOK ==
  ASSUME RowsOK, ClocksOK, NEW batch, TruthfulAnswer(batch), NEW now \in Nat, now <= clock',
         clock' \in Nat, clock <= clock', rows' = Ingest(batch, now)
  PROVE  RowsOK'
<1>1. rows' \in [ Fps -> Row \cup {None} ]
  <2>1. \A f \in Fps : Ingest(batch, now)[f] \in Row \cup {None}
    BY IngestRow DEF TruthfulAnswer, RowsOK
  <2>2. QED BY <2>1 DEF Ingest
<1>2. ASSUME NEW f \in Fps, rows'[f] # None
      PROVE  Truthful(rows'[f]) /\ rows'[f].seen <= clock'
  <2>1. CASE f \in DOMAIN batch
    BY <2>1, IngestRow DEF TruthfulAnswer, Truthful
  <2>2. CASE f \notin DOMAIN batch
    <3>1. rows'[f] = rows[f] /\ rows[f] \in Row
      BY <1>2, <2>2, IngestRow DEF TruthfulAnswer, RowsOK
    <3>2. QED BY <1>2, <3>1 DEF RowsOK, ClocksOK, Row
  <2>3. QED BY <2>1, <2>2
<1>3. QED BY <1>1, <1>2 DEF RowsOK

LEMMA DeltasOK ==
  ASSUME NEW batch \in Answers
  PROVE  Deltas(batch) \subseteq Changes
<1> SUFFICES ASSUME NEW f \in DOMAIN batch, Classify(rows[f], batch[f]) # None
             PROVE  Change(f, Classify(rows[f], batch[f]), batch[f]) \in Changes
  BY DEF Deltas
<1>1. f \in Fps /\ batch[f] \in Told
  BY DEF Answers
<1>2. Classify(rows[f], batch[f]) \in Events
  BY ClassifyType
<1>3. QED BY <1>1, <1>2 DEF Change, Changes, Told

(* A webhook's answer, about one alert.                                    *)
LEMMA WebhookOK ==
  ASSUME NEW m \in Fps \X {"firing", "resolved"}
  PROVE  TruthfulAnswer([ f \in {m[1]} |-> Alert_(m[2], {}, FALSE) ])
<1>1. Alert_(m[2], {}, FALSE) \in Told /\ Truthful(Alert_(m[2], {}, FALSE))
  BY AlertOK
<1>2. {m[1]} \in SUBSET Fps
  OBVIOUS
<1>3. [ f \in {m[1]} |-> Alert_(m[2], {}, FALSE) ] \in [ {m[1]} -> Told ]
  BY <1>1
<1>4. QED BY <1>1, <1>2, <1>3 DEF TruthfulAnswer, Answers

(* What a poll that missed alerts says of them.                            *)
Resolutions(missing) ==
  [ f \in missing |-> [ status |-> "resolved", suppressed |-> rows[f].suppressed, text |-> rows[f].text ] ]

LEMMA ResolutionsOK ==
  ASSUME RowsOK, NEW missing \in SUBSET Fps, \A f \in missing : rows[f] # None
  PROVE  TruthfulAnswer(Resolutions(missing))
<1>1. ASSUME NEW f \in missing
      PROVE  Resolutions(missing)[f] \in Told /\ Truthful(Resolutions(missing)[f])
  <2>1. rows[f] \in Row /\ Truthful(rows[f])
    BY DEF RowsOK
  <2>2. QED BY <2>1 DEF Resolutions, Row, Told, Truthful
<1>2. Resolutions(missing) \in [ missing -> Told ]
  BY <1>1 DEF Resolutions
<1>3. QED BY <1>1, <1>2 DEF TruthfulAnswer, Answers, Resolutions

(* What the silence sync makes of one row.                                 *)
LEMMA DesiredOK ==
  ASSUME NEW x, x.answer \in Answers, NEW f
  PROVE  Desired(x, f) \subseteq Silences
BY DEF Desired, Answers, Told, Suppression

LEMMA ResyncedRow ==
  ASSUME RowsOK, NEW x, x.answer \in Answers, NEW f \in Fps, rows[f] # None
  PROVE  /\ Resynced(x, f) \in Row /\ Truthful(Resynced(x, f))
         /\ Resynced(x, f).status = rows[f].status
         /\ Resynced(x, f).seen = rows[f].seen
         /\ Resynced(x, f).text = [ silencedBy |-> Desired(x, f), inhibited |-> rows[f].text.inhibited ]
         /\ rows[f].text.silencedBy = Desired(x, f) => Resynced(x, f) = rows[f]
<1> DEFINE row == rows[f]
           want == Desired(x, f)
           text == [ silencedBy |-> want, inhibited |-> row.text.inhibited ]
           flag == want # {} \/ row.text.inhibited
<1>1. row \in Row /\ Truthful(row) /\ want \subseteq Silences
  BY DesiredOK DEF RowsOK
<1>2. row.text \in Suppression /\ text \in Suppression /\ flag \in BOOLEAN
  BY <1>1 DEF Row, Suppression
<1>3. CASE row.text.silencedBy = want
  <2>1. Resynced(x, f) = row /\ row.text = text
    BY <1>2, <1>3 DEF Resynced, Suppression
  <2>2. QED BY <1>1, <2>1
<1>4. CASE row.text.silencedBy # want
  <2>1. Resynced(x, f) = [ row EXCEPT !.text.silencedBy = want, !.suppressed = flag ]
    BY <1>4 DEF Resynced
  <2>2. [ row EXCEPT !.text.silencedBy = want, !.suppressed = flag ]
          = [ row EXCEPT !.text = [ @ EXCEPT !.silencedBy = want ], !.suppressed = flag ]
    OBVIOUS
  <2>3. [ row.text EXCEPT !.silencedBy = want ] = text
    BY <1>2 DEF Suppression
  <2> DEFINE new == [ row EXCEPT !.text = text, !.suppressed = flag ]
  <2>4. Resynced(x, f) = new
    BY <2>1, <2>2, <2>3
  <2>5. flag <=> text.silencedBy # {} \/ text.inhibited
    OBVIOUS
  <2> HIDE DEF want, flag, text
  <2>6. /\ new \in Row /\ new.status = row.status /\ new.seen = row.seen
        /\ new.text = text /\ new.suppressed = flag
    BY <1>1, <1>2 DEF Row
  <2> HIDE DEF new
  <2>7. Truthful(new)
    BY <2>5, <2>6 DEF Truthful
  <2>8. QED BY <1>4, <2>4, <2>6, <2>7 DEF text, want
<1>5. QED BY <1>3, <1>4

LEMMA ResyncOK ==
  ASSUME RowsOK, ClocksOK, NEW x, x.answer \in Answers, rows' = [ f \in Fps |-> Resynced(x, f) ], clock' = clock
  PROVE  RowsOK'
<1>1. \A f \in Fps : rows[f] = None => Resynced(x, f) = None
  BY DEF Resynced
<1>2. \A f \in Fps : rows[f] # None =>
        Resynced(x, f) \in Row /\ Truthful(Resynced(x, f)) /\ Resynced(x, f).seen = rows[f].seen
  BY ResyncedRow
<1>3. QED BY <1>1, <1>2 DEF RowsOK

-----------------------------------------------------------------------------
(* The steps, by what they touch: nothing the invariants speak of but the  *)
(* mail; Alertmanager; or what each task does.                             *)
Unseen ==
  UNCHANGED <<outside, links, rows, card, polls, tasks, calm, undisturbed, absences, overlapped>>

Outer == Upset /\ UNCHANGED <<rows, card, polls, tasks, absences, overlapped>>

LEMMA StepKinds ==
  ASSUME [Next]_vars
  PROVE  \/ Unseen \/ Outer
         \/ \E m \in mail : Receive(m)
         \/ PollLists \/ PollIngests \/ PollIngestFails
         \/ PollReadsMissing \/ PollResolves \/ PollResolveFails
         \/ SyncListsSilences \/ SyncListsAlerts \/ SyncWrites \/ SyncFails
         \/ \E t \in Names : Apply(t) \/ ApplyFails(t)
         \/ Restart
<1>1. ASSUME NEW f \in Fps, Shift(f) \/ Inhibit(f) PROVE Outer
  BY <1>1 DEF Shift, Inhibit, Outer, store
<1>2. ASSUME NEW s \in Silences, Silence(s) \/ Expire(s) PROVE Outer
  BY <1>2 DEF Silence, Expire, Outer, store
<1>3. ASSUME NEW f \in Fps, Notify(f) PROVE Unseen
  BY <1>3 DEF Notify, Unseen, store
<1>4. ASSUME NEW m \in mail, Lose(m) PROVE Unseen
  BY <1>4 DEF Lose, Unseen, store
<1>5. CASE UNCHANGED vars
  BY <1>5 DEF Unseen, vars, store
<1>6. QED BY <1>1, <1>2, <1>3, <1>4, <1>5 DEF Next, Alertmanager, Poll, Sync

LEMMA NextWorld ==
  ASSUME Typed, [Next]_vars
  PROVE  WorldOK'
<1>1. left' \in [ Sources -> Nat ]
  <2>1. left' = left \/ \E s \in Sources : Spend(s)
    BY DEF Next, vars, Alertmanager, Shift, Inhibit, Notify, Silence, Expire, Lose, Receive, Poll,
           PollLists, PollIngests, PollIngestFails, PollReadsMissing, PollResolves, PollResolveFails,
           Sync, SyncListsSilences, SyncListsAlerts, SyncWrites, SyncFails, Apply, ApplyFails,
           Restart, Sources
  <2>2. QED BY <2>1 DEF Typed, WorldOK, Spend, Sources
<1> DEFINE OutsideOK == /\ am' \in [ Fps -> {"firing", "ended", "absent"} ]
                        /\ silences' \in [ Silences -> Lifecycle ]
                        /\ inhibited' \subseteq Fps
           MailOK  == mail' \subseteq Fps \X {"firing", "resolved"}
           LinksOK == links' \in [ Silences -> Lifecycle ]
           CardOK  == card' \in [ Fps -> States \cup {None} ]
<1>2. OutsideOK
  <2>1. ASSUME NEW f \in Fps, Shift(f) \/ Inhibit(f) \/ Notify(f)
        PROVE  OutsideOK
    BY <2>1 DEF Shift, Inhibit, Notify, outside, Typed, WorldOK
  <2>2. ASSUME NEW s \in Silences, Silence(s) \/ Expire(s)
        PROVE  OutsideOK
    BY <2>2 DEF Silence, Expire, Typed, WorldOK, Lifecycle
  <2>3. CASE UNCHANGED outside
    BY <2>3 DEF outside, Typed, WorldOK
  <2>4. QED BY <2>1, <2>2, <2>3
    DEF Next, vars, Alertmanager, Lose, Receive, Poll,
        PollLists, PollIngests, PollIngestFails, PollReadsMissing, PollResolves, PollResolveFails,
        Sync, SyncListsSilences, SyncListsAlerts, SyncWrites, SyncFails, Apply, ApplyFails, Restart
<1>3. MailOK
  <2>1. mail \subseteq Fps \X {"firing", "resolved"}
    BY DEF Typed, WorldOK
  <2>2. ASSUME NEW f \in Fps, Notify(f) PROVE MailOK
    BY <2>1, <2>2 DEF Notify
  <2>3. ASSUME NEW f \in Fps, Shift(f) \/ Inhibit(f) PROVE mail' = mail
    BY <2>3 DEF Shift, Inhibit
  <2>4. CASE mail' \subseteq mail
    BY <2>1, <2>4
  <2>5. QED BY <2>2, <2>3, <2>4
    DEF Next, vars, Alertmanager, Silence, Expire, Lose, Receive, Poll,
        PollLists, PollIngests, PollIngestFails, PollReadsMissing, PollResolves, PollResolveFails,
        Sync, SyncListsSilences, SyncListsAlerts, SyncWrites, SyncFails, Apply, ApplyFails, Restart
<1>4. LinksOK
  <2>1. links \in [ Silences -> Lifecycle ]
    BY DEF Typed, WorldOK
  <2>2. ASSUME NEW s \in Silences, Silence(s) PROVE LinksOK
    BY <2>1, <2>2 DEF Silence, Lifecycle
  <2>3. CASE SyncWrites
    <3>1. \A s \in Silences : (\E l \in Lifecycle : <<s, l>> \in tasks["sync"].snapshot) =>
            (CHOOSE l \in Lifecycle : <<s, l>> \in tasks["sync"].snapshot) \in Lifecycle
      OBVIOUS
    <3>2. QED BY <2>1, <2>3, <3>1 DEF SyncWrites
  <2>4. CASE links' = links
    BY <2>1, <2>4
  <2>5. QED BY <2>2, <2>3, <2>4
    DEF Next, vars, store, Alertmanager, Shift, Inhibit, Notify, Expire, Lose, Receive, Poll,
        PollLists, PollIngests, PollIngestFails, PollReadsMissing, PollResolves, PollResolveFails,
        Sync, SyncListsSilences, SyncListsAlerts, SyncFails, Apply, ApplyFails, Restart
<1>5. CardOK
  <2>1. card \in [ Fps -> States \cup {None} ]
    BY DEF Typed, WorldOK
  <2>2. ASSUME NEW t \in Names, Apply(t) PROVE CardOK
    <3>1. ASSUME NEW d \in Changes, NEW old \in States \cup {None}
          PROVE  Redrawn(old, d) \in States \cup {None}
      BY <3>1 DEF Redrawn, InitialState, NextState, States
    <3>2. tasks[t].todo \subseteq Changes
      BY DEF Typed, TasksOK, Task
    <3>3. CASE tasks[t].todo = {}
      BY <2>1, <2>2, <3>3 DEF Apply
    <3>4. CASE tasks[t].todo # {}
      <4>1. PICK d \in tasks[t].todo : card' = [ card EXCEPT ![d.fp] = Redrawn(card[d.fp], d) ]
        BY <2>2, <3>4 DEF Apply
      <4>2. d \in Changes /\ d.fp \in Fps
        BY <3>2 DEF Changes
      <4>3. Redrawn(card[d.fp], d) \in States \cup {None}
        BY <2>1, <3>1, <4>2
      <4> QED BY <2>1, <4>1, <4>3
    <3>5. QED BY <3>3, <3>4
  <2>3. CASE card' = card
    BY <2>1, <2>3
  <2>4. QED BY <2>2, <2>3, StepKinds
    DEF Unseen, Outer, Receive, PollLists, PollIngests, PollIngestFails, PollReadsMissing,
        PollResolves, PollResolveFails, SyncListsSilences, SyncListsAlerts, SyncWrites, SyncFails,
        ApplyFails, Restart
<1>6. QED BY <1>1, <1>2, <1>3, <1>4, <1>5 DEF WorldOK

(* A task moves, and the others do not.                                    *)
LEMMA TaskMoves ==
  ASSUME TasksOK, NEW t \in Names, NEW y \in Task, tasks' = [ tasks EXCEPT ![t] = y ]
  PROVE  /\ tasks' \in [ Names -> Task ] /\ tasks'[t] = y
         /\ \A u \in Names \ {t} : tasks'[u] = tasks[u]
BY DEF TasksOK

(* What one step of apply_deltas does: a change, the poll's way on to the  *)
(* missing alerts, or its end or another task's.                           *)
AppliesOne(t) ==
  \E d \in tasks[t].todo :
    /\ card' = [ card EXCEPT ![d.fp] = Redrawn(@, d) ]
    /\ tasks'[t] = [ tasks[t] EXCEPT !.todo = @ \ {d} ]
    /\ UNCHANGED <<polls, calm>>

PollGoesOn ==
  /\ tasks["poll"].pc = "apply" /\ tasks["poll"].todo = {}
  /\ tasks'["poll"] = [ tasks["poll"] EXCEPT !.pc = "missing" ]
  /\ UNCHANGED <<card, polls, calm>>

PollEnds ==
  /\ tasks["poll"].pc = "applyMissing" /\ tasks["poll"].todo = {}
  /\ tasks'["poll"] = Idle
  /\ previousPoll' = lastPoll /\ lastPoll' = tasks["poll"].started /\ clock' = clock
  /\ calm' = (IF undisturbed THEN calm + 1 ELSE calm)
  /\ card' = card

TaskEnds(t) ==
  /\ t # "poll" /\ tasks[t].todo = {} /\ tasks'[t] = Idle
  /\ UNCHANGED <<card, polls, calm>>

LEMMA ApplyEffect ==
  ASSUME TasksOK, NEW t \in Names, Apply(t)
  PROVE  /\ tasks[t].pc \in {"apply", "applyMissing"}
         /\ tasks' \in [ Names -> Task ] /\ \A u \in Names \ {t} : tasks'[u] = tasks[u]
         /\ \/ AppliesOne(t)
            \/ t = "poll" /\ (PollGoesOn \/ PollEnds)
            \/ TaskEnds(t)
         /\ UNCHANGED <<outside, mail, links, rows, left, undisturbed, absences, overlapped>>
<1> DEFINE x == tasks[t]
<1>1. x \in Task /\ x.pc \in {"apply", "applyMissing"} /\ x.todo \subseteq Changes
  BY DEF TasksOK, Task, Apply
<1>2. UNCHANGED <<outside, mail, links, rows, left, undisturbed, absences, overlapped>>
  BY DEF Apply, Go, store
<1>3. CASE x.todo # {}
  <2>1. PICK d \in x.todo :
          /\ card' = [ card EXCEPT ![d.fp] = Redrawn(@, d) ]
          /\ tasks' = [ tasks EXCEPT ![t] = [ x EXCEPT !.todo = @ \ {d} ] ]
          /\ UNCHANGED <<polls, calm>>
    BY <1>3 DEF Apply, Go
  <2>2. [ x EXCEPT !.todo = @ \ {d} ] \in Task
    BY <1>1 DEF Task
  <2>3. /\ tasks' \in [ Names -> Task ] /\ tasks'[t] = [ x EXCEPT !.todo = @ \ {d} ]
        /\ \A u \in Names \ {t} : tasks'[u] = tasks[u]
    BY <2>1, <2>2, TaskMoves
  <2>4. QED BY <1>1, <1>2, <2>1, <2>3 DEF AppliesOne
<1>4. CASE x.todo = {} /\ t = "poll" /\ x.pc = "apply"
  <2>1. [ x EXCEPT !.pc = "missing" ] \in Task
    BY <1>1 DEF Task
  <2>2. tasks' = [ tasks EXCEPT ![t] = [ x EXCEPT !.pc = "missing" ] ] /\ UNCHANGED <<card, polls, calm>>
    BY <1>4 DEF Apply, Go, After, Ends
  <2>3. /\ tasks' \in [ Names -> Task ] /\ tasks'[t] = [ x EXCEPT !.pc = "missing" ]
        /\ \A u \in Names \ {t} : tasks'[u] = tasks[u]
    BY <2>1, <2>2, TaskMoves
  <2>4. QED BY <1>1, <1>2, <1>4, <2>2, <2>3 DEF PollGoesOn
<1>5. CASE x.todo = {} /\ ~(t = "poll" /\ x.pc = "apply")
  <2>1. tasks' = [ tasks EXCEPT ![t] = Idle ] /\ card' = card /\ Ends(t, "idle")
    BY <1>5 DEF Apply, Go, After
  <2>2. /\ tasks' \in [ Names -> Task ] /\ tasks'[t] = Idle
        /\ \A u \in Names \ {t} : tasks'[u] = tasks[u]
    BY <2>1, IdleTask, TaskMoves
  <2>3. CASE t = "poll"
    BY <1>1, <1>2, <1>5, <2>1, <2>2, <2>3 DEF Ends, PollEnds
  <2>4. CASE t # "poll"
    BY <1>1, <1>2, <1>5, <2>1, <2>2, <2>4 DEF Ends, TaskEnds
  <2>5. QED BY <2>3, <2>4
<1>6. QED BY <1>3, <1>4, <1>5

(* The alerts that a poll resolves are rows that fire.                     *)
Missing(x) == IF previousPoll = 0 THEN {} ELSE FiringNotIn(DOMAIN x.answer, previousPoll)

LEMMA MissingOK ==
  ASSUME NEW x
  PROVE  /\ Missing(x) \subseteq Fps \ DOMAIN x.answer
         /\ \A f \in Missing(x) : /\ rows[f] # None /\ IsFiring(rows[f]) /\ rows[f].seen < previousPoll
                                 /\ previousPoll # 0
BY DEF Missing, FiringNotIn

LEMMA NextTasks ==
  ASSUME Typed, [Next]_vars
  PROVE  TasksOK'
<1>1. CASE UNCHANGED tasks
  BY <1>1 DEF Typed, TasksOK
<1>a. ASSUME NEW y \in Task, tasks' = [ tasks EXCEPT !["poll"] = y ],
             y.pc \in {"idle", "ingest", "apply", "missing", "resolve", "applyMissing"},
             y.pc \in {"ingest", "apply", "missing", "resolve"} => TruthfulAnswer(y.answer)
      PROVE  TasksOK'
  BY <1>a, TaskMoves DEF Typed, TasksOK, Names
<1>b. ASSUME NEW y \in Task, tasks' = [ tasks EXCEPT !["sync"] = y ],
             y.pc \in {"idle", "alerts", "write", "apply"}, y.pc = "write" => y.answer \in Answers
      PROVE  TasksOK'
  BY <1>b, TaskMoves DEF Typed, TasksOK, Names
<1>c. ASSUME NEW y \in Task, tasks' = [ tasks EXCEPT !["webhook"] = y ], y.pc \in {"idle", "apply"}
      PROVE  TasksOK'
  BY <1>c, TaskMoves DEF Typed, TasksOK, Names
<1>d. /\ \A t \in Names : tasks[t] \in Task
      /\ tasks["poll"] \in Task /\ tasks["sync"] \in Task /\ tasks["webhook"] \in Task
  BY DEF Typed, TasksOK, Names
<1>e. TruthfulAnswer(Listing) /\ Listing \in Answers
  BY ListingOK DEF Typed, TruthfulAnswer
<1>2. ASSUME NEW m \in mail, Receive(m) PROVE TasksOK'
  <2> DEFINE batch == [ f \in {m[1]} |-> Alert_(m[2], {}, FALSE) ]
             y == [ Idle EXCEPT !.pc = "apply", !.todo = Deltas(batch) ]
  <2>1. Deltas(batch) \subseteq Changes
    BY WebhookOK, DeltasOK DEF Typed, WorldOK, TruthfulAnswer
  <2> HIDE DEF batch
  <2>2. y \in Task /\ y.pc = "apply"
    BY <2>1 DEF Idle, Task
  <2>3. tasks' = [ tasks EXCEPT !["webhook"] = y ]
    BY <1>2 DEF Receive, Begin, batch
  <2>4. QED BY <1>c, <2>2, <2>3
<1>3. CASE PollLists
  <2> DEFINE y == [ Idle EXCEPT !.pc = "ingest", !.started = clock + 1, !.answer = Listing ]
  <2>1. y \in Task /\ y.pc = "ingest" /\ y.answer = Listing
    <3>1. clock + 1 \in Nat
      BY DEF Typed, ClocksOK
    <3>2. QED BY <1>e, <3>1 DEF Idle, Task
  <2>2. tasks' = [ tasks EXCEPT !["poll"] = y ]
    BY <1>3 DEF PollLists, Begin
  <2>3. QED BY <1>a, <1>e, <2>1, <2>2
<1>4. CASE PollIngests \/ PollIngestFails
  <2> DEFINE x == tasks["poll"]
  <2>1. x.pc = "ingest" /\ TruthfulAnswer(x.answer)
    BY <1>4 DEF PollIngests, PollIngestFails, Typed, TasksOK
  <2>2. Deltas(x.answer) \subseteq Changes
    BY <2>1, DeltasOK DEF TruthfulAnswer
  <2>3. PICK y : /\ tasks' = [ tasks EXCEPT !["poll"] = y ]
                 /\ \/ y = [ x EXCEPT !.pc = "apply", !.todo = Deltas(x.answer) ]
                    \/ y = [ x EXCEPT !.pc = "apply" ]
    BY <1>4 DEF PollIngests, PollIngestFails, Go
  <2>4. y \in Task /\ y.pc = "apply" /\ y.answer = x.answer
    BY ZenonT(60), <1>d, <2>2, <2>3 DEF Task
  <2>5. QED BY <1>a, <2>1, <2>3, <2>4
<1>5. CASE PollReadsMissing
  <2> DEFINE x == tasks["poll"]
  <2>1. x.pc = "missing" /\ TruthfulAnswer(x.answer)
    BY <1>5 DEF PollReadsMissing, Typed, TasksOK
  <2>2. TruthfulAnswer(Resolutions(Missing(x)))
    BY MissingOK, ResolutionsOK DEF Typed
  <2>3. PICK y : /\ tasks' = [ tasks EXCEPT !["poll"] = y ]
                 /\ \/ y = [ x EXCEPT !.pc = "applyMissing" ]
                    \/ y = [ x EXCEPT !.pc = "resolve", !.answer = Resolutions(Missing(x)) ]
    BY <1>5 DEF PollReadsMissing, Go, Resolutions, Missing
  <2>4. /\ y \in Task /\ y.pc \in {"applyMissing", "resolve"}
        /\ y.pc = "resolve" => y.answer = Resolutions(Missing(x))
    BY <1>d, <2>2, <2>3 DEF Task, TruthfulAnswer
  <2>5. QED BY <1>a, <2>2, <2>3, <2>4
<1>6. CASE PollResolves \/ PollResolveFails
  <2> DEFINE x == tasks["poll"]
  <2>1. PollResolves => Deltas(x.answer) \subseteq Changes
    BY DeltasOK DEF TruthfulAnswer, PollResolves, Typed, TasksOK
  <2>2. PICK y : /\ tasks' = [ tasks EXCEPT !["poll"] = y ]
                 /\ \/ PollResolves /\ y = [ x EXCEPT !.pc = "applyMissing", !.todo = Deltas(x.answer) ]
                    \/ y = [ x EXCEPT !.pc = "applyMissing" ]
    BY <1>6 DEF PollResolves, PollResolveFails, Go
  <2>3. y \in Task /\ y.pc = "applyMissing"
    BY ZenonT(60), <1>d, <2>1, <2>2 DEF Task
  <2>4. QED BY <1>a, <2>2, <2>3
<1>7. CASE SyncListsSilences \/ SyncListsAlerts
  <2> DEFINE x == tasks["sync"]
             snap == { <<s, silences[s]>> : s \in Silences }
  <2>1. snap \subseteq Silences \X Lifecycle
    BY DEF Typed, WorldOK
  <2> HIDE DEF snap
  <2>2. PICK y : /\ tasks' = [ tasks EXCEPT !["sync"] = y ]
                 /\ \/ y = [ Idle EXCEPT !.pc = "alerts", !.snapshot = snap ]
                    \/ y = [ x EXCEPT !.pc = "write", !.answer = Listing ]
    BY <1>7 DEF SyncListsSilences, SyncListsAlerts, Go, Begin, snap
  <2>3. y \in Task /\ y.pc \in {"alerts", "write"} /\ (y.pc = "write" => y.answer = Listing)
    <3>1. CASE y = [ Idle EXCEPT !.pc = "alerts", !.snapshot = snap ]
      BY <2>1, <3>1 DEF Task, Idle
    <3>2. CASE y = [ x EXCEPT !.pc = "write", !.answer = Listing ]
      BY <1>d, <1>e, <3>2 DEF Task
    <3>3. QED BY <2>2, <3>1, <3>2
  <2>4. QED BY <1>b, <1>e, <2>2, <2>3
<1>8. CASE SyncWrites
  <2> DEFINE x == tasks["sync"]
             told == { f \in Fps : SilenceEvent(x, f) # None }
             alert(f) == [ status |-> rows[f].status, suppressed |-> Resynced(x, f).suppressed,
                           text |-> Resynced(x, f).text ]
             todo == { Change(f, SilenceEvent(x, f), alert(f)) : f \in told }
  <2>1. ASSUME NEW f \in told PROVE Change(f, SilenceEvent(x, f), alert(f)) \in Changes
    <3>1. rows[f] # None /\ SilenceEvent(x, f) \in Events /\ rows[f] \in Row
      BY <2>1 DEF SilenceEvent, Events, Typed, RowsOK
    <3>2. Resynced(x, f) \in Row
      BY <1>8, <2>1, <3>1, ResyncedRow DEF SyncWrites, Typed, TasksOK
    <3>3. QED BY <2>1, <3>1, <3>2 DEF Change, Changes, Row
  <2>2. todo \subseteq Changes
    BY <2>1
  <2>3. tasks' = [ tasks EXCEPT !["sync"] = [ Idle EXCEPT !.pc = "apply", !.todo = todo ] ]
    BY <1>8 DEF SyncWrites, Go
  <2> HIDE DEF todo
  <2>4. [ Idle EXCEPT !.pc = "apply", !.todo = todo ] \in Task
        /\ [ Idle EXCEPT !.pc = "apply", !.todo = todo ].pc = "apply"
    BY <2>2 DEF Idle, Task
  <2>5. QED BY <1>b, <2>3, <2>4
<1>9. CASE SyncFails
  <2>1. tasks' = [ tasks EXCEPT !["sync"] = Idle ] /\ Idle.pc = "idle"
    BY <1>9 DEF SyncFails, Go, Idle
  <2>2. QED BY <1>b, <2>1, IdleTask
<1>10. ASSUME NEW t \in Names, Apply(t) PROVE TasksOK'
  <2>1. CASE AppliesOne(t)
    <3>1. /\ tasks' \in [ Names -> Task ] /\ \A u \in Names \ {t} : tasks'[u] = tasks[u]
          /\ tasks'[t].pc = tasks[t].pc /\ tasks'[t].answer = tasks[t].answer
      BY <1>10, <1>d, <2>1, ApplyEffect DEF AppliesOne, Typed, Task
    <3>2. QED BY <3>1 DEF Typed, TasksOK, Names
  <2>2. CASE t = "poll" /\ PollGoesOn
    <3>1. /\ tasks' \in [ Names -> Task ] /\ \A u \in Names \ {"poll"} : tasks'[u] = tasks[u]
          /\ tasks'["poll"].pc = "missing" /\ tasks'["poll"].answer = tasks["poll"].answer
      BY <1>10, <1>d, <2>2, ApplyEffect DEF PollGoesOn, Typed, Task
    <3>2. QED BY <2>2, <3>1 DEF Typed, TasksOK, Names, PollGoesOn
  <2>3. CASE (t = "poll" /\ PollEnds) \/ TaskEnds(t)
    <3>1. /\ tasks' \in [ Names -> Task ] /\ \A u \in Names \ {t} : tasks'[u] = tasks[u]
          /\ tasks'[t].pc = "idle"
      BY <1>10, <2>3, ApplyEffect DEF PollEnds, TaskEnds, Idle, Typed
    <3>2. QED BY <3>1 DEF Typed, TasksOK, Names
  <2>4. QED BY <1>10, <2>1, <2>2, <2>3, ApplyEffect DEF Typed
<1>11. ASSUME NEW t \in Names, ApplyFails(t) PROVE TasksOK'
  <2>1. [ tasks[t] EXCEPT !.todo = {} ] \in Task
    BY <1>d DEF Task
  <2>2. /\ tasks' \in [ Names -> Task ] /\ \A u \in Names \ {t} : tasks'[u] = tasks[u]
        /\ tasks'[t].pc = tasks[t].pc /\ tasks'[t].answer = tasks[t].answer
    BY <1>d, <1>11, <2>1, TaskMoves DEF ApplyFails, Go, Typed, Task
  <2>3. QED BY <2>2 DEF Typed, TasksOK, Names
<1>12. CASE Restart
  <2>1. tasks' \in [ Names -> Task ] /\ \A t \in Names : tasks'[t].pc = "idle"
    BY <1>12, IdleTask DEF Restart, Idle
  <2>2. QED BY <2>1 DEF TasksOK, Names
<1>13. QED BY <1>1, <1>2, <1>3, <1>4, <1>5, <1>6, <1>7, <1>8, <1>9, <1>10, <1>11, <1>12, StepKinds
       DEF Unseen, Outer

LEMMA NextRows ==
  ASSUME Typed, [Next]_vars
  PROVE  RowsOK'
<1>1. CASE rows' = rows /\ clock' = clock
  BY <1>1 DEF Typed, RowsOK
<1>2. clock \in Nat
  BY DEF Typed, ClocksOK
<1>3. ASSUME NEW m \in mail, Receive(m) PROVE RowsOK'
  <2> DEFINE batch == [ f \in {m[1]} |-> Alert_(m[2], {}, FALSE) ]
  <2>1. rows' = Ingest(batch, clock) /\ clock' = clock
    BY <1>3 DEF Receive, polls
  <2>2. TruthfulAnswer(batch)
    BY WebhookOK DEF Typed, WorldOK
  <2> HIDE DEF batch
  <2>3. QED BY <1>2, <2>1, <2>2, IngestOK DEF Typed
<1>4. CASE PollLists
  <2>1. rows' = rows /\ clock' = clock + 1
    BY <1>4 DEF PollLists, store
  <2>2. \A f \in Fps : rows[f] # None => rows[f].seen \in Nat
    BY DEF Typed, RowsOK, Row
  <2>3. QED BY <1>2, <2>1, <2>2 DEF Typed, RowsOK
<1>5. CASE PollIngests \/ PollResolves
  <2>1. /\ rows' = Ingest(tasks["poll"].answer, tasks["poll"].started) /\ clock' = clock
        /\ tasks["poll"].pc \in {"ingest", "resolve"}
    BY <1>5 DEF PollIngests, PollResolves, polls
  <2>2. TruthfulAnswer(tasks["poll"].answer) /\ tasks["poll"].started = clock
    BY <2>1 DEF Typed, TasksOK, ClocksOK
  <2>3. QED BY <1>2, <2>1, <2>2, IngestOK DEF Typed
<1>6. CASE SyncWrites
  BY <1>6, ResyncOK DEF SyncWrites, Typed, TasksOK, polls
<1>7. ASSUME NEW t \in Names, Apply(t) PROVE rows' = rows /\ clock' = clock
  BY <1>7, ApplyEffect DEF Typed, AppliesOne, PollGoesOn, PollEnds, TaskEnds, polls
<1>8. QED BY <1>1, <1>3, <1>4, <1>5, <1>6, <1>7, StepKinds
  DEF Unseen, Outer, PollIngestFails, PollReadsMissing, PollResolveFails, SyncListsSilences,
      SyncListsAlerts, SyncFails, ApplyFails, Restart, store, polls

(* The poll's own record moves with it alone.                              *)
PollKept ==
  /\ UNCHANGED <<clock, lastPoll, previousPoll, absences>>
  /\ tasks'["poll"].pc # "idle" => tasks["poll"].pc # "idle" /\ tasks'["poll"].started = tasks["poll"].started

LEMMA NextClocks ==
  ASSUME Typed, [Next]_vars
  PROVE  ClocksOK'
<1>1. \A t \in Names : tasks[t] \in Task
  BY DEF Typed, TasksOK
<1>2. /\ clock \in Nat /\ lastPoll \in Nat /\ previousPoll \in Nat /\ calm \in Nat
      /\ undisturbed \in BOOLEAN /\ overlapped \in BOOLEAN /\ absences \in [ Fps -> Nat ]
      /\ previousPoll <= lastPoll /\ lastPoll <= clock
      /\ tasks["poll"].pc # "idle" => tasks["poll"].started = clock /\ clock >= 1
      /\ tasks \in [ Names -> Task ]
  BY DEF Typed, ClocksOK, TasksOK
<1> DEFINE Counted == calm' \in {calm, 0, calm + 1}
           Flags   == undisturbed' \in BOOLEAN /\ overlapped' \in BOOLEAN
<1>3. Counted
  <2>1. ASSUME NEW t \in Names, Apply(t) PROVE Counted
    BY <2>1, ApplyEffect DEF Typed, AppliesOne, PollGoesOn, PollEnds, TaskEnds
  <2>2. QED BY <2>1, StepKinds
    DEF Unseen, Outer, Receive, PollLists, PollIngests, PollIngestFails, PollReadsMissing, PollResolves,
        PollResolveFails, SyncListsSilences, SyncListsAlerts, SyncWrites, SyncFails, ApplyFails, Restart, Upset
<1>4. Flags
  <2>1. undisturbed' \in {undisturbed, TRUE, FALSE}
    <3>1. ASSUME NEW t \in Names, Apply(t) PROVE undisturbed' = undisturbed
      BY <3>1, ApplyEffect DEF Typed
    <3>2. QED BY <3>1, StepKinds
      DEF Unseen, Outer, Receive, PollLists, PollIngests, PollIngestFails, PollReadsMissing, PollResolves,
          PollResolveFails, SyncListsSilences, SyncListsAlerts, SyncWrites, SyncFails, ApplyFails, Restart, Upset
  <2>2. overlapped' = overlapped \/ \E t \in Names : \E y : Begin(t, y)
    <3>1. ASSUME NEW t \in Names, Apply(t) PROVE overlapped' = overlapped
      BY <3>1, ApplyEffect DEF Typed
    <3>2. QED BY <3>1, StepKinds
      DEF Unseen, Outer, Receive, PollLists, PollIngests, PollIngestFails, PollReadsMissing, PollResolves,
          PollResolveFails, SyncListsSilences, SyncListsAlerts, SyncWrites, SyncFails, ApplyFails, Restart, Go, Names
  <2>3. \A t \in Names : \A y : Begin(t, y) => overlapped' \in BOOLEAN
    BY Zenon DEF Begin
  <2>4. undisturbed' \in BOOLEAN
    BY <1>2, <2>1
  <2>5. QED BY <1>2, <2>2, <2>3, <2>4
<1>5. calm' \in Nat
  BY <1>2, <1>3
<1>6. ASSUME PollKept PROVE ClocksOK'
  BY <1>2, <1>4, <1>5, <1>6 DEF PollKept, ClocksOK
<1>7. ASSUME \/ Unseen \/ Outer
             \/ \E m \in mail : Receive(m)
             \/ SyncListsSilences \/ SyncListsAlerts \/ SyncWrites \/ SyncFails
      PROVE  PollKept
  <2>1. tasks'["poll"] = tasks["poll"] /\ UNCHANGED polls /\ absences' = absences
    BY <1>2, <1>7 DEF Unseen, Outer, Receive, SyncListsSilences, SyncListsAlerts, SyncWrites, SyncFails,
                      Begin, Go, Names
  <2>2. QED BY <2>1 DEF PollKept, polls
<1>8. ASSUME PollIngests \/ PollIngestFails \/ PollReadsMissing \/ PollResolves \/ PollResolveFails
      PROVE  PollKept
  <2>1. UNCHANGED polls /\ absences' = absences /\ tasks["poll"].pc # "idle"
    BY <1>8 DEF PollIngests, PollIngestFails, PollReadsMissing, PollResolves, PollResolveFails
  <2>2. tasks'["poll"].started = tasks["poll"].started
    <3>1. tasks["poll"] \in Task /\ "poll" \in Names
      BY <1>1 DEF Names
    <3>2. CASE PollIngests \/ PollResolves
      <4>1. \E p, d : tasks' = [ tasks EXCEPT !["poll"] = [ tasks["poll"] EXCEPT !.pc = p, !.todo = d ] ]
        BY <3>2 DEF PollIngests, PollResolves, Go
      <4>2. QED BY <1>2, <3>1, <4>1 DEF Task
    <3>3. CASE PollIngestFails \/ PollResolveFails
      BY <1>2, <3>1, <3>3 DEF PollIngestFails, PollResolveFails, Go, Task
    <3>4. CASE PollReadsMissing
      <4>1. \E a : \/ tasks' = [ tasks EXCEPT !["poll"] = [ tasks["poll"] EXCEPT !.pc = "applyMissing" ] ]
                   \/ tasks' = [ tasks EXCEPT !["poll"] = [ tasks["poll"] EXCEPT !.pc = "resolve", !.answer = a ] ]
        BY <3>4 DEF PollReadsMissing, Go
      <4>2. QED BY ZenonT(60), <1>2, <3>1, <4>1 DEF Task
    <3>5. QED BY <1>8, <3>2, <3>3, <3>4
  <2>3. QED BY <2>1, <2>2 DEF PollKept, polls
<1>9. ASSUME NEW t \in Names, ApplyFails(t) PROVE PollKept
  <2>1. UNCHANGED polls /\ absences' = absences /\ tasks' = [ tasks EXCEPT ![t] = [ tasks[t] EXCEPT !.todo = {} ] ]
    BY <1>9 DEF ApplyFails, Go
  <2>2. tasks["poll"] \in Task /\ "poll" \in Names
    BY <1>1 DEF Names
  <2>3. tasks'["poll"].pc = tasks["poll"].pc /\ tasks'["poll"].started = tasks["poll"].started
    BY <1>2, <2>1, <2>2 DEF Task
  <2>4. QED BY <2>1, <2>3 DEF PollKept, polls
<1>10. ASSUME NEW t \in Names, Apply(t) PROVE ClocksOK'
  <2>1. tasks["poll"] \in Task /\ absences' = absences
    BY <1>1, <1>10, ApplyEffect DEF Names, Typed
  <2>2. CASE AppliesOne(t) \/ TaskEnds(t) \/ (t = "poll" /\ PollGoesOn)
    <3>1. UNCHANGED polls
      BY <2>2 DEF AppliesOne, TaskEnds, PollGoesOn
    <3>2. t # "poll" => tasks'["poll"] = tasks["poll"]
      BY <1>10, ApplyEffect DEF Names, Typed
    <3>3. t = "poll" => tasks["poll"].pc # "idle" /\ tasks'["poll"].started = tasks["poll"].started
      <4>1. t = "poll" => AppliesOne("poll") \/ PollGoesOn
        BY <2>2 DEF TaskEnds
      <4>2. t = "poll" => tasks["poll"].pc # "idle"
        BY <1>10, ApplyEffect DEF Typed
      <4>3. QED BY <2>1, <4>1, <4>2 DEF AppliesOne, PollGoesOn, Task
    <3>4. PollKept
      BY <2>1, <3>1, <3>2, <3>3 DEF PollKept, polls
    <3>5. QED BY <1>6, <3>4
  <2>3. CASE t = "poll" /\ PollEnds
    <3>1. /\ previousPoll' = lastPoll /\ lastPoll' = clock /\ clock' = clock
          /\ tasks'["poll"].pc = "idle"
      BY <1>2, <2>3 DEF PollEnds, Idle
    <3>2. QED BY <1>2, <1>4, <1>5, <2>1, <3>1 DEF ClocksOK
  <2>4. QED BY <1>10, <2>2, <2>3, ApplyEffect DEF Typed
<1>11. CASE PollLists
  <2>1. /\ clock' = clock + 1 /\ lastPoll' = lastPoll /\ previousPoll' = previousPoll
        /\ absences' = [ f \in Fps |-> IF f \in Listed THEN 0 ELSE absences[f] + 1 ]
        /\ tasks'["poll"].started = clock + 1
    BY <1>2, <1>11 DEF PollLists, Begin, Idle, Names
  <2>2. absences' \in [ Fps -> Nat ]
    BY <1>2, <2>1
  <2>3. QED BY <1>2, <1>4, <1>5, <2>1, <2>2 DEF ClocksOK
<1>12. CASE Restart
  <2>1. /\ clock' = clock /\ lastPoll' = 0 /\ previousPoll' = 0
        /\ absences' = [ f \in Fps |-> 0 ] /\ tasks'["poll"].pc = "idle"
    BY <1>12 DEF Restart, Idle, Names
  <2>2. absences' \in [ Fps -> Nat ]
    BY <2>1
  <2>3. QED BY <1>2, <1>4, <1>5, <2>1, <2>2 DEF ClocksOK
<1>13. QED BY <1>6, <1>7, <1>8, <1>9, <1>10, <1>11, <1>12, StepKinds

LEMMA NextTyped == Typed /\ [Next]_vars => Typed'
BY NextWorld, NextRows, NextTasks, NextClocks DEF Typed

(* The tables and the tasks keep their types, and every row is truthful    *)
(* about what suppresses its alert, whoever wrote it last.                 *)
THEOREM ReconcilerTypeCorrect == Spec => []TypeOK
<1>1. Spec => []Typed
  BY InitTyped, NextTyped, PTL DEF Spec
<1>2. QED BY <1>1, TypedTypeOK, PTL

-----------------------------------------------------------------------------
(* Convergence.  While nothing upsets it, a running poll holds what        *)
(* Alertmanager says, and what it has stored is what Alertmanager says.    *)
InStep ==
  \A f \in Listed :
    /\ rows[f] # None
    /\ rows[f].status = Listing[f].status
    /\ rows[f].text = Listing[f].text

Fires(f) == rows[f] # None /\ IsFiring(rows[f])

(* An alert that is gone has not been seen since a calm poll began: two of *)
(* those later it is old enough to be resolved.                            *)
Old(n) == \A f \in Fps \ Listed : Fires(f) => rows[f].seen < n

Gone == \A f \in Fps \ Listed : ~Fires(f)

PollInStep ==
  LET x == tasks["poll"]
  IN  undisturbed =>
        /\ x.pc = "ingest" => x.answer = Listing
        /\ x.pc \in {"apply", "missing"} => DOMAIN x.answer = Listed
        /\ x.pc = "resolve" => /\ DOMAIN x.answer \cap Listed = {}
                               /\ \A f \in DOMAIN x.answer : x.answer[f].status = "resolved"
        /\ x.pc \in {"apply", "missing", "resolve", "applyMissing"} \/ calm >= 1 => InStep
        /\ x.pc # "idle" => Old(clock)

Converging ==
  LET x == tasks["poll"]
  IN  /\ calm >= 1 => undisturbed /\ Old(lastPoll) /\ lastPoll >= 1
      /\ calm >= 2 => Old(previousPoll) /\ previousPoll >= 1
      /\ calm >= 2 /\ x.pc = "resolve" => \A f \in Fps \ Listed : Fires(f) => f \in DOMAIN x.answer
      /\ calm >= 2 /\ x.pc = "applyMissing" => Gone
      /\ calm >= 3 => Gone

ConvInv == PollInStep /\ Converging

LEMMA UpsetConverges == ASSUME Upset PROVE ConvInv'
BY DEF Upset, ConvInv, PollInStep, Converging

LEMMA OutsideSame ==
  ASSUME UNCHANGED outside
  PROVE  Listed' = Listed /\ Listing' = Listing /\ Active' = Active
BY DEF outside, Listed, Listing, Active

(* What the poll knows stays true as long as the table does.               *)
LEMMA KeptConverges ==
  ASSUME ConvInv, UNCHANGED <<outside, rows, polls, calm, undisturbed>>,
         tasks'["poll"].pc = tasks["poll"].pc, tasks'["poll"].answer = tasks["poll"].answer
  PROVE  ConvInv'
<1>1. Listed' = Listed /\ Listing' = Listing
  BY OutsideSame
<1>2. QED BY <1>1 DEF ConvInv, PollInStep, Converging, InStep, Old, Gone, Fires, polls

LEMMA ListsConverge ==
  ASSUME Typed, ConvInv, PollLists
  PROVE  ConvInv'
<1>1. Listed' = Listed /\ Listing' = Listing
  BY OutsideSame DEF PollLists
<1>2. /\ rows' = rows /\ clock' = clock + 1 /\ lastPoll' = lastPoll /\ previousPoll' = previousPoll
      /\ calm' = calm /\ undisturbed'
      /\ tasks'["poll"].pc = "ingest" /\ tasks'["poll"].answer = Listing
  BY DEF PollLists, Begin, Idle, Names, Typed, TasksOK, store
<1>3. \A f \in Fps : rows[f] # None => rows[f].seen < clock + 1
  BY DEF Typed, RowsOK, ClocksOK, Row
<1>4. calm >= 1 => InStep
  BY DEF ConvInv, PollInStep, Converging
<1>5. PollInStep'
  BY <1>1, <1>2, <1>3, <1>4 DEF PollInStep, InStep, Old, Fires
<1>6. Converging'
  BY <1>1, <1>2 DEF ConvInv, Converging, Old, Gone, Fires
<1>7. QED BY <1>5, <1>6 DEF ConvInv

LEMMA IngestsConverge ==
  ASSUME Typed, ConvInv, PollIngests
  PROVE  ConvInv'
<1> DEFINE x == tasks["poll"]
<1>1. Listed' = Listed /\ Listing' = Listing
  BY OutsideSame DEF PollIngests
<1>2. /\ rows' = Ingest(x.answer, x.started) /\ UNCHANGED <<clock, lastPoll, previousPoll, calm, undisturbed>>
      /\ x.pc = "ingest" /\ x.answer \in Answers
      /\ tasks'["poll"].pc = "apply" /\ tasks'["poll"].answer = x.answer
  <2>1. tasks' = [ tasks EXCEPT !["poll"] = [ x EXCEPT !.pc = "apply", !.todo = Deltas(x.answer) ] ]
    BY DEF PollIngests, Go
  <2>2. x \in Task /\ "poll" \in Names /\ tasks \in [ Names -> Task ]
    BY DEF Typed, TasksOK, Names
  <2>3. tasks'["poll"].pc = "apply" /\ tasks'["poll"].answer = x.answer
    BY <2>1, <2>2 DEF Task
  <2>4. QED BY <2>3 DEF PollIngests, polls, Typed, TasksOK, TruthfulAnswer
<1>3. ASSUME ~undisturbed PROVE ConvInv'
  BY <1>2, <1>3 DEF ConvInv, PollInStep, Converging, Typed, ClocksOK
<1>4. ASSUME undisturbed PROVE ConvInv'
  <2>1. x.answer = Listing /\ DOMAIN x.answer = Listed /\ Listed \subseteq Fps
    BY <1>2, <1>4, ListingOK DEF ConvInv, PollInStep, Typed
  <2>2. \A f \in Fps \ Listed : rows'[f] = rows[f]
    BY <1>2, <2>1, IngestRow
  <2>3. InStep'
    <3>1. ASSUME NEW f \in Listed
          PROVE  rows'[f] \in Row /\ rows'[f].status = Listing[f].status /\ rows'[f].text = Listing[f].text
      BY <1>2, <2>1, IngestRow DEF Typed, TasksOK, Task, Names
    <3>2. QED BY <1>1, <3>1, ReconcilerAssumption DEF InStep
  <2>4. Old(clock)' /\ (calm >= 1 => Old(lastPoll)') /\ (calm >= 2 => Old(previousPoll)') /\ (calm >= 3 => Gone')
    BY <1>1, <1>2, <1>4, <2>2 DEF ConvInv, PollInStep, Converging, Old, Gone, Fires
  <2>5. QED BY <1>1, <1>2, <1>4, <2>1, <2>3, <2>4 DEF ConvInv, PollInStep, Converging
<1>5. QED BY <1>3, <1>4

LEMMA MissingConverges ==
  ASSUME Typed, ConvInv, PollReadsMissing
  PROVE  ConvInv'
<1> DEFINE x == tasks["poll"]
<1>1. Listed' = Listed /\ Listing' = Listing
  BY OutsideSame DEF PollReadsMissing
<1>2. /\ UNCHANGED <<rows, clock, lastPoll, previousPoll, calm, undisturbed>> /\ x.pc = "missing"
      /\ \/ Missing(x) = {} /\ tasks'["poll"].pc = "applyMissing"
         \/ tasks'["poll"].pc = "resolve" /\ tasks'["poll"].answer = Resolutions(Missing(x))
  <2>1. \/ Missing(x) = {} /\ tasks' = [ tasks EXCEPT !["poll"] = [ x EXCEPT !.pc = "applyMissing" ] ]
        \/ tasks' = [ tasks EXCEPT !["poll"] = [ x EXCEPT !.pc = "resolve", !.answer = Resolutions(Missing(x)) ] ]
    BY DEF PollReadsMissing, Go, Missing, Resolutions
  <2>2. x \in Task /\ "poll" \in Names /\ tasks \in [ Names -> Task ]
    BY DEF Typed, TasksOK, Names
  <2>3. \/ Missing(x) = {} /\ tasks'["poll"].pc = "applyMissing"
        \/ tasks'["poll"].pc = "resolve" /\ tasks'["poll"].answer = Resolutions(Missing(x))
    BY <2>1, <2>2 DEF Task
  <2>4. QED BY <2>3 DEF PollReadsMissing, polls, store
<1>3. ASSUME ~undisturbed PROVE ConvInv'
  BY <1>2, <1>3 DEF ConvInv, PollInStep, Converging, Typed, ClocksOK
<1>4. ASSUME undisturbed PROVE ConvInv'
  <2>1. DOMAIN x.answer = Listed /\ InStep /\ Old(clock)
    BY <1>2, <1>4 DEF ConvInv, PollInStep
  <2>2. Missing(x) \cap Listed = {}
    BY <2>1, MissingOK
  <2>3. calm >= 2 => \A f \in Fps \ Listed : Fires(f) => f \in Missing(x)
    BY <2>1 DEF ConvInv, Converging, Old, Fires, Missing, FiringNotIn
  <2>4. DOMAIN Resolutions(Missing(x)) = Missing(x)
        /\ \A f \in Missing(x) : Resolutions(Missing(x))[f].status = "resolved"
    BY DEF Resolutions
  <2>5. PollInStep'
    BY <1>1, <1>2, <2>1, <2>2, <2>4 DEF PollInStep, InStep, Old, Fires
  <2>6. Converging'
    BY <1>1, <1>2, <2>3, <2>4 DEF ConvInv, Converging, Old, Gone, Fires
  <2>7. QED BY <2>5, <2>6 DEF ConvInv
<1>5. QED BY <1>3, <1>4

LEMMA ResolvesConverge ==
  ASSUME Typed, ConvInv, PollResolves
  PROVE  ConvInv'
<1> DEFINE x == tasks["poll"]
<1>1. Listed' = Listed /\ Listing' = Listing
  BY OutsideSame DEF PollResolves
<1>2. /\ rows' = Ingest(x.answer, x.started) /\ UNCHANGED <<clock, lastPoll, previousPoll, calm, undisturbed>>
      /\ x.pc = "resolve" /\ x.answer \in Answers
      /\ tasks'["poll"].pc = "applyMissing"
  <2>1. tasks' = [ tasks EXCEPT !["poll"] = [ x EXCEPT !.pc = "applyMissing", !.todo = Deltas(x.answer) ] ]
    BY DEF PollResolves, Go
  <2>2. x \in Task /\ "poll" \in Names /\ tasks \in [ Names -> Task ]
    BY DEF Typed, TasksOK, Names
  <2>3. tasks'["poll"].pc = "applyMissing"
    BY <2>1, <2>2 DEF Task
  <2>4. QED BY <2>3 DEF PollResolves, polls, Typed, TasksOK, TruthfulAnswer
<1>3. ASSUME ~undisturbed PROVE ConvInv'
  BY <1>2, <1>3 DEF ConvInv, PollInStep, Converging, Typed, ClocksOK
<1>4. ASSUME undisturbed PROVE ConvInv'
  <2>1. /\ DOMAIN x.answer \cap Listed = {} /\ InStep /\ Old(clock) /\ Listed \subseteq Fps
        /\ \A f \in DOMAIN x.answer : x.answer[f].status = "resolved"
    BY <1>2, <1>4, ListingOK DEF ConvInv, PollInStep, Typed
  <2>2. \A f \in Fps : f \in DOMAIN x.answer => rows'[f].status = "resolved"
    BY <1>2, <2>1, IngestRow
  <2>3. \A f \in Fps : f \notin DOMAIN x.answer => rows'[f] = rows[f]
    BY <1>2, IngestRow
  <2>4. InStep'
    BY <1>1, <2>1, <2>3 DEF InStep
  <2>5. Old(clock)' /\ (calm >= 1 => Old(lastPoll)') /\ (calm >= 2 => Old(previousPoll)') /\ (calm >= 2 => Gone')
    BY <1>1, <1>2, <2>1, <2>2, <2>3 DEF ConvInv, Converging, Old, Gone, Fires, IsFiring
  <2>6. calm >= 3 => calm >= 2
    BY DEF Typed, ClocksOK
  <2>7. QED BY <1>1, <1>2, <1>4, <2>4, <2>5, <2>6 DEF ConvInv, PollInStep, Converging
<1>5. QED BY <1>3, <1>4

(* A sync that read what is still so changes nothing of a listed alert.    *)
LEMMA SyncConverges ==
  ASSUME Typed, ConvInv, SyncWrites
  PROVE  ConvInv'
<1> DEFINE x == tasks["sync"]
           snap == { <<s, silences[s]>> : s \in Silences }
<1>1. CASE Upset
  BY <1>1, UpsetConverges
<1>2. CASE x.answer = Listing /\ x.snapshot = snap /\ UNCHANGED <<calm, undisturbed>>
  <2>1. Listed' = Listed /\ Listing' = Listing
    BY OutsideSame DEF SyncWrites
  <2>2. /\ \A f \in Fps : rows'[f] = Resynced(x, f)
        /\ UNCHANGED <<clock, lastPoll, previousPoll>> /\ x.answer \in Answers
        /\ tasks'["poll"] = tasks["poll"]
    BY DEF SyncWrites, polls, Go, Typed, TasksOK, Names
  <2>3. ASSUME InStep PROVE InStep'
    <3> SUFFICES ASSUME NEW f \in Listed
                 PROVE  rows'[f] = rows[f]
      BY <2>1, <2>3 DEF InStep
    <3>1. /\ f \in DOMAIN Listing /\ f \in Fps
          /\ Listing[f].text = [ silencedBy |-> Active, inhibited |-> f \in inhibited ]
      BY ListingOK DEF Typed
    <3>2. Listing[f].text.silencedBy = Active
      BY <3>1
    <3>3. Desired(x, f) = { s \in Active : <<s, "active">> \in snap }
      BY <1>2, <3>1, <3>2 DEF Desired
    <3>4. \A s \in Active : <<s, "active">> \in snap
      BY DEF Active
    <3>5. Desired(x, f) = Active /\ rows[f].text.silencedBy = Active /\ rows[f] # None
      BY <2>3, <3>2, <3>3, <3>4 DEF InStep
    <3>6. Resynced(x, f) = rows[f]
      BY <3>5 DEF Resynced
    <3>7. QED BY <2>2, <3>1, <3>6
  <2>4. \A f \in Fps : rows'[f] # None /\ IsFiring(rows'[f]) =>
          Fires(f) /\ rows'[f].seen = rows[f].seen
    <3>1. \A f \in Fps : rows[f] = None => Resynced(x, f) = None
      BY DEF Resynced
    <3>2. \A f \in Fps : rows[f] # None =>
            Resynced(x, f).status = rows[f].status /\ Resynced(x, f).seen = rows[f].seen
      BY <2>2, ResyncedRow DEF Typed
    <3>3. QED BY <2>2, <3>1, <3>2 DEF Fires, IsFiring
  <2>5. /\ \A n : Old(n) => \A f \in Fps \ Listed : rows'[f] # None /\ IsFiring(rows'[f]) => rows'[f].seen < n
        /\ Gone => Gone'
    BY <2>1, <2>4 DEF Old, Gone, Fires
  <2>6. (Old(clock) => Old(clock)') /\ (Old(lastPoll) => Old(lastPoll)') /\ (Old(previousPoll) => Old(previousPoll)')
    BY <2>1, <2>2, <2>5 DEF Old, Fires
  <2>7. PollInStep'
    BY <1>2, <2>1, <2>2, <2>3, <2>6 DEF ConvInv, PollInStep
  <2>8. Converging'
    BY <1>2, <2>1, <2>2, <2>4, <2>5, <2>6 DEF ConvInv, Converging, Fires
  <2>9. QED BY <2>7, <2>8 DEF ConvInv
<1>3. QED BY <1>1, <1>2 DEF SyncWrites

LEMMA ApplyConverges ==
  ASSUME Typed, ConvInv, NEW t \in Names, Apply(t)
  PROVE  ConvInv'
<1>1. /\ UNCHANGED <<outside, rows, undisturbed>> /\ tasks["poll"] \in Task
      /\ t # "poll" => tasks'["poll"] = tasks["poll"]
  BY ApplyEffect DEF Typed, TasksOK, Names
<1>2. CASE AppliesOne(t)
  <2>1. tasks'["poll"].pc = tasks["poll"].pc /\ tasks'["poll"].answer = tasks["poll"].answer
    BY <1>1, <1>2 DEF AppliesOne, Task
  <2>2. QED BY <1>1, <1>2, <2>1, KeptConverges DEF AppliesOne
<1>3. CASE TaskEnds(t)
  BY <1>1, <1>3, KeptConverges DEF TaskEnds
<1>4. Listed' = Listed /\ Listing' = Listing
  BY <1>1, OutsideSame
<1>5. CASE PollGoesOn
  <2>1. /\ tasks["poll"].pc = "apply" /\ tasks'["poll"].pc = "missing"
        /\ tasks'["poll"].answer = tasks["poll"].answer
        /\ UNCHANGED <<clock, lastPoll, previousPoll, calm>>
    BY <1>1, <1>5 DEF PollGoesOn, Task, polls
  <2>2. QED BY <1>1, <1>4, <2>1 DEF ConvInv, PollInStep, Converging, InStep, Old, Gone, Fires
<1>6. CASE PollEnds
  <2>1. /\ tasks["poll"].pc = "applyMissing" /\ tasks'["poll"].pc = "idle"
        /\ previousPoll' = lastPoll /\ lastPoll' = clock /\ clock' = clock /\ clock >= 1
        /\ calm' = (IF undisturbed THEN calm + 1 ELSE calm) /\ calm \in Nat
    BY <1>6 DEF PollEnds, Idle, Typed, ClocksOK
  <2>2. CASE undisturbed
    <3>1. InStep /\ Old(clock)
      BY <2>1, <2>2 DEF ConvInv, PollInStep
    <3>2. (calm >= 1 => Old(lastPoll) /\ lastPoll >= 1) /\ (calm >= 2 => Gone)
      BY <2>1 DEF ConvInv, Converging
    <3>3. (calm' >= 2 => calm >= 1) /\ (calm' >= 3 => calm >= 2)
      BY <2>1, <2>2
    <3>4. PollInStep'
      BY <1>1, <1>4, <2>1, <3>1 DEF PollInStep, InStep
    <3>5. Converging'
      BY <1>1, <1>4, <2>1, <2>2, <3>1, <3>2, <3>3 DEF Converging, Old, Gone, Fires
    <3>6. QED BY <3>4, <3>5 DEF ConvInv
  <2>3. CASE ~undisturbed
    BY <1>1, <2>1, <2>3 DEF ConvInv, PollInStep, Converging
  <2>4. QED BY <2>2, <2>3
<1>7. QED BY <1>2, <1>3, <1>5, <1>6, ApplyEffect DEF Typed

LEMMA NextConverges ==
  ASSUME Typed, ConvInv, [Next]_vars
  PROVE  ConvInv'
<1>1. ASSUME \/ Outer \/ \E m \in mail : Receive(m)
             \/ PollIngestFails \/ PollResolveFails \/ SyncFails \/ Restart
             \/ \E t \in Names : ApplyFails(t)
      PROVE  ConvInv'
  BY <1>1, UpsetConverges
  DEF Outer, Receive, PollIngestFails, PollResolveFails, SyncFails, Restart, ApplyFails
<1>2. CASE Unseen
  BY <1>2, KeptConverges DEF Unseen
<1>3. CASE SyncListsSilences \/ SyncListsAlerts
  <2>1. /\ UNCHANGED <<outside, rows, polls, calm, undisturbed>>
        /\ tasks'["poll"] = tasks["poll"]
    BY <1>3 DEF SyncListsSilences, SyncListsAlerts, Begin, Go, Typed, TasksOK, Names, store
  <2>2. QED BY <2>1, KeptConverges
<1>4. QED BY <1>1, <1>2, <1>3, ListsConverge, IngestsConverge, MissingConverges, ResolvesConverge,
             SyncConverges, ApplyConverges, StepKinds

(* Whatever was lost, delayed or failed before: three whole polls with     *)
(* nothing else going on, and the table fires what Alertmanager fires.     *)
THEOREM TableConverges == Spec => []RowsConverge
<1>1. Init => ConvInv
  BY DEF Init, ConvInv, PollInStep, Converging
<1>2. Typed /\ ConvInv => RowsConverge
  <2> SUFFICES ASSUME Typed, ConvInv, calm >= 3, NEW f \in Fps
               PROVE  /\ am[f] = "firing" <=> rows[f] # None /\ IsFiring(rows[f])
                      /\ am[f] = "firing" => rows[f].text = [ silencedBy |-> Active, inhibited |-> f \in inhibited ]
    BY DEF RowsConverge
  <2>1. InStep /\ Gone
    BY DEF ConvInv, PollInStep, Converging, Typed, ClocksOK
  <2>2. CASE f \in Listed
    BY <2>1, <2>2, ListingOK DEF InStep, IsFiring, Typed
  <2>3. CASE f \notin Listed
    BY <2>1, <2>3 DEF Gone, Fires, Listed
  <2>4. QED BY <2>2, <2>3
<1>3. Typed /\ ConvInv /\ [Next]_vars => ConvInv'
  BY NextConverges
<1>4. QED BY <1>1, <1>2, <1>3, InitTyped, NextTyped, PTL DEF Spec

-----------------------------------------------------------------------------
(* Two polls agree.  Nothing of a kind has happened that its budget does   *)
(* not show: budgets only fall.                                            *)
Unspent(s) == left[s] = Budget[s]

Within == \A s \in Sources : left[s] <= Budget[s]

LEMMA Spends ==
  ASSUME Typed, Within, [Next]_vars
  PROVE  Within' /\ \A s \in Sources \ {"all"} : Unspent(s)' => Unspent(s) /\ ~Spend(s)
<1>1. left \in [ Sources -> Nat ] /\ Budget \in [ Sources -> Nat ] /\ "all" \in Sources
      /\ left' \in [ Sources -> Nat ]
  BY ReconcilerAssumption, NextWorld DEF Typed, WorldOK, Sources
<1>2. left' = left \/ \E s \in Sources \ {"all"} : Spend(s)
  BY DEF Next, vars, Alertmanager, Shift, Inhibit, Notify, Silence, Expire, Lose, Receive, Poll,
         PollLists, PollIngests, PollIngestFails, PollReadsMissing, PollResolves, PollResolveFails,
         Sync, SyncListsSilences, SyncListsAlerts, SyncWrites, SyncFails, Apply, ApplyFails,
         Restart, Sources
<1>3. CASE left' = left
  BY <1>1, <1>3 DEF Within, Unspent, Spend
<1>4. ASSUME NEW u \in Sources \ {"all"}, Spend(u)
      PROVE  /\ left'[u] = left[u] - 1
             /\ \A s \in Sources : left'[s] <= left[s]
  BY <1>1, <1>4 DEF Spend
<1>5. ASSUME NEW u \in Sources \ {"all"}, Spend(u), NEW s \in Sources \ {"all"}, Unspent(s)'
      PROVE  Unspent(s) /\ ~Spend(s)
  <2>1. left'[s] <= left[s] /\ left[s] <= Budget[s] /\ left'[s] = Budget[s] /\ left[s] \in Nat /\ Budget[s] \in Nat
    BY <1>1, <1>4, <1>5 DEF Within, Unspent
  <2>2. QED BY <1>4, <2>1 DEF Unspent
<1>6. ASSUME NEW u \in Sources \ {"all"}, Spend(u)
      PROVE  Within'
  <2>1. ASSUME NEW s \in Sources PROVE left'[s] <= Budget[s]
    <3>1. left'[s] \in Nat /\ left[s] \in Nat /\ Budget[s] \in Nat /\ left'[s] <= left[s] /\ left[s] <= Budget[s]
      BY <1>1, <1>4, <1>6 DEF Within, Spend
    <3>2. QED BY <3>1
  <2>2. QED BY <2>1 DEF Within
<1>7. QED BY <1>2, <1>3, <1>5, <1>6

SeenSince(f, n) == rows[f] # None /\ rows[f].seen >= n

(* The answers in a row without an alert, against when its row was seen: a *)
(* row the last poll listed is too young for this one to resolve.          *)
Absent ==
  LET x == tasks["poll"]
  IN  Unspent("faults") =>
        /\ x.pc \in {"ingest", "apply", "missing"} =>
             \A f \in Fps : f \in DOMAIN x.answer <=> absences[f] = 0
        /\ x.pc = "idle" /\ lastPoll # 0 => \A f \in Fps : absences[f] = 0 => SeenSince(f, lastPoll)
        /\ x.pc # "idle" /\ lastPoll # 0 => \A f \in Fps : absences[f] = 1 => SeenSince(f, lastPoll)
        /\ x.pc \in {"apply", "missing", "resolve", "applyMissing"} =>
             \A f \in Fps : absences[f] = 0 => SeenSince(f, clock)
        /\ x.pc = "resolve" => \A f \in DOMAIN x.answer : absences[f] >= 2

(* What any write leaves a row with: it is there and no older than it was. *)
Younger == \A f \in Fps : rows[f] # None => rows'[f] # None /\ rows'[f].seen >= rows[f].seen

LEMMA IngestYounger ==
  ASSUME Typed, NEW batch \in Answers, rows' = Ingest(batch, clock)
  PROVE  Younger /\ \A f \in DOMAIN batch : f \in Fps /\ rows'[f] # None /\ rows'[f].seen = clock
<1>1. clock \in Nat /\ DOMAIN batch \subseteq Fps
  BY DEF Typed, ClocksOK, Answers
<1>2. \A f \in Fps : f \in DOMAIN batch => rows'[f] \in Row /\ rows'[f].seen = clock
  BY <1>1, IngestRow
<1>3. \A f \in Fps : f \notin DOMAIN batch => rows'[f] = rows[f]
  BY IngestRow
<1>4. \A f \in Fps : rows[f] # None => rows[f].seen \in Nat /\ rows[f].seen <= clock
  BY DEF Typed, RowsOK, Row
<1>5. QED BY <1>1, <1>2, <1>3, <1>4, ReconcilerAssumption DEF Younger

LEMMA ResyncYounger ==
  ASSUME Typed, SyncWrites
  PROVE  Younger
<1>1. (\A f \in Fps : rows'[f] = Resynced(tasks["sync"], f)) /\ tasks["sync"].answer \in Answers
  BY DEF SyncWrites, Typed, TasksOK
<1>2. ASSUME NEW f \in Fps, rows[f] # None
      PROVE  rows'[f] \in Row /\ rows'[f].seen = rows[f].seen
  <2>1. Resynced(tasks["sync"], f) \in Row /\ Resynced(tasks["sync"], f).seen = rows[f].seen
    BY <1>1, <1>2, ResyncedRow DEF Typed
  <2>2. QED BY <1>1, <2>1
<1>3. \A f \in Fps : rows[f] # None => rows[f].seen \in Nat
  BY DEF Typed, RowsOK, Row
<1>4. QED BY <1>2, <1>3, ReconcilerAssumption DEF Younger

LEMMA SeenStays ==
  ASSUME Typed, Younger, NEW f \in Fps, NEW n \in Nat, SeenSince(f, n), rows' \in [ Fps -> Row \cup {None} ]
  PROVE  rows'[f] # None /\ rows'[f].seen >= n
<1>1. rows[f].seen \in Nat /\ rows'[f].seen \in Nat
  BY DEF Typed, RowsOK, Row, SeenSince, Younger
<1>2. QED BY <1>1 DEF Younger, SeenSince

LEMMA AbsentKept ==
  ASSUME Typed, Typed', Absent, Unspent("faults"), Younger, UNCHANGED <<polls, absences>>,
         tasks'["poll"].pc = tasks["poll"].pc, tasks'["poll"].answer = tasks["poll"].answer
  PROVE  Absent'
<1>1. \A f \in Fps, n \in Nat : SeenSince(f, n) => rows'[f] # None /\ rows'[f].seen >= n
  BY SeenStays DEF Typed, RowsOK
<1>2. lastPoll \in Nat /\ clock \in Nat
  BY DEF Typed, ClocksOK
<1>3. /\ \A f \in Fps : SeenSince(f, lastPoll) => SeenSince(f, lastPoll)'
      /\ \A f \in Fps : SeenSince(f, clock) => SeenSince(f, clock)'
  BY <1>1, <1>2 DEF SeenSince, polls
<1>4. QED BY <1>3 DEF Absent, polls

LEMMA ListsAbsent ==
  ASSUME Typed, Absent, Unspent("faults"), PollLists
  PROVE  Absent'
<1>1. /\ rows' = rows /\ clock' = clock + 1 /\ lastPoll' = lastPoll /\ tasks["poll"].pc = "idle"
      /\ tasks'["poll"].pc = "ingest" /\ tasks'["poll"].answer = Listing
      /\ absences' = [ f \in Fps |-> IF f \in Listed THEN 0 ELSE absences[f] + 1 ]
  BY DEF PollLists, Begin, Idle, Names, Typed, TasksOK, store
<1>2. absences \in [ Fps -> Nat ] /\ DOMAIN Listing = Listed
  BY ListingOK DEF Typed, ClocksOK
<1>3. \A f \in Fps : (absences'[f] = 0 <=> f \in Listed) /\ (absences'[f] = 1 => absences[f] = 0)
  BY <1>1, <1>2
<1>4. QED BY <1>1, <1>2, <1>3 DEF Absent, SeenSince

LEMMA IngestsAbsent ==
  ASSUME Typed, Typed', Absent, Unspent("faults"), PollIngests
  PROVE  Absent'
<1> DEFINE x == tasks["poll"]
<1>1. /\ rows' = Ingest(x.answer, clock) /\ UNCHANGED <<clock, lastPoll, previousPoll, absences>>
      /\ x.pc = "ingest" /\ x.answer \in Answers
      /\ tasks'["poll"].pc = "apply" /\ tasks'["poll"].answer = x.answer
  <2>1. tasks' = [ tasks EXCEPT !["poll"] = [ x EXCEPT !.pc = "apply", !.todo = Deltas(x.answer) ] ]
    BY DEF PollIngests, Go
  <2>2. x \in Task /\ "poll" \in Names /\ tasks \in [ Names -> Task ]
    BY DEF Typed, TasksOK, Names
  <2>3. tasks'["poll"].pc = "apply" /\ tasks'["poll"].answer = x.answer
    BY <2>1, <2>2 DEF Task
  <2>4. QED BY <2>3 DEF PollIngests, polls, Typed, TasksOK, ClocksOK, TruthfulAnswer
<1>2. Younger /\ \A f \in DOMAIN x.answer : f \in Fps /\ rows'[f] # None /\ rows'[f].seen = clock
  BY <1>1, IngestYounger
<1>3. clock \in Nat /\ lastPoll \in Nat
  BY DEF Typed, ClocksOK
<1>4. \A f \in Fps : SeenSince(f, lastPoll) => SeenSince(f, lastPoll)'
  BY <1>1, <1>2, <1>3, SeenStays DEF Typed, RowsOK, SeenSince
<1>5. \A f \in Fps : absences[f] = 0 => SeenSince(f, clock)'
  BY <1>1, <1>2, <1>3 DEF Absent, SeenSince
<1>6. QED BY <1>1, <1>4, <1>5 DEF Absent

LEMMA MissingAbsent ==
  ASSUME Typed, Absent, Unspent("faults"), PollReadsMissing
  PROVE  Absent'
<1> DEFINE x == tasks["poll"]
<1>1. /\ UNCHANGED <<rows, clock, lastPoll, previousPoll, absences>> /\ x.pc = "missing"
      /\ \/ Missing(x) = {} /\ tasks'["poll"].pc = "applyMissing"
         \/ tasks'["poll"].pc = "resolve" /\ tasks'["poll"].answer = Resolutions(Missing(x))
  <2>1. \/ Missing(x) = {} /\ tasks' = [ tasks EXCEPT !["poll"] = [ x EXCEPT !.pc = "applyMissing" ] ]
        \/ tasks' = [ tasks EXCEPT !["poll"] = [ x EXCEPT !.pc = "resolve", !.answer = Resolutions(Missing(x)) ] ]
    BY DEF PollReadsMissing, Go, Missing, Resolutions
  <2>2. x \in Task /\ "poll" \in Names /\ tasks \in [ Names -> Task ]
    BY DEF Typed, TasksOK, Names
  <2>3. \/ Missing(x) = {} /\ tasks'["poll"].pc = "applyMissing"
        \/ tasks'["poll"].pc = "resolve" /\ tasks'["poll"].answer = Resolutions(Missing(x))
    BY <2>1, <2>2 DEF Task
  <2>4. QED BY <2>3 DEF PollReadsMissing, polls, store
<1>2. ASSUME NEW f \in Missing(x) PROVE absences[f] >= 2
  <2>1. /\ f \in Fps /\ f \notin DOMAIN x.answer /\ rows[f] # None
        /\ rows[f].seen < previousPoll /\ previousPoll # 0
    BY <1>2, MissingOK
  <2>2. /\ previousPoll \in Nat /\ lastPoll \in Nat /\ previousPoll <= lastPoll
        /\ absences[f] \in Nat /\ rows[f].seen \in Nat
    BY <2>1 DEF Typed, ClocksOK, RowsOK, Row
  <2>3. absences[f] # 0 /\ (lastPoll # 0 /\ absences[f] = 1 => rows[f].seen >= lastPoll)
    BY <1>1, <2>1 DEF Absent, SeenSince
  <2>4. QED BY <2>1, <2>2, <2>3
<1>3. DOMAIN Resolutions(Missing(x)) = Missing(x)
  BY DEF Resolutions
<1>4. tasks'["poll"].pc = "resolve" => \A f \in DOMAIN tasks'["poll"].answer : absences[f] >= 2
  BY <1>1, <1>2, <1>3
<1>5. QED BY <1>1, <1>4 DEF Absent, SeenSince

LEMMA ResolvesAbsent ==
  ASSUME Typed, Typed', Absent, Unspent("faults"), PollResolves
  PROVE  Absent'
<1> DEFINE x == tasks["poll"]
<1>1. /\ rows' = Ingest(x.answer, clock) /\ UNCHANGED <<clock, lastPoll, previousPoll, absences>>
      /\ x.pc = "resolve" /\ x.answer \in Answers
      /\ tasks'["poll"].pc = "applyMissing"
  <2>1. tasks' = [ tasks EXCEPT !["poll"] = [ x EXCEPT !.pc = "applyMissing", !.todo = Deltas(x.answer) ] ]
    BY DEF PollResolves, Go
  <2>2. x \in Task /\ "poll" \in Names /\ tasks \in [ Names -> Task ]
    BY DEF Typed, TasksOK, Names
  <2>3. tasks'["poll"].pc = "applyMissing"
    BY <2>1, <2>2 DEF Task
  <2>4. QED BY <2>3 DEF PollResolves, polls, Typed, TasksOK, ClocksOK, TruthfulAnswer
<1>2. Younger /\ clock \in Nat /\ lastPoll \in Nat
  BY <1>1, IngestYounger DEF Typed, ClocksOK
<1>3. \A f \in Fps : /\ SeenSince(f, lastPoll) => SeenSince(f, lastPoll)'
                     /\ SeenSince(f, clock) => SeenSince(f, clock)'
  BY <1>1, <1>2, SeenStays DEF Typed, RowsOK, SeenSince
<1>4. QED BY <1>1, <1>3 DEF Absent

LEMMA ApplyAbsent ==
  ASSUME Typed, Typed', Absent, Unspent("faults"), NEW t \in Names, Apply(t)
  PROVE  Absent'
<1>1. /\ UNCHANGED <<rows, absences>> /\ tasks["poll"] \in Task
      /\ t # "poll" => tasks'["poll"] = tasks["poll"]
  BY ApplyEffect DEF Typed, TasksOK, Names
<1>2. Younger
  BY <1>1 DEF Younger, Typed, RowsOK, Row
<1>3. CASE AppliesOne(t) \/ TaskEnds(t)
  <2>1. tasks'["poll"].pc = tasks["poll"].pc /\ tasks'["poll"].answer = tasks["poll"].answer /\ UNCHANGED polls
    BY <1>1, <1>3 DEF AppliesOne, TaskEnds, Task
  <2>2. QED BY <1>1, <1>2, <2>1, AbsentKept
<1>4. CASE PollGoesOn
  <2>1. /\ tasks["poll"].pc = "apply" /\ tasks'["poll"].pc = "missing"
        /\ tasks'["poll"].answer = tasks["poll"].answer /\ UNCHANGED <<clock, lastPoll>>
    BY <1>1, <1>4 DEF PollGoesOn, Task, polls
  <2>2. QED BY <1>1, <2>1 DEF Absent, SeenSince
<1>5. CASE PollEnds
  <2>1. /\ tasks["poll"].pc = "applyMissing" /\ tasks'["poll"].pc = "idle"
        /\ lastPoll' = clock /\ clock' = clock
    BY <1>5 DEF PollEnds, Idle, Typed, ClocksOK
  <2>2. QED BY <1>1, <2>1 DEF Absent, SeenSince
<1>6. QED BY <1>3, <1>4, <1>5, ApplyEffect DEF Typed

LEMMA NextAbsent ==
  ASSUME Typed, Within, Absent, [Next]_vars
  PROVE  Absent'
<1> SUFFICES ASSUME Unspent("faults")'
             PROVE  Absent'
  BY DEF Absent
<1>1. Typed' /\ Unspent("faults") /\ ~Spend("faults")
  BY NextTyped, Spends DEF Sources
<1>2. ~PollIngestFails /\ ~PollResolveFails /\ ~SyncFails /\ \A t \in Names : ~ApplyFails(t)
  BY <1>1 DEF PollIngestFails, PollResolveFails, SyncFails, ApplyFails
<1>3. ASSUME rows' = rows PROVE Younger
  BY <1>3 DEF Younger, Typed, RowsOK, Row
<1>4. CASE Unseen \/ Outer \/ SyncListsSilences \/ SyncListsAlerts
  <2>1. /\ UNCHANGED <<rows, polls, absences>> /\ tasks'["poll"] = tasks["poll"]
    BY <1>4 DEF Unseen, Outer, SyncListsSilences, SyncListsAlerts, Begin, Go, Typed, TasksOK, Names, store
  <2>2. QED BY <1>1, <1>3, <2>1, AbsentKept
<1>5. ASSUME NEW m \in mail, Receive(m) PROVE Absent'
  <2> DEFINE batch == [ f \in {m[1]} |-> Alert_(m[2], {}, FALSE) ]
  <2>1. rows' = Ingest(batch, clock) /\ UNCHANGED <<polls, absences>> /\ tasks'["poll"] = tasks["poll"]
    BY <1>5 DEF Receive, Begin, Typed, TasksOK, Names
  <2>2. batch \in Answers
    BY WebhookOK DEF Typed, WorldOK, TruthfulAnswer
  <2> HIDE DEF batch
  <2>3. Younger
    BY <2>1, <2>2, IngestYounger
  <2>4. QED BY <1>1, <2>1, <2>3, AbsentKept
<1>6. CASE SyncWrites
  <2>1. UNCHANGED <<polls, absences>> /\ tasks'["poll"] = tasks["poll"]
    BY <1>6 DEF SyncWrites, Go, Typed, TasksOK, Names
  <2>2. QED BY <1>1, <1>6, <2>1, AbsentKept, ResyncYounger
<1>7. CASE Restart
  <2>1. /\ lastPoll' = 0 /\ absences' = [ f \in Fps |-> 0 ] /\ tasks'["poll"].pc = "idle"
    BY <1>7 DEF Restart, Idle, Names
  <2>2. QED BY <2>1 DEF Absent
<1>8. QED BY <1>1, <1>2, <1>4, <1>5, <1>6, <1>7, ListsAbsent, IngestsAbsent, MissingAbsent,
             ResolvesAbsent, ApplyAbsent, StepKinds

(* A poll resolves an alert only if the poll before did not list it        *)
(* either: one answer that leaves everything out resolves nothing.         *)
THEOREM TwoPollsAgree == Spec => ResolvedOnlyIfGone
<1> DEFINE AbsentInv == Typed /\ Within /\ Absent
<1>1. Init => AbsentInv
  <2> SUFFICES ASSUME Init PROVE AbsentInv
    OBVIOUS
  <2>1. Within
    BY ReconcilerAssumption DEF Init, Within
  <2>2. Absent
    BY DEF Init, Absent, Idle, Names
  <2>3. QED BY <2>1, <2>2, InitTyped
<1>2. AbsentInv /\ [Next]_vars => AbsentInv'
  BY NextTyped, Spends, NextAbsent
<1>3. ASSUME AbsentInv, NEW f \in Fps, PollResolves, left["faults"] = Budget["faults"],
             rows[f] # None, IsFiring(rows[f]), ~IsFiring(rows'[f])
      PROVE  absences[f] >= 2
  <2>1. /\ rows' = Ingest(tasks["poll"].answer, tasks["poll"].started)
        /\ tasks["poll"].pc = "resolve" /\ tasks["poll"].answer \in Answers
    BY <1>3 DEF PollResolves, Typed, TasksOK, TruthfulAnswer
  <2>2. f \in DOMAIN tasks["poll"].answer
    BY <1>3, <2>1, IngestRow
  <2>3. QED BY <1>3, <2>1, <2>2 DEF Absent, Unspent
<1>4. AbsentInv /\ [Next]_vars =>
        [ \A f \in Fps :
            /\ PollResolves /\ left["faults"] = Budget["faults"]
            /\ rows[f] # None /\ IsFiring(rows[f]) /\ ~IsFiring(rows'[f])
            => absences[f] >= 2 ]_vars
  BY <1>3
<1>5. QED BY <1>1, <1>2, <1>4, PTL DEF Spec, ResolvedOnlyIfGone

-----------------------------------------------------------------------------
(* Cards.  The change an alert makes of its row moves a card that shows    *)
(* the row to one that shows what is written: every pair of the two.       *)
LEMMA RedrawnWanted ==
  ASSUME NEW row \in Row \cup {None}, NEW alert \in Told, NEW new \in Row, NEW f,
         new.status = alert.status, new.suppressed = alert.suppressed,
         NEW c \in Wanted(row), Classify(row, alert) # None
  PROVE  Redrawn(c, Change(f, Classify(row, alert), alert)) \in Wanted(new)
<1> DEFINE k == Classify(row, alert)
           d == Change(f, k, alert)
<1>1. d.kind = k /\ d.alert = alert
  BY DEF Change
<1>2. /\ alert.status \in {"firing", "resolved"} /\ new # None
      /\ row # None => row.status \in {"firing", "resolved"}
  BY ReconcilerAssumption DEF Told, Row
<1>3. /\ None \notin {"fired", "resolved", "silenced", "unsilenced", "updated"}
      /\ None \notin {"acknowledged", "ack_revoked", "ignored", "unignored"}
      /\ None \notin {"firing", "acked", "orphaned"}
  BY ReconcilerAssumption DEF Events, Triggers, States
<1> DEFINE moved == NextState(c, TriggerFor(k, alert, c, FALSE), FALSE)
<1>4. Redrawn(c, d) =
        IF c = None THEN IF IsFiring(alert) THEN InitialState(alert) ELSE None
        ELSE IF moved = None THEN c
        ELSE IF c = "resolved" /\ alert.suppressed THEN "silenced" ELSE moved
  BY <1>1 DEF Redrawn
<1>5. CASE alert.status = "resolved"
  <2>1. Wanted(new) = {None, "resolved"} /\ ~IsFiring(alert)
    BY <1>2, <1>5 DEF Wanted, IsFiring
  <2>2. c \in {None, "resolved", "silenced", "firing"}
    BY DEF Wanted
  <2>3. CASE c = "resolved"
    <3>1. k # "fired"
      BY <1>3, <2>1 DEF Classify
    <3>2. TriggerFor(k, alert, c, FALSE) # "fired"
      BY <1>3, <2>1, <2>3, <3>1 DEF TriggerFor, FromEvent, IsOpen
    <3>3. moved = None
      BY <1>3, <2>3, <3>2 DEF NextState, IsOpen
    <3>4. QED BY <1>4, <2>1, <2>3, <3>3
  <2>4. CASE c \in {"silenced", "firing"}
    <3>1. TriggerFor(k, alert, c, FALSE) = "resolved"
      BY <2>1, <2>4 DEF TriggerFor, IsOpen
    <3>2. moved = "resolved"
      BY <2>4, <3>1 DEF NextState, IsOpen
    <3>3. QED BY <1>3, <1>4, <2>1, <2>4, <3>2
  <2>5. QED BY <1>4, <2>1, <2>2, <2>3, <2>4
<1>6. CASE alert.status = "firing" /\ (row = None \/ row.status = "resolved")
  <2>1. k = "fired" /\ IsFiring(alert)
    BY <1>6 DEF Classify, IsFiring
  <2>2. c \in {None, "resolved"}
    BY <1>6 DEF Wanted, IsFiring
  <2>3. Wanted(new) = IF alert.suppressed THEN {"silenced"} ELSE {"firing"}
    BY <1>2, <1>6 DEF Wanted, IsFiring
  <2>4. CASE c = None
    BY <1>4, <2>1, <2>3, <2>4 DEF InitialState
  <2>5. CASE c = "resolved"
    <3>1. TriggerFor(k, alert, c, FALSE) = "fired"
      BY <2>1, <2>5 DEF TriggerFor, IsOpen, FromEvent
    <3>2. moved = "firing"
      BY <2>5, <3>1 DEF NextState
    <3>3. QED BY <1>3, <1>4, <2>3, <2>5, <3>2
  <2>6. QED BY <2>2, <2>4, <2>5
<1>7. CASE alert.status = "firing" /\ row # None /\ row.status = "firing"
  <2>1. IsFiring(alert) /\ IsFiring(row)
    BY <1>7 DEF IsFiring
  <2>2. Wanted(new) = IF alert.suppressed THEN {"silenced"} ELSE {"firing"}
    BY <1>2, <1>7 DEF Wanted, IsFiring
  <2>3. c = IF row.suppressed THEN "silenced" ELSE "firing"
    BY <1>7, <2>1 DEF Wanted
  <2>4. TriggerFor(k, alert, c, FALSE) = FromEvent(k)
    BY <2>1, <2>3 DEF TriggerFor
  <2>5. CASE row.suppressed = alert.suppressed
    <3>1. k = "updated"
      BY <1>7, <2>5 DEF Classify
    <3>2. FromEvent(k) = None
      BY <3>1 DEF FromEvent
    <3>3. moved = None
      BY <1>3, <2>4, <3>2 DEF NextState
    <3>4. QED BY <1>3, <1>4, <2>2, <2>3, <2>5, <3>3
  <2>6. CASE row.suppressed # alert.suppressed
    <3>1. row.suppressed \in BOOLEAN /\ alert.suppressed \in BOOLEAN
      BY <1>7 DEF Row, Told
    <3>2. CASE alert.suppressed
      <4>1. k = "silenced" /\ c = "firing"
        BY <1>7, <2>3, <2>6, <3>1, <3>2 DEF Classify
      <4>2. moved = "silenced"
        BY <2>4, <4>1 DEF NextState, FromEvent
      <4>3. QED BY <1>3, <1>4, <2>2, <3>2, <4>1, <4>2
    <3>3. CASE ~alert.suppressed
      <4>1. k = "unsilenced" /\ c = "silenced"
        BY <1>7, <2>3, <2>6, <3>1, <3>3 DEF Classify
      <4>2. moved = "firing"
        BY <2>4, <4>1 DEF NextState, FromEvent
      <4>3. QED BY <1>3, <1>4, <2>2, <3>3, <4>1, <4>2
    <3>4. QED BY <3>2, <3>3
  <2>7. QED BY <2>5, <2>6
<1>8. QED BY <1>2, <1>5, <1>6, <1>7

(* Where no change is heard, the row asks of a card what it did.           *)
LEMMA WantedSame ==
  ASSUME NEW row, NEW new, row # None, new # None, new.status = row.status, new.suppressed = row.suppressed
  PROVE  Wanted(new) = Wanted(row)
BY DEF Wanted, IsFiring

LEMMA RedeliveryWanted ==
  ASSUME NEW row \in Row \cup {None}, NEW alert \in Told, NEW new \in Row,
         new.status = alert.status, new.suppressed = alert.suppressed, Classify(row, alert) = None
  PROVE  Wanted(new) = Wanted(row)
<1>1. /\ None \notin {"fired", "resolved", "silenced", "unsilenced", "updated"} /\ new # None
  BY ReconcilerAssumption DEF Events
<1>2. row # None /\ row.status = alert.status /\ row.suppressed = alert.suppressed
  BY <1>1 DEF Classify
<1>3. QED BY <1>1, <1>2, WantedSame

(* Until a rule inhibits something, nothing anybody holds is inhibited.    *)
NobodyInhibits ==
  Unspent("inhibiting") =>
    /\ inhibited = {}
    /\ \A f \in Fps : rows[f] # None => ~rows[f].text.inhibited
    /\ tasks["poll"].pc \in {"ingest", "apply", "missing", "resolve"} =>
         \A f \in DOMAIN tasks["poll"].answer : ~tasks["poll"].answer[f].text.inhibited

LEMMA IngestUninhibited ==
  ASSUME NEW batch \in Answers, NEW now, \A f \in DOMAIN batch : ~batch[f].text.inhibited,
         \A f \in Fps : rows[f] # None => ~rows[f].text.inhibited, rows' = Ingest(batch, now)
  PROVE  \A f \in Fps : rows'[f] # None => ~rows'[f].text.inhibited
<1>1. \A f \in Fps : f \in DOMAIN batch => rows'[f].text = batch[f].text
  BY IngestRow
<1>2. \A f \in Fps : f \notin DOMAIN batch => rows'[f] = rows[f]
  BY IngestRow
<1>3. QED BY <1>1, <1>2

LEMMA NextUninhibited ==
  ASSUME Typed, Within, NobodyInhibits, [Next]_vars
  PROVE  NobodyInhibits'
<1> DEFINE x == tasks["poll"]
<1> SUFFICES ASSUME Unspent("inhibiting")'
             PROVE  NobodyInhibits'
  BY DEF NobodyInhibits
<1>1. /\ inhibited = {} /\ ~Spend("inhibiting")
      /\ \A f \in Fps : rows[f] # None => ~rows[f].text.inhibited
      /\ x.pc \in {"ingest", "apply", "missing", "resolve"} =>
           x.answer \in Answers /\ \A f \in DOMAIN x.answer : ~x.answer[f].text.inhibited
  BY Spends DEF NobodyInhibits, Sources, Typed, TasksOK, TruthfulAnswer
<1>2. inhibited' = {}
  <2>1. ASSUME NEW t \in Names, Apply(t) PROVE inhibited' = {}
    BY <1>1, <2>1, ApplyEffect DEF Typed, outside
  <2>2. QED BY <1>1, <2>1
    DEF Next, vars, outside, Alertmanager, Shift, Inhibit, Notify, Silence, Expire, Lose, Receive, Poll,
        PollLists, PollIngests, PollIngestFails, PollReadsMissing, PollResolves, PollResolveFails,
        Sync, SyncListsSilences, SyncListsAlerts, SyncWrites, SyncFails, ApplyFails, Restart
<1>3. ASSUME rows' = rows, tasks'["poll"] = x PROVE NobodyInhibits'
  BY <1>1, <1>2, <1>3 DEF NobodyInhibits
<1>4. CASE Unseen \/ Outer \/ SyncListsSilences \/ SyncListsAlerts \/ SyncFails
  BY <1>3, <1>4 DEF Unseen, Outer, SyncListsSilences, SyncListsAlerts, SyncFails, Begin, Go, Typed, TasksOK,
                    Names, store
<1>5. ASSUME NEW m \in mail, Receive(m) PROVE NobodyInhibits'
  <2> DEFINE batch == [ f \in {m[1]} |-> Alert_(m[2], {}, FALSE) ]
  <2>1. rows' = Ingest(batch, clock) /\ tasks'["poll"] = x
    BY <1>5 DEF Receive, Begin, Typed, TasksOK, Names
  <2>a. m \in Fps \X {"firing", "resolved"} /\ batch \in Answers
    BY WebhookOK DEF Typed, WorldOK, TruthfulAnswer
  <2>b. Alert_(m[2], {}, FALSE).text.inhibited = FALSE
    BY DEF Alert_
  <2>2. batch \in Answers /\ \A f \in DOMAIN batch : ~batch[f].text.inhibited
    BY <2>a, <2>b
  <2> HIDE DEF batch
  <2>3. \A f \in Fps : rows'[f] # None => ~rows'[f].text.inhibited
    BY <1>1, <2>1, <2>2, IngestUninhibited
  <2>4. QED BY <1>1, <1>2, <2>1, <2>3 DEF NobodyInhibits
<1>6. CASE PollLists
  <2>1. rows' = rows /\ tasks'["poll"].answer = Listing
    BY <1>6 DEF PollLists, Begin, Idle, Names, Typed, TasksOK, store
  <2>2. DOMAIN Listing = Listed
    BY ListingOK DEF Typed
  <2>a. ASSUME NEW f \in Listed PROVE ~Listing[f].text.inhibited
    <3>1. Listing[f].text = [ silencedBy |-> Active, inhibited |-> f \in inhibited ]
      BY ListingOK DEF Typed
    <3>2. ~(f \in inhibited)
      BY <1>1
    <3>3. [ silencedBy |-> Active, inhibited |-> f \in inhibited ].inhibited = (f \in inhibited)
      OBVIOUS
    <3>4. QED BY Zenon, <3>1, <3>2, <3>3
  <2>3. QED BY <1>1, <1>2, <2>1, <2>2, <2>a DEF NobodyInhibits
<1>7. CASE PollIngests \/ PollResolves
  <2>1. rows' = Ingest(x.answer, x.started) /\ x.pc \in {"ingest", "resolve"}
    BY <1>7 DEF PollIngests, PollResolves
  <2>2. tasks'["poll"].answer = x.answer
    <3>1. PICK p, d : tasks' = [ tasks EXCEPT !["poll"] = [ x EXCEPT !.pc = p, !.todo = d ] ]
      BY <1>7 DEF PollIngests, PollResolves, Go
    <3>2. x \in Task /\ "poll" \in Names /\ tasks \in [ Names -> Task ]
      BY DEF Typed, TasksOK, Names
    <3>3. QED BY <3>1, <3>2 DEF Task
  <2>3. \A f \in Fps : rows'[f] # None => ~rows'[f].text.inhibited
    BY <1>1, <2>1, IngestUninhibited
  <2>4. QED BY <1>1, <1>2, <2>1, <2>2, <2>3 DEF NobodyInhibits
<1>8. CASE PollIngestFails \/ PollResolveFails
  <2>1. PICK p \in {"apply", "applyMissing"} : tasks' = [ tasks EXCEPT !["poll"] = [ x EXCEPT !.pc = p ] ]
    BY <1>8 DEF PollIngestFails, PollResolveFails, Go
  <2>2. rows' = rows /\ (p = "apply" => x.pc = "ingest")
    <3>1. x \in Task /\ "poll" \in Names /\ tasks \in [ Names -> Task ]
      BY DEF Typed, TasksOK, Names
    <3>2. tasks'["poll"].pc = p
      BY <2>1, <3>1 DEF Task
    <3>3. PollResolveFails => tasks'["poll"].pc = "applyMissing"
      BY <3>1 DEF PollResolveFails, Go, Task
    <3>4. QED BY <1>8, <3>2, <3>3 DEF PollIngestFails, PollResolveFails, store
  <2>3. tasks'["poll"].pc = p /\ tasks'["poll"].answer = x.answer
    <3>1. x \in Task /\ "poll" \in Names /\ tasks \in [ Names -> Task ]
      BY DEF Typed, TasksOK, Names
    <3>2. QED BY <2>1, <3>1 DEF Task
  <2>4. QED BY <1>1, <1>2, <2>2, <2>3 DEF NobodyInhibits
<1>9. CASE PollReadsMissing
  <2>1. \/ Missing(x) = {} /\ tasks' = [ tasks EXCEPT !["poll"] = [ x EXCEPT !.pc = "applyMissing" ] ]
        \/ tasks' = [ tasks EXCEPT !["poll"] = [ x EXCEPT !.pc = "resolve", !.answer = Resolutions(Missing(x)) ] ]
    BY <1>9 DEF PollReadsMissing, Go, Missing, Resolutions
  <2>2. x \in Task /\ "poll" \in Names /\ tasks \in [ Names -> Task ]
    BY DEF Typed, TasksOK, Names
  <2>3. \/ tasks'["poll"].pc = "applyMissing"
        \/ tasks'["poll"].answer = Resolutions(Missing(x))
    BY <2>1, <2>2 DEF Task
  <2>4. /\ DOMAIN Resolutions(Missing(x)) = Missing(x)
        /\ \A f \in Missing(x) : ~Resolutions(Missing(x))[f].text.inhibited
    BY <1>1, MissingOK DEF Resolutions
  <2>5. rows' = rows
    BY <1>9 DEF PollReadsMissing, store
  <2>6. QED BY <1>1, <1>2, <2>3, <2>4, <2>5 DEF NobodyInhibits
<1>10. CASE SyncWrites
  <2>1. (\A f \in Fps : rows'[f] = Resynced(tasks["sync"], f)) /\ tasks["sync"].answer \in Answers /\ tasks'["poll"] = x
    BY <1>10 DEF SyncWrites, Go, Typed, TasksOK, Names
  <2>2. ASSUME NEW f \in Fps, rows'[f] # None PROVE ~rows'[f].text.inhibited
    <3>1. rows[f] # None
      BY <2>1, <2>2 DEF Resynced
    <3>a. Resynced(tasks["sync"], f).text
            = [ silencedBy |-> Desired(tasks["sync"], f), inhibited |-> rows[f].text.inhibited ]
      BY <2>1, <3>1, ResyncedRow DEF Typed
    <3>2. rows'[f].text.inhibited = rows[f].text.inhibited
      BY <2>1, <3>a
    <3>3. QED BY <1>1, <3>1, <3>2
  <2>3. QED BY <1>1, <1>2, <2>1, <2>2 DEF NobodyInhibits
<1>11. ASSUME NEW t \in Names, Apply(t) PROVE NobodyInhibits'
  <2>1. rows' = rows /\ tasks["poll"] \in Task /\ (t # "poll" => tasks'["poll"] = tasks["poll"])
    BY <1>11, ApplyEffect DEF Typed, TasksOK, Names
  <2>2. CASE t = "poll" /\ PollEnds
    BY <1>1, <1>2, <2>1, <2>2 DEF NobodyInhibits, PollEnds, Idle
  <2>3. CASE AppliesOne(t) \/ TaskEnds(t)
    <3>1. tasks'["poll"].pc = x.pc /\ tasks'["poll"].answer = x.answer
      BY <2>1, <2>3 DEF AppliesOne, TaskEnds, Task
    <3>2. QED BY <1>1, <1>2, <2>1, <3>1 DEF NobodyInhibits
  <2>4. CASE t = "poll" /\ PollGoesOn
    <3>1. x.pc = "apply" /\ tasks'["poll"].answer = x.answer
      BY <2>1, <2>4 DEF PollGoesOn, Task
    <3>2. QED BY <1>1, <1>2, <2>1, <3>1 DEF NobodyInhibits
  <2>5. QED BY <1>11, <2>2, <2>3, <2>4, ApplyEffect DEF Typed
<1>12. ASSUME NEW t \in Names, ApplyFails(t) PROVE NobodyInhibits'
  <2>1. rows' = rows /\ tasks["poll"] \in Task /\ tasks' = [ tasks EXCEPT ![t] = [ tasks[t] EXCEPT !.todo = {} ] ]
    BY <1>12 DEF ApplyFails, Go, Typed, TasksOK, Names, store
  <2>2. tasks'["poll"].pc = x.pc /\ tasks'["poll"].answer = x.answer
    BY <2>1 DEF Task, Typed, TasksOK, Names
  <2>3. QED BY <1>1, <1>2, <2>1, <2>2 DEF NobodyInhibits
<1>13. CASE Restart
  <2>1. rows' = rows /\ tasks'["poll"].pc = "idle"
    BY <1>13 DEF Restart, Idle, Names, store
  <2>2. QED BY <1>1, <1>2, <2>1 DEF NobodyInhibits
<1>14. QED BY <1>4, <1>5, <1>6, <1>7, <1>8, <1>9, <1>10, <1>11, <1>12, <1>13, StepKinds

-----------------------------------------------------------------------------
(* One task at a time, and only the one that applies them holds changes.   *)
Alone == \A t, u \in Names : tasks[t].pc # "idle" /\ tasks[u].pc # "idle" => t = u

Handed == \A t \in Names : tasks[t].todo # {} => tasks[t].pc \in {"apply", "applyMissing"}

Pending == UNION { tasks[t].todo : t \in Names }

(* Every card shows its row, or will with the one change pending for it.   *)
Shown ==
  /\ \A d, e \in Pending : d.fp = e.fp => d = e
  /\ \A d \in Pending : Redrawn(card[d.fp], d) \in Wanted(rows[d.fp])
  /\ \A f \in Fps : (\A d \in Pending : d.fp # f) => card[f] \in Wanted(rows[f])

Straight == Unspent("inhibiting") /\ Unspent("faults") /\ Unspent("restarts") /\ ~overlapped

CardsInStep == Straight => Alone /\ Handed /\ Shown

(* A task that begins finds the others idle, or overlaps them.             *)
LEMMA BeginsAlone ==
  ASSUME Typed, NEW t \in Names, NEW y \in Task, Begin(t, y), ~overlapped'
  PROVE  /\ ~overlapped /\ tasks'[t] = y
         /\ \A u \in Names \ {t} : tasks[u].pc = "idle" /\ tasks'[u] = tasks[u]
<1>1. ~overlapped /\ \A u \in Names \ {t} : tasks[u].pc = "idle"
  BY DEF Begin
<1>2. tasks' = [ tasks EXCEPT ![t] = y ]
  BY DEF Begin
<1>3. QED BY <1>1, <1>2, TaskMoves DEF Typed

LEMMA HeldAlone ==
  ASSUME Typed, Handed, NEW t \in Names, tasks[t].pc \notin {"apply", "applyMissing"},
         \A u \in Names \ {t} : tasks[u].pc = "idle"
  PROVE  Pending = {}
<1>1. \A u \in Names : tasks[u].todo = {}
  BY DEF Handed
<1>2. QED BY <1>1 DEF Pending

LEMMA PendingOne ==
  ASSUME NEW t \in Names, \A u \in Names \ {t} : tasks'[u].todo = {}
  PROVE  Pending' = tasks'[t].todo
BY DEF Pending

(* Nothing written, nothing drawn and nothing handed out or dropped.       *)
LEMMA ShownKept ==
  ASSUME Shown, UNCHANGED <<rows, card>>, \A t \in Names : tasks'[t].todo = tasks[t].todo
  PROVE  Shown'
<1>1. Pending' = Pending
  BY DEF Pending
<1>2. QED BY <1>1 DEF Shown

(* A batch that is written hands out what it changed.                      *)
LEMMA WriteShown ==
  ASSUME Typed, Shown, Pending = {}, NEW batch \in Answers, NEW now \in Nat,
         rows' = Ingest(batch, now), card' = card, Pending' = Deltas(batch)
  PROVE  Shown'
<1>1. \A f \in Fps : card[f] \in Wanted(rows[f]) /\ rows[f] \in Row \cup {None}
  BY DEF Shown, Typed, RowsOK
<1>2. DOMAIN batch \subseteq Fps
  BY DEF Answers
<1>3. ASSUME NEW f \in DOMAIN batch
      PROVE  /\ batch[f] \in Told /\ rows'[f] \in Row
             /\ rows'[f].status = batch[f].status /\ rows'[f].suppressed = batch[f].suppressed
  BY <1>2, <1>3, IngestRow
<1> DEFINE news(f) == Change(f, Classify(rows[f], batch[f]), batch[f])
<1>4. \A d \in Pending' : \E f \in DOMAIN batch : Classify(rows[f], batch[f]) # None /\ d = news(f) /\ d.fp = f
  BY DEF Deltas, Change
<1>5. \A f \in DOMAIN batch : Classify(rows[f], batch[f]) # None => news(f) \in Pending' /\ news(f).fp = f
  BY DEF Deltas, Change
<1>6. \A d, e \in Pending' : d.fp = e.fp => d = e
  BY <1>4
<1>7. ASSUME NEW d \in Pending'
      PROVE  Redrawn(card'[d.fp], d) \in Wanted(rows'[d.fp])
  <2>1. PICK f \in DOMAIN batch : Classify(rows[f], batch[f]) # None /\ d = news(f) /\ d.fp = f
    BY <1>4, <1>7
  <2>2. Redrawn(card[f], news(f)) \in Wanted(rows'[f])
    BY <1>1, <1>2, <1>3, <2>1, RedrawnWanted
  <2>3. QED BY <2>1, <2>2
<1>8. ASSUME NEW f \in Fps, \A d \in Pending' : d.fp # f
      PROVE  card'[f] \in Wanted(rows'[f])
  <2>1. CASE f \in DOMAIN batch
    <3>1. Classify(rows[f], batch[f]) = None
      BY <1>5, <1>8, <2>1
    <3>2. Wanted(rows'[f]) = Wanted(rows[f])
      BY <1>1, <1>3, <2>1, <3>1, RedeliveryWanted
    <3>3. QED BY <1>1, <3>2
  <2>2. CASE f \notin DOMAIN batch
    BY <1>1, <2>2, IngestRow
  <2>3. QED BY <2>1, <2>2
<1>9. QED BY <1>6, <1>7, <1>8 DEF Shown

(* As long as nothing inhibits, a silence sync says what classify would.   *)
LEMMA SyncShown ==
  ASSUME Typed, NobodyInhibits, Unspent("inhibiting"), Shown, Pending = {}, SyncWrites,
         Pending' = tasks'["sync"].todo
  PROVE  Shown'
<1> DEFINE x == tasks["sync"]
           told == { f \in Fps : SilenceEvent(x, f) # None }
           alert(f) == [ status |-> rows[f].status, suppressed |-> Resynced(x, f).suppressed,
                         text |-> Resynced(x, f).text ]
           news(f) == Change(f, SilenceEvent(x, f), alert(f))
           todo == { news(f) : f \in told }
<1>1. /\ \A f \in Fps : card[f] \in Wanted(rows[f]) /\ rows[f] \in Row \cup {None}
      /\ \A f \in Fps : rows'[f] = Resynced(x, f)
      /\ card' = card /\ x.answer \in Answers
  BY DEF Shown, Typed, RowsOK, TasksOK, SyncWrites
<1>2. Pending' = todo
  <2>1. tasks' = [ tasks EXCEPT !["sync"] = [ Idle EXCEPT !.pc = "apply", !.todo = todo ] ]
    BY DEF SyncWrites, Go
  <2> HIDE DEF todo
  <2>2. "sync" \in Names /\ tasks \in [ Names -> Task ]
    BY DEF Typed, TasksOK, Names
  <2>3. tasks'["sync"].todo = todo
    BY <2>1, <2>2 DEF Idle
  <2>4. QED BY <2>3
<1>3. ASSUME NEW f \in Fps, rows[f] # None
      PROVE  /\ rows'[f] \in Row /\ rows'[f].status = rows[f].status
             /\ rows'[f].suppressed <=> Desired(x, f) # {}
             /\ rows[f].suppressed <=> rows[f].text.silencedBy # {}
             /\ rows[f].suppressed \in BOOLEAN /\ rows'[f].suppressed \in BOOLEAN
  <2>1. /\ Resynced(x, f) \in Row /\ Truthful(Resynced(x, f)) /\ Resynced(x, f).status = rows[f].status
        /\ Resynced(x, f).text = [ silencedBy |-> Desired(x, f), inhibited |-> rows[f].text.inhibited ]
    BY <1>1, <1>3, ResyncedRow DEF Typed
  <2>2. ~rows[f].text.inhibited /\ Truthful(rows[f]) /\ rows[f] \in Row
    BY <1>1, <1>3 DEF NobodyInhibits, Typed, RowsOK
  <2>3. /\ Resynced(x, f).text.silencedBy = Desired(x, f)
        /\ Resynced(x, f).text.inhibited = rows[f].text.inhibited
    BY <2>1
  <2>4. Resynced(x, f).suppressed <=> Desired(x, f) # {}
    BY Zenon, <2>1, <2>2, <2>3 DEF Truthful
  <2>5. rows[f].suppressed <=> rows[f].text.silencedBy # {}
    BY Zenon, <2>2 DEF Truthful
  <2>6. Resynced(x, f).suppressed \in BOOLEAN /\ rows[f].suppressed \in BOOLEAN
    BY <2>1, <2>2 DEF Row
  <2>7. QED BY <1>1, <2>1, <2>4, <2>5, <2>6
<1>4. ASSUME NEW f \in told
      PROVE  Redrawn(card[f], news(f)) \in Wanted(rows'[f])
  <2>1. f \in Fps /\ rows[f] # None /\ (rows[f].text.silencedBy = {} <=> Desired(x, f) # {})
    BY <1>4 DEF SilenceEvent
  <2>2. rows'[f].suppressed # rows[f].suppressed /\ SilenceEvent(x, f) = IF rows'[f].suppressed THEN "silenced" ELSE "unsilenced"
    BY <1>3, <2>1 DEF SilenceEvent
  <2>3. /\ alert(f).status = rows[f].status /\ alert(f).suppressed = rows'[f].suppressed
        /\ alert(f) \in Told
    BY <1>1, <1>3, <2>1 DEF Told, Row
  <2>4. Classify(rows[f], alert(f)) = SilenceEvent(x, f)
    BY <2>1, <2>2, <2>3 DEF Classify
  <2>5. SilenceEvent(x, f) # None
    BY <1>4
  <2> HIDE DEF alert
  <2>6. QED BY <1>1, <1>3, <2>1, <2>3, <2>4, <2>5, RedrawnWanted
<1>5. ASSUME NEW f \in Fps \ told
      PROVE  Wanted(rows'[f]) = Wanted(rows[f])
  <2>1. CASE rows[f] = None
    BY <1>1, <2>1 DEF Resynced
  <2>2. CASE rows[f] # None
    <3>1. SilenceEvent(x, f) = None
      BY <1>5
    <3>2. rows[f].text.silencedBy = {} <=> Desired(x, f) = {}
      <4>1. None \notin {"silenced", "unsilenced"}
        BY ReconcilerAssumption DEF Events
      <4>2. QED BY <2>2, <3>1, <4>1 DEF SilenceEvent
    <3>3. rows'[f].suppressed = rows[f].suppressed /\ rows'[f].status = rows[f].status /\ rows'[f] # None
      BY <1>3, <1>5, <2>2, <3>2, ReconcilerAssumption
    <3>4. QED BY <2>2, <3>3, WantedSame
  <2>3. QED BY <2>1, <2>2
<1>6. \A f : news(f).fp = f
  BY DEF Change
<1> HIDE DEF news, told
<1>7. \A d \in Pending' : \E f \in told : d = news(f) /\ d.fp = f
  BY <1>2, <1>6
<1>8. \A f \in told : news(f) \in Pending'
  BY <1>2
<1>9. \A d, e \in Pending' : d.fp = e.fp => d = e
  BY <1>7
<1>10. \A d \in Pending' : Redrawn(card'[d.fp], d) \in Wanted(rows'[d.fp])
  BY <1>1, <1>4, <1>7
<1>11. \A f \in Fps : (\A d \in Pending' : d.fp # f) => card'[f] \in Wanted(rows'[f])
  BY <1>1, <1>5, <1>6, <1>8
<1>12. QED BY <1>9, <1>10, <1>11 DEF Shown

(* One change applied: its card shows its row, the others are untouched.   *)
LEMMA RedrawShown ==
  ASSUME Typed, Shown, NEW d \in Pending, card' = [ card EXCEPT ![d.fp] = Redrawn(@, d) ],
         rows' = rows, Pending' = Pending \ {d}
  PROVE  Shown'
<1>1. d.fp \in Fps
  BY DEF Typed, TasksOK, Task, Pending, Changes
<1>2. card'[d.fp] = Redrawn(card[d.fp], d) /\ \A f \in Fps \ {d.fp} : card'[f] = card[f]
  BY <1>1 DEF Typed, WorldOK
<1>3. \A e \in Pending' : e \in Pending /\ e.fp # d.fp
  BY DEF Shown
<1>4. \A e \in Pending : e.fp \in Fps
  BY DEF Typed, TasksOK, Task, Pending, Changes
<1>5. \A e \in Pending' : Redrawn(card'[e.fp], e) \in Wanted(rows'[e.fp])
  BY <1>2, <1>3, <1>4 DEF Shown
<1>6. ASSUME NEW f \in Fps, \A e \in Pending' : e.fp # f
      PROVE  card'[f] \in Wanted(rows'[f])
  <2>1. CASE f = d.fp
    BY <1>2, <2>1 DEF Shown
  <2>2. CASE f # d.fp
    BY <1>2, <1>6, <2>2 DEF Shown
  <2>3. QED BY <2>1, <2>2
<1>7. QED BY <1>3, <1>5, <1>6 DEF Shown

(* A task that moves on its own leaves the others where they are.          *)
LEMMA MovesAlone ==
  ASSUME Alone, Handed, NEW t \in Names, tasks[t].pc # "idle",
         \A u \in Names \ {t} : tasks'[u] = tasks[u],
         tasks'[t].todo # {} => tasks'[t].pc \in {"apply", "applyMissing"}
  PROVE  /\ Alone' /\ Handed'
         /\ \A u \in Names \ {t} : tasks[u].pc = "idle" /\ tasks[u].todo = {}
<1>1. \A u \in Names \ {t} : tasks[u].pc = "idle"
  BY DEF Alone
<1>2. Alone'
  BY <1>1 DEF Alone
<1>3. Handed'
  BY DEF Handed
<1>4. QED BY <1>1, <1>2, <1>3 DEF Handed

LEMMA BegunAlone ==
  ASSUME Handed, NEW t \in Names, \A u \in Names \ {t} : tasks[u].pc = "idle" /\ tasks'[u] = tasks[u],
         tasks'[t].todo # {} => tasks'[t].pc \in {"apply", "applyMissing"}
  PROVE  /\ Alone' /\ Handed'
         /\ \A u \in Names \ {t} : tasks'[u].todo = {}
BY DEF Alone, Handed

LEMMA PollMoves ==
  ASSUME Typed, PollIngests \/ PollReadsMissing \/ PollResolves
  PROVE  /\ \A u \in Names \ {"poll"} : tasks'[u] = tasks[u]
         /\ PollIngests \/ PollResolves =>
              /\ tasks'["poll"].todo = Deltas(tasks["poll"].answer)
              /\ tasks'["poll"].pc \in {"apply", "applyMissing"}
         /\ PollReadsMissing => tasks'["poll"].todo = tasks["poll"].todo
<1> DEFINE x == tasks["poll"]
<1>1. x \in Task /\ "poll" \in Names /\ tasks \in [ Names -> Task ]
  BY DEF Typed, TasksOK, Names
<1>2. CASE PollIngests \/ PollResolves
  <2>1. PICK p \in {"apply", "applyMissing"} :
          tasks' = [ tasks EXCEPT !["poll"] = [ x EXCEPT !.pc = p, !.todo = Deltas(x.answer) ] ]
    BY <1>2 DEF PollIngests, PollResolves, Go
  <2>2. x.pc # "missing"
    BY <1>2 DEF PollIngests, PollResolves
  <2>3. QED BY <1>1, <2>1, <2>2 DEF Task, PollReadsMissing
<1>3. CASE PollReadsMissing
  <2>1. \/ tasks' = [ tasks EXCEPT !["poll"] = [ x EXCEPT !.pc = "applyMissing" ] ]
        \/ tasks' = [ tasks EXCEPT !["poll"] = [ x EXCEPT !.pc = "resolve", !.answer = Resolutions(Missing(x)) ] ]
    BY <1>3 DEF PollReadsMissing, Go, Missing, Resolutions
  <2>2. ~PollIngests /\ ~PollResolves
    BY <1>3 DEF PollReadsMissing, PollIngests, PollResolves
  <2>3. PICK y : /\ tasks' = [ tasks EXCEPT !["poll"] = y ]
                 /\ \/ y = [ x EXCEPT !.pc = "applyMissing" ]
                    \/ y = [ x EXCEPT !.pc = "resolve", !.answer = Resolutions(Missing(x)) ]
    BY <2>1
  <2>4. y.todo = x.todo
    BY <1>1, <2>3 DEF Task
  <2>5. tasks'["poll"] = y /\ \A u \in Names \ {"poll"} : tasks'[u] = tasks[u]
    BY <1>1, <2>3
  <2>6. QED BY <2>2, <2>4, <2>5
<1>4. QED BY <1>2, <1>3

LEMMA BeginnersShown ==
  ASSUME Typed, Typed', CardsInStep, Straight, ~overlapped',
         PollLists \/ SyncListsSilences \/ \E m \in mail : Receive(m)
  PROVE  Alone' /\ Handed' /\ Shown'
<1>1. Alone /\ Handed /\ Shown
  BY DEF CardsInStep
<1>2. CASE PollLists
  <2> DEFINE y == [ Idle EXCEPT !.pc = "ingest", !.started = clock + 1, !.answer = Listing ]
  <2>1. y \in Task /\ y.todo = {}
    <3>1. clock + 1 \in Nat /\ Listing \in Answers
      BY ListingOK DEF Typed, ClocksOK, TruthfulAnswer
    <3>2. QED BY <3>1 DEF Idle, Task
  <2>2. Begin("poll", y) /\ tasks["poll"].pc = "idle" /\ UNCHANGED <<rows, card>>
    BY <1>2 DEF PollLists, store
  <2> HIDE DEF y
  <2>3. tasks'["poll"] = y /\ \A u \in Names \ {"poll"} : tasks[u].pc = "idle" /\ tasks'[u] = tasks[u]
    BY <2>1, <2>2, BeginsAlone DEF Names
  <2>4. tasks["poll"].todo = {}
    BY <1>1, <2>2 DEF Handed, Names
  <2>5. \A u \in Names : tasks'[u].todo = tasks[u].todo
    BY <2>1, <2>3, <2>4
  <2>6. QED BY <1>1, <2>1, <2>2, <2>3, <2>5, ShownKept, BegunAlone DEF Names
<1>3. CASE SyncListsSilences
  <2> DEFINE snap == { <<s, silences[s]>> : s \in Silences }
             y == [ Idle EXCEPT !.pc = "alerts", !.snapshot = snap ]
  <2>1. snap \subseteq Silences \X Lifecycle
    BY DEF Typed, WorldOK
  <2>2. Begin("sync", y) /\ tasks["sync"].pc = "idle" /\ UNCHANGED <<rows, card>>
    BY <1>3 DEF SyncListsSilences, store
  <2> HIDE DEF snap
  <2>3. y \in Task /\ y.todo = {}
    BY <2>1 DEF Idle, Task
  <2> HIDE DEF y
  <2>4. tasks'["sync"] = y /\ \A u \in Names \ {"sync"} : tasks[u].pc = "idle" /\ tasks'[u] = tasks[u]
    BY <2>2, <2>3, BeginsAlone DEF Names
  <2>5. tasks["sync"].todo = {}
    BY <1>1, <2>2 DEF Handed, Names
  <2>6. \A u \in Names : tasks'[u].todo = tasks[u].todo
    BY <2>3, <2>4, <2>5
  <2>7. QED BY <1>1, <2>2, <2>3, <2>4, <2>6, ShownKept, BegunAlone DEF Names
<1>4. ASSUME NEW m \in mail, Receive(m) PROVE Alone' /\ Handed' /\ Shown'
  <2> DEFINE batch == [ f \in {m[1]} |-> Alert_(m[2], {}, FALSE) ]
             y == [ Idle EXCEPT !.pc = "apply", !.todo = Deltas(batch) ]
  <2>1. /\ Begin("webhook", y) /\ tasks["webhook"].pc = "idle"
        /\ rows' = Ingest(batch, clock) /\ card' = card
    BY <1>4 DEF Receive
  <2>2. batch \in Answers /\ clock \in Nat
    BY WebhookOK DEF Typed, WorldOK, TruthfulAnswer, ClocksOK
  <2> HIDE DEF batch
  <2>3. y \in Task /\ y.pc = "apply" /\ y.todo = Deltas(batch)
    BY <2>2, DeltasOK DEF Idle, Task
  <2> HIDE DEF y
  <2>4. tasks'["webhook"] = y /\ \A u \in Names \ {"webhook"} : tasks[u].pc = "idle" /\ tasks'[u] = tasks[u]
    BY <2>1, <2>3, BeginsAlone DEF Names
  <2>5. Pending = {}
    BY <1>1, <2>1, <2>4, HeldAlone DEF Names
  <2>6. Alone' /\ Handed' /\ \A u \in Names \ {"webhook"} : tasks'[u].todo = {}
    BY <1>1, <2>3, <2>4, BegunAlone DEF Names
  <2>7. Pending' = Deltas(batch)
    BY <2>3, <2>4, <2>6, PendingOne DEF Names
  <2>8. QED BY <1>1, <2>1, <2>2, <2>5, <2>6, <2>7, WriteShown
<1>5. QED BY <1>2, <1>3, <1>4

LEMMA MoversShown ==
  ASSUME Typed, NobodyInhibits, CardsInStep, Straight,
         PollIngests \/ PollReadsMissing \/ PollResolves \/ SyncListsAlerts \/ SyncWrites
  PROVE  Alone' /\ Handed' /\ Shown'
<1>1. Alone /\ Handed /\ Shown
  BY DEF CardsInStep
<1> DEFINE x == tasks["poll"]
           y == tasks["sync"]
<1>2. /\ x \in Task /\ y \in Task /\ tasks \in [ Names -> Task ]
      /\ "poll" \in Names /\ "sync" \in Names
  BY DEF Typed, TasksOK, Names
<1>3. CASE PollIngests \/ PollResolves
  <2>1. /\ x.pc \in {"ingest", "resolve"} /\ x.answer \in Answers /\ x.started \in Nat
        /\ rows' = Ingest(x.answer, x.started) /\ card' = card
    BY <1>2, <1>3 DEF PollIngests, PollResolves, Typed, TasksOK, TruthfulAnswer, Task
  <2>2. /\ \A u \in Names \ {"poll"} : tasks'[u] = tasks[u]
        /\ tasks'["poll"].todo = Deltas(x.answer) /\ tasks'["poll"].pc \in {"apply", "applyMissing"}
    BY <1>3, PollMoves
  <2>3. /\ Alone' /\ Handed'
        /\ \A u \in Names \ {"poll"} : tasks[u].pc = "idle" /\ tasks'[u].todo = {}
    BY <1>1, <1>2, <2>1, <2>2, MovesAlone
  <2>4. Pending = {}
    BY <1>1, <1>2, <2>1, <2>3, HeldAlone
  <2>5. Pending' = Deltas(x.answer)
    BY <1>2, <2>2, <2>3, PendingOne
  <2>6. QED BY <1>1, <2>1, <2>3, <2>4, <2>5, WriteShown
<1>4. CASE PollReadsMissing
  <2>1. x.pc = "missing" /\ UNCHANGED <<rows, card>>
    BY <1>4 DEF PollReadsMissing, store
  <2>2. (\A u \in Names \ {"poll"} : tasks'[u] = tasks[u]) /\ tasks'["poll"].todo = x.todo
    BY <1>4, PollMoves
  <2>3. x.todo = {}
    BY <1>1, <1>2, <2>1 DEF Handed
  <2>4. Alone' /\ Handed'
    BY <1>1, <1>2, <2>1, <2>2, <2>3, MovesAlone
  <2>5. QED BY <1>1, <2>1, <2>2, <2>4, ShownKept
<1>5. CASE SyncListsAlerts
  <2>1. /\ y.pc = "alerts" /\ UNCHANGED <<rows, card>>
        /\ tasks' = [ tasks EXCEPT !["sync"] = [ y EXCEPT !.pc = "write", !.answer = Listing ] ]
    BY <1>5 DEF SyncListsAlerts, Go, store
  <2>2. (\A u \in Names \ {"sync"} : tasks'[u] = tasks[u]) /\ tasks'["sync"].todo = y.todo
    BY <1>2, <2>1 DEF Task
  <2>3. y.todo = {}
    BY <1>1, <1>2, <2>1 DEF Handed
  <2>4. Alone' /\ Handed'
    BY <1>1, <1>2, <2>1, <2>2, <2>3, MovesAlone
  <2>5. QED BY <1>1, <2>1, <2>2, <2>4, ShownKept
<1>6. CASE SyncWrites
  <2>1. /\ y.pc = "write"
        /\ \E d : tasks' = [ tasks EXCEPT !["sync"] = [ Idle EXCEPT !.pc = "apply", !.todo = d ] ]
    BY <1>6 DEF SyncWrites, Go
  <2>2. (\A u \in Names \ {"sync"} : tasks'[u] = tasks[u]) /\ tasks'["sync"].pc = "apply"
    BY <1>2, <2>1 DEF Idle
  <2>3. /\ Alone' /\ Handed'
        /\ \A u \in Names \ {"sync"} : tasks[u].pc = "idle" /\ tasks'[u].todo = {}
    BY <1>1, <1>2, <2>1, <2>2, MovesAlone
  <2>4. Pending = {}
    BY <1>1, <1>2, <2>1, <2>3, HeldAlone
  <2>5. Pending' = tasks'["sync"].todo
    BY <1>2, <2>3, PendingOne
  <2>6. QED BY <1>1, <1>6, <2>3, <2>4, <2>5, SyncShown DEF Straight
<1>7. QED BY <1>3, <1>4, <1>5, <1>6

LEMMA ApplyShown ==
  ASSUME Typed, CardsInStep, Straight, NEW t \in Names, Apply(t)
  PROVE  Alone' /\ Handed' /\ Shown'
<1>1. Alone /\ Handed /\ Shown
  BY DEF CardsInStep
<1>2. /\ tasks[t] \in Task /\ tasks[t].pc \in {"apply", "applyMissing"} /\ rows' = rows
      /\ \A u \in Names \ {t} : tasks'[u] = tasks[u]
  BY ApplyEffect DEF Typed, TasksOK
<1>3. CASE AppliesOne(t)
  <2>1. PICK d \in tasks[t].todo :
          /\ card' = [ card EXCEPT ![d.fp] = Redrawn(@, d) ]
          /\ tasks'[t] = [ tasks[t] EXCEPT !.todo = @ \ {d} ]
    BY <1>3 DEF AppliesOne
  <2>2. tasks'[t].pc = tasks[t].pc /\ tasks'[t].todo = tasks[t].todo \ {d}
    BY <1>2, <2>1 DEF Task
  <2>3. /\ Alone' /\ Handed'
        /\ \A u \in Names \ {t} : tasks[u].todo = {} /\ tasks'[u].todo = {}
    BY <1>1, <1>2, <2>2, MovesAlone
  <2>4. Pending = tasks[t].todo
    BY <2>3 DEF Pending
  <2>5. Pending' = Pending \ {d}
    BY <2>2, <2>3, <2>4, PendingOne
  <2>6. QED BY <1>1, <1>2, <2>1, <2>3, <2>4, <2>5, RedrawShown
<1>4. CASE (t = "poll" /\ (PollGoesOn \/ PollEnds)) \/ TaskEnds(t)
  <2>1. card' = card /\ tasks[t].todo = {} /\ tasks'[t].todo = {}
    BY <1>2, <1>4 DEF PollGoesOn, PollEnds, TaskEnds, Idle, Task
  <2>2. Alone' /\ Handed'
    BY <1>1, <1>2, <2>1, MovesAlone
  <2>3. QED BY <1>1, <1>2, <2>1, <2>2, ShownKept
<1>5. QED BY <1>3, <1>4, ApplyEffect DEF Typed

LEMMA NextInStep ==
  ASSUME Typed, Within, NobodyInhibits, CardsInStep, [Next]_vars
  PROVE  CardsInStep'
<1> SUFFICES ASSUME Straight'
             PROVE  Alone' /\ Handed' /\ Shown'
  BY DEF CardsInStep
<1>1. Typed' /\ Straight /\ ~Spend("faults") /\ ~Spend("restarts") /\ ~overlapped'
  <2>1. ASSUME NEW t \in Names, Apply(t) PROVE overlapped' = overlapped
    BY <2>1, ApplyEffect DEF Typed
  <2>2. \A t, y : Begin(t, y) /\ overlapped => overlapped'
    BY DEF Begin
  <2>3. overlapped => overlapped'
    BY <2>1, <2>2, StepKinds
    DEF Unseen, Outer, Receive, PollLists, PollIngests, PollIngestFails, PollReadsMissing, PollResolves,
        PollResolveFails, SyncListsSilences, SyncListsAlerts, SyncWrites, SyncFails, ApplyFails, Restart, Go
  <2>4. QED BY <2>3, NextTyped, Spends DEF Straight, Sources
<1>2. /\ ~PollIngestFails /\ ~PollResolveFails /\ ~SyncFails /\ ~Restart
      /\ \A t \in Names : ~ApplyFails(t)
  BY <1>1 DEF PollIngestFails, PollResolveFails, SyncFails, ApplyFails, Restart
<1>3. CASE Unseen \/ Outer
  <2>1. UNCHANGED <<rows, card, tasks>>
    BY <1>3 DEF Unseen, Outer
  <2>2. QED BY <1>1, <2>1 DEF CardsInStep, Alone, Handed, Shown, Pending
<1>4. QED BY <1>1, <1>2, <1>3, BeginnersShown, MoversShown, ApplyShown, StepKinds

(* As long as one task at a time is under way and nothing fails or is      *)
(* inhibited, every card shows where its alert stands whenever all of them *)
(* are idle.                                                               *)
THEOREM CardsFollowRows == Spec => []CardFollowsRow
<1> DEFINE CardsInv == Typed /\ Within /\ NobodyInhibits /\ CardsInStep
<1>1. Init => CardsInv
  <2> SUFFICES ASSUME Init PROVE CardsInv
    OBVIOUS
  <2>1. Within
    BY ReconcilerAssumption DEF Init, Within
  <2>2. \A t \in Names : tasks[t].pc = "idle" /\ tasks[t].todo = {}
    BY DEF Init, Idle
  <2>3. (\A f \in Fps : card[f] \in Wanted(rows[f])) /\ NobodyInhibits
    BY <2>2 DEF Init, Wanted, NobodyInhibits, Names
  <2>4. CardsInStep
    BY <2>2, <2>3 DEF CardsInStep, Alone, Handed, Shown, Pending
  <2>5. QED BY <2>1, <2>3, <2>4, InitTyped
<1>2. CardsInv /\ [Next]_vars => CardsInv'
  BY NextTyped, Spends, NextUninhibited, NextInStep
<1>3. CardsInv => CardFollowsRow
  <2> SUFFICES ASSUME CardsInv, Settled, Straight, NEW f \in Fps
               PROVE  card[f] \in Wanted(rows[f])
    BY DEF CardFollowsRow, Straight, Unspent
  <2>1. Pending = {}
    BY DEF CardsInStep, Handed, Settled, Pending
  <2>2. QED BY <2>1 DEF CardsInStep, Shown
<1>4. QED BY <1>1, <1>2, <1>3, PTL DEF Spec
=============================================================================

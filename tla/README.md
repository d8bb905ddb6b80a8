# A formal model of discord-alertmanager

discord-alertmanager receives alerts from a Prometheus Alertmanager, keeps them
in a database (SQLite or PostgreSQL), decides for each configured route whether
a Discord message, a *card*, has to be posted or changed, and carries that out
through a queue of side effects. Everything hard about it sits between these
steps: webhooks, polls, silence syncs, buttons, commands and dispatcher workers
all run at once, each reads state before an `await` and acts after it, Discord
and Alertmanager fail, and the process may die anywhere.

Paths below are relative to `src/crates/`, and `store/`, `runtime/`, ... stand
for `discord-alertmanager-store/src/` and so on. The SQLite and the PostgreSQL
store are line by line counterparts except where the text says otherwise.

## 1. Inventory

| Component | State | Operations | Correct when | Modules |
|---|---|---|---|---|
| outbox queue (`store/outbox.rs`, `store-*/store/outbox.rs`) | table `outbox`: effect, lane, due time, attempts, claim | enqueue (folding an edit into a queued one), claim a batch of a lane, complete, fail, reclaim | an effect asked for is carried out, dropped or superseded, never lost; only the holder of a claim settles it (SQLite; PostgreSQL keeps less, section 5); one card's effects are with one worker | `OutboxQueue`, `Outbox`, `DurableEffects` |
| dispatcher (`runtime/dispatch.rs`) | a worker's batch, its current item and its outcome | claim, carry out in order, judge, retry, bury, give way; each effect's reads, calls and write-back | every effect is settled in the end; the message is that of the card once nothing is queued, unless an effect was dropped for good | `Outbox`, `Delivery` |
| alert identity (`core/identity.rs`) | none (pure) | `identity_of` | alerts that differ in ignored labels only share a card | `Cards`, `Storm`, `Lookup` |
| alert state machine (`core/state.rs`) | none (pure) | `next_state`, `initial_state`, `is_open` | the transitions of a card | `CardState` |
| alerts store (`store/alerts.rs`, `store/logic.rs`) | table `alerts`, silences | `ingest_batch` (with `classify`), siblings, `firing_not_in`, `sync_silences` | a change yields one delta, a redelivery none | `CardState`, `Cards`, `Reconciler` |
| notifications store (`store-*/store/notifications.rs`) | table `notifications` under a unique (channel, key); acknowledgements | `apply_decision`, `notification_for`, orphan, acknowledge, revoke, replies, `mark_escalated` | one live card per route and key | `Cards`, `Answering`, `Escalation` |
| pipeline (`runtime/service.rs`) | a task's place in `apply_deltas`; poll clocks | ingest, apply, reconcile, sync silences, escalate, deadman, reclaim, prune | cards agree with alerts whatever is lost or reordered | `Cards`, `Reconciler`, `Escalation`, `AdminChannel`, `Listener` |
| decision engine (`engine/decide.rs`) | none (pure) | `decide`, `update_for`, `creation_for`, `still_firing`, `dedupe_keys`, `forum_effects` | creation, update, merged resolution, replacement | `Cards`, `Delivery`, `Storm`, `Routing` |
| storm counter (`engine/storm.rs`) | arrivals per route | observe, snapshot | a storming route digests, and its cards still follow their alerts | `Storm` |
| routing (`engine/routing.rs`, `store/routing.rs`) | routes, ignore rules, subscriptions, a published snapshot | resolve, sync the file, commands, reload | first match wins; the snapshot is the table | `Matching`, `Routing` |
| administrative channel (`runtime/admin.rs`) | notices said by this process | `say`, `say_once`, `forget`; deadman | one notice per condition | `AdminChannel` |
| webhook listener (`ingest/`), start and stop (`discord-alertmanager/src/main.rs`, `runtime/tasks.rs`) | requests under way, phase, tasks | authenticate, parse, time out, answer; start, drain, join | no change is answered 200 and dropped, but by a conflict; a stop ends | `Listener` |
| Alertmanager client (`am/`) | endpoints | query, upsert and expire silences, retry, failover | what somebody was told is done | `Silencing` |
| bot (`discord/`) | none beyond the store | take, release, hand over, reply, silence, extend, expire, `/route`, `/ignore`, `/subscribe`, `/alerts list` | the holder is not lost; the trail tells the truth; a list shows what was asked for | `Answering`, `Silencing`, `Routing`, `Lookup` |
| Discord sink (`discord/sink.rs`) | Discord's own | post, edit, thread, pin, flags, tags | | the answers in `Delivery` |
| retention (`store-*/store/audit.rs`) | all tables | prune | nothing still needed goes | `Escalation` |
| explain (`engine/explain.rs`) | none | why two cards are two | always has a reason | `Storm` |

The components interact through the database alone, with these exceptions: the
routing snapshot, the storm state and what the administrative channel has said
live in the process, and the gateway flag and poll clocks are atomics. The
webhook, the reconciler and the silence sync all end in `apply_deltas`;
`apply_decision` writes cards and queues their effects in one transaction; the
dispatcher reads the card again when it carries an effect out, and its
completion writes the message id, the hash and the tags back in the transaction
that removes the row. Buttons write cards directly and queue an edit.

The behaviours that are hard are listed, each at its line and with the
properties that would catch it, under `hazards` in `PROJECT.json`.

## 2. Modules

`...Proofs` hold the theorems about the module each is named for (`CardsProofs`:
`Escalation` too; `PeripheryProofs`: `AdminChannel`, `Listener` and `Storm`;
`CommandsProofs`: `Silencing` and `Answering`); `MC...` are the instances TLC checks.
Every other module models a component, cut at the tables where the code is cut: what
one module does step by step another takes as one step, and says so in its header.

| A step in | is spelled out in |
|---|---|
| `Cards`: `Post`, `Orphan` (what the dispatcher writes back) | `Delivery` |
| `Delivery`: the claim of a batch, one worker at a time | `Outbox` (`OneWorkerPerCard`) |
| `Reconciler`, `Routing`, `Storm`: a decision and its transaction | `Cards` |
| `Escalation`: the effect in the queue, a claim, a lease that lapses | `Outbox` |
| `Silencing`: the effect in the queue | `Outbox`, whose lanes only restrict it |
| `Listener`: `Apply` | `Cards` |

### Outbox

| Variable or action | Code |
|---|---|
| `rows` | table `outbox`; `claimedAt` and `notBefore` are ages relative to now, so `Tick` moves every row instead of a clock (`Elapse`) and saturates at `Horizon` and `Overdue` |
| `held`, `current`, `verdict`, `pc` | the locals of `Dispatcher::run` and `handle`: the claimed items, the one in hand, and between which two awaits the worker stands |
| `Ask` | `enqueue_effects`, or the effects of a decision or a command |
| `TakeBatch` | `claim_outbox`, whose `LIMIT`, order and lane test are `Batch` |
| `Apply` | `Dispatcher::apply`: the effect happens and one of its outcomes is chosen |
| `Report` | the route-health notice (`report_route_health`, once per process) |
| `Settle`, `CheckClaim`, `WriteOutcome` | `complete_outbox` and `fail_outbox`: one step in SQLite, whose writer is alone; check and write apart in PostgreSQL, which reads without a lock at read committed |
| `GiveWay` | `StoreError::LeaseLost` |
| `ClaimUnheard` | a claim whose answer is lost (PostgreSQL only, over a connection) |
| `Reclaim` | the janitor, `reclaim_leases` |
| `Crash` | the process dies: its workers forget, the table stays |

A request is a number; it stands for the payload and links a row to what
happened to it. `performed`, `settled` and `about` are history, read by
properties only. An effect that is folded takes the row of the older request,
which is then superseded.

### Cards

| Variable or action | Code |
|---|---|
| `alerts` | table `alerts`, an alert being its status, whether it is suppressed, and a text that stands for all else a card shows |
| `cards` | table `notifications`; `<<route, number>>` is the id, `key` the dedupe key, `resolvedAt` whether the resolution is inside or outside the regroup window, `message` whether Discord holds the card |
| `acks`, `muted` | acknowledgements not revoked; routes covered by an ignore rule |
| `Deliver` | `ingest_batch`: one transaction, whatever the source |
| `NextDelta`, `ReadCard`, `ReadAck`, `ReadSiblings`, `Apply` | one iteration of `apply_deltas`, each await a step; `decide` is pure and part of `Apply`, which is `apply_decision` |
| `Fail` | the request times out, a query fails or the process dies |
| `Acknowledge`, `Revoke` | the store's commands of that name |
| `ToggleIgnore` | an ignore rule added, revoked or run out |
| `Post`, `Orphan` | what the dispatcher writes back: a message was posted, or found deleted |
| `Outlive` | the regroup window of a resolved card passes |

Every route groups per alert and is not storming, so the key is the alert's
identity; all routes want every alert; whether a resolved card is outlived is
fixed when the card is read, as if the clock were read there; rows are not
pruned; a dead process is several `Fail`s.

### Delivery

| Variable or action | Code |
|---|---|
| `row` | the card's row in `notifications`: state, posted, hash, applied tags, archived, pinned |
| `plan`, `Deliver`, `ApplyDecision` | `apply_deltas` between its reads and its transaction, then `update_for`: the edit, the tags, flags, pin and notes it plans, in order and with the delays the route gives them |
| `queue`, `batch` | the outbox in claim order and what a worker claimed of it, with the folding of `enqueue` |
| `doing`, `ReadRow` | what `assemble` read for the effect in hand |
| `PostCard`, `EditCard`, `ResyncCard`, `SetTags`, `ThreadNote`, `SetPostFlags`, `SetPostPinned`, `DisableComponents` | the arms of `Dispatcher::apply`, with the early returns for a card whose hash is unchanged or that has no message yet |
| `CallFails`, `CallRefused` | `Failure::Retry` below `MAX_ATTEMPTS`; `Blocked`, `Drop` and the last attempt, after which the effect is gone. `HalfDone` says what an effect of several calls leaves at Discord |
| `LabelTagged`, `RefreshFails` | `create_label_tags`, either half of which may fail; `resync_forum_tags` failing, after which the unknown tag is final |
| `AnswerLost`, `Settle` | an answer that did not arrive; `complete_outbox` with `apply_to_card`, or `fail_outbox` |
| `post`, `labelTag`, `IdleArchive`, `DeleteTag`, `DeleteMessage` | Discord: the message, its thread and the forum's tags, and what becomes of them without the bot |

The hash of a card is what it was rendered from, the texts of a note are left
out. A forum route that seals its posts, one that leaves them open and a text
route are three values of `policy`.

### Reconciler

| Variable or action | Code |
|---|---|
| `am`, `silences`, `inhibited`, `Shift`, `Silence`, `Expire`, `Inhibit` | Alertmanager (external) |
| `Notify`, `Lose`, `Receive` | webhooks sent, lost, and handled in any order |
| `PollLists`, `PollIngests`, `PollReadsMissing`, `PollResolves` | `reconcile` and `resolve_missing`, with the cutoff of the poll before |
| `SyncListsSilences`, `SyncListsAlerts`, `SyncWrites` | `sync_silences` of the pipeline and of the store |
| `Apply`, `ApplyFails` | `apply_deltas` for one alert |
| `Restart` | the process dies and starts: no poll before |

Time is counted in polls. A card is its state alone.

### Escalation, AdminChannel

`Escalation`: `table` holds the cards with their age and their claim (`escalated_at`);
`SweepReads`, `SweepPasses`, `SweepClaims`, `SweepEnqueues` and `SweepFails` are
`escalate` await by await (`pending_escalations`, the test of the deadline,
`mark_escalated`, `enqueue_effects`). Of the dispatcher, `Dispatch` is the claim and
its last look at the card, `Mention` the call, `Complete` the row removed after it;
between them `LeaseLapses` (the worker stopped, or is slow and still makes its call,
`LateMention`), `CallRefused` and `AnswerLost` may come. `again` (history) counts how
often an effect went back after its call may have been made. `Move` is any
transition of a card by a decision (`move_state`), `Prune` the retention pass.

`AdminChannel`: `said` is the process's set of keys, `saying` a reporter between
the set and the queue, `since` (history) the notices of the condition that lasts
now. `SayOnce`, `Forget`, `CheckDeadman`, `ReportRoute`, `SayFails` are the
functions of those names.

### Listener

A request goes `Send`, `Refuse` or `Store` (`ingest_batch`), `Apply` or `Conflict`
alert by alert (a conflict is logged and the loop goes on), `Accept`; or `Timeout`,
`StoreFails`, `ApplyFails`. `beaten` (history) are the alerts whose last decision met
a conflict. The process is
`phase`: `Start`, `Signal`, `Drained`, `Ended`, `Stop`, `StartAgain`; each periodic
task begins, finishes and ends on the token. An alert is the number of its last
change.

### Storm

`Observe`, `Snapshot`, `DedupeKeys`, `Plan`, `Retire`, `Decide` and `Explain`
are `storm.rs`, `dedupe_keys`, the part of `decide` that chooses a card, and
`explain_separation`. A batch is one step; its alerts are decided one by one
(`todo`), each on the routes "own" and "rolling" in one transaction (`Written` is
the table after it). `Orphan` is a message found deleted, `Repolicy` a restart
with another identity policy.

### Matching, Routing

`Matching` holds matchers, the severity read from labels and `resolve` as
operators and folds, with `FirstMatch` the declarative reference. A pattern is
the set of values it matches. `Routing` adds the three tables, the file that is
synced at start, whose routes may be declared off (`SyncRoute`, `DisableMissing`,
`LoadInitial`), the commands
(`AddRoute`, `RemoveRoute`, `AddIgnore`, `RevokeIgnore`, `Subscribe`,
`Unsubscribe`, `AdoptTags`), the reload each ends with, its reads apart
(`LoadRoutes`, `LoadRules`, `LoadSubs`, `Publish`, `LoadFails`), and the cards a
change asks for (`Deliver`).

### Lookup

`/alerts list` over a table that deliveries write: `Query` is `query_alerts`, with
`Selected` the part of the filter SQL evaluates, `Scanned` the part evaluated in
memory, `Listed` the order (an alert's place is the number of those that come first,
`ComesFirst`) and `Taken` a page; `List`, `PressNext` and `PressPrevious` are the
command and its buttons, which carry the filter and an offset and leave `Answered` on
screen; `view` is a list somebody looks at. `Arrive` and `Acknowledge` are what a list
can see of the pipeline and the buttons. `Wanted` is the declarative reference, by the
words of the options.

### Silencing, Answering

`Silencing`: `callers` are the dispatchers and the desks where somebody issues a
command; `Attempt` is one request of the client to one peer, with every answer
it may get and what the peer did whether or not the answer arrives; `Gossip`
spreads a silence; `QueueSilence`, `QueueExpiry`, `LookUp`, `Audit` are the
command's steps, `Take`, `Record`, `Reclaim`, `Overrun`, `Crash` the queue's,
`Sync` the row update of the silence sync.

`Answering`: `held` is the acknowledgement, `cards` the cards' states;
`TakeAlert`, `Release`, `Handover` then `Give`, `Reply` and `Cut` are the
interactions, `ReRender` the edit that follows, `ReadCard`, `ReadHolder`,
`Deliver`, `DeliverFails` (tried again), `DeliverGivenUp` (blocked, final, or the last
attempt) and `CompletionLost` the dispatcher's edit. `behind` and `unsure` (history)
are the cards with an edit, or a completion, that was lost.

### Compositions

`Outbox` is shown to implement `DurableEffects` on SQLite (`EffectsAreDurable`).
`MCReplicas` bounds its PostgreSQL instance (`FoldedOrShared`): two replicas and one
edit, or two edits and a second replica that has been down all along, of which its
fairness then asks nothing.
`Delivery`, `Reconciler`, `Routing` and `Storm` use `CardState`, and so share
one transition function with `Cards`; `Routing` and `Lookup` use `Matching`. `MCRouting`,
`MCPeriphery`, `MCCommands` and `MCRaces` put machines that share no state into one
run each: a behaviour is one of one of them (`part`), the others stay as they began.
`Listener`, `Storm`, `Escalation`, `Answering` and `Lookup` are extended there beside
another machine, hence the names of their own (`ListenerInit`, `LookupNext`).

## 3. Runs

`CHECK_DEADLOCK FALSE` everywhere: what the environment delivers and asks is
bounded, and a system with nothing to do waits. TLC explores each space completely;
two runs bound theirs by a `CONSTRAINT` as well (`FoldedOrShared`, `OneChange`), which
no theorem has.

| Run | Question | Bounds |
|---|---|---|
| `outbox_lanes` | Do two workers of a process ever meet on one card; does a late worker ever settle a row that is no longer its own; is a request ever lost, with folding, crashes and reclaims? | SQLite, 2 workers with a lane each, 2 cards, 2 edits and the notices they cause, 1 fault, batches of 2 |
| `outbox_postgres` | What may be lost when claim check and write are apart and claims go unheard; is every request settled in the end? | 2 replicas and 1 edit, or 1 replica and 2 edits that may fold (`FoldedOrShared`), and the notices they cause; 2 attempts, 1 fault; leases that may lapse at once (`ReclaimAge` 0) |
| `cards` | Does a route ever have two open cards for one identity, a merged card resolve before or after its last alert; does the next applied change set a card right after others were lost; does a re-fire keep an acknowledgement it read? | 2 merged alerts, one task, 3 deliveries of either or both, 2 clicks, 1 each of failure, rule change and deletion |
| `races` | Does a firing change always leave a card that stands for it, when two tasks race, one may fail and the message may be deleted; is one mention of a card ever queued, made again only when it may not have been made, and is each card reached in the end? | 2 tasks, 1 alert, 4 deliveries, 1 failure, 1 deletion; 2 sweeps with a batch of 1, 3 cards on routes with deadlines 1, 2 and none, hours 0 to 2, 1 state change, 1 fault |
| `delivery` | Once nothing is queued, is the message that of the card, a live post open, a resolved one let go, a tag the card's? | 3 routes; 2 deliveries, each changing one thing of the alert unless it fires again (`OneChange`), and one each of acknowledgement, resync or mention, call that fails, call refused for good, crash, idle archive, deleted tag, deleted message, one of these in a behaviour, and a failed refresh of the tags besides; retries after 2 ticks, one tick of debounce |
| `reconciler` | Does the alerts table come back to what Alertmanager holds, and no alert resolve while it fires; do the cards follow while nothing fails? | 1 alert, 2 silences, 5 polls, any number of syncs, 4 disturbances (2 changes of the alert, 2 of silences, 1 inhibition, 1 webhook, 1 fault, 1 restart) |
| `routing` | Do commands, reloads, lapses and a restart with another file leave first matches, and the table published; are the pages of a list what its filter asks for? | 2 guilds, 3 files (one of routes declared off), 2 commands by 2 handlers, 1 rule per scope, 2 subscriptions, 2 alerts, 2 changes, 1 restart; 7 filters over 3 alerts of 2 identities, 3 deliveries, pages of 1 or 2, a scan of 2 |
| `commands` | Does what somebody was told come true; do rows, trail and card agree with Alertmanager and with the holder? | 2 peers, 2 dispatchers, 1 ask, 2 acts, 1 upset, 3 tries in 2 rounds; 2 people, 1 card, 3 interactions, 2 mishaps |
| `periphery` | Is a notice said once; is a change lost behind a 200; does a stop end; does a card follow its alert through a storm; does `/debug` have a reason? | 2 workers and a poll, 3 conditions, 5 ticks; 2 requests, 2 alerts, 2 mishaps; 3 batches of 2 alerts, thresholds 3 and 2, 1 upset |
| `viol_converge`, `viol_silences`, `viol_conflict` | see below | as `reconciler` with 1 change and 1 restart; as `commands`; as `periphery` with 5 batches, a digest window of 4 and a regroup window of 0 |

Why these are enough. A row needs one reclaim and one late answer to break the fence,
and a fold needs two asks, the second finding the row unclaimed or claimed. The loss
on PostgreSQL needs a claim checked, the lease taken back and a fold before the write,
which one host, two asks and one slow worker give. A card needs fire, resolve, fire and one
more change to be replaced or re-armed (`races` has these), three to be merged and
resolved, and two tasks to race. In `delivery` an effect is planned by one change and
overtaken by the next, which two deliveries give; a third would find the queue as the
second did. `reconciler` needs one disturbance in each of the three polls the two-poll
rule looks at, and three quiet ones after it. `MentionedOnce` needs two sweeps that
read one card before either claims it; a third sweep finds what the second does. A
batch of one is full with the one card every sweep passes over, and with three cards
it must be gone through more than once. One change of state is enough to answer a card
between any two steps, not to answer it and have it fire again; `OneMention` covers
that, and `cards` has the re-fires. `Retained` is 1 in the instance and 4 in the code,
so that the cap on arrivals is reached. In `routing`, a reload overtakes another with
two handlers, and each file changes, drops and adopts a route. A silence reaches its
peers in one round or needs the second; `ToldIsDone` needs fewer upsets than tries.
Time constants matter by their order only (`ReclaimAge < Horizon`, quick before slow,
`Regroup + 1 >= DigestWindow`).

### Fairness

Nothing is assumed of people, of Alertmanager's alerts, or of Discord: an answer
is part of the step that makes the call, since every call has a timeout.

- `Outbox!Fairness`: a worker that can take a step takes it, the janitor's
  interval ends, time passes. Workers loop without conditions, tokio runs them
  all, and the janitor is a ticker. Faults are bounded, so the property says:
  when processes stop dying, every request settles.
- `EscalationFairness`: time passes, a sweep goes on (a ticker, then awaits
  with timeouts), and a worker claims, calls and completes, which is what
  `EveryRequestSettles` shows of the queue.
- `Silencing!Fairness`: a dispatcher goes on, and a claim is reclaimed. None for
  people and none for gossip.
- `Listener!Fairness`: the drain ends (requests are done or the deadline
  passes), a task's work ends, and the join goes on. A task ends with strong
  fairness: its loop `select`s between the ticker and the token, and when both
  are ready either may be taken, but not the ticker for ever.

### Runs that find a disagreement

| Run | Sentence | What happens |
|---|---|---|
| `viol_converge` | the reconciler "is what makes the bot converge after a restart or a partition" (`config.example.toml:321-325`) | the table converges (`RowsConverge`), the cards do not: `ingest_batch` commits before `apply_deltas` decides, and a process that stops between loses the decision for good, because every later poll finds the row as it should be |
| `viol_conflict` | "Another worker created the same card first ... the winner's row is there, and the next change edits it" (`runtime/service.rs:184`) | there need be no other worker: with a regroup window shorter than the storm window, an alert that fires again in a storm, its own card and the digest card both outlived, is planned a digest card in place of its own card; the digest's key is still held, the insert conflicts, and the whole decision is dropped |
| `viol_silences` | "A retry therefore looks for the silence the previous attempt recorded and sets `id`" (`engine/ports/alertmanager.rs:69-71`) | nothing writes the id back to the effect, so a lost answer leaves two silences of one ask |

## 4. Proofs

`OutboxProofs`, for every value of the constants that satisfies
`OutboxAssumption`:

- `TypeCorrect`: `Spec => []TypeOK`.
- `OneCardOneWorker`: where the lanes of all workers are distinct
  (`LanesUnique`: one process), no two workers have items of one card.
- `SettlementIsFenced`: on SQLite, with distinct worker names (`NamesUnique`),
  a row is settled by the worker that holds its claim only.
- `OutboxKeepsPromise`: under the same two assumptions `Outbox` implements
  `DurableEffects`.
- `OnlyFoldedIsLost`: on either backend, with distinct worker names, what a verdict
  settles is what its worker carried out, except an edit folded into the row of an
  older one after the claim on that row was taken back (`OnlyOvertakenIsLost`).

The assumptions are not idle. Two replicas each take every lane, so
`LanesUnique` fails for them and two may be on one card, whatever `main.rs` says
of two workers never editing one card. A name is `<pid>-<index>`, and replicas
in containers are all process 1, so `NamesUnique` fails for those. On
PostgreSQL the claim check reads the row and the write follows by id alone, and there
the refinement fails: `OnlyFoldedIsLost` is what is left of it, and the case it
excepts happens (section 5).

The inductive invariant `Typed` is `TypeOK` split by what a step disturbs (`QueueOK`,
`WorkersOK`, `RestOK`), and adds that the request in a row, and in an item a worker
holds in memory, was asked for: without it a worker could carry out, and record as
performed, what nobody queued. Added to it are `LanesKept` (a worker's items lie in
its lane); `Fence` (a row claimed under a worker's name and held by it is the row it
claimed), `NoGap` (on SQLite nobody stands between check and write), `Carried` (a
worker about to complete has carried the request out) and `SubjectsKept` (a row is
about what its request was about), all for the refinement. The refinement mapping
`Fate` sends a request to unasked, queued, done, dropped or superseded. For
`OnlyFoldedIsLost` there is `Ordered`: a row is named after the request it began with
and passes to later ones only, so that a row which holds another request than its
worker remembers was folded into. Lemmas state once what each queue operator does to
`QueueOK`; a step's proof has one case per action.

`CardsProofs`, for every value of the constants that satisfies
`CardsAssumption` (`None` is no alert, state or card, and the marks of retired
keys are no keys):

- `CardsTypeCorrect`: `Spec => []TypeOK`, for any tasks. `TypeOK` contains the
  unique key: no two cards of a channel hold one key.
- `ChangesCorrectCards`: as long as no two tasks have changes of one identity to
  apply at once (`[]Apart`), an applied change sets right every card that holds its
  key, whatever the other tasks do.
- `FiringChangesHaveCards`: under `[]Apart`, or with one route (`OneRoute`) and
  any tasks that race, an applied firing change has its card afterwards.
- `RefiresKeepAck`: for any tasks, a decision that read its alert as held turns
  no card red.

Here too the assumption is needed, and the code does not see to it: webhooks, polls
and syncs apply at once. It says how much would have to be kept apart, the changes of
one identity, and that nothing else need be; the theorems do not cover what happens
where it fails. Then a task that read no card for a resolution leaves alone the one
another task creates before it applies, and the card stays open; the older of two
changes may be applied last; two tasks that each see the other's alert firing leave
a merged card open; and a conflict on one route rolls back the cards of the others
(section 5). How far
the promises hold without the assumption is what the invariants show: `Typed`
(types, the unique key, finitely many cards in a route), `Informed` (a change
says which way its alert went, and a task that applies has read every route) and
`KeyedAlive` (a card that holds a key is not orphaned) need none, nor does
`KeyHeld`: a key that was read is held still, or passed on, or a card of the
route was found deleted. It is why losing the race is harmless in one route.
`Numbered` says that a new card's number is unused. `Remembers` needs
`Apart`: the holder of the key is the card that was read, in the state that
was read but for a click, and with it the state a decision computes from what it
read agrees with the row it writes (`StateAfterAgrees`). Steps other than
`Apply` are covered at once: they leave the cards alone or are `Calm`.

- `OneCardIsOpen`: under `[]Apart`, and until a message is lost, an alert has one
  open card in a channel.
- `LastResolves`: under `[]Apart`, and until something is lost, muted or fails, a
  card of several alerts is resolved just when the last of them is.

`OneOpenCard` needs to know what any key says about its card: `AllStand` (no card
is orphaned, one that holds a key is of that identity, and one that gave its key
up is resolved) and `ReadHolds` (the card a task read holds its key still). A lost
message breaks both, which is why the property excepts it. `ResolvesWithLast`
speaks of moments with no change under way; `Following` says what is so in
between: a card may be ahead of its alerts, or behind them, only by a change that
is still to be applied (`Owed`), and a change to be applied is the last of its alert
(`Reads`: under `Apart` nothing of its identity is delivered meanwhile).

`CardsProofs`, of `Escalation`, under `EscalationAssumption`, for any number of cards,
sweeps and faults, any batch and any deadlines:

- `EscalationTypeCorrect`: `EscalationSpec => []EscalationTypeOK`, with a claim behind
  each queued mention.
- `OneMention`: `EscalationSpec => []MentionedOnce`. The queue promises a mention at
  least once, so what is proved is that one effect is queued at most, and that the
  targets are mentioned once, and once more at most for each time the effect went
  back after its call may have been made.

`MentionedOnce` is not inductive: a sweep between claim and enqueueing could hold a
card that was already mentioned. `ClaimsAreTold` says that such a sweep is the
only one that holds the card and that nothing was queued for it before, and that
a card nobody claimed has neither mention nor holder. That a claim is never
taken back, not by a re-fire either, is what makes each step keep it. `Account` adds
the mentions made, those a slow worker still makes and the one whoever has the row
makes next: together one more than the effect went back.

`PeripheryProofs`, of `AdminChannel`, under `AdminAssumption`, for any workers and routes:

- `OneNotice`: `Spec => []OneNoticePerCondition`.
- `DeadmanHasSpoken`: `Spec => []DeadmanSpeaks`.

The invariant is `Accounted`: a key that was said, and whose notice the store
did not refuse, has its notice in the queue or in exactly one reporter's hand,
and any other key has none. It restates the cardinality in `OneNoticePerCondition`
without counting, which is what a prover can carry through a step. `OneThing`
(a reporter has one notice in hand, workers those of routes only) and
`AlarmIsNoted` (the deadman's key is in the set exactly while its last check found
a silence) complete it.

`ReconcilerProofs`, under `ReconcilerAssumption`, for any alerts, silences, polls
and budgets:

- `ReconcilerTypeCorrect`: `Spec => []TypeOK`, with every row truthful about what
  suppresses its alert.
- `TableConverges`: `Spec => []RowsConverge`.
- `TwoPollsAgree`: `Spec => ResolvedOnlyIfGone`.
- `CardsFollowRows`: `Spec => []CardFollowsRow`.

`Typed` adds to `TypeOK` the types of the tasks and that a process's clocks lag
behind the count of polls; a row is never newer than that. The other three each
have an invariant of their own beside it. `TableConverges` is an argument over
three polls: while nothing upsets it (`undisturbed`) a poll holds what
Alertmanager says, and has written it (`PollInStep`); what is gone was not seen
since the poll began, then since the last, then since the one before it (`Old`,
`Converging`), and so the third poll finds it old enough to resolve.
`TwoPollsAgree` is `Absent`: an alert missing from one answer was seen when the
poll before began, and `previousPoll` is no later. A poll whose batch is not
persisted breaks that, hence its exception. `CardsFollowRows` is `Shown`: a card
shows its row, or will once the one change pending for it is applied
(`RedrawnWanted` goes through every pair of a row and an alert). It needs
`Alone`, a task that overlaps no other, and `NobodyInhibits`, since a silence sync
says nothing of a suppression that another reason keeps up.

`PeripheryProofs`, of `Listener`, under `ListenerAssumption` (the two bounds are
numbers), for any alerts, requests and jobs:

- `ListenerTypeCorrect`: `ListenerSpec => []ListenerTypeOK`.
- `NothingLostQuietly`: `ListenerSpec => []NoChangeLostQuietly`.

The invariant adds `LeftIsStored` (what a request has left to decide on is in the
table) and `Apart` (no two requests bring the same alert, as Alertmanager notifies
of one thing after the other), so that no request takes from another's. What the
property excepts is the code's own: a decision that met a conflict is dropped and
the request answered 200 (`Conflict`, section 5).

`PeripheryProofs`, of `Storm`, under `StormAssumption` (finitely many alerts, bounds
that are numbers, a digest window that is not empty), for any alerts, thresholds and
windows:

- `StormTypeCorrect`: `StormSpec => []StormTypeOK`, with one card of a channel
  under each key and a bounded count of arrivals.
- `AlwaysExplained`: `StormSpec => []SeparationIsExplained`.
- `NoConflictAlone`: `LongRegroup => (StormSpec => []NobodyWasFirst)`.
- `OwnCardFollowsAlert`: `LongRegroup => (StormSpec => []OwnCardFollows)`.

`Fine` adds to the type invariant what is true of each row by itself: until the
policy changes a card under an alert's key is of that identity, only a route that
stormed has a digest card, and a digest card resolved no earlier than its window
began. `PlanOfOne` and `PlanOfTwo` say what `decide` plans under one key and under
two, and `CarriedIs` what becomes of each row; with them a step is a case per row.

The last two need `LongRegroup`, `Regroup >= DigestWindow - 1`. It holds of the
defaults (1800 s and 60 s), nothing in the configuration checks it, and
`viol_conflict` shows what happens without it. With it a card under the current
digest key resolved within its window and so is never outlived
(`DigestIsNotOutlived`); a card is then planned only under a key that is free or
that its own predecessor gives up (`NewKeyIsFree`). `OwnCardFollows` speaks of
moments with no change to decide; `OwnFollows` of any: a card may tell what was so
before the batch as long as the alert that changed it is still to do, and a card
that a decision leaves alone is left for the digest (`LeftForDigest`).

`PeripheryProofs`, of the three together, under `ListenerAssumption`:

- `PeripheryTypesCorrect`: `PeripherySpec => []PeripheryTypeOK`, from
  `AdminTypeCorrect`, `ListenerTypeCorrect` and `StormTypeCorrect`, because a step of
  `MCPeriphery` is a step of one machine and a stutter of the others.

`CommandsProofs`, of `Answering`, under `AnsweringAssumption` (`Nobody` is no person, state
or edit), for any people and cards:

- `CardsTellHolder`: `AnsweringSpec => []CardTellsHolder`.
- `KeptUntilReleased`: `AnsweringSpec => []HeldUntilReleased`.

`CardTellsHolder` speaks of rest; `Follows` of any moment. A message is behind only
while an edit of it is owed, by an interaction whose redraw is to come or by the queue
(`Owed`), or the edit under way read what is so now (`EditIsFresh`). The two reads of
an edit are apart, and a taker who comes between them owes an edit again: that is the
step the proof is about. The cards that were left `behind`, by an edit that was lost,
given up on or failed to read, are excepted until their next edit, and so are those
`unsure`, until the next one that is drawn. `Kept` says that between the two
transactions of a handover the alert is in the caller's hands.

`CommandsProofs`, of `Silencing`, under `SilencingAssumption`, for any workers, desks,
asks and peers, with `Peers` a sequence:

- `SilencingTypeCorrect`: `Spec => []TypeOK`.
- `RowsAreTrue`: `Spec => []RowsTellTruth`.
- `TrailIsTrue`: `Spec => []TrailTellsTruth`.

Alertmanager only ever adds silences and ends them (`GrowsTo`), so what an answer
said is still so when it is recorded (`Came`). `InOneHand` (an operation is in one
desk's hands, and then not in the trail yet), `Begins` and `RowsFollow` (a row's
effect was queued and is not any more) keep an ask to one row, and `TriesPaid`
is what bounds the tries in `TypeOK`: every try past `MaxTries` cost an upset.

`RoutingProofs`, under `RoutingAssumption`, for any files, commands, rules,
subscriptions and number of handlers:

- `TablesAreCorrect`: `Spec => []TablesOK`, the part of the type invariant that is
  about the tables and their copies.
- `FileKeepsRoutes`: `NamesDistinct => (Spec => []FileOwnsItsRoutes)`: the routes of
  the file are in the table as the file has them, on or off.
- `SnapshotIsTable`: `Spec => []PublishedIsTable`.
- `AlwaysFirstMatches`: `Spec => []RoutesAreFirstMatches`.
- `RoutingTypeCorrect`: `Spec => []TypeOK`.
- `FiringIsSeen`: `Spec => FiringReachesAll`.

`CopiesKept` says of every copy, published or being read, that its rows are still
there, of the same guild, name and source: that is why `/route remove`, which writes a
row from its copy, never touches one of the file (`CommandRows`). `NobodyServed` says
that while the process starts nobody reads. `FileIsSynced` says how far the start has
come; it needs `NamesDistinct`, that a file names no route of a guild twice. The
option promises it and nothing looks (section 5). `PublishedIsTable` speaks of rest;
`ReadsAreCurrent` of any moment: what a reload has read so far is current, or one that
has more to read is yet to publish after it, or it is late already. `LastReadCounts`
carries that over to what is published.

A decision is a fold of `resolve` over the routes in their order, and the lemma
`ResolveIs` says that for any table it finds `FirstMatch`, the routes that accept
the alert and come before any that ends the matter in their guild. The fold is not
recursion that the prover would have to do induction over: it is a function on the
sets of numbers up to the number of routes (`LoopExists`, `ResolveIsLoop`). What
its loop has found after n routes is then shown for all n from the least n of which
it is not so (`LeastOf`, `TriedIs`). `OrderIs` says that sorting by rank gives each
route one place: the rank of a route is the number of those before it, and of two
one has the smaller set of predecessors (`BeforeIsOrder`). `IsDecided` says what
becomes of each card in a decision; `FiringIsSeen` needs of it that a subscription
is not asked for mutes (`SubscriptionsAreNotMuted`), that only decisions change
cards (`OnlyDeliveriesFire`) and, for the type invariant, that the subscriptions
are finitely many (`FewSubs`). `RoutingAssumption` says for this that priorities are
integers, that `None` is no state of a card and that the bounds are numbers.

`LookupProofs`, under `LookupAssumption` (finitely many alerts, which are numbers,
whose labels are functions; pages hold at least one; an operator is one of the four),
for any labels, policy, filters and limits:

- `LookupTypeCorrect`: `LookupSpec => []LookupTypeOK`, where no alert is on two pages
  of a list that nothing changed.
- `ListsAreWhole`: `LookupSpec => []PagesAreWhole`.
- `RoutingTypesCorrect`: `RoutingSpec => []RoutingTypeOK`, of the tables and the lists
  together.

`ListedIs` says that a list has each of finitely many alerts once: the place of one is
the number of those that come first, and in a strict order those numbers are all
different and leave none out (`RankIs`, which `OrderIs` rests on too). The invariant,
`LookupInv`, says of a view that the pages turned to begin at the first and miss none
(`Leafed`) and, as long as nothing changed, are cut from the list as it is and lie
within it (`Told`); the buttons keep it because a page back is a page that was shown
(`PreviousLeaf`) and a page on is the next (`NextLeaf`). Pages one after the other are
the list they were cut from (`PagesMakeList`, over `FlattenSeq` as the fold it is), and
the list has what the filter asks for (`FoundIsWanted`): what SQL says of a matcher and
what is evaluated afterwards come to the matcher (`SplitIs`), and a card that is looked
for under the fingerprint is the alert's if no label is ignored (`KeyIs`). The prover
expands neither `SortSeq` nor `SelectSeq`, which is why `Listed` is written by rank.

`DeliveryProofs`, under `DeliveryAssumption` (policies are policies, waits and budgets
numbers, and `None` is none of what it stands beside), for any policies, waits, budget
and number of upsets in a behaviour:

- `DeliveryTypeCorrect`: `Spec => []TypeOK`.
- `MessageIsCurrent`: `Spec => []MessageCatchesUp`.
- `TagsAreCurrent`: `Spec => []TagsFollowDecisions`.
- `PostIsHeldOrLetGo`: `Spec => []PostFollowsCard`.

All four speak of rest; the invariant, `IInv`, of any moment. An effect that is dropped
for good takes what it would have brought up to date with it, and nothing comes in its
place: the three except a behaviour in which one was refused, `TagsAreCurrent` one in
which the tags could not be read again too. `HashInv` says that,
while no decision is between its reads and its transaction, the edit that brings the
hash up to date is in the queue or in the batch and still to be read for (`Ahead`), or
is under way with a reading that is current (`EditUnderWay`), or there is nothing to
bring up to date (`HashFresh`). `TagsInv` is the same of the state tag and `SetTags`.
This is where the folding of `enqueue` matters: a request folds into an item not yet
claimed, never into one whose worker has read already. `ReadInv` (only the worker
writes the columns it read) and `OnePostInv` (one `post_card` is ever pending, and none
once the card is posted or orphaned) carry it through a completion. `ShownInv` and
`TagShownInv` tie the message to the hash and the tag the worker will record
(`HashAnswered`, `TagsAnswered`). `Did` says of all nine handlers at once what an
answer reports and leaves at Discord, and `HandledDid` that each does so, so that the
invariants go over one case instead of nine. The queue's lemmas (`PlacesAre`,
`ItemsAtIs`, `EnqueueIs`) say that picking items by their places, inserting and folding
keep every kind that was queued and queue no `post_card` twice.

`PostFollowsCard` needs the order of the queue, and an invariant beside that one,
`PostInv`. Of a live card's post `OpenInv` says what `HashInv` says of the hash: flags
that open it (`LiveFlags`) are ahead or under way, or it is open. For that a plan and
its row agree on whether the card is live (`PlanInv`), flags planned for a live card
always open the thread (`FlagsKnown`), and flags that were planned for the other side
are not set (`Superseded`). Of a resolved card's post `GoneInv` follows an alert that
fires and resolves once and nothing that opens threads by itself (`Quiet`). The card
is live and no flags are planned (`PhaseA`); then it is resolved and the seal waits
behind the edit and whatever else may open the thread (`PhaseB`: `Ordered`, `Leads`);
then the seal is made, nothing is left that opens the thread, and the hash is fresh,
so that no edit goes out any more (`PhaseC`). The step from the first to the second is
the decision (`SealQueued`), where the seal goes last because nothing in the queue is
due later than a debounce (`Later`); from the second to the third it is the seal
(`SealMade`). That the order survives a claim (`ClaimOrder`) is what the claim by
`not_before` is for: the claim that takes the seal takes all that precedes it. If the
card loses its message it never gets another (`Gone`). TLC checked the three phases
on the instance of `delivery.cfg` before they were proved.

The proof found what TLC could not at one upset in a behaviour: without the exception
of a deleted tag and a requested redraw, `HashShown` is not inductive, and TLC confirms
the behaviour when both may occur (section 5).

Only model-checked: every liveness property (`EveryRequestSettles`,
`EveryCardIsReached`, `ToldIsDone`, `StopEnds`), which is beyond the prover. Every
other property that a run without an expected violation checks is a theorem.

## 5. What the properties except, and known divergences

A property that excepts something says so in its comment. Why:

- `MessageCatchesUp`, `TagsFollowDecisions` and `PostFollowsCard` except an effect that
  was dropped for good: a missing permission or a channel of the wrong kind
  (`Blocked`), another final answer (`Drop`) or the tenth attempt
  (`dispatch.rs:202-222`). Its row is removed, the card's hash stays old, and the
  message, the tags or the post stay behind until the next decision plans an effect
  of that kind. `CardTellsHolder` excepts the same edits.
- `TagsFollowDecisions` also excepts tags that could not be read again: an unknown tag
  is final, and where `resync_forum_tags` fails (`dispatch.rs:630-642`) the retag is
  dropped although the tag of the state is there.
- `MessageCatchesUp` and `TagsFollowDecisions` say what Discord shows only if no
  worker's report was lost: a card whose hash is that of its row is not drawn
  again, and after a lost completion and a change back the message shows the
  change while the hash does not. `CardTellsHolder` is the same for the holder.
- `MessageCatchesUp` also excepts a redraw that was asked for (`/resync`) and was cut
  after its edit: by a deleted tag, or by its second call failing. `resync` edits the
  message and then sets the tags; an unknown tag is final (`Failure::from_sink`), so
  the effect is dropped after its edit went out and the hash is not recorded.
  `dispatch.rs:552` says that "a tag call that fails costs one redundant edit on the
  retry rather than a card left half repaired". If the card then changes back to what
  its row's hash says, the edit is skipped and the message keeps showing the change.
- An acknowledgement queues an edit only (`bot.rs:128`), and a forum post keeps
  the tag of the state before it until the next decision, although
  `docs/ROUTES.md:79` says "Exactly one is applied at a time".
- A resolved, sealed post that was reopened for an acknowledgement or an update
  is not sealed again.
- `EveryCardIsReached` excepts a card that is crowded out. The batch is filled with
  the oldest cards, those of routes that wait longer or never escalate among them;
  these are passed over, never claimed, and fill it again at the next tick. As many
  as the batch holds starve the rest for as long as they fire, although
  `service.rs:31-35` says that what one tick does not reach the next does. Where no
  such cards fill it, the claim of the comment holds: the run has a batch of one.
- A card is marked escalated before its mention is queued, and a failure between
  loses the mention. A card that fires again keeps the mark.
- `mark_escalated` says that "the mention happens once". One effect is queued, but
  Discord is called before its row is removed (`dispatch.rs:196-201`): a lease that
  lapses between, a slow worker or a lost answer makes the mention once more each.
- `PublishedIsTable` excepts a reload overtaken by one that began after it: both
  read three tables, and the older may publish last (`bot.rs`, `ignores.rs`:
  "so the rule is not gone until it has been republished").
- `OwnCardFollows` speaks of the alert's own card. An alert folded into a digest
  has none, and a digest resolves with one of its alerts while others fire. It
  needs `Regroup + 1 >= DigestWindow`, which the defaults (1800 s and 60 s)
  satisfy and configuration does not check; otherwise a decision may meet a key
  that is held and be dropped (`viol_conflict`).
- `ToldIsDone` excepts an end that was asked of a peer which had not heard of the
  silence: its 404 is final.
- `CardFollowsRow` holds while one task at a time is under way. Two tasks can
  apply the older of two changes last.
- `NoChangeLostQuietly` excepts a decision that met a conflict: `apply_deltas` logs
  it and goes on (`service.rs:181-191`), and the request is answered 200. It speaks of
  requests alone: where the changes of a poll or of a silence sync cannot be applied,
  a warning is all that comes of them (`service.rs:412-414`, `:503-507`).
- `NoChangeLostQuietly` promises no more than an answer other than 200: a 408, a
  503 or a drain between `ingest_batch` and `apply_deltas` loses the decision,
  although `ingest/router.rs:247` calls the batch worth redelivering and
  `router.rs` says that a turned-away batch becomes an immediate reconcile; it is
  a counter and a log line.
- `PagesAreWhole` excepts a filter by a card's state where an alert it asks for
  has ignored labels. The option says "Only alerts whose card is in this state"
  (`discord/commands/alerts.rs:315`), the query looks under `'a:' || fingerprint`
  (`store-*/store/alerts.rs`), and a card of a merged identity, of a group or of a
  digest has another key. It speaks of lists that nothing changed between two
  pages: offsets are counted in the order of `last_seen_at`, which every delivery
  moves. It speaks of the alerts of a page, not of the text: a page's body is cut at
  4096 bytes (`discord/commands/alerts.rs:170`), which is layout here.
- `ResolvedOnlyIfGone` excepts a poll whose own batch was not stored.

Met while modelling, and in the models as the code has it:

- Attempts are compared with the limit after an answer only
  (`dispatch.rs:215`), so an effect that kills its worker is carried out without
  end; `store-sqlite/store/outbox.rs:71` says it runs out.
- PostgreSQL's claim check is a plain `SELECT` and its write a statement of its own
  that names the row by id (`store-postgres/store/outbox.rs:144`, `:293`), so a worker
  whose lease expired can write, although the comment at `:282-286` says that it "cannot
  write the result of work somebody else has since redone". If the janitor takes the lease
  back between the two and an edit is asked for, that edit folds into the row, which
  is unclaimed again (`:246`), and the worker's `DELETE` removes it: the edit is lost,
  and the message stays behind until the next one. `OnlyOvertakenIsLost` says that
  nothing else is lost, and `EffectsAreDurable` does not hold of PostgreSQL. In SQLite
  check and write are one. `Delivery` and `Answering` have the queue as it is there:
  on PostgreSQL `MessageCatchesUp` and `CardTellsHolder` do not hold of such an edit.
- `move_state` does not look at the state it overwrites
  (`store-*/store/notifications.rs:482`), so an orphaned card can be revived,
  which `core/state.rs:179` calls terminal.
- An acknowledgement fits between its read and the decision (`service.rs:155`).
- Two tasks that read the siblings before either applies leave a merged card
  open, or resolve it early (`service.rs:163`).
- A key conflict on one route rolls back the decision for every route
  (`service.rs:186`); two routes of one guild that continue into one channel meet
  it every time.
- `DisableComponents` is carried out as planned and takes the controls of a card
  that fires again, until its next edit (`dispatch.rs:302`).
- The sync calls an alert unsilenced when its last silence ends, inhibited or
  not, and its card fires again while its row is suppressed; and a lost silenced
  or unsilenced event is not repaired by the next update of a firing alert
  (`decide.rs:302`). `CardFollowsRow` excepts inhibition for the first.
- Cards of a route that is disabled, removed or overtaken get no further change;
  `/route remove` writes the whole row from the snapshot; a file adopts a route
  of the same name that was made from Discord; an ignore rule that is revoked or
  runs out triggers nothing.
- A second `updated` or `silenced` event with the timings of an earlier one is
  not written to the history, whose index takes it for a repeat;
  `docs/config.md:65` says that every transition writes a row.
- A command's reference is looked for among the 250 alerts seen last
  (`commands/views.rs:33`), so that a name which is ambiguous beyond them is
  answered with the one found.
- `config/routes.rs:7` says that routes of one priority are evaluated by declaration
  order. They are by id (`engine/routing.rs`), which is the order in which routes were
  first stored: a route moved within the file, or one made by `/route add` before the
  file declared it, keeps its place. `Matching` breaks ties by id.
- Of two routes of one name in a file the later one is stored over the earlier, although
  `config/routes.rs:17` calls a name "Unique within a guild"; and a route that left the
  file stays live while another guild's route in it has its name, as
  `disable_missing_config_routes` compares names alone.
- Effects for a person whose subscription is gone are dropped.
- A creation whose answer cannot be read is dropped without a row in the
  silences table; `/silence extend` ignores the id it is given; a failure to
  write the audit entry is swallowed.
- A batch that Alertmanager truncated is counted and logged; no poll is asked
  for, as `ingest/lib.rs:19` has it. The next one comes with its interval.
- A handover is two transactions, and a cut between leaves the alert with
  nobody; a failed read of the acknowledgement draws "nobody has it" and stores
  the hash of that.
- Of the keys of `say_once` only the deadman's is ever forgotten. That of a route
  stays until the process restarts: a route that works again and breaks again is not
  spoken of, nor one whose notice could not be queued.

## 6. Not modelled

- Layout, wording, templates and colours (`discord/render.rs`): they hold no
  state. That a card with the same content is not
  drawn twice is in `Delivery`, its hash standing for all it shows.
- Parsing and encodings: webhook and API bodies (`am/model.rs`, `am/webhook.rs`)
  are one choice between accepted and refused; database columns are not modelled.
- Reads that change nothing: completion, `/status` and most of `/debug`;
  `views::resolve`, by which a command finds the alert it was given.
- Configuration beyond the routes: its values are the constants of the models.
- Telemetry, metrics, health endpoints, migrations, registration of commands.
- Which of Discord's refusals comes of what: a rate limit or a server error is an
  answer of `CallFails`, a missing permission, a channel of the wrong kind or another
  final error one of `CallRefused`. The waits a rate limit names, and budgets.
- `OpenThread`, which nothing plans; `set_notification_state`, which only tests
  call; the direct-message channel of a subscription.
- The history of alerts and its dedupe key, flap counts, and the retention of
  tables nothing reads but lists.
- In the models that are there: in `Delivery`, the call of a worker slower than its
  lease that reaches Discord after another worker carried out later effects of the
  card (`Outbox` and `Escalation` have that worker); `apply_to_card` on a card that
  retention took (it fails for ever, but a card is days old when it goes and its
  effects minutes); a card whose lane changes with its key; equal worker names in two
  containers (`NamesUnique`); two workers that pin in one channel at once, which the
  code accepts; what a replacing card says of the one before it.

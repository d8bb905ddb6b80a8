----------------------------- MODULE Reconciler -----------------------------
(***************************************************************************)
(* What keeps the alerts table in step with Alertmanager: the poll and the *)
(* silence sync (runtime/src/service.rs: reconcile, resolve_missing,       *)
(* sync_silences) beside webhooks that are delayed, reordered and lost.    *)
(* Each is a task of its own: it asks Alertmanager, writes the answer in   *)
(* one transaction, and applies the changes to the cards after it.         *)
(*                                                                         *)
(* Time is counted in polls: a moment between the starts of two polls      *)
(* compares with either as the earlier of them does.                       *)
(***************************************************************************)
EXTENDS CardState, Naturals, FiniteSets

CONSTANTS
  Fps,
  Silences,
  Ours,         (* The silences this bot makes.                            *)
  MaxPolls,     (* Bound: polls started.                                   *)
  Budget        (* Bound: how often each thing from outside occurs.        *)

Sources == {"all", "changes", "silencing", "inhibiting", "webhooks", "faults", "restarts"}

Lifecycle == {"none", "active", "expired"}

(* A row of the alerts table.  What a card shows and this module tells     *)
(* apart is who suppresses the alert.                                      *)
Suppression == [ silencedBy : SUBSET Silences, inhibited : BOOLEAN ]
Row == [ status : {"firing", "resolved"}, suppressed : BOOLEAN, text : Suppression, seen : Nat ]

ASSUME ReconcilerAssumption ==
  /\ Ours \subseteq Silences
  /\ None \notin Row /\ None \notin Events \cup Triggers \cup States
  /\ MaxPolls \in Nat
  /\ Budget \in [ Sources -> Nat ]

VARIABLES
  am,           (* Alertmanager's alerts: firing, ended or not there.      *)
  silences,     (* Alertmanager's silences.                                *)
  inhibited,    (* Alerts that an inhibition rule suppresses.              *)
  mail,         (* Webhooks on their way.                                  *)
  links,        (* The silences table: those this bot made.                *)
  rows,         (* The alerts table.                                       *)
  card,         (* The state of each alert's card.                         *)
  clock,        (* Polls started.                                          *)
  lastPoll, previousPoll,
  tasks,        (* The webhook handler, the poll and the sync.             *)
  left,         (* What is left of Budget.                                 *)
  \* History, for the properties only.
  calm,         (* Whole polls since anything but a poll happened.         *)
  undisturbed,  (* Nothing has since the running poll began.               *)
  absences,     (* Answers in a row, of this process, without the alert.   *)
  overlapped    (* Two tasks have been under way at once.                  *)

outside == <<am, silences, inhibited>>
store   == <<links, rows>>
polls   == <<clock, lastPoll, previousPoll>>
vars    == <<outside, mail, store, card, polls, tasks, left, calm, undisturbed, absences, overlapped>>

Names == {"webhook", "poll", "sync"}

Idle == [ pc |-> "idle", started |-> 0, answer |-> None, snapshot |-> {}, todo |-> {} ]

Spend(source) ==
  /\ left["all"] > 0 /\ left[source] > 0
  /\ left' = [ left EXCEPT ![source] = @ - 1, !["all"] = @ - 1 ]

Upset == calm' = 0 /\ undisturbed' = FALSE

Init ==
  /\ am = [ f \in Fps |-> "absent" ]
  /\ silences = [ s \in Silences |-> "none" ]
  /\ inhibited = {}
  /\ mail = {}
  /\ links = [ s \in Silences |-> "none" ]
  /\ rows = [ f \in Fps |-> None ]
  /\ card = [ f \in Fps |-> None ]
  /\ clock = 0 /\ lastPoll = 0 /\ previousPoll = 0
  /\ tasks = [ t \in Names |-> Idle ]
  /\ left = Budget
  /\ calm = 0
  /\ undisturbed = FALSE
  /\ absences = [ f \in Fps |-> 0 ]
  /\ overlapped = FALSE

-----------------------------------------------------------------------------
(* Alertmanager.                                                           *)

Active == { s \in Silences : silences[s] = "active" }

Alert_(status, silencedBy, inhibits) ==
  [ status |-> status, suppressed |-> silencedBy # {} \/ inhibits,
    text |-> [ silencedBy |-> silencedBy, inhibited |-> inhibits ] ]

Listed == { f \in Fps : am[f] # "absent" }

(* list_alerts; an end time in the past is all that means resolved.        *)
Listing ==
  [ f \in Listed |-> Alert_(IF am[f] = "firing" THEN "firing" ELSE "resolved",
                            Active, f \in inhibited) ]

Shift(f) ==
  /\ Spend("changes")
  /\ \E next \in {"firing", "ended", "absent"} \ {am[f]} :
       /\ next = "ended" => am[f] = "firing"
       /\ am' = [ am EXCEPT ![f] = next ]
  /\ Upset
  /\ UNCHANGED <<silences, inhibited, mail, store, card, polls, tasks, absences, overlapped>>

(* A silence is made, by this bot (record_silence) or by somebody else.    *)
Silence(s) ==
  /\ silences[s] = "none"
  /\ Spend("silencing")
  /\ silences' = [ silences EXCEPT ![s] = "active" ]
  /\ links' = IF s \in Ours THEN [ links EXCEPT ![s] = "active" ] ELSE links
  /\ Upset
  /\ UNCHANGED <<am, inhibited, mail, rows, card, polls, tasks, absences, overlapped>>

Expire(s) ==
  /\ silences[s] = "active"
  /\ silences' = [ silences EXCEPT ![s] = "expired" ]
  /\ Upset
  /\ UNCHANGED <<am, inhibited, mail, store, card, polls, tasks, left, absences, overlapped>>

Inhibit(f) ==
  /\ Spend("inhibiting")
  /\ inhibited' = IF f \in inhibited THEN inhibited \ {f} ELSE inhibited \cup {f}
  /\ Upset
  /\ UNCHANGED <<am, silences, mail, store, card, polls, tasks, absences, overlapped>>

(* Alertmanager notifies about what nothing suppresses.  It knows nothing  *)
(* else of an alert it delivers (WebhookAlert::into_core).                 *)
Notify(f) ==
  /\ am[f] # "absent" /\ Active = {} /\ f \notin inhibited
  /\ Spend("webhooks")
  /\ mail' = mail \cup {<<f, IF am[f] = "firing" THEN "firing" ELSE "resolved">>}
  /\ UNCHANGED <<outside, store, card, polls, tasks, calm, undisturbed, absences, overlapped>>

Lose(m) ==
  /\ mail' = mail \ {m}
  /\ UNCHANGED <<outside, store, card, polls, tasks, left, calm, undisturbed, absences, overlapped>>

-----------------------------------------------------------------------------
(* ingest_batch and apply_deltas, which every task goes through.           *)

Change(f, kind, alert) == [ fp |-> f, kind |-> kind, alert |-> alert ]

(* A mutant: a delivery that changes nothing leaves the row alone.         *)
IngestUntouched(batch, now) ==
  [ f \in Fps |-> IF f \in DOMAIN batch /\ Classify(rows[f], batch[f]) # None
                    THEN [ status |-> batch[f].status, suppressed |-> batch[f].suppressed,
                           text |-> batch[f].text, seen |-> now ] ELSE rows[f] ]

(* upsert_alert; touch_alert moves seen alone, for all else is the same.   *)
Ingest(batch, now) ==
  [ f \in Fps |-> IF f \in DOMAIN batch
                    THEN [ status |-> batch[f].status, suppressed |-> batch[f].suppressed,
                           text |-> batch[f].text, seen |-> now ] ELSE rows[f] ]

Deltas(batch) ==
  { Change(f, Classify(rows[f], batch[f]), batch[f]) :
      f \in { g \in DOMAIN batch : Classify(rows[g], batch[g]) # None } }

(* decide and apply_decision for a route that ignores nothing, in one      *)
(* step: Cards has what may happen in between.                             *)
Redrawn(old, change) ==
  IF old = None
    THEN IF IsFiring(change.alert) THEN InitialState(change.alert) ELSE None
  ELSE LET new == NextState(old, TriggerFor(change.kind, change.alert, old, FALSE), FALSE)
       IN  IF new = None THEN old
           ELSE IF old = "resolved" /\ change.alert.suppressed THEN "silenced"
           ELSE new

Begin(t, task) ==
  /\ tasks' = [ tasks EXCEPT ![t] = task ]
  /\ overlapped' = (overlapped \/ \E u \in Names \ {t} : tasks[u].pc # "idle")

Go(t, task) == tasks' = [ tasks EXCEPT ![t] = task ] /\ UNCHANGED overlapped

(* Where a task stands once its changes are applied.  The poll's clocks    *)
(* move when the pass is over, in this order.                              *)
After(t) == IF t = "poll" /\ tasks[t].pc = "apply" THEN "missing" ELSE "idle"

Ends(t, pc) ==
  IF t = "poll" /\ pc = "idle"
    THEN /\ previousPoll' = lastPoll
         /\ lastPoll' = tasks[t].started
         /\ calm' = IF undisturbed THEN calm + 1 ELSE calm
         /\ UNCHANGED clock
    ELSE UNCHANGED <<polls, calm>>

(* apply_deltas, one delta after the other.                                *)
Apply(t) ==
  LET x == tasks[t]
  IN  /\ x.pc \in {"apply", "applyMissing"}
      /\ IF x.todo = {}
           THEN /\ Go(t, IF After(t) = "idle" THEN Idle ELSE [ x EXCEPT !.pc = After(t) ])
                /\ Ends(t, After(t))
                /\ UNCHANGED card
           ELSE \E d \in x.todo :
                  /\ card' = [ card EXCEPT ![d.fp] = Redrawn(@, d) ]
                  /\ Go(t, [ x EXCEPT !.todo = @ \ {d} ])
                  /\ UNCHANGED <<polls, calm>>
      /\ UNCHANGED <<outside, mail, store, left, undisturbed, absences>>

(* A query fails: what is left of the batch is dropped, and logged.        *)
ApplyFails(t) ==
  /\ tasks[t].pc \in {"apply", "applyMissing"} /\ tasks[t].todo # {}
  /\ Spend("faults")
  /\ Go(t, [ tasks[t] EXCEPT !.todo = {} ])
  /\ Upset
  /\ UNCHANGED <<outside, mail, store, card, polls, absences>>

-----------------------------------------------------------------------------
(* ingest: a webhook that fails before it commits is as good as lost.      *)
Receive(m) ==
  LET batch == [ f \in {m[1]} |-> Alert_(m[2], {}, FALSE) ]
  IN  /\ m \in mail /\ tasks["webhook"].pc = "idle"
      /\ mail' = mail \ {m}
      /\ rows' = Ingest(batch, clock)
      /\ Begin("webhook", [ Idle EXCEPT !.pc = "apply", !.todo = Deltas(batch) ])
      /\ Upset
      /\ UNCHANGED <<outside, links, card, polls, left, absences>>

(* reconcile.                                                              *)
PollLists ==
  /\ tasks["poll"].pc = "idle" /\ clock < MaxPolls
  /\ clock' = clock + 1
  /\ Begin("poll", [ Idle EXCEPT !.pc = "ingest", !.started = clock + 1, !.answer = Listing ])
  /\ undisturbed' = TRUE
  /\ absences' = [ f \in Fps |-> IF f \in Listed THEN 0 ELSE absences[f] + 1 ]
  /\ UNCHANGED <<outside, mail, store, card, lastPoll, previousPoll, left, calm>>

PollIngests ==
  LET x == tasks["poll"]
  IN  /\ x.pc = "ingest"
      /\ rows' = Ingest(x.answer, x.started)
      /\ Go("poll", [ x EXCEPT !.pc = "apply", !.todo = Deltas(x.answer) ])
      /\ UNCHANGED <<outside, mail, links, card, polls, left, calm, undisturbed, absences>>

(* The batch is not persisted; the pass goes on regardless.                *)
PollIngestFails ==
  /\ tasks["poll"].pc = "ingest"
  /\ Spend("faults")
  /\ Go("poll", [ tasks["poll"] EXCEPT !.pc = "apply" ])
  /\ Upset
  /\ UNCHANGED <<outside, mail, store, card, polls, absences>>

(* A mutant: what is suppressed is left alone.                             *)
FiringNotInHeard(present, cutoff) ==
  { f \in Fps \ present : rows[f] # None /\ IsFiring(rows[f]) /\ rows[f].seen < cutoff
                          /\ ~rows[f].suppressed }

(* firing_not_in.                                                          *)
FiringNotIn(present, cutoff) ==
  { f \in Fps \ present : rows[f] # None /\ IsFiring(rows[f]) /\ rows[f].seen < cutoff }

(* resolve_missing, the read; the first polls of a process have nothing to *)
(* compare with.                                                           *)
PollReadsMissing ==
  LET x == tasks["poll"]
      missing == IF previousPoll = 0 THEN {} ELSE FiringNotIn(DOMAIN x.answer, previousPoll)
      resolved == [ f \in missing |-> [ status |-> "resolved", suppressed |-> rows[f].suppressed,
                                        text |-> rows[f].text ] ]
  IN  /\ x.pc = "missing"
      /\ Go("poll", IF missing = {} THEN [ x EXCEPT !.pc = "applyMissing" ]
                    ELSE [ x EXCEPT !.pc = "resolve", !.answer = resolved ])
      /\ UNCHANGED <<outside, mail, store, card, polls, left, calm, undisturbed, absences>>

(* resolve_missing, the write: the rows as they were read.                 *)
PollResolves ==
  LET x == tasks["poll"]
  IN  /\ x.pc = "resolve"
      /\ rows' = Ingest(x.answer, x.started)
      /\ Go("poll", [ x EXCEPT !.pc = "applyMissing", !.todo = Deltas(x.answer) ])
      /\ UNCHANGED <<outside, mail, links, card, polls, left, calm, undisturbed, absences>>

PollResolveFails ==
  /\ tasks["poll"].pc \in {"missing", "resolve"}
  /\ Spend("faults")
  /\ Go("poll", [ tasks["poll"] EXCEPT !.pc = "applyMissing" ])
  /\ Upset
  /\ UNCHANGED <<outside, mail, store, card, polls, absences>>

-----------------------------------------------------------------------------
(* sync_silences asks Alertmanager twice.                                  *)
SyncListsSilences ==
  /\ tasks["sync"].pc = "idle"
  /\ Begin("sync", [ Idle EXCEPT !.pc = "alerts", !.snapshot = { <<s, silences[s]>> : s \in Silences } ])
  /\ UNCHANGED <<outside, mail, store, card, polls, left, calm, undisturbed, absences>>

SyncListsAlerts ==
  /\ tasks["sync"].pc = "alerts"
  /\ Go("sync", [ tasks["sync"] EXCEPT !.pc = "write", !.answer = Listing ])
  /\ UNCHANGED <<outside, mail, store, card, polls, left, calm, undisturbed, absences>>

(* suppression_map: of an alert's silences those the other answer calls    *)
(* active.                                                                 *)
Desired(x, f) ==
  IF f \in DOMAIN x.answer
    THEN { s \in x.answer[f].text.silencedBy : <<s, "active">> \in x.snapshot }
    ELSE {}

(* A mutant: what inhibits the alert is forgotten with its silence.        *)
ResyncedActive(x, f) ==
  IF rows[f] = None \/ rows[f].text.silencedBy = Desired(x, f) THEN rows[f]
  ELSE [ rows[f] EXCEPT !.text.silencedBy = Desired(x, f), !.suppressed = Desired(x, f) # {} ]

(* The store's sync_silences: the row ...                                  *)
Resynced(x, f) ==
  IF rows[f] = None \/ rows[f].text.silencedBy = Desired(x, f) THEN rows[f]
  ELSE [ rows[f] EXCEPT !.text.silencedBy = Desired(x, f),
                        !.suppressed = Desired(x, f) # {} \/ rows[f].text.inhibited ]

(* A mutant: a silence that follows another is news.                       *)
SilenceEventAlways(x, f) ==
  IF rows[f] = None \/ rows[f].text.silencedBy = Desired(x, f) THEN None
  ELSE IF rows[f].text.silencedBy = {} THEN "silenced" ELSE "unsilenced"

(* ... and the event: silenced before against silenced now.                *)
SilenceEvent(x, f) ==
  IF rows[f] = None \/ (rows[f].text.silencedBy = {} <=> Desired(x, f) = {}) THEN None
  ELSE IF Desired(x, f) = {} THEN "unsilenced" ELSE "silenced"

SyncWrites ==
  LET x == tasks["sync"]
      told == { f \in Fps : SilenceEvent(x, f) # None }
      alert(f) == [ status |-> rows[f].status, suppressed |-> Resynced(x, f).suppressed,
                    text |-> Resynced(x, f).text ]
  IN  /\ x.pc = "write"
      /\ rows' = [ f \in Fps |-> Resynced(x, f) ]
      /\ links' = [ s \in Silences |->
                      IF links[s] # "none" /\ \E l \in Lifecycle \ {"none"} : <<s, l>> \in x.snapshot
                        THEN CHOOSE l \in Lifecycle : <<s, l>> \in x.snapshot ELSE links[s] ]
      /\ Go("sync", [ Idle EXCEPT !.pc = "apply",
                                  !.todo = { Change(f, SilenceEvent(x, f), alert(f)) : f \in told } ])
      /\ IF x.answer = Listing /\ x.snapshot = { <<s, silences[s]>> : s \in Silences }
           THEN UNCHANGED <<calm, undisturbed>> ELSE Upset
      /\ UNCHANGED <<outside, mail, card, polls, left, absences>>

SyncFails ==
  /\ tasks["sync"].pc \in {"alerts", "write"}
  /\ Spend("faults")
  /\ Go("sync", Idle)
  /\ Upset
  /\ UNCHANGED <<outside, mail, store, card, polls, absences>>

(* The process stops and starts again: its clocks start from nothing.      *)
Restart ==
  /\ Spend("restarts")
  /\ tasks' = [ t \in Names |-> Idle ]
  /\ lastPoll' = 0 /\ previousPoll' = 0
  /\ absences' = [ f \in Fps |-> 0 ]
  /\ Upset
  /\ UNCHANGED <<outside, mail, store, card, clock, overlapped>>

-----------------------------------------------------------------------------
Alertmanager ==
  \/ \E f \in Fps : Shift(f) \/ Inhibit(f) \/ Notify(f)
  \/ \E s \in Silences : Silence(s) \/ Expire(s)
  \/ \E m \in mail : Lose(m)

Poll ==
  \/ PollLists \/ PollIngests \/ PollIngestFails
  \/ PollReadsMissing \/ PollResolves \/ PollResolveFails

Sync == SyncListsSilences \/ SyncListsAlerts \/ SyncWrites \/ SyncFails

Next ==
  \/ Alertmanager
  \/ \E m \in mail : Receive(m)
  \/ Poll
  \/ Sync
  \/ \E t \in Names : Apply(t) \/ ApplyFails(t)
  \/ Restart

Spec == Init /\ [][Next]_vars

-----------------------------------------------------------------------------
Changes == [ fp : Fps, kind : Events,
             alert : [ status : {"firing", "resolved"}, suppressed : BOOLEAN, text : Suppression ] ]

(* The type invariant; whatever wrote it, a row that calls itself active   *)
(* names nothing that suppresses it, and the other way round.              *)
TypeOK ==
  /\ am \in [ Fps -> {"firing", "ended", "absent"} ]
  /\ silences \in [ Silences -> Lifecycle ] /\ links \in [ Silences -> Lifecycle ]
  /\ rows \in [ Fps -> Row \cup {None} ]
  /\ card \in [ Fps -> States \cup {None} ]
  /\ \A t \in Names : tasks[t].todo \subseteq Changes
  /\ \A f \in Fps : rows[f] # None =>
       (rows[f].suppressed <=> rows[f].text.silencedBy # {} \/ rows[f].text.inhibited)

(* "That is what makes the bot converge after a restart or a partition"    *)
(* (reconcile_interval_secs): whatever was lost, delayed or failed before, *)
(* after three whole polls with nothing else going on the table fires what *)
(* Alertmanager fires, and knows of it what suppresses it.                 *)
RowsConverge ==
  calm >= 3 => \A f \in Fps :
    /\ am[f] = "firing" <=> rows[f] # None /\ IsFiring(rows[f])
    /\ am[f] = "firing" => rows[f].text = [ silencedBy |-> Active, inhibited |-> f \in inhibited ]

(* "Two consecutive polls have to agree, or one failed request would       *)
(* resolve every alert at once" (reconcile): a poll resolves an alert it   *)
(* does not list only if the poll before did not list it either, a restart *)
(* in between or not.  (Unless a batch that had it was not persisted.)     *)
ResolvedOnlyIfGone ==
  [][ \A f \in Fps :
        /\ PollResolves /\ left["faults"] = Budget["faults"]
        /\ rows[f] # None /\ IsFiring(rows[f]) /\ ~IsFiring(rows'[f])
        => absences[f] >= 2 ]_vars

Wanted(row) ==
  IF row = None THEN {None}
  ELSE IF ~IsFiring(row) THEN {None, "resolved"}
  ELSE IF row.suppressed THEN {"silenced"} ELSE {"firing"}

Settled == \A t \in Names : tasks[t].pc = "idle"

(* As long as one task at a time is under way, nothing fails and nothing   *)
(* is inhibited, every card shows where its alert stands whenever all of   *)
(* them are idle, through each order of silences and webhooks.             *)
CardFollowsRow ==
  Settled /\ ~overlapped /\ inhibited = {} /\ left["inhibiting"] = Budget["inhibiting"]
  /\ left["faults"] = Budget["faults"] /\ left["restarts"] = Budget["restarts"]
  => \A f \in Fps : card[f] \in Wanted(rows[f])

(* "... converge after a restart or a partition": the same of the cards,   *)
(* without a word about what happened before.                              *)
CardsConverge ==
  calm >= 3 => \A f \in Fps :
    am[f] = "firing" <=> card[f] \in {"firing", "silenced", "acked"}

=============================================================================

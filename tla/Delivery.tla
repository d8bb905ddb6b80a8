------------------------------ MODULE Delivery ------------------------------
(***************************************************************************)
(* One card and its message: what a decision queues for the card           *)
(* (engine/src/decide.rs, update_for), how the dispatcher carries it out   *)
(* (runtime/src/dispatch.rs), what Discord then shows (discord/src/sink.rs)*)
(* and what is written back (store-postgres/src/store/outbox.rs).          *)
(*                                                                         *)
(* The effects of one card share a lane, so one worker at a time has them  *)
(* (Outbox), which is never slower than its lease here.  The queue is in   *)
(* claim order: each item is due in a number of ticks, 0 for now or before.*)
(***************************************************************************)
EXTENDS CardState, Naturals, FiniteSets, SequencesExt

CONSTANTS
  Policies,   (* The routes' settings to check.                            *)
  Debounce,   (* DecisionSettings::debounce, in ticks.                     *)
  Backoff,    (* The wait after a failed attempt, in ticks.                *)
  Budget,     (* Bound: how often each thing outside the pipeline occurs.  *)
  MaxUpsets   (* Bound: how often any of them but a delivery or a refresh does. *)

Sources ==
  {"deliveries", "acks", "requests", "faults", "refusals", "refreshes", "crashes", "idle",
   "tags", "losses"}

(* A forum route's ForumPolicy; a text route has none of it.               *)
Policy ==
  [ forum : BOOLEAN, archiveOnResolve : BOOLEAN, lockOnResolve : BOOLEAN,
    bump : BOOLEAN, pins : BOOLEAN, labelTag : BOOLEAN ]

Kinds ==
  {"post_card", "edit_card", "resync_card", "thread_note", "set_tags", "set_flags",
   "set_pinned", "disable_components", "escalate"}

(* Coalescable: a later item of the kind folds into one not yet claimed.   *)
Folds(kind) == kind \in {"edit_card", "resync_card", "set_tags"}

(* PostFlags with the state they were planned for.                         *)
Flags == [ archived : BOOLEAN, locked : BOOLEAN, window : {"week", "route"}, planned : States ]

Items == [ kind : Kinds, due : Nat, flags : Flags \cup {None}, pin : BOOLEAN ]

(* The tags of a post: one for the state, and the one named after a label, *)
(* by the id Discord gave it (0 is no such tag).                           *)
TagSet == [ state : States, label : Nat ]

Render == [ state : States, text : Nat ]

(* The columns of the card's row the dispatcher reads and writes.          *)
Row ==
  [ state : States, posted : BOOLEAN, hash : Render \cup {None},
    tags : TagSet \cup {None}, archived : BOOLEAN, pinned : BOOLEAN ]

(* The message as Discord has it.                                          *)
Post ==
  [ shown : Render, controls : BOOLEAN, tags : TagSet \cup {None}, archived : BOOLEAN,
    locked : BOOLEAN, window : {"week", "route"}, pinned : BOOLEAN ]

(* What a decision has read of an alert that changed.                      *)
Plan == [ kind : Events, alert : Alert, card : Row, held : BOOLEAN ]

(* What a worker read for an item, and then what came of the call, with    *)
(* the columns an effect reports (AppliedEffect), None for one it does not. *)
Reading == [ step : {"read"}, card : Row, text : Nat, known : Nat ]

Once == {TRUE, None}

Applied ==
  [ posted : Once, hash : Render \cup {None}, tags : TagSet \cup {None},
    archived : BOOLEAN \cup {None}, pinned : BOOLEAN \cup {None} ]

Answer == [ step : {"answered"}, verdict : {"done", "drop", "retry"}, applied : Applied ]

ASSUME DeliveryAssumption ==
  /\ Policies \subseteq Policy
  /\ Texts = Nat
  /\ Debounce \in Nat /\ Backoff \in Nat
  /\ Budget \in [ Sources -> Nat ] /\ MaxUpsets \in Nat
  /\ None \notin Alert /\ None \notin States \cup Events \cup Triggers /\ None \notin BOOLEAN
  /\ None \notin Render /\ None \notin TagSet /\ None \notin Post /\ None \notin Plan
  /\ None \notin Reading /\ None \notin Answer

VARIABLES
  policy,     (* The route.                                                *)
  alert, held,(* The alert stored, and whether it is acknowledged.         *)
  row,        (* The card's row.                                           *)
  plan,       (* A delivery between its reads and its transaction.         *)
  queue,      (* The outbox, in claim order.                               *)
  batch,      (* The items a worker has claimed, in order.                 *)
  doing,      (* What the worker read for the first of them, then what     *)
              (* came of the call.                                         *)
  post,       (* Discord: the message, None before it is posted.           *)
  labelTag,   (* The label tag's id at Discord and in the snapshot.        *)
  left        (* What is left of Budget.                                   *)

vars == <<policy, alert, held, row, plan, queue, batch, doing, post, labelTag, left>>

store == <<alert, held, row, plan>>

Free == {"deliveries", "refreshes"}

Upsets == { s \in Sources \ Free : left[s] < Budget[s] }

Spend(source) ==
  /\ left[source] > 0
  /\ source \notin Free => Cardinality(Upsets) < MaxUpsets
  /\ left' = [ left EXCEPT ![source] = @ - 1 ]

-----------------------------------------------------------------------------
(* The outbox.                                                             *)

Item(kind, due) == [ kind |-> kind, due |-> due, flags |-> None, pin |-> FALSE ]

(* The items of q at the places in S, as they follow each other.           *)
PlaceOf(S, n) == CHOOSE i \in S : Cardinality({ j \in S : j <= i }) = n
ItemsAt(q, S) == [ n \in 1..Cardinality(S) |-> q[PlaceOf(S, n)] ]

Sooner(q, due) == { i \in DOMAIN q : q[i].due <= due }

(* Claim order: by not_before, then by insertion.                          *)
Insert(q, item) == InsertAt(q, Cardinality(Sooner(q, item.due)) + 1, item)

Pending(q, kind) == Folds(kind) /\ \E i \in DOMAIN q : q[i].kind = kind

(* A mutant: a change folds into an item a worker is already at.           *)
EnqueueOverClaimed(q, item) ==
  IF Pending(batch, item.kind) THEN q ELSE Insert(q, item)

(* enqueue: what is folded into comes forward to the earlier of the times, *)
(* out of its backoff if it waits for one.                                 *)
Enqueue(q, item) ==
  IF ~Pending(q, item.kind) THEN Insert(q, item)
  ELSE LET sooner == Sooner(q, item.due)
           folded == { i \in DOMAIN q \ sooner : q[i].kind = item.kind }
           moved  == ItemsAt(q, folded)
       IN  ItemsAt(q, sooner)
           \o [ n \in DOMAIN moved |-> [ moved[n] EXCEPT !.due = item.due ] ]
           \o ItemsAt(q, DOMAIN q \ (sooner \cup folded))

EnqueueAll(q, items) == FoldLeft(Enqueue, q, items)

-----------------------------------------------------------------------------
(* What decide plans for a card it updates.                                *)

HoldsThreadOpen(state) == state \notin {"resolved", "orphaned"}
HasComponents(state) == IsOpen(state) \/ state = "ignored"
WantsPin(state) == state = "firing"

(* auto_archive_minutes.                                                   *)
Window(state) == IF HoldsThreadOpen(state) THEN "week" ELSE "route"

SetFlags(due, archived, locked, planned) ==
  [ kind |-> "set_flags", due |-> due, pin |-> FALSE,
    flags |-> [ archived |-> archived, locked |-> locked, window |-> Window(planned),
                planned |-> planned ] ]

SetPinned(pin) == [ Item("set_pinned", 0) EXCEPT !.pin = pin ]

(* reopened_post_window: behind the debounce, to land after a seal that is *)
(* still queued.                                                           *)
ReopenedPostWindow(card, effective) ==
  IF card.archived \/ card.state # "resolved" \/ ~HoldsThreadOpen(effective) THEN <<>>
  ELSE <<SetFlags(Debounce, FALSE, FALSE, effective)>>

(* A mutant: no tags are planned if the row says the post has them.        *)
ForumEffectsCompared(card, effective, moved) ==
  IF ~moved THEN <<>>
  ELSE (IF card.tags # None /\ card.tags.state = effective THEN <<>> ELSE <<Item("set_tags", 0)>>)
       \o (IF policy.bump THEN <<Item("thread_note", 0)>> ELSE <<>>)

(* forum_effects; the card's alert never changes over to another.          *)
ForumEffects(card, effective, moved) ==
  IF ~moved THEN <<>>
  ELSE <<Item("set_tags", 0)>>
       \o (IF policy.bump THEN <<Item("thread_note", 0)>> ELSE <<>>)
       \o (LET wants == policy.pins /\ WantsPin(effective)
           IN  IF wants # card.pinned THEN <<SetPinned(wants)>> ELSE <<>>)

(* A mutant: the seal goes ahead of the edit.                              *)
SealAtOnce(card) ==
  <<SetFlags(0, policy.archiveOnResolve, policy.archiveOnResolve /\ policy.lockOnResolve, "resolved")>>

(* resolved_post_flags: behind the edit.                                   *)
ResolvedPostFlags(card) ==
  IF ~policy.archiveOnResolve /\ card.archived THEN <<>>
  ELSE <<SetFlags(Debounce, policy.archiveOnResolve,
                  policy.archiveOnResolve /\ policy.lockOnResolve, "resolved")>>

(* update_for, for a card that is not orphaned; state is None if it stays. *)
Effects(card, state) ==
  LET effective == IF state = None THEN card.state ELSE state
      Forum(s)  == IF policy.forum THEN s ELSE <<>>
      gone      == state = "resolved"
  IN  (IF card.archived THEN <<SetFlags(0, FALSE, FALSE, effective)>> ELSE <<>>)
      \o Forum(ReopenedPostWindow(card, effective))
      \o <<Item("edit_card", Debounce)>>
      \o Forum(ForumEffects(card, effective, state # None))
      \o (IF gone THEN <<Item("disable_components", 0)>> ELSE <<>>)
      \o (IF gone THEN Forum(ResolvedPostFlags(card)) ELSE <<>>)

(* The state of update_for: see StateAfter in Cards.                       *)
StateAfter(p) ==
  LET new == NextState(p.card.state, TriggerFor(p.kind, p.alert, p.card.state, FALSE), p.held)
  IN  IF p.card.state = "resolved" /\ new \in {"firing", "acked"} /\ p.alert.suppressed
        THEN "silenced" ELSE new

-----------------------------------------------------------------------------
(***************************************************************************)
(* The card starts out as creation_for leaves it: the row is there, and    *)
(* its post is queued.                                                     *)
(***************************************************************************)
NewRow(state) ==
  [ state |-> state, posted |-> FALSE, hash |-> None, tags |-> None,
    archived |-> FALSE, pinned |-> FALSE ]

Init ==
  /\ policy \in Policies
  /\ alert = [ status |-> "firing", suppressed |-> FALSE, text |-> 0 ]
  /\ held = FALSE
  /\ row = NewRow(InitialState(alert))
  /\ plan = None
  /\ queue = <<Item("post_card", 0)>>
  /\ batch = <<>>
  /\ doing = None
  /\ post = None
  /\ labelTag = [ forum |-> 0, known |-> 0, last |-> 0 ]
  /\ left = Budget

(* A delivery is stored and the decision's reads are made; what a card     *)
(* shows (flap_count, starts_at, annotations) changes with a re-fire and   *)
(* with an update.                                                         *)
Deliver(new) ==
  LET kind == Classify(alert, new)
  IN  /\ plan = None
      /\ kind # None
      /\ kind = "fired" => new.text = alert.text + 1
      /\ Spend("deliveries")
      /\ alert' = new
      /\ plan' = [ kind |-> kind, alert |-> new, card |-> row, held |-> held ]
      /\ UNCHANGED <<policy, held, row, queue, batch, doing, post, labelTag>>

(* apply_decision, for an update: the state moves and the effects are      *)
(* queued in one transaction.                                              *)
ApplyDecision ==
  /\ plan # None
  /\ IF plan.card.state = "orphaned" THEN UNCHANGED <<row, queue>>
     ELSE LET state == StateAfter(plan)
          IN  /\ row' = IF state = None THEN row ELSE [ row EXCEPT !.state = state ]
              /\ queue' = EnqueueAll(queue, Effects(plan.card, state))
  /\ plan' = None
  /\ UNCHANGED <<policy, alert, held, batch, doing, post, labelTag, left>>

(* acknowledge, then re_render: the card is edited, and nothing else.      *)
Acknowledge ==
  LET trigger == IF held THEN "ack_revoked" ELSE "acknowledged"
      state   == NextState(row.state, trigger, ~held)
  IN  /\ Spend("acks")
      /\ row.state # "orphaned"
      /\ held' = ~held
      /\ row' = IF state = None THEN row ELSE [ row EXCEPT !.state = state ]
      /\ queue' = Enqueue(queue, Item("edit_card", 0))
      /\ UNCHANGED <<policy, alert, plan, batch, doing, post, labelTag>>

(* /cards resync, for a live forum card, and an escalation that is due.    *)
Request(kind) ==
  /\ Spend("requests")
  /\ kind = "resync_card" => policy.forum /\ HoldsThreadOpen(row.state)
  /\ kind = "escalate" => row.posted /\ row.state = "firing"
  /\ queue' = Enqueue(queue, Item(kind, 0))
  /\ UNCHANGED <<policy, alert, held, row, plan, batch, doing, post, labelTag>>

-----------------------------------------------------------------------------
(* The worker.                                                             *)

(* Time passes, whatever else goes on.                                     *)
Tick ==
  /\ \E i \in DOMAIN queue : queue[i].due > 0
  /\ queue' = [ i \in DOMAIN queue |->
                  [ queue[i] EXCEPT !.due = IF @ = 0 THEN 0 ELSE @ - 1 ] ]
  /\ UNCHANGED <<policy, store, batch, doing, post, labelTag, left>>

Claim ==
  LET due == Sooner(queue, 0)
  IN  /\ batch = <<>> /\ due # {}
      /\ batch' = ItemsAt(queue, due)
      /\ queue' = ItemsAt(queue, DOMAIN queue \ due)
      /\ UNCHANGED <<policy, store, doing, post, labelTag, left>>

(* The process dies, or the lease runs out; the batch is due again.        *)
Crash ==
  /\ batch # <<>>
  /\ Spend("crashes")
  /\ queue' = batch \o queue
  /\ batch' = <<>>
  /\ doing' = None
  /\ UNCHANGED <<policy, store, post, labelTag>>

(* Cards::assemble, or the read of the row alone.                          *)
ReadRow ==
  /\ batch # <<>> /\ doing = None
  /\ doing' = [ step |-> "read", card |-> row, text |-> alert.text, known |-> labelTag.known ]
  /\ UNCHANGED <<policy, store, queue, batch, post, labelTag, left>>

Handling(kind) == doing # None /\ doing.step = "read" /\ Head(batch).kind = kind

(* An effect that reports no column.                                       *)
Nothing == [ posted |-> None, hash |-> None, tags |-> None, archived |-> None, pinned |-> None ]

(* apply_to_card: COALESCE.                                                *)
Coalesce(new, old) == IF new = None THEN old ELSE new

ApplyToCard(card, applied) ==
  [ card EXCEPT !.posted   = Coalesce(applied.posted, @),
                !.hash     = Coalesce(applied.hash, @),
                !.tags     = Coalesce(applied.tags, @),
                !.archived = Coalesce(applied.archived, @),
                !.pinned   = Coalesce(applied.pinned, @) ]

Answered(verdict, applied) ==
  doing' = [ step |-> "answered", verdict |-> verdict, applied |-> applied ]

Done(applied) == Answered("done", applied)
Dropped       == Answered("drop", Nothing)

Rendered(card, text) == [ state |-> card.state, text |-> text ]

(* reopening: a call refused for an archived thread is made again once the *)
(* thread has been opened for a week.                                      *)
Reopened(p)     == IF p.archived THEN [ p EXCEPT !.archived = FALSE, !.locked = FALSE, !.window = "week" ] ELSE p
ReopenNoted(p)  == [ Nothing EXCEPT !.archived = IF p.archived THEN FALSE ELSE None ]

TagState(state) == IF state \in {"acked", "silenced", "resolved"} THEN state ELSE "firing"

(* desired_tags: a name that does not resolve is left off.                 *)
DesiredTags(card, known) ==
  IF ~policy.forum THEN None
  ELSE [ state |-> TagState(card.state), label |-> IF policy.labelTag THEN known ELSE 0 ]

(* missing_label_tags.                                                     *)
LabelTagMissing == policy.forum /\ policy.labelTag /\ labelTag.known = 0

(* create_label_tags: the tag the snapshot does not know is created unless *)
(* the channel has it, and the snapshot rebuilt.  Either may fail, and the *)
(* card goes out without.                                                  *)
LabelTagged ==
  IF ~LabelTagMissing THEN {labelTag}
  ELSE LET id   == IF labelTag.forum # 0 THEN labelTag.forum ELSE labelTag.last + 1
           made == [ forum |-> id, known |-> id, last |-> IF id > labelTag.last THEN id ELSE labelTag.last ]
       IN  {labelTag, made, [ made EXCEPT !.known = 0 ]}

UnknownTag(tags, tag) == tags # None /\ tags.label \notin {0, tag.forum}

(***************************************************************************)
(* What a post or a retag works with: the card as first assembled, and     *)
(* assembled again when a tag was created or the channel turned out not to *)
(* have one (resync_forum_tags).                                           *)
(***************************************************************************)
Again(tag) == [ card |-> row, text |-> alert.text, tags |-> DesiredTags(row, tag.known), tag |-> tag ]

First(tag) ==
  IF tag.known = labelTag.known
    THEN [ card |-> doing.card, text |-> doing.text,
           tags |-> DesiredTags(doing.card, doing.known), tag |-> tag ]
    ELSE Again(tag)

(* A call that names no tag (a skipped one) cannot find it unknown.        *)
Assembled(tag, skip) ==
  IF ~skip /\ UnknownTag(First(tag).tags, tag) THEN Again([ tag EXCEPT !.known = tag.forum ])
  ELSE First(tag)

-----------------------------------------------------------------------------
(* The handlers of Dispatcher::apply, with what the sink does at Discord.  *)

(* message, thread: the row names none yet, and the effect is dropped.     *)
Unposted == ~doing.card.posted

(* born_pinned.                                                            *)
BornPinned(state) == policy.forum /\ policy.pins /\ WantsPin(state)

(* post: Discord may refuse the pin it asks for.                           *)
PostCard ==
  /\ Handling("post_card")
  /\ IF doing.card.posted THEN Dropped /\ UNCHANGED <<post, labelTag>>
     ELSE \E tag \in LabelTagged, granted \in BOOLEAN :
           LET a   == Assembled(tag, FALSE)
               pin == granted /\ BornPinned(a.card.state)
           IN  /\ post' = [ shown |-> Rendered(a.card, a.text),
                            controls |-> HasComponents(a.card.state), tags |-> a.tags,
                            archived |-> FALSE, locked |-> FALSE,
                            window |-> Window(a.card.state), pinned |-> pin ]
               /\ labelTag' = a.tag
               /\ Done([ Nothing EXCEPT !.posted = TRUE, !.hash = Rendered(a.card, a.text),
                                         !.tags = a.tags, !.pinned = IF pin THEN TRUE ELSE None ])
  /\ UNCHANGED <<policy, store, queue, batch, left>>

(* edit_card of the sink; the message keeps its controls by its state.     *)
Redrawn(p) ==
  [ Reopened(p) EXCEPT !.shown = Rendered(doing.card, doing.text),
                       !.controls = HasComponents(doing.card.state) ]

(* orphan_notification, and the effect is dropped.                         *)
MessageDeleted ==
  /\ row' = [ row EXCEPT !.state = "orphaned", !.posted = FALSE, !.pinned = FALSE ]
  /\ Dropped
  /\ UNCHANGED post

EditCard ==
  LET render == Rendered(doing.card, doing.text)
  IN  /\ Handling("edit_card")
      /\ IF Unposted THEN Dropped /\ UNCHANGED <<row, post>>
         ELSE IF doing.card.hash = render THEN Done(Nothing) /\ UNCHANGED <<row, post>>
         ELSE IF post = None THEN MessageDeleted
         ELSE /\ post' = Redrawn(post)
              /\ Done([ ReopenNoted(post) EXCEPT !.hash = render ])
              /\ UNCHANGED row
      /\ UNCHANGED <<policy, alert, held, plan, queue, batch, labelTag, left>>

(* resync: an edit and the tags, whatever the hashes say.  A tag that is   *)
(* not there fails the second half after the first went out.               *)
ResyncCard ==
  LET tags == DesiredTags(doing.card, doing.known)
  IN  /\ Handling("resync_card")
      /\ IF Unposted THEN Dropped /\ UNCHANGED <<row, post>>
         ELSE IF post = None THEN MessageDeleted
         ELSE /\ UNCHANGED row
              /\ IF UnknownTag(tags, labelTag) THEN Dropped /\ post' = Redrawn(post)
                 ELSE /\ post' = [ Redrawn(post) EXCEPT !.tags = tags ]
                      /\ Done([ ReopenNoted(post) EXCEPT
                                  !.hash = Rendered(doing.card, doing.text), !.tags = tags ])
      /\ UNCHANGED <<policy, alert, held, plan, queue, batch, labelTag, left>>

(* needs_tag_update.                                                       *)
Skip(a) == a.card.tags = a.tags

(* retag.                                                                  *)
SetTags ==
  /\ Handling("set_tags")
  /\ IF Unposted THEN Dropped /\ UNCHANGED <<post, labelTag>>
     ELSE \E tag \in LabelTagged :
            LET a == Assembled(tag, Skip(First(tag)))
            IN  /\ labelTag' = a.tag
                /\ IF Skip(a) THEN Done(Nothing) /\ UNCHANGED post
                   ELSE IF post = None THEN Dropped /\ UNCHANGED post
                   ELSE /\ post' = [ Reopened(post) EXCEPT !.tags = a.tags ]
                        /\ Done([ ReopenNoted(post) EXCEPT !.tags = a.tags ])
  /\ UNCHANGED <<policy, store, queue, batch, left>>

(* note, and escalate for a card that is still unanswered.                 *)
Say(kind) ==
  /\ Handling(kind)
  /\ IF \/ Unposted \/ post = None
        \/ kind = "escalate" /\ doing.card.state # "firing"
       THEN Dropped /\ UNCHANGED post
       ELSE post' = Reopened(post) /\ Done(ReopenNoted(post))
  /\ UNCHANGED <<policy, store, queue, batch, labelTag, left>>

ThreadNote == Say("thread_note")
Escalate   == Say("escalate")

(* Stale: the card has crossed between resolved and live since.            *)
Superseded(flags) == HoldsThreadOpen(flags.planned) # HoldsThreadOpen(doing.card.state)

SetPostFlags ==
  LET flags == Head(batch).flags
  IN  /\ Handling("set_flags")
      /\ IF Superseded(flags) THEN Done(Nothing) /\ UNCHANGED post
         ELSE IF Unposted \/ post = None THEN Dropped /\ UNCHANGED post
         ELSE /\ post' = [ post EXCEPT !.archived = flags.archived, !.locked = flags.locked,
                                       !.window = flags.window ]
              /\ Done([ Nothing EXCEPT !.archived = flags.archived ])
      /\ UNCHANGED <<policy, store, queue, batch, labelTag, left>>

(* pin: no room, an archived thread or a refusal leave the pin as it is.   *)
SetPostPinned ==
  /\ Handling("set_pinned")
  /\ IF Unposted \/ post = None THEN Dropped /\ UNCHANGED post
     ELSE \E granted \in BOOLEAN :
            IF granted /\ ~post.archived
              THEN /\ post' = [ post EXCEPT !.pinned = Head(batch).pin ]
                   /\ Done([ Nothing EXCEPT !.pinned = Head(batch).pin ])
              ELSE Done(Nothing) /\ UNCHANGED post
  /\ UNCHANGED <<policy, store, queue, batch, labelTag, left>>

DisableComponents ==
  /\ Handling("disable_components")
  /\ IF Unposted \/ post = None THEN Dropped /\ UNCHANGED post
     ELSE post' = [ Reopened(post) EXCEPT !.controls = FALSE ] /\ Done(ReopenNoted(post))
  /\ UNCHANGED <<policy, store, queue, batch, labelTag, left>>

(* The item's handler makes no call at the thread but the last one.        *)
Straight ==
  \/ Unposted \/ post = None
  \/ Head(batch).kind \in {"post_card", "set_flags", "set_pinned"}
  \/ Head(batch).kind = "edit_card" /\ doing.card.hash = Rendered(doing.card, doing.text)
  \/ Head(batch).kind = "escalate" /\ doing.card.state # "firing"

(* What stands of an item when one of its calls fails: the thread may have *)
(* been opened for it, and of a redraw the card drawn and its tags not set. *)
HalfDone ==
  IF Straight THEN {post}
  ELSE {post, Reopened(post)} \cup (IF Head(batch).kind = "resync_card" THEN {Redrawn(post)} ELSE {})

(* The calls, or the reads, of the item in hand end in a failure.          *)
Broken(verdict) ==
  /\ doing # None /\ doing.step = "read"
  /\ Answered(verdict, Nothing)
  /\ post' \in HalfDone
  /\ labelTag' \in IF Head(batch).kind \in {"post_card", "set_tags"} THEN LabelTagged ELSE {labelTag}
  /\ UNCHANGED <<policy, store, queue, batch>>

(* One that is tried again: a rate limit, a server error, a failed read.   *)
CallFails == Spend("faults") /\ Broken("retry")

(* One that is not: missing permissions or a channel of the wrong kind     *)
(* (Blocked), another final error (Drop), or the last of MAX_ATTEMPTS; and *)
(* the release of a deleted card that fails.                               *)
CallRefused == Spend("refusals") /\ Broken("drop")

(* The refresh after an unknown tag fails, and the refusal stands.         *)
RefreshFails ==
  /\ \/ Handling("post_card") /\ Unposted
     \/ Handling("set_tags") /\ ~Unposted /\ post # None
  /\ \E tag \in LabelTagged :
       /\ UnknownTag(First(tag).tags, tag)
       /\ Handling("set_tags") => ~Skip(First(tag))
       /\ labelTag' = tag
  /\ Spend("refreshes")
  /\ Dropped
  /\ post' \in HalfDone
  /\ UNCHANGED <<policy, store, queue, batch>>

(* A call went through and its answer is lost.                             *)
AnswerLost ==
  /\ doing # None /\ doing.step = "answered" /\ doing.verdict = "done"
  /\ Spend("crashes")
  /\ Answered("retry", Nothing)
  /\ UNCHANGED <<policy, store, queue, batch, post, labelTag>>

(* A mutant: what was read for one item serves the next.                   *)
SettleKeepingRead ==
  /\ doing # None /\ doing.step = "answered"
  /\ row' = ApplyToCard(row, doing.applied)
  /\ batch' = Tail(batch)
  /\ UNCHANGED <<policy, alert, held, plan, queue, doing, post, labelTag, left>>

(* complete_outbox, or fail_outbox.                                        *)
Settle ==
  /\ doing # None /\ doing.step = "answered"
  /\ row' = ApplyToCard(row, doing.applied)
  /\ queue' = IF doing.verdict = "retry" THEN Insert(queue, [ Head(batch) EXCEPT !.due = Backoff ])
              ELSE queue
  /\ batch' = Tail(batch)
  /\ doing' = None
  /\ UNCHANGED <<policy, alert, held, plan, post, labelTag, left>>

-----------------------------------------------------------------------------
(* Discord, by itself or by its users: an idle thread is archived, a tag   *)
(* or the message is deleted.                                              *)
IdleArchive ==
  /\ policy.forum /\ post # None /\ ~post.archived
  /\ Spend("idle")
  /\ post' = [ post EXCEPT !.archived = TRUE ]
  /\ UNCHANGED <<policy, store, queue, batch, doing, labelTag>>

DeleteTag ==
  /\ labelTag.forum # 0
  /\ Spend("tags")
  /\ labelTag' = [ labelTag EXCEPT !.forum = 0 ]
  /\ post' = IF post = None \/ post.tags = None THEN post ELSE [ post EXCEPT !.tags.label = 0 ]
  /\ UNCHANGED <<policy, store, queue, batch, doing>>

DeleteMessage ==
  /\ post # None
  /\ Spend("losses")
  /\ post' = None
  /\ UNCHANGED <<policy, store, queue, batch, doing, labelTag>>

Handle ==
  \/ PostCard \/ EditCard \/ ResyncCard \/ SetTags \/ ThreadNote \/ Escalate
  \/ SetPostFlags \/ SetPostPinned \/ DisableComponents

Work == Claim \/ ReadRow \/ Handle \/ Settle

Incoming ==
  { [ status |-> s, suppressed |-> b, text |-> t ] :
      s \in {"firing", "resolved"}, b \in BOOLEAN, t \in {alert.text, alert.text + 1} }

Next ==
  \/ \E new \in Incoming : Deliver(new)
  \/ ApplyDecision
  \/ Acknowledge
  \/ \E kind \in {"resync_card", "escalate"} : Request(kind)
  \/ Tick
  \/ Work
  \/ Crash \/ CallFails \/ CallRefused \/ RefreshFails \/ AnswerLost
  \/ IdleArchive \/ DeleteTag \/ DeleteMessage

Spec == Init /\ [][Next]_vars

-----------------------------------------------------------------------------
TypeOK ==
  /\ policy \in Policies
  /\ alert \in Alert /\ held \in BOOLEAN
  /\ row \in Row
  /\ \A i \in DOMAIN queue : queue[i] \in Items
  /\ \A i \in DOMAIN batch : batch[i] \in Items
  /\ doing \in Reading \cup Answer \cup {None}
  /\ doing # None => batch # <<>>
  /\ post \in Post \cup {None}
  /\ labelTag \in [ {"forum", "known", "last"} -> Nat ]
  /\ left \in [ Sources -> Nat ]

(* Nothing is under way: what was decided has been carried out.            *)
Settled == plan = None /\ queue = <<>> /\ batch = <<>>

Visible == Settled /\ row.posted /\ post # None

Unused(source) == left[source] = Budget[source]

(* "The card catches up through the same queue" (re_render): once nothing  *)
(* is under way the row's hash is of the card as it is, whatever was       *)
(* retried, folded or carried out twice on the way, unless an effect was   *)
(* dropped for good; and that is what the message shows, unless a worker's *)
(* report was lost, or a redraw asked for was cut after its edit.          *)
MessageCatchesUp ==
  Visible =>
    /\ Unused("refusals") => row.hash = Rendered(row, alert.text)
    /\ /\ Unused("crashes")
       /\ Unused("requests") \/ \A s \in {"tags", "faults", "refusals"} : Unused(s)
       => post.shown = row.hash

(* "A thread that archives during an incident takes the discussion with it" *)
(* (holds_thread_open): a live card's post is never left sealed or with the *)
(* short window, however fast the alert flapped, unless an effect was      *)
(* dropped for good; only Discord's inactivity archives it.                *)
LivePostHeldOpen ==
  Visible /\ policy.forum /\ HoldsThreadOpen(row.state) /\ Unused("refusals") =>
    /\ ~post.locked /\ post.window = "week"
    /\ post.archived => ~Unused("idle")

(* "The claim order re-renders the card before the post is sealed"         *)
(* (resolved_post_flags): the post of an alert that has only resolved is   *)
(* left on the short window, not opened again by an effect of its own.  An *)
(* acknowledgement, an update or a call that failed can do that.           *)
ResolvedPostLetGo ==
  /\ Visible /\ policy.forum /\ row.state = "resolved" /\ alert.text = 0
  /\ \A s \in {"acks", "faults", "refusals", "refreshes", "crashes", "idle"} : Unused(s)
  => post.window = "route"

(* Both, of a forum post's window: long while its card is live, and not    *)
(* opened again for an alert that has only resolved.                       *)
PostFollowsCard == LivePostHeldOpen /\ ResolvedPostLetGo

(* The set is resolved "against the card as it is at the time of the call" *)
(* (retag): the state tag recorded for a post is its card's, unless        *)
(* somebody acknowledged the alert or an effect was dropped, for good or   *)
(* for tags that could not be read again; and the post has it, unless a    *)
(* worker's report was lost.                                               *)
TagsFollowDecisions ==
  Visible /\ policy.forum =>
    /\ (\A s \in {"acks", "refusals", "refreshes"} : Unused(s)) => row.tags.state = TagState(row.state)
    /\ Unused("crashes") => post.tags.state = row.tags.state

=============================================================================

-------------------------------- MODULE Storm --------------------------------
(***************************************************************************)
(* Under which key an alert's card is looked up and posted                 *)
(* (engine/src/decide.rs, dedupe_keys), the count of a route's load that   *)
(* turns it to a rolling digest (engine/src/storm.rs), and what /debug     *)
(* says of two cards that an operator expected to be one                   *)
(* (engine/src/explain.rs).  What else a decision does is in Cards.        *)
(*                                                                         *)
(* One channel, the batches one after the other; whose reads and writes    *)
(* interleave is the matter of Cards.                                      *)
(***************************************************************************)
EXTENDS Integers, Sequences, FiniteSets, SequencesExt

CONSTANTS
  Members,      (* The alerts, of one Alertmanager group.                  *)
  Shapes,       (* Strategies and targets of "own", and identity policies. *)
  Threshold, ForumThreshold, StormWindow,
  Retained,     (* RETAINED_PER_ROUTE.                                     *)
  DigestWindow, Regroup,
  StormTime,    (* Bound: the clock.                                       *)
  Batches,      (* Bound: batches.                                         *)
  Upsets        (* Bound: restarts with another policy, deleted messages.  *)

Feeds == {"own", "rolling"}     (* "rolling" has the digest strategy.     *)

Strategies == {"per_alert", "per_group"}

ASSUME StormAssumption ==
  /\ IsFiniteSet(Members) /\ "merged" \notin Members
  /\ Shapes \subseteq [ strategy : Strategies, forum : BOOLEAN, merged : BOOLEAN ]
  /\ {Threshold, ForumThreshold, StormWindow, Retained, Regroup, StormTime} \subseteq Nat
  /\ DigestWindow \in Nat \ {0}

VARIABLES
  route,        (* The strategy and the target of "own".                   *)
  merged,       (* The identity policy: all alerts one, or each its own.   *)
  clock, firing,
  grouped,      (* Alerts of which a group key was delivered.              *)
  seen,         (* StormCounter::seen, of "own"; nobody asks of another.   *)
  storming,     (* The verdict on the batch.                               *)
  todo,         (* What apply_deltas has yet to decide of the batch.       *)
  cards,        (* The notifications, in the order of their ids.           *)
  batches, upsets,
  folded,       (* History: alerts that fired into a digest of "own".      *)
  stormed, repolicied

storm == <<route, merged, clock, firing, grouped, seen, storming, todo, cards,
          batches, upsets, folded, stormed, repolicied>>

StormInit ==
  /\ \E shape \in Shapes :
       /\ route = [ strategy |-> shape.strategy, forum |-> shape.forum ]
       /\ merged = shape.merged
  /\ clock = 0 /\ firing = {} /\ grouped = {}
  /\ seen = <<>>
  /\ storming = FALSE /\ todo = {} /\ cards = <<>>
  /\ batches = 0 /\ upsets = 0 /\ folded = {}
  /\ stormed = FALSE /\ repolicied = FALSE

-----------------------------------------------------------------------------
(* StormCounter.                                                           *)

(* As many arrivals are kept, the newest.                                  *)
Cap == LET most == IF Threshold >= ForumThreshold THEN Threshold ELSE ForumThreshold
       IN  IF Retained * most > 1 THEN Retained * most ELSE 1

Observe(arrivals, n) ==
  LET all == arrivals \o [ i \in 1..n |-> clock ]
  IN  SubSeq(all, (IF Len(all) > Cap THEN Len(all) - Cap ELSE 0) + 1, Len(all))

(* Those in front that are out of the window go.                           *)
Snapshot(arrivals) ==
  LET first == SelectInSeq(arrivals, LAMBDA at : at >= clock - StormWindow)
  IN  IF first = 0 THEN <<>> ELSE SubSeq(arrivals, first, Len(arrivals))

ThresholdForOwn == IF route.forum THEN ForumThreshold ELSE Threshold

-----------------------------------------------------------------------------
(* Keys.                                                                   *)

Identity(f) == IF merged THEN "merged" ELSE f

PerAlert(f) == [ scope |-> "alert", of |-> Identity(f) ]
PerGroup    == [ scope |-> "group", of |-> "group" ]
Digest(r)   == [ scope |-> "digest", of |-> r, window |-> clock - (clock % DigestWindow) ]

Configured(f) ==
  IF route.strategy = "per_group" /\ f \in grouped THEN PerGroup ELSE PerAlert(f)

(* A mutant: while a route storms only the digest is looked up.            *)
DedupeKeysDigestOnly(f, r) ==
  IF r = "rolling" \/ storming THEN << Digest(r) >> ELSE << Configured(f) >>

DedupeKeys(f, r) ==
  CASE r = "rolling"           -> << Digest(r) >>
    [] r = "own" /\ storming  -> << Configured(f), Digest(r) >>
    [] r = "own" /\ ~storming -> << Configured(f) >>

(* notification_for: a card that gave its key up is not found.             *)
Under(key) == { i \in DOMAIN cards : cards[i].key = key /\ cards[i].retired = "no" }

-----------------------------------------------------------------------------
(* Decisions.                                                              *)

Outlived(i, f) ==
  cards[i].state = "resolved" /\ f \in firing /\ clock - cards[i].resolvedAt > Regroup

Siblings(f) == { g \in firing \ {f} : Identity(g) = Identity(f) }

Updated(card, f) ==
  CASE f \in firing -> [ card EXCEPT !.state = "firing", !.alert = f ]
    [] f \notin firing /\ card.key = PerAlert(f) /\ Siblings(f) # {} ->
         [ card EXCEPT !.alert = IF @ \in Siblings(f) THEN @ ELSE CHOOSE g \in Siblings(f) : TRUE ]
    [] OTHER ->
         [ card EXCEPT !.alert = f, !.state = "resolved",
                       !.resolvedAt = IF card.state = "firing" THEN clock ELSE @ ]

(* What decide plans of a change on a route: one card to change, or to     *)
(* post, in place of the first it outlived if there is one.                *)
Plan(f, r) ==
  LET keys == DedupeKeys(f, r)
      found == [ k \in DOMAIN keys |-> Under(keys[k]) ]
      held == SelectInSeq(found, LAMBDA ids : \E i \in ids : ~Outlived(i, f))
      past == SelectInSeq(found, LAMBDA ids : \E i \in ids : Outlived(i, f))
  IN  IF held # 0
        THEN [ do |-> "update", card |-> CHOOSE i \in found[held] : TRUE ]
        ELSE [ do |-> IF f \in firing THEN "create" ELSE "nothing", key |-> Last(keys),
               supersedes |-> IF past = 0 THEN 0 ELSE CHOOSE i \in found[past] : TRUE ]

(* retire_key: a card that is replaced gives its key up, if it is the one  *)
(* its replacement takes.                                                  *)
Retire(rows, id, key) ==
  IF id = 0 \/ rows[id].key # key THEN rows ELSE [ rows EXCEPT ![id].retired = "superseded" ]

Carried(rows, f, r, plan) ==
  CASE plan.do = "update" -> [ rows EXCEPT ![plan.card] = Updated(@, f) ]
    [] plan.do = "create" ->
         Append(Retire(rows, plan.supersedes, plan.key),
                [ route |-> r, key |-> plan.key, retired |-> "no", alert |-> f, state |-> "firing",
                  resolvedAt |-> 0, supersedes |-> plan.supersedes ])
    [] OTHER -> rows

Keyed(rows) ==
  \A i, j \in DOMAIN rows :
    rows[i].retired = "no" /\ rows[j].retired = "no" /\ rows[i].key = rows[j].key => i = j

(* The table after all that is planned of a change.                        *)
Written(f) ==
  Carried(Carried(cards, f, "own", Plan(f, "own")), f, "rolling", Plan(f, "rolling"))

(* One decision of apply_deltas, all its routes in one transaction, which  *)
(* the unique index on the keys of a channel rolls back.                   *)
Decide(f) ==
  LET own == Plan(f, "own")
  IN  /\ f \in todo
      /\ cards' = IF Keyed(Written(f)) THEN Written(f) ELSE cards
      /\ folded' = IF /\ f \in firing /\ Keyed(Written(f))
                       /\ \/ own.do = "create" /\ own.key.scope = "digest"
                          \/ own.do = "update" /\ cards[own.card].key.scope = "digest"
                    THEN folded \cup {f} ELSE folded \ {f}
      /\ todo' = todo \ {f}
      /\ UNCHANGED <<route, merged, clock, firing, grouped, seen, storming, batches, upsets,
                     stormed, repolicied>>

(* A batch with a change of each of its alerts: count_storm.  Of a webhook *)
(* the alerts have a group key, which no route but a per-group one needs.  *)
Arrive(batch, webhook) ==
  /\ todo = {} /\ batches < Batches
  /\ webhook => route.strategy = "per_group"
  /\ batches' = batches + 1
  /\ \E ended \in SUBSET (batch \cap firing) : firing' = (firing \cup batch) \ ended
  /\ grouped' = IF webhook THEN grouped \cup batch ELSE grouped
  /\ seen' = Snapshot(Observe(seen, Cardinality(batch)))
  /\ storming' = (Len(seen') >= ThresholdForOwn)
  /\ stormed' = (stormed \/ storming')
  /\ todo' = batch
  /\ UNCHANGED <<route, merged, clock, cards, upsets, folded, repolicied>>

Elapse ==
  /\ clock < StormTime /\ todo = {}
  /\ clock' = clock + 1
  /\ UNCHANGED <<route, merged, firing, grouped, seen, storming, todo, cards, batches, upsets, folded, stormed, repolicied>>

(* The message of a card is found deleted.                                 *)
Orphan(i) ==
  /\ cards[i].retired = "no" /\ upsets < Upsets
  /\ upsets' = upsets + 1
  /\ cards' = [ cards EXCEPT ![i].retired = "orphaned", ![i].state = "orphaned" ]
  /\ UNCHANGED <<route, merged, clock, firing, grouped, seen, storming, todo, batches,
                 folded, stormed, repolicied>>

(* A restart, with another identity policy; the counter is in memory.      *)
Repolicy ==
  /\ todo = {} /\ upsets < Upsets /\ ~repolicied
  /\ upsets' = upsets + 1
  /\ merged' = ~merged /\ repolicied' = TRUE
  /\ seen' = <<>> /\ storming' = FALSE
  /\ UNCHANGED <<route, clock, firing, grouped, todo, cards, batches, folded, stormed>>

StormNext ==
  \/ \E batch \in SUBSET Members \ {{}}, webhook \in BOOLEAN : Arrive(batch, webhook)
  \/ \E f \in Members : Decide(f)
  \/ \E i \in DOMAIN cards : Orphan(i)
  \/ Elapse \/ Repolicy

StormSpec == StormInit /\ [][StormNext]_storm

-----------------------------------------------------------------------------
(* explain.rs.                                                             *)

StrategyOf(card) ==
  CASE card.key.scope = "alert" -> "per_alert"
    [] card.key.scope = "group" -> "per_group"
    [] card.key.scope = "digest" /\ card.route = "own" -> "storm_digest"
    [] OTHER -> "digest"

SeparateScopes(a, b) ==
  CASE a.key.scope = "alert" /\ b.key.scope = "alert" ->
         IF Identity(a.alert) = Identity(b.alert) THEN "keyed_before_policy" ELSE "different_identities"
    [] a.key.scope = "digest" /\ b.key.scope = "digest" ->
         IF a.key.of # b.key.of THEN "different_digest_routes"
         ELSE IF a.key.window # b.key.window THEN "different_digest_windows" ELSE "unexplained"
    [] OTHER -> IF StrategyOf(a) = StrategyOf(b) THEN "unexplained" ELSE "different_strategies"

(* A mutant: the keys are compared before a replacement is recognised.     *)
ExplainKeysFirst(i, j) == SeparateScopes(cards[i], cards[j])

(* explain_separation: the first reason of two cards of the channel.  Of   *)
(* one group, one channel and alerts that are in the table, no other       *)
(* reason applies.                                                         *)
Explain(i, j) ==
  LET a == cards[i]
      b == cards[j]
  IN  IF a.supersedes = j \/ b.supersedes = i THEN "replaced"
      ELSE IF a.retired # "no" \/ b.retired # "no" THEN "retired"
      ELSE SeparateScopes(a, b)

Key ==
  [ scope : {"alert"}, of : Members \cup {"merged"} ] \cup [ scope : {"group"}, of : {"group"} ]
    \cup [ scope : {"digest"}, of : Feeds, window : 0..StormTime ]

(* A row of the notifications table.                                       *)
Notification ==
  [ route : Feeds, key : Key, retired : {"no", "superseded", "orphaned"}, alert : Members,
    state : {"firing", "resolved", "orphaned"}, resolvedAt : 0..StormTime, supersedes : Nat ]

(* The type invariant; no two cards of the channel hold one key, and what  *)
(* is kept of a route's arrivals is bounded, and enough for the threshold. *)
StormTypeOK ==
  /\ route \in [ strategy : Strategies, forum : BOOLEAN ] /\ merged \in BOOLEAN
  /\ clock \in 0..StormTime /\ firing \subseteq Members /\ grouped \subseteq Members
  /\ seen \in Seq(0..clock) /\ Len(seen) <= Cap
  /\ todo \subseteq Members /\ folded \subseteq Members
  /\ storming \in BOOLEAN /\ stormed \in BOOLEAN /\ repolicied \in BOOLEAN
  /\ cards \in Seq(Notification)
  /\ \A i \in DOMAIN cards :
       /\ cards[i].supersedes < i
       /\ cards[i].state = "orphaned" <=> cards[i].retired = "orphaned"
  /\ Keyed(cards)

(* "An alert that already has a card goes on being edited on it even while *)
(* the route digests ... it would leave it saying firing long after the    *)
(* alert had stopped" (dedupe_keys): once a batch is decided, the card     *)
(* under an alert's own key fires only if an alert of that key does, and   *)
(* is resolved only if each of these that fires does so on a digest.       *)
OwnCardFollows ==
  todo = {} /\ route.strategy = "per_alert" =>
    \A f \in Members, i \in DOMAIN cards :
      i \in Under(PerAlert(f)) =>
        LET live == { g \in firing : Identity(g) = Identity(f) }
        IN  /\ cards[i].state = "firing" => live # {}
            /\ cards[i].state = "resolved" => live \subseteq folded

(* "Not reachable through the decision as written" (Unexplained): /debug   *)
(* always has a reason for two cards; it blames the policy only after it   *)
(* was changed and a storm only on a route that had one.                   *)
SeparationIsExplained ==
  \A i, j \in DOMAIN cards :
    i # j =>
      /\ Explain(i, j) # "unexplained"
      /\ Explain(i, j) = "keyed_before_policy" => repolicied
      /\ StrategyOf(cards[i]) = "storm_digest" => stormed

(* "Another worker created the same card first ... the winner's row is     *)
(* there, and the next change edits it" (apply_deltas, of a conflict): as  *)
(* one batch comes after the other there is no other worker, so that no    *)
(* decision should conflict.                                               *)
NobodyWasFirst == \A f \in todo : Keyed(Written(f))

=============================================================================

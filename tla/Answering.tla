----------------------------- MODULE Answering -----------------------------
(***************************************************************************)
(* People answering one alert: they take it, release it and hand it over   *)
(* from buttons and commands (discord/src/components.rs, actions.rs,       *)
(* commands/alerts.rs), they write in the threads of its cards             *)
(* (discord/src/bot.rs, message), and its cards follow (runtime/src/       *)
(* cards.rs, dispatch.rs, edit).                                           *)
(*                                                                         *)
(* Every card of the alert has its key, so that one effect at a time is    *)
(* worked on (Outbox).  What else changes a card is in Cards; here the     *)
(* alert is silenced, or resolves, once.                                   *)
(***************************************************************************)
EXTENDS Integers, FiniteSets

CONSTANTS
  People,
  CardIds,      (* The cards of the alert, one in each channel.            *)
  Nobody,       (* The Option without a value.                             *)
  Texts,        (* CardState's.                                            *)
  MaxCalls,     (* Bound: commands, buttons and replies.                   *)
  Mishaps       (* Bound: failed calls and lost ones.                      *)

INSTANCE CardState WITH None <- Nobody

VARIABLES
  held,         (* The acknowledgement that is not revoked: whose.         *)
  cards,        (* The state and the replies of each row.                  *)
  acting,       (* What each person's interaction is at.                   *)
  redraws,      (* Cards with an edit waiting; a second folds into it.     *)
  edit,         (* The one under way: its card, and what it has read.      *)
  shown,        (* What each message shows,                                *)
  drawn,        (* and what its row's hash says it does.                   *)
  calls, mishaps,
  released,     (* History: nobody has taken it since the last release.    *)
  behind,       (* History: cards with an edit that was lost or given up,  *)
                (* or read amiss, and none begun since;                    *)
  unsure        (* and those changed by an edit whose completion was lost, *)
                (* and by none since.                                      *)

answering == <<held, cards, acting, redraws, edit, shown, drawn, calls, mishaps, released, behind, unsure>>

delivery == <<redraws, edit, shown, drawn>>

Holders == People \cup {Nobody}
Rows    == [ state : States, replies : Nat ]
Edits   == [ card : CardIds, row : Rows, holder : Holders, read : BOOLEAN ]

(* What the theorems of CommandsProofs assume of the constants.            *)
AnsweringAssumption == Nobody \notin People /\ Nobody \notin States /\ Nobody \notin Edits

(* redraw: the cards to queue an edit of; assignee: of a handover whose    *)
(* second half is to come.                                                 *)
NotCalling == [ redraw |-> {}, assignee |-> Nobody ]

(* status_line and the footer: who has it is said of an acked card only.   *)
Content(row, holder) ==
  [ state |-> row.state, replies |-> row.replies,
    holder |-> IF row.state = "acked" THEN holder ELSE Nobody ]

AnsweringInit ==
  /\ held = Nobody /\ released = TRUE
  /\ cards = [ c \in CardIds |-> [ state |-> "firing", replies |-> 0 ] ]
  /\ acting = [ p \in People |-> NotCalling ]
  /\ redraws = {} /\ edit = Nobody
  /\ shown = [ c \in CardIds |-> Content(cards[c], Nobody) ] /\ drawn = shown
  /\ calls = 0 /\ mishaps = 0 /\ behind = {} /\ unsure = {}

Mishap == mishaps < Mishaps /\ mishaps' = mishaps + 1

-----------------------------------------------------------------------------
(* The store: acknowledge, one transaction.                                *)

Moved(trigger, acknowledged) ==
  [ c \in CardIds |->
      LET state == NextState(cards[c].state, trigger, acknowledged)
      IN  IF state = Nobody THEN cards[c] ELSE [ cards[c] EXCEPT !.state = state ] ]

(* The partial unique index lets one of several takers have it.            *)
Acknowledge(user) ==
  IF held = Nobody
    THEN /\ held' = user /\ released' = FALSE
         /\ cards' = Moved("acknowledged", TRUE)
    ELSE UNCHANGED <<held, released, cards>>

Revoke ==
  /\ held' = Nobody
  /\ cards' = IF held = Nobody THEN cards ELSE Moved("ack_revoked", FALSE)

(* Only what changed something is drawn again.                             *)
Redrawn == IF held' = held THEN {} ELSE CardIds

-----------------------------------------------------------------------------
(* The interactions.                                                       *)

Call(p, redraw, assignee) ==
  /\ acting[p] = NotCalling /\ calls < MaxCalls
  /\ calls' = calls + 1
  /\ acting' = [ acting EXCEPT ![p] = [ redraw |-> redraw, assignee |-> assignee ] ]

TakeAlert(p) ==
  /\ Acknowledge(p)
  /\ Call(p, Redrawn, Nobody)
  /\ UNCHANGED <<delivery, mishaps, behind, unsure>>

Release(p) ==
  /\ Revoke
  /\ released' = TRUE
  /\ Call(p, Redrawn, Nobody)
  /\ UNCHANGED <<delivery, mishaps, behind, unsure>>

(* `/alerts assign`: one acknowledgement ends ...                          *)
Handover(p, assignee) ==
  /\ Revoke
  /\ Call(p, Redrawn, assignee)
  /\ UNCHANGED <<delivery, mishaps, released, behind, unsure>>

(* A mutant: a handover that does not take clears the way for the next.    *)
GiveElseRevoke(p) ==
  /\ acting[p].assignee # Nobody /\ acting[p].redraw = {}
  /\ IF held = Nobody THEN Acknowledge(acting[p].assignee) ELSE Revoke /\ UNCHANGED released
  /\ acting' = [ acting EXCEPT ![p] = [ redraw |-> Redrawn, assignee |-> Nobody ] ]
  /\ UNCHANGED <<delivery, calls, mishaps, behind, unsure>>

(* ... and another starts, unless somebody came between.                   *)
Give(p) ==
  /\ acting[p].assignee # Nobody /\ acting[p].redraw = {}
  /\ Acknowledge(acting[p].assignee)
  /\ acting' = [ acting EXCEPT ![p] = [ redraw |-> Redrawn, assignee |-> Nobody ] ]
  /\ UNCHANGED <<delivery, calls, mishaps, behind, unsure>>

(* record_reply.  Only the first reply changes what the card says.         *)
Reply(p, c) ==
  /\ cards' = [ cards EXCEPT ![c].replies = @ + 1 ]
  /\ Call(p, IF cards[c].replies = 0 THEN {c} ELSE {}, Nobody)
  /\ UNCHANGED <<held, delivery, mishaps, released, behind, unsure>>

(* A mutant: the edit folds into one that is already under way.            *)
ReRenderFolded(p) ==
  /\ acting[p].redraw # {}
  /\ redraws' = redraws \cup { c \in acting[p].redraw : edit = Nobody \/ edit.card # c }
  /\ acting' = [ acting EXCEPT ![p].redraw = {} ]
  /\ UNCHANGED <<held, cards, edit, shown, drawn, calls, mishaps, released, behind, unsure>>

(* re_render, a transaction of its own.                                    *)
ReRender(p) ==
  /\ acting[p].redraw # {}
  /\ redraws' = redraws \cup acting[p].redraw
  /\ acting' = [ acting EXCEPT ![p].redraw = {} ]
  /\ UNCHANGED <<held, cards, edit, shown, drawn, calls, mishaps, released, behind, unsure>>

(* It is only warned of when it fails.                                     *)
ReRenderFails(p) ==
  /\ acting[p].redraw # {} /\ Mishap
  /\ behind' = behind \cup acting[p].redraw
  /\ acting' = [ acting EXCEPT ![p].redraw = {} ]
  /\ UNCHANGED <<held, cards, delivery, calls, released, unsure>>

(* The interaction ends where it is: the store fails a handover's second   *)
(* half, or the process restarts.                                          *)
Cut(p) ==
  /\ acting[p] # NotCalling /\ Mishap
  /\ acting' = [ acting EXCEPT ![p] = NotCalling ]
  /\ behind' = behind \cup acting[p].redraw
  /\ released' = (released \/ (acting[p].assignee # Nobody /\ held = Nobody))
  /\ UNCHANGED <<held, cards, delivery, calls, unsure>>

(* The pipeline, which queues the edits in the transaction of its decision.*)
Change(trigger) ==
  /\ \A c \in CardIds : cards[c].state \in {"firing", "acked"}
  /\ cards' = Moved(trigger, held # Nobody)
  /\ redraws' = CardIds
  /\ UNCHANGED <<held, acting, edit, shown, drawn, calls, mishaps, released, behind, unsure>>

-----------------------------------------------------------------------------
(* The dispatcher: edit.                                                   *)

(* assemble reads the row, and later ...                                   *)
ReadCard(c) ==
  /\ edit = Nobody /\ c \in redraws
  /\ edit' = [ card |-> c, row |-> cards[c], holder |-> Nobody, read |-> FALSE ]
  /\ redraws' = redraws \ {c} /\ behind' = behind \ {c}
  /\ UNCHANGED <<held, cards, acting, shown, drawn, calls, mishaps, released, unsure>>

(* ... the acknowledgement,                                                *)
ReadHolder ==
  /\ edit # Nobody /\ ~edit.read
  /\ edit' = [ edit EXCEPT !.holder = held, !.read = TRUE ]
  /\ UNCHANGED <<held, cards, acting, redraws, shown, drawn, calls, mishaps, released, behind, unsure>>

(* without which the card says that nobody has it.                         *)
ReadHolderFails ==
  /\ edit # Nobody /\ ~edit.read /\ Mishap
  /\ edit' = [ edit EXCEPT !.read = TRUE ]
  /\ behind' = behind \cup {edit.card}
  /\ UNCHANGED <<held, cards, acting, redraws, shown, drawn, calls, released, unsure>>

NewContent == Content(edit.row, edit.holder)

(* needs_edit: a card is not drawn as its hash says it is.                 *)
Deliver ==
  /\ edit # Nobody /\ edit.read
  /\ IF NewContent = drawn[edit.card]
       THEN UNCHANGED <<shown, drawn, unsure>>
       ELSE /\ shown' = [ shown EXCEPT ![edit.card] = NewContent ]
            /\ drawn' = [ drawn EXCEPT ![edit.card] = NewContent ]
            /\ unsure' = unsure \ {edit.card}
  /\ edit' = Nobody
  /\ UNCHANGED <<held, cards, acting, redraws, calls, mishaps, released, behind>>

(* Discord does not take it, and the effect is tried again ...             *)
DeliverFails ==
  /\ edit # Nobody /\ edit.read /\ Mishap
  /\ redraws' = redraws \cup {edit.card} /\ edit' = Nobody
  /\ UNCHANGED <<held, cards, acting, shown, drawn, calls, released, behind, unsure>>

(* ... or buried: the route is blocked, the refusal is final or it was the *)
(* last of MAX_ATTEMPTS.                                                   *)
DeliverGivenUp ==
  /\ edit # Nobody /\ edit.read /\ Mishap
  /\ behind' = behind \cup {edit.card} /\ edit' = Nobody
  /\ UNCHANGED <<held, cards, acting, redraws, shown, drawn, calls, released, unsure>>

(* The message changes and the completion is lost, and with it the hash.   *)
CompletionLost ==
  /\ edit # Nobody /\ edit.read /\ NewContent # drawn[edit.card] /\ Mishap
  /\ shown' = [ shown EXCEPT ![edit.card] = NewContent ]
  /\ redraws' = redraws \cup {edit.card} /\ edit' = Nobody
  /\ unsure' = unsure \cup {edit.card}
  /\ UNCHANGED <<held, cards, acting, drawn, calls, released, behind>>

AnsweringNext ==
  \/ \E p \in People :
       \/ TakeAlert(p) \/ Release(p) \/ Give(p) \/ ReRender(p) \/ ReRenderFails(p) \/ Cut(p)
       \/ \E assignee \in People : Handover(p, assignee)
       \/ \E c \in CardIds : Reply(p, c)
  \/ \E trigger \in {"silenced", "resolved"} : Change(trigger)
  \/ \E c \in CardIds : ReadCard(c)
  \/ ReadHolder \/ ReadHolderFails \/ Deliver \/ DeliverFails \/ DeliverGivenUp \/ CompletionLost

AnsweringSpec == AnsweringInit /\ [][AnsweringNext]_answering

-----------------------------------------------------------------------------
AtRest == edit = Nobody /\ redraws = {} /\ \A p \in People : acting[p] = NotCalling

(* Whoever took, released and handed over, in whatever order their         *)
(* transactions, their redraws and the dispatcher's two reads came, a      *)
(* message nothing is under way for shows its card's state and who has the *)
(* alert now, and that somebody replied if somebody did.  It is left       *)
(* behind by an edit that was lost, given up or failed to read, until the  *)
(* next one begins, and by a completion lost, until one changes it.        *)
CardTellsHolder ==
  AtRest => \A c \in CardIds \ (behind \cup unsure) :
    LET now == Content(cards[c], held)
    IN  /\ shown[c].state = now.state /\ shown[c].holder = now.holder
        /\ (shown[c].replies > 0) = (now.replies > 0)

(* An alert somebody had is had by somebody, until a person releases it:   *)
(* handovers that meet each other or a taker lose nobody's alert, though   *)
(* between its two transactions nobody has it, and one cut there leaves it *)
(* so.  And the cards agree: of a held alert none says it waits for        *)
(* someone, of another none says it is taken.                              *)
HeldUntilReleased ==
  /\ (\A p \in People : acting[p].assignee = Nobody) /\ ~released => held # Nobody
  /\ \A c \in CardIds : cards[c].state # IF held = Nobody THEN "acked" ELSE "firing"

=============================================================================

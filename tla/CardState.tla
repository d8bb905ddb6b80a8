----------------------------- MODULE CardState -----------------------------
(***************************************************************************)
(* What an alert change asks of a card, as pure operators: the comparison  *)
(* with the stored alert (store/src/logic.rs), the trigger a card reads    *)
(* out of it (engine/src/decide.rs) and the state it moves to              *)
(* (core/src/state.rs).                                                    *)
(*                                                                         *)
(* An alert is [status, suppressed, text]: text stands for everything a    *)
(* card shows and no decision depends on.  None is the Option without a    *)
(* value.                                                                  *)
(***************************************************************************)
CONSTANTS None, Texts

Alert == [ status : {"firing", "resolved"}, suppressed : BOOLEAN, text : Texts ]

IsFiring(alert) == alert.status = "firing"

Events == {"fired", "resolved", "silenced", "unsilenced", "updated"}

States == {"firing", "acked", "silenced", "ignored", "resolved", "orphaned"}

(* NotificationState::is_open: the alert behind the card is still firing.  *)
IsOpen(state) == state \in {"firing", "acked", "silenced"}

(***************************************************************************)
(* classify: the event an arriving alert makes of the row stored for it;   *)
(* None is a redelivery.                                                   *)
(***************************************************************************)
Classify(previous, incoming) ==
  IF previous = None \/ previous.status # incoming.status
    THEN IF IsFiring(incoming) THEN "fired" ELSE "resolved"
  ELSE IF previous.suppressed # incoming.suppressed
    THEN IF incoming.suppressed THEN "silenced" ELSE "unsilenced"
  ELSE IF previous.text # incoming.text THEN "updated" ELSE None

-----------------------------------------------------------------------------
(* Nobody raises MessageLost: the store orphans a row itself.              *)
Triggers ==
  {"fired", "resolved", "acknowledged", "ack_revoked", "silenced", "unsilenced", "ignored", "unignored"}

(* Trigger::from_event: an update moves no card.                           *)
FromEvent(kind) == IF kind = "updated" THEN None ELSE kind

(* A mutant: the event is all that counts, not where alert and card stand. *)
TriggerByEvent(kind, alert, state, ignored) ==
  CASE IsFiring(alert) /\ ignored /\ state # "ignored"  -> "ignored"
    [] IsFiring(alert) /\ ~ignored /\ state = "ignored" -> "unignored"
    [] OTHER -> FromEvent(kind)

(* trigger_for.                                                            *)
TriggerFor(kind, alert, state, ignored) ==
  IF ~IsFiring(alert)
    THEN IF IsOpen(state) \/ state = "ignored" THEN "resolved" ELSE FromEvent(kind)
  ELSE CASE ignored /\ state # "ignored"   -> "ignored"
         [] ~ignored /\ state = "ignored"  -> "unignored"
         [] ~ignored /\ state = "resolved" -> "fired"
         [] OTHER                          -> FromEvent(kind)

(* A mutant: a card that comes back forgets who holds its alert.           *)
NextStateUnclaimed(state, trigger, acknowledged) ==
  CASE state = "orphaned" -> None
    [] trigger = "fired" /\ state = "resolved" -> "firing"
    [] trigger = "resolved" /\ (IsOpen(state) \/ state = "ignored") -> "resolved"
    [] trigger = "acknowledged" /\ state = "firing" -> "acked"
    [] trigger = "ack_revoked" /\ state = "acked" -> "firing"
    [] trigger = "silenced" /\ state \in {"firing", "acked"} -> "silenced"
    [] trigger = "ignored" /\ state \in {"firing", "acked"} -> "ignored"
    [] trigger = "unsilenced" /\ state = "silenced" -> "firing"
    [] trigger = "unignored" /\ state = "ignored" -> "firing"
    [] OTHER -> None

(* next_state: None is a trigger that does not apply.                      *)
NextState(state, trigger, acknowledged) ==
  LET resume == IF acknowledged THEN "acked" ELSE "firing"
  IN  CASE state = "orphaned" -> None
        [] trigger = "fired" /\ state = "resolved" -> resume
        [] trigger = "resolved" /\ (IsOpen(state) \/ state = "ignored") -> "resolved"
        [] trigger = "acknowledged" /\ state = "firing" -> "acked"
        [] trigger = "ack_revoked" /\ state = "acked" -> "firing"
        [] trigger = "silenced" /\ state \in {"firing", "acked"} -> "silenced"
        [] trigger = "ignored" /\ state \in {"firing", "acked"} -> "ignored"
        [] trigger = "unsilenced" /\ state = "silenced" -> resume
        [] trigger = "unignored" /\ state = "ignored" -> resume
        [] OTHER -> None

(* initial_state of a card created for a firing alert nobody ignores.      *)
InitialState(alert) == IF alert.suppressed THEN "silenced" ELSE "firing"

=============================================================================

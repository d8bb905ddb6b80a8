------------------------------- MODULE Lookup -------------------------------
(***************************************************************************)
(* /alerts list: the alerts table read a page at a time, while deliveries  *)
(* write it.  The filter is split in what SQL can express and what is      *)
(* evaluated afterwards (store/src/logic.rs, from_query; the stores'       *)
(* alerts.rs, query_alerts and scan_alerts), and the buttons under a page  *)
(* carry the filter and an offset (discord/src/commands/views.rs).         *)
(*                                                                         *)
(* An alert is a number, in the order of the fingerprints, and a           *)
(* fingerprint is as good as the label set it is the hash of.              *)
(***************************************************************************)
EXTENDS Matching, CardState

CONSTANTS
  LabelsOf,     (* The label sets of the alerts.                           *)
  Ignored,      (* IdentityPolicy: the labels that do not count.           *)
  Filters,      (* ListFilters a command may be given; fits: that of which *)
                (* a button's hundred bytes can hold.                      *)
  ScanLimit,    (* IN_MEMORY_SCAN_LIMIT.                                   *)
  MaxTime       (* Bound: deliveries and polls.                            *)

Known == DOMAIN LabelsOf

(* What the theorems of LookupProofs assume of them.                       *)
LookupAssumption ==
  /\ IsFiniteSet(Known) /\ Known \subseteq Int
  /\ \A a \in Known : LabelsOf[a] = [ n \in DOMAIN LabelsOf[a] |-> LabelsOf[a][n] ]
  /\ \A filter \in Filters :
       /\ filter.limit \in Nat \ {0} /\ filter.fits \in BOOLEAN
       /\ \A m \in filter.matchers : m.op \in {"=", "!=", "=~", "!~"}
  /\ ScanLimit \in Nat /\ MaxTime \in Nat

(* A view is a list somebody looks at: pages has what each page showed.    *)
VARIABLES
  seen,         (* alerts.last_seen_at, 0 for an alert that has no row.    *)
  states,       (* Of every key its card's state.                          *)
  now,
  view

lookup == <<seen, states, now, view>>

(* identity_of: the hash of the labels that are left, which is the         *)
(* fingerprint where none is ignored.                                      *)
IdentityOf(a) == [ n \in DOMAIN LabelsOf[a] \ Ignored |-> LabelsOf[a][n] ]

FingerprintOf(a) == LabelsOf[a]

Keys == { IdentityOf(a) : a \in Known }

LookupInit ==
  /\ seen = [ a \in Known |-> 0 ]
  /\ states = [ k \in Keys |-> None ]
  /\ now = 0 /\ view = None

-----------------------------------------------------------------------------
IsRegex(m) == m.op \in {"=~", "!~"}

(* severities_at_or_above: the words, as the column stores one of them.    *)
SeveritiesAtOrAbove(floor) == { s \in 1..3 : s >= floor }

(* A mutant: a label that is missing disagrees with nothing.               *)
DisagreesIfThere(m, labels) ==
  m.name \in DOMAIN labels /\ (labels[m.name] \in m.values) # (m.op = "=")

(* "An alert passes when none of them disagrees": COALESCE(label, '').     *)
Disagrees(m, labels) == (GetOrEmpty(labels, m.name) \in m.values) # (m.op = "=")

(* filtered_alerts: the card is looked for under the fingerprint's key.    *)
Selected(filter) ==
  { a \in Known :
      /\ seen[a] > 0
      /\ SeverityOf(LabelsOf[a]) \in SeveritiesAtOrAbove(filter.floor)
      /\ \A m \in filter.matchers : ~IsRegex(m) => ~Disagrees(m, LabelsOf[a])
      /\ filter.state # None =>
           FingerprintOf(a) \in Keys /\ states[FingerprintOf(a)] = filter.state }

(* ORDER BY last_seen_at DESC, fingerprint.                                *)
ComesFirst(a, b) == seen[a] > seen[b] \/ (seen[a] = seen[b] /\ a < b)

Listed(S) ==
  [ n \in 1..Cardinality(S) |->
      CHOOSE a \in S : Cardinality({ b \in S : ComesFirst(b, a) }) = n - 1 ]

Taken(s, offset, limit) ==
  SubSeq(s, offset + 1, IF offset + limit < Len(s) THEN offset + limit ELSE Len(s))

MatchesRegexMatchers(filter, a) ==
  \A m \in filter.matchers : IsRegex(m) => Matches(m, LabelsOf[a])

(* scan_alerts: what SQL cannot express is dropped from the first so many, *)
(* and the order stays.                                                    *)
Scanned(filter) ==
  Listed({ a \in ToSet(Taken(Listed(Selected(filter)), 0, ScanLimit)) :
             MatchesRegexMatchers(filter, a) })

NeedsInMemoryFilter(filter) == \E m \in filter.matchers : IsRegex(m)

Query(filter, offset) ==
  LET all == IF NeedsInMemoryFilter(filter) THEN Scanned(filter) ELSE Listed(Selected(filter))
  IN  [ items |-> Taken(all, offset, filter.limit), total |-> Len(all) ]

-----------------------------------------------------------------------------
(* What the answer to /alerts list and to a page button leaves on screen.  *)
Answered(filter, offset, pages, steady) ==
  LET page == Query(filter, offset)
  IN  IF page.items = <<>> THEN None
      ELSE [ filter |-> filter, offset |-> offset, total |-> page.total, steady |-> steady,
             pages |-> [ n \in DOMAIN pages \cup {offset} |->
                           IF n = offset THEN page.items ELSE pages[n] ] ]

List(filter) ==
  /\ view = None
  /\ view' = Answered(filter, 0, [ n \in {} |-> <<>> ], TRUE)
  /\ UNCHANGED <<seen, states, now>>

(* page_row: a filter the buttons cannot carry has none.                   *)
HasNext == view.filter.fits /\ view.offset + view.filter.limit < view.total

Turn(offset) ==
  /\ view' = Answered(view.filter, offset, view.pages, view.steady)
  /\ UNCHANGED <<seen, states, now>>

PressNext == view # None /\ HasNext /\ Turn(view.offset + view.filter.limit)

PressPrevious ==
  /\ view # None /\ view.filter.fits /\ view.offset > 0
  /\ Turn(IF view.offset > view.filter.limit THEN view.offset - view.filter.limit ELSE 0)

Dismiss == view # None /\ view' = None /\ UNCHANGED <<seen, states, now>>

Unsteady == view' = IF view = None THEN None ELSE [ view EXCEPT !.steady = FALSE ]

(* A batch: what a list can see of it, which is that every alert of it is  *)
(* seen and has a card.                                                    *)
Arrive(batch) ==
  /\ now < MaxTime
  /\ now' = now + 1
  /\ seen' = [ a \in Known |-> IF a \in batch THEN now + 1 ELSE seen[a] ]
  /\ states' = [ k \in Keys |->
                  IF states[k] = None /\ \E a \in batch : IdentityOf(a) = k THEN "firing" ELSE states[k] ]
  /\ Unsteady

Acknowledge(k) ==
  /\ states[k] = "firing"
  /\ states' = [ states EXCEPT ![k] = "acked" ]
  /\ Unsteady
  /\ UNCHANGED <<seen, now>>

LookupNext ==
  \/ \E filter \in Filters : List(filter)
  \/ PressNext \/ PressPrevious \/ Dismiss
  \/ \E batch \in SUBSET Known \ {{}} : Arrive(batch)
  \/ \E k \in Keys : Acknowledge(k)

LookupSpec == LookupInit /\ [][LookupNext]_lookup

-----------------------------------------------------------------------------
(* The type invariant; no alert is on two pages of a list nothing changed. *)
LookupTypeOK ==
  /\ seen \in [ Known -> 0..now ] /\ now \in 0..MaxTime
  /\ states \in [ Keys -> {None, "firing", "acked"} ]
  /\ view # None =>
       /\ view.filter \in Filters /\ view.offset \in DOMAIN view.pages
       /\ view.steady => \A m, n \in DOMAIN view.pages :
            m # n => ToSet(view.pages[m]) \cap ToSet(view.pages[n]) = {}

(* The alerts a filter asks for, by the words of its options: "only alerts *)
(* whose card is in this state", "at or above this severity",              *)
(* "Alertmanager matchers".                                                *)
Wanted(filter) ==
  { a \in Known :
      /\ seen[a] > 0
      /\ SeverityOf(LabelsOf[a]) >= filter.floor
      /\ AllMatch(filter.matchers, LabelsOf[a])
      /\ filter.state # None => states[IdentityOf(a)] = filter.state }

(* A card of an alert with ignored labels is under another key than the    *)
(* one the filter looks for.                                               *)
MergedUnder(filter) ==
  filter.state # None /\ \E a \in Wanted(filter) : IdentityOf(a) # FingerprintOf(a)

(* "Deciding any of these separately is two chances to decide them         *)
(* differently" (logic.rs): whoever has turned to the last page of a list  *)
(* that nothing changed meanwhile has seen each alert the filter asks for, *)
(* once, the latest first, whichever part of the filter SQL evaluated;     *)
(* unless more were to be scanned than are, and then nothing else.         *)
PagesAreWhole ==
  view # None /\ view.steady /\ view.filter.fits /\ ~HasNext /\ ~MergedUnder(view.filter) =>
    LET all == FlattenSeq([ n \in 1..Cardinality(DOMAIN view.pages) |->
                              view.pages[(n - 1) * view.filter.limit] ])
    IN  IF NeedsInMemoryFilter(view.filter) /\ Cardinality(Selected(view.filter)) > ScanLimit
        THEN ToSet(all) \subseteq Wanted(view.filter)
        ELSE all = Listed(Wanted(view.filter))
=============================================================================

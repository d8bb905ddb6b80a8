------------------------------ MODULE Matching ------------------------------
(***************************************************************************)
(* Which routes an alert belongs to, as pure operators: matchers           *)
(* (core/src/matcher.rs), the severity read from labels (core/src/alert.rs *)
(* and labels.rs), a route's test (store/src/routing.rs) and the order     *)
(* routes are tried in (engine/src/routing.rs).                            *)
(*                                                                         *)
(* Labels are a function from the names an alert carries to values, and a  *)
(* matcher's right-hand side is the set of values it matches: one value    *)
(* for = and !=, the language of the anchored pattern for =~ and !~.       *)
(***************************************************************************)
EXTENDS Integers, Sequences, FiniteSets, SequencesExt

CONSTANTS
  SeverityLabel,   (* The name of the label a severity is read from.       *)
  Severe,          (* Severity::from_str: the words, to 1, 2 and 3.        *)
  NoValue          (* The empty string.                                    *)

ASSUME MatchingAssumption ==
  /\ Severe \in [ DOMAIN Severe -> 1..3 ]
  /\ NoValue \notin DOMAIN Severe

(* Labels::get_or_empty.                                                   *)
GetOrEmpty(labels, name) == IF name \in DOMAIN labels THEN labels[name] ELSE NoValue

(* Matcher::matches.                                                       *)
Matches(m, labels) == GetOrEmpty(labels, m.name) \in m.values <=> m.op \in {"=", "=~"}

(* Severity::from_labels: what is missing or unknown is informational.     *)
SeverityOf(labels) ==
  LET word == GetOrEmpty(labels, SeverityLabel)
  IN  IF word \in DOMAIN Severe THEN Severe[word] ELSE 1

(* MatcherSet::matches: no matcher at all is a catch-all.                  *)
AllMatch(matchers, labels) == \A m \in matchers : Matches(m, labels)

(* Route::accepts.                                                         *)
Accepts(route, labels) ==
  /\ route.enabled
  /\ AllMatch(route.body.matchers, labels)
  /\ SeverityOf(labels) >= route.body.floor

-----------------------------------------------------------------------------
(* A table of routes is a function from ids; the order is by priority, and *)
(* among equals by id.                                                     *)
Before(table, i, j) ==
  \/ table[i].body.priority < table[j].body.priority
  \/ table[i].body.priority = table[j].body.priority /\ i < j

InOrder(table) ==
  [ n \in 1..Cardinality(DOMAIN table) |->
      CHOOSE i \in DOMAIN table : Cardinality({ j \in DOMAIN table : Before(table, j, i) }) = n - 1 ]

(* A mutant: the first match settles the alert in every guild.             *)
ResolveOnce(table, labels) ==
  LET Try(found, i) ==
        IF found.settled # {} \/ ~Accepts(table[i], labels) THEN found
        ELSE [ won |-> Append(found.won, i),
               settled |-> IF table[i].body.goesOn THEN found.settled
                           ELSE found.settled \cup {table[i].guild} ]
  IN  FoldLeft(Try, [ won |-> <<>>, settled |-> {} ], InOrder(table)).won

(* RoutingSnapshot::resolve: the ids of the routes an alert goes to.       *)
Resolve(table, labels) ==
  LET Try(found, i) ==
        IF table[i].guild \in found.settled \/ ~Accepts(table[i], labels) THEN found
        ELSE [ won |-> Append(found.won, i),
               settled |-> IF table[i].body.goesOn THEN found.settled
                           ELSE found.settled \cup {table[i].guild} ]
  IN  FoldLeft(Try, [ won |-> <<>>, settled |-> {} ], InOrder(table)).won

Winners(table, labels) == ToSet(Resolve(table, labels))

-----------------------------------------------------------------------------
(* "One guild's catch-all must not stop another guild's route": a route    *)
(* gets an alert exactly if it accepts it and nothing of its own guild     *)
(* that accepts it too, and is tried before, ends the matter.              *)
FirstMatch(table, labels) ==
  Winners(table, labels) =
    { i \in DOMAIN table :
        /\ Accepts(table[i], labels)
        /\ ~ \E j \in DOMAIN table : /\ Before(table, j, i) /\ table[j].guild = table[i].guild
                                     /\ Accepts(table[j], labels) /\ ~table[j].body.goesOn }

=============================================================================

----------------------------- MODULE MCRouting -----------------------------
(***************************************************************************)
(* Matching at work, in one run: Routing, and the lists of Lookup.  The    *)
(* two share nothing but the labels, so that a behaviour is one of one of  *)
(* them and the other stays as it began.                                   *)
(***************************************************************************)
EXTENDS Routing, Lookup

CONSTANTS g1, g2, c1, c2, c3, u1, here

VARIABLE part

ASSUME LookupAssumption

RoutingInit == part \in {"routing", "lookup"} /\ Init /\ LookupInit

RoutingNext ==
  /\ UNCHANGED part
  /\ \/ part = "routing" /\ Next   /\ UNCHANGED lookup
     \/ part = "lookup"  /\ LookupNext /\ UNCHANGED vars

RoutingSpec == RoutingInit /\ [][RoutingNext]_<<part, vars, lookup>>

(* The type invariants of the two.                                         *)
RoutingTypeOK == TypeOK /\ LookupTypeOK

M(name, op, values) == [ name |-> name, op |-> op, values |-> values ]

B(matchers, floor, channel, priority, goesOn) ==
  [ matchers |-> matchers, floor |-> floor, channel |-> channel, priority |-> priority,
    goesOn |-> goesOn ]

Everything == B({}, 1, c1, 2, FALSE)
Pages      == B({M("team", "=~", {"db", "web"})}, 3, c2, 1, TRUE)
NotDb      == B({M("team", "!=", {"db"})}, 1, c3, 1, FALSE)
Quick      == B({M("team", "=", {"db"})}, 1, c3, 1, FALSE)

D(guild, name, body) == [ guild |-> guild, name |-> name, body |-> body, enabled |-> TRUE ]

(* enabled = false.                                                        *)
Off(d) == [ d EXCEPT !.enabled = FALSE ]

TheBodies == {Everything, Pages, NotDb, Quick}

(* A file, one that changes a route, drops one and uses the name of a      *)
(* route /route add may have taken, and one that turns two of them off.    *)
File1 == <<D(g1, "all", Everything), D(g2, "all", NotDb)>>
File2 == <<D(g1, "all", Pages), D(g1, "more", Quick)>>
File3 == <<Off(D(g1, "all", Everything)), Off(D(g1, "more", Quick))>>

TheFiles == {File1, File2, File3}

TheAdded    == {D(g1, "more", Pages), D(g2, "all", Everything)}
TheDeclared == UNION { ToSet(f) : f \in TheFiles }

TheRules ==
  [ r \in {"here", "guild"} |->
      IF r = "here" THEN [ guild |-> g1, channel |-> c2, matchers |-> {M("team", "=", {"db"})} ]
      ELSE [ guild |-> g1, channel |-> here, matchers |-> {} ] ]

TheSubs ==
  [ s \in 1..2 |-> IF s = 1 THEN [ user |-> u1, matchers |-> {M("team", "=", {"db"})}, floor |-> 1 ]
                   ELSE [ user |-> u1, matchers |-> {M("severity", "=", {"critical"})}, floor |-> 2 ] ]

TheAlerts ==
  [ a \in {"db", "bare"} |-> IF a = "db" THEN [ severity |-> "critical", team |-> "db" ]
                             ELSE [ instance |-> "i" ] ]

(* Three alerts of two identities, for a policy that ignores the instance. *)
TheLabels ==
  << [ severity |-> "critical", team |-> "db", instance |-> "i" ],
     [ severity |-> "critical", team |-> "db" ],
     [ team |-> "web" ] >>

F(state, floor, matchers, limit, fits) ==
  [ state |-> state, floor |-> floor, matchers |-> matchers, limit |-> limit, fits |-> fits ]

TheFilters ==
  { F(None, 1, {}, 1, TRUE), F(None, 1, {}, 2, FALSE), F("firing", 1, {}, 2, TRUE),
    F(None, 2, {M("team", "!=", {"web"}), M("instance", "!=", {NoValue})}, 1, TRUE),
    F(None, 1, {M("instance", "!=", {"i"}), M("team", "=~", {"db", "web"})}, 1, TRUE),
    F(None, 1, {M("team", "!~", {"ops"})}, 1, TRUE),
    F("acked", 1, {M("instance", "=", {NoValue})}, 1, TRUE) }

TheSevere == [ w \in {"critical", "warning", "info"} |->
                 CASE w = "critical" -> 3 [] w = "warning" -> 2 [] w = "info" -> 1 ]
=============================================================================

------------------------------ MODULE Routing ------------------------------
(***************************************************************************)
(* The routing table and the snapshot of it that decisions read: the rows  *)
(* (store/src/routing.rs and the stores' routing.rs), the file synced into *)
(* them at start (main.rs), the commands that change them (discord/src/    *)
(* commands), the reload each of them ends with (engine/src/routing.rs,    *)
(* load_snapshot) and the cards a decision asks for (engine/src/decide.rs).*)
(*                                                                         *)
(* One process and one card per alert and channel; a decision is one step, *)
(* Cards has its reads.  An alert is firing or resolved.                   *)
(***************************************************************************)
EXTENDS Matching, CardState, FiniteSetsExt

CONSTANTS
  Guilds, Nowhere,      (* Nowhere is SUBSCRIPTION_GUILD.                  *)
  Bodies,               (* What a route may say: see Body.                 *)
  Declared,             (* [guild, name, body, enabled] a file may hold.   *)
  Files,                (* Files the process may start with: sequences.    *)
  Added,                (* The same, of /route add.                        *)
  Rules,                (* Ignore rules, by name: [guild, channel, matchers] *)
  Subs,                 (* Subscriptions, by number: [user, matchers]      *)
  Anywhere,             (* The channel of a rule with IgnoreScope::Guild.  *)
  Alerts,               (* Alerts, by name: their labels.                  *)
  Handlers,             (* Commands and tag changes under way at once.     *)
  MaxPriority,          (* i32::MAX                                        *)
  Commands, Changes, Starts  (* Bounds: how often each may happen.         *)

Body == [ matchers : SUBSET UNION { b.matchers : b \in Bodies },
          floor : 1..3, priority : Int, goesOn : BOOLEAN,
          channel : { b.channel : b \in Bodies } ]

ASSUME RoutingAssumption ==
  /\ Bodies \subseteq Body /\ Nowhere \notin Guilds
  /\ Declared \cup Added \subseteq [ guild : Guilds, name : { d.name : d \in Declared \cup Added },
                                     body : Bodies, enabled : BOOLEAN ]
  /\ \A d \in Added : d.enabled
  /\ Files \subseteq Seq(Declared)
  /\ \A r \in DOMAIN Rules : Rules[r].guild \in Guilds
  /\ DOMAIN Subs \subseteq Nat \ {0} /\ \A s \in DOMAIN Subs : Subs[s].matchers # {}
  /\ MaxPriority \in Int /\ \A b \in Bodies : b.priority < MaxPriority
  /\ None \notin States \cup Triggers
  /\ Commands \in Nat /\ Changes \in Nat /\ Starts \in Nat

VARIABLES
  routes,       (* The rows; the id of a row is its place.                 *)
  rules, lapsed, (* Ignore rules: none, on or revoked; those past expires_at *)
  subs,         (* Subscriptions there are.                                *)
  published,    (* SharedRouting: a copy of the three.                     *)
  boot,         (* The start: what it does next.                           *)
  file,         (* The configuration file of this start.                   *)
  handlers,
  alerts,       (* The alerts that fire.                                   *)
  cards,        (* The state of the card, by channel and alert.            *)
  left,
  stale         (* History: the last reload failed, or was overtaken.      *)

vars == <<routes, rules, lapsed, subs, published, boot, file, handlers, alerts, cards, left, stale>>

tables == <<routes, rules, lapsed, subs>>

Row == [ guild : Guilds, name : { d.name : d \in Declared \cup Added }, body : Bodies,
         source : {"config", "discord"}, enabled : BOOLEAN ]

Snapshot == [ routes : Seq(Row), rules : SUBSET DOMAIN Rules, subs : SUBSET DOMAIN Subs ]

Empty == [ routes |-> <<>>, rules |-> {}, subs |-> {} ]

Idle == [ pc |-> "idle", read |-> Empty, before |-> {}, late |-> FALSE ]

Init ==
  /\ routes = <<>>
  /\ rules = [ r \in DOMAIN Rules |-> "none" ] /\ lapsed = {} /\ subs = {}
  /\ published = Empty
  /\ file \in Files /\ boot = 1
  /\ handlers = [ h \in Handlers |-> Idle ]
  /\ alerts = {} /\ cards = [ k \in {} |-> None ]
  /\ left = [ commands |-> Commands, changes |-> Changes, starts |-> Starts ]
  /\ stale = FALSE

Spend(what) == left[what] > 0 /\ left' = [ left EXCEPT ![what] = @ - 1 ]

-----------------------------------------------------------------------------
(* The rows.                                                               *)

Named(table, guild, name) == { i \in DOMAIN table : table[i].guild = guild /\ table[i].name = name }

(* route_from_config: a file may declare a route and turn it off.          *)
RowOf(d, source) ==
  [ guild |-> d.guild, name |-> d.name, body |-> d.body, source |-> source, enabled |-> d.enabled ]

(* A mutant: the row the name has already is kept as it is.                *)
SyncedOnce(d) ==
  IF Named(routes, d.guild, d.name) = {} THEN Append(routes, RowOf(d, "config")) ELSE routes

(* upsert_route of a file's route: by guild and name, whoever owned it.    *)
Synced(d) ==
  LET held == Named(routes, d.guild, d.name)
  IN  IF held = {} THEN Append(routes, RowOf(d, "config"))
      ELSE [ i \in DOMAIN routes |-> IF i \in held THEN RowOf(d, "config") ELSE routes[i] ]

(* disable_missing_config_routes.                                          *)
Pruned ==
  LET keep == { d.name : d \in ToSet(file) }
  IN  [ i \in DOMAIN routes |->
          IF routes[i].source = "config" /\ routes[i].name \notin keep
            THEN [ routes[i] EXCEPT !.enabled = FALSE ] ELSE routes[i] ]

(* active_ignores, of the guilds that have a route in table.               *)
ActiveRules(table) ==
  { r \in DOMAIN Rules : /\ rules[r] = "on" /\ r \notin lapsed
                         /\ \E i \in DOMAIN table : table[i].guild = Rules[r].guild }

Current == [ routes |-> routes, rules |-> ActiveRules(routes), subs |-> subs ]

-----------------------------------------------------------------------------
(* sync_routes: what the process does before it serves anything.           *)

SyncRoute ==
  /\ boot \in 1..Len(file)
  /\ routes' = Synced(file[boot])
  /\ boot' = boot + 1
  /\ UNCHANGED <<rules, lapsed, subs, published, file, handlers, alerts, cards, left, stale>>

DisableMissing ==
  /\ boot = Len(file) + 1
  /\ routes' = Pruned
  /\ boot' = boot + 1
  /\ UNCHANGED <<rules, lapsed, subs, published, file, handlers, alerts, cards, left, stale>>

LoadInitial ==
  /\ boot = Len(file) + 2
  /\ published' = Current
  /\ boot' = 0
  /\ UNCHANGED <<tables, file, handlers, alerts, cards, left, stale>>

Up == boot = 0

(* The process stops, or cannot finish its start, and begins again with    *)
(* the same file or another.                                               *)
Restart ==
  /\ Spend("starts")
  /\ boot' = 1 /\ file' \in Files
  /\ published' = Empty
  /\ handlers' = [ h \in Handlers |-> Idle ]
  /\ stale' = FALSE
  /\ UNCHANGED <<tables, alerts, cards>>

-----------------------------------------------------------------------------
(* Commands.  Each writes one row and then reloads the snapshot.           *)

Begin(h) ==
  /\ Up /\ handlers[h].pc = "idle"
  /\ Spend("commands")
  /\ handlers' = [ handlers EXCEPT ![h].pc = "routes" ]
  /\ UNCHANGED <<published, boot, file, alerts, cards, stale>>

(* A mutant: only a name of Discord's own routes counts as taken.          *)
FreeOfOwn(d) == \A i \in Named(routes, d.guild, d.name) : routes[i].source = "config"

(* The unique index over guild and name, which a removed route still holds. *)
Free(d) == Named(routes, d.guild, d.name) = {}

(* /route add; a name the guild has already is refused.                    *)
AddRoute(h, d) ==
  /\ Begin(h)
  /\ Free(d)
  /\ routes' = Append(routes, RowOf(d, "discord"))
  /\ UNCHANGED <<rules, lapsed, subs>>

(* RouteSource::is_mutable_from_discord.                                   *)
Mutable(route) == route.source = "discord"

(* /route remove: the row as the snapshot has it, disabled.                *)
RemoveRoute(h, i) ==
  /\ Begin(h)
  /\ i \in DOMAIN published.routes /\ Mutable(published.routes[i])
  /\ routes' = [ routes EXCEPT ![i] = [ published.routes[i] EXCEPT !.enabled = FALSE ] ]
  /\ UNCHANGED <<rules, lapsed, subs>>

AddIgnore(h, r) ==
  /\ Begin(h)
  /\ rules[r] = "none"
  /\ rules' = [ rules EXCEPT ![r] = "on" ]
  /\ UNCHANGED <<routes, lapsed, subs>>

(* revoke_ignore, from the guild the rule is of.                           *)
RevokeIgnore(h, r) ==
  /\ Begin(h)
  /\ rules[r] = "on"
  /\ rules' = [ rules EXCEPT ![r] = "revoked" ]
  /\ UNCHANGED <<routes, lapsed, subs>>

Subscribe(h, s) ==
  /\ Begin(h)
  /\ s \notin subs /\ subs' = subs \cup {s}
  /\ UNCHANGED <<routes, rules, lapsed>>

Unsubscribe(h, s) ==
  /\ Begin(h)
  /\ s \in subs /\ subs' = subs \ {s}
  /\ UNCHANGED <<routes, rules, lapsed>>

(* adopt_forum_tags: the dispatcher, too, reloads the snapshot.            *)
AdoptTags(h) == Begin(h) /\ UNCHANGED tables

(* A rule passes its expires_at; nothing is told.                          *)
Lapse(r) ==
  /\ rules[r] = "on" /\ r \notin lapsed
  /\ lapsed' = lapsed \cup {r}
  /\ UNCHANGED <<routes, rules, subs, published, boot, file, handlers, alerts, cards, left, stale>>

-----------------------------------------------------------------------------
(***************************************************************************)
(* load_snapshot: a query after the other, and then the new snapshot takes *)
(* the place of whichever is there.  before: who was reading already when  *)
(* this one began; late: that one has finished since.                      *)
(***************************************************************************)
Reading(h) == handlers[h].pc \in {"rules", "subs", "publish"}

LoadRoutes(h) ==
  /\ handlers[h].pc = "routes"
  /\ handlers' = [ handlers EXCEPT
       ![h] = [ pc |-> "rules", read |-> [ Empty EXCEPT !.routes = routes ],
                before |-> { m \in Handlers : Reading(m) }, late |-> FALSE ] ]
  /\ UNCHANGED <<tables, published, boot, file, alerts, cards, left, stale>>

LoadRules(h) ==
  /\ handlers[h].pc = "rules"
  /\ handlers' = [ handlers EXCEPT ![h].pc = "subs",
                                   ![h].read.rules = ActiveRules(handlers[h].read.routes) ]
  /\ UNCHANGED <<tables, published, boot, file, alerts, cards, left, stale>>

LoadSubs(h) ==
  /\ handlers[h].pc = "subs"
  /\ handlers' = [ handlers EXCEPT ![h].pc = "publish", ![h].read.subs = subs ]
  /\ UNCHANGED <<tables, published, boot, file, alerts, cards, left, stale>>

Done(h, overtaken) ==
  [ m \in Handlers |->
      IF m = h THEN Idle
      ELSE [ handlers[m] EXCEPT !.before = @ \ {h}, !.late = @ \/ m \in overtaken ] ]

(* A mutant: the rules of the snapshot before are carried over.            *)
AssembledOver(read) == [ read EXCEPT !.rules = @ \cup published.rules ]

(* RoutingSnapshot::new.                                                   *)
Assembled(read) == read

(* SharedRouting::store.                                                   *)
Publish(h) ==
  /\ handlers[h].pc = "publish"
  /\ published' = Assembled(handlers[h].read)
  /\ stale' = handlers[h].late
  /\ handlers' = Done(h, handlers[h].before)
  /\ UNCHANGED <<tables, boot, file, alerts, cards, left>>

(* A query of the reload fails: the snapshot stays what it is.             *)
LoadFails(h) ==
  /\ handlers[h].pc \notin {"idle", "publish"}
  /\ stale' = TRUE
  /\ handlers' = Done(h, { m \in Handlers : Reading(m) })
  /\ UNCHANGED <<tables, published, boot, file, alerts, cards, left>>

-----------------------------------------------------------------------------
(* Decisions.                                                              *)

(* subscription_route.                                                     *)
AsRoute(s) ==
  [ guild |-> Nowhere, name |-> None, source |-> "discord", enabled |-> TRUE,
    body |-> [ matchers |-> Subs[s].matchers, floor |-> Subs[s].floor, channel |-> Subs[s].user,
               priority |-> MaxPriority, goesOn |-> TRUE ] ]

(* The routes of a snapshot by their ids, those of subscriptions negative. *)
TableOf(snapshot) ==
  [ i \in DOMAIN snapshot.routes \cup { -s : s \in snapshot.subs } |->
      IF i > 0 THEN snapshot.routes[i] ELSE AsRoute(-i) ]

(* A mutant: a rule mutes by channel, whatever the guild.                  *)
MutedAnywhere(route, a) ==
  \E r \in published.rules \ lapsed :
    AllMatch(Rules[r].matchers, Alerts[a]) /\ Rules[r].channel \in {Anywhere, route.body.channel}

(* RoutingSnapshot::ignore_for, IgnoreRule::mutes: of a rule in the        *)
(* snapshot only its end is looked at again.                               *)
Muted(route, a) ==
  \E r \in published.rules \ lapsed :
    /\ Rules[r].guild = route.guild
    /\ AllMatch(Rules[r].matchers, Alerts[a])
    /\ Rules[r].channel \in {Anywhere, route.body.channel}

(* delivery_channel, and the unique key of a card.                         *)
CardOf(route, a) == <<route.body.channel, a>>

Kinds == {"fired", "resolved", "updated"}

AlertOf(status) == [ status |-> status, suppressed |-> FALSE, text |-> None ]

(* decide, apply_decision: two cards for one key and the transaction is    *)
(* rolled back whole, the cards of every route with it.                    *)
Decide(a, kind, status) ==
  LET table == TableOf(published)
      won == Resolve(table, Alerts[a])
      held == { i \in ToSet(won) : CardOf(table[i], a) \in DOMAIN cards }
      created == IF status = "resolved" THEN {}
                 ELSE { i \in ToSet(won) \ held : ~Muted(table[i], a) }
      conflict == \E i, j \in created : i # j /\ CardOf(table[i], a) = CardOf(table[j], a)
      StateAfter(i) ==
        NextState(cards[CardOf(table[i], a)],
                  TriggerFor(kind, AlertOf(status), cards[CardOf(table[i], a)], Muted(table[i], a)),
                  FALSE)
      New(k) == { i \in created : CardOf(table[i], a) = k }
      Moves(k) == { n \in DOMAIN won : /\ won[n] \in held /\ CardOf(table[won[n]], a) = k
                                       /\ StateAfter(won[n]) # None }
  IN  IF conflict THEN cards
      ELSE [ k \in DOMAIN cards \cup { CardOf(table[i], a) : i \in created } |->
               IF New(k) # {} THEN InitialState(AlertOf(status))
               ELSE IF Moves(k) # {} THEN StateAfter(won[Max(Moves(k))])
               ELSE cards[k] ]

(* An accepted change of an alert; a duplicate is none.                    *)
Deliver(a, kind) ==
  /\ Up /\ Spend("changes")
  /\ kind = "fired" <=> a \notin alerts
  /\ alerts' = IF kind = "resolved" THEN alerts \ {a} ELSE alerts \cup {a}
  /\ cards' = Decide(a, kind, IF kind = "resolved" THEN "resolved" ELSE "firing")
  /\ UNCHANGED <<tables, published, boot, file, handlers, stale>>

Command(h) ==
  \/ \E d \in Added : AddRoute(h, d)
  \/ \E i \in DOMAIN published.routes : RemoveRoute(h, i)
  \/ \E r \in DOMAIN Rules : AddIgnore(h, r) \/ RevokeIgnore(h, r)
  \/ \E s \in DOMAIN Subs : Subscribe(h, s) \/ Unsubscribe(h, s)
  \/ AdoptTags(h)

Load(h) == LoadRoutes(h) \/ LoadRules(h) \/ LoadSubs(h) \/ Publish(h) \/ LoadFails(h)

Next ==
  \/ SyncRoute \/ DisableMissing \/ LoadInitial \/ Restart
  \/ \E h \in Handlers : Command(h) \/ Load(h)
  \/ \E r \in DOMAIN Rules : Lapse(r)
  \/ \E a \in DOMAIN Alerts, kind \in Kinds : Deliver(a, kind)

Spec == Init /\ [][Next]_vars

-----------------------------------------------------------------------------
Handler ==
  [ pc : {"idle", "routes", "rules", "subs", "publish"}, read : Snapshot,
    before : SUBSET Handlers, late : BOOLEAN ]

(* The tables and the copies of them; a guild has one route of a name, and *)
(* what is published is of rows that are there under their ids.            *)
TablesOK ==
  /\ routes \in Seq(Row)
  /\ \A i, j \in DOMAIN routes :
       routes[i].guild = routes[j].guild /\ routes[i].name = routes[j].name => i = j
  /\ rules \in [ DOMAIN Rules -> {"none", "on", "revoked"} ] /\ lapsed \subseteq DOMAIN Rules
  /\ subs \subseteq DOMAIN Subs
  /\ published \in Snapshot
  /\ \A i \in DOMAIN published.routes :
       /\ i \in DOMAIN routes
       /\ published.routes[i].guild = routes[i].guild /\ published.routes[i].name = routes[i].name
  /\ file \in Files /\ boot \in 0..(Len(file) + 2)
  /\ handlers \in [ Handlers -> Handler ]
  /\ stale \in BOOLEAN

(* The type invariant.                                                     *)
TypeOK ==
  /\ TablesOK
  /\ alerts \subseteq DOMAIN Alerts
  /\ \A k \in DOMAIN cards : cards[k] \in States \ {"orphaned", "acked", "silenced"}
  /\ left \in [ {"commands", "changes", "starts"} -> Nat ]

(* "First match wins unless the route says otherwise", within a guild, in  *)
(* whatever tables commands and files bring about (resolve).               *)
RoutesAreFirstMatches == \A a \in DOMAIN Alerts : FirstMatch(TableOf(published), Alerts[a])

(* The snapshot with the rules left out that have lapsed since.            *)
Unlapsed(snapshot) == [ snapshot EXCEPT !.rules = @ \ lapsed ]

Settled == Up /\ \A h \in Handlers : handlers[h].pc = "idle"

(* "Called after any write that changes what routing resolves to"          *)
(* (refresh_routing): once no reload is under way decisions read what the  *)
(* tables hold, if the last reload neither failed nor was overtaken by one *)
(* that began after it.                                                    *)
PublishedIsTable == Settled /\ ~stale => Unlapsed(published) = Unlapsed(Current)

Says(row, d) ==
  row.guild = d.guild /\ row.name = d.name /\ row.body = d.body /\ row.enabled = d.enabled

(* "Not editable or deletable from Discord" (RouteSource): while it runs,  *)
(* every route of the file is in the table as the file has it, live when   *)
(* its enabled says so and off when not, whatever it was before the start, *)
(* and those of earlier files whose name is gone are off.                  *)
FileOwnsItsRoutes ==
  Up => /\ \A n \in DOMAIN file :
             \E i \in DOMAIN routes : routes[i].source = "config" /\ Says(routes[i], file[n])
        /\ \A i \in DOMAIN routes :
             routes[i].source = "config" /\ routes[i].enabled =>
               \E n \in DOMAIN file : file[n].name = routes[i].name

Fires(a) == a \in alerts' \ alerts

Shown(i, a) ==
  LET k == CardOf(TableOf(published)[i], a) IN k \in DOMAIN cards' /\ IsOpen(cards'[k])

(* Two that want the alert would post into one channel.                    *)
Shared(a) ==
  LET table == TableOf(published)
  IN  \E i, j \in Winners(table, Alerts[a]) : i # j /\ CardOf(table[i], a) = CardOf(table[j], a)

(* "Somebody subscribing ... gets a direct message as well as whatever the *)
(* channel routes already decided" and "a server-wide mute cannot silently *)
(* reach into somebody's direct messages": an alert that begins to fire is *)
(* shown on each channel whose guild does not mute it and to each person   *)
(* subscribed, whatever the guilds mute, unless two of them share a place. *)
FiringReachesAll ==
  [][ \A a \in DOMAIN Alerts : Fires(a) /\ ~Shared(a) =>
        LET table == TableOf(published)
        IN  \A i \in Winners(table, Alerts[a]) :
              i < 0 \/ ~Muted(table[i], a) => Shown(i, a) ]_vars

=============================================================================

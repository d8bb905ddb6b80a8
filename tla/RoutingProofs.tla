---------------------------- MODULE RoutingProofs ----------------------------
(***************************************************************************)
(* The routing table and its snapshot, for any files, commands, rules,     *)
(* subscriptions and handlers: that the tables stay what they are, that    *)
(* the file owns its routes, that decisions read what the tables hold, and *)
(* what those decisions come to, however long the list of routes is.       *)
(***************************************************************************)
EXTENDS Routing, SequenceTheorems, FiniteSetTheorems, WellFoundedInduction, TLAPS

-----------------------------------------------------------------------------
(* The tables.                                                             *)

NamesUnique(table) ==
  \A i, j \in DOMAIN table :
    table[i].guild = table[j].guild /\ table[i].name = table[j].name => i = j

SameRoute(a, b) == a.guild = b.guild /\ a.name = b.name /\ a.source = b.source

(* A copy was taken of rows that are still there, and still of the file or *)
(* not, whatever else has been written to them since.                      *)
CopyOf(copy, table) ==
  \A i \in DOMAIN copy : i \in DOMAIN table /\ SameRoute(copy[i], table[i])

CopiesKept ==
  /\ CopyOf(published.routes, routes)
  /\ \A h \in Handlers : CopyOf(handlers[h].read.routes, routes)

(* Until the process is up nobody is served.                               *)
NobodyServed ==
  ~Up => published = Empty /\ \A h \in Handlers : handlers[h] = Idle

IInv == TablesOK /\ CopiesKept /\ NobodyServed

LEMMA RowOfIs ==
  ASSUME RoutingAssumption, NEW d \in Declared \cup Added, NEW source \in {"config", "discord"}
  PROVE  /\ RowOf(d, source) \in Row
         /\ RowOf(d, source).guild = d.guild /\ RowOf(d, source).name = d.name
         /\ RowOf(d, source).source = source /\ RowOf(d, source).enabled = d.enabled
<1>1. d \in [ guild : Guilds, name : { e.name : e \in Declared \cup Added }, body : Bodies,
              enabled : BOOLEAN ]
  BY DEF RoutingAssumption
<1> QED BY <1>1 DEF RowOf, Row

LEMMA EmptyIsSnapshot == Empty \in Snapshot /\ DOMAIN Empty.routes = {}
<1>1. <<>> \in Seq(Row)
  BY EmptySeq
<1> QED BY <1>1 DEF Empty, Snapshot

LEMMA IdleIsHandler == Idle \in Handler
BY EmptyIsSnapshot DEF Idle, Handler

LEMMA RowsAre ==
  ASSUME NEW table \in Seq(Row)
  PROVE  /\ Len(table) \in Nat /\ DOMAIN table = 1..Len(table)
         /\ \A i \in DOMAIN table : table[i] \in Row
<1>1. Len(table) \in Nat /\ DOMAIN table = 1..Len(table)
  BY LenProperties
<1>2. \A i \in 1..Len(table) : table[i] \in Row
  BY ElementOfSeq
<1> QED BY <1>1, <1>2

(* A row is added under a name that is free.                               *)
LEMMA AddedRow ==
  ASSUME NEW table \in Seq(Row), NamesUnique(table), NEW row \in Row,
         Named(table, row.guild, row.name) = {}
  PROVE  LET new == Append(table, row)
         IN  /\ new \in Seq(Row) /\ NamesUnique(new)
             /\ DOMAIN new = DOMAIN table \cup {Len(table) + 1}
             /\ new[Len(table) + 1] = row
             /\ \A i \in DOMAIN table : new[i] = table[i]
<1> DEFINE new == Append(table, row)
<1>1. /\ new \in Seq(Row) /\ Len(new) = Len(table) + 1
      /\ \A i \in 1..Len(table) : new[i] = table[i]
      /\ new[Len(table) + 1] = row
  BY AppendProperties
<1>2. DOMAIN new = 1..Len(new) /\ DOMAIN table = 1..Len(table) /\ Len(table) \in Nat
  BY <1>1, LenProperties
<1> HIDE DEF new
<1>3. DOMAIN new = DOMAIN table \cup {Len(table) + 1}
  BY <1>1, <1>2
<1>4. \A i \in DOMAIN table : ~(table[i].guild = row.guild /\ table[i].name = row.name)
  BY DEF Named
<1>5. NamesUnique(new)
  BY <1>1, <1>2, <1>3, <1>4 DEF NamesUnique
<1> QED BY <1>1, <1>2, <1>3, <1>5 DEF new

(* Rows are written over, under the names they have.                       *)
LEMMA WrittenRows ==
  ASSUME NEW table \in Seq(Row), NamesUnique(table),
         NEW new, new = [ i \in DOMAIN table |-> new[i] ],
         \A i \in DOMAIN table :
           new[i] \in Row /\ new[i].guild = table[i].guild /\ new[i].name = table[i].name
  PROVE  new \in Seq(Row) /\ NamesUnique(new) /\ DOMAIN new = DOMAIN table
<1>1. DOMAIN table = 1..Len(table) /\ Len(table) \in Nat
  BY LenProperties
<1>2. DOMAIN new = DOMAIN table
  OBVIOUS
<1>3. new \in [ 1..Len(table) -> Row ]
  BY <1>1
<1>4. new \in Seq(Row)
  BY <1>1, <1>3, SeqDef
<1>5. NamesUnique(new)
  BY <1>2 DEF NamesUnique
<1> QED BY <1>2, <1>4, <1>5

LEMMA SyncedRows ==
  ASSUME NEW d, RowOf(d, "config") \in Row, RowOf(d, "config").guild = d.guild,
         RowOf(d, "config").name = d.name, routes \in Seq(Row), NamesUnique(routes)
  PROVE  /\ Synced(d) \in Seq(Row) /\ NamesUnique(Synced(d))
         /\ DOMAIN routes \subseteq DOMAIN Synced(d)
         /\ \E i \in DOMAIN Synced(d) : Synced(d)[i] = RowOf(d, "config")
         /\ \A i \in DOMAIN routes :
              \/ Synced(d)[i] = routes[i]
              \/ routes[i].guild = d.guild /\ routes[i].name = d.name
<1> DEFINE row == RowOf(d, "config")
           held == Named(routes, d.guild, d.name)
<1> HIDE DEF row
<1>1. CASE held = {}
  <2>1. Synced(d) = Append(routes, row)
    BY <1>1 DEF Synced, row
  <2>2. Named(routes, row.guild, row.name) = {} /\ row \in Row
    BY <1>1 DEF row
  <2> QED BY <2>1, <2>2, AddedRow DEF row
<1>2. CASE held # {}
  <2> DEFINE new == Synced(d)
  <2>1. new = [ i \in DOMAIN routes |-> IF i \in held THEN row ELSE routes[i] ]
    BY <1>2 DEF Synced, row
  <2>2. \A i \in held : i \in DOMAIN routes /\ routes[i].guild = d.guild /\ routes[i].name = d.name
    BY DEF Named
  <2>3. row \in Row /\ row.guild = d.guild /\ row.name = d.name
    BY DEF row
  <2> HIDE DEF held, new
  <2>4. new \in Seq(Row) /\ NamesUnique(new) /\ DOMAIN new = DOMAIN routes
    <3>1. new = [ i \in DOMAIN routes |-> new[i] ]
      BY <2>1
    <3>2. \A i \in DOMAIN routes :
            new[i] \in Row /\ new[i].guild = routes[i].guild /\ new[i].name = routes[i].name
      BY <2>1, <2>2, <2>3, RowsAre
    <3> QED BY <3>1, <3>2, WrittenRows
  <2>5. \E i \in DOMAIN new : new[i] = row
    BY <1>2, <2>1, <2>2
  <2> QED BY <2>1, <2>2, <2>4, <2>5 DEF new, row
<1> QED BY <1>1, <1>2

LEMMA PrunedRows ==
  ASSUME routes \in Seq(Row), NamesUnique(routes)
  PROVE  /\ Pruned \in Seq(Row) /\ NamesUnique(Pruned) /\ DOMAIN Pruned = DOMAIN routes
         /\ \A i \in DOMAIN routes :
              IF /\ routes[i].source = "config"
                 /\ \A n \in DOMAIN file : file[n].name # routes[i].name
              THEN Pruned[i].enabled = FALSE ELSE Pruned[i] = routes[i]
         /\ \A i \in DOMAIN routes : Pruned[i].name = routes[i].name /\ Pruned[i].source = routes[i].source
<1> DEFINE Gone(i) == routes[i].source = "config" /\ \A n \in DOMAIN file : file[n].name # routes[i].name
           new == Pruned
<1>1. new = [ i \in DOMAIN routes |-> IF Gone(i) THEN [ routes[i] EXCEPT !.enabled = FALSE ] ELSE routes[i] ]
  BY DEF Pruned, ToSet
<1>2. \A i \in DOMAIN routes : routes[i] \in Row
  BY RowsAre
<1> HIDE DEF Gone, new
<1>3. \A i \in DOMAIN routes :
        /\ new[i] \in Row /\ new[i].guild = routes[i].guild /\ new[i].name = routes[i].name
        /\ new[i].source = routes[i].source
        /\ IF Gone(i) THEN new[i].enabled = FALSE ELSE new[i] = routes[i]
  <2> SUFFICES ASSUME NEW i \in DOMAIN routes
               PROVE  /\ new[i] \in Row /\ new[i].guild = routes[i].guild /\ new[i].name = routes[i].name
                      /\ new[i].source = routes[i].source
                      /\ IF Gone(i) THEN new[i].enabled = FALSE ELSE new[i] = routes[i]
    OBVIOUS
  <2>1. new[i] = IF Gone(i) THEN [ routes[i] EXCEPT !.enabled = FALSE ] ELSE routes[i]
    BY <1>1
  <2> QED BY <1>2, <2>1 DEF Row
<1>4. new = [ i \in DOMAIN routes |-> new[i] ]
  BY <1>1
<1>5. new \in Seq(Row) /\ NamesUnique(new) /\ DOMAIN new = DOMAIN routes
  BY <1>3, <1>4, WrittenRows
<1> QED BY <1>3, <1>5 DEF new, Gone

-----------------------------------------------------------------------------
(* The tables stay what they are, and the copies of them.                  *)

RowsStay == \A i \in DOMAIN routes : i \in DOMAIN routes' /\ SameRoute(routes'[i], routes[i])

LEMMA NamesAreUnique == TablesOK => routes \in Seq(Row) /\ NamesUnique(routes)
BY DEF TablesOK, NamesUnique

LEMMA CopiesFollow ==
  ASSUME RowsStay, NEW copy, CopyOf(copy, routes)
  PROVE  CopyOf(copy, routes')
BY DEF RowsStay, CopyOf, SameRoute

(* What TablesOK asks of a step, the names of the copies apart.            *)
LEMMA TablesAre ==
  ASSUME routes' \in Seq(Row), NamesUnique(routes'),
         rules' \in [ DOMAIN Rules -> {"none", "on", "revoked"} ],
         lapsed' \subseteq DOMAIN Rules, subs' \subseteq DOMAIN Subs,
         published' \in Snapshot, CopyOf(published'.routes, routes'),
         file' \in Files, boot' \in 0..(Len(file') + 2),
         handlers' \in [ Handlers -> Handler ], stale' \in BOOLEAN
  PROVE  TablesOK'
BY DEF TablesOK, NamesUnique, CopyOf, SameRoute

LEMMA InitiallyOK == RoutingAssumption /\ Init => IInv
<1> SUFFICES ASSUME RoutingAssumption, Init
             PROVE  IInv
  OBVIOUS
<1>1. routes = <<>> /\ published = Empty /\ handlers = [ h \in Handlers |-> Idle ] /\ boot = 1
  BY DEF Init
<1>2. routes \in Seq(Row) /\ DOMAIN routes = {}
  BY <1>1, EmptySeq
<1>3. Len(file) \in Nat
  BY LenProperties DEF Init, RoutingAssumption
<1>4. CopiesKept
  BY <1>1, EmptyIsSnapshot DEF CopiesKept, CopyOf, Idle
<1>5. TablesOK
  <2>1. handlers \in [ Handlers -> Handler ]
    BY <1>1, IdleIsHandler
  <2>2. published \in Snapshot /\ DOMAIN published.routes = {}
    BY <1>1, EmptyIsSnapshot
  <2>3. boot \in 0..(Len(file) + 2)
    BY <1>1, <1>3
  <2> QED BY <1>2, <2>1, <2>2, <2>3 DEF TablesOK, Init
<1>6. NobodyServed
  BY <1>1 DEF NobodyServed
<1> QED BY <1>4, <1>5, <1>6 DEF IInv

(* A command writes one row, and keeps whose it is.                        *)
LEMMA CommandRows ==
  ASSUME RoutingAssumption, IInv, NEW h \in Handlers, Command(h)
  PROVE  /\ Begin(h) /\ RowsStay
         /\ routes' \in Seq(Row) /\ NamesUnique(routes')
         /\ rules' \in [ DOMAIN Rules -> {"none", "on", "revoked"} ]
         /\ lapsed' = lapsed /\ subs' \subseteq DOMAIN Subs
         /\ \A i \in DOMAIN routes' :
              \/ i \in DOMAIN routes /\ routes'[i] = routes[i]
              \/ routes'[i].source = "discord"
         /\ \A i \in DOMAIN routes : routes[i].source = "config" => routes'[i] = routes[i]
<1>1. routes \in Seq(Row) /\ NamesUnique(routes)
  BY NamesAreUnique DEF IInv
<1>2. /\ rules \in [ DOMAIN Rules -> {"none", "on", "revoked"} ] /\ subs \subseteq DOMAIN Subs
  BY DEF IInv, TablesOK
<1>3. UNCHANGED routes =>
        /\ RowsStay /\ routes' \in Seq(Row) /\ NamesUnique(routes')
        /\ \A i \in DOMAIN routes' : i \in DOMAIN routes /\ routes'[i] = routes[i]
        /\ \A i \in DOMAIN routes : routes'[i] = routes[i]
  BY <1>1 DEF RowsStay, SameRoute
<1>4. CASE \E d \in Added : AddRoute(h, d)
  <2>1. PICK d \in Added : AddRoute(h, d)
    BY <1>4
  <2> DEFINE row == RowOf(d, "discord")
  <2>2. row \in Row /\ row.guild = d.guild /\ row.name = d.name /\ row.source = "discord"
    BY RowOfIs
  <2>3. routes' = Append(routes, row) /\ Named(routes, row.guild, row.name) = {}
    BY <2>1, <2>2 DEF AddRoute, Free
  <2> HIDE DEF row
  <2>4. /\ routes' \in Seq(Row) /\ NamesUnique(routes')
        /\ DOMAIN routes' = DOMAIN routes \cup {Len(routes) + 1}
        /\ routes'[Len(routes) + 1] = row
        /\ \A i \in DOMAIN routes : routes'[i] = routes[i]
    BY <1>1, <2>2, <2>3, AddedRow
  <2> QED BY <1>2, <2>1, <2>2, <2>4 DEF AddRoute, RowsStay, SameRoute
<1>5. CASE \E i \in DOMAIN published.routes : RemoveRoute(h, i)
  <2>1. PICK i \in DOMAIN published.routes : RemoveRoute(h, i)
    BY <1>5
  <2> DEFINE row == [ published.routes[i] EXCEPT !.enabled = FALSE ]
  <2>2. published.routes \in Seq(Row)
    BY DEF IInv, TablesOK, Snapshot
  <2>3. published.routes[i] \in Row /\ published.routes[i].source = "discord"
    BY <2>1, <2>2, RowsAre DEF RemoveRoute, Mutable
  <2>4. i \in DOMAIN routes /\ SameRoute(published.routes[i], routes[i])
    BY DEF IInv, CopiesKept, CopyOf
  <2>5. row \in Row /\ SameRoute(row, routes[i]) /\ row.source = "discord"
    BY <2>3, <2>4 DEF Row, SameRoute
  <2>6. routes' = [ routes EXCEPT ![i] = row ]
    BY <2>1 DEF RemoveRoute
  <2> HIDE DEF row
  <2>7. \A j \in DOMAIN routes : routes'[j] = IF j = i THEN row ELSE routes[j]
    BY <2>4, <2>6
  <2>8. routes' = [ j \in DOMAIN routes |-> routes'[j] ]
    BY <2>6
  <2>9. routes' \in Seq(Row) /\ NamesUnique(routes') /\ DOMAIN routes' = DOMAIN routes
    <3>1. \A j \in DOMAIN routes :
            routes'[j] \in Row /\ routes'[j].guild = routes[j].guild /\ routes'[j].name = routes[j].name
      BY <1>1, <2>5, <2>7, RowsAre DEF SameRoute
    <3> QED BY <1>1, <2>8, <3>1, WrittenRows
  <2>10. RowsStay
    BY <2>5, <2>7, <2>9 DEF RowsStay, SameRoute
  <2>11. /\ \A j \in DOMAIN routes' : routes'[j] = routes[j] \/ routes'[j].source = "discord"
         /\ \A j \in DOMAIN routes : routes[j].source = "config" => routes'[j] = routes[j]
    BY <2>5, <2>7, <2>9 DEF SameRoute
  <2> QED BY <1>2, <2>1, <2>9, <2>10, <2>11 DEF RemoveRoute
<1>6. CASE \E r \in DOMAIN Rules : AddIgnore(h, r) \/ RevokeIgnore(h, r)
  BY <1>2, <1>3, <1>6 DEF AddIgnore, RevokeIgnore
<1>7. CASE \E s \in DOMAIN Subs : Subscribe(h, s) \/ Unsubscribe(h, s)
  BY <1>2, <1>3, <1>7 DEF Subscribe, Unsubscribe
<1>8. CASE AdoptTags(h)
  BY <1>2, <1>3, <1>8 DEF AdoptTags, tables
<1> QED BY <1>4, <1>5, <1>6, <1>7, <1>8 DEF Command

LEMMA CommandKeeps ==
  ASSUME RoutingAssumption, IInv, NEW h \in Handlers, Command(h)
  PROVE  IInv'
<1>1. Begin(h) /\ RowsStay
  BY CommandRows
<1>2. Up /\ UNCHANGED <<published, boot, file, stale>>
  BY <1>1 DEF Begin
<1>3. handlers \in [ Handlers -> Handler ]
  BY DEF IInv, TablesOK
<1>4. \A m \in Handlers : handlers'[m] \in Handler /\ handlers'[m].read = handlers[m].read
  <2>1. PICK new : new = [ handlers[h] EXCEPT !.pc = "routes" ]
    OBVIOUS
  <2>2. handlers' = [ handlers EXCEPT ![h] = new ]
    BY <1>1, <1>3, <2>1 DEF Begin
  <2>3. new \in Handler /\ new.read = handlers[h].read
    BY <1>3, <2>1 DEF Handler
  <2> QED BY <1>3, <2>2, <2>3
<1>5. handlers' \in [ Handlers -> Handler ]
  BY <1>1, <1>3, <1>4 DEF Begin
<1>6. CopiesKept'
  BY <1>1, <1>2, <1>4, CopiesFollow DEF IInv, CopiesKept
<1>7. TablesOK'
  <2>1. CopyOf(published'.routes, routes')
    BY <1>6 DEF CopiesKept
  <2>2. /\ published' \in Snapshot /\ file' \in Files /\ boot' \in 0..(Len(file') + 2)
        /\ lapsed \subseteq DOMAIN Rules /\ stale' \in BOOLEAN
    BY <1>2 DEF IInv, TablesOK
  <2> QED BY <1>5, <2>1, <2>2, CommandRows, TablesAre
<1>8. NobodyServed'
  BY <1>2 DEF NobodyServed, Up
<1> QED BY <1>6, <1>7, <1>8 DEF IInv

(* What a reload does to the handlers.                                     *)
LEMMA LoadKeeps ==
  ASSUME RoutingAssumption, IInv, NEW h \in Handlers, Load(h)
  PROVE  IInv'
<1>1. UNCHANGED <<routes, rules, lapsed, subs, boot, file>>
  BY DEF Load, LoadRoutes, LoadRules, LoadSubs, Publish, LoadFails, tables
<1>2. handlers \in [ Handlers -> Handler ] /\ CopiesKept /\ handlers[h].pc # "idle"
  BY DEF Load, LoadRoutes, LoadRules, LoadSubs, Publish, LoadFails, IInv, TablesOK
<1>3. Up
  BY <1>2 DEF IInv, NobodyServed, Idle
<1>4. handlers[h] \in Handler /\ handlers[h].read \in Snapshot
  BY <1>2 DEF Handler
<1>5. /\ handlers' \in [ Handlers -> Handler ]
      /\ \A m \in Handlers : handlers'[m].read.routes \in {handlers[m].read.routes, routes, Empty.routes}
  <2>1. CASE LoadRoutes(h)
    <3> DEFINE new == [ pc |-> "rules", read |-> [ Empty EXCEPT !.routes = routes ],
                        before |-> { m \in Handlers : Reading(m) }, late |-> FALSE ]
    <3>1. [ Empty EXCEPT !.routes = routes ] \in Snapshot
      BY EmptyIsSnapshot DEF IInv, TablesOK, Snapshot, Empty
    <3>2. new \in Handler
      BY <3>1 DEF Handler
    <3>3. new.read.routes = routes
      BY DEF Empty
    <3>4. handlers' = [ handlers EXCEPT ![h] = new ]
      BY <2>1 DEF LoadRoutes
    <3> HIDE DEF new
    <3> QED BY <1>2, <3>2, <3>3, <3>4
  <2>2. CASE LoadRules(h)
    <3> DEFINE new == [ handlers[h] EXCEPT !.pc = "subs", !.read.rules = ActiveRules(handlers[h].read.routes) ]
    <3>1. handlers' = [ handlers EXCEPT ![h] = new ]
      BY <1>2, <2>2 DEF LoadRules
    <3>2. ActiveRules(handlers[h].read.routes) \in SUBSET DOMAIN Rules
      BY DEF ActiveRules
    <3>3. new \in Handler /\ new.read.routes = handlers[h].read.routes
      BY <1>4, <3>2 DEF Handler, Snapshot
    <3> HIDE DEF new
    <3> QED BY <1>2, <3>1, <3>3
  <2>3. CASE LoadSubs(h)
    <3> DEFINE new == [ handlers[h] EXCEPT !.pc = "publish", !.read.subs = subs ]
    <3>1. handlers' = [ handlers EXCEPT ![h] = new ]
      BY <1>2, <2>3 DEF LoadSubs
    <3>2. subs \in SUBSET DOMAIN Subs
      BY DEF IInv, TablesOK
    <3>3. new \in Handler /\ new.read.routes = handlers[h].read.routes
      BY <1>4, <3>2 DEF Handler, Snapshot
    <3> HIDE DEF new
    <3> QED BY <1>2, <3>1, <3>3
  <2>4. CASE Publish(h) \/ LoadFails(h)
    <3>1. PICK overtaken : handlers' = Done(h, overtaken)
      BY <2>4 DEF Publish, LoadFails
    <3>2. \A m \in Handlers :
            handlers'[m] = IF m = h THEN Idle
                           ELSE [ handlers[m] EXCEPT !.before = @ \ {h}, !.late = @ \/ m \in overtaken ]
      BY <3>1 DEF Done
    <3>3. \A m \in Handlers \ {h} :
            handlers'[m] \in Handler /\ handlers'[m].read = handlers[m].read
      <4> SUFFICES ASSUME NEW m \in Handlers \ {h}
                   PROVE  handlers'[m] \in Handler /\ handlers'[m].read = handlers[m].read
        OBVIOUS
      <4>1. PICK late \in BOOLEAN :
              handlers'[m] = [ handlers[m] EXCEPT !.before = @ \ {h}, !.late = late ]
        <5>1. handlers[m].late \in BOOLEAN
          BY <1>2 DEF Handler
        <5>2. handlers'[m] = [ handlers[m] EXCEPT !.before = @ \ {h},
                                                  !.late = handlers[m].late \/ m \in overtaken ]
          BY <1>2, <3>2 DEF Handler
        <5>3. (handlers[m].late \/ m \in overtaken) \in BOOLEAN
          BY <5>1
        <5> QED BY <5>2, <5>3
      <4>2. PICK old \in Handler : old = handlers[m]
        BY <1>2
      <4>3. PICK before \in SUBSET Handlers : before = old.before \ {h}
        BY <4>2 DEF Handler
      <4>4. handlers'[m] = [ old EXCEPT !.before = before, !.late = late ]
        BY <4>1, <4>2, <4>3 DEF Handler
      <4>5. handlers'[m] \in Handler /\ handlers'[m].read = old.read
        BY <4>4 DEF Handler
      <4> QED BY <4>2, <4>5
    <3>4. handlers'[h] = Idle /\ Idle \in Handler /\ Idle.read.routes = Empty.routes
      BY <3>2, IdleIsHandler DEF Idle
    <3>5. handlers' = [ m \in Handlers |-> handlers'[m] ]
      BY <3>1 DEF Done
    <3> QED BY <3>3, <3>4, <3>5
  <2> QED BY <2>1, <2>2, <2>3, <2>4 DEF Load
<1>6. published' \in Snapshot /\ published'.routes \in {published.routes, handlers[h].read.routes}
  BY <1>4 DEF Load, LoadRoutes, LoadRules, LoadSubs, Publish, LoadFails, Assembled, IInv, TablesOK
<1>7. CopyOf(routes, routes) /\ CopyOf(Empty.routes, routes)
  BY EmptyIsSnapshot DEF CopyOf, SameRoute
<1>8. CopiesKept'
  <2>1. \A m \in Handlers : CopyOf(handlers'[m].read.routes, routes)
    BY <1>2, <1>5, <1>7 DEF CopiesKept
  <2>2. CopyOf(published'.routes, routes)
    BY <1>2, <1>6 DEF CopiesKept
  <2> QED BY <1>1, <2>1, <2>2 DEF CopiesKept
<1>9. stale' \in BOOLEAN
  BY <1>4 DEF Load, LoadRoutes, LoadRules, LoadSubs, Publish, LoadFails, IInv, TablesOK, Handler
<1>10. TablesOK'
  <2>1. /\ routes' \in Seq(Row) /\ NamesUnique(routes')
    BY <1>1, NamesAreUnique DEF IInv
  <2>2. /\ rules' \in [ DOMAIN Rules -> {"none", "on", "revoked"} ]
        /\ lapsed' \subseteq DOMAIN Rules /\ subs' \subseteq DOMAIN Subs
        /\ file' \in Files /\ boot' \in 0..(Len(file') + 2)
    BY <1>1 DEF IInv, TablesOK
  <2>3. CopyOf(published'.routes, routes')
    BY <1>8 DEF CopiesKept
  <2> QED BY <1>5, <1>6, <1>9, <2>1, <2>2, <2>3, TablesAre
<1>11. NobodyServed'
  BY <1>1, <1>3 DEF NobodyServed, Up
<1> QED BY <1>8, <1>10, <1>11 DEF IInv

(* The start: the rows of the file one by one, then those it dropped.      *)
LEMMA StartKeeps ==
  ASSUME RoutingAssumption, IInv, SyncRoute \/ DisableMissing
  PROVE  IInv'
<1>1. ~Up /\ UNCHANGED <<rules, lapsed, subs, published, file, handlers, stale>>
  <2>1. Len(file) \in Nat
    BY LenProperties DEF IInv, TablesOK, RoutingAssumption
  <2> QED BY <2>1 DEF SyncRoute, DisableMissing, Up
<1>2. published = Empty /\ \A h \in Handlers : handlers[h].read = Empty
  BY <1>1 DEF IInv, NobodyServed, Idle
<1>3. routes' \in Seq(Row) /\ NamesUnique(routes')
  <2>1. routes \in Seq(Row) /\ NamesUnique(routes)
    BY NamesAreUnique DEF IInv
  <2>2. CASE SyncRoute
    <3>1. file[boot] \in Declared
      BY <2>2, ElementOfSeq DEF SyncRoute, IInv, TablesOK, RoutingAssumption
    <3> QED BY <2>1, <2>2, <3>1, RowOfIs, SyncedRows DEF SyncRoute
  <2>3. CASE DisableMissing
    BY <2>1, <2>3, PrunedRows DEF DisableMissing
  <2> QED BY <2>2, <2>3
<1>4. boot' \in 1..(Len(file) + 2)
  <2>1. Len(file) \in Nat
    BY LenProperties DEF IInv, TablesOK, RoutingAssumption
  <2> QED BY <2>1 DEF SyncRoute, DisableMissing
<1>5. CopiesKept'
  BY <1>1, <1>2, EmptyIsSnapshot DEF CopiesKept, CopyOf
<1>6. TablesOK'
  <2>1. CopyOf(published'.routes, routes')
    BY <1>5 DEF CopiesKept
  <2>2. /\ rules' \in [ DOMAIN Rules -> {"none", "on", "revoked"} ]
        /\ lapsed' \subseteq DOMAIN Rules /\ subs' \subseteq DOMAIN Subs
        /\ published' \in Snapshot /\ file' \in Files
        /\ handlers' \in [ Handlers -> Handler ] /\ stale' \in BOOLEAN
    BY <1>1 DEF IInv, TablesOK
  <2>3. boot' \in 0..(Len(file') + 2)
    BY <1>1, <1>4
  <2> QED BY <1>3, <2>1, <2>2, <2>3, TablesAre
<1>7. NobodyServed'
  BY <1>1 DEF IInv, NobodyServed
<1> QED BY <1>5, <1>6, <1>7 DEF IInv

LEMMA OthersKeep ==
  ASSUME RoutingAssumption, IInv,
         \/ LoadInitial \/ Restart \/ UNCHANGED vars
         \/ \E r \in DOMAIN Rules : Lapse(r)
         \/ \E a \in DOMAIN Alerts, kind \in Kinds : Deliver(a, kind)
  PROVE  IInv'
<1>1. UNCHANGED <<routes, rules, subs>>
  BY DEF LoadInitial, Restart, Lapse, Deliver, tables, vars
<1>2. routes' \in Seq(Row) /\ NamesUnique(routes')
  BY <1>1, NamesAreUnique DEF IInv
<1>3. /\ rules' \in [ DOMAIN Rules -> {"none", "on", "revoked"} ] /\ subs' \subseteq DOMAIN Subs
      /\ lapsed' \subseteq DOMAIN Rules
  <2>1. \/ lapsed' = lapsed
        \/ \E r \in DOMAIN Rules : lapsed' = lapsed \cup {r}
    BY DEF LoadInitial, Restart, Lapse, Deliver, tables, vars
  <2>2. /\ rules \in [ DOMAIN Rules -> {"none", "on", "revoked"} ] /\ subs \subseteq DOMAIN Subs
        /\ lapsed \subseteq DOMAIN Rules
    BY DEF IInv, TablesOK
  <2> QED BY <1>1, <2>1, <2>2
<1>4. /\ published' \in Snapshot /\ handlers' \in [ Handlers -> Handler ] /\ stale' \in BOOLEAN
      /\ file' \in Files /\ boot' \in 0..(Len(file') + 2)
      /\ CopiesKept' /\ NobodyServed'
  <2>1. CASE LoadInitial
    <3>1. UNCHANGED <<file, handlers, stale>> /\ published' = Current /\ boot' = 0
      BY <2>1 DEF LoadInitial
    <3>2. Current \in Snapshot /\ Current.routes = routes
      BY DEF Current, Snapshot, ActiveRules, IInv, TablesOK
    <3>3. Len(file) \in Nat
      BY LenProperties DEF IInv, TablesOK, RoutingAssumption
    <3>4. CopyOf(routes, routes)
      BY DEF CopyOf, SameRoute
    <3>5. CopiesKept'
      BY <1>1, <3>1, <3>2, <3>4 DEF IInv, CopiesKept
    <3>6. NobodyServed'
      BY <3>1 DEF NobodyServed, Up
    <3> QED BY <3>1, <3>2, <3>3, <3>5, <3>6 DEF IInv, TablesOK
  <2>2. CASE Restart
    <3>1. /\ published' = Empty /\ handlers' = [ h \in Handlers |-> Idle ] /\ stale' = FALSE
          /\ boot' = 1 /\ file' \in Files
      BY <2>2 DEF Restart
    <3>2. Len(file') \in Nat
      BY <3>1, LenProperties DEF RoutingAssumption
    <3>3. CopiesKept'
      BY <1>1, <3>1, EmptyIsSnapshot DEF CopiesKept, CopyOf, Idle
    <3>4. NobodyServed'
      BY <3>1 DEF NobodyServed
    <3>5. published' \in Snapshot /\ handlers' \in [ Handlers -> Handler ]
      BY <3>1, EmptyIsSnapshot, IdleIsHandler
    <3>6. boot' \in 0..(Len(file') + 2)
      BY <3>1, <3>2
    <3> QED BY <3>1, <3>3, <3>4, <3>5, <3>6
  <2>3. CASE UNCHANGED <<published, handlers, stale, file, boot>>
    BY <1>1, <2>3 DEF IInv, TablesOK, CopiesKept, NobodyServed, Up
  <2> QED BY <2>1, <2>2, <2>3 DEF Lapse, Deliver, vars
<1>5. TablesOK'
  <2>1. CopyOf(published'.routes, routes')
    BY <1>4 DEF CopiesKept
  <2> QED BY <1>2, <1>3, <1>4, <2>1, TablesAre
<1> QED BY <1>4, <1>5 DEF IInv

LEMMA Inductive == RoutingAssumption /\ IInv /\ [Next]_vars => IInv'
<1> SUFFICES ASSUME RoutingAssumption, IInv, [Next]_vars
             PROVE  IInv'
  OBVIOUS
<1>1. CASE \E h \in Handlers : Command(h) \/ Load(h)
  BY <1>1, CommandKeeps, LoadKeeps
<1>2. CASE SyncRoute \/ DisableMissing
  BY <1>2, StartKeeps
<1>3. CASE \/ LoadInitial \/ Restart \/ UNCHANGED vars
           \/ \E r \in DOMAIN Rules : Lapse(r)
           \/ \E a \in DOMAIN Alerts, kind \in Kinds : Deliver(a, kind)
  BY <1>3, OthersKeep
<1> QED BY <1>1, <1>2, <1>3 DEF Next

LEMMA Invariant == Spec => []IInv
<1>1. Init => IInv
  BY RoutingAssumption, InitiallyOK
<1>2. IInv /\ [Next]_vars => IInv'
  BY RoutingAssumption, Inductive
<1> QED BY <1>1, <1>2, PTL DEF Spec

(* The tables, what is published of them and what reloads have read are    *)
(* what they should be: a guild has one route of a name, and a copy is of  *)
(* rows that are there, for any commands and any number of handlers.       *)
THEOREM TablesAreCorrect == Spec => []TablesOK
<1>1. IInv => TablesOK
  BY DEF IInv
<1> QED BY <1>1, Invariant, PTL

-----------------------------------------------------------------------------
(* The file owns its routes.  "Unique within a guild" says the option of a *)
(* route's name, and nothing looks whether it is: of two routes of one     *)
(* name the later one is in the table.                                     *)
NamesDistinct ==
  \A f \in Files : \A m, n \in DOMAIN f :
    f[m].guild = f[n].guild /\ f[m].name = f[n].name => m = n

IsIn(n) == \E i \in DOMAIN routes : routes[i] = RowOf(file[n], "config")

InFile(row) == \E n \in DOMAIN file : file[n].name = row.name

(* How far the start has come.                                             *)
FileIsSynced ==
  /\ \A n \in DOMAIN file : Up \/ n < boot => IsIn(n)
  /\ Up \/ boot = Len(file) + 2 =>
       \A i \in DOMAIN routes : routes[i].source = "config" /\ routes[i].enabled => InFile(routes[i])

LEMMA CommandsLeaveFile ==
  ASSUME RoutingAssumption, IInv, FileIsSynced, NEW h \in Handlers, Command(h)
  PROVE  FileIsSynced'
<1>1. Begin(h) /\ RowsStay
  BY CommandRows
<1>2. Up /\ UNCHANGED <<boot, file>>
  BY <1>1 DEF Begin
<1>3. \A i \in DOMAIN routes' :
        (i \in DOMAIN routes /\ routes'[i] = routes[i]) \/ routes'[i].source = "discord"
  BY CommandRows
<1>4. \A i \in DOMAIN routes : routes[i].source = "config" => routes'[i] = routes[i]
  BY CommandRows
<1>5. \A n \in DOMAIN file : RowOf(file[n], "config").source = "config"
  BY DEF RowOf
<1>6. \A n \in DOMAIN file : RowOf(file[n], "config")' = RowOf(file[n], "config")
  BY <1>2 DEF RowOf
<1>7. \A n \in DOMAIN file : IsIn(n)'
  BY <1>1, <1>2, <1>4, <1>5, <1>6 DEF FileIsSynced, IsIn, RowsStay
<1>8. \A i \in DOMAIN routes' : routes'[i].source = "config" /\ routes'[i].enabled =>
        \E n \in DOMAIN file : file[n].name = routes'[i].name
  BY <1>2, <1>3 DEF FileIsSynced, InFile
<1> QED BY <1>2, <1>7, <1>8 DEF FileIsSynced, InFile, Up

LEMMA StartSyncsFile ==
  ASSUME RoutingAssumption, NamesDistinct, IInv, FileIsSynced, SyncRoute \/ DisableMissing
  PROVE  FileIsSynced'
<1>1. file \in Seq(Declared) /\ file \in Files /\ routes \in Seq(Row) /\ NamesUnique(routes)
  BY NamesAreUnique DEF IInv, TablesOK, RoutingAssumption
<1>2. Len(file) \in Nat /\ DOMAIN file = 1..Len(file)
  BY <1>1, LenProperties
<1>3. file' = file /\ \A n : RowOf(file[n], "config")' = RowOf(file[n], "config")
  BY DEF SyncRoute, DisableMissing, RowOf
<1>4. \A n \in DOMAIN file :
        /\ RowOf(file[n], "config").source = "config"
        /\ RowOf(file[n], "config").guild = file[n].guild
        /\ RowOf(file[n], "config").name = file[n].name
  BY DEF RowOf
<1>5. CASE SyncRoute
  <2>1. boot \in DOMAIN file /\ boot' = boot + 1 /\ routes' = Synced(file[boot]) /\ boot \in 1..Len(file)
    BY <1>2, <1>5 DEF SyncRoute
  <2>2. file[boot] \in Declared
    BY <1>1, <1>2, <2>1, ElementOfSeq
  <2>3. /\ DOMAIN routes \subseteq DOMAIN routes'
        /\ \E i \in DOMAIN routes' : routes'[i] = RowOf(file[boot], "config")
        /\ \A i \in DOMAIN routes :
             \/ routes'[i] = routes[i]
             \/ routes[i].guild = file[boot].guild /\ routes[i].name = file[boot].name
    BY <1>1, <2>1, <2>2, RowOfIs, SyncedRows
  <2>4. ASSUME NEW n \in DOMAIN file, n < boot
        PROVE  \E i \in DOMAIN routes' : routes'[i] = RowOf(file[n], "config")
    <3>1. PICK i \in DOMAIN routes : routes[i] = RowOf(file[n], "config")
      BY <2>4 DEF FileIsSynced, IsIn
    <3>2. n # boot
      BY <1>2, <2>1, <2>4
    <3>3. ~(routes[i].guild = file[boot].guild /\ routes[i].name = file[boot].name)
      BY <1>1, <1>4, <2>1, <3>1, <3>2 DEF NamesDistinct
    <3> QED BY <2>3, <3>1, <3>3
  <2>5. \A n \in DOMAIN file : n < boot' => \E i \in DOMAIN routes' : routes'[i] = RowOf(file[n], "config")
    BY <1>2, <2>1, <2>3, <2>4
  <2>6. boot' # Len(file) + 2 /\ boot' # 0
    BY <1>2, <2>1
  <2> QED BY <1>3, <2>5, <2>6 DEF FileIsSynced, IsIn, Up
<1>6. CASE DisableMissing
  <2>1. boot = Len(file) + 1 /\ boot' = Len(file) + 2 /\ routes' = Pruned
    BY <1>2, <1>6 DEF DisableMissing
  <2>2. /\ DOMAIN routes' = DOMAIN routes
        /\ \A i \in DOMAIN routes :
             IF /\ routes[i].source = "config"
                /\ \A n \in DOMAIN file : file[n].name # routes[i].name
             THEN routes'[i].enabled = FALSE ELSE routes'[i] = routes[i]
        /\ \A i \in DOMAIN routes : routes'[i].name = routes[i].name /\ routes'[i].source = routes[i].source
    BY <1>1, <2>1, PrunedRows
  <2>3. \A n \in DOMAIN file : IsIn(n)
    BY <1>2, <2>1 DEF FileIsSynced
  <2>4. \A n \in DOMAIN file : \E i \in DOMAIN routes' : routes'[i] = RowOf(file[n], "config")
    BY <1>4, <2>2, <2>3 DEF IsIn
  <2>5. \A i \in DOMAIN routes' : routes'[i].source = "config" /\ routes'[i].enabled =>
          \E n \in DOMAIN file : file[n].name = routes'[i].name
    BY <2>2
  <2> QED BY <1>3, <2>4, <2>5 DEF FileIsSynced, IsIn, InFile
<1> QED BY <1>5, <1>6

LEMMA OthersLeaveFile ==
  ASSUME RoutingAssumption, IInv, FileIsSynced,
         \/ LoadInitial \/ Restart \/ UNCHANGED vars
         \/ \E h \in Handlers : Load(h)
         \/ \E r \in DOMAIN Rules : Lapse(r)
         \/ \E a \in DOMAIN Alerts, kind \in Kinds : Deliver(a, kind)
  PROVE  FileIsSynced'
<1>1. UNCHANGED routes
  BY DEF LoadInitial, Restart, Lapse, Deliver, Load, LoadRoutes, LoadRules, LoadSubs, Publish,
         LoadFails, tables, vars
<1>2. CASE LoadInitial
  <2>1. boot = Len(file) + 2 /\ file' = file
    BY <1>2 DEF LoadInitial
  <2>2. Len(file) \in Nat /\ DOMAIN file = 1..Len(file)
    BY LenProperties DEF IInv, TablesOK, RoutingAssumption
  <2>3. \A n \in DOMAIN file : IsIn(n)
    BY <2>1, <2>2 DEF FileIsSynced
  <2>4. \A n \in DOMAIN file : IsIn(n)'
    BY <1>1, <2>1, <2>3 DEF IsIn, RowOf
  <2>5. \A i \in DOMAIN routes : routes[i].source = "config" /\ routes[i].enabled => InFile(routes[i])
    BY <2>1 DEF FileIsSynced
  <2>6. \A i \in DOMAIN routes : InFile(routes[i])' <=> InFile(routes[i])
    BY <1>1, <2>1 DEF InFile
  <2> QED BY <1>1, <2>1, <2>4, <2>5, <2>6 DEF FileIsSynced
<1>3. CASE Restart
  <2>1. boot' = 1 /\ file' \in Seq(Declared)
    BY <1>3 DEF Restart, RoutingAssumption
  <2>2. Len(file') \in Nat /\ DOMAIN file' = 1..Len(file')
    BY <2>1, LenProperties
  <2>3. (\A n \in DOMAIN file' : ~(n < boot')) /\ boot' # Len(file') + 2 /\ boot' # 0
    BY <2>1, <2>2
  <2> QED BY <2>3 DEF FileIsSynced, Up
<1>4. CASE UNCHANGED <<boot, file>>
  BY <1>1, <1>4 DEF FileIsSynced, IsIn, InFile, RowOf, Up
<1> QED BY <1>2, <1>3, <1>4 DEF Lapse, Deliver, Load, LoadRoutes, LoadRules, LoadSubs, Publish,
         LoadFails, vars

(* While the process runs, every route of its file is in the table as the  *)
(* file has it, on or off, and those of earlier files whose name is gone   *)
(* are off, whatever commands come.                                        *)
THEOREM FileKeepsRoutes == NamesDistinct => (Spec => []FileOwnsItsRoutes)
<1> SUFFICES ASSUME NamesDistinct PROVE Spec => []FileOwnsItsRoutes
  OBVIOUS
<1>1. Init => FileIsSynced
  <2> SUFFICES ASSUME Init
               PROVE  FileIsSynced
    OBVIOUS
  <2>1. boot = 1 /\ file \in Seq(Declared)
    BY RoutingAssumption DEF Init, RoutingAssumption
  <2>2. Len(file) \in Nat /\ DOMAIN file = 1..Len(file)
    BY <2>1, LenProperties
  <2>3. (\A n \in DOMAIN file : ~(n < boot)) /\ boot # Len(file) + 2 /\ boot # 0
    BY <2>1, <2>2
  <2> QED BY <2>3 DEF FileIsSynced, Up
<1>2. IInv /\ FileIsSynced /\ [Next]_vars => FileIsSynced'
  <2> SUFFICES ASSUME IInv, FileIsSynced, [Next]_vars
               PROVE  FileIsSynced'
    OBVIOUS
  <2>1. CASE \E h \in Handlers : Command(h)
    BY <2>1, RoutingAssumption, CommandsLeaveFile
  <2>2. CASE SyncRoute \/ DisableMissing
    BY <2>2, RoutingAssumption, StartSyncsFile
  <2>3. CASE \/ LoadInitial \/ Restart \/ UNCHANGED vars
             \/ \E h \in Handlers : Load(h)
             \/ \E r \in DOMAIN Rules : Lapse(r)
             \/ \E a \in DOMAIN Alerts, kind \in Kinds : Deliver(a, kind)
    BY <2>3, RoutingAssumption, OthersLeaveFile
  <2> QED BY <2>1, <2>2, <2>3 DEF Next
<1>3. FileIsSynced => FileOwnsItsRoutes
  <2>1. \A n \in DOMAIN file :
          LET row == RowOf(file[n], "config") IN row.source = "config" /\ Says(row, file[n])
    BY DEF RowOf, Says
  <2> QED BY <2>1 DEF FileIsSynced, FileOwnsItsRoutes, IsIn, InFile
<1> QED BY <1>1, <1>2, <1>3, Invariant, PTL DEF Spec

-----------------------------------------------------------------------------
(* The snapshot.  What a reload has read is what the tables hold, unless   *)
(* another one, which has more to read, is to publish after it: if that    *)
(* one publishes before it, or fails, it is late.                          *)
ReadIsCurrent(m) ==
  LET read == handlers[m].read
  IN  /\ read.routes = routes
      /\ handlers[m].pc \in {"subs", "publish"} => read.rules \ lapsed = ActiveRules(routes)
      /\ handlers[m].pc = "publish" => read.subs = subs

Follows(h, m) == handlers[h].pc = "routes" \/ (Reading(h) /\ m \in handlers[h].before)

ReadsAreCurrent ==
  \A m \in Handlers : Reading(m) /\ ~handlers[m].late =>
    ReadIsCurrent(m) \/ \E h \in Handlers \ {m} : Follows(h, m)

PublishedIsCurrent ==
  /\ published.routes = routes /\ published.rules \ lapsed = ActiveRules(routes)
  /\ published.subs = subs

(* While nobody reloads, the last reload has the say.                      *)
LastReadCounts ==
  Up /\ ~stale => PublishedIsCurrent \/ \E h \in Handlers : handlers[h].pc # "idle"

SInv == ReadsAreCurrent /\ LastReadCounts

LEMMA LoadReads ==
  ASSUME IInv, NEW h \in Handlers, LoadRoutes(h) \/ LoadRules(h) \/ LoadSubs(h)
  PROVE  /\ \A m \in Handlers \ {h} : handlers'[m] = handlers[m]
         /\ Reading(h)' /\ UNCHANGED <<tables, published, boot, stale>>
         /\ \/ /\ handlers[h].pc = "routes" /\ handlers'[h].pc = "rules"
               /\ handlers'[h].read.routes = routes
               /\ handlers'[h].before = { m \in Handlers : Reading(m) }
            \/ /\ handlers[h].pc = "rules" /\ handlers'[h].pc = "subs"
               /\ handlers'[h].before = handlers[h].before /\ handlers'[h].late = handlers[h].late
               /\ handlers'[h].read.routes = handlers[h].read.routes
               /\ handlers'[h].read.rules = ActiveRules(handlers[h].read.routes)
            \/ /\ handlers[h].pc = "subs" /\ handlers'[h].pc = "publish"
               /\ handlers'[h].before = handlers[h].before /\ handlers'[h].late = handlers[h].late
               /\ handlers'[h].read.routes = handlers[h].read.routes
               /\ handlers'[h].read.rules = handlers[h].read.rules
               /\ handlers'[h].read.subs = subs
<1>1. handlers \in [ Handlers -> Handler ]
  BY DEF IInv, TablesOK
<1>2. UNCHANGED <<tables, published, boot, stale>>
  BY DEF LoadRoutes, LoadRules, LoadSubs
<1>3. handlers[h] \in Handler /\ handlers[h].read \in Snapshot
  BY <1>1 DEF Handler
<1>4. CASE LoadRoutes(h)
  <2> DEFINE new == [ pc |-> "rules", read |-> [ Empty EXCEPT !.routes = routes ],
                      before |-> { m \in Handlers : Reading(m) }, late |-> FALSE ]
  <2>1. handlers[h].pc = "routes" /\ handlers' = [ handlers EXCEPT ![h] = new ]
    BY <1>4 DEF LoadRoutes
  <2>2. new.pc = "rules" /\ new.read.routes = routes /\ new.before = { m \in Handlers : Reading(m) }
    BY DEF Empty
  <2> HIDE DEF new
  <2>3. handlers'[h] = new /\ \A m \in Handlers \ {h} : handlers'[m] = handlers[m]
    BY <1>1, <2>1
  <2> QED BY <1>2, <2>1, <2>2, <2>3 DEF Reading
<1>5. CASE LoadRules(h)
  <2> DEFINE new == [ handlers[h] EXCEPT !.pc = "subs", !.read.rules = ActiveRules(handlers[h].read.routes) ]
  <2>1. handlers[h].pc = "rules" /\ handlers' = [ handlers EXCEPT ![h] = new ]
    BY <1>1, <1>5 DEF LoadRules
  <2>2. /\ new.pc = "subs" /\ new.before = handlers[h].before /\ new.late = handlers[h].late
        /\ new.read.routes = handlers[h].read.routes
        /\ new.read.rules = ActiveRules(handlers[h].read.routes)
    BY <1>3 DEF Handler, Snapshot
  <2> HIDE DEF new
  <2>3. handlers'[h] = new /\ \A m \in Handlers \ {h} : handlers'[m] = handlers[m]
    BY <1>1, <2>1
  <2> QED BY <1>2, <2>1, <2>2, <2>3 DEF Reading
<1>6. CASE LoadSubs(h)
  <2> DEFINE new == [ handlers[h] EXCEPT !.pc = "publish", !.read.subs = subs ]
  <2>1. handlers[h].pc = "subs" /\ handlers' = [ handlers EXCEPT ![h] = new ]
    BY <1>1, <1>6 DEF LoadSubs
  <2>2. /\ new.pc = "publish" /\ new.before = handlers[h].before /\ new.late = handlers[h].late
        /\ new.read.routes = handlers[h].read.routes /\ new.read.rules = handlers[h].read.rules
        /\ new.read.subs = subs
    BY <1>3 DEF Handler, Snapshot
  <2> HIDE DEF new
  <2>3. handlers'[h] = new /\ \A m \in Handlers \ {h} : handlers'[m] = handlers[m]
    BY <1>1, <2>1
  <2> QED BY <1>2, <2>1, <2>2, <2>3 DEF Reading
<1> QED BY <1>4, <1>5, <1>6

LEMMA ReloadEnds ==
  ASSUME IInv, NEW h \in Handlers, NEW overtaken, handlers' = Done(h, overtaken)
  PROVE  /\ handlers'[h] = Idle
         /\ \A m \in Handlers \ {h} :
              /\ handlers'[m].pc = handlers[m].pc /\ handlers'[m].read = handlers[m].read
              /\ handlers'[m].before = handlers[m].before \ {h}
              /\ handlers[m].late \/ m \in overtaken => handlers'[m].late
<1>1. handlers \in [ Handlers -> Handler ]
  BY DEF IInv, TablesOK
<1>2. ASSUME NEW m \in Handlers \ {h}
      PROVE  /\ handlers'[m].pc = handlers[m].pc /\ handlers'[m].read = handlers[m].read
             /\ handlers'[m].before = handlers[m].before \ {h}
             /\ handlers[m].late \/ m \in overtaken => handlers'[m].late
  <2>1. PICK old \in Handler : old = handlers[m]
    BY <1>1
  <2>2. PICK before : before = old.before \ {h}
    OBVIOUS
  <2>3. PICK late : late = (old.late \/ m \in overtaken)
    OBVIOUS
  <2>4. handlers'[m] = [ handlers[m] EXCEPT !.before = @ \ {h}, !.late = @ \/ m \in overtaken ]
    BY DEF Done
  <2>5. handlers'[m] = [ old EXCEPT !.before = before, !.late = late ]
    BY <2>1, <2>2, <2>3, <2>4 DEF Handler
  <2>6. /\ handlers'[m].pc = old.pc /\ handlers'[m].read = old.read
        /\ handlers'[m].before = before /\ handlers'[m].late = late
    BY <2>5 DEF Handler
  <2> QED BY <2>1, <2>2, <2>3, <2>6
<1>3. handlers'[h] = Idle
  BY DEF Done
<1> QED BY <1>2, <1>3

LEMMA ReadsKept ==
  ASSUME IInv, ReadsAreCurrent, NEW h \in Handlers, Load(h)
  PROVE  ReadsAreCurrent'
<1>1. UNCHANGED tables
  BY DEF Load, LoadRoutes, LoadRules, LoadSubs, Publish, LoadFails
<1>2. UNCHANGED <<routes, lapsed, subs>> /\ \A table : ActiveRules(table)' = ActiveRules(table)
  BY <1>1 DEF tables, ActiveRules
<1>3. ASSUME NEW m \in Handlers, handlers'[m].read = handlers[m].read, handlers'[m].pc = handlers[m].pc,
             ReadIsCurrent(m)
      PROVE  ReadIsCurrent(m)'
  BY <1>2, <1>3 DEF ReadIsCurrent, ActiveRules
<1>4. SUFFICES ASSUME NEW m \in Handlers, Reading(m)', ~handlers'[m].late
               PROVE  ReadIsCurrent(m)' \/ \E k \in Handlers \ {m} : Follows(k, m)'
  BY DEF ReadsAreCurrent
<1>5. CASE LoadRoutes(h) \/ LoadRules(h) \/ LoadSubs(h)
  <2>1. /\ \A k \in Handlers \ {h} : handlers'[k] = handlers[k]
        /\ Reading(h)'
    BY <1>5, LoadReads
  <2>2. ASSUME NEW k \in Handlers \ {h}, Follows(k, m)
        PROVE  Follows(k, m)'
    BY <2>1, <2>2 DEF Follows, Reading
  <2>3. CASE m # h
    <3>1. handlers'[m] = handlers[m] /\ Reading(m) /\ ~handlers[m].late
      BY <1>4, <2>1, <2>3 DEF Reading
    <3>2. CASE ReadIsCurrent(m)
      BY <1>3, <3>1, <3>2
    <3>3. ASSUME NEW k \in Handlers \ {m}, Follows(k, m)
          PROVE  Follows(k, m)'
      <4>1. CASE k # h
        BY <2>2, <3>3, <4>1
      <4>2. CASE k = h /\ handlers[h].pc = "routes"
        <5>1. handlers'[h].before = { n \in Handlers : Reading(n) }
          BY <1>5, <4>2, LoadReads
        <5> QED BY <2>1, <3>1, <4>2, <5>1 DEF Follows
      <4>3. CASE k = h /\ handlers[h].pc # "routes"
        <5>1. m \in handlers[h].before
          BY <3>3, <4>3 DEF Follows
        <5>2. handlers'[h].before = handlers[h].before
          BY <1>5, <4>3, LoadReads
        <5> QED BY <2>1, <4>3, <5>1, <5>2 DEF Follows
      <4> QED BY <4>1, <4>2, <4>3
    <3> QED BY <3>1, <3>2, <3>3 DEF ReadsAreCurrent
  <2>4. CASE m = h
    <3>1. CASE handlers[h].pc = "routes"
      <4>1. handlers'[h].pc = "rules" /\ handlers'[h].read.routes = routes
        BY <1>5, <3>1, LoadReads
      <4> QED BY <1>2, <2>4, <4>1 DEF ReadIsCurrent
    <3>2. CASE handlers[h].pc # "routes"
      <4>1. /\ Reading(h) /\ handlers'[h].late = handlers[h].late
            /\ handlers'[h].read.routes = handlers[h].read.routes
        BY <1>5, <3>2, LoadReads DEF Reading
      <4>2. CASE ReadIsCurrent(h)
        <5>1. handlers[h].read.routes = routes
          BY <4>2 DEF ReadIsCurrent
        <5>2. CASE handlers[h].pc = "rules"
          <6>1. handlers'[h].pc = "subs" /\ handlers'[h].read.rules = ActiveRules(routes)
            BY <1>5, <5>1, <5>2, LoadReads
          <6>2. handlers'[h].read.rules \ lapsed = ActiveRules(routes)
            BY <6>1 DEF ActiveRules
          <6>3. ActiveRules(routes)' = ActiveRules(routes)
            BY <1>2 DEF ActiveRules
          <6> QED BY <1>2, <2>4, <4>1, <5>1, <6>1, <6>2, <6>3 DEF ReadIsCurrent
        <5>3. CASE handlers[h].pc = "subs"
          <6>1. /\ handlers'[h].pc = "publish" /\ handlers'[h].read.rules = handlers[h].read.rules
                /\ handlers'[h].read.subs = subs
            BY <1>5, <5>3, LoadReads
          <6>2. handlers[h].read.rules \ lapsed = ActiveRules(routes)
            BY <4>2, <5>3 DEF ReadIsCurrent
          <6>3. ActiveRules(routes)' = ActiveRules(routes)
            BY <1>2 DEF ActiveRules
          <6> QED BY <1>2, <2>4, <4>1, <5>1, <6>1, <6>2, <6>3 DEF ReadIsCurrent
        <5> QED BY <1>5, <3>2, <5>2, <5>3, LoadReads
      <4>3. ASSUME NEW k \in Handlers \ {h}, Follows(k, h)
            PROVE  Follows(k, m)'
        BY <2>2, <2>4, <4>3
      <4> QED BY <1>4, <2>4, <4>1, <4>2, <4>3 DEF ReadsAreCurrent
    <3> QED BY <3>1, <3>2
  <2> QED BY <2>3, <2>4
<1>6. CASE Publish(h) \/ LoadFails(h)
  <2>1. PICK overtaken :
          /\ handlers' = Done(h, overtaken)
          /\ \A n \in Handlers : Reading(n) /\ Follows(h, n) => n \in overtaken
    <3>1. CASE Publish(h)
      BY <3>1 DEF Publish, Follows
    <3>2. CASE LoadFails(h)
      BY <3>2 DEF LoadFails
    <3> QED BY <1>6, <3>1, <3>2
  <2>2. m # h
    BY <1>4, <2>1, ReloadEnds DEF Reading, Idle
  <2>3. /\ handlers'[m].pc = handlers[m].pc /\ handlers'[m].read = handlers[m].read
        /\ ~handlers[m].late /\ m \notin overtaken
    BY <1>4, <2>1, <2>2, ReloadEnds
  <2>4. Reading(m) /\ ~Follows(h, m)
    BY <1>4, <2>1, <2>3 DEF Reading
  <2>5. CASE ReadIsCurrent(m)
    BY <1>3, <2>3, <2>5
  <2>6. ASSUME NEW k \in Handlers \ {m}, Follows(k, m)
        PROVE  Follows(k, m)'
    <3>1. k # h
      BY <2>4, <2>6
    <3>2. handlers'[k].pc = handlers[k].pc /\ handlers'[k].before = handlers[k].before \ {h}
      BY <2>1, <3>1, ReloadEnds
    <3> QED BY <2>2, <2>6, <3>2 DEF Follows, Reading
  <2> QED BY <2>3, <2>4, <2>5, <2>6 DEF ReadsAreCurrent
<1> QED BY <1>5, <1>6 DEF Load

(* The end of a reload.                                                    *)
LEMMA LastReadKept ==
  ASSUME IInv, SInv, NEW h \in Handlers, Load(h)
  PROVE  LastReadCounts'
<1>1. UNCHANGED tables
  BY DEF Load, LoadRoutes, LoadRules, LoadSubs, Publish, LoadFails
<1>2. CASE LoadRoutes(h) \/ LoadRules(h) \/ LoadSubs(h)
  <2>1. Reading(h)'
    BY <1>2, LoadReads
  <2> QED BY <2>1 DEF LastReadCounts, Reading
<1>3. CASE LoadFails(h)
  BY <1>3 DEF LoadFails, LastReadCounts
<1>4. CASE Publish(h)
  <2>1. handlers' = Done(h, handlers[h].before) /\ handlers[h].pc = "publish"
    BY <1>4 DEF Publish
  <2>2. stale' = handlers[h].late /\ published' = handlers[h].read
    BY <1>4 DEF Publish, Assembled
  <2>3. CASE handlers[h].late
    BY <2>2, <2>3 DEF LastReadCounts
  <2>4. CASE ~handlers[h].late /\ ReadIsCurrent(h)
    <3>1. UNCHANGED <<routes, lapsed, subs>> /\ ActiveRules(routes)' = ActiveRules(routes)
      BY <1>1 DEF tables, ActiveRules
    <3>2. /\ handlers[h].read.routes = routes /\ handlers[h].read.subs = subs
          /\ handlers[h].read.rules \ lapsed = ActiveRules(routes)
      BY <2>1, <2>4 DEF ReadIsCurrent
    <3> QED BY <2>2, <3>1, <3>2 DEF LastReadCounts, PublishedIsCurrent
  <2>5. ASSUME NEW k \in Handlers \ {h}, Follows(k, h)
        PROVE  LastReadCounts'
    <3>1. handlers'[k].pc = handlers[k].pc
      BY <2>1, ReloadEnds
    <3>2. handlers[k].pc # "idle"
      BY <2>5 DEF Follows, Reading
    <3> QED BY <3>1, <3>2 DEF LastReadCounts
  <2> QED BY <2>1, <2>3, <2>4, <2>5 DEF SInv, ReadsAreCurrent, Reading
<1> QED BY <1>2, <1>3, <1>4 DEF Load

LEMMA CommandsAreFollowed ==
  ASSUME IInv, NEW h \in Handlers, Command(h)
  PROVE  SInv'
<1>1. Begin(h)
  BY DEF Command, AddRoute, RemoveRoute, AddIgnore, RevokeIgnore, Subscribe, Unsubscribe, AdoptTags
<1>2. handlers \in [ Handlers -> Handler ]
  BY DEF IInv, TablesOK
<1>3. handlers'[h].pc = "routes"
  BY <1>1, <1>2 DEF Begin, Handler
<1>4. \A m \in Handlers : Reading(m)' => m # h
  BY <1>3 DEF Reading
<1> QED BY <1>3, <1>4 DEF SInv, ReadsAreCurrent, LastReadCounts, Follows

(* A rule that lapses is left out of the tables and of every copy.         *)
LEMMA LapseIsSeen ==
  ASSUME IInv, SInv, NEW r \in DOMAIN Rules, Lapse(r)
  PROVE  SInv'
<1>1. UNCHANGED <<routes, rules, subs, published, boot, handlers, stale>> /\ lapsed' = lapsed \cup {r}
  BY DEF Lapse
<1>2. ActiveRules(routes)' = ActiveRules(routes) \ {r}
  BY <1>1 DEF ActiveRules
<1>3. \A S : S \ lapsed = ActiveRules(routes) => S \ lapsed' = ActiveRules(routes)'
  BY <1>1, <1>2
<1>4. \A m \in Handlers : ReadIsCurrent(m) => ReadIsCurrent(m)'
  BY <1>1, <1>3 DEF ReadIsCurrent
<1>5. PublishedIsCurrent => PublishedIsCurrent'
  BY <1>1, <1>3 DEF PublishedIsCurrent
<1>6. \A h, m \in Handlers : Follows(h, m) => Follows(h, m)'
  BY <1>1 DEF Follows, Reading
<1>7. \A m \in Handlers : Reading(m)' => Reading(m)
  BY <1>1 DEF Reading
<1>8. ReadsAreCurrent'
  BY <1>1, <1>4, <1>6, <1>7 DEF SInv, ReadsAreCurrent
<1>9. LastReadCounts'
  BY <1>1, <1>5 DEF SInv, LastReadCounts, Up
<1> QED BY <1>8, <1>9 DEF SInv

LEMMA StartIsRead ==
  ASSUME IInv, SyncRoute \/ DisableMissing \/ LoadInitial \/ Restart
  PROVE  SInv'
<1>1. \A h \in Handlers : handlers'[h] = Idle
  <2>1. CASE Restart
    BY <2>1 DEF Restart
  <2>2. CASE SyncRoute \/ DisableMissing \/ LoadInitial
    <3>1. Len(file) \in Nat
      BY RoutingAssumption, LenProperties DEF IInv, TablesOK, RoutingAssumption
    <3>2. ~Up /\ handlers' = handlers
      BY <2>2, <3>1 DEF SyncRoute, DisableMissing, LoadInitial, Up
    <3> QED BY <3>2 DEF IInv, NobodyServed
  <2> QED BY <2>1, <2>2
<1>2. ReadsAreCurrent'
  BY <1>1 DEF ReadsAreCurrent, Reading, Idle
<1>3. LastReadCounts'
  <2>1. CASE LoadInitial
    <3>1. published' = Current /\ UNCHANGED <<routes, rules, lapsed, subs>>
      BY <2>1 DEF LoadInitial, tables
    <3>2. /\ published'.routes = routes /\ published'.rules = ActiveRules(routes)
          /\ published'.subs = subs
      BY <3>1 DEF Current
    <3>3. ActiveRules(routes) \ lapsed = ActiveRules(routes) /\ ActiveRules(routes)' = ActiveRules(routes)
      BY <3>1 DEF ActiveRules
    <3> QED BY <3>1, <3>2, <3>3 DEF LastReadCounts, PublishedIsCurrent
  <2>2. CASE SyncRoute \/ DisableMissing \/ Restart
    <3>1. Len(file) \in Nat
      BY RoutingAssumption, LenProperties DEF IInv, TablesOK, RoutingAssumption
    <3>2. ~Up'
      BY <2>2, <3>1 DEF SyncRoute, DisableMissing, Restart, Up
    <3> QED BY <3>2 DEF LastReadCounts
  <2> QED BY <2>1, <2>2
<1> QED BY <1>2, <1>3 DEF SInv

LEMMA OthersLeaveSnapshot ==
  ASSUME SInv, UNCHANGED <<routes, rules, lapsed, subs, published, boot, handlers, stale>>
  PROVE  SInv'
<1>1. ActiveRules(routes)' = ActiveRules(routes)
  BY DEF ActiveRules
<1>2. \A m \in Handlers : ReadIsCurrent(m)' = ReadIsCurrent(m)
  BY <1>1 DEF ReadIsCurrent
<1>3. \A h, m \in Handlers : Follows(h, m)' = Follows(h, m)
  BY DEF Follows, Reading
<1>4. PublishedIsCurrent' = PublishedIsCurrent
  BY <1>1 DEF PublishedIsCurrent
<1> QED BY <1>2, <1>3, <1>4 DEF SInv, ReadsAreCurrent, LastReadCounts, Reading, Up

(* Once no reload is under way, and unless the last one failed or was      *)
(* overtaken, decisions read what the tables hold, whatever was written    *)
(* while it read and however many read at once.                            *)
THEOREM SnapshotIsTable == Spec => []PublishedIsTable
<1>1. Init => SInv
  BY DEF Init, SInv, ReadsAreCurrent, LastReadCounts, Reading, Idle, Up
<1>2. IInv /\ SInv /\ [Next]_vars => SInv'
  <2> SUFFICES ASSUME IInv, SInv, [Next]_vars
               PROVE  SInv'
    OBVIOUS
  <2>1. CASE \E h \in Handlers : Command(h)
    BY <2>1, CommandsAreFollowed
  <2>2. CASE \E h \in Handlers : Load(h)
    BY <2>2, ReadsKept, LastReadKept DEF SInv
  <2>3. CASE SyncRoute \/ DisableMissing \/ LoadInitial \/ Restart
    BY <2>3, StartIsRead
  <2>4. CASE \E r \in DOMAIN Rules : Lapse(r)
    BY <2>4, LapseIsSeen
  <2>5. CASE UNCHANGED vars \/ \E a \in DOMAIN Alerts, kind \in Kinds : Deliver(a, kind)
    <3>1. UNCHANGED <<routes, rules, lapsed, subs, published, boot, handlers, stale>>
      BY <2>5 DEF vars, Deliver, tables
    <3> QED BY <3>1, OthersLeaveSnapshot
  <2> QED BY <2>1, <2>2, <2>3, <2>4, <2>5 DEF Next
<1>3. IInv /\ SInv => PublishedIsTable
  <2> SUFFICES ASSUME IInv, SInv, Settled, ~stale
               PROVE  Unlapsed(published) = Unlapsed(Current)
    BY DEF PublishedIsTable
  <2>1. PublishedIsCurrent
    BY DEF SInv, LastReadCounts, Settled
  <2>2. ActiveRules(routes) \ lapsed = ActiveRules(routes)
    BY DEF ActiveRules
  <2>3. published = [ routes |-> routes, rules |-> published.rules, subs |-> subs ]
    BY <2>1 DEF PublishedIsCurrent, IInv, TablesOK, Snapshot
  <2>4. Unlapsed(published) = [ routes |-> routes, rules |-> published.rules \ lapsed, subs |-> subs ]
    BY <2>3 DEF Unlapsed
  <2>5. Unlapsed(Current) = [ routes |-> routes, rules |-> ActiveRules(routes) \ lapsed, subs |-> subs ]
    BY DEF Unlapsed, Current
  <2> QED BY <2>1, <2>2, <2>4, <2>5 DEF PublishedIsCurrent
<1> QED BY <1>1, <1>2, <1>3, Invariant, PTL DEF Spec

-----------------------------------------------------------------------------
(***************************************************************************)
(* resolve returns the first matches, whatever the table.  Its loop is a   *)
(* fold, and what it has found after n routes is shown for every n by the  *)
(* least n for which it is not so.                                         *)
(***************************************************************************)

LEMMA LeastOf ==
  ASSUME NEW I \in SUBSET Nat, I # {}
  PROVE  \E x \in I : \A y \in I : x <= y
<1>1. IsWellFoundedOn(OpToRel(<, Nat), Nat)
  BY NatLessThanWellFounded
<1>2. PICK x \in I : \A y \in I : <<y, x>> \notin OpToRel(<, Nat)
  BY <1>1, WFMin
<1>3. \A y \in I : ~(y < x)
  BY <1>2 DEF OpToRel
<1> QED BY <1>3

LEMMA MaxOf ==
  ASSUME NEW n \in Nat, NEW S \in SUBSET (1..n), S # {}
  PROVE  Max(S) \in S /\ \A y \in S : y <= Max(S)
<1> DEFINE B == { k \in Nat : \A y \in S : y <= k }
<1>1. n \in B
  OBVIOUS
<1>2. PICK k \in B : \A m \in B : k <= m
  BY <1>1, LeastOf
<1>3. k \in S
  <2>1. SUFFICES ASSUME k \notin S PROVE FALSE
    OBVIOUS
  <2>2. \A y \in S : y \in Nat /\ 1 <= y /\ y <= k /\ y # k
    BY <1>2, <2>1
  <2>3. k \in Nat /\ k # 0
    <3>1. PICK y \in S : TRUE
      OBVIOUS
    <3> QED BY <1>2, <2>2, <3>1
  <2>4. k - 1 \in B
    BY <2>2, <2>3
  <2> QED BY <1>2, <2>3, <2>4
<1>4. \E x \in S : \A y \in S : x >= y
  BY <1>3
<1>5. Max(S) \in S /\ \A y \in S : Max(S) >= y
  BY <1>4, Zenon DEF Max
<1> QED BY <1>5

-----------------------------------------------------------------------------
(* resolve, as the steps of its loop.                                      *)

NothingFound == [ won |-> <<>>, settled |-> {} ]

Tried(table, labels, found, i) ==
  IF table[i].guild \in found.settled \/ ~Accepts(table[i], labels) THEN found
  ELSE [ won |-> Append(found.won, i),
         settled |-> IF table[i].body.goesOn THEN found.settled
                     ELSE found.settled \cup {table[i].guild} ]

IsLoop(table, labels, order, N, it) ==
  it = [ s \in SUBSET (1..N) |-> IF s = {} THEN NothingFound
                                ELSE Tried(table, labels, it[s \ {Max(s)}], order[Max(s)]) ]

LEMMA LoopExists ==
  ASSUME NEW table, NEW labels, NEW order, NEW N \in Nat
  PROVE  \E it : IsLoop(table, labels, order, N, it)
<1> DEFINE Turn(it, s) == IF s = {} THEN NothingFound
                          ELSE Tried(table, labels, it[s \ {Max(s)}], order[Max(s)])
           Exists(n) == \E it : it = [ s \in SUBSET (1..n) |-> Turn(it, s) ]
           Bad == { n \in Nat : ~Exists(n) }
<1>1. SUFFICES ASSUME Bad # {}
               PROVE  FALSE
  BY DEF IsLoop
<1>2. PICK n \in Bad : \A m \in Bad : n <= m
  BY <1>1, LeastOf
<1>3. \A m \in Nat : \A s \in SUBSET (1..m) : s # {} =>
        Max(s) \in s /\ s \ {Max(s)} \in SUBSET (1..(m - 1))
  <2> SUFFICES ASSUME NEW m \in Nat, NEW s \in SUBSET (1..m), s # {}
               PROVE  Max(s) \in s /\ s \ {Max(s)} \in SUBSET (1..(m - 1))
    OBVIOUS
  <2>1. Max(s) \in s /\ \A y \in s : y <= Max(s)
    BY MaxOf
  <2>2. ASSUME NEW x \in s, \A y \in s : y <= x
        PROVE  s \ {x} \in SUBSET (1..(m - 1))
    <3>1. \A y \in s \ {x} : y \in Nat /\ 1 <= y /\ y <= x /\ y # x /\ x <= m /\ x \in Nat
      BY <2>2
    <3>2. \A y \in s \ {x} : y \in 1..(m - 1)
      BY <3>1
    <3> QED BY <3>2
  <2> QED BY <2>1, <2>2
<1>4. n # 0
  <2>1. \A s \in SUBSET (1..0) : s = {}
    OBVIOUS
  <2> DEFINE it == [ s \in SUBSET (1..0) |-> NothingFound ]
  <2>2. it = [ s \in SUBSET (1..0) |-> Turn(it, s) ]
    BY <2>1
  <2> HIDE DEF Turn, it
  <2>3. Exists(0)
    BY <2>2
  <2> QED BY <2>3
<1>5. n - 1 \in Nat /\ Exists(n - 1)
  <2>1. n \in Nat /\ n - 1 \in Nat /\ ~(n <= n - 1)
    BY <1>2, <1>4
  <2> HIDE DEF Exists
  <2> QED BY <1>2, <2>1
<1>6. PICK g : g = [ s \in SUBSET (1..(n - 1)) |-> Turn(g, s) ]
  BY <1>5
<1> DEFINE h == [ s \in SUBSET (1..n) |-> Turn(g, s) ]
<1>7. \A s \in SUBSET (1..(n - 1)) : s \in SUBSET (1..n)
  BY <1>5
<1>8. \A s \in SUBSET (1..(n - 1)) : h[s] = g[s]
  BY <1>6, <1>7
<1>9. ASSUME NEW s \in SUBSET (1..n)
      PROVE  Turn(g, s) = Turn(h, s)
  <2>1. CASE s = {}
    BY <2>1
  <2>2. CASE s # {}
    <3>1. s \ {Max(s)} \in SUBSET (1..(n - 1))
      BY <1>3, <2>2
    <3>2. h[s \ {Max(s)}] = g[s \ {Max(s)}]
      BY <1>8, <3>1
    <3> HIDE DEF h
    <3> QED BY <2>2, <3>2
  <2> QED BY <2>1, <2>2
<1> HIDE DEF Turn
<1>10. h = [ s \in SUBSET (1..n) |-> Turn(h, s) ]
  <2>1. [ s \in SUBSET (1..n) |-> Turn(g, s) ] = [ s \in SUBSET (1..n) |-> Turn(h, s) ]
    BY <1>9
  <2> QED BY <2>1
<1> HIDE DEF h
<1>11. Exists(n)
  BY <1>10
<1> QED BY <1>11

(* What it has found after each of the N routes.                           *)
Finds(table, labels, N, f) ==
  /\ f[0] = NothingFound
  /\ \A n \in 1..N : f[n] = Tried(table, labels, f[n - 1], InOrder(table)[n])
  /\ Resolve(table, labels) = f[N].won

LEMMA ResolveIsLoop ==
  ASSUME NEW table, NEW labels, NEW N \in Nat, DOMAIN InOrder(table) = 1..N
  PROVE  \E f : Finds(table, labels, N, f)
<1> DEFINE order == InOrder(table)
           it == CHOOSE it : IsLoop(table, labels, order, N, it)
<1>1. Resolve(table, labels) = it[1..N].won
  BY DEF Resolve, FoldLeft, MapThenFoldSet, Tried, NothingFound, IsLoop
<1>2. IsLoop(table, labels, order, N, it)
  BY LoopExists, Zenon
<1> HIDE DEF it, order
<1> DEFINE f == [ n \in 0..N |-> it[1..n] ]
<1>3. f[0] = NothingFound
  <2>1. 1..0 = {}
    OBVIOUS
  <2> QED BY <1>2, <2>1 DEF IsLoop
<1>4. ASSUME NEW n \in 1..N
      PROVE  f[n] = Tried(table, labels, f[n - 1], order[n])
  <2>1. 1..n \in SUBSET (1..N) /\ n \in 1..n /\ n \in Nat
    OBVIOUS
  <2>2. Max(1..n) = n
    <3>1. Max(1..n) \in 1..n /\ \A y \in 1..n : y <= Max(1..n)
      BY <2>1, MaxOf
    <3> QED BY <2>1, <3>1
  <2>3. (1..n) \ {n} = 1..(n - 1)
    BY <2>1
  <2>4. it[1..n] = Tried(table, labels, it[1..(n - 1)], order[n])
    BY <1>2, <2>1, <2>2, <2>3 DEF IsLoop
  <2> QED BY <2>4
<1>5. f[N] = it[1..N]
  OBVIOUS
<1> QED BY <1>1, <1>3, <1>4, <1>5 DEF order, Finds

-----------------------------------------------------------------------------
(* The place of each element of a finite set in a strict order, which says *)
(* of each what comes before it.                                           *)
Orders(before, X) ==
  /\ before \in [ X -> SUBSET X ]
  /\ \A i, j \in X :
       /\ i \notin before[i]
       /\ i # j => i \in before[j] \/ j \in before[i]
       /\ i \in before[j] => j \notin before[i]
       /\ \A k \in X : i \in before[j] /\ j \in before[k] => i \in before[k]

Ranks(before, X) ==
  /\ Cardinality(X) \in Nat
  /\ \A i \in X : Cardinality(before[i]) \in 0..(Cardinality(X) - 1)
  /\ \A m \in 0..(Cardinality(X) - 1) : \E i \in X : Cardinality(before[i]) = m
  /\ \A i, j \in X : i \in before[j] <=> Cardinality(before[i]) < Cardinality(before[j])
  /\ \A i, j \in X : Cardinality(before[i]) = Cardinality(before[j]) => i = j

LEMMA RankIs ==
  ASSUME NEW X, IsFiniteSet(X), NEW before, Orders(before, X)
  PROVE  Ranks(before, X)
<1> DEFINE N == Cardinality(X)
           rank == [ i \in X |-> Cardinality(before[i]) ]
<1>1. N \in Nat
  BY FS_CardinalityType
<1>2. ASSUME NEW i \in X
      PROVE  rank[i] \in 0..(N - 1)
  <2>1. before[i] \in SUBSET (X \ {i})
    BY DEF Orders
  <2>2. IsFiniteSet(X \ {i}) /\ Cardinality(X \ {i}) = N - 1
    BY FS_RemoveElement
  <2>3. IsFiniteSet(before[i]) /\ Cardinality(before[i]) <= N - 1
    BY <2>1, <2>2, FS_Subset
  <2>4. Cardinality(before[i]) \in Nat
    BY <2>3, FS_CardinalityType
  <2> QED BY <1>1, <2>3, <2>4
<1>3. ASSUME NEW i \in X, NEW j \in X, i \in before[j]
      PROVE  rank[i] < rank[j]
  <2>1. before[i] \in SUBSET (before[j] \ {i}) /\ before[j] \in SUBSET X
    BY <1>3 DEF Orders
  <2>2. IsFiniteSet(before[j])
    BY <2>1, FS_Subset
  <2>3. /\ IsFiniteSet(before[j] \ {i})
        /\ Cardinality(before[j] \ {i}) = Cardinality(before[j]) - 1
    BY <1>3, <2>2, FS_RemoveElement
  <2>4. Cardinality(before[i]) <= Cardinality(before[j]) - 1
    BY <2>1, <2>3, FS_Subset
  <2> QED BY <1>2, <2>4
<1>4. rank \in [ X -> 0..(N - 1) ]
  BY <1>2
<1>5. \A i, j \in X : i # j => i \in before[j] \/ j \in before[i]
  BY DEF Orders
<1> HIDE DEF rank
<1>6. \A i, j \in X : rank[i] = rank[j] => i = j
  BY <1>3, <1>4, <1>5
<1>7. rank \in Injection(X, 0..(N - 1))
  BY <1>4, <1>6 DEF Injection, IsInjective
<1>8. rank \in Surjection(X, 0..(N - 1))
  <2> HIDE DEF N
  <2>1. IsFiniteSet(0..(N - 1)) /\ Cardinality(0..(N - 1)) = N
    BY <1>1, FS_Interval
  <2> QED BY <1>7, <2>1, FS_Injection DEF N
<1>9. \A m \in 0..(N - 1) : \E i \in X : rank[i] = m
  BY <1>8 DEF Surjection
<1>10. ASSUME NEW i \in X, NEW j \in X, rank[i] < rank[j]
       PROVE  i \in before[j]
  <2>1. i # j /\ ~(rank[j] < rank[i])
    BY <1>4, <1>10
  <2> QED BY <1>3, <1>5, <2>1
<1> QED BY <1>1, <1>2, <1>3, <1>6, <1>9, <1>10 DEF rank, Ranks

-----------------------------------------------------------------------------
(* The order routes are tried in.                                          *)

IsTable(table) ==
  /\ IsFiniteSet(DOMAIN table) /\ DOMAIN table \subseteq Int
  /\ \A i \in DOMAIN table : table[i].body.priority \in Int

LEMMA BeforeIsOrder ==
  ASSUME NEW table, IsTable(table), NEW i \in DOMAIN table, NEW j \in DOMAIN table
  PROVE  /\ ~Before(table, i, i)
         /\ i # j => Before(table, i, j) \/ Before(table, j, i)
         /\ Before(table, i, j) => ~Before(table, j, i)
         /\ \A k \in DOMAIN table : Before(table, i, j) /\ Before(table, j, k) => Before(table, i, k)
BY DEF IsTable, Before

LEMMA OrderIs ==
  ASSUME NEW table, IsTable(table)
  PROVE  \E N \in Nat :
           /\ DOMAIN InOrder(table) = 1..N
           /\ \A n \in 1..N : InOrder(table)[n] \in DOMAIN table
           /\ \A i \in DOMAIN table : \E n \in 1..N : InOrder(table)[n] = i
           /\ \A m, n \in 1..N : m < n <=> Before(table, InOrder(table)[m], InOrder(table)[n])
<1> DEFINE D == DOMAIN table
           N == Cardinality(D)
           before == [ i \in D |-> { j \in D : Before(table, j, i) } ]
           order == InOrder(table)
<1>1. Ranks(before, D)
  <2>1. Orders(before, D)
    BY BeforeIsOrder DEF Orders
  <2> HIDE DEF before
  <2> QED BY <2>1, RankIs DEF IsTable
<1>2. N \in Nat /\ DOMAIN order = 1..N
  BY <1>1 DEF Ranks, InOrder
<1>3. ASSUME NEW n \in 1..N
      PROVE  order[n] \in D /\ Cardinality(before[order[n]]) = n - 1
  <2>1. n - 1 \in 0..(N - 1)
    BY <1>2
  <2>2. PICK e \in D : Cardinality(before[e]) = n - 1
    BY <1>1, <2>1 DEF Ranks
  <2> DEFINE Earlier(i) == { j \in D : Before(table, j, i) }
  <2>3. \A i \in D : before[i] = Earlier(i)
    OBVIOUS
  <2>4. order[n] = CHOOSE d \in D : Cardinality(Earlier(d)) = n - 1
    BY <1>2 DEF InOrder
  <2> HIDE DEF D, Earlier, order, before
  <2>5. order[n] \in D /\ Cardinality(Earlier(order[n])) = n - 1
    BY <2>2, <2>3, <2>4, Zenon
  <2> QED BY <2>3, <2>5
<1> HIDE DEF order
<1>4. ASSUME NEW i \in D
      PROVE  \E n \in 1..N : order[n] = i
  <2>1. Cardinality(before[i]) \in 0..(N - 1)
    BY <1>1 DEF Ranks
  <2> DEFINE n == Cardinality(before[i]) + 1
  <2>2. n \in 1..N /\ n - 1 = Cardinality(before[i])
    BY <1>2, <2>1
  <2>3. order[n] \in D /\ Cardinality(before[order[n]]) = Cardinality(before[i])
    BY <1>3, <2>2
  <2> HIDE DEF before, n
  <2> QED BY <1>1, <2>2, <2>3 DEF Ranks
<1>5. ASSUME NEW m \in 1..N, NEW n \in 1..N
      PROVE  m < n <=> Before(table, order[m], order[n])
  <2>1. order[m] \in before[order[n]] <=> Before(table, order[m], order[n])
    BY <1>3
  <2>2. order[m] \in before[order[n]] <=> m - 1 < n - 1
    <3> HIDE DEF before
    <3> QED BY <1>1, <1>3 DEF Ranks
  <2> QED BY <1>2, <2>1, <2>2
<1> QED BY <1>2, <1>3, <1>4, <1>5 DEF order

-----------------------------------------------------------------------------
(* What resolve returns.                                                   *)

Ends(table, labels, i) == Accepts(table[i], labels) /\ ~table[i].body.goesOn

LEMMA AppendedSet ==
  ASSUME NEW S, NEW s \in Seq(S), NEW e \in S
  PROVE  Append(s, e) \in Seq(S) /\ ToSet(Append(s, e)) = ToSet(s) \cup {e}
<1>1. /\ Append(s, e) \in Seq(S) /\ Len(Append(s, e)) = Len(s) + 1
      /\ \A i \in 1..Len(s) : Append(s, e)[i] = s[i]
      /\ Append(s, e)[Len(s) + 1] = e
  BY AppendProperties
<1>2. /\ DOMAIN Append(s, e) = 1..(Len(s) + 1)
      /\ DOMAIN s = 1..Len(s) /\ Len(s) \in Nat
  BY <1>1, LenProperties
<1>3. 1..(Len(s) + 1) = 1..Len(s) \cup {Len(s) + 1}
  BY <1>2
<1> QED BY <1>1, <1>2, <1>3 DEF ToSet

(* One turn of the loop.                                                   *)
LEMMA TriedIs ==
  ASSUME NEW table, NEW labels, NEW found, NEW i \in DOMAIN table,
         found.won \in Seq(DOMAIN table)
  PROVE  LET next == Tried(table, labels, found, i)
             takes == Accepts(table[i], labels) /\ table[i].guild \notin found.settled
         IN  /\ next.won \in Seq(DOMAIN table)
             /\ takes  => ToSet(next.won) = ToSet(found.won) \cup {i}
             /\ ~takes => next.won = found.won
             /\ takes /\ Ends(table, labels, i) => next.settled = found.settled \cup {table[i].guild}
             /\ ~(takes /\ Ends(table, labels, i)) => next.settled = found.settled
<1>1. /\ Append(found.won, i) \in Seq(DOMAIN table)
      /\ ToSet(Append(found.won, i)) = ToSet(found.won) \cup {i}
  BY AppendedSet
<1>2. CASE table[i].guild \in found.settled \/ ~Accepts(table[i], labels)
  BY <1>2 DEF Tried
<1>3. CASE table[i].guild \notin found.settled /\ Accepts(table[i], labels)
  <2>1. PICK settled :
          /\ settled = IF table[i].body.goesOn THEN found.settled
                       ELSE found.settled \cup {table[i].guild}
          /\ Tried(table, labels, found, i) = [ won |-> Append(found.won, i), settled |-> settled ]
    BY <1>3 DEF Tried
  <2> QED BY <1>1, <1>3, <2>1 DEF Ends
<1> QED BY <1>2, <1>3

LEMMA ResolveIs ==
  ASSUME NEW table, NEW labels, IsTable(table)
  PROVE  Resolve(table, labels) \in Seq(DOMAIN table) /\ FirstMatch(table, labels)
<1> DEFINE order == InOrder(table)
<1>1. PICK N \in Nat :
        /\ DOMAIN order = 1..N
        /\ \A n \in 1..N : order[n] \in DOMAIN table
        /\ \A i \in DOMAIN table : \E n \in 1..N : order[n] = i
        /\ \A m, n \in 1..N : m < n <=> Before(table, order[m], order[n])
  BY OrderIs
<1>2. PICK f : /\ f[0] = NothingFound
               /\ \A n \in 1..N : f[n] = Tried(table, labels, f[n - 1], order[n])
               /\ Resolve(table, labels) = f[N].won
  <2>1. DOMAIN InOrder(table) = 1..N
    BY <1>1
  <2> HIDE DEF order
  <2>2. \E f : Finds(table, labels, N, f)
    BY <2>1, ResolveIsLoop
  <2> QED BY <2>2 DEF order, Finds
<1> HIDE DEF order
<1> DEFINE EndsAt(m) == Ends(table, labels, order[m])
           Guild(m) == table[order[m]].guild
           Wins(m) == Accepts(table[order[m]], labels)
                      /\ \A k \in 1..N : k < m /\ EndsAt(k) => Guild(k) # Guild(m)
           So(n) == /\ f[n].won \in Seq(DOMAIN table)
                    /\ \A g : g \in f[n].settled <=> \E m \in 1..N : m <= n /\ EndsAt(m) /\ Guild(m) = g
                    /\ \A i : i \in ToSet(f[n].won) <=> \E m \in 1..N : m <= n /\ Wins(m) /\ order[m] = i
           Bad == { n \in 0..N : ~So(n) }
<1>3. So(0)
  <2>1. f[0].won = <<>> /\ f[0].settled = {}
    BY <1>2 DEF NothingFound
  <2>2. <<>> \in Seq(DOMAIN table) /\ ToSet(<<>>) = {}
    BY EmptySeq DEF ToSet
  <2>3. \A m \in 1..N : ~(m <= 0)
    OBVIOUS
  <2> QED BY <2>1, <2>2, <2>3
<1>4. ASSUME NEW n \in 1..N, So(n - 1)
      PROVE  So(n)
  <2> DEFINE i == order[n]
             takes == Accepts(table[i], labels) /\ table[i].guild \notin f[n - 1].settled
  <2>1. i \in DOMAIN table /\ f[n] = Tried(table, labels, f[n - 1], i)
    BY <1>1, <1>2
  <2>2. /\ f[n].won \in Seq(DOMAIN table)
        /\ takes  => ToSet(f[n].won) = ToSet(f[n - 1].won) \cup {i}
        /\ ~takes => f[n].won = f[n - 1].won
        /\ takes /\ EndsAt(n) => f[n].settled = f[n - 1].settled \cup {Guild(n)}
        /\ ~(takes /\ EndsAt(n)) => f[n].settled = f[n - 1].settled
    <3>1. PICK found : found = f[n - 1]
      OBVIOUS
    <3>2. found.won \in Seq(DOMAIN table)
      BY <1>4, <3>1
    <3>3. PICK next : next = Tried(table, labels, found, i)
      OBVIOUS
    <3>4. PICK d \in DOMAIN table : d = i
      BY <2>1
    <3> HIDE DEF i
    <3>5. /\ next.won \in Seq(DOMAIN table)
          /\ (Accepts(table[i], labels) /\ table[i].guild \notin found.settled) =>
               ToSet(next.won) = ToSet(found.won) \cup {i}
          /\ ~(Accepts(table[i], labels) /\ table[i].guild \notin found.settled) => next.won = found.won
          /\ (Accepts(table[i], labels) /\ table[i].guild \notin found.settled) /\ Ends(table, labels, i) =>
               next.settled = found.settled \cup {table[i].guild}
          /\ ~((Accepts(table[i], labels) /\ table[i].guild \notin found.settled) /\ Ends(table, labels, i)) =>
               next.settled = found.settled
      BY <3>2, <3>3, <3>4, TriedIs
    <3> QED BY <2>1, <3>1, <3>3, <3>5 DEF i
  <2>3. \A m \in 1..N : /\ m <= n <=> m <= n - 1 \/ m = n
                        /\ m <= n - 1 <=> m < n
    BY <1>1
  <2>4. takes <=> Wins(n)
    BY <1>4, <2>3
  <2>5. EndsAt(n) => Accepts(table[i], labels)
    BY DEF Ends
  <2> HIDE DEF EndsAt, Guild, Wins
  <2>6. \A g : g \in f[n].settled <=> \E m \in 1..N : m <= n /\ EndsAt(m) /\ Guild(m) = g
    <3>1. EndsAt(n) /\ ~takes => Guild(n) \in f[n - 1].settled
      BY <2>5 DEF Guild
    <3>2. \A g : g \in f[n].settled <=> g \in f[n - 1].settled \/ (EndsAt(n) /\ g = Guild(n))
      BY <2>2, <3>1
    <3> QED BY <1>4, <2>3, <3>2
  <2>7. \A j : j \in ToSet(f[n].won) <=> \E m \in 1..N : m <= n /\ Wins(m) /\ order[m] = j
    <3>1. \A j : j \in ToSet(f[n].won) <=> j \in ToSet(f[n - 1].won) \/ (Wins(n) /\ j = i)
      BY <2>2, <2>4
    <3> QED BY <1>4, <2>3, <3>1
  <2> QED BY <2>2, <2>6, <2>7
<1> HIDE DEF So
<1>5. Bad = {}
  <2>1. SUFFICES ASSUME Bad # {} PROVE FALSE
    OBVIOUS
  <2>2. PICK n \in Bad : \A m \in Bad : n <= m
    <3>1. Bad \in SUBSET Nat
      OBVIOUS
    <3> HIDE DEF Bad
    <3> QED BY <2>1, <3>1, LeastOf
  <2>3. n # 0 /\ n \in 0..N
    BY <1>3, <2>2
  <2>4. n - 1 \in 0..N /\ n \in 1..N /\ ~(n <= n - 1)
    BY <2>3
  <2>5. So(n - 1)
    BY <2>2, <2>4
  <2> QED BY <1>4, <2>2, <2>4, <2>5
<1>6. So(N)
  BY <1>5
<1>7. ASSUME NEW i
      PROVE  i \in ToSet(f[N].won) <=>
               /\ i \in DOMAIN table /\ Accepts(table[i], labels)
               /\ ~ \E j \in DOMAIN table : /\ Before(table, j, i) /\ table[j].guild = table[i].guild
                                            /\ Accepts(table[j], labels) /\ ~table[j].body.goesOn
  <2>1. i \in ToSet(f[N].won) <=> \E m \in 1..N : Wins(m) /\ order[m] = i
    BY <1>6 DEF So
  <2>2. ASSUME NEW m \in 1..N, order[m] = i
        PROVE  Wins(m) <=>
                 /\ Accepts(table[i], labels)
                 /\ ~ \E j \in DOMAIN table : /\ Before(table, j, i) /\ table[j].guild = table[i].guild
                                              /\ Ends(table, labels, j)
    <3>1. ASSUME NEW j \in DOMAIN table, Before(table, j, i), table[j].guild = table[i].guild,
                 Ends(table, labels, j)
          PROVE  ~Wins(m)
      <4>1. PICK k \in 1..N : order[k] = j
        BY <1>1
      <4>2. k < m
        BY <1>1, <2>2, <3>1, <4>1
      <4> QED BY <2>2, <3>1, <4>1, <4>2
    <3>2. ASSUME Accepts(table[i], labels), ~Wins(m)
          PROVE  \E j \in DOMAIN table : /\ Before(table, j, i) /\ table[j].guild = table[i].guild
                                         /\ Ends(table, labels, j)
      <4>1. PICK k \in 1..N : k < m /\ EndsAt(k) /\ Guild(k) = Guild(m)
        BY <2>2, <3>2
      <4>2. order[k] \in DOMAIN table /\ Before(table, order[k], i)
        BY <1>1, <2>2, <4>1
      <4> QED BY <2>2, <4>1, <4>2
    <3>3. Wins(m) => Accepts(table[i], labels)
      BY <2>2
    <3> QED BY <3>1, <3>2, <3>3
  <2> HIDE DEF Wins
  <2> QED BY <1>1, <2>1, <2>2 DEF Ends
<1>8. FirstMatch(table, labels)
  BY <1>2, <1>7 DEF FirstMatch, Winners
<1> QED BY <1>2, <1>6, <1>8 DEF So

-----------------------------------------------------------------------------
(* Decisions: there are ever finitely many routes and subscriptions.       *)
FewSubs ==
  /\ IsFiniteSet(subs) /\ IsFiniteSet(published.subs)
  /\ \A h \in Handlers : IsFiniteSet(handlers[h].read.subs)

LEMMA FewStay == IInv /\ FewSubs /\ [Next]_vars => FewSubs'
<1> SUFFICES ASSUME IInv, FewSubs, [Next]_vars
             PROVE  FewSubs'
  OBVIOUS
<1>0. Empty.subs = {} /\ IsFiniteSet({})
  BY FS_EmptySet DEF Empty
<1>1. CASE \E h \in Handlers : Command(h)
  <2>1. PICK h \in Handlers : Command(h)
    BY <1>1
  <2>2. Begin(h)
    BY <2>1 DEF Command, AddRoute, RemoveRoute, AddIgnore, RevokeIgnore, Subscribe, Unsubscribe, AdoptTags
  <2>3. handlers \in [ Handlers -> Handler ]
    BY DEF IInv, TablesOK
  <2>4. published' = published /\ \A m \in Handlers : handlers'[m].read = handlers[m].read
    BY <2>2, <2>3 DEF Begin, Handler
  <2>5. IsFiniteSet(subs')
    <3>1. subs' = subs \/ \E s \in DOMAIN Subs : subs' = subs \cup {s} \/ subs' = subs \ {s}
      BY <2>1 DEF Command, AddRoute, RemoveRoute, AddIgnore, RevokeIgnore, Subscribe, Unsubscribe,
                  AdoptTags, tables
    <3>2. PICK old : old = subs /\ IsFiniteSet(old)
      BY DEF FewSubs
    <3>3. \A s : IsFiniteSet(old \cup {s}) /\ IsFiniteSet(old \ {s})
      BY <3>2, FS_AddElement, FS_RemoveElement
    <3> QED BY <3>1, <3>2, <3>3
  <2> QED BY <2>4, <2>5 DEF FewSubs
<1>2. CASE \E h \in Handlers : LoadRoutes(h) \/ LoadRules(h) \/ LoadSubs(h)
  <2>1. PICK h \in Handlers : LoadRoutes(h) \/ LoadRules(h) \/ LoadSubs(h)
    BY <1>2
  <2>2. /\ \A m \in Handlers \ {h} : handlers'[m] = handlers[m]
        /\ UNCHANGED <<subs, published>>
    BY <2>1, LoadReads DEF tables
  <2>3. handlers'[h].read.subs \in {handlers[h].read.subs, subs, Empty.subs}
    <3>1. handlers \in [ Handlers -> Handler ]
      BY DEF IInv, TablesOK
    <3>2. handlers[h].read \in Snapshot /\ handlers[h] \in Handler
      BY <3>1 DEF Handler
    <3>3. CASE LoadRoutes(h)
      <4>1. handlers'[h].read = [ Empty EXCEPT !.routes = routes ]
        BY <3>1, <3>3 DEF LoadRoutes
      <4> QED BY <4>1 DEF Empty
    <3>4. CASE LoadRules(h)
      BY <3>1, <3>2, <3>4 DEF LoadRules, Handler, Snapshot
    <3>5. CASE LoadSubs(h)
      BY <3>1, <3>2, <3>5 DEF LoadSubs, Handler, Snapshot
    <3> QED BY <2>1, <3>3, <3>4, <3>5
  <2> QED BY <1>0, <2>2, <2>3 DEF FewSubs
<1>3. CASE \E h \in Handlers : Publish(h) \/ LoadFails(h)
  <2>1. PICK h \in Handlers : Publish(h) \/ LoadFails(h)
    BY <1>3
  <2>2. PICK overtaken : handlers' = Done(h, overtaken)
    BY <2>1 DEF Publish, LoadFails
  <2>3. /\ \A m \in Handlers \ {h} : handlers'[m].read = handlers[m].read
        /\ handlers'[h].read = Empty
    BY <2>2, ReloadEnds DEF Idle
  <2>4. subs' = subs /\ published' \in {published, handlers[h].read}
    BY <2>1 DEF Publish, LoadFails, tables, Assembled
  <2> QED BY <1>0, <2>3, <2>4 DEF FewSubs
<1>4. CASE Restart
  <2>1. subs' = subs /\ published' = Empty /\ \A h \in Handlers : handlers'[h].read = Empty
    BY <1>4 DEF Restart, tables, Idle
  <2> QED BY <1>0, <2>1 DEF FewSubs
<1>5. CASE LoadInitial
  <2>1. subs' = subs /\ published'.subs = subs /\ handlers' = handlers
    BY <1>5 DEF LoadInitial, tables, Current
  <2> QED BY <2>1 DEF FewSubs
<1>6. CASE UNCHANGED <<subs, published, handlers>>
  BY <1>6 DEF FewSubs
<1> QED BY <1>1, <1>2, <1>3, <1>4, <1>5, <1>6
        DEF Next, Load, SyncRoute, DisableMissing, Lapse, Deliver, tables, vars

LEMMA FewAtFirst == Init => FewSubs
<1> SUFFICES ASSUME Init
             PROVE  FewSubs
  OBVIOUS
<1>1. IsFiniteSet({}) /\ Empty.subs = {}
  BY FS_EmptySet DEF Empty
<1>2. subs = {} /\ published.subs = {} /\ \A h \in Handlers : handlers[h].read.subs = {}
  BY <1>1 DEF Init, Idle
<1> QED BY <1>1, <1>2 DEF FewSubs

LEMMA PublishedIsATable == RoutingAssumption /\ IInv /\ FewSubs => IsTable(TableOf(published))
<1> SUFFICES ASSUME RoutingAssumption, IInv, FewSubs
             PROVE  IsTable(TableOf(published))
  OBVIOUS
<1> DEFINE table == TableOf(published)
           rows == DOMAIN published.routes
           S == published.subs
           T == { -s : s \in S }
<1>1. published \in Snapshot
  BY DEF IInv, TablesOK
<1>2. published.routes \in Seq(Row) /\ S \subseteq Nat
  BY <1>1 DEF Snapshot, RoutingAssumption
<1>3. rows = 1..Len(published.routes) /\ Len(published.routes) \in Nat
      /\ \A i \in rows : published.routes[i] \in Row
  BY <1>2, RowsAre
<1>4. IsFiniteSet(rows)
  <2>1. PICK n \in Nat : rows = 1..n
    BY <1>3
  <2>2. IsFiniteSet(1..n)
    BY FS_Interval
  <2> QED BY <2>1, <2>2
<1>5. IsFiniteSet(T)
  <2> DEFINE f == [ s \in S |-> -s ]
  <2>1. f \in Surjection(S, T)
    BY DEF Surjection
  <2>2. IsFiniteSet(S)
    BY DEF FewSubs
  <2> HIDE DEF f, S, T
  <2> QED BY <2>1, <2>2, FS_Surjection
<1>6. DOMAIN table = rows \cup T
  BY DEF TableOf
<1>7. IsFiniteSet(DOMAIN table)
  <2> HIDE DEF rows, T, table
  <2>1. IsFiniteSet(rows \cup T)
    BY <1>4, <1>5, FS_Union
  <2> QED BY <1>6, <2>1
<1>8. DOMAIN table \subseteq Int
  BY <1>2, <1>3, <1>6
<1>9. ASSUME NEW i \in DOMAIN table
      PROVE  table[i].body.priority \in Int
  <2>1. table[i] = IF i > 0 THEN published.routes[i] ELSE AsRoute(-i)
    BY <1>6 DEF TableOf
  <2>2. CASE i > 0
    <3>1. i \in rows
      BY <1>2, <1>6, <2>2
    <3>2. published.routes[i].body \in Body
      BY <1>3, <3>1 DEF Row, RoutingAssumption
    <3> QED BY <2>1, <2>2, <3>2 DEF Body
  <2>3. CASE ~(i > 0)
    BY <2>1, <2>3 DEF AsRoute, RoutingAssumption
  <2> QED BY <2>2, <2>3
<1> QED BY <1>7, <1>8, <1>9 DEF IsTable

(* In whatever tables commands, files and reloads bring about an alert     *)
(* goes to the routes that accept it, but in a guild to none after the     *)
(* first that ends the matter; for any routes, matchers and labels.        *)
THEOREM AlwaysFirstMatches == Spec => []RoutesAreFirstMatches
<1>1. IInv /\ FewSubs => RoutesAreFirstMatches
  BY RoutingAssumption, PublishedIsATable, ResolveIs DEF RoutesAreFirstMatches
<1> QED BY <1>1, Invariant, FewAtFirst, FewStay, PTL DEF Spec

-----------------------------------------------------------------------------
(* The cards a decision asks for.                                          *)
CardStates == {"firing", "ignored", "resolved"}

RestOK ==
  /\ alerts \subseteq DOMAIN Alerts
  /\ \A k \in DOMAIN cards : cards[k] \in CardStates
  /\ left \in [ {"commands", "changes", "starts"} -> Nat ]

(* The state an update moves the card of a route to.                       *)
StateOf(i, a, kind, status) ==
  LET route == TableOf(published)[i]
      card  == cards[CardOf(route, a)]
  IN  NextState(card, TriggerFor(kind, AlertOf(status), card, Muted(route, a)), FALSE)

LEMMA NextIs ==
  ASSUME RoutingAssumption, NEW state \in CardStates, NEW kind \in Kinds,
         NEW status \in {"firing", "resolved"}, NEW ignored \in BOOLEAN
  PROVE  LET next == NextState(state, TriggerFor(kind, AlertOf(status), state, ignored), FALSE)
         IN  /\ next = None \/ next \in CardStates
             /\ kind = "fired" /\ status = "firing" /\ ~ignored =>
                  next = "firing" \/ (next = None /\ state = "firing")
<1>1. None \notin States /\ None \notin Triggers
  BY DEF RoutingAssumption
<1>2. CASE status = "resolved"
  <2>1. ~IsFiring(AlertOf(status))
    BY <1>2 DEF IsFiring, AlertOf
  <2>2. CASE state = "resolved"
    BY <1>1, <1>2, <2>1, <2>2 DEF TriggerFor, NextState, FromEvent, Kinds, IsOpen, CardStates, States, Triggers
  <2>3. CASE state # "resolved"
    <3>1. TriggerFor(kind, AlertOf(status), state, ignored) = "resolved"
      BY <2>1, <2>3 DEF TriggerFor, IsOpen, CardStates
    <3> QED BY <1>2, <2>3, <3>1 DEF NextState, IsOpen, CardStates
  <2> QED BY <2>2, <2>3
<1>3. CASE status = "firing"
  <2>1. IsFiring(AlertOf(status))
    BY <1>3 DEF IsFiring, AlertOf
  <2> DEFINE trigger == TriggerFor(kind, AlertOf(status), state, ignored)
  <2>2. /\ ignored /\ state # "ignored" => trigger = "ignored"
        /\ ~ignored /\ state = "ignored" => trigger = "unignored"
        /\ ~ignored /\ state = "resolved" => trigger = "fired"
        /\ (ignored /\ state = "ignored") \/ (~ignored /\ state = "firing") => trigger = FromEvent(kind)
    BY <2>1 DEF TriggerFor, CardStates
  <2>3. FromEvent(kind) \in {"fired", "resolved", None} /\ (kind = "fired" => FromEvent(kind) = "fired")
    BY DEF FromEvent, Kinds
  <2> HIDE DEF trigger
  <2>4. trigger \in {"ignored", "unignored", "fired", "resolved", None}
    BY <2>2, <2>3 DEF CardStates
  <2>5. NextState(state, trigger, FALSE) =
          IF trigger = "fired" /\ state = "resolved" THEN "firing"
          ELSE IF trigger = "resolved" /\ state # "resolved" THEN "resolved"
          ELSE IF trigger = "ignored" /\ state = "firing" THEN "ignored"
          ELSE IF trigger = "unignored" /\ state = "ignored" THEN "firing"
          ELSE None
    BY <1>1, <2>4 DEF NextState, IsOpen, CardStates, Triggers
  <2>6. NextState(state, trigger, FALSE) = None \/ NextState(state, trigger, FALSE) \in CardStates
    BY <2>5 DEF CardStates
  <2>7. kind = "fired" /\ ~ignored =>
          NextState(state, trigger, FALSE) = "firing" \/ (NextState(state, trigger, FALSE) = None /\ state = "firing")
    BY <2>2, <2>3, <2>5 DEF CardStates
  <2> QED BY <1>3, <2>6, <2>7 DEF trigger
<1> QED BY <1>2, <1>3

LEMMA StateOfIs ==
  ASSUME RoutingAssumption, RestOK, NEW i, NEW a, NEW kind \in Kinds,
         NEW status \in {"firing", "resolved"}, CardOf(TableOf(published)[i], a) \in DOMAIN cards
  PROVE  /\ StateOf(i, a, kind, status) = None \/ StateOf(i, a, kind, status) \in CardStates
         /\ kind = "fired" /\ status = "firing" /\ ~Muted(TableOf(published)[i], a) =>
              \/ StateOf(i, a, kind, status) = "firing"
              \/ /\ StateOf(i, a, kind, status) = None
                 /\ cards[CardOf(TableOf(published)[i], a)] = "firing"
<1>1. PICK state \in CardStates : state = cards[CardOf(TableOf(published)[i], a)]
  BY DEF RestOK
<1>2. PICK ignored \in BOOLEAN : ignored = Muted(TableOf(published)[i], a)
  BY DEF Muted
<1>3. StateOf(i, a, kind, status) =
        NextState(state, TriggerFor(kind, AlertOf(status), state, ignored), FALSE)
  BY <1>1, <1>2, Zenon DEF StateOf
<1>4. PICK next : next = NextState(state, TriggerFor(kind, AlertOf(status), state, ignored), FALSE)
  OBVIOUS
<1>5. /\ next = None \/ next \in CardStates
      /\ kind = "fired" /\ status = "firing" /\ ~ignored =>
           next = "firing" \/ (next = None /\ state = "firing")
  BY <1>4, NextIs
<1>6. ~Muted(TableOf(published)[i], a) => ~ignored
  BY <1>2
<1>7. StateOf(i, a, kind, status) = next
  BY <1>3, <1>4
<1> HIDE DEF StateOf
<1> QED BY <1>1, <1>5, <1>6, <1>7

(* The cards that are created: by route, for those not there yet.          *)
CreatedBy(a, status) ==
  LET table == TableOf(published)
  IN  IF status = "resolved" THEN {}
      ELSE { i \in Winners(table, Alerts[a]) :
               CardOf(table[i], a) \notin DOMAIN cards /\ ~Muted(table[i], a) }

(* What becomes of each card: what there was, a new one, or the state one  *)
(* of the routes that have it moves it to.                                 *)
IsDecided(new, a, kind, status) ==
  LET table == TableOf(published)
      won == Winners(table, Alerts[a])
      created == CreatedBy(a, status)
  IN  \/ /\ new = cards
         /\ \E i, j \in created : i # j /\ CardOf(table[i], a) = CardOf(table[j], a)
      \/ /\ DOMAIN new = DOMAIN cards \cup { CardOf(table[i], a) : i \in created }
         /\ \A k \in DOMAIN new \ DOMAIN cards : new[k] = "firing"
         /\ \A k \in DOMAIN cards :
              \/ /\ new[k] = cards[k]
                 /\ \A i \in won : CardOf(table[i], a) = k => StateOf(i, a, kind, status) = None
              \/ \E i \in won : /\ CardOf(table[i], a) = k /\ new[k] = StateOf(i, a, kind, status)
                                /\ new[k] # None

LEMMA Decided ==
  ASSUME RoutingAssumption, IsTable(TableOf(published)), NEW a, NEW kind, NEW status
  PROVE  IsDecided(Decide(a, kind, status), a, kind, status)
<1> DEFINE table == TableOf(published)
           won == Resolve(table, Alerts[a])
           held == { i \in ToSet(won) : CardOf(table[i], a) \in DOMAIN cards }
           created == IF status = "resolved" THEN {}
                      ELSE { i \in ToSet(won) \ held : ~Muted(table[i], a) }
           conflict == \E i, j \in created : i # j /\ CardOf(table[i], a) = CardOf(table[j], a)
           New(k) == { i \in created : CardOf(table[i], a) = k }
           Moves(k) == { n \in DOMAIN won : /\ won[n] \in held /\ CardOf(table[won[n]], a) = k
                                            /\ StateOf(won[n], a, kind, status) # None }
           new == Decide(a, kind, status)
<1>1. new = IF conflict THEN cards
            ELSE [ k \in DOMAIN cards \cup { CardOf(table[i], a) : i \in created } |->
                     IF New(k) # {} THEN InitialState(AlertOf(status))
                     ELSE IF Moves(k) # {} THEN StateOf(won[Max(Moves(k))], a, kind, status)
                     ELSE cards[k] ]
  BY DEF Decide, StateOf
<1>2. won \in Seq(DOMAIN table)
  BY ResolveIs
<1>3. PICK N \in Nat : DOMAIN won = 1..N
  BY <1>2, LenProperties
<1>4. InitialState(AlertOf(status)) = "firing"
  BY DEF InitialState, AlertOf
<1>5. /\ created = IF status = "resolved" THEN {}
                   ELSE { i \in ToSet(won) : CardOf(table[i], a) \notin DOMAIN cards /\ ~Muted(table[i], a) }
      /\ created = CreatedBy(a, status)
  BY DEF CreatedBy, Winners
<1>6. \A i : i \in ToSet(won) <=> \E n \in DOMAIN won : won[n] = i
  BY DEF ToSet
<1>7. \A k \in DOMAIN cards : New(k) = {}
  BY <1>5
<1> HIDE DEF new, created
<1>8. CASE conflict
  BY <1>1, <1>5, <1>8 DEF IsDecided, new
<1>9. CASE ~conflict
  <2>1. DOMAIN new = DOMAIN cards \cup { CardOf(table[i], a) : i \in created }
    BY <1>1, <1>9
  <2>2. \A k \in DOMAIN new \ DOMAIN cards : new[k] = "firing"
    <3> SUFFICES ASSUME NEW k \in DOMAIN new \ DOMAIN cards
                 PROVE  new[k] = "firing"
      OBVIOUS
    <3>1. New(k) # {}
      BY <2>1
    <3> HIDE DEF New, Moves
    <3> QED BY <1>1, <1>4, <1>9, <2>1, <3>1
  <2>3. ASSUME NEW k \in DOMAIN cards
        PROVE  \/ /\ new[k] = cards[k]
                  /\ \A i \in ToSet(won) : CardOf(table[i], a) = k => StateOf(i, a, kind, status) = None
               \/ \E i \in ToSet(won) : /\ CardOf(table[i], a) = k /\ new[k] = StateOf(i, a, kind, status)
                                        /\ new[k] # None
    <3>1. new[k] = IF Moves(k) # {} THEN StateOf(won[Max(Moves(k))], a, kind, status) ELSE cards[k]
      <4> HIDE DEF New, Moves
      <4> QED BY <1>1, <1>7, <1>9
    <3>2. CASE Moves(k) = {}
      <4>1. ASSUME NEW i \in ToSet(won), CardOf(table[i], a) = k
            PROVE  StateOf(i, a, kind, status) = None
        <5>1. PICK n \in DOMAIN won : won[n] = i
          BY <1>6, <4>1
        <5>2. i \in held
          BY <4>1
        <5> HIDE DEF held, table
        <5> QED BY <3>2, <4>1, <5>1, <5>2
      <4> HIDE DEF Moves
      <4> QED BY <3>1, <3>2, <4>1
    <3>3. CASE Moves(k) # {}
      <4>1. Max(Moves(k)) \in Moves(k)
        <5>1. Moves(k) \in SUBSET (1..N)
          BY <1>3
        <5> HIDE DEF Moves
        <5> QED BY <3>3, <5>1, MaxOf
      <4>2. PICK n \in Moves(k) : n = Max(Moves(k))
        BY <4>1
      <4>3. /\ won[n] \in ToSet(won) /\ CardOf(table[won[n]], a) = k
            /\ StateOf(won[n], a, kind, status) # None
        BY <1>6, <4>2
      <4>4. new[k] = StateOf(won[n], a, kind, status)
        <5> HIDE DEF Moves
        <5> QED BY <3>1, <3>3, <4>2
      <4> QED BY <4>3, <4>4
    <3> QED BY <3>2, <3>3
  <2> QED BY <1>5, <2>1, <2>2, <2>3 DEF IsDecided, Winners, new
<1> QED BY <1>8, <1>9

LEMMA RestAtFirst == RoutingAssumption /\ Init => RestOK
BY DEF Init, RestOK, RoutingAssumption

LEMMA Spent ==
  ASSUME RestOK, NEW what \in {"commands", "changes", "starts"}, Spend(what)
  PROVE  left' \in [ {"commands", "changes", "starts"} -> Nat ]
<1>1. left[what] \in Nat /\ left[what] - 1 \in Nat
  BY DEF RestOK, Spend
<1>2. PICK n \in Nat : n = left[what] - 1
  BY <1>1
<1>3. left' = [ left EXCEPT ![what] = n ]
  BY <1>2 DEF Spend
<1> QED BY <1>3 DEF RestOK

LEMMA DeliverKeepsRest ==
  ASSUME RoutingAssumption, IInv, FewSubs, RestOK,
         NEW a \in DOMAIN Alerts, NEW kind \in Kinds, Deliver(a, kind)
  PROVE  RestOK'
<1> DEFINE table == TableOf(published)
<1>1. PICK status \in {"firing", "resolved"} : cards' = Decide(a, kind, status)
  BY DEF Deliver
<1>2. IsTable(table)
  BY PublishedIsATable
<1>3. ASSUME NEW k \in DOMAIN cards'
      PROVE  cards'[k] \in CardStates
  <2> DEFINE won == Winners(table, Alerts[a])
  <2>0. IsDecided(cards', a, kind, status)
    BY <1>1, <1>2, Decided
  <2>1. \/ cards' = cards
        \/ /\ \A c \in DOMAIN cards' \ DOMAIN cards : cards'[c] = "firing"
           /\ \A c \in DOMAIN cards :
                \/ cards'[c] = cards[c]
                \/ \E i \in won : /\ CardOf(table[i], a) = c /\ cards'[c] = StateOf(i, a, kind, status)
                                  /\ cards'[c] # None
    BY <2>0 DEF IsDecided
  <2>2. CASE cards'[k] = "firing" \/ (k \in DOMAIN cards /\ cards'[k] = cards[k])
    BY <2>2 DEF RestOK, CardStates
  <2>3. ASSUME NEW i, CardOf(table[i], a) = k, k \in DOMAIN cards,
               cards'[k] = StateOf(i, a, kind, status), cards'[k] # None
        PROVE  cards'[k] \in CardStates
    BY <2>3, StateOfIs
  <2> HIDE DEF won, table
  <2> QED BY <2>1, <2>2, <2>3
<1>4. alerts' \subseteq DOMAIN Alerts
  BY DEF Deliver, RestOK
<1>5. left' \in [ {"commands", "changes", "starts"} -> Nat ]
  BY Spent DEF Deliver
<1> QED BY <1>3, <1>4, <1>5 DEF RestOK

LEMMA RestKept == IInv /\ FewSubs /\ RestOK /\ [Next]_vars => RestOK'
<1> SUFFICES ASSUME IInv, FewSubs, RestOK, [Next]_vars
             PROVE  RestOK'
  OBVIOUS
<1>1. CASE \E h \in Handlers : Command(h)
  <2>1. PICK h \in Handlers : Begin(h)
    BY <1>1 DEF Command, AddRoute, RemoveRoute, AddIgnore, RevokeIgnore, Subscribe, Unsubscribe, AdoptTags
  <2>2. Spend("commands") /\ UNCHANGED <<alerts, cards>>
    BY <2>1 DEF Begin
  <2> QED BY <2>2, Spent DEF RestOK
<1>2. CASE Restart
  <2>1. Spend("starts") /\ UNCHANGED <<alerts, cards>>
    BY <1>2 DEF Restart
  <2> QED BY <2>1, Spent DEF RestOK
<1>3. CASE \E a \in DOMAIN Alerts, kind \in Kinds : Deliver(a, kind)
  BY <1>3, RoutingAssumption, DeliverKeepsRest
<1>4. CASE UNCHANGED <<alerts, cards, left>>
  BY <1>4 DEF RestOK
<1> QED BY <1>1, <1>2, <1>3, <1>4
        DEF Next, Load, LoadRoutes, LoadRules, LoadSubs, Publish, LoadFails, SyncRoute, DisableMissing,
            LoadInitial, Lapse, vars

LEMMA RestAlways == Spec => [](FewSubs /\ RestOK)
<1>1. Init => RestOK
  BY RoutingAssumption, RestAtFirst
<1> QED BY <1>1, FewAtFirst, FewStay, RestKept, Invariant, PTL DEF Spec

(* The type invariant: the tables, and that a card is ever in a state its  *)
(* routes can bring it to.                                                 *)
THEOREM RoutingTypeCorrect == Spec => []TypeOK
<1>1. IInv /\ RestOK => TypeOK
  BY DEF IInv, RestOK, TypeOK, CardStates, States
<1> QED BY <1>1, Invariant, RestAlways, PTL

(* A rule is of a guild, and a subscription of none.                       *)
LEMMA SubscriptionsAreNotMuted ==
  ASSUME RoutingAssumption, IInv, NEW a, NEW i \in DOMAIN TableOf(published), i < 0
  PROVE  ~Muted(TableOf(published)[i], a)
<1>1. i \in DOMAIN published.routes \cup { -s : s \in published.subs }
  BY DEF TableOf
<1>2. i \in Int
  <2>1. published.subs \subseteq Nat /\ published.routes \in Seq(Row)
    BY DEF IInv, TablesOK, Snapshot, RoutingAssumption
  <2>2. DOMAIN published.routes \subseteq Int
    BY <2>1, RowsAre
  <2> QED BY <1>1, <2>1, <2>2
<1>3. TableOf(published)[i] = AsRoute(-i)
  BY <1>1, <1>2 DEF TableOf
<1>4. TableOf(published)[i].guild = Nowhere
  BY <1>3 DEF AsRoute
<1>5. \A r \in published.rules \ lapsed : Rules[r].guild # Nowhere
  BY DEF IInv, TablesOK, Snapshot, RoutingAssumption
<1> QED BY <1>4, <1>5 DEF Muted

LEMMA OnlyDeliveriesFire ==
  ASSUME [Next]_vars, NEW a \in DOMAIN Alerts, Fires(a)
  PROVE  Deliver(a, "fired") /\ cards' = Decide(a, "fired", "firing")
<1>1. PICK b \in DOMAIN Alerts, kind \in Kinds : Deliver(b, kind)
  <2>1. alerts' # alerts
    BY DEF Fires
  <2> QED BY <2>1 DEF Next, Command, AddRoute, RemoveRoute, AddIgnore, RevokeIgnore, Subscribe,
        Unsubscribe, AdoptTags, Begin, Load, LoadRoutes, LoadRules, LoadSubs, Publish, LoadFails,
        SyncRoute, DisableMissing, LoadInitial, Restart, Lapse, vars
<1>2. b = a /\ kind = "fired"
  BY <1>1 DEF Deliver, Fires
<1> QED BY <1>1, <1>2 DEF Deliver

LEMMA FiringIsShown ==
  ASSUME RoutingAssumption, IInv, FewSubs, RestOK, [Next]_vars,
         NEW a \in DOMAIN Alerts, Fires(a), ~Shared(a),
         NEW i \in Winners(TableOf(published), Alerts[a]),
         i < 0 \/ ~Muted(TableOf(published)[i], a)
  PROVE  Shown(i, a)
<1> DEFINE table == TableOf(published)
           won == Winners(table, Alerts[a])
           k == CardOf(table[i], a)
           created == CreatedBy(a, "firing")
<1>1. cards' = Decide(a, "fired", "firing")
  BY OnlyDeliveriesFire
<1>2. IsTable(table)
  BY PublishedIsATable
<1>3. i \in DOMAIN table
  BY <1>2, ResolveIs DEF FirstMatch
<1>4. ~Muted(table[i], a)
  BY <1>3, SubscriptionsAreNotMuted
<1>5. \A j \in won : CardOf(table[j], a) = k => j = i
  BY DEF Shared
<1>6. ~ \E j, l \in created : j # l /\ CardOf(table[j], a) = CardOf(table[l], a)
  BY DEF Shared, CreatedBy
<1>7. /\ DOMAIN cards' = DOMAIN cards \cup { CardOf(table[j], a) : j \in created }
      /\ \A c \in DOMAIN cards' \ DOMAIN cards : cards'[c] = "firing"
      /\ \A c \in DOMAIN cards :
           \/ /\ cards'[c] = cards[c]
              /\ \A j \in won : CardOf(table[j], a) = c => StateOf(j, a, "fired", "firing") = None
           \/ \E j \in won : /\ CardOf(table[j], a) = c /\ cards'[c] = StateOf(j, a, "fired", "firing")
                             /\ cards'[c] # None
  <2>1. IsDecided(cards', a, "fired", "firing")
    BY <1>1, <1>2, Decided
  <2> QED BY <1>6, <2>1 DEF IsDecided
<1>8. CASE k \notin DOMAIN cards
  <2>1. i \in created
    BY <1>4, <1>8 DEF CreatedBy
  <2>2. k \in DOMAIN cards' /\ cards'[k] = "firing"
    BY <1>7, <1>8, <2>1
  <2> QED BY <2>2 DEF Shown, IsOpen
<1>9. CASE k \in DOMAIN cards
  <2>1. k \in DOMAIN cards'
    BY <1>7, <1>9
  <2>2. \/ StateOf(i, a, "fired", "firing") = "firing"
        \/ StateOf(i, a, "fired", "firing") = None /\ cards[k] = "firing"
    BY <1>4, <1>9, StateOfIs DEF Kinds
  <2>3. \/ cards'[k] = cards[k] /\ StateOf(i, a, "fired", "firing") = None
        \/ cards'[k] = StateOf(i, a, "fired", "firing") /\ cards'[k] # None
    <3> HIDE DEF won, table, k
    <3>1. i \in won /\ CardOf(table[i], a) = k
      BY DEF won, table, k
    <3> QED BY <1>5, <1>7, <1>9, <3>1
  <2>4. "firing" # None
    BY DEF RoutingAssumption, States
  <2>5. cards'[k] = "firing"
    BY <2>2, <2>3, <2>4
  <2> QED BY <2>1, <2>5 DEF Shown, IsOpen
<1> QED BY <1>8, <1>9

(* An alert that begins to fire is shown on each channel whose guild does  *)
(* not mute it and to each person subscribed, whatever the guilds mute,    *)
(* for any routes, rules, subscriptions and cards, unless two that want it *)
(* share a place.                                                          *)
THEOREM FiringIsSeen == Spec => FiringReachesAll
<1>1. IInv /\ FewSubs /\ RestOK /\ [Next]_vars =>
        \A a \in DOMAIN Alerts : Fires(a) /\ ~Shared(a) =>
          LET table == TableOf(published)
          IN  \A i \in Winners(table, Alerts[a]) :
                i < 0 \/ ~Muted(table[i], a) => Shown(i, a)
  BY RoutingAssumption, FiringIsShown
<1> QED BY <1>1, Invariant, RestAlways, PTL DEF Spec, FiringReachesAll
=============================================================================

-------------------------- MODULE PeripheryProofs --------------------------
(***************************************************************************)
(* What is proved of the three machines of MCPeriphery: the webhook's      *)
(* listener, the keys of cards, and what the bot says of itself.           *)
(***************************************************************************)
EXTENDS MCPeriphery, FiniteSetTheorems, SequenceTheorems, WellFoundedInduction, TLAPS

-----------------------------------------------------------------------------
(***************************************************************************)
(* That no change is lost quietly, for any number of alerts and requests.  *)
(* A change is in the table before it is decided on, and what a request    *)
(* has left to decide on is all that says so: the invariant adds that what *)
(* is left is what the table has, and that no two requests have the same   *)
(* alert, so that none can take from the other's.                          *)
(***************************************************************************)

(* Alertmanager notifies of an alert one thing after the other.            *)
Apart ==
  \A p, q \in Requests : p # q => DOMAIN requests[p].news \cap DOMAIN requests[q].news = {}

LeftIsStored ==
  \A q \in Requests : \A f \in requests[q].todo : rows[f] = requests[q].news[f]

ListenerInv == ListenerTypeOK /\ Apart /\ LeftIsStored /\ NoChangeLostQuietly

-----------------------------------------------------------------------------
(* What a request may be.                                                  *)
LEMMA ReadRequest ==
  ASSUME ListenerTypeOK, NEW q \in Requests
  PROVE  /\ requests[q] \in Request
         /\ requests[q].pc \in {"idle", "arrived", "deciding"}
         /\ DOMAIN requests[q].news \subseteq Alerts
         /\ requests[q].news \in [ DOMAIN requests[q].news -> 0..MaxChange ]
         /\ requests[q].todo \subseteq DOMAIN requests[q].news
         /\ requests[q].todo \subseteq Alerts
         /\ requests[q].pc # "deciding" => requests[q].todo = {}
<1>1. requests[q] \in Request
  BY DEF ListenerTypeOK
<1>2. PICK batch \in SUBSET Alerts : requests[q].news \in [ batch -> 0..MaxChange ]
  BY <1>1 DEF Request
<1>3. DOMAIN requests[q].news = batch
  BY <1>2
<1> QED BY <1>1, <1>2, <1>3 DEF ListenerTypeOK, Request

LEMMA IdleIsARequest ==
  /\ Idle \in Request /\ Idle.pc = "idle" /\ Idle.todo = {} /\ DOMAIN Idle.news = {}
<1>1. DOMAIN NoNews = {} /\ NoNews \in [ {} -> 0..MaxChange ]
  BY DEF NoNews
<1>2. {} \in SUBSET Alerts
  OBVIOUS
<1>3. NoNews \in UNION { [ batch -> 0..MaxChange ] : batch \in SUBSET Alerts }
  BY <1>1, <1>2
<1> QED BY <1>1, <1>3 DEF Idle, Request

LEMMA MishapIsBounded ==
  ASSUME ListenerAssumption, ListenerTypeOK, Mishap
  PROVE  mishaps' \in 0..Mishaps
BY DEF ListenerAssumption, ListenerTypeOK, Mishap

LEMMA ListenerBegins == ListenerAssumption /\ ListenerInit => ListenerInv
<1> SUFFICES ASSUME ListenerAssumption, ListenerInit
             PROVE  ListenerInv
  OBVIOUS
<1>1. \A q \in Requests : requests[q] = Idle
  BY DEF ListenerInit
<1>2. ListenerTypeOK
  <2>1. requests \in [ Requests -> Request ]
    BY IdleIsARequest DEF ListenerInit
  <2>2. current \in [ Alerts -> 0..MaxChange ] /\ rows \in [ Alerts -> 0..MaxChange ]
        /\ decided \in [ Alerts -> 0..MaxChange ] /\ mishaps \in 0..Mishaps
    BY DEF ListenerInit, ListenerAssumption
  <2>3. tasks \in [ Tasks -> {"waiting", "running", "ended"} ]
    BY DEF ListenerInit
  <2> QED BY <1>1, <2>1, <2>2, <2>3, IdleIsARequest DEF ListenerTypeOK, ListenerInit
<1>3. Apart /\ LeftIsStored
  BY <1>1, IdleIsARequest DEF Apart, LeftIsStored
<1>4. NoChangeLostQuietly
  BY DEF ListenerInit, NoChangeLostQuietly
<1> QED BY <1>2, <1>3, <1>4 DEF ListenerInv

(* A request that is answered leaves what it had left to the next.         *)
LEMMA Answered ==
  ASSUME ListenerInv, NEW q \in Requests, NEW reply,
         reply = "200" => requests[q].todo = {},
         Answer(q, reply), UNCHANGED <<current, phase, tasks, rows, decided, beaten>>, mishaps' \in 0..Mishaps
  PROVE  ListenerInv'
<1>1. requests' = [ requests EXCEPT ![q] = Idle ]
  BY DEF Answer
<1>2. requests'[q] = Idle /\ \A p \in Requests : p # q => requests'[p] = requests[p]
  BY <1>1 DEF ListenerInv, ListenerTypeOK
<1>3. cut' = cut \cup requests[q].todo
  BY DEF Answer
<1>4. ListenerTypeOK'
  <2>1. requests' \in [ Requests -> Request ]
    BY <1>1, IdleIsARequest DEF ListenerInv, ListenerTypeOK
  <2>2. cut' \subseteq Alerts
    BY <1>3, ReadRequest DEF ListenerInv, ListenerTypeOK
  <2>3. \A p \in Requests : /\ requests'[p].todo \subseteq DOMAIN requests'[p].news
                            /\ requests'[p].todo # {} => requests'[p].pc = "deciding"
    BY <1>2, IdleIsARequest DEF ListenerInv, ListenerTypeOK
  <2>4. phase' \in {"starting", "stopped"} => \A p \in Requests : requests'[p] = Idle
    BY <1>2 DEF ListenerInv, ListenerTypeOK
  <2> QED BY <2>1, <2>2, <2>3, <2>4 DEF ListenerInv, ListenerTypeOK
<1>5. Apart' /\ LeftIsStored'
  BY <1>2, IdleIsARequest DEF ListenerInv, Apart, LeftIsStored
<1>6. NoChangeLostQuietly'
  BY <1>2, <1>3 DEF ListenerInv, NoChangeLostQuietly
<1> QED BY <1>4, <1>5, <1>6 DEF ListenerInv

(* What is under way when the process ends.                                *)
LEMMA EndsAll ==
  ASSUME ListenerInv, Ended, phase' \in {"starting", "stopped"},
         tasks' \in [ Tasks -> {"waiting", "running", "ended"} ], mishaps' \in 0..Mishaps
  PROVE  ListenerInv'
<1>1. \A p \in Requests : requests'[p] = Idle
  BY DEF Ended
<1>2. cut' = cut \cup UNION { requests[q].todo : q \in Requests } /\ UNCHANGED <<current, rows, decided, beaten>>
  BY DEF Ended
<1>3. ListenerTypeOK'
  <2>1. requests' \in [ Requests -> Request ]
    BY IdleIsARequest DEF Ended
  <2>2. cut' \subseteq Alerts
    BY <1>2, ReadRequest DEF ListenerInv, ListenerTypeOK
  <2> QED BY <1>1, <1>2, <2>1, <2>2, IdleIsARequest DEF ListenerInv, ListenerTypeOK
<1>4. Apart' /\ LeftIsStored'
  BY <1>1, IdleIsARequest DEF Apart, LeftIsStored
<1>5. NoChangeLostQuietly'
  BY <1>2 DEF ListenerInv, NoChangeLostQuietly
<1> QED BY <1>3, <1>4, <1>5 DEF ListenerInv

LEMMA Stored ==
  ASSUME ListenerInv, NEW q \in Requests, Store(q)
  PROVE  ListenerInv'
<1> DEFINE news == requests[q].news
<1>1. /\ requests[q].pc = "arrived" /\ requests[q].todo = {} /\ DOMAIN news \subseteq Alerts
      /\ news \in [ DOMAIN news -> 0..MaxChange ]
  BY ReadRequest DEF Store, ListenerInv
<1>2. /\ \A f \in Alerts : rows'[f] = IF f \in DOMAIN news THEN news[f] ELSE rows[f]
      /\ requests' = [ requests EXCEPT ![q].pc = "deciding", ![q].todo = Changed(news) ]
      /\ UNCHANGED <<current, phase, tasks, decided, cut, beaten, mishaps>>
  BY DEF Store, process
<1>3. /\ \A p \in Requests : p # q => requests'[p] = requests[p]
      /\ requests'[q] = [ requests[q] EXCEPT !.pc = "deciding", !.todo = Changed(news) ]
  BY <1>2 DEF ListenerInv, ListenerTypeOK
<1>4. /\ requests'[q].pc = "deciding" /\ requests'[q].news = news
      /\ requests'[q].todo = Changed(news) /\ Changed(news) \subseteq DOMAIN news
      /\ requests'[q] \in Request
  <2>1. Changed(news) \in SUBSET Alerts
    BY <1>1 DEF Changed
  <2> QED BY <1>3, <2>1, ReadRequest DEF ListenerInv, Request, Changed
<1>5. ListenerTypeOK'
  <2>1. requests' \in [ Requests -> Request ]
    BY <1>2, <1>3, <1>4 DEF ListenerInv, ListenerTypeOK
  <2>2. rows' \in [ Alerts -> 0..MaxChange ]
    BY <1>1 DEF Store, ListenerInv, ListenerTypeOK
  <2>3. \A p \in Requests : /\ requests'[p].todo \subseteq DOMAIN requests'[p].news
                            /\ requests'[p].todo # {} => requests'[p].pc = "deciding"
    BY ZenonT(60), <1>3, <1>4 DEF ListenerInv, ListenerTypeOK
  <2>4. phase' \notin {"starting", "stopped"}
    BY <1>1, <1>2, IdleIsARequest DEF ListenerInv, ListenerTypeOK
  <2> QED BY <1>2, <2>1, <2>2, <2>3, <2>4 DEF ListenerInv, ListenerTypeOK
<1>6. Apart'
  <2>1. \A p \in Requests : requests'[p].news = requests[p].news
    BY <1>3, <1>4
  <2> QED BY <2>1 DEF ListenerInv, Apart
<1>7. LeftIsStored'
  <2>1. \A f \in requests'[q].todo : rows'[f] = requests'[q].news[f]
    BY <1>1, <1>2, <1>4
  <2>2. ASSUME NEW p \in Requests, p # q, NEW f \in requests[p].todo
        PROVE  rows'[f] = requests[p].news[f]
    <3>1. f \in DOMAIN requests[p].news /\ f \in Alerts /\ f \notin DOMAIN news
      BY <2>2, ReadRequest DEF ListenerInv, Apart
    <3> QED BY <1>2, <2>2, <3>1 DEF ListenerInv, LeftIsStored
  <2>3. \A p \in Requests : \A f \in requests'[p].todo : rows'[f] = requests'[p].news[f]
    <3> SUFFICES ASSUME NEW p \in Requests, NEW f \in requests'[p].todo
                 PROVE  rows'[f] = requests'[p].news[f]
      OBVIOUS
    <3>1. CASE p = q
      BY <2>1, <3>1
    <3>2. CASE p # q
      <4>1. requests'[p] = requests[p]
        BY <1>3, <3>2
      <4>2. f \in requests[p].todo
        BY <4>1
      <4>3. rows'[f] = requests[p].news[f]
        BY <2>2, <3>2, <4>2
      <4> QED BY <4>1, <4>3
    <3> QED BY <3>1, <3>2
  <2> QED BY <2>3 DEF LeftIsStored
<1>8. NoChangeLostQuietly'
  <2> SUFFICES ASSUME NEW f \in Alerts, rows'[f] # decided[f]
               PROVE  f \in cut \cup beaten \/ \E p \in Requests : f \in requests'[p].todo
    BY <1>2 DEF NoChangeLostQuietly
  <2>1. CASE rows'[f] # rows[f]
    <3>1. f \in Changed(news)
      BY <1>2, <2>1 DEF Changed
    <3> QED BY <1>4, <3>1
  <2>2. CASE rows'[f] = rows[f]
    <3>1. f \in cut \cup beaten \/ \E p \in Requests : p # q /\ f \in requests[p].todo
      BY <1>1, <2>2 DEF ListenerInv, NoChangeLostQuietly
    <3> QED BY <1>3, <3>1
  <2> QED BY <2>1, <2>2
<1> QED BY <1>5, <1>6, <1>7, <1>8 DEF ListenerInv

LEMMA Applied ==
  ASSUME ListenerInv, NEW q \in Requests, NEW f \in Alerts, Apply(q, f)
  PROVE  ListenerInv'
<1>1. /\ f \in requests[q].todo /\ requests[q].pc = "deciding" /\ f \in DOMAIN requests[q].news
      /\ requests[q].news[f] \in 0..MaxChange
  BY ReadRequest DEF Apply, ListenerInv
<1>2. /\ decided' = [ decided EXCEPT ![f] = requests[q].news[f] ] /\ cut' = cut \ {f}
      /\ beaten' = beaten \ {f}
      /\ requests' = [ requests EXCEPT ![q].todo = @ \ {f} ]
      /\ UNCHANGED <<current, phase, tasks, rows, mishaps>>
  BY DEF Apply, process
<1>3. /\ \A p \in Requests : p # q => requests'[p] = requests[p]
      /\ requests'[q] = [ requests[q] EXCEPT !.todo = @ \ {f} ]
  BY <1>2 DEF ListenerInv, ListenerTypeOK
<1>4. /\ requests'[q].pc = "deciding" /\ requests'[q].news = requests[q].news
      /\ requests'[q].todo = requests[q].todo \ {f} /\ requests'[q] \in Request
  BY <1>1, <1>3, ReadRequest DEF ListenerInv, Request
<1>5. ListenerTypeOK'
  <2>1. requests' \in [ Requests -> Request ]
    BY <1>2, <1>3, <1>4 DEF ListenerInv, ListenerTypeOK
  <2>2. decided' \in [ Alerts -> 0..MaxChange ]
    BY <1>1, <1>2 DEF ListenerInv, ListenerTypeOK
  <2>3. \A p \in Requests : /\ requests'[p].todo \subseteq DOMAIN requests'[p].news
                            /\ requests'[p].todo # {} => requests'[p].pc = "deciding"
    BY <1>3, <1>4 DEF ListenerInv, ListenerTypeOK
  <2>4. phase' \notin {"starting", "stopped"}
    BY <1>1, <1>2, IdleIsARequest DEF ListenerInv, ListenerTypeOK
  <2> QED BY <1>2, <2>1, <2>2, <2>3, <2>4 DEF ListenerInv, ListenerTypeOK
<1>6. Apart'
  <2>1. \A p \in Requests : requests'[p].news = requests[p].news
    BY <1>3, <1>4
  <2> QED BY <2>1 DEF ListenerInv, Apart
<1>7. LeftIsStored'
  BY <1>2, <1>3, <1>4 DEF ListenerInv, LeftIsStored
<1>8. NoChangeLostQuietly'
  <2>1. decided'[f] = rows[f]
    BY <1>1, <1>2 DEF ListenerInv, ListenerTypeOK, LeftIsStored
  <2>2. \A g \in Alerts : g # f => decided'[g] = decided[g]
    BY <1>2 DEF ListenerInv, ListenerTypeOK
  <2>3. ASSUME NEW g \in Alerts, g # f, rows[g] # decided[g]
        PROVE  g \in cut' \cup beaten' \/ \E p \in Requests : g \in requests'[p].todo
    <3>1. g \in cut \cup beaten \/ \E p \in Requests : g \in requests[p].todo
      BY <2>3 DEF ListenerInv, NoChangeLostQuietly
    <3> QED BY <1>2, <1>3, <1>4, <2>3, <3>1
  <2> QED BY <1>2, <2>1, <2>2, <2>3 DEF NoChangeLostQuietly
<1> QED BY <1>5, <1>6, <1>7, <1>8 DEF ListenerInv

(* A decision the store refuses as a conflict is left out and noted.       *)
LEMMA Beaten ==
  ASSUME ListenerInv, NEW q \in Requests, NEW f \in Alerts, Conflict(q, f)
  PROVE  ListenerInv'
<1>1. f \in requests[q].todo /\ requests[q].pc = "deciding"
  BY ReadRequest DEF Conflict, ListenerInv
<1>2. /\ beaten' = beaten \cup {f}
      /\ requests' = [ requests EXCEPT ![q].todo = @ \ {f} ]
      /\ UNCHANGED <<current, phase, tasks, rows, decided, cut, mishaps>>
  BY DEF Conflict, process
<1>3. /\ \A p \in Requests : p # q => requests'[p] = requests[p]
      /\ requests'[q] = [ requests[q] EXCEPT !.todo = @ \ {f} ]
  BY <1>2 DEF ListenerInv, ListenerTypeOK
<1>4. /\ requests'[q].pc = "deciding" /\ requests'[q].news = requests[q].news
      /\ requests'[q].todo = requests[q].todo \ {f} /\ requests'[q] \in Request
  BY <1>1, <1>3, ReadRequest DEF ListenerInv, Request
<1>5. ListenerTypeOK'
  <2>1. requests' \in [ Requests -> Request ]
    BY <1>2, <1>3, <1>4 DEF ListenerInv, ListenerTypeOK
  <2>2. beaten' \subseteq Alerts
    BY <1>2 DEF ListenerInv, ListenerTypeOK
  <2>3. \A p \in Requests : /\ requests'[p].todo \subseteq DOMAIN requests'[p].news
                            /\ requests'[p].todo # {} => requests'[p].pc = "deciding"
    BY <1>3, <1>4 DEF ListenerInv, ListenerTypeOK
  <2>4. phase' \notin {"starting", "stopped"}
    BY <1>1, <1>2, IdleIsARequest DEF ListenerInv, ListenerTypeOK
  <2> QED BY <1>2, <2>1, <2>2, <2>3, <2>4 DEF ListenerInv, ListenerTypeOK
<1>6. Apart'
  <2>1. \A p \in Requests : requests'[p].news = requests[p].news
    BY <1>3, <1>4
  <2> QED BY <2>1 DEF ListenerInv, Apart
<1>7. LeftIsStored'
  BY <1>2, <1>3, <1>4 DEF ListenerInv, LeftIsStored
<1>8. NoChangeLostQuietly'
  <2>1. ASSUME NEW g \in Alerts, g # f, rows[g] # decided[g]
        PROVE  g \in cut' \cup beaten' \/ \E p \in Requests : g \in requests'[p].todo
    <3>1. g \in cut \cup beaten \/ \E p \in Requests : g \in requests[p].todo
      BY <2>1 DEF ListenerInv, NoChangeLostQuietly
    <3> QED BY <1>2, <1>3, <1>4, <2>1, <3>1
  <2>2. f \in beaten'
    BY <1>2
  <2> QED BY <1>2, <2>1, <2>2 DEF NoChangeLostQuietly
<1> QED BY <1>5, <1>6, <1>7, <1>8 DEF ListenerInv

LEMMA Sent ==
  ASSUME ListenerInv, NEW q \in Requests, NEW batch \in SUBSET Alerts, Send(q, batch)
  PROVE  ListenerInv'
<1> DEFINE new == [ pc |-> "arrived", news |-> [ f \in batch |-> current[f] ], todo |-> {} ]
<1>1. /\ phase = "serving" /\ requests[q].pc = "idle"
      /\ \A p \in Requests : DOMAIN requests[p].news \cap batch = {}
      /\ requests' = [ requests EXCEPT ![q] = new ]
      /\ UNCHANGED <<current, phase, tasks, rows, decided, cut, beaten, mishaps>>
  BY DEF Send, process
<1>2. requests'[q] = new /\ \A p \in Requests : p # q => requests'[p] = requests[p]
  BY <1>1 DEF ListenerInv, ListenerTypeOK
<1>3. new \in Request /\ DOMAIN new.news = batch /\ requests[q].todo = {}
  <2>1. [ f \in batch |-> current[f] ] \in [ batch -> 0..MaxChange ]
    BY DEF ListenerInv, ListenerTypeOK
  <2>2. [ f \in batch |-> current[f] ] \in UNION { [ b -> 0..MaxChange ] : b \in SUBSET Alerts }
    BY <2>1
  <2> QED BY <1>1, <2>2, ReadRequest DEF ListenerInv, Request
<1>4. ListenerTypeOK'
  <2>1. requests' \in [ Requests -> Request ]
    BY <1>1, <1>3 DEF ListenerInv, ListenerTypeOK
  <2>2. \A p \in Requests : /\ requests'[p].todo \subseteq DOMAIN requests'[p].news
                            /\ requests'[p].todo # {} => requests'[p].pc = "deciding"
    BY <1>2 DEF ListenerInv, ListenerTypeOK
  <2> QED BY <1>1, <2>1, <2>2 DEF ListenerInv, ListenerTypeOK
<1>5. Apart'
  <2>1. \A p \in Requests : p # q => DOMAIN requests'[p].news \cap DOMAIN requests'[q].news = {}
    BY <1>1, <1>2, <1>3
  <2>2. \A p, r \in Requests : p # q /\ r # q /\ p # r
          => DOMAIN requests'[p].news \cap DOMAIN requests'[r].news = {}
    BY <1>2 DEF ListenerInv, Apart
  <2> QED BY <2>1, <2>2 DEF Apart
<1>6. LeftIsStored'
  BY <1>1, <1>2 DEF ListenerInv, LeftIsStored
<1>7. NoChangeLostQuietly'
  BY <1>1, <1>2, <1>3 DEF ListenerInv, NoChangeLostQuietly
<1> QED BY <1>4, <1>5, <1>6, <1>7 DEF ListenerInv

(* What Alertmanager, run and the tasks do while requests go on.           *)
LEMMA RequestsGoOn ==
  ASSUME ListenerInv, UNCHANGED <<requests, rows, decided, cut, beaten, mishaps>>,
         current' \in [ Alerts -> 0..MaxChange ], tasks' \in [ Tasks -> {"waiting", "running", "ended"} ],
         phase' \in {"starting", "serving", "draining", "joining", "stopped"},
         phase' \in {"starting", "stopped"} => phase = phase'
  PROVE  ListenerInv'
<1>1. ListenerTypeOK'
  BY DEF ListenerInv, ListenerTypeOK
<1>2. Apart' /\ LeftIsStored' /\ NoChangeLostQuietly'
  BY DEF ListenerInv, Apart, LeftIsStored, NoChangeLostQuietly
<1> QED BY <1>1, <1>2 DEF ListenerInv

LEMMA ListenerGoesOn == ListenerAssumption /\ ListenerInv /\ [ListenerNext]_listener => ListenerInv'
<1> SUFFICES ASSUME ListenerAssumption, ListenerInv, [ListenerNext]_listener
             PROVE  ListenerInv'
  OBVIOUS
<1>1. CASE \E f \in Alerts : Change(f)
  <2>1. PICK f \in Alerts : Change(f)
    BY <1>1
  <2>2. current' \in [ Alerts -> 0..MaxChange ]
    BY <2>1 DEF Change, ListenerInv, ListenerTypeOK, ListenerAssumption
  <2>3. UNCHANGED <<phase, tasks, requests, rows, decided, cut, beaten, mishaps>>
    BY <2>1 DEF Change, process
  <2> QED BY <2>2, <2>3, RequestsGoOn DEF ListenerInv, ListenerTypeOK
<1>2. CASE \E q \in Requests, batch \in SUBSET Alerts \ {{}} : Send(q, batch)
  BY <1>2, Sent
<1>3. CASE \E q \in Requests : Handle(q)
  <2>1. PICK q \in Requests : Handle(q)
    BY <1>3
  <2>2. CASE Refuse(q)
    <3>1. PICK reply \in {"401", "400"} : Answer(q, reply)
      BY <2>2 DEF Refuse
    <3>2. UNCHANGED <<current, phase, tasks, rows, decided, beaten, mishaps>>
      BY <2>2 DEF Refuse, process
    <3> QED BY <3>1, <3>2, Answered DEF ListenerInv, ListenerTypeOK
  <2>3. CASE Store(q)
    BY <2>3, Stored
  <2>4. CASE StoreFails(q)
    <3>1. PICK reply \in {"503", "500"} : Answer(q, reply)
      BY <2>4 DEF StoreFails
    <3>2. UNCHANGED <<current, phase, tasks, rows, decided, beaten>> /\ mishaps' \in 0..Mishaps
      BY <2>4, MishapIsBounded DEF StoreFails, process, ListenerInv
    <3> QED BY <3>1, <3>2, Answered
  <2>5. CASE ApplyFails(q)
    <3>1. UNCHANGED <<current, phase, tasks, rows, decided, beaten>> /\ mishaps' \in 0..Mishaps /\ Answer(q, "503")
      BY <2>5, MishapIsBounded DEF ApplyFails, process, ListenerInv
    <3> QED BY <3>1, Answered
  <2>6. CASE Accept(q)
    <3>1. /\ UNCHANGED <<current, phase, tasks, rows, decided, beaten, mishaps>> /\ Answer(q, "200")
          /\ requests[q].todo = {}
      BY <2>6 DEF Accept, process
    <3> QED BY <3>1, Answered DEF ListenerInv, ListenerTypeOK
  <2>7. CASE Timeout(q)
    <3>1. UNCHANGED <<current, phase, tasks, rows, decided, beaten>> /\ mishaps' \in 0..Mishaps /\ Answer(q, "408")
      BY <2>7, MishapIsBounded DEF Timeout, process, ListenerInv
    <3> QED BY <3>1, Answered
  <2>8. CASE \E f \in Alerts : Apply(q, f) \/ Conflict(q, f)
    BY <2>8, Applied, Beaten
  <2> QED BY <2>1, <2>2, <2>3, <2>4, <2>5, <2>6, <2>7, <2>8 DEF Handle
<1>4. CASE Start \/ Signal \/ Drained
  <2>1. /\ UNCHANGED <<current, requests, rows, decided, cut, beaten, mishaps>>
        /\ phase' \in {"serving", "draining", "joining"}
    BY <1>4 DEF Start, Signal, Drained
  <2>2. tasks' \in [ Tasks -> {"waiting", "running", "ended"} ]
    BY <1>4 DEF Start, Signal, Drained, ListenerInv, ListenerTypeOK
  <2> QED BY <2>1, <2>2, RequestsGoOn DEF ListenerInv, ListenerTypeOK
<1>5. CASE Stop
  <2>1. phase' = "stopped" /\ Ended /\ UNCHANGED <<tasks, mishaps>>
    BY <1>5 DEF Stop
  <2> QED BY <2>1, EndsAll DEF ListenerInv, ListenerTypeOK
<1>6. CASE StartAgain
  <2>1. phase' = "starting" /\ Ended /\ tasks' \in [ Tasks -> {"waiting", "running", "ended"} ]
        /\ mishaps' \in 0..Mishaps
    BY <1>6, MishapIsBounded DEF StartAgain, ListenerInv
  <2> QED BY <2>1, EndsAll
<1>7. CASE \E t \in Tasks : Begin(t) \/ Finish(t) \/ End(t)
  <2>1. /\ UNCHANGED <<current, phase, requests, rows, decided, cut, beaten, mishaps>>
        /\ tasks' \in [ Tasks -> {"waiting", "running", "ended"} ]
    BY <1>7 DEF Begin, Finish, End, ListenerInv, ListenerTypeOK
  <2> QED BY <2>1, RequestsGoOn DEF ListenerInv, ListenerTypeOK
<1>8. CASE UNCHANGED listener
  BY <1>8, RequestsGoOn DEF listener, ListenerInv, ListenerTypeOK
<1> QED BY <1>1, <1>2, <1>3, <1>4, <1>5, <1>6, <1>7, <1>8 DEF ListenerNext

LEMMA ListenerInvariant == ListenerAssumption => (ListenerSpec => []ListenerInv)
<1> SUFFICES ASSUME ListenerAssumption PROVE ListenerSpec => []ListenerInv
  OBVIOUS
<1>1. ListenerInit => ListenerInv
  BY ListenerBegins
<1>2. ListenerInv /\ [ListenerNext]_listener => ListenerInv'
  BY ListenerGoesOn
<1> QED BY <1>1, <1>2, PTL DEF ListenerSpec

-----------------------------------------------------------------------------
(* The type invariant: no request has work left but one that is deciding,  *)
(* and none is under way while the process is not.                         *)
THEOREM ListenerTypeCorrect == ListenerAssumption => (ListenerSpec => []ListenerTypeOK)
<1>1. ListenerInv => ListenerTypeOK
  BY DEF ListenerInv
<1> QED BY <1>1, ListenerInvariant, PTL

(* However requests overlap, are refused, time out or end with the process *)
(* half way through their batch, a change that is in the table and was not *)
(* decided on is one that Alertmanager was not told is done, or one whose  *)
(* decision the store refused as a conflict: webhook answers 200 after the *)
(* last decision was applied or refused so, and never before.              *)
THEOREM NothingLostQuietly == ListenerAssumption => (ListenerSpec => []NoChangeLostQuietly)
<1>1. ListenerInv => NoChangeLostQuietly
  BY DEF ListenerInv
<1> QED BY <1>1, ListenerInvariant, PTL

-----------------------------------------------------------------------------
(***************************************************************************)
(* The keys of cards, for any alerts, windows and thresholds: that two     *)
(* cards are always explained; and, where the regroup window outlasts a    *)
(* digest window, that no decision conflicts and an alert's own card       *)
(* follows it.  The argument rests on what decide plans (PlanOfOne and     *)
(* PlanOfTwo), on what a plan makes of a row (CarriedFine), and on a       *)
(* digest card having resolved in its own window, so that within the       *)
(* window it is not outlived (DigestIsNotOutlived).                        *)
(***************************************************************************)

(* What is true of each card by itself.                                    *)
RowFine(row, i) ==
  /\ row.supersedes < i
  /\ row.state = "orphaned" <=> row.retired = "orphaned"
  /\ row.key.scope = "alert" /\ ~repolicied => row.key.of = Identity(row.alert)
  /\ row.key.scope = "digest" /\ row.route = "own" => stormed
  /\ row.key.scope = "digest" /\ row.state = "resolved" => row.resolvedAt >= row.key.window

Fine(deck) ==
  deck \in Seq(Notification) /\ \A i \in DOMAIN deck : RowFine(deck[i], i)

IInv == StormTypeOK /\ Fine(cards) /\ (storming => stormed)

-----------------------------------------------------------------------------
(* Arithmetic: where a window begins, and the least of a set.              *)

LEMMA WindowBegins ==
  ASSUME NEW t \in Nat, NEW w \in Nat \ {0}
  PROVE  /\ t - (t % w) \in 0..t
         /\ t % w \in 0..(w - 1)
<1>1. t % w \in 0..(w - 1)
  OBVIOUS
<1>2. t = w * (t \div w) + (t % w)
  OBVIOUS
<1>3. t \div w \in Nat
  OBVIOUS
<1>4. w * (t \div w) \in Nat
  BY <1>3
<1> QED BY <1>1, <1>2, <1>4

LEMMA LeastIs ==
  ASSUME NEW I \in SUBSET Nat, NEW x \in I, \A y \in I : x <= y
  PROVE  Min(I) = x
<1>1. \A z \in I : (\A y \in I : z <= y) => z = x
  OBVIOUS
<1>2. \E z \in I : \A y \in I : z <= y
  OBVIOUS
<1>3. Min(I) \in I /\ \A y \in I : Min(I) <= y
  BY <1>2, Zenon DEF Min
<1> QED BY <1>1, <1>3

LEMMA LeastIsThere ==
  ASSUME NEW I \in SUBSET Nat, I # {}
  PROVE  Min(I) \in I
<1>1. IsWellFoundedOn(OpToRel(<, Nat), Nat)
  BY NatLessThanWellFounded
<1>2. PICK x \in I : \A y \in I : <<y, x>> \notin OpToRel(<, Nat)
  BY <1>1, WFMin
<1>3. \A y \in I : ~(y < x)
  BY <1>2 DEF OpToRel
<1>4. \A y \in I : x <= y
  BY <1>3
<1> QED BY <1>4, LeastIs

-----------------------------------------------------------------------------
(* What decide plans: under one key, and under two.                        *)

Creation(f, key, s) ==
  [ do |-> IF f \in firing THEN "create" ELSE "nothing", key |-> key, supersedes |-> s ]

LEMMA PlanOfOne ==
  ASSUME NEW f, NEW r, NEW key, DedupeKeys(f, r) = << key >>
  PROVE  /\ (\E i \in Under(key) : ~Outlived(i, f)) =>
              \E i \in Under(key) : Plan(f, r) = [ do |-> "update", card |-> i ]
         /\ (\A i \in Under(key) : Outlived(i, f)) =>
              \E s : /\ IF Under(key) = {} THEN s = 0 ELSE s \in Under(key)
                     /\ Plan(f, r) = Creation(f, key, s)
<1> DEFINE keys  == << key >>
           found == [ k \in DOMAIN keys |-> Under(keys[k]) ]
           Held(ids) == \E i \in ids : ~Outlived(i, f)
           Past(ids) == \E i \in ids : Outlived(i, f)
           H == { k \in 1..Len(found) : Held(found[k]) }
           Q == { k \in 1..Len(found) : Past(found[k]) }
           OneOf(ids) == CHOOSE i \in ids : TRUE
           held == IF H # {} THEN Min(H) ELSE 0
           past == IF Q # {} THEN Min(Q) ELSE 0
<1>1. Len(found) = 1 /\ found[1] = Under(key) /\ Last(keys) = key
  BY DEF Last
<1>2. Plan(f, r) =
        IF held # 0 THEN [ do |-> "update", card |-> OneOf(found[held]) ]
        ELSE Creation(f, Last(keys), IF past = 0 THEN 0 ELSE OneOf(found[past]))
  BY DEF Plan, SelectInSeq, Creation
<1>0. \A ids : ids # {} => OneOf(ids) \in ids
  OBVIOUS
<1> HIDE DEF found, Held, Past, OneOf
<1>3. held = IF Held(Under(key)) THEN 1 ELSE 0
  <2>1. H \subseteq {1} /\ (1 \in H <=> Held(Under(key)))
    BY <1>1
  <2> QED BY <2>1, LeastIs
<1>4. past = IF Past(Under(key)) THEN 1 ELSE 0
  <2>1. Q \subseteq {1} /\ (1 \in Q <=> Past(Under(key)))
    BY <1>1
  <2> QED BY <2>1, LeastIs
<1> HIDE DEF held, past, keys
<1>5. CASE \E i \in Under(key) : ~Outlived(i, f)
  <2>1. Held(Under(key)) /\ held = 1
    BY <1>3, <1>5 DEF Held
  <2>2. Plan(f, r) = [ do |-> "update", card |-> OneOf(Under(key)) ]
    BY <1>1, <1>2, <2>1
  <2>3. OneOf(Under(key)) \in Under(key)
    BY <1>5, <1>0
  <2> QED BY <1>5, <2>2, <2>3
<1>6. CASE \A i \in Under(key) : Outlived(i, f)
  <2>1. ~Held(Under(key)) /\ held = 0
    BY <1>3, <1>6 DEF Held
  <2>2. past = IF Under(key) = {} THEN 0 ELSE 1
    BY <1>4, <1>6 DEF Past
  <2> DEFINE s == IF Under(key) = {} THEN 0 ELSE OneOf(Under(key))
  <2>3. Plan(f, r) = Creation(f, key, s)
    BY <1>1, <1>2, <2>1, <2>2
  <2>4. IF Under(key) = {} THEN s = 0 ELSE s \in Under(key)
    BY <1>0
  <2> HIDE DEF s
  <2>5. ~\E i \in Under(key) : ~Outlived(i, f)
    BY <1>6
  <2> QED BY <2>3, <2>4, <2>5
<1> QED BY <1>5, <1>6

LEMMA PlanOfTwo ==
  ASSUME NEW f, NEW r, NEW own, NEW digest, DedupeKeys(f, r) = << own, digest >>
  PROVE  /\ (\E i \in Under(own) : ~Outlived(i, f)) =>
              \E i \in Under(own) : Plan(f, r) = [ do |-> "update", card |-> i ]
         /\ (\A i \in Under(own) : Outlived(i, f)) /\ (\E i \in Under(digest) : ~Outlived(i, f)) =>
              \E i \in Under(digest) : Plan(f, r) = [ do |-> "update", card |-> i ]
         /\ (\A i \in Under(own) \cup Under(digest) : Outlived(i, f)) =>
              \E s : /\ IF Under(own) # {} THEN s \in Under(own)
                          ELSE IF Under(digest) # {} THEN s \in Under(digest) ELSE s = 0
                     /\ Plan(f, r) = Creation(f, digest, s)
<1> DEFINE keys  == << own, digest >>
           found == [ k \in DOMAIN keys |-> Under(keys[k]) ]
           Held(ids) == \E i \in ids : ~Outlived(i, f)
           Past(ids) == \E i \in ids : Outlived(i, f)
           H == { k \in 1..Len(found) : Held(found[k]) }
           Q == { k \in 1..Len(found) : Past(found[k]) }
           OneOf(ids) == CHOOSE i \in ids : TRUE
           held == IF H # {} THEN Min(H) ELSE 0
           past == IF Q # {} THEN Min(Q) ELSE 0
<1>1. Len(found) = 2 /\ found[1] = Under(own) /\ found[2] = Under(digest) /\ Last(keys) = digest
  BY DEF Last
<1>2. Plan(f, r) =
        IF held # 0 THEN [ do |-> "update", card |-> OneOf(found[held]) ]
        ELSE Creation(f, Last(keys), IF past = 0 THEN 0 ELSE OneOf(found[past]))
  BY DEF Plan, SelectInSeq, Creation
<1>0. \A ids : ids # {} => OneOf(ids) \in ids
  OBVIOUS
<1> HIDE DEF found, Held, Past, OneOf
<1>3. held = IF Held(Under(own)) THEN 1 ELSE IF Held(Under(digest)) THEN 2 ELSE 0
  <2>1. H \subseteq {1, 2} /\ (1 \in H <=> Held(Under(own))) /\ (2 \in H <=> Held(Under(digest)))
    BY <1>1
  <2> QED BY <2>1, LeastIs
<1>4. past = IF Past(Under(own)) THEN 1 ELSE IF Past(Under(digest)) THEN 2 ELSE 0
  <2>1. Q \subseteq {1, 2} /\ (1 \in Q <=> Past(Under(own))) /\ (2 \in Q <=> Past(Under(digest)))
    BY <1>1
  <2> QED BY <2>1, LeastIs
<1> HIDE DEF held, past, keys
<1>5. ASSUME \E i \in Under(own) : ~Outlived(i, f)
      PROVE  \E i \in Under(own) : Plan(f, r) = [ do |-> "update", card |-> i ]
  <2>1. held = 1
    BY <1>3, <1>5 DEF Held
  <2>2. Plan(f, r) = [ do |-> "update", card |-> OneOf(Under(own)) ]
    BY <1>1, <1>2, <2>1
  <2>3. OneOf(Under(own)) \in Under(own)
    BY <1>5, <1>0
  <2> QED BY <2>2, <2>3
<1>6. ASSUME \A i \in Under(own) : Outlived(i, f), \E i \in Under(digest) : ~Outlived(i, f)
      PROVE  \E i \in Under(digest) : Plan(f, r) = [ do |-> "update", card |-> i ]
  <2>1. held = 2
    BY <1>3, <1>6 DEF Held
  <2>2. Plan(f, r) = [ do |-> "update", card |-> OneOf(Under(digest)) ]
    BY <1>1, <1>2, <2>1
  <2>3. OneOf(Under(digest)) \in Under(digest)
    BY <1>6, <1>0
  <2> QED BY <2>2, <2>3
<1>7. ASSUME \A i \in Under(own) \cup Under(digest) : Outlived(i, f)
      PROVE  \E s : /\ IF Under(own) # {} THEN s \in Under(own)
                         ELSE IF Under(digest) # {} THEN s \in Under(digest) ELSE s = 0
                    /\ Plan(f, r) = Creation(f, digest, s)
  <2>1. held = 0
    BY <1>3, <1>7 DEF Held
  <2>2. past = IF Under(own) # {} THEN 1 ELSE IF Under(digest) # {} THEN 2 ELSE 0
    BY <1>4, <1>7 DEF Past
  <2> DEFINE s == IF past = 0 THEN 0 ELSE OneOf(found[past])
  <2>3. Plan(f, r) = Creation(f, digest, s)
    BY <1>1, <1>2, <2>1
  <2>4. /\ Under(own) # {} => s \in Under(own)
        /\ Under(own) = {} /\ Under(digest) # {} => s \in Under(digest)
        /\ Under(own) = {} /\ Under(digest) = {} => s = 0
    BY <1>0, <1>1, <2>2
  <2> HIDE DEF s
  <2> QED BY <2>3, <2>4
<1> QED BY <1>5, <1>6, <1>7

-----------------------------------------------------------------------------
(* What a plan makes of the deck.                                          *)

KeysOf(f, r) == { DedupeKeys(f, r)[k] : k \in DOMAIN DedupeKeys(f, r) }

(* A plan that decide may make of a change, given the deck.                *)
Sensible(deck, f, r, plan) ==
  \/ \E i \in DOMAIN deck :
       /\ plan = [ do |-> "update", card |-> i ]
       /\ deck[i].retired # "orphaned" /\ deck[i].key \in KeysOf(f, r)
  \/ \E key \in KeysOf(f, r), s \in {0} \cup DOMAIN deck :
       /\ plan = Creation(f, key, s)
       /\ s # 0 => deck[s].retired # "orphaned"

LEMMA KeysAre ==
  ASSUME StormTypeOK, NEW f, NEW r \in Feeds
  PROVE  /\ r = "rolling" => DedupeKeys(f, r) = << Digest(r) >>
         /\ r = "own" /\ storming => DedupeKeys(f, r) = << Configured(f), Digest(r) >>
         /\ r = "own" /\ ~storming => DedupeKeys(f, r) = << Configured(f) >>
<1>1. CASE r = "rolling"
  BY <1>1 DEF DedupeKeys
<1>2. CASE r = "own" /\ storming
  BY <1>2 DEF DedupeKeys
<1>3. CASE r = "own" /\ ~storming
  BY <1>3 DEF DedupeKeys
<1> QED BY <1>1, <1>2, <1>3 DEF Feeds

LEMMA KeysOfAre ==
  ASSUME StormTypeOK, NEW f, NEW r \in Feeds, NEW key \in KeysOf(f, r)
  PROVE  \/ r = "own" /\ key = Configured(f)
         \/ (r = "own" => storming) /\ key = Digest(r)
<1>1. CASE r = "rolling"
  <2>1. DedupeKeys(f, r) = << Digest(r) >>
    BY <1>1, KeysAre
  <2> QED BY <1>1, <2>1 DEF KeysOf
<1>2. CASE r = "own" /\ storming
  <2>1. DedupeKeys(f, r) = << Configured(f), Digest(r) >>
    BY <1>2, KeysAre
  <2> QED BY <1>2, <2>1 DEF KeysOf
<1>3. CASE r = "own" /\ ~storming
  <2>1. DedupeKeys(f, r) = << Configured(f) >>
    BY <1>3, KeysAre
  <2> QED BY <1>3, <2>1 DEF KeysOf
<1> QED BY <1>1, <1>2, <1>3 DEF Feeds

LEMMA KeyIs ==
  ASSUME StormAssumption, StormTypeOK, NEW f \in Members, NEW r \in Feeds, NEW key \in KeysOf(f, r)
  PROVE  /\ key \in Key
         /\ key.scope = "alert" => key = PerAlert(f) /\ key.of = Identity(f)
         /\ key.scope = "digest" => /\ key = Digest(r) /\ (r = "own" => storming)
                                    /\ key.window \in 0..clock
<1>1. Identity(f) \in Members \cup {"merged"}
  BY DEF Identity
<1>2. PerAlert(f) \in Key /\ PerAlert(f).scope = "alert" /\ PerAlert(f).of = Identity(f)
  BY <1>1 DEF PerAlert, Key
<1>3. PerGroup \in Key /\ PerGroup.scope = "group"
  BY DEF PerGroup, Key
<1>4. clock - (clock % DigestWindow) \in 0..clock
  <2>1. clock \in Nat /\ DigestWindow \in Nat \ {0}
    BY DEF StormAssumption, StormTypeOK
  <2> QED BY <2>1, WindowBegins
<1>5. Digest(r) \in Key /\ Digest(r).scope = "digest" /\ Digest(r).window \in 0..clock
  BY <1>4 DEF Digest, Key, StormTypeOK, StormAssumption
<1>6. Configured(f) \in {PerAlert(f), PerGroup}
  BY DEF Configured
<1> QED BY <1>2, <1>3, <1>5, <1>6, KeysOfAre

LEMMA SiblingIs ==
  ASSUME StormTypeOK, NEW f \in Members, Siblings(f) # {}
  PROVE  LET g == CHOOSE g \in Siblings(f) : TRUE
         IN  g \in Siblings(f) /\ g \in Members /\ Identity(g) = Identity(f)
BY DEF Siblings, StormTypeOK

(* A card that is changed stays what it was but for state, alert and date. *)
LEMMA UpdatedFine ==
  ASSUME StormAssumption, StormTypeOK, storming => stormed, NEW f \in Members, NEW r \in Feeds,
         NEW row \in Notification, NEW i \in Nat, RowFine(row, i),
         row.retired # "orphaned", row.key \in KeysOf(f, r)
  PROVE  /\ Updated(row, f) \in Notification
         /\ RowFine(Updated(row, f), i)
         /\ Updated(row, f).key = row.key /\ Updated(row, f).retired = row.retired
         /\ Updated(row, f).route = row.route
<1> DEFINE new == Updated(row, f)
<1>1. /\ row.key \in Key
      /\ row.key.scope = "alert" => row.key = PerAlert(f) /\ row.key.of = Identity(f)
      /\ row.key.scope = "digest" => row.key.window \in 0..clock
  BY KeyIs
<1>2. row.state \in {"firing", "resolved"} /\ row.resolvedAt \in 0..StormTime
  BY DEF RowFine, Notification
<1>3. clock \in 0..StormTime /\ StormTime \in Nat
  BY DEF StormTypeOK, StormAssumption
<1>4. CASE f \in firing
  <2>1. new = [ row EXCEPT !.state = "firing", !.alert = f ]
    BY <1>4 DEF Updated
  <2>2. new \in Notification
    BY <2>1 DEF Notification
  <2>3. RowFine(new, i)
    BY <1>1, <1>2, <2>1 DEF RowFine, Notification
  <2> QED BY <2>1, <2>2, <2>3 DEF Notification
<1>5. CASE f \notin firing /\ row.key = PerAlert(f) /\ Siblings(f) # {}
  <2>1. PICK g \in Siblings(f) :
          new = [ row EXCEPT !.alert = IF @ \in Siblings(f) THEN @ ELSE g ]
    BY <1>5, SiblingIs DEF Updated
  <2>2. \A h \in Siblings(f) : h \in Members /\ Identity(h) = Identity(f)
    BY DEF Siblings, StormTypeOK
  <2>3. PICK h \in Siblings(f) : new = [ row EXCEPT !.alert = h ]
    BY <2>1 DEF Notification
  <2>4. new \in Notification
    BY <2>2, <2>3 DEF Notification
  <2>5. RowFine(new, i)
    BY <1>1, <1>2, <2>2, <2>3 DEF RowFine, Notification
  <2> QED BY <2>3, <2>4, <2>5 DEF Notification
<1>6. CASE f \notin firing /\ ~(row.key = PerAlert(f) /\ Siblings(f) # {})
  <2>1. PICK at \in {clock, row.resolvedAt} :
          /\ new = [ row EXCEPT !.alert = f, !.state = "resolved", !.resolvedAt = at ]
          /\ row.state = "firing" => at = clock
          /\ row.state = "resolved" => at = row.resolvedAt
    BY <1>2, <1>6 DEF Updated
  <2>2. at \in 0..StormTime
    BY <1>2, <1>3, <2>1
  <2>5. new \in Notification
    BY <2>1, <2>2 DEF Notification
  <2>3. row.key.scope = "digest" => at >= row.key.window
    BY <1>1, <1>2, <1>3, <2>1 DEF RowFine
  <2>4. RowFine(new, i)
    BY <1>1, <1>2, <2>1, <2>3 DEF RowFine, Notification
  <2> QED BY <2>1, <2>4, <2>5 DEF Notification
<1> QED BY <1>4, <1>5, <1>6

(* A card that is posted.                                                  *)
Posted(f, r, plan) ==
  [ route |-> r, key |-> plan.key, retired |-> "no", alert |-> f, state |-> "firing",
    resolvedAt |-> 0, supersedes |-> plan.supersedes ]

LEMMA RetiredFine ==
  ASSUME NEW deck, Fine(deck), NEW id \in {0} \cup DOMAIN deck, NEW key,
         id # 0 => deck[id].retired # "orphaned"
  PROVE  /\ Fine(Retire(deck, id, key)) /\ Len(Retire(deck, id, key)) = Len(deck)
         /\ \A i \in DOMAIN deck :
              /\ Retire(deck, id, key)[i].key = deck[i].key
              /\ Retire(deck, id, key)[i].retired = "orphaned" <=> deck[i].retired = "orphaned"
<1>1. DOMAIN deck = 1..Len(deck) /\ Len(deck) \in Nat
  BY LenProperties DEF Fine
<1>2. CASE id = 0 \/ deck[id].key # key
  BY <1>2 DEF Retire
<1>3. CASE id # 0 /\ deck[id].key = key
  <2> DEFINE row == [ deck[id] EXCEPT !.retired = "superseded" ]
  <2>1. id \in 1..Len(deck) /\ deck[id] \in Notification /\ RowFine(deck[id], id)
    BY <1>1, <1>3, ElementOfSeq DEF Fine
  <2>2. row \in Notification /\ row.key = deck[id].key /\ row.retired # "orphaned"
    BY <2>1 DEF Notification
  <2>3. RowFine(row, id)
    BY <2>1, <1>3 DEF RowFine, Notification
  <2>4. Retire(deck, id, key) = [ deck EXCEPT ![id] = row ]
    BY <1>3 DEF Retire
  <2> HIDE DEF row
  <2>5. /\ Retire(deck, id, key) \in Seq(Notification)
        /\ Len(Retire(deck, id, key)) = Len(deck)
        /\ \A i \in 1..Len(deck) : Retire(deck, id, key)[i] = IF i = id THEN row ELSE deck[i]
    BY <2>1, <2>2, <2>4, ExceptSeq DEF Fine
  <2>6. DOMAIN Retire(deck, id, key) = 1..Len(deck)
    BY <2>5, LenProperties
  <2> QED BY <1>1, <1>3, <2>1, <2>2, <2>3, <2>5, <2>6 DEF Fine
<1> QED BY <1>2, <1>3

LEMMA CarriedFine ==
  ASSUME StormAssumption, StormTypeOK, storming => stormed, NEW f \in Members, NEW r \in Feeds,
         NEW deck, Fine(deck), NEW plan, Sensible(deck, f, r, plan)
  PROVE  /\ Fine(Carried(deck, f, r, plan))
         /\ DOMAIN deck \subseteq DOMAIN Carried(deck, f, r, plan)
         /\ \A i \in DOMAIN deck :
              /\ Carried(deck, f, r, plan)[i].key = deck[i].key
              /\ Carried(deck, f, r, plan)[i].retired = "orphaned" <=> deck[i].retired = "orphaned"
<1>1. DOMAIN deck = 1..Len(deck) /\ Len(deck) \in Nat
  BY LenProperties DEF Fine
<1> DEFINE new == Carried(deck, f, r, plan)
<1>2. CASE plan.do = "update"
  <2>1. PICK c \in DOMAIN deck :
          /\ plan = [ do |-> "update", card |-> c ]
          /\ deck[c].retired # "orphaned" /\ deck[c].key \in KeysOf(f, r)
    BY <1>2 DEF Sensible, Creation
  <2>2. c \in 1..Len(deck) /\ deck[c] \in Notification /\ RowFine(deck[c], c)
    BY <1>1, ElementOfSeq DEF Fine
  <2> DEFINE row == Updated(deck[c], f)
  <2>3. /\ row \in Notification /\ RowFine(row, c)
        /\ row.key = deck[c].key /\ row.retired = deck[c].retired
    <3>1. c \in Nat
      BY <1>1, <2>2
    <3> QED BY <2>1, <2>2, <3>1, UpdatedFine
  <2>4. new = [ deck EXCEPT ![c] = row ]
    BY <2>1 DEF Carried
  <2> HIDE DEF row, new
  <2>5. /\ new \in Seq(Notification) /\ Len(new) = Len(deck)
        /\ \A i \in 1..Len(deck) : new[i] = IF i = c THEN row ELSE deck[i]
    BY <2>2, <2>3, <2>4, ExceptSeq DEF Fine
  <2>6. DOMAIN new = 1..Len(deck)
    BY <2>5, LenProperties
  <2>7. Fine(new)
    BY <1>1, <2>3, <2>5, <2>6 DEF Fine
  <2> QED BY <1>1, <2>3, <2>5, <2>6, <2>7 DEF new
<1>3. CASE plan.do = "create"
  <2>1. PICK key \in KeysOf(f, r), s \in {0} \cup DOMAIN deck :
          /\ plan = Creation(f, key, s)
          /\ s # 0 => deck[s].retired # "orphaned"
    BY <1>3 DEF Sensible, Creation
  <2>2. plan.key = key /\ plan.supersedes = s
    BY <2>1 DEF Creation
  <2> DEFINE old == Retire(deck, s, key)
             row == Posted(f, r, plan)
  <2>3. /\ Fine(old) /\ Len(old) = Len(deck)
        /\ \A i \in DOMAIN deck : /\ old[i].key = deck[i].key
                                  /\ old[i].retired = "orphaned" <=> deck[i].retired = "orphaned"
    <3>1. s \in {0} \cup DOMAIN deck /\ (s # 0 => deck[s].retired # "orphaned")
      BY <2>1
    <3> QED BY <3>1, RetiredFine
  <2>4. new = Append(old, row)
    BY <1>3, <2>2 DEF Carried, Posted
  <2>5. s \in Nat /\ s < Len(deck) + 1
    BY <1>1
  <2>6. row \in Notification
    <3>1. 0 \in 0..StormTime
      BY DEF StormAssumption
    <3> QED BY <2>2, <2>5, <3>1, KeyIs DEF Posted, Notification
  <2>7. RowFine(row, Len(deck) + 1)
    <3>1. row.key = key /\ row.supersedes = s /\ row.state = "firing" /\ row.retired = "no"
          /\ row.alert = f /\ row.route = r
      BY <2>2 DEF Posted
    <3> HIDE DEF row
    <3> QED BY <2>5, <3>1, KeyIs DEF RowFine
  <2> HIDE DEF old, row, new
  <2>8. /\ new \in Seq(Notification) /\ Len(new) = Len(deck) + 1
        /\ \A i \in 1..Len(deck) : new[i] = old[i]
        /\ new[Len(deck) + 1] = row
    <3>1. old \in Seq(Notification) /\ Len(old) = Len(deck)
      BY <2>3 DEF Fine
    <3>2. /\ Append(old, row) \in Seq(Notification) /\ Len(Append(old, row)) = Len(old) + 1
          /\ \A i \in 1..Len(old) : Append(old, row)[i] = old[i]
          /\ Append(old, row)[Len(old) + 1] = row
      BY ONLY <3>1, <2>6, AppendProperties
    <3> QED BY <2>4, <3>1, <3>2
  <2>9. DOMAIN new = 1..(Len(deck) + 1) /\ DOMAIN old = 1..Len(deck)
    BY <2>3, <2>8, LenProperties DEF Fine
  <2>10. Fine(new)
    <3> SUFFICES ASSUME NEW i \in DOMAIN new
                 PROVE  RowFine(new[i], i)
      BY <2>8 DEF Fine
    <3>1. CASE i = Len(deck) + 1
      BY <2>7, <2>8, <3>1
    <3>2. CASE i \in 1..Len(deck)
      BY <2>3, <2>8, <2>9, <3>2 DEF Fine
    <3> QED BY <1>1, <2>9, <3>1, <3>2
  <2> QED BY <1>1, <2>3, <2>8, <2>9, <2>10 DEF new
<1>4. CASE plan.do = "nothing"
  BY <1>4 DEF Carried
<1>5. plan.do \in {"update", "create", "nothing"}
  BY DEF Sensible, Creation
<1> QED BY <1>2, <1>3, <1>4, <1>5

LEMMA PlanIsSensible ==
  ASSUME StormTypeOK, Fine(cards), NEW f \in Members, NEW r \in Feeds
  PROVE  Sensible(cards, f, r, Plan(f, r))
<1>1. DOMAIN cards = 1..Len(cards) /\ Len(cards) \in Nat
  BY LenProperties DEF Fine
<1>2. ASSUME NEW key \in KeysOf(f, r), NEW i \in Under(key)
      PROVE  i \in DOMAIN cards /\ cards[i].retired # "orphaned" /\ cards[i].key \in KeysOf(f, r)
  BY <1>2 DEF Under
<1>3. ASSUME NEW key, DedupeKeys(f, r) = << key >>
      PROVE  Sensible(cards, f, r, Plan(f, r))
  <2>1. key \in KeysOf(f, r)
    BY <1>3 DEF KeysOf
  <2>2. CASE \E i \in Under(key) : ~Outlived(i, f)
    <3>1. PICK i \in Under(key) : Plan(f, r) = [ do |-> "update", card |-> i ]
      BY <1>3, <2>2, PlanOfOne
    <3> QED BY <1>2, <2>1, <3>1 DEF Sensible
  <2>3. CASE \A i \in Under(key) : Outlived(i, f)
    <3>1. PICK s : /\ IF Under(key) = {} THEN s = 0 ELSE s \in Under(key)
                   /\ Plan(f, r) = Creation(f, key, s)
      BY <1>3, <2>3, PlanOfOne
    <3>2. s \in {0} \cup DOMAIN cards /\ (s # 0 => cards[s].retired # "orphaned")
      BY <1>2, <2>1, <3>1
    <3> QED BY <2>1, <3>1, <3>2 DEF Sensible
  <2> QED BY <2>2, <2>3
<1>4. ASSUME NEW own, NEW digest, DedupeKeys(f, r) = << own, digest >>
      PROVE  Sensible(cards, f, r, Plan(f, r))
  <2>1. own \in KeysOf(f, r) /\ digest \in KeysOf(f, r)
    <3>1. DOMAIN DedupeKeys(f, r) = {1, 2}
      BY <1>4
    <3> QED BY <1>4, <3>1 DEF KeysOf
  <2>2. CASE \E i \in Under(own) \cup Under(digest) : ~Outlived(i, f)
    <3>1. PICK i \in Under(own) \cup Under(digest) : Plan(f, r) = [ do |-> "update", card |-> i ]
      BY <1>4, <2>2, PlanOfTwo
    <3> QED BY <1>2, <2>1, <3>1 DEF Sensible
  <2>3. CASE \A i \in Under(own) \cup Under(digest) : Outlived(i, f)
    <3>1. PICK s : /\ s \in {0} \cup Under(own) \cup Under(digest)
                   /\ Plan(f, r) = Creation(f, digest, s)
      BY <1>4, <2>3, PlanOfTwo
    <3>2. s \in {0} \cup DOMAIN cards /\ (s # 0 => cards[s].retired # "orphaned")
      BY <1>2, <2>1, <3>1
    <3> QED BY <2>1, <3>1, <3>2 DEF Sensible
  <2> QED BY <2>2, <2>3
<1> QED BY <1>3, <1>4, KeysAre DEF Feeds, StormTypeOK

LEMMA WrittenFine ==
  ASSUME StormAssumption, IInv, NEW f \in Members
  PROVE  Fine(Written(f))
<1> DEFINE deck == Carried(cards, f, "own", Plan(f, "own"))
<1>1. "own" \in Feeds /\ "rolling" \in Feeds
  BY DEF Feeds
<1>2. /\ Fine(deck) /\ DOMAIN cards \subseteq DOMAIN deck
      /\ \A i \in DOMAIN cards :
           /\ deck[i].key = cards[i].key
           /\ deck[i].retired = "orphaned" <=> cards[i].retired = "orphaned"
  BY <1>1, PlanIsSensible, CarriedFine DEF IInv
<1>3. Sensible(cards, f, "rolling", Plan(f, "rolling"))
  BY <1>1, PlanIsSensible DEF IInv
<1> HIDE DEF deck
<1>4. Sensible(deck, f, "rolling", Plan(f, "rolling"))
  BY <1>2, <1>3 DEF Sensible
<1>5. Fine(Carried(deck, f, "rolling", Plan(f, "rolling")))
  BY <1>1, <1>2, <1>4, CarriedFine DEF IInv
<1> QED BY <1>5 DEF Written, deck

-----------------------------------------------------------------------------
(* The counter.                                                            *)

LEMMA CapIsANumber == StormAssumption => Cap \in Nat
<1> SUFFICES ASSUME StormAssumption
             PROVE  Cap \in Nat
  OBVIOUS
<1>1. Threshold \in Nat /\ ForumThreshold \in Nat /\ Retained \in Nat
  BY DEF StormAssumption
<1>2. Retained * Threshold \in Nat /\ Retained * ForumThreshold \in Nat
  BY <1>1
<1> QED BY <1>1, <1>2 DEF Cap

LEMMA ObservedIsKept ==
  ASSUME StormAssumption, StormTypeOK, NEW n \in Nat
  PROVE  Observe(seen, n) \in Seq(0..clock) /\ Len(Observe(seen, n)) <= Cap
<1> DEFINE more == [ i \in 1..n |-> clock ]
           all  == seen \o more
           from == (IF Len(all) > Cap THEN Len(all) - Cap ELSE 0) + 1
<1>1. Cap \in Nat
  BY CapIsANumber
<1>2. clock \in 0..clock
  BY DEF StormTypeOK, StormAssumption
<1>3. more \in Seq(0..clock)
  BY <1>2
<1>4. all \in Seq(0..clock) /\ Len(all) \in Nat
  BY <1>3, ConcatProperties, LenProperties DEF StormTypeOK
<1> HIDE DEF all
<1>5. from \in Int /\ from >= 1 /\ Len(all) \in Int
  BY <1>1, <1>4
<1>6. \A i \in from..Len(all) : all[i] \in 0..clock
  <2> SUFFICES ASSUME NEW i \in from..Len(all)
               PROVE  all[i] \in 0..clock
    OBVIOUS
  <2>1. i \in 1..Len(all)
    BY <1>4, <1>5
  <2> QED BY <1>4, <2>1, ElementOfSeq
<1>7. Len(all) - from + 1 <= Cap
  BY <1>1, <1>4
<1>8. Observe(seen, n) = SubSeq(all, from, Len(all))
  BY DEF Observe, all
<1> HIDE DEF from
<1>9. /\ SubSeq(all, from, Len(all)) \in Seq(0..clock)
      /\ Len(SubSeq(all, from, Len(all))) = IF from <= Len(all) THEN Len(all) - from + 1 ELSE 0
  BY <1>5, <1>6, SubSeqProperties
<1> QED BY <1>1, <1>7, <1>8, <1>9

LEMMA SnapshotIsKept ==
  ASSUME NEW s \in Seq(0..clock), Len(s) <= Cap, clock \in Nat, Cap \in Nat
  PROVE  Snapshot(s) \in Seq(0..clock) /\ Len(Snapshot(s)) <= Cap
<1> DEFINE I == { i \in 1..Len(s) : s[i] >= clock - StormWindow }
           first == IF I # {} THEN Min(I) ELSE 0
<1>1. Snapshot(s) = IF first = 0 THEN <<>> ELSE SubSeq(s, first, Len(s))
  BY DEF Snapshot, SelectInSeq
<1>2. Len(s) \in Nat
  BY LenProperties
<1>3. first \in 0..Len(s)
  <2>1. I \in SUBSET Nat /\ I \subseteq 1..Len(s)
    BY <1>2
  <2> HIDE DEF I
  <2>2. I # {} => Min(I) \in I
    BY <2>1, LeastIsThere
  <2>3. CASE I = {}
    BY <1>2, <2>3
  <2>4. CASE I # {}
    <3>1. first = Min(I) /\ Min(I) \in 1..Len(s)
      BY <2>1, <2>2, <2>4
    <3> QED BY <1>2, <3>1
  <2> QED BY <2>3, <2>4
<1> HIDE DEF first
<1>4. CASE first = 0
  BY <1>1, <1>4, EmptySeq
<1>5. CASE first # 0
  <2>1. first \in Int /\ Len(s) \in Int /\ first >= 1 /\ first <= Len(s)
    BY <1>2, <1>3, <1>5
  <2>2. \A i \in first..Len(s) : s[i] \in 0..clock
    BY <2>1, ElementOfSeq
  <2>3. /\ SubSeq(s, first, Len(s)) \in Seq(0..clock)
        /\ Len(SubSeq(s, first, Len(s))) = Len(s) - first + 1
    BY <2>1, <2>2, SubSeqProperties
  <2> QED BY <1>1, <1>5, <2>1, <2>3
<1> QED BY <1>4, <1>5

-----------------------------------------------------------------------------
(* The invariant.                                                          *)

LEMMA Initially == StormAssumption /\ StormInit => IInv
<1> SUFFICES ASSUME StormAssumption, StormInit
             PROVE  IInv
  OBVIOUS
<1>1. cards = <<>> /\ seen = <<>> /\ clock = 0
  BY DEF StormInit
<1>2. cards \in Seq(Notification) /\ seen \in Seq(0..clock) /\ Len(seen) = 0 /\ DOMAIN cards = {}
  BY <1>1, EmptySeq
<1>3. Cap \in Nat
  BY CapIsANumber
<1>4. route \in [ strategy : Strategies, forum : BOOLEAN ] /\ merged \in BOOLEAN
  BY DEF StormInit, StormAssumption
<1>5. StormTypeOK
  <2>1. clock \in 0..StormTime
    BY <1>1 DEF StormAssumption
  <2>2. Keyed(cards) /\ \A i \in DOMAIN cards : FALSE
    BY <1>2 DEF Keyed
  <2>3. /\ firing = {} /\ grouped = {} /\ todo = {} /\ folded = {}
        /\ storming = FALSE /\ stormed = FALSE /\ repolicied = FALSE
    BY DEF StormInit
  <2>4. Len(seen) <= Cap
    BY <1>2, <1>3
  <2> QED BY <1>2, <1>4, <2>1, <2>2, <2>3, <2>4 DEF StormTypeOK
<1>6. Fine(cards)
  BY <1>2 DEF Fine
<1> QED BY <1>5, <1>6 DEF IInv, StormInit

(* What is true of each card stays so if no rule is dropped by a step.     *)
LEMMA FineStands ==
  ASSUME Fine(cards), UNCHANGED cards,
         \/ UNCHANGED merged
         \/ repolicied',
         repolicied => repolicied', stormed => stormed'
  PROVE  Fine(cards)'
<1>1. \A x : Identity(x)' = Identity(x) \/ repolicied'
  BY DEF Identity
<1> QED BY <1>1 DEF Fine, RowFine

LEMMA ArriveFine ==
  ASSUME StormAssumption, IInv, NEW batch \in SUBSET Members, NEW webhook \in BOOLEAN,
         Arrive(batch, webhook)
  PROVE  IInv'
<1>1. Cardinality(batch) \in Nat
  BY FS_Subset, FS_CardinalityType DEF StormAssumption
<1>2. seen' = Snapshot(Observe(seen, Cardinality(batch)))
  BY DEF Arrive
<1>3. clock \in Nat /\ clock' = clock
  BY DEF IInv, StormTypeOK, StormAssumption, Arrive
<1>4. seen' \in Seq(0..clock) /\ Len(seen') <= Cap
  BY <1>1, <1>2, <1>3, ObservedIsKept, SnapshotIsKept, CapIsANumber DEF IInv
<1>5. storming' \in BOOLEAN /\ stormed' \in BOOLEAN /\ (storming' => stormed') /\ (stormed => stormed')
  BY DEF Arrive, IInv, StormTypeOK
<1>6. firing' \subseteq Members /\ grouped' \subseteq Members /\ todo' \subseteq Members
  BY DEF Arrive, IInv, StormTypeOK
<1>7. UNCHANGED <<route, merged, clock, cards, upsets, folded, repolicied>>
  BY DEF Arrive
<1>8. StormTypeOK'
  BY <1>4, <1>5, <1>6, <1>7 DEF IInv, StormTypeOK
<1>9. Fine(cards)'
  BY <1>5, <1>7, FineStands DEF IInv
<1> QED BY <1>5, <1>8, <1>9 DEF IInv

LEMMA DecideFine ==
  ASSUME StormAssumption, IInv, NEW f \in Members, Decide(f)
  PROVE  IInv'
<1>1. cards' \in {cards, Written(f)} /\ Fine(cards')
  BY WrittenFine DEF Decide, IInv
<1>2. UNCHANGED <<route, merged, clock, firing, grouped, seen, storming, stormed, repolicied>>
  BY DEF Decide
<1>3. Keyed(cards')
  BY DEF Decide, IInv, StormTypeOK
<1>4. todo' \subseteq Members /\ folded' \subseteq Members
  BY DEF Decide, IInv, StormTypeOK
<1>5. Fine(cards)'
  BY <1>1, <1>2 DEF Fine, RowFine, Identity
<1>6. StormTypeOK'
  BY <1>1, <1>2, <1>3, <1>4 DEF IInv, StormTypeOK, Fine, RowFine
<1> QED BY <1>2, <1>5, <1>6 DEF IInv

LEMMA OrphanFine ==
  ASSUME StormAssumption, IInv, NEW i \in DOMAIN cards, Orphan(i)
  PROVE  IInv'
<1> DEFINE row == [ cards[i] EXCEPT !.retired = "orphaned", !.state = "orphaned" ]
<1>1. DOMAIN cards = 1..Len(cards) /\ Len(cards) \in Nat
  BY LenProperties DEF IInv, StormTypeOK
<1>2. cards[i] \in Notification /\ RowFine(cards[i], i)
  BY <1>1, ElementOfSeq DEF IInv, StormTypeOK, Fine
<1>3. row \in Notification /\ row.retired = "orphaned" /\ row.key = cards[i].key
  BY <1>2 DEF Notification
<1>4. RowFine(row, i)
  BY <1>2 DEF RowFine, Notification
<1>5. cards' = [ cards EXCEPT ![i] = row ]
  <2>1. cards' = [ cards EXCEPT ![i] = [ [ @ EXCEPT !.retired = "orphaned" ] EXCEPT !.state = "orphaned" ] ]
    BY <1>2 DEF Orphan, Notification
  <2> QED BY <2>1
<1> HIDE DEF row
<1>6. /\ cards' \in Seq(Notification) /\ Len(cards') = Len(cards)
      /\ \A j \in 1..Len(cards) : cards'[j] = IF j = i THEN row ELSE cards[j]
  BY <1>1, <1>3, <1>5, ExceptSeq DEF IInv, StormTypeOK
<1>7. DOMAIN cards' = 1..Len(cards)
  BY <1>6, LenProperties
<1>8. \A j \in DOMAIN cards' : RowFine(cards'[j], j)
  BY <1>1, <1>4, <1>6, <1>7 DEF IInv, Fine
<1>9. UNCHANGED <<route, merged, clock, firing, grouped, seen, storming, todo, folded, stormed, repolicied>>
  BY DEF Orphan
<1>10. Keyed(cards')
  BY <1>1, <1>3, <1>6, <1>7 DEF Keyed, IInv, StormTypeOK
<1>11. Fine(cards)'
  BY <1>6, <1>8, <1>9 DEF Fine, RowFine, Identity
<1>12. StormTypeOK'
  BY <1>6, <1>8, <1>9, <1>10 DEF IInv, StormTypeOK, RowFine
<1> QED BY <1>9, <1>11, <1>12 DEF IInv

LEMMA Inductive == StormAssumption /\ IInv /\ [StormNext]_storm => IInv'
<1> SUFFICES ASSUME StormAssumption, IInv, [StormNext]_storm
             PROVE  IInv'
  OBVIOUS
<1>1. CASE \E batch \in SUBSET Members \ {{}}, webhook \in BOOLEAN : Arrive(batch, webhook)
  BY <1>1, ArriveFine
<1>2. CASE \E f \in Members : Decide(f)
  BY <1>2, DecideFine
<1>3. CASE \E i \in DOMAIN cards : Orphan(i)
  BY <1>3, OrphanFine
<1>4. CASE Elapse
  <2>1. UNCHANGED <<route, merged, firing, grouped, seen, storming, todo, cards, folded, stormed, repolicied>>
    BY <1>4 DEF Elapse
  <2>2. clock' \in 0..StormTime /\ clock \in 0..clock'
    BY <1>4 DEF Elapse, IInv, StormTypeOK, StormAssumption
  <2>3. seen' \in Seq(0..clock')
    <3>1. 0..clock \subseteq 0..clock'
      BY <2>2
    <3> QED BY <2>1, <3>1, SeqMonotonic DEF IInv, StormTypeOK
  <2>4. Fine(cards)'
    BY <2>1, FineStands DEF IInv
  <2> QED BY <2>1, <2>2, <2>3, <2>4 DEF IInv, StormTypeOK
<1>5. CASE Repolicy
  <2>1. /\ UNCHANGED <<route, clock, firing, grouped, todo, cards, folded, stormed>>
        /\ merged' \in BOOLEAN /\ repolicied' = TRUE /\ seen' = <<>> /\ storming' = FALSE
    BY <1>5 DEF Repolicy, IInv, StormTypeOK
  <2>2. seen' \in Seq(0..clock') /\ Len(seen') <= Cap
    BY <2>1, EmptySeq, CapIsANumber
  <2>3. Fine(cards)'
    BY <2>1, FineStands DEF IInv
  <2> QED BY <2>1, <2>2, <2>3 DEF IInv, StormTypeOK
<1>6. CASE UNCHANGED storm
  <2>1. Fine(cards)'
    BY <1>6, FineStands DEF IInv, storm
  <2> QED BY <1>6, <2>1 DEF IInv, StormTypeOK, storm
<1> QED BY <1>1, <1>2, <1>3, <1>4, <1>5, <1>6 DEF StormNext

LEMMA Invariant == StormSpec => []IInv
<1>1. StormInit => IInv
  BY StormAssumption, Initially
<1>2. IInv /\ [StormNext]_storm => IInv'
  BY StormAssumption, Inductive
<1> QED BY <1>1, <1>2, PTL DEF StormSpec

(* The type invariant: one card of a channel under each key, for any       *)
(* alerts, and a bounded count of arrivals, for any thresholds.            *)
THEOREM StormTypeCorrect == StormSpec => []StormTypeOK
<1>1. IInv => StormTypeOK
  BY DEF IInv
<1> QED BY <1>1, Invariant, PTL

LEMMA Explained == StormAssumption /\ IInv => SeparationIsExplained
<1> SUFFICES ASSUME StormAssumption, IInv,
                    NEW i \in DOMAIN cards, NEW j \in DOMAIN cards, i # j
             PROVE  /\ Explain(i, j) # "unexplained"
                    /\ Explain(i, j) = "keyed_before_policy" => repolicied
                    /\ StrategyOf(cards[i]) = "storm_digest" => stormed
  BY DEF SeparationIsExplained
<1> DEFINE a == cards[i]
           b == cards[j]
<1>1. a \in Notification /\ b \in Notification /\ RowFine(a, i) /\ RowFine(b, j)
  BY LenProperties, ElementOfSeq DEF IInv, StormTypeOK, Fine
<1>2. a.key \in Key /\ b.key \in Key
  BY <1>1 DEF Notification
<1>3. a.retired = "no" /\ b.retired = "no" => a.key # b.key
  BY DEF IInv, StormTypeOK, Keyed
<1>4. StrategyOf(a) = "storm_digest" => stormed
  BY <1>1, <1>2 DEF StrategyOf, RowFine, Key
<1> SUFFICES ASSUME a.retired = "no", b.retired = "no", Explain(i, j) = SeparateScopes(a, b)
             PROVE  /\ Explain(i, j) # "unexplained"
                    /\ Explain(i, j) = "keyed_before_policy" => repolicied
  BY <1>4 DEF Explain
<1> HIDE DEF a, b
<1>5. CASE a.key.scope = "alert" /\ b.key.scope = "alert"
  <2>1. ~repolicied => a.key.of = Identity(a.alert) /\ b.key.of = Identity(b.alert)
    BY <1>1, <1>5 DEF RowFine
  <2>2. a.key.of # b.key.of
    BY <1>2, <1>3, <1>5 DEF Key
  <2>3. SeparateScopes(a, b) = IF Identity(a.alert) = Identity(b.alert)
                                 THEN "keyed_before_policy" ELSE "different_identities"
    BY <1>5 DEF SeparateScopes
  <2> QED BY <2>1, <2>2, <2>3
<1>6. CASE a.key.scope = "digest" /\ b.key.scope = "digest"
  <2>1. a.key.of # b.key.of \/ a.key.window # b.key.window
    BY <1>2, <1>3, <1>6 DEF Key
  <2>2. SeparateScopes(a, b) \in {"different_digest_routes", "different_digest_windows"}
    BY <1>6, <2>1 DEF SeparateScopes
  <2> QED BY <2>2
<1>7. CASE ~(a.key.scope = "alert" /\ b.key.scope = "alert") /\ ~(a.key.scope = "digest" /\ b.key.scope = "digest")
  <2>1. ~(a.key.scope = "group" /\ b.key.scope = "group")
    BY <1>2, <1>3 DEF Key
  <2>2. a.key.scope # b.key.scope
    BY <1>2, <1>7, <2>1 DEF Key
  <2>3. StrategyOf(a) # StrategyOf(b)
    BY <1>2, <2>2 DEF StrategyOf, Key
  <2>4. SeparateScopes(a, b) = "different_strategies"
    BY <1>7, <2>3 DEF SeparateScopes
  <2> QED BY <2>4
<1> QED BY <1>5, <1>6, <1>7

(* /debug has a reason for every two cards, blames the policy only after   *)
(* it was changed, and a storm only on a route that had one.               *)
THEOREM AlwaysExplained == StormSpec => []SeparationIsExplained
<1>1. IInv => SeparationIsExplained
  BY StormAssumption, Explained
<1> QED BY <1>1, Invariant, PTL

-----------------------------------------------------------------------------
(* What follows where the regroup window outlasts a digest window, as it   *)
(* does with the defaults.  Without it a digest card is outlived while its *)
(* window lasts, and a card may be planned under a key that is held        *)
(* (NobodyWasFirst is violated there, see viol_conflict.cfg).              *)
LongRegroup == Regroup >= DigestWindow - 1

LEMMA DigestIsNotOutlived ==
  ASSUME StormAssumption, LongRegroup, IInv, NEW f, NEW r \in Feeds, NEW i \in Under(Digest(r))
  PROVE  ~Outlived(i, f)
<1> SUFFICES ASSUME cards[i].state = "resolved"
             PROVE  clock - cards[i].resolvedAt <= Regroup
  <2>1. i \in DOMAIN cards /\ cards[i] \in Notification
    BY LenProperties, ElementOfSeq DEF Under, IInv, StormTypeOK
  <2>2. cards[i].resolvedAt \in Int /\ clock \in Int /\ Regroup \in Int
    BY <2>1 DEF Notification, IInv, StormTypeOK, StormAssumption
  <2> QED BY <2>2 DEF Outlived
<1>1. i \in DOMAIN cards /\ cards[i] \in Notification /\ RowFine(cards[i], i) /\ cards[i].key = Digest(r)
  BY LenProperties, ElementOfSeq DEF Under, IInv, StormTypeOK, Fine
<1>2. cards[i].key.scope = "digest" /\ cards[i].key.window = clock - (clock % DigestWindow)
  BY <1>1 DEF Digest
<1>3. cards[i].resolvedAt >= clock - (clock % DigestWindow)
  BY <1>1, <1>2 DEF RowFine
<1>4. clock \in Nat /\ DigestWindow \in Nat \ {0} /\ Regroup \in Nat /\ cards[i].resolvedAt \in Nat
  BY <1>1 DEF IInv, StormTypeOK, StormAssumption, Notification
<1>5. clock % DigestWindow \in 0..(DigestWindow - 1)
  BY <1>4, WindowBegins
<1> HIDE DEF RowFine
<1>6. clock - cards[i].resolvedAt <= clock % DigestWindow
  BY <1>3, <1>4, <1>5
<1> QED BY <1>4, <1>5, <1>6 DEF LongRegroup

(* A card is planned under a key that is free, or that it is given up for. *)
LEMMA NewKeyIsFree ==
  ASSUME StormAssumption, LongRegroup, IInv, NEW f \in Members, NEW r \in Feeds,
         Plan(f, r).do # "update",
         NEW i \in Under(Plan(f, r).key)
  PROVE  i = Plan(f, r).supersedes
<1>1. \A key, c, d : c \in Under(key) /\ d \in Under(key) => c = d
  BY DEF Under, IInv, StormTypeOK, Keyed
<1>2. ASSUME NEW key, DedupeKeys(f, r) = << key >>
      PROVE  i = Plan(f, r).supersedes
  <2>1. \A c \in Under(key) : Outlived(c, f)
    BY <1>2, PlanOfOne
  <2>2. PICK s : /\ IF Under(key) = {} THEN s = 0 ELSE s \in Under(key)
                 /\ Plan(f, r) = Creation(f, key, s)
    BY <1>2, <2>1, PlanOfOne
  <2>3. Plan(f, r).key = key /\ Plan(f, r).supersedes = s
    BY <2>2 DEF Creation
  <2> QED BY <1>1, <2>2, <2>3
<1>3. ASSUME NEW own, DedupeKeys(f, r) = << own, Digest(r) >>
      PROVE  i = Plan(f, r).supersedes
  <2>1. \A c \in Under(own) \cup Under(Digest(r)) : Outlived(c, f)
    BY <1>3, PlanOfTwo
  <2>2. Under(Digest(r)) = {}
    BY <2>1, DigestIsNotOutlived
  <2>3. PICK s : Plan(f, r) = Creation(f, Digest(r), s)
    BY <1>3, <2>1, PlanOfTwo
  <2>4. Plan(f, r).key = Digest(r)
    BY <2>3 DEF Creation
  <2> QED BY <2>2, <2>4
<1> QED BY <1>2, <1>3, KeysAre DEF Feeds, IInv, StormTypeOK

(* Every row after a plan was carried out, by what became of it.           *)
LEMMA CarriedIs ==
  ASSUME StormAssumption, StormTypeOK, storming => stormed, NEW f \in Members, NEW r \in Feeds,
         NEW deck, Fine(deck), NEW plan, Sensible(deck, f, r, plan),
         NEW i \in DOMAIN Carried(deck, f, r, plan)
  PROVE  LET new == Carried(deck, f, r, plan)
         IN  \/ /\ i \in DOMAIN deck /\ new[i] = deck[i]
                /\ plan.do = "update" => plan.card # i
                /\ plan.do = "create" => plan.supersedes # i \/ deck[i].key # plan.key
             \/ /\ i \in DOMAIN deck /\ new[i] = Updated(deck[i], f)
                /\ plan.do = "update" /\ plan.card = i /\ deck[i].key \in KeysOf(f, r)
             \/ /\ i \in DOMAIN deck /\ new[i] = [ deck[i] EXCEPT !.retired = "superseded" ]
                /\ plan.do = "create" /\ plan.supersedes = i /\ deck[i].key = plan.key
             \/ /\ i = Len(deck) + 1 /\ i \notin DOMAIN deck /\ new[i] = Posted(f, r, plan)
                /\ plan.do = "create" /\ f \in firing /\ plan.key \in KeysOf(f, r)
<1>1. DOMAIN deck = 1..Len(deck) /\ Len(deck) \in Nat
  BY LenProperties DEF Fine
<1> DEFINE new == Carried(deck, f, r, plan)
<1>2. CASE plan.do = "update"
  <2>1. PICK c \in DOMAIN deck : /\ plan = [ do |-> "update", card |-> c ]
                                 /\ deck[c].key \in KeysOf(f, r)
    BY <1>2 DEF Sensible, Creation
  <2>2. new = [ deck EXCEPT ![c] = Updated(deck[c], f) ]
    BY <2>1 DEF Carried
  <2> HIDE DEF new
  <2>3. i \in DOMAIN deck /\ new[i] = IF i = c THEN Updated(deck[i], f) ELSE deck[i]
    <3>1. DOMAIN new = DOMAIN deck /\ i \in DOMAIN new
      BY <2>2 DEF new
    <3> QED BY <2>1, <2>2, <3>1
  <2> QED BY <1>2, <2>1, <2>3 DEF new
<1>3. CASE plan.do = "create"
  <2>1. PICK key \in KeysOf(f, r), s \in {0} \cup DOMAIN deck :
          /\ plan = Creation(f, key, s)
          /\ s # 0 => deck[s].retired # "orphaned"
    BY <1>3 DEF Sensible, Creation
  <2>2. plan.key = key /\ plan.supersedes = s /\ f \in firing
    BY <1>3, <2>1 DEF Creation
  <2> DEFINE old == Retire(deck, s, key)
             row == Posted(f, r, plan)
  <2>3. Fine(old) /\ Len(old) = Len(deck)
    <3>1. s \in {0} \cup DOMAIN deck /\ (s # 0 => deck[s].retired # "orphaned")
      BY <2>1
    <3> QED BY <3>1, RetiredFine
  <2>4. new = Append(old, row)
    BY <1>3, <2>2 DEF Carried, Posted
  <2>5. row \in Notification
    <3>1. 0 \in 0..StormTime /\ s \in Nat
      BY <1>1 DEF StormAssumption
    <3> QED BY <2>2, <3>1, KeyIs DEF Posted, Notification
  <2>6. \A j \in DOMAIN deck :
          old[j] = IF j = s /\ deck[j].key = key
                     THEN [ deck[j] EXCEPT !.retired = "superseded" ] ELSE deck[j]
    BY <1>1 DEF Retire
  <2> HIDE DEF old, row, new
  <2>7. /\ new \in Seq(Notification) /\ Len(new) = Len(deck) + 1
        /\ \A j \in 1..Len(deck) : new[j] = old[j]
        /\ new[Len(deck) + 1] = row
    <3>1. old \in Seq(Notification) /\ Len(old) = Len(deck)
      BY <2>3 DEF Fine
    <3>2. /\ Append(old, row) \in Seq(Notification) /\ Len(Append(old, row)) = Len(old) + 1
          /\ \A j \in 1..Len(old) : Append(old, row)[j] = old[j]
          /\ Append(old, row)[Len(old) + 1] = row
      BY ONLY <3>1, <2>5, AppendProperties
    <3> QED BY <2>4, <3>1, <3>2
  <2>8. DOMAIN new = 1..(Len(deck) + 1)
    BY <2>7, LenProperties
  <2>9. CASE i = Len(deck) + 1
    <3>1. i \notin DOMAIN deck /\ new[i] = row
      BY <1>1, <2>7, <2>9
    <3> QED BY <1>3, <2>2, <2>9, <3>1 DEF new, row
  <2>10. CASE i \in DOMAIN deck
    <3>1. new[i] = old[i]
      BY <1>1, <2>7, <2>10
    <3>2. CASE i = s /\ deck[i].key = key
      BY <1>3, <2>2, <2>6, <2>10, <3>1, <3>2 DEF new
    <3>3. CASE ~(i = s /\ deck[i].key = key)
      BY <1>3, <2>2, <2>6, <2>10, <3>1, <3>3 DEF new
    <3> QED BY <3>2, <3>3
  <2>11. i = Len(deck) + 1 \/ i \in DOMAIN deck
    BY <1>1, <2>8 DEF new
  <2> QED BY <2>9, <2>10, <2>11
<1>4. CASE plan.do = "nothing"
  BY <1>4 DEF Carried
<1>5. plan.do \in {"update", "create", "nothing"}
  BY DEF Sensible, Creation
<1> QED BY <1>2, <1>3, <1>4, <1>5

LEMMA KeptRow ==
  ASSUME StormAssumption, StormTypeOK, storming => stormed, NEW f \in Members, NEW r \in Feeds,
         NEW deck, Fine(deck), NEW plan, Sensible(deck, f, r, plan),
         NEW i \in DOMAIN deck, Carried(deck, f, r, plan)[i].retired = "no"
  PROVE  /\ deck[i].retired = "no"
         /\ ~(plan.do = "create" /\ plan.supersedes = i /\ deck[i].key = plan.key)
<1> DEFINE new == Carried(deck, f, r, plan)
<1>1. i \in DOMAIN new
  BY CarriedFine
<1>2. deck[i] \in Notification /\ RowFine(deck[i], i) /\ i \in Nat
  BY LenProperties, ElementOfSeq DEF Fine
<1>3. deck[i].retired = "orphaned" <=> new[i].retired = "orphaned"
  BY CarriedFine
<1>4. CASE new[i] = deck[i] /\ ~(plan.do = "create" /\ plan.supersedes = i /\ deck[i].key = plan.key)
  BY <1>4
<1>5. CASE new[i] = Updated(deck[i], f) /\ plan.do = "update" /\ deck[i].key \in KeysOf(f, r)
  BY <1>2, <1>3, <1>5, UpdatedFine
<1>6. CASE new[i] = [ deck[i] EXCEPT !.retired = "superseded" ]
  BY <1>2, <1>6 DEF Notification
<1> QED BY <1>1, <1>4, <1>5, <1>6, CarriedIs

LEMMA StaysKeyed ==
  ASSUME StormAssumption, StormTypeOK, storming => stormed, NEW f \in Members, NEW r \in Feeds,
         NEW deck, Fine(deck), Keyed(deck), NEW plan, Sensible(deck, f, r, plan),
         plan.do = "create" =>
           \A i \in DOMAIN deck :
             deck[i].retired = "no" /\ deck[i].key = plan.key => i = plan.supersedes
  PROVE  Keyed(Carried(deck, f, r, plan))
<1> DEFINE new == Carried(deck, f, r, plan)
<1> SUFFICES ASSUME NEW i \in DOMAIN new, NEW j \in DOMAIN new,
                    new[i].retired = "no", new[j].retired = "no", new[i].key = new[j].key
             PROVE  i = j
  BY DEF Keyed
<1>1. \A k \in DOMAIN new :
        k \notin DOMAIN deck =>
          k = Len(deck) + 1 /\ plan.do = "create" /\ new[k].key = plan.key
  BY CarriedIs DEF Posted
<1>2. \A k \in DOMAIN deck :
        /\ new[k].key = deck[k].key
        /\ new[k].retired = "no" =>
             /\ deck[k].retired = "no"
             /\ ~(plan.do = "create" /\ plan.supersedes = k /\ deck[k].key = plan.key)
  BY KeptRow, CarriedFine
<1> HIDE DEF new
<1>3. CASE i \in DOMAIN deck /\ j \in DOMAIN deck
  BY <1>2, <1>3 DEF Keyed
<1>4. CASE i \notin DOMAIN deck /\ j \notin DOMAIN deck
  BY <1>1, <1>4
<1>5. \A k \in DOMAIN deck : plan.do = "create" /\ new[k].retired = "no" => new[k].key # plan.key
  BY <1>2
<1> QED BY <1>1, <1>3, <1>4, <1>5

LEMMA KeysDiffer ==
  ASSUME NEW f, NEW key \in KeysOf(f, "own"), StormTypeOK
  PROVE  key # Digest("rolling")
<1>1. "own" \in Feeds
  BY DEF Feeds
<1>2. key = Configured(f) \/ key = Digest("own")
  BY <1>1, KeysOfAre
<1> QED BY <1>2 DEF Configured, PerAlert, PerGroup, Digest

LEMMA NoConflict == StormAssumption /\ LongRegroup /\ IInv => NobodyWasFirst
<1> SUFFICES ASSUME StormAssumption, LongRegroup, IInv, NEW f \in todo
             PROVE  Keyed(Written(f))
  BY DEF NobodyWasFirst
<1> DEFINE own  == Plan(f, "own")
           roll == Plan(f, "rolling")
           deck == Carried(cards, f, "own", own)
<1>1. "own" \in Feeds /\ "rolling" \in Feeds /\ f \in Members
  BY DEF Feeds, IInv, StormTypeOK
<1>2. StormTypeOK /\ Fine(cards) /\ (storming => stormed) /\ Keyed(cards)
  BY DEF IInv, StormTypeOK
<1>3. Sensible(cards, f, "own", own) /\ Sensible(cards, f, "rolling", roll)
  BY <1>1, <1>2, PlanIsSensible
<1>4. /\ Fine(deck) /\ DOMAIN cards \subseteq DOMAIN deck
      /\ \A i \in DOMAIN cards : /\ deck[i].key = cards[i].key
                                 /\ deck[i].retired = "orphaned" <=> cards[i].retired = "orphaned"
  BY <1>1, <1>2, <1>3, CarriedFine
<1>5. Keyed(deck)
  <2>1. own.do = "create" =>
          \A i \in DOMAIN cards :
            cards[i].retired = "no" /\ cards[i].key = own.key => i = own.supersedes
    BY <1>1, NewKeyIsFree DEF Under
  <2> QED BY <1>1, <1>2, <1>3, <2>1, StaysKeyed
<1>6. Sensible(deck, f, "rolling", roll)
  <2> HIDE DEF deck, roll
  <2> QED BY <1>3, <1>4 DEF Sensible
<1>7. ASSUME roll.do = "create", NEW i \in DOMAIN deck, deck[i].retired = "no", deck[i].key = roll.key
      PROVE  i = roll.supersedes
  <2>1. roll.key = Digest("rolling")
    <3>1. roll.key \in KeysOf(f, "rolling")
      BY <1>3, <1>7 DEF Sensible, Creation
    <3> QED BY <1>1, <1>2, <3>1, KeysOfAre
  <2>2. CASE i \in DOMAIN cards
    <3>1. cards[i].retired = "no" /\ cards[i].key = roll.key
      BY <1>1, <1>2, <1>3, <1>4, <1>7, <2>2, KeptRow
    <3>2. i \in Under(roll.key)
      BY <2>2, <3>1 DEF Under
    <3> QED BY <1>1, <1>7, <3>2, NewKeyIsFree
  <2>3. CASE i \notin DOMAIN cards
    <3>1. deck[i] = Posted(f, "own", own) /\ own.key \in KeysOf(f, "own")
      BY <1>1, <1>2, <1>3, <2>3, CarriedIs
    <3>2. deck[i].key = own.key
      BY <3>1 DEF Posted
    <3> QED BY <1>2, <1>7, <2>1, <3>1, <3>2, KeysDiffer
  <2> QED BY <2>2, <2>3
<1> HIDE DEF deck, roll
<1>8. Keyed(Carried(deck, f, "rolling", roll))
  BY <1>1, <1>2, <1>4, <1>5, <1>6, <1>7, StaysKeyed
<1> QED BY <1>8 DEF Written, deck, roll

(* Where the regroup window outlasts a digest window, a decision of the    *)
(* only worker never conflicts with a key.                                 *)
THEOREM NoConflictAlone == LongRegroup => (StormSpec => []NobodyWasFirst)
<1> SUFFICES ASSUME LongRegroup PROVE StormSpec => []NobodyWasFirst
  OBVIOUS
<1>1. IInv => NobodyWasFirst
  BY StormAssumption, NoConflict
<1> QED BY <1>1, Invariant, PTL

-----------------------------------------------------------------------------
(* The card under an alert's own key.  While a batch is decided it may     *)
(* tell what was true before: what it has to follow is still to do.        *)
Live(f) == { g \in firing : Identity(g) = Identity(f) }

OwnRowFollows(row, f) ==
  row.key = PerAlert(f) /\ row.retired = "no" =>
    /\ row.state = "firing" => \E g \in firing \cup todo : Identity(g) = Identity(f)
    /\ row.state = "resolved" => Live(f) \subseteq folded \cup todo

OwnFollows ==
  route.strategy = "per_alert" =>
    \A f \in Members, i \in DOMAIN cards : OwnRowFollows(cards[i], f)

(* What is decided of a change whose own card is not touched: it is on a   *)
(* digest, and that card stays resolved.                                   *)
LEMMA LeftForDigest ==
  ASSUME StormAssumption, LongRegroup, IInv, route.strategy = "per_alert",
         NEW g \in Members, NEW i \in Under(PerAlert(g)),
         LET own == Plan(g, "own")
         IN  /\ own.do = "update" => own.card # i
             /\ own.do = "create" => own.supersedes # i \/ cards[i].key # own.key
  PROVE  /\ cards[i].state = "resolved" /\ g \in firing
         /\ LET own == Plan(g, "own")
            IN  \/ own.do = "create" /\ own.key.scope = "digest"
                \/ own.do = "update" /\ cards[own.card].key.scope = "digest"
<1> DEFINE own == Plan(g, "own")
           key == PerAlert(g)
           digest == Digest("own")
<1>1. "own" \in Feeds /\ StormTypeOK
  BY DEF Feeds, IInv
<1>2. \A c, d : c \in Under(key) /\ d \in Under(key) => c = d
  BY <1>1 DEF Under, StormTypeOK, Keyed
<1>3. Configured(g) = key
  BY DEF Configured
<1>4. digest.scope = "digest"
  BY DEF Digest
<1>5. cards[i].key = key
  BY DEF Under
<1>6. ASSUME \E c \in Under(key) : ~Outlived(c, g)
      PROVE  FALSE
  <2>1. \/ DedupeKeys(g, "own") = << key >>
        \/ DedupeKeys(g, "own") = << key, digest >>
    BY <1>1, <1>3, KeysAre
  <2> HIDE DEF key, digest
  <2>2. PICK c \in Under(key) : own = [ do |-> "update", card |-> c ]
    BY <1>6, <2>1, PlanOfOne, PlanOfTwo
  <2>3. c = i
    BY <1>2, <2>2 DEF key
  <2> QED BY <2>2, <2>3
<1>7. Outlived(i, g) /\ \A c \in Under(key) : Outlived(c, g)
  BY <1>6
<1>8. cards[i].state = "resolved" /\ g \in firing
  BY <1>7 DEF Outlived
<1>9. CASE storming
  <2>1. DedupeKeys(g, "own") = << key, digest >>
    BY <1>1, <1>3, <1>9, KeysAre
  <2>2. CASE Under(digest) = {}
    <3>1. \A c \in Under(key) \cup Under(digest) : Outlived(c, g)
      BY <1>7, <2>2
    <3> HIDE DEF key, digest
    <3>2. PICK s : own = Creation(g, digest, s)
      BY <2>1, <3>1, PlanOfTwo
    <3>3. own.do = "create" /\ own.key = digest
      BY <1>8, <3>2 DEF Creation
    <3> QED BY <1>4, <1>8, <3>3
  <2>3. CASE Under(digest) # {}
    <3>1. \E c \in Under(digest) : ~Outlived(c, g)
      BY <1>1, <2>3, DigestIsNotOutlived
    <3>2. \A c \in Under(digest) : cards[c].key = digest
      BY DEF Under
    <3> HIDE DEF key, digest
    <3>3. PICK c \in Under(digest) : own = [ do |-> "update", card |-> c ]
      BY <1>7, <2>1, <3>1, PlanOfTwo
    <3> QED BY <1>4, <1>8, <3>2, <3>3
  <2> QED BY <2>2, <2>3
<1>10. CASE ~storming
  <2>1. DedupeKeys(g, "own") = << key >>
    BY <1>1, <1>3, <1>10, KeysAre
  <2> HIDE DEF key
  <2>2. PICK s : /\ IF Under(key) = {} THEN s = 0 ELSE s \in Under(key)
                 /\ own = Creation(g, key, s)
    BY <1>7, <2>1, PlanOfOne
  <2>3. s = i
    BY <1>2, <2>2 DEF key
  <2>4. own.do = "create" /\ own.supersedes = i /\ own.key = key
    BY <1>8, <2>2, <2>3 DEF Creation
  <2> QED BY <1>5, <2>4 DEF key
<1> QED BY <1>9, <1>10

(* What a change makes of a card that is under an alert's own key after.   *)
LEMMA OwnRowIs ==
  ASSUME StormAssumption, LongRegroup, IInv, NEW g \in Members, NEW f \in Members,
         NEW i \in DOMAIN Written(g),
         Written(g)[i].key = PerAlert(f), Written(g)[i].retired = "no"
  PROVE  LET own == Plan(g, "own")
         IN  \/ /\ i \in Under(PerAlert(f)) /\ Written(g)[i] = cards[i]
                /\ own.do = "update" => own.card # i
                /\ own.do = "create" => own.supersedes # i \/ cards[i].key # own.key
             \/ /\ i \in Under(PerAlert(f)) /\ Written(g)[i] = Updated(cards[i], g)
                /\ Identity(g) = Identity(f)
             \/ /\ Written(g)[i].state = "firing" /\ g \in firing
                /\ Identity(g) = Identity(f)
<1> DEFINE own  == Plan(g, "own")
           roll == Plan(g, "rolling")
           deck == Carried(cards, g, "own", own)
           new  == Carried(deck, g, "rolling", roll)
<1>1. /\ "own" \in Feeds /\ "rolling" \in Feeds
      /\ StormTypeOK /\ Fine(cards) /\ (storming => stormed)
  BY DEF Feeds, IInv
<1>2. Sensible(cards, g, "own", own) /\ Sensible(cards, g, "rolling", roll)
  BY <1>1, PlanIsSensible
<1>3. /\ Fine(deck) /\ DOMAIN cards \subseteq DOMAIN deck
      /\ \A j \in DOMAIN cards : /\ deck[j].key = cards[j].key
                                 /\ deck[j].retired = "orphaned" <=> cards[j].retired = "orphaned"
  BY <1>1, <1>2, CarriedFine
<1>4. Sensible(deck, g, "rolling", roll)
  <2> HIDE DEF deck, roll
  <2> QED BY <1>2, <1>3 DEF Sensible
<1>5. PerAlert(f).scope = "alert" /\ PerAlert(f).of = Identity(f)
  BY DEF PerAlert
<1>6. \A key \in KeysOf(g, "rolling") : key.scope = "digest"
  BY <1>1, KeysOfAre DEF Digest
<1>7. \A key \in KeysOf(g, "own") : key.scope = "alert" => key.of = Identity(g)
  BY <1>1, KeyIs
<1>8. i \in DOMAIN new /\ new[i].key = PerAlert(f) /\ new[i].retired = "no" /\ Written(g) = new
  BY DEF Written
<1>9. i \in DOMAIN deck /\ new[i] = deck[i]
  <2>1. i \in DOMAIN deck => new[i].key = deck[i].key
    BY <1>1, <1>3, <1>4, CarriedFine
  <2>2. i \in DOMAIN deck => deck[i] \in Notification
    BY <1>3, LenProperties, ElementOfSeq DEF Fine
  <2> HIDE DEF deck, roll
  <2>3. \/ i \in DOMAIN deck /\ new[i] = deck[i]
        \/ i \in DOMAIN deck /\ deck[i].key \in KeysOf(g, "rolling")
        \/ i \in DOMAIN deck /\ new[i] = [ deck[i] EXCEPT !.retired = "superseded" ]
        \/ new[i] = Posted(g, "rolling", roll) /\ roll.key \in KeysOf(g, "rolling")
    BY <1>1, <1>3, <1>4, <1>8, CarriedIs
  <2> HIDE DEF new
  <2>4. new[i] = Posted(g, "rolling", roll) => new[i].key = roll.key
    BY DEF Posted
  <2>5. i \in DOMAIN deck => new[i] # [ deck[i] EXCEPT !.retired = "superseded" ]
    BY <1>8, <2>2 DEF Notification
  <2> QED BY <1>5, <1>6, <1>8, <2>1, <2>3, <2>4, <2>5
<1>10. deck[i].key = PerAlert(f) /\ deck[i].retired = "no" /\ Written(g)[i] = deck[i]
  BY <1>8, <1>9
<1>11. i \in DOMAIN cards => i \in Under(PerAlert(f)) /\ cards[i] \in Notification
  <2> SUFFICES ASSUME i \in DOMAIN cards
               PROVE  i \in Under(PerAlert(f)) /\ cards[i] \in Notification
    OBVIOUS
  <2>1. cards[i].retired = "no" /\ cards[i].key = PerAlert(f)
    BY <1>1, <1>2, <1>3, <1>10, KeptRow
  <2>2. cards[i] \in Notification
    BY <1>1, LenProperties, ElementOfSeq DEF Fine
  <2> QED BY <2>1, <2>2 DEF Under
<1>12. \/ /\ i \in DOMAIN cards /\ deck[i] = cards[i]
          /\ own.do = "update" => own.card # i
          /\ own.do = "create" => own.supersedes # i \/ cards[i].key # own.key
       \/ i \in DOMAIN cards /\ deck[i] = Updated(cards[i], g) /\ cards[i].key \in KeysOf(g, "own")
       \/ i \in DOMAIN cards /\ deck[i] = [ cards[i] EXCEPT !.retired = "superseded" ]
       \/ deck[i] = Posted(g, "own", own) /\ g \in firing /\ own.key \in KeysOf(g, "own")
  BY <1>1, <1>2, <1>9, CarriedIs
<1> HIDE DEF deck
<1>13. CASE i \in DOMAIN cards /\ deck[i] = Updated(cards[i], g) /\ cards[i].key \in KeysOf(g, "own")
  <2>1. Identity(g) = Identity(f)
    BY <1>3, <1>5, <1>7, <1>10, <1>13
  <2> QED BY <1>10, <1>11, <1>13, <2>1
<1>14. CASE i \in DOMAIN cards /\ deck[i] = [ cards[i] EXCEPT !.retired = "superseded" ]
  BY <1>10, <1>11, <1>14 DEF Notification
<1>15. CASE deck[i] = Posted(g, "own", own) /\ g \in firing /\ own.key \in KeysOf(g, "own")
  <2>1. deck[i].key = own.key /\ deck[i].state = "firing"
    BY <1>15 DEF Posted
  <2>2. Identity(g) = Identity(f)
    BY <1>5, <1>7, <1>10, <1>15, <2>1
  <2> QED BY <1>10, <1>15, <2>1, <2>2
<1> QED BY <1>10, <1>11, <1>12, <1>13, <1>14, <1>15

LEMMA DecideFollows ==
  ASSUME StormAssumption, LongRegroup, IInv, OwnFollows, NEW g \in Members, Decide(g)
  PROVE  OwnFollows'
<1>1. /\ g \in todo /\ todo' = todo \ {g}
      /\ UNCHANGED <<route, merged, firing>>
  BY DEF Decide
<1>2. Keyed(Written(g))
  BY <1>1, NoConflict DEF NobodyWasFirst
<1>3. cards' = Written(g)
  BY <1>2 DEF Decide
<1> SUFFICES ASSUME route.strategy = "per_alert", NEW f \in Members, NEW i \in DOMAIN Written(g),
                    Written(g)[i].key = PerAlert(f), Written(g)[i].retired = "no"
             PROVE  /\ Written(g)[i].state = "firing" =>
                         \E h \in firing \cup (todo \ {g}) : Identity(h) = Identity(f)
                    /\ Written(g)[i].state = "resolved" =>
                         Live(f) \subseteq folded' \cup (todo \ {g})
  <2>1. \A f \in Members : /\ PerAlert(f)' = PerAlert(f) /\ Live(f)' = Live(f)
                           /\ \A h : Identity(h)' = Identity(h)
    BY <1>1 DEF PerAlert, Live, Identity
  <2>2. \A f \in Members, i \in DOMAIN cards' : \A row : row = cards'[i] =>
          (OwnRowFollows(cards[i], f)' <=>
             (row.key = PerAlert(f) /\ row.retired = "no" =>
               /\ row.state = "firing" => \E h \in firing \cup (todo \ {g}) : Identity(h) = Identity(f)
               /\ row.state = "resolved" => Live(f) \subseteq folded' \cup (todo \ {g})))
    BY <1>1, <2>1 DEF OwnRowFollows
  <2> QED BY <1>1, <1>3, <2>2 DEF OwnFollows
<1> DEFINE own == Plan(g, "own")
           row == Written(g)[i]
           OnDigest == \/ own.do = "create" /\ own.key.scope = "digest"
                       \/ own.do = "update" /\ cards[own.card].key.scope = "digest"
<1>4. \A j \in Under(PerAlert(f)) :
        /\ cards[j].state = "firing" => \E h \in firing \cup todo : Identity(h) = Identity(f)
        /\ cards[j].state = "resolved" => Live(f) \subseteq folded \cup todo
  BY DEF OwnFollows, OwnRowFollows, Under
<1>5. folded \ {g} \subseteq folded'
  BY DEF Decide
<1>6. OnDigest /\ g \in firing => g \in folded'
  BY <1>2 DEF Decide
<1>7. CASE /\ i \in Under(PerAlert(f)) /\ row = cards[i]
           /\ own.do = "update" => own.card # i
           /\ own.do = "create" => own.supersedes # i \/ cards[i].key # own.key
  <2>1. CASE Identity(g) = Identity(f)
    <3>1. PerAlert(g) = PerAlert(f)
      BY <2>1 DEF PerAlert
    <3>2. cards[i].state = "resolved" /\ g \in firing /\ OnDigest
      <4>1. i \in Under(PerAlert(g))
        BY <1>7, <3>1
      <4> QED BY <1>7, <4>1, LeftForDigest
    <3> QED BY <1>4, <1>5, <1>6, <1>7, <3>2
  <2>2. CASE Identity(g) # Identity(f)
    <3>1. g \notin Live(f)
      BY <2>2 DEF Live
    <3> QED BY <1>4, <1>5, <1>7, <2>2, <3>1
  <2> QED BY <2>1, <2>2
<1>8. CASE i \in Under(PerAlert(f)) /\ row = Updated(cards[i], g) /\ Identity(g) = Identity(f)
  <2>0. cards[i] \in Notification /\ cards[i].key = PerAlert(g)
    BY <1>8, LenProperties, ElementOfSeq DEF Under, IInv, StormTypeOK, PerAlert
  <2>1. CASE g \in firing
    <3>1. row.state = "firing"
      BY <1>8, <2>0, <2>1 DEF Updated, Notification
    <3> QED BY <1>8, <2>1, <3>1
  <2>2. CASE g \notin firing /\ Siblings(g) # {}
    <3>1. row.state = cards[i].state
      BY <1>8, <2>0, <2>2 DEF Updated, Notification
    <3>2. \A h \in Siblings(g) : h \in firing /\ Identity(h) = Identity(f)
      BY <1>8 DEF Siblings
    <3>3. g \notin Live(f)
      BY <2>2 DEF Live
    <3> QED BY <1>4, <1>5, <1>8, <2>2, <3>1, <3>2, <3>3
  <2>3. CASE g \notin firing /\ Siblings(g) = {}
    <3>1. row.state = "resolved"
      BY <1>8, <2>0, <2>3 DEF Updated, Notification
    <3>2. Live(f) = {}
      BY <1>8, <2>3 DEF Live, Siblings
    <3> QED BY <3>1, <3>2
  <2> QED BY <2>1, <2>2, <2>3
<1>9. CASE row.state = "firing" /\ g \in firing /\ Identity(g) = Identity(f)
  BY <1>9
<1> HIDE DEF OnDigest
<1> QED BY <1>7, <1>8, <1>9, OwnRowIs

LEMMA ArriveFollows ==
  ASSUME StormTypeOK, OwnFollows, NEW batch \in SUBSET Members, NEW webhook \in BOOLEAN,
         Arrive(batch, webhook)
  PROVE  OwnFollows'
<1>1. /\ todo = {} /\ todo' = batch /\ UNCHANGED <<route, merged, cards, folded>>
      /\ firing \subseteq firing' \cup batch /\ firing' \subseteq firing \cup batch
  BY DEF Arrive
<1>2. \A f : PerAlert(f)' = PerAlert(f) /\ Identity(f)' = Identity(f)
  BY <1>1 DEF PerAlert, Identity
<1>3. \A f : Live(f)' \subseteq Live(f) \cup batch
  BY <1>1, <1>2 DEF Live
<1> SUFFICES ASSUME NEW f \in Members, NEW i \in DOMAIN cards, OwnRowFollows(cards[i], f)
             PROVE  OwnRowFollows(cards[i], f)'
  BY <1>1 DEF OwnFollows
<1> QED BY <1>1, <1>2, <1>3 DEF OwnRowFollows

LEMMA OrphanFollows ==
  ASSUME StormTypeOK, OwnFollows, NEW j \in DOMAIN cards, Orphan(j)
  PROVE  OwnFollows'
<1>1. UNCHANGED <<route, merged, firing, todo, folded>>
  BY DEF Orphan
<1>2. /\ DOMAIN cards' = DOMAIN cards
      /\ \A i \in DOMAIN cards : cards'[i].retired = "orphaned" \/ cards'[i] = cards[i]
  <2>1. cards[j] \in Notification
    BY LenProperties, ElementOfSeq DEF StormTypeOK
  <2>2. cards'[j].retired = "orphaned"
    BY <2>1 DEF Orphan, Notification
  <2> QED BY <2>2 DEF Orphan
<1> SUFFICES ASSUME NEW f \in Members, NEW i \in DOMAIN cards,
                    cards'[i] = cards[i], OwnRowFollows(cards[i], f)
             PROVE  OwnRowFollows(cards[i], f)'
  <2>1. \A f \in Members, i \in DOMAIN cards :
          cards'[i].retired = "orphaned" => OwnRowFollows(cards[i], f)'
    BY DEF OwnRowFollows
  <2> QED BY <1>1, <1>2, <2>1 DEF OwnFollows
<1> QED BY <1>1 DEF OwnRowFollows, PerAlert, Identity, Live

(* After the policy was changed, no card is under a new key of an alert.   *)
LEMMA RepolicyFollows ==
  ASSUME StormAssumption, IInv, Repolicy
  PROVE  OwnFollows'
<1>1. cards' = cards /\ merged' = ~merged /\ merged \in BOOLEAN /\ ~repolicied
  BY DEF Repolicy, IInv, StormTypeOK
<1> SUFFICES ASSUME NEW f \in Members, NEW i \in DOMAIN cards
             PROVE  cards[i].key # PerAlert(f)'
  BY <1>1 DEF OwnFollows, OwnRowFollows
<1> SUFFICES ASSUME cards[i].key.scope = "alert"
             PROVE  cards[i].key.of # Identity(f)'
  BY DEF PerAlert
<1>2. cards[i] \in Notification /\ RowFine(cards[i], i)
  BY LenProperties, ElementOfSeq DEF IInv, Fine
<1>3. cards[i].key.of = Identity(cards[i].alert) /\ cards[i].alert \in Members
  BY <1>1, <1>2 DEF RowFine, Notification
<1> QED BY <1>1, <1>3 DEF Identity, StormAssumption

LEMMA Follows ==
  StormAssumption /\ LongRegroup /\ IInv /\ OwnFollows /\ [StormNext]_storm => OwnFollows'
<1> SUFFICES ASSUME StormAssumption, LongRegroup, IInv, OwnFollows, [StormNext]_storm
             PROVE  OwnFollows'
  OBVIOUS
<1>0. StormTypeOK
  BY DEF IInv
<1>1. CASE \E batch \in SUBSET Members \ {{}}, webhook \in BOOLEAN : Arrive(batch, webhook)
  BY <1>0, <1>1, ArriveFollows
<1>2. CASE \E f \in Members : Decide(f)
  BY <1>2, DecideFollows
<1>3. CASE \E i \in DOMAIN cards : Orphan(i)
  BY <1>0, <1>3, OrphanFollows
<1>4. CASE Elapse \/ UNCHANGED storm
  <2>1. UNCHANGED <<route, merged, firing, todo, cards, folded>>
    BY <1>4 DEF Elapse, storm
  <2> QED BY <2>1 DEF OwnFollows, OwnRowFollows, PerAlert, Identity, Live
<1>5. CASE Repolicy
  BY <1>5, RepolicyFollows
<1> QED BY <1>1, <1>2, <1>3, <1>4, <1>5 DEF StormNext

(* Where the regroup window outlasts a digest window, the card under an    *)
(* alert's own key follows it also through a storm: it is never left to    *)
(* say that what has stopped fires.                                        *)
THEOREM OwnCardFollowsAlert == LongRegroup => (StormSpec => []OwnCardFollows)
<1> SUFFICES ASSUME LongRegroup PROVE StormSpec => []OwnCardFollows
  OBVIOUS
<1>1. StormInit => OwnFollows
  BY DEF StormInit, OwnFollows
<1>2. IInv /\ OwnFollows /\ [StormNext]_storm => OwnFollows'
  BY StormAssumption, Follows
<1>3. OwnFollows => OwnCardFollows
  <2> SUFFICES ASSUME OwnFollows, todo = {}, route.strategy = "per_alert",
                      NEW f \in Members, NEW i \in DOMAIN cards, i \in Under(PerAlert(f))
               PROVE  /\ cards[i].state = "firing" => Live(f) # {}
                      /\ cards[i].state = "resolved" => Live(f) \subseteq folded
    BY DEF OwnCardFollows, Live
  <2>1. OwnRowFollows(cards[i], f)
    BY DEF OwnFollows
  <2> QED BY <2>1 DEF OwnRowFollows, Under, Live
<1> QED BY <1>1, <1>2, <1>3, Invariant, PTL DEF StormSpec

-----------------------------------------------------------------------------
(***************************************************************************)
(* One notice per condition and the deadman's word, for any number of      *)
(* workers and routes.  The invariant takes the count of notices apart: of *)
(* a condition that is noted as said and was not refused, there is one     *)
(* notice, in the queue or in the hands of one reporter; of any other      *)
(* there is none.  The deadman's condition is noted exactly while the last *)
(* check found it so.                                                      *)
(***************************************************************************)

Queued(k)    == since[k] = 1 /\ \A r \in Reporters : k \notin saying[r]
InHand(k)    == since[k] = 0 /\ \E r \in Reporters : \A q \in Reporters : k \in saying[q] <=> q = r
Unsaid(k)    == since[k] = 0 /\ \A r \in Reporters : k \notin saying[r]

Accounted ==
  \A k \in Keys : IF k \in said \ lost THEN Queued(k) \/ InHand(k) ELSE Unsaid(k)

(* A reporter speaks of one thing at a time, and a worker of routes only.  *)
OneThing ==
  /\ \A w \in Workers : saying[w] = Nothing \/ \E k \in Routes : saying[w] = {k}
  /\ saying[Deadman] \in {Nothing, {Deadman}}

AlarmIsNoted ==
  /\ alarm \in BOOLEAN /\ (alarm <=> Deadman \in said)
  /\ alarm => lastWebhook # 0

AdminInv == TypeOK /\ now \in Nat \ {0} /\ Accounted /\ OneThing /\ AlarmIsNoted

-----------------------------------------------------------------------------
USE AdminAssumption

(* A process that has just started has said nothing.                       *)
Fresh ==
  /\ said = {} /\ saying = [ r \in Reporters |-> Nothing ] /\ lost = {} /\ alarm = FALSE
  /\ since = [ k \in Keys |-> 0 ] /\ lastWebhook = 0 /\ lastPoll = 0 /\ now \in Nat \ {0}

LEMMA FreshIsFine == Fresh => AdminInv
<1> SUFFICES ASSUME Fresh
             PROVE  AdminInv
  OBVIOUS
<1>1. \A r \in Reporters : saying[r] = {}
  BY DEF Fresh, Nothing
<1>2. TypeOK
  <2>1. saying \in [ Reporters -> SUBSET Keys ] /\ since \in [ Keys -> Nat ]
    BY DEF Fresh, Nothing
  <2>2. lastWebhook \in 0..now /\ lastPoll \in 0..now
    BY DEF Fresh
  <2> QED BY <1>1, <2>1, <2>2 DEF TypeOK, Fresh
<1>3. Accounted
  BY <1>1 DEF Fresh, Accounted, Unsaid
<1>4. OneThing /\ AlarmIsNoted
  BY <1>1 DEF Fresh, OneThing, AlarmIsNoted, Reporters, Nothing
<1> QED BY <1>2, <1>3, <1>4 DEF AdminInv, Fresh

LEMMA AdminBegins == Init => AdminInv
<1>1. Init => Fresh
  BY DEF Init, Fresh
<1> QED BY <1>1, FreshIsFine

(* Who speaks of what: only the deadman's check of the deadman.            *)
LEMMA Spoken ==
  ASSUME OneThing
  PROVE  /\ \A r \in Reporters, j, k \in Keys : j \in saying[r] /\ k \in saying[r] => j = k
         /\ \A r \in Reporters : Deadman \in saying[r] => r = Deadman
BY DEF OneThing, Reporters, Keys, Nothing

(* A condition taken for the first time is in one reporter's hands.        *)
LEMMA SayingOnce ==
  ASSUME TypeOK, Accounted, OneThing, NEW r \in Reporters, NEW key \in Keys, saying[r] = Nothing,
         SayOnce(r, key), UNCHANGED <<lost, since>>
  PROVE  /\ Accounted'
         /\ said' = said \cup {key}
         /\ saying' \in [ Reporters -> SUBSET Keys ]
         /\ lost' \subseteq said' /\ \A q \in Reporters : saying'[q] \subseteq said'
         /\ saying'[r] \in {Nothing, {key}} /\ \A q \in Reporters : q # r => saying'[q] = saying[q]
<1>1. CASE key \in said
  <2>1. said' = said /\ saying' = saying
    BY <1>1 DEF SayOnce
  <2>2. Accounted'
    BY <2>1 DEF Accounted, Queued, InHand, Unsaid
  <2> QED BY <1>1, <2>1, <2>2 DEF TypeOK
<1>2. CASE key \notin said
  <2>1. said' = said \cup {key} /\ saying' = [ saying EXCEPT ![r] = {key} ]
    BY <1>2 DEF SayOnce
  <2>2. saying' \in [ Reporters -> SUBSET Keys ]
    BY <2>1 DEF TypeOK
  <2>3. saying'[r] = {key} /\ \A q \in Reporters : q # r => saying'[q] = saying[q]
    BY <2>1 DEF TypeOK
  <2>4. lost' \subseteq said' /\ \A q \in Reporters : saying'[q] \subseteq said'
    BY <2>1, <2>3 DEF TypeOK
  <2>5. Unsaid(key) /\ key \in said' \ lost'
    BY <1>2, <2>1 DEF Accounted, TypeOK
  <2>6. InHand(key)'
    BY <2>3, <2>5 DEF InHand, Unsaid
  <2>7. ASSUME NEW k \in Keys, k # key
        PROVE  IF k \in said' \ lost' THEN Queued(k)' \/ InHand(k)' ELSE Unsaid(k)'
    <3>1. \A q \in Reporters : k \in saying'[q] <=> k \in saying[q]
      BY <2>3, <2>7 DEF Nothing
    <3>2. k \in said' \ lost' <=> k \in said \ lost
      BY <2>1, <2>7
    <3>3. (Queued(k)' <=> Queued(k)) /\ (InHand(k)' <=> InHand(k)) /\ (Unsaid(k)' <=> Unsaid(k))
      BY <3>1 DEF Queued, InHand, Unsaid
    <3> QED BY <3>2, <3>3 DEF Accounted
  <2>8. Accounted'
    BY <2>5, <2>6, <2>7 DEF Accounted
  <2> QED BY <2>1, <2>2, <2>3, <2>4, <2>8
<1> QED BY <1>1, <1>2

LEMMA Checked ==
  ASSUME AdminInv, NEW reachable \in BOOLEAN, CheckDeadman(reachable)
  PROVE  AdminInv'
<1>1. Deadman \in Keys /\ Deadman \in Reporters /\ now \in Nat \ {0}
  BY DEF Keys, Reporters, AdminInv
<1>2. (lastPoll' \in 0..now') /\ (lastWebhook' \in 0..now') /\ now' \in Nat \ {0} /\ lastWebhook' = lastWebhook
  BY DEF CheckDeadman, AdminInv, TypeOK
<1>3. CASE Quiet /\ ~reachable
  <2>1. SayOnce(Deadman, Deadman) /\ UNCHANGED <<lost, since>> /\ saying[Deadman] = Nothing /\ alarm' = TRUE
    BY <1>3 DEF CheckDeadman
  <2>2. /\ Accounted' /\ said' = said \cup {Deadman} /\ saying' \in [ Reporters -> SUBSET Keys ]
        /\ lost' \subseteq said' /\ \A q \in Reporters : saying'[q] \subseteq said'
        /\ saying'[Deadman] \in {Nothing, {Deadman}}
        /\ \A q \in Reporters : q # Deadman => saying'[q] = saying[q]
    BY <1>1, <2>1, SayingOnce DEF AdminInv
  <2>3. TypeOK'
    BY <1>1, <1>2, <2>1, <2>2 DEF AdminInv, TypeOK
  <2>4. OneThing'
    BY <2>2 DEF AdminInv, OneThing, Reporters
  <2>5. AlarmIsNoted'
    BY <1>2, <1>3, <2>1, <2>2 DEF AlarmIsNoted, Quiet
  <2> QED BY <1>2, <2>2, <2>3, <2>4, <2>5 DEF AdminInv
<1>4. CASE ~(Quiet /\ ~reachable)
  <2>1. /\ said' = said \ {Deadman} /\ lost' = lost \ {Deadman} /\ since' = [ since EXCEPT ![Deadman] = 0 ]
        /\ saying' = saying /\ saying[Deadman] = Nothing /\ alarm' = FALSE
    BY <1>4 DEF CheckDeadman, Forget
  <2>2. \A r \in Reporters : Deadman \notin saying[r]
    BY <2>1, Spoken DEF AdminInv, Nothing
  <2>3. TypeOK'
    BY <1>1, <1>2, <2>1, <2>2 DEF AdminInv, TypeOK
  <2>4. Accounted'
    <3>1. Unsaid(Deadman)' /\ Deadman \notin said'
      BY <1>1, <2>1, <2>2 DEF AdminInv, TypeOK, Unsaid
    <3>2. \A k \in Keys : k # Deadman => since'[k] = since[k] /\ (k \in said' \ lost' <=> k \in said \ lost)
      BY <2>1 DEF AdminInv, TypeOK
    <3> QED BY <2>1, <3>1, <3>2 DEF AdminInv, Accounted, Queued, InHand, Unsaid
  <2>5. OneThing' /\ AlarmIsNoted'
    BY <2>1 DEF AdminInv, OneThing, AlarmIsNoted
  <2> QED BY <1>2, <2>3, <2>4, <2>5 DEF AdminInv
<1> QED BY <1>3, <1>4

LEMMA Reported ==
  ASSUME AdminInv, NEW w \in Workers, NEW r \in Routes, ReportRoute(w, r)
  PROVE  AdminInv'
<1>1. /\ SayOnce(w, r) /\ UNCHANGED <<lost, since, alarm, now, lastWebhook, lastPoll>>
      /\ saying[w] = Nothing /\ w \in Reporters /\ r \in Keys /\ r # Deadman /\ w # Deadman
  BY DEF ReportRoute, Reporters, Keys
<1>2. /\ Accounted' /\ said' = said \cup {r} /\ saying' \in [ Reporters -> SUBSET Keys ]
      /\ lost' \subseteq said' /\ \A q \in Reporters : saying'[q] \subseteq said'
      /\ saying'[w] \in {Nothing, {r}} /\ \A q \in Reporters : q # w => saying'[q] = saying[q]
  BY <1>1, SayingOnce DEF AdminInv
<1>3. TypeOK'
  BY <1>1, <1>2 DEF AdminInv, TypeOK, Keys
<1>4. OneThing'
  BY <1>1, <1>2 DEF AdminInv, OneThing, Reporters
<1>5. AlarmIsNoted'
  BY <1>1, <1>2 DEF AdminInv, AlarmIsNoted
<1> QED BY <1>1, <1>2, <1>3, <1>4, <1>5 DEF AdminInv

(* The notice leaves its reporter's hands, for the queue or for good.      *)
LEMMA Spoke ==
  ASSUME AdminInv, NEW r \in Reporters, Say(r) \/ SayFails(r)
  PROVE  AdminInv'
<1>1. PICK key \in Keys : saying[r] = {key}
  BY DEF Say, SayFails, AdminInv, OneThing, Reporters, Keys, Nothing
<1>2. /\ saying' = [ saying EXCEPT ![r] = Nothing ]
      /\ UNCHANGED <<said, alarm, now, lastWebhook, lastPoll>>
  BY DEF Say, SayFails
<1>3. saying'[r] = Nothing /\ \A q \in Reporters : q # r => saying'[q] = saying[q]
  BY <1>2 DEF AdminInv, TypeOK
<1>4. key \in said \ lost /\ InHand(key)
  BY <1>1 DEF AdminInv, Accounted, Queued, Unsaid
<1>5. \A q \in Reporters : key \notin saying'[q]
  BY <1>1, <1>3, <1>4 DEF InHand, Nothing
<1>6. \A k \in Keys, q \in Reporters : k # key => (k \in saying'[q] <=> k \in saying[q])
  BY <1>1, <1>3 DEF Nothing
<1>7. OneThing' /\ AlarmIsNoted'
  BY <1>2, <1>3 DEF AdminInv, OneThing, AlarmIsNoted, Reporters
<1>8. CASE Say(r)
  <2>1. since' = [ since EXCEPT ![key] = @ + 1 ] /\ lost' = lost
    BY <1>1, <1>8 DEF Say
  <2>2. since'[key] = 1 /\ \A k \in Keys : k # key => since'[k] = since[k]
    BY <1>4, <2>1 DEF AdminInv, TypeOK, InHand
  <2>3. Queued(key)'
    BY <1>5, <2>2 DEF Queued
  <2>4. \A k \in Keys : k # key =>
          (Queued(k)' <=> Queued(k)) /\ (InHand(k)' <=> InHand(k)) /\ (Unsaid(k)' <=> Unsaid(k))
    BY <1>6, <2>2 DEF Queued, InHand, Unsaid
  <2>5. Accounted'
    BY <1>2, <1>4, <2>1, <2>3, <2>4 DEF AdminInv, Accounted
  <2>6. since' \in [ Keys -> Nat ]
    BY <2>1, <2>2 DEF AdminInv, TypeOK
  <2>7. TypeOK'
    BY <1>2, <1>3, <2>1, <2>6 DEF AdminInv, TypeOK, Nothing
  <2> QED BY <1>2, <1>7, <2>5, <2>7 DEF AdminInv
<1>9. CASE SayFails(r)
  <2>1. since' = since /\ lost' = lost \cup {key}
    BY <1>1, <1>9 DEF SayFails
  <2>2. Unsaid(key)'
    BY <1>4, <1>5, <2>1 DEF InHand, Unsaid
  <2>3. \A k \in Keys : k # key =>
          (Queued(k)' <=> Queued(k)) /\ (InHand(k)' <=> InHand(k)) /\ (Unsaid(k)' <=> Unsaid(k))
    BY <1>6, <2>1 DEF Queued, InHand, Unsaid
  <2>4. Accounted'
    BY <1>2, <2>1, <2>2, <2>3 DEF AdminInv, Accounted
  <2>5. TypeOK'
    BY <1>2, <1>3, <1>4, <2>1 DEF AdminInv, TypeOK, Nothing
  <2> QED BY <1>2, <1>7, <2>4, <2>5 DEF AdminInv
<1> QED BY <1>8, <1>9

LEMMA AdminGoesOn == AdminInv /\ [Next]_vars => AdminInv'
<1> SUFFICES ASSUME AdminInv, [Next]_vars
             PROVE  AdminInv'
  OBVIOUS
<1>1. CASE Tick \/ Webhook \/ UNCHANGED vars
  <2>1. UNCHANGED <<said, saying, alarm, lost, since>>
    BY <1>1 DEF Tick, Webhook, vars
  <2>2. /\ now' \in Nat \ {0} /\ lastWebhook' \in 0..now' /\ lastPoll' \in 0..now'
        /\ lastWebhook # 0 => lastWebhook' # 0
    BY <1>1 DEF Tick, Webhook, vars, AdminInv, TypeOK
  <2>3. TypeOK' /\ OneThing' /\ AlarmIsNoted'
    BY <2>1, <2>2 DEF AdminInv, TypeOK, OneThing, AlarmIsNoted
  <2>4. Accounted'
    BY <2>1 DEF AdminInv, Accounted, Queued, InHand, Unsaid
  <2> QED BY <2>2, <2>3, <2>4 DEF AdminInv
<1>2. CASE \E reachable \in BOOLEAN : CheckDeadman(reachable)
  BY <1>2, Checked
<1>3. CASE \E w \in Workers, r \in Routes : ReportRoute(w, r)
  BY <1>3, Reported
<1>4. CASE \E r \in Reporters : Say(r) \/ SayFails(r)
  BY <1>4, Spoke
<1>5. CASE Restart
  <2>1. Fresh'
    BY <1>5 DEF Restart, Fresh, AdminInv
  <2>2. (Fresh => AdminInv)'
    BY FreshIsFine, PTL
  <2> QED BY <2>1, <2>2
<1> QED BY <1>1, <1>2, <1>3, <1>4, <1>5 DEF Next

THEOREM AdminInvariant == Spec => []AdminInv
<1>1. Init /\ [][Next]_vars => []AdminInv
  BY AdminBegins, AdminGoesOn, PTL
<1> QED BY <1>1, PTL DEF Spec

-----------------------------------------------------------------------------
(* As long as a condition lasts, however many workers meet it at once, one *)
(* notice of it is queued or about to be, or none if the store refused it: *)
(* that the key is taken under the lock is enough.                         *)
THEOREM OneNotice == Spec => []OneNoticePerCondition
<1>1. ASSUME AdminInv, NEW k \in Keys
      PROVE  since[k] + Cardinality({ r \in Reporters : k \in saying[r] })
               = IF k \in said \ lost THEN 1 ELSE 0
  <2> DEFINE speakers == { r \in Reporters : k \in saying[r] }
  <2>1. CASE Queued(k) \/ Unsaid(k)
    <3>1. speakers = {}
      BY <2>1 DEF Queued, Unsaid
    <3>2. Cardinality(speakers) = 0
      BY <3>1, FS_EmptySet
    <3>3. (Queued(k) /\ k \in said \ lost) \/ (Unsaid(k) /\ k \notin said \ lost)
      <4>1. /\ k \in said \ lost => Queued(k) \/ InHand(k)
            /\ k \notin said \ lost => Unsaid(k)
        BY <1>1 DEF AdminInv, Accounted
      <4>2. ~InHand(k)
        BY <2>1 DEF Queued, InHand, Unsaid
      <4>4. CASE k \in said \ lost
        BY <4>1, <4>2, <4>4
      <4>5. CASE k \notin said \ lost
        BY <4>1, <4>5
      <4> QED BY <4>4, <4>5
    <3> QED BY <3>2, <3>3 DEF Queued, Unsaid
  <2>2. CASE ~(Queued(k) \/ Unsaid(k))
    <3>1. InHand(k) /\ k \in said \ lost
      BY <1>1, <2>2 DEF AdminInv, Accounted
    <3>2. PICK r \in Reporters : speakers = {r}
      BY <3>1 DEF InHand
    <3>3. Cardinality(speakers) = 1
      BY <3>2, FS_Singleton
    <3> QED BY <3>1, <3>3 DEF InHand
  <2> QED BY <2>1, <2>2
<1>2. AdminInv => OneNoticePerCondition
  BY <1>1 DEF OneNoticePerCondition
<1> QED BY <1>2, AdminInvariant, PTL

(* The deadman has spoken of a silence exactly when its last check found   *)
(* one, whatever webhooks, restarts and refused notices came between.      *)
THEOREM DeadmanHasSpoken == Spec => []DeadmanSpeaks
<1>1. ASSUME AdminInv, saying[Deadman] = Nothing, Deadman \notin lost
      PROVE  /\ alarm => since[Deadman] = 1 /\ lastWebhook # 0
             /\ ~alarm => since[Deadman] = 0
  <2>1. Deadman \in Keys /\ \A r \in Reporters : Deadman \notin saying[r]
    BY <1>1, Spoken DEF AdminInv, Keys, Nothing
  <2>2. Deadman \in said => Queued(Deadman)
    BY <1>1, <2>1 DEF AdminInv, Accounted, InHand
  <2>3. Deadman \notin said => Unsaid(Deadman)
    BY <1>1, <2>1 DEF AdminInv, Accounted
  <2> QED BY <1>1, <2>2, <2>3 DEF AdminInv, AlarmIsNoted, Queued, Unsaid
<1>2. AdminInv => DeadmanSpeaks
  BY <1>1 DEF DeadmanSpeaks
<1> QED BY <1>2, AdminInvariant, PTL

-----------------------------------------------------------------------------
(* The type invariant of what is said: nothing is being said that is not   *)
(* noted as said, and the stamps of a silence are none or in the past.     *)
THEOREM AdminTypeCorrect == Spec => []TypeOK
<1>1. AdminInv => TypeOK
  BY DEF AdminInv
<1> QED BY <1>1, AdminInvariant, PTL

(* The type invariants of the three together, for any alerts, requests,    *)
(* jobs, workers, routes and windows: a step is one of one of them, and    *)
(* the others stay as they are.                                            *)
THEOREM PeripheryTypesCorrect == ListenerAssumption => (PeripherySpec => []PeripheryTypeOK)
<1>1. PeripheryInit => Init /\ ListenerInit /\ StormInit
  BY DEF PeripheryInit
<1>2. [PeripheryNext]_<<part, vars, listener, storm>> =>
        [Next]_vars /\ [ListenerNext]_listener /\ [StormNext]_storm
  BY DEF PeripheryNext
<1>3. PeripherySpec => Spec /\ ListenerSpec /\ StormSpec
  BY <1>1, <1>2, PTL DEF PeripherySpec, Spec, ListenerSpec, StormSpec
<1>4. TypeOK /\ ListenerTypeOK /\ StormTypeOK => PeripheryTypeOK
  BY DEF PeripheryTypeOK
<1> QED BY <1>3, <1>4, AdminTypeCorrect, ListenerTypeCorrect, StormTypeCorrect, PTL
=============================================================================

---------------------------- MODULE OutboxProofs ----------------------------
(***************************************************************************)
(* Proofs about Outbox, for any number of processes, workers, cards, lanes *)
(* and requests.  First what the statements of the queue do to a typed     *)
(* queue, then the inductive invariant, then the theorems it yields.       *)
(***************************************************************************)
EXTENDS Outbox, TLAPS

(* A queue whose rows are typed and were inserted by the first n requests. *)
QueueOK(q, n) ==
  /\ DOMAIN q \subseteq 1..n
  /\ q \in [ DOMAIN q -> Row ]
  /\ \A i \in DOMAIN q : q[i].payload \in 1..n

(* Two rows that ask for the same thing.                                   *)
SameRequest(r, s) ==
  /\ r.kind = s.kind
  /\ r.card = s.card
  /\ r.lane = s.lane
  /\ r.payload = s.payload

SameRequests(p, q) ==
  /\ DOMAIN p = DOMAIN q
  /\ \A i \in DOMAIN q : SameRequest(p[i], q[i])

(* From q to p nobody claimed a row, and claimed rows stayed as they were. *)
NoNewClaims(p, q) ==
  \A i \in DOMAIN p :
    p[i].claimedBy # Nobody =>
      /\ i \in DOMAIN q
      /\ p[i].claimedBy = q[i].claimedBy
      /\ p[i].attempts = q[i].attempts
      /\ p[i].payload = q[i].payload

-----------------------------------------------------------------------------
(* A row is unclaimed field by field, and keeps what it asks for.          *)
LEMMA UnclaimedRow ==
  ASSUME NEW row \in Row, NEW t \in Int
  PROVE  /\ Unclaimed(row, t) \in Row
         /\ Unclaimed(row, t).claimedBy = Nobody
         /\ SameRequest(Unclaimed(row, t), row)
<1> DEFINE r1 == [ row EXCEPT !.claimedBy = Nobody ]
           r2 == [ r1 EXCEPT !.claimedAt = 0 ]
           r3 == [ r2 EXCEPT !.notBefore = t ]
<1>1. r1 \in Row /\ r1.claimedBy = Nobody /\ SameRequest(r1, row)
  BY DEF Row, SameRequest
<1>2. r2 \in Row /\ r2.claimedBy = Nobody /\ SameRequest(r2, row)
  <2> HIDE DEF r1
  <2> QED BY <1>1 DEF Row, SameRequest
<1>3. r3 \in Row /\ r3.claimedBy = Nobody /\ SameRequest(r3, row)
  <2> HIDE DEF r2
  <2> QED BY <1>2 DEF Row, SameRequest
<1>4. Unclaimed(row, t) = r3
  BY DEF Unclaimed
<1> HIDE DEF r3
<1>5. QED BY <1>3, <1>4

(* A claimed row keeps what it asks for, and is its worker's.              *)
LEMMA ClaimedRow ==
  ASSUME NEW row \in Row, NEW w \in Workers
  PROVE  /\ Claimed(row, Name[w]) \in Row
         /\ Claimed(row, Name[w]).claimedBy = Name[w]
         /\ SameRequest(Claimed(row, Name[w]), row)
<1> DEFINE r1 == [ row EXCEPT !.claimedBy = Name[w] ]
           r2 == [ r1 EXCEPT !.claimedAt = 0 ]
           r3 == [ r2 EXCEPT !.attempts = @ + 1 ]
<1>1. r1 \in Row /\ r1.claimedBy = Name[w] /\ SameRequest(r1, row)
  BY DEF Row, SameRequest
<1>2. r2 \in Row /\ r2.claimedBy = Name[w] /\ SameRequest(r2, row)
  <2> HIDE DEF r1
  <2> QED BY <1>1 DEF Row, SameRequest
<1>3. r3 \in Row /\ r3.claimedBy = Name[w] /\ SameRequest(r3, row)
  <2> HIDE DEF r2
  <2> QED BY <1>2 DEF Row, SameRequest
<1>4. Claimed(row, Name[w]) = r3
  BY DEF Claimed
<1> HIDE DEF r3
<1>5. QED BY <1>3, <1>4

(* A queue rebuilt row by row is typed when its rows are.                  *)
LEMMA Rowwise ==
  ASSUME NEW p, NEW q, NEW n \in Nat, QueueOK(q, n),
         DOMAIN p = DOMAIN q, p = [ i \in DOMAIN q |-> p[i] ],
         \A i \in DOMAIN q : p[i] \in Row /\ SameRequest(p[i], q[i])
  PROVE  QueueOK(p, n) /\ SameRequests(p, q)
BY DEF QueueOK, SameRequests, SameRequest

LEMMA ClaimQueue ==
  ASSUME NEW q, NEW n \in Nat, QueueOK(q, n), NEW S, NEW w \in Workers
  PROVE  /\ QueueOK(Claim(q, S, Name[w]), n)
         /\ SameRequests(Claim(q, S, Name[w]), q)
         /\ \A i \in DOMAIN q :
              IF i \in S THEN Claim(q, S, Name[w])[i].claimedBy = Name[w]
                         ELSE Claim(q, S, Name[w])[i] = q[i]
<1> DEFINE p == Claim(q, S, Name[w])
<1>1. DOMAIN p = DOMAIN q /\ p = [ i \in DOMAIN q |-> p[i] ]
  BY DEF Claim
<1>2. ASSUME NEW i \in DOMAIN q
      PROVE  /\ p[i] \in Row
             /\ SameRequest(p[i], q[i])
             /\ IF i \in S THEN p[i].claimedBy = Name[w] ELSE p[i] = q[i]
  <2>1. q[i] \in Row
    BY <1>2 DEF QueueOK
  <2>2. p[i] = IF i \in S THEN Claimed(q[i], Name[w]) ELSE q[i]
    BY <1>2 DEF Claim
  <2> HIDE DEF p
  <2>3. QED BY <2>1, <2>2, ClaimedRow DEF SameRequest
<1> HIDE DEF p
<1>3. QED BY <1>1, <1>2, Rowwise DEF p

LEMMA ReleaseQueue ==
  ASSUME NEW q, NEW n \in Nat, QueueOK(q, n), NEW id, NEW t \in Int
  PROVE  /\ QueueOK(Release(q, id, t), n)
         /\ SameRequests(Release(q, id, t), q)
         /\ NoNewClaims(Release(q, id, t), q)
<1> DEFINE p == Release(q, id, t)
<1>1. DOMAIN p = DOMAIN q /\ p = [ i \in DOMAIN q |-> p[i] ]
  BY DEF Release
<1>2. ASSUME NEW i \in DOMAIN q
      PROVE  /\ p[i] \in Row
             /\ SameRequest(p[i], q[i])
             /\ p[i].claimedBy = Nobody \/ p[i] = q[i]
  <2>1. q[i] \in Row
    BY <1>2 DEF QueueOK
  <2>2. p[i] = IF i = id THEN Unclaimed(q[i], t) ELSE q[i]
    BY <1>2 DEF Release
  <2> HIDE DEF p
  <2>3. QED BY <2>1, <2>2, UnclaimedRow DEF SameRequest
<1> HIDE DEF p
<1>3. NoNewClaims(p, q)
  BY <1>1, <1>2 DEF NoNewClaims
<1>4. QED BY <1>1, <1>2, <1>3, Rowwise DEF p

LEMMA ReclaimQueue ==
  ASSUME NEW q, NEW n \in Nat, QueueOK(q, n), NEW age
  PROVE  /\ QueueOK(ReclaimExpired(q, age), n)
         /\ SameRequests(ReclaimExpired(q, age), q)
         /\ NoNewClaims(ReclaimExpired(q, age), q)
<1> DEFINE p == ReclaimExpired(q, age)
<1>1. DOMAIN p = DOMAIN q /\ p = [ i \in DOMAIN q |-> p[i] ]
  BY DEF ReclaimExpired
<1>2. ASSUME NEW i \in DOMAIN q
      PROVE  /\ p[i] \in Row
             /\ SameRequest(p[i], q[i])
             /\ p[i].claimedBy = Nobody \/ p[i] = q[i]
  <2>1. q[i] \in Row
    BY <1>2 DEF QueueOK
  <2>2. p[i] = IF i \in Expired(q, age) THEN Unclaimed(q[i], 0) ELSE q[i]
    BY <1>2 DEF ReclaimExpired
  <2> HIDE DEF p
  <2>3. QED BY <2>1, <2>2, UnclaimedRow DEF SameRequest
<1> HIDE DEF p
<1>3. NoNewClaims(p, q)
  BY <1>1, <1>2 DEF NoNewClaims
<1>4. QED BY <1>1, <1>2, <1>3, Rowwise DEF p

LEMMA ElapseQueue ==
  ASSUME NEW q, NEW n \in Nat, QueueOK(q, n)
  PROVE  /\ QueueOK(Elapse(q), n)
         /\ SameRequests(Elapse(q), q)
         /\ NoNewClaims(Elapse(q), q)
<1> DEFINE p == Elapse(q)
<1>1. DOMAIN p = DOMAIN q /\ p = [ i \in DOMAIN q |-> p[i] ]
  BY DEF Elapse
<1>2. ASSUME NEW i \in DOMAIN q
      PROVE  /\ p[i] \in Row
             /\ SameRequest(p[i], q[i])
             /\ p[i].claimedBy = q[i].claimedBy /\ p[i].attempts = q[i].attempts
  <2>1. q[i] \in Row
    BY <1>2 DEF QueueOK
  <2>2. p[i] = IF Pending(q, i)
                 THEN [ q[i] EXCEPT !.notBefore = Aged(@, Overdue) ]
                 ELSE [ q[i] EXCEPT !.claimedAt = Aged(@, Horizon) ]
    BY <1>2 DEF Elapse
  <2>3. \A k \in Int : Aged(k, Overdue) \in Int /\ Aged(k, Horizon) \in Int
    BY HorizonAssumption DEF Aged
  <2> HIDE DEF p
  <2>4. QED BY <2>1, <2>2, <2>3 DEF SameRequest, Row
<1> HIDE DEF p
<1>3. NoNewClaims(p, q)
  BY <1>1, <1>2 DEF NoNewClaims, SameRequest
<1>4. QED BY <1>1, <1>2, <1>3, Rowwise DEF p

LEMMA RemoveQueue ==
  ASSUME NEW q, NEW n \in Nat, QueueOK(q, n), NEW id
  PROVE  /\ QueueOK(Remove(q, id), n)
         /\ NoNewClaims(Remove(q, id), q)
         /\ DOMAIN Remove(q, id) = DOMAIN q \ {id}
         /\ \A i \in DOMAIN q \ {id} : Remove(q, id)[i] = q[i]
BY DEF QueueOK, NoNewClaims, Remove

(* An entry for enqueue, and the row it inserts.                           *)
Entry(kind, card, delay, r) ==
  [ kind |-> kind, card |-> card, lane |-> LaneOf[card], payload |-> r,
    notBefore |-> delay ]

(* A row of the entry's request: folded into or inserted.                  *)
Carries(row, e) ==
  /\ row.kind = e.kind
  /\ row.card = e.card
  /\ row.payload = e.payload

(* What enqueue makes of a queue q of n requests: the rows it does not     *)
(* fold into stay as they are, and some row carries the entry.             *)
Enqueued(p, q, n, e) ==
  /\ QueueOK(p, n + 1)
  /\ NoNewClaims(p, q)
  /\ DOMAIN q \subseteq DOMAIN p
  /\ \E i \in DOMAIN p : p[i].payload = n + 1
  /\ \A i \in DOMAIN p :
       IF i \in DOMAIN q \ Foldable(q, e)
         THEN p[i] = q[i]
         ELSE /\ Carries(p[i], e)
              /\ p[i].lane = IF i \in DOMAIN q THEN q[i].lane ELSE e.lane

LEMMA EnqueueQueue ==
  ASSUME NEW q, NEW n \in Nat, QueueOK(q, n), n + 1 \in Requests,
         NEW kind \in AskKinds \cup {"admin_notice"}, NEW card \in Cards \cup {NoCard},
         NEW delay \in Int,
         NEW e, e = Entry(kind, card, delay, n + 1)
  PROVE  Enqueued(Enqueue(q, n + 1, e), q, n, e)
<1> DEFINE p == Enqueue(q, n + 1, e)
<1> SUFFICES Enqueued(p, q, n, e)
  OBVIOUS
<1>0. /\ e.kind = kind /\ e.card = card /\ e.lane = LaneOf[card]
      /\ e.payload = n + 1 /\ e.notBefore = delay
      /\ LaneOf[card] \in Nat
  BY OutboxAssumption DEF Entry
<1> HIDE DEF p
<1>1. CASE Foldable(q, e) # {}
  <2>0. p = Fold(q, e)
    BY <1>1 DEF Enqueue, p
  <2>1. DOMAIN p = DOMAIN q /\ p = [ i \in DOMAIN q |-> p[i] ]
    BY <2>0 DEF Fold
  <2>2. ASSUME NEW i \in Foldable(q, e)
        PROVE  /\ i \in DOMAIN q
               /\ p[i] \in Row
               /\ p[i].claimedBy = Nobody
               /\ Carries(p[i], e)
               /\ p[i].lane = q[i].lane
    <3>1. i \in DOMAIN q /\ q[i] \in Row /\ q[i].claimedBy = Nobody
          /\ q[i].kind = e.kind /\ q[i].card = e.card
      BY <2>2 DEF Foldable, Pending, QueueOK
    <3>2. p[i] = [ [ q[i] EXCEPT !.payload = e.payload ]
                     EXCEPT !.notBefore = Earlier(@, e.notBefore) ]
      BY <2>0, <2>2, <3>1 DEF Fold, Folded
    <3> DEFINE r1 == [ q[i] EXCEPT !.payload = e.payload ]
               r2 == [ r1 EXCEPT !.notBefore = Earlier(@, e.notBefore) ]
    <3>3. r1 \in Row /\ r1.claimedBy = Nobody /\ Carries(r1, e) /\ r1.lane = q[i].lane
      BY <1>0, <3>1 DEF Row, Carries
    <3>4. r2 \in Row /\ r2.claimedBy = Nobody /\ Carries(r2, e) /\ r2.lane = q[i].lane
      <4> HIDE DEF r1
      <4> QED BY <1>0, <3>3 DEF Row, Carries, Earlier
    <3>5. p[i] = r2
      BY <3>2
    <3> HIDE DEF r2
    <3>6. QED BY <3>1, <3>4, <3>5
  <2>3. ASSUME NEW i \in DOMAIN q \ Foldable(q, e)
        PROVE  p[i] = q[i]
    BY <2>0, <2>3 DEF Fold
  <2>4. QueueOK(p, n + 1)
    <3>1. \A i \in DOMAIN q : p[i] \in Row /\ p[i].payload \in 1..(n + 1)
      BY <1>0, <2>2, <2>3 DEF QueueOK, Carries
    <3>2. QED BY <2>1, <3>1 DEF QueueOK
  <2>5. NoNewClaims(p, q)
    BY <2>1, <2>2, <2>3 DEF NoNewClaims
  <2>6. \E i \in DOMAIN p : p[i].payload = n + 1
    BY <1>0, <1>1, <2>1, <2>2 DEF Carries
  <2>7. QED BY <2>1, <2>2, <2>3, <2>4, <2>5, <2>6 DEF Enqueued
<1>2. CASE Foldable(q, e) = {}
  <2>0. p = Insert(q, n + 1, e)
    BY <1>2 DEF Enqueue, p
  <2>1. n + 1 \notin DOMAIN q
    BY DEF QueueOK
  <2>2. /\ DOMAIN p = DOMAIN q \cup {n + 1}
        /\ p = [ i \in DOMAIN q \cup {n + 1} |-> p[i] ]
        /\ p[n + 1] = NewRow(e)
        /\ \A i \in DOMAIN q : p[i] = q[i]
    BY <2>0, <2>1 DEF Insert
  <2>3. NewRow(e) \in Row /\ NewRow(e).claimedBy = Nobody /\ Carries(NewRow(e), e)
        /\ NewRow(e).lane = e.lane /\ NewRow(e).payload = n + 1
    BY <1>0 DEF NewRow, Row, Carries
  <2>4. QueueOK(p, n + 1)
    <3>1. DOMAIN p \subseteq 1..(n + 1)
      BY <2>2 DEF QueueOK
    <3>2. \A i \in DOMAIN p : p[i] \in Row /\ p[i].payload \in 1..(n + 1)
      BY <2>2, <2>3 DEF QueueOK
    <3>3. p \in [ DOMAIN p -> Row ]
      <4> DEFINE D == DOMAIN q \cup {n + 1}
      <4>1. DOMAIN p = D /\ p = [ i \in D |-> p[i] ]
        BY <2>2
      <4> HIDE DEF D
      <4>2. QED BY <3>2, <4>1
    <3>4. QED BY <3>1, <3>2, <3>3 DEF QueueOK
  <2>5. NoNewClaims(p, q)
    BY <2>2, <2>3 DEF NoNewClaims
  <2>6. ASSUME NEW i \in DOMAIN p
        PROVE  IF i \in DOMAIN q \ Foldable(q, e)
                 THEN p[i] = q[i]
                 ELSE /\ Carries(p[i], e)
                      /\ p[i].lane = IF i \in DOMAIN q THEN q[i].lane ELSE e.lane
    BY <1>2, <2>1, <2>2, <2>3, <2>6
  <2>7. DOMAIN q \subseteq DOMAIN p /\ \E i \in DOMAIN p : p[i].payload = n + 1
    BY <2>2, <2>3
  <2>8. QED BY <2>4, <2>5, <2>6, <2>7 DEF Enqueued
<1>3. QED BY <1>1, <1>2

(* The same of the effects the system queues.                              *)
LEMMA EnqueueRows ==
  ASSUME asked \in 0..MaxRequests, QueueOK(rows, asked),
         NEW kind \in AskKinds \cup {"admin_notice"}, NEW card \in Cards \cup {NoCard},
         NEW delay \in Int,
         EnqueueEffect(kind, card, delay)
  PROVE  Enqueued(rows', rows, asked, Entry(kind, card, delay, asked + 1))
<1>1. asked \in Nat /\ asked + 1 \in Requests
  BY OutboxAssumption DEF EnqueueEffect, Requests
<1>2. rows' = Enqueue(rows, asked + 1, Entry(kind, card, delay, asked + 1))
  BY DEF EnqueueEffect, Entry
<1>3. QED BY <1>1, <1>2, EnqueueQueue

-----------------------------------------------------------------------------
(* The inductive invariant, part by part.                                  *)

(* The workers: what they hold was queued by a request already made.       *)
WorkersOK ==
  /\ held \in [ Workers -> SUBSET Item ]
  /\ current \in [ Workers -> Item \cup {NoWork} ]
  /\ verdict \in [ Workers -> Verdicts \cup {"none"} ]
  /\ pc \in [ Workers -> {"ready", "report", "settle", "write"} ]
  /\ \A w \in Workers : pc[w] # "ready" => current[w] \in held[w] /\ verdict[w] # "none"
  /\ \A w \in Workers : \A a \in held[w] : a.payload \in 1..asked

(* The rest.                                                               *)
RestOK ==
  /\ asked \in 0..MaxRequests
  /\ said \subseteq Procs
  /\ faults \in 0..MaxFaults
  /\ about \in [ Requests -> Subjects \cup {NoSubject} ]
  /\ performed \subseteq 1..asked
  /\ settled \in [ Requests -> {"none", "done", "dropped", "superseded"} ]

(* TypeOK alone is not inductive: a worker carries out the payload of an   *)
(* item in memory, which was asked for because the row's payload was.      *)
Typed == QueueOK(rows, asked) /\ WorkersOK /\ RestOK

LEMMA TypedTypeOK == Typed => TypeOK
BY DEF Typed, QueueOK, WorkersOK, RestOK, TypeOK

LEMMA ItemType ==
  ASSUME NEW q, NEW n \in 0..MaxRequests, QueueOK(q, n), NEW i \in DOMAIN q
  PROVE  ItemOf(q, i) \in Item /\ ItemOf(q, i).payload \in 1..n
<1>1. q[i] \in Row /\ i \in Requests /\ q[i].payload \in 1..n
  BY OutboxAssumption DEF QueueOK, Requests
<1>2. QED BY <1>1 DEF ItemOf, Item, Row

LEMMA BatchRows ==
  ASSUME NEW q, NEW index, NEW of, NEW limit
  PROVE  \A i \in Batch(q, index, of, limit) :
           i \in DOMAIN q /\ q[i].claimedBy = Nobody /\ q[i].lane % of = index
BY DEF Batch, Claimable, Pending

(* A backoff is a number of ticks.                                         *)
LEMMA BackoffType ==
  ASSUME NEW a \in Nat, NEW after \in RetryAfters
  PROVE  Later(after, Backoff(a)) \in Int
<1>1. 2 ^ a \in Int /\ 2 ^ 20 \in Int
  BY SMT
<1>2. after \in Int /\ MaxBackoff \in Int
  BY OutboxAssumption
<1>3. QED BY <1>1, <1>2 DEF Later, Backoff, Earlier

LEMMA InitTyped == Init => Typed
BY OutboxAssumption DEF Init, Typed, QueueOK, WorkersOK, RestOK, Requests

(* Queueing an effect, whoever does it.                                    *)
LEMMA EnqueueTyped ==
  ASSUME Typed,
         NEW kind \in AskKinds \cup {"admin_notice"}, NEW card \in Cards \cup {NoCard},
         [kind |-> kind, card |-> card] \in Subjects,
         NEW delay \in Int,
         EnqueueEffect(kind, card, delay)
  PROVE  /\ QueueOK(rows', asked')
         /\ asked' \in 0..MaxRequests /\ asked \in Nat /\ asked' = asked + 1
         /\ about' \in [ Requests -> Subjects \cup {NoSubject} ]
         /\ settled' \in [ Requests -> {"none", "done", "dropped", "superseded"} ]
         /\ performed' = performed
<1>1. asked \in Nat /\ asked + 1 \in Requests /\ asked + 1 \in 0..MaxRequests
  BY OutboxAssumption DEF Typed, RestOK, EnqueueEffect, Requests
<1>2. asked' = asked + 1 /\ performed' = performed
  BY DEF EnqueueEffect
<1>3. QueueOK(rows', asked + 1)
  BY EnqueueRows DEF Typed, RestOK, Enqueued
<1>4. about' \in [ Requests -> Subjects \cup {NoSubject} ]
  BY <1>1 DEF EnqueueEffect, Typed, RestOK
<1>5. settled' \in [ Requests -> {"none", "done", "dropped", "superseded"} ]
  BY DEF EnqueueEffect, Typed, RestOK
<1>6. QED BY <1>1, <1>2, <1>3, <1>4, <1>5

(* Settling a row, or failing to.                                          *)
LEMMA NextItemTyped ==
  ASSUME Typed, NEW w \in Workers, NextItem(w)
  PROVE  WorkersOK'
BY DEF Typed, WorkersOK, NextItem

LEMMA RecordTyped ==
  ASSUME Typed, NEW w \in Workers, pc[w] # "ready", RecordVerdict(w), NextItem(w)
  PROVE  /\ QueueOK(rows', asked)
         /\ settled' \in [ Requests -> {"none", "done", "dropped", "superseded"} ]
<1>1. current[w] \in Item /\ current[w].attempts \in Nat
  BY DEF Typed, WorkersOK, Item
<1>2. asked \in Nat /\ QueueOK(rows, asked)
  BY OutboxAssumption DEF Typed, RestOK
<1>3. CASE /\ rows' = Remove(rows, current[w].id)
           /\ \/ settled' = settled
              \/ \E as \in {"done", "dropped"} :
                   settled' = [ settled EXCEPT ![rows[current[w].id].payload] = as ]
  BY <1>2, <1>3, RemoveQueue DEF Typed, RestOK
<1>4. CASE /\ \E after \in RetryAfters :
                rows' = Release(rows, current[w].id, Later(after, Backoff(current[w].attempts)))
           /\ settled' = settled
  BY <1>1, <1>2, <1>4, ReleaseQueue, BackoffType DEF Typed, RestOK
<1>5. QED BY <1>3, <1>4 DEF RecordVerdict

LEMMA NextTyped == Typed /\ [Next]_vars => Typed'
<1> SUFFICES ASSUME Typed, [Next]_vars PROVE Typed'
  OBVIOUS
<1> USE DEF history, workers
<1>a. asked \in 0..MaxRequests /\ asked \in Nat /\ QueueOK(rows, asked)
  BY OutboxAssumption DEF Typed, RestOK
<1>1. ASSUME NEW kind \in AskKinds, NEW card \in Cards, NEW delay \in Delays,
             Ask(kind, card, delay)
      PROVE  Typed'
  <2>1. [kind |-> kind, card |-> card] \in Subjects /\ delay \in Int
    BY OutboxAssumption DEF Subjects
  <2>2. EnqueueEffect(kind, card, delay) /\ UNCHANGED <<workers, said, faults>>
    BY <1>1 DEF Ask
  <2>3. /\ QueueOK(rows', asked')
        /\ asked' \in 0..MaxRequests /\ asked' = asked + 1
        /\ about' \in [ Requests -> Subjects \cup {NoSubject} ]
        /\ settled' \in [ Requests -> {"none", "done", "dropped", "superseded"} ]
        /\ performed' = performed
    BY <2>1, <2>2, EnqueueTyped
  <2>4. WorkersOK'
    BY <1>a, <2>2, <2>3 DEF Typed, WorkersOK
  <2>5. QED BY <1>a, <2>2, <2>3, <2>4 DEF Typed, RestOK
<1>2. ASSUME NEW w \in Workers, TakeBatch(w)
      PROVE  Typed'
  <2> DEFINE batch == Batch(rows, IndexOf[w], Of, BatchSize)
  <2>1. /\ rows' = Claim(rows, batch, Name[w])
        /\ held' = [ held EXCEPT ![w] = { ItemOf(rows', i) : i \in batch } ]
        /\ UNCHANGED <<current, verdict, pc, said, faults, history>>
        /\ pc[w] = "ready"
    BY <1>2 DEF TakeBatch
  <2>2. \A i \in batch : i \in DOMAIN rows
    BY BatchRows
  <2> HIDE DEF batch
  <2>3. QueueOK(rows', asked) /\ DOMAIN rows' = DOMAIN rows
    BY <1>a, <2>1, ClaimQueue DEF SameRequests
  <2>4. \A i \in batch : ItemOf(rows', i) \in Item /\ ItemOf(rows', i).payload \in 1..asked
    BY <1>a, <2>2, <2>3, ItemType
  <2>5. WorkersOK'
    <3>1. { ItemOf(rows', i) : i \in batch } \in SUBSET Item
      BY <2>4
    <3>2. \A a \in { ItemOf(rows', i) : i \in batch } : a.payload \in 1..asked
      BY <2>4
    <3>3. held' \in [ Workers -> SUBSET Item ]
      BY <2>1, <3>1 DEF Typed, WorkersOK
    <3>4. \A u \in Workers : \A a \in held'[u] : a.payload \in 1..asked
      BY <2>1, <3>2 DEF Typed, WorkersOK
    <3>5. \A u \in Workers : pc[u] # "ready" => held'[u] = held[u]
      BY <2>1 DEF Typed, WorkersOK
    <3>6. QED BY <2>1, <3>3, <3>4, <3>5 DEF Typed, WorkersOK
  <2>6. QED BY <2>1, <2>3, <2>5 DEF Typed, RestOK
<1>3. ASSUME NEW w \in Workers, ClaimUnheard(w)
      PROVE  Typed'
  <2>1. QueueOK(rows', asked)
    BY <1>3, <1>a, ClaimQueue DEF ClaimUnheard
  <2>2. UNCHANGED <<workers, said, history>> /\ Fault
    BY <1>3 DEF ClaimUnheard
  <2>3. QED BY <2>1, <2>2, OutboxAssumption DEF Fault, Typed, WorkersOK, RestOK
<1>4. ASSUME NEW w \in Workers, NEW v \in Verdicts, Apply(w, v)
      PROVE  Typed'
  <2>1. PICK item \in FirstOf(held[w]) :
          /\ current' = [ current EXCEPT ![w] = item ]
          /\ verdict' = [ verdict EXCEPT ![w] = v ]
          /\ pc' = [ pc EXCEPT ![w] =
                       IF v = "blocked" \/ (v = "retry" /\ Exhausted(item))
                         THEN "report" ELSE "settle" ]
          /\ \/ performed' = performed \cup {item.payload}
             \/ performed' = performed
    BY <1>4 DEF Apply
  <2>2. UNCHANGED <<rows, held, said, faults, asked, about, settled>>
    BY <1>4 DEF Apply
  <2>3. item \in held[w] /\ item \in Item /\ item.payload \in 1..asked
    BY DEF FirstOf, Typed, WorkersOK
  <2>4. v # "none"
    BY DEF Verdicts
  <2>5. WorkersOK'
    <3>1. pc' \in [ Workers -> {"ready", "report", "settle", "write"} ]
      BY <2>1 DEF Typed, WorkersOK
    <3>2. /\ current' \in [ Workers -> Item \cup {NoWork} ]
          /\ verdict' \in [ Workers -> Verdicts \cup {"none"} ]
      BY <2>1, <2>3 DEF Typed, WorkersOK
    <3>3. ASSUME NEW u \in Workers, pc'[u] # "ready"
          PROVE  current'[u] \in held[u] /\ verdict'[u] # "none"
      BY <2>1, <2>3, <2>4, <3>3 DEF Typed, WorkersOK
    <3>4. QED BY <2>2, <3>1, <3>2, <3>3 DEF Typed, WorkersOK
  <2>6. RestOK'
    BY <2>1, <2>2, <2>3 DEF Typed, RestOK
  <2>7. QED BY <2>2, <2>5, <2>6 DEF Typed
<1>5. ASSUME NEW w \in Workers, Report(w)
      PROVE  Typed'
  <2>1. /\ pc[w] = "report"
        /\ pc' = [ pc EXCEPT ![w] = "settle" ]
        /\ UNCHANGED <<held, current, verdict>>
    BY <1>5 DEF Report
  <2>2. said' \subseteq Procs
    BY <1>5, OutboxAssumption DEF Report, Typed, RestOK
  <2>3. CASE EnqueueEffect("admin_notice", NoCard, 0) /\ UNCHANGED faults
    <3>1. [kind |-> "admin_notice", card |-> NoCard] \in Subjects
      BY DEF Subjects
    <3>2. /\ QueueOK(rows', asked')
          /\ asked' \in 0..MaxRequests /\ asked' = asked + 1
          /\ about' \in [ Requests -> Subjects \cup {NoSubject} ]
          /\ settled' \in [ Requests -> {"none", "done", "dropped", "superseded"} ]
          /\ performed' = performed
      BY <2>3, <3>1, EnqueueTyped
    <3>3. WorkersOK'
      BY <1>a, <2>1, <3>2 DEF Typed, WorkersOK
    <3>4. QED BY <1>a, <2>2, <2>3, <3>2, <3>3 DEF Typed, RestOK
  <2>4. CASE UNCHANGED <<rows, history>> /\ (Fault \/ UNCHANGED faults)
    BY <2>1, <2>2, <2>4, OutboxAssumption DEF Fault, Typed, WorkersOK, RestOK
  <2>5. QED BY <1>5, <2>3, <2>4 DEF Report
<1>6. ASSUME NEW w \in Workers, Settle(w)
      PROVE  Typed'
  <2>1. pc[w] # "ready" /\ RecordVerdict(w) /\ NextItem(w) /\ UNCHANGED faults
    BY <1>6 DEF Settle
  <2>2. UNCHANGED <<said, asked, about, performed>>
    BY <2>1 DEF NextItem
  <2>3. QED BY <2>1, <2>2, RecordTyped, NextItemTyped DEF Typed, RestOK
<1>7. ASSUME NEW w \in Workers, CheckClaim(w)
      PROVE  Typed'
  BY <1>7 DEF CheckClaim, Typed, WorkersOK, RestOK
<1>8. ASSUME NEW w \in Workers, WriteOutcome(w)
      PROVE  Typed'
  <2>1. pc[w] # "ready" /\ RecordVerdict(w) /\ NextItem(w) /\ UNCHANGED faults
    BY <1>8 DEF WriteOutcome
  <2>2. UNCHANGED <<said, asked, about, performed>>
    BY <2>1 DEF NextItem
  <2>3. QED BY <2>1, <2>2, RecordTyped, NextItemTyped DEF Typed, RestOK
<1>9. ASSUME NEW w \in Workers, GiveWay(w) \/ CannotRecord(w)
      PROVE  Typed'
  <2>1. NextItem(w) /\ UNCHANGED <<rows, settled>> /\ (Fault \/ UNCHANGED faults)
    BY <1>9 DEF GiveWay, CannotRecord
  <2>2. UNCHANGED <<said, asked, about, performed>>
    BY <2>1 DEF NextItem
  <2>3. WorkersOK'
    BY <2>1, NextItemTyped
  <2>4. QED BY <2>1, <2>2, <2>3, OutboxAssumption DEF Fault, Typed, RestOK
<1>10. ASSUME NEW p \in Procs, Crash(p)
       PROVE  Typed'
  <2>1. WorkersOK'
    BY <1>10 DEF Crash, Typed, WorkersOK
  <2>2. RestOK'
    BY <1>10, OutboxAssumption DEF Crash, Fault, Typed, RestOK
  <2>3. QED BY <1>10, <2>1, <2>2 DEF Crash, Typed
<1>11. CASE Reclaim
  <2>1. QueueOK(rows', asked)
    BY <1>11, <1>a, ReclaimQueue DEF Reclaim
  <2>2. UNCHANGED <<workers, said, history>> /\ (Fault \/ UNCHANGED faults)
    BY <1>11 DEF Reclaim
  <2>3. QED BY <2>1, <2>2, OutboxAssumption DEF Fault, Typed, WorkersOK, RestOK
<1>12. CASE Tick
  <2>1. QueueOK(rows', asked)
    BY <1>12, <1>a, ElapseQueue DEF Tick
  <2>2. QED BY <1>12, <2>1 DEF Tick, Typed, WorkersOK, RestOK
<1>13. CASE UNCHANGED vars
  BY <1>13 DEF vars, Typed, WorkersOK, RestOK
<1>14. QED
  BY <1>1, <1>2, <1>3, <1>4, <1>5, <1>6, <1>7, <1>8, <1>9, <1>10, <1>11, <1>12, <1>13
  DEF Next, WorkerStep

(* Whatever is claimed, crashes, expires or is folded, the table and the   *)
(* workers keep their types: no worker is on an item it does not hold, and *)
(* no row holds a request nobody made.                                     *)
THEOREM TypeCorrect == Spec => []TypeOK
<1>1. Spec => []Typed
  BY InitTyped, NextTyped, PTL DEF Spec
<1>2. QED BY <1>1, TypedTypeOK, PTL

-----------------------------------------------------------------------------
(* One worker per card: a row is in its card's lane, and a worker holds    *)
(* rows of its own lanes only.                                             *)
LanesKept ==
  /\ \A i \in DOMAIN rows : rows[i].lane = LaneOf[rows[i].card]
  /\ \A w \in Workers : \A a \in held[w] :
       a.lane = LaneOf[a.card] /\ a.lane % Of = IndexOf[w]

(* The workers are those of one process, so no two share an index.         *)
LanesUnique == \A v, w \in Workers : IndexOf[v] = IndexOf[w] => v = w

LEMMA SettledLanes ==
  ASSUME Typed, NEW w \in Workers, NEW id,
         \/ rows' = Remove(rows, id)
         \/ \E t \in Int : rows' = Release(rows, id, t)
         \/ rows' = rows
  PROVE  \A i \in DOMAIN rows' : i \in DOMAIN rows /\ SameRequest(rows'[i], rows[i])
<1>1. asked \in Nat /\ QueueOK(rows, asked)
  BY OutboxAssumption DEF Typed, RestOK
<1>2. CASE rows' = Remove(rows, id)
  BY <1>2 DEF Remove, SameRequest
<1>3. CASE \E t \in Int : rows' = Release(rows, id, t)
  BY <1>1, <1>3, ReleaseQueue DEF SameRequests
<1>4. CASE rows' = rows
  BY <1>4 DEF SameRequest
<1>5. QED BY <1>2, <1>3, <1>4

LEMMA RecordRows ==
  ASSUME Typed, NEW w \in Workers, pc[w] # "ready", RecordVerdict(w)
  PROVE  \/ rows' = Remove(rows, current[w].id)
         \/ \E t \in Int : rows' = Release(rows, current[w].id, t)
<1>1. current[w].attempts \in Nat
  BY DEF Typed, WorkersOK, Item
<1>2. QED BY <1>1, BackoffType DEF RecordVerdict

LEMMA EnqueueLanes ==
  ASSUME Typed, LanesKept,
         NEW kind \in AskKinds \cup {"admin_notice"}, NEW card \in Cards \cup {NoCard},
         NEW delay \in Int,
         EnqueueEffect(kind, card, delay)
  PROVE  \A i \in DOMAIN rows' : rows'[i].lane = LaneOf[rows'[i].card]
<1> DEFINE e == Entry(kind, card, delay, asked + 1)
<1>1. e.lane = LaneOf[e.card]
  BY DEF Entry
<1>2. Enqueued(rows', rows, asked, e)
  BY EnqueueRows DEF Typed, RestOK
<1>3. \A i \in Foldable(rows, e) : rows[i].card = e.card
  BY DEF Foldable
<1> HIDE DEF e
<1>4. QED BY <1>1, <1>2, <1>3 DEF LanesKept, Carries, Enqueued

LEMMA NextLanes == Typed /\ LanesKept /\ [Next]_vars => LanesKept'
<1> SUFFICES ASSUME Typed, LanesKept, [Next]_vars PROVE LanesKept'
  OBVIOUS
<1> USE DEF history, workers
<1>a. asked \in Nat /\ QueueOK(rows, asked)
  BY OutboxAssumption DEF Typed, RestOK
(* Steps in which no worker gets an item and the rows left are old ones.   *)
<1>b. ASSUME \A i \in DOMAIN rows' : i \in DOMAIN rows /\ SameRequest(rows'[i], rows[i]),
             \A w \in Workers : held'[w] \subseteq held[w]
      PROVE  LanesKept'
  BY <1>b DEF LanesKept, SameRequest
(* A worker claims rows of its lanes.                                      *)
<1>c. ASSUME NEW w \in Workers,
             rows' = Claim(rows, Batch(rows, IndexOf[w], Of, BatchSize), Name[w])
      PROVE  /\ \A i \in DOMAIN rows' : i \in DOMAIN rows /\ SameRequest(rows'[i], rows[i])
             /\ \A i \in Batch(rows, IndexOf[w], Of, BatchSize) :
                  /\ ItemOf(rows', i).lane = LaneOf[ItemOf(rows', i).card]
                  /\ ItemOf(rows', i).lane % Of = IndexOf[w]
  <2> DEFINE batch == Batch(rows, IndexOf[w], Of, BatchSize)
  <2>1. \A i \in batch : i \in DOMAIN rows /\ rows[i].lane % Of = IndexOf[w]
    BY BatchRows
  <2> HIDE DEF batch
  <2>2. DOMAIN rows' = DOMAIN rows /\ \A i \in DOMAIN rows : SameRequest(rows'[i], rows[i])
    <3>1. rows' = Claim(rows, batch, Name[w])
      BY <1>c DEF batch
    <3>2. SameRequests(rows', rows)
      BY <1>a, <3>1, ClaimQueue
    <3>3. QED BY <3>2 DEF SameRequests
  <2>3. \A i \in batch :
          /\ ItemOf(rows', i).lane = rows[i].lane
          /\ ItemOf(rows', i).card = rows[i].card
    BY <2>1, <2>2 DEF SameRequest, ItemOf
  <2>4. QED BY <2>1, <2>2, <2>3 DEF LanesKept, batch
<1>1. ASSUME NEW kind \in AskKinds, NEW card \in Cards, NEW delay \in Delays,
             Ask(kind, card, delay)
      PROVE  LanesKept'
  <2>1. delay \in Int
    BY OutboxAssumption
  <2>2. QED BY <1>1, <2>1, EnqueueLanes DEF Ask, LanesKept
<1>2. ASSUME NEW w \in Workers, TakeBatch(w)
      PROVE  LanesKept'
  <2> DEFINE items == { ItemOf(rows', i) : i \in Batch(rows, IndexOf[w], Of, BatchSize) }
  <2>1. \A a \in items : a.lane = LaneOf[a.card] /\ a.lane % Of = IndexOf[w]
    BY <1>2, <1>c DEF TakeBatch
  <2>2. held' = [ held EXCEPT ![w] = items ] /\ held \in [ Workers -> SUBSET Item ]
    BY <1>2 DEF TakeBatch, Typed, WorkersOK
  <2>3. \A i \in DOMAIN rows' : i \in DOMAIN rows /\ SameRequest(rows'[i], rows[i])
    BY <1>2, <1>c DEF TakeBatch
  <2> HIDE DEF items
  <2>4. QED BY <2>1, <2>2, <2>3 DEF LanesKept, SameRequest
<1>3. ASSUME NEW w \in Workers, ClaimUnheard(w)
      PROVE  LanesKept'
  BY <1>3, <1>b, <1>c DEF ClaimUnheard
<1>4. ASSUME NEW w \in Workers, NEW v \in Verdicts, Apply(w, v)
      PROVE  LanesKept'
  BY <1>4 DEF Apply, LanesKept
<1>5. ASSUME NEW w \in Workers, Report(w)
      PROVE  LanesKept'
  <2>1. CASE EnqueueEffect("admin_notice", NoCard, 0)
    BY <1>5, <2>1, EnqueueLanes DEF Report, LanesKept
  <2>2. CASE UNCHANGED rows
    BY <1>5, <2>2 DEF Report, LanesKept
  <2>3. QED BY <1>5, <2>1, <2>2 DEF Report
<1>6. ASSUME NEW w \in Workers, Settle(w) \/ WriteOutcome(w)
      PROVE  LanesKept'
  <2>1. pc[w] # "ready" /\ RecordVerdict(w) /\ NextItem(w)
    BY <1>6 DEF Settle, WriteOutcome
  <2>2. \A u \in Workers : held'[u] \subseteq held[u]
    BY <2>1 DEF NextItem, Typed, WorkersOK
  <2>3. \A i \in DOMAIN rows' : i \in DOMAIN rows /\ SameRequest(rows'[i], rows[i])
    BY <2>1, RecordRows, SettledLanes
  <2>4. QED BY <1>b, <2>2, <2>3
<1>7. ASSUME NEW w \in Workers, CheckClaim(w)
      PROVE  LanesKept'
  BY <1>7 DEF CheckClaim, LanesKept
<1>8. ASSUME NEW w \in Workers, GiveWay(w) \/ CannotRecord(w)
      PROVE  LanesKept'
  <2>1. rows' = rows /\ NextItem(w)
    BY <1>8 DEF GiveWay, CannotRecord
  <2>2. \A u \in Workers : held'[u] \subseteq held[u]
    BY <2>1 DEF NextItem, Typed, WorkersOK
  <2>3. QED BY <1>b, <2>1, <2>2 DEF SameRequest
<1>9. ASSUME NEW p \in Procs, Crash(p)
      PROVE  LanesKept'
  BY <1>9 DEF Crash, LanesKept
<1>10. CASE Reclaim \/ Tick
  BY <1>10, <1>a, <1>b, ReclaimQueue, ElapseQueue DEF Reclaim, Tick, SameRequests
<1>11. CASE UNCHANGED vars
  BY <1>11 DEF vars, LanesKept
<1>12. QED
  BY <1>1, <1>2, <1>3, <1>4, <1>5, <1>6, <1>7, <1>8, <1>9, <1>10, <1>11
  DEF Next, WorkerStep

(* The dispatchers of one process never work on one card at the same time, *)
(* on either backend and whatever leases expire: a card's lane belongs to  *)
(* one of them, a row is in its card's lane, and only its owner claims it. *)
THEOREM OneCardOneWorker == LanesUnique => (Spec => []OneWorkerPerCard)
<1>1. Init => LanesKept
  BY DEF Init, LanesKept
<1>2. Spec => [](Typed /\ LanesKept)
  BY <1>1, InitTyped, NextTyped, NextLanes, PTL DEF Spec
<1>3. LanesUnique /\ Typed /\ LanesKept => OneWorkerPerCard
  BY DEF LanesUnique, Typed, WorkersOK, LanesKept, OneWorkerPerCard
<1>4. QED
  <2>1. LanesUnique => ([](Typed /\ LanesKept) => []OneWorkerPerCard)
    <3>1. CASE LanesUnique
      <4>1. Typed /\ LanesKept => OneWorkerPerCard
        BY <1>3, <3>1
      <4>2. QED BY <4>1, PTL
    <3>2. QED BY <3>1
  <2>2. QED BY <1>2, <2>1

-----------------------------------------------------------------------------
(* The fence: while a row carries the name of a worker that remembers it,  *)
(* the row is as that worker claimed it.                                   *)
Fence ==
  \A w \in Workers : \A a \in held[w] :
    HoldsClaim(rows, a.id, Name[w]) =>
      rows[a.id].payload = a.payload /\ rows[a.id].attempts = a.attempts

(* Every worker has a name of its own: all processes share a pid namespace.*)
NamesUnique == \A v, w \in Workers : Name[v] = Name[w] => v = w

(* SQLite has no gap between the check of a claim and the write.           *)
NoGap == Backend = "sqlite" => \A w \in Workers : pc[w] # "write"

(* Only one's own claim is made anew; other workers' claims just go away.  *)
LEMMA FenceKept ==
  ASSUME Typed, Fence, NoNewClaims(rows', rows),
         \A w \in Workers : held'[w] \subseteq held[w]
  PROVE  Fence'
<1> SUFFICES ASSUME NEW w \in Workers, NEW a \in held'[w], HoldsClaim(rows', a.id, Name[w])
             PROVE  rows'[a.id].payload = a.payload /\ rows'[a.id].attempts = a.attempts
  BY DEF Fence
<1>1. a \in held[w]
  OBVIOUS
<1>2. a.id \in DOMAIN rows' /\ rows'[a.id].claimedBy = Name[w] /\ Name[w] # Nobody
  BY OutboxAssumption DEF HoldsClaim
<1>3. /\ a.id \in DOMAIN rows
      /\ rows[a.id].claimedBy = Name[w]
      /\ rows'[a.id].attempts = rows[a.id].attempts
      /\ rows'[a.id].payload = rows[a.id].payload
  BY <1>2 DEF NoNewClaims
<1>4. QED BY <1>1, <1>3 DEF Fence, HoldsClaim

LEMMA EnqueueClaims ==
  ASSUME Typed,
         NEW kind \in AskKinds \cup {"admin_notice"}, NEW card \in Cards \cup {NoCard},
         NEW delay \in Int,
         EnqueueEffect(kind, card, delay)
  PROVE  NoNewClaims(rows', rows)
BY EnqueueRows DEF Typed, RestOK, Enqueued

LEMMA NextFence == NamesUnique /\ Typed /\ Fence /\ [Next]_vars => Fence'
<1> SUFFICES ASSUME NamesUnique, Typed, Fence, [Next]_vars PROVE Fence'
  OBVIOUS
<1> USE DEF history, workers
<1>a. asked \in Nat /\ QueueOK(rows, asked)
  BY OutboxAssumption DEF Typed, RestOK
<1>b. rows' = rows => NoNewClaims(rows', rows)
  BY DEF NoNewClaims
<1>1. ASSUME NEW kind \in AskKinds, NEW card \in Cards, NEW delay \in Delays,
             Ask(kind, card, delay)
      PROVE  Fence'
  <2>1. delay \in Int
    BY OutboxAssumption
  <2>2. NoNewClaims(rows', rows)
    BY <1>1, <2>1, EnqueueClaims DEF Ask
  <2>3. QED BY <1>1, <2>2, FenceKept DEF Ask
<1>2. ASSUME NEW w \in Workers, TakeBatch(w) \/ ClaimUnheard(w)
      PROVE  Fence'
  <2> DEFINE batch == Batch(rows, IndexOf[w], Of, BatchSize)
  <2>1. /\ rows' = Claim(rows, batch, Name[w])
        /\ held[w] = {}
        /\ \/ held' = [ held EXCEPT ![w] = { ItemOf(rows', i) : i \in batch } ]
           \/ held' = held
    BY <1>2 DEF TakeBatch, ClaimUnheard
  <2> HIDE DEF batch
  <2>2. /\ DOMAIN rows' = DOMAIN rows
        /\ \A i \in DOMAIN rows :
             IF i \in batch THEN rows'[i].claimedBy = Name[w] ELSE rows'[i] = rows[i]
    <3>1. SameRequests(rows', rows)
      BY <1>a, <2>1, ClaimQueue
    <3>2. \A i \in DOMAIN rows :
             IF i \in batch THEN Claim(rows, batch, Name[w])[i].claimedBy = Name[w]
                            ELSE Claim(rows, batch, Name[w])[i] = rows[i]
      BY <1>a, ClaimQueue
    <3>3. QED BY <2>1, <3>1, <3>2 DEF SameRequests
  <2>3. ASSUME NEW u \in Workers, NEW a \in held'[u], HoldsClaim(rows', a.id, Name[u])
        PROVE  rows'[a.id].payload = a.payload /\ rows'[a.id].attempts = a.attempts
    <3>1. CASE u = w
      <4>1. PICK i \in batch : a = ItemOf(rows', i)
        BY <2>1, <2>3, <3>1 DEF Typed, WorkersOK
      <4>2. QED BY <4>1 DEF ItemOf
    <3>2. CASE u # w
      <4>1. a \in held[u]
        BY <2>1, <3>2 DEF Typed, WorkersOK
      <4>2. a.id \in DOMAIN rows /\ rows'[a.id].claimedBy = Name[u]
        BY <2>2, <2>3 DEF HoldsClaim
      <4>3. rows'[a.id] = rows[a.id]
        BY <2>2, <3>2, <4>2 DEF NamesUnique
      <4>4. QED BY <4>1, <4>2, <4>3 DEF Fence, HoldsClaim
    <3>3. QED BY <3>1, <3>2
  <2>4. QED BY <2>3 DEF Fence
<1>3. ASSUME NEW w \in Workers, NEW v \in Verdicts, Apply(w, v)
      PROVE  Fence'
  BY <1>3 DEF Apply, Fence
<1>4. ASSUME NEW w \in Workers, Report(w)
      PROVE  Fence'
  <2>1. NoNewClaims(rows', rows)
    BY <1>4, <1>b, EnqueueClaims DEF Report
  <2>2. QED BY <1>4, <2>1, FenceKept DEF Report
<1>5. ASSUME NEW w \in Workers, Settle(w) \/ WriteOutcome(w) \/ GiveWay(w) \/ CannotRecord(w)
      PROVE  Fence'
  <2>1. NextItem(w) /\ (rows' = rows \/ (pc[w] # "ready" /\ RecordVerdict(w)))
    BY <1>5 DEF Settle, WriteOutcome, GiveWay, CannotRecord
  <2>2. \A u \in Workers : held'[u] \subseteq held[u]
    BY <2>1 DEF NextItem, Typed, WorkersOK
  <2>3. NoNewClaims(rows', rows)
    <3>1. CASE rows' = Remove(rows, current[w].id)
      BY <1>a, <3>1, RemoveQueue
    <3>2. CASE \E t \in Int : rows' = Release(rows, current[w].id, t)
      BY <1>a, <3>2, ReleaseQueue
    <3>3. QED BY <1>b, <2>1, <3>1, <3>2, RecordRows
  <2>4. QED BY <2>2, <2>3, FenceKept
<1>6. ASSUME NEW w \in Workers, CheckClaim(w)
      PROVE  Fence'
  BY <1>6 DEF CheckClaim, Fence
<1>7. ASSUME NEW p \in Procs, Crash(p)
      PROVE  Fence'
  BY <1>7, <1>b, FenceKept DEF Crash
<1>8. CASE Reclaim \/ Tick
  <2>1. NoNewClaims(rows', rows) /\ held' = held
    BY <1>8, <1>a, ReclaimQueue, ElapseQueue DEF Reclaim, Tick
  <2>2. QED BY <2>1, FenceKept
<1>9. CASE UNCHANGED vars
  BY <1>9 DEF vars, Fence
<1>10. QED
  BY <1>1, <1>2, <1>3, <1>4, <1>5, <1>6, <1>7, <1>8, <1>9 DEF Next, WorkerStep

LEMMA NextNoGap == Typed /\ NoGap /\ [Next]_vars => NoGap'
<1> SUFFICES ASSUME Typed, NoGap, [Next]_vars, Backend = "sqlite"
             PROVE  \A w \in Workers : pc'[w] # "write"
  BY DEF NoGap
<1> USE DEF history, workers, Typed, WorkersOK, NoGap
<1>1. ASSUME NEW w \in Workers, WorkerStep(w) \/ ClaimUnheard(w) \/ CannotRecord(w)
      PROVE  \A u \in Workers : pc'[u] # "write"
  BY <1>1 DEF WorkerStep, ClaimUnheard, CannotRecord, TakeBatch, Apply, Report, Settle,
              CheckClaim, WriteOutcome, GiveWay, NextItem
<1>2. QED BY <1>1 DEF Next, Ask, Crash, Reclaim, Tick, vars

LEMMA InitFence == Init => Fence /\ NoGap
BY DEF Init, Fence, NoGap

(* Where names are unique and the check and the write are one transaction, *)
(* take_claim is a fence: a worker that takes a row out of the queue, or   *)
(* gives it back, made the last claim of it and carried out what it holds. *)
THEOREM SettlementIsFenced ==
  NamesUnique /\ Backend = "sqlite" => (Spec => OnlyHolderSettles)
<1> SUFFICES ASSUME NamesUnique, Backend = "sqlite" PROVE Spec => OnlyHolderSettles
  OBVIOUS
<1> DEFINE Fenced == \A w \in Workers :
             held'[w] # held[w] /\ held[w] # {} /\ rows' # rows => SettlesAsHolder(w)
<1>1. Typed /\ Fence /\ NoGap /\ [Next]_vars => [Fenced]_vars
  <2> SUFFICES ASSUME Typed, Fence, NoGap, Next,
                      NEW w \in Workers,
                      held'[w] # held[w], held[w] # {}, rows' # rows
               PROVE  SettlesAsHolder(w)
    BY DEF vars, workers
  <2>1. pc[w] = "settle" /\ ~LeaseLost(w)
    <3>1. ASSUME NEW u \in Workers, WorkerStep(u) PROVE u = w /\ Settle(w)
      BY <3>1 DEF WorkerStep, TakeBatch, Apply, Report, Settle, CheckClaim, WriteOutcome,
                  GiveWay, NextItem, NoGap, Typed, WorkersOK, history, workers
    <3>2. ASSUME NEW u \in Workers PROVE ~ClaimUnheard(u) /\ ~CannotRecord(u)
      BY DEF ClaimUnheard, CannotRecord, workers
    <3>3. QED
      BY <3>1, <3>2 DEF Next, Ask, Crash, Reclaim, Tick, Settle, workers
  <2>2. current[w] \in held[w] /\ HoldsClaim(rows, current[w].id, Name[w])
    BY <2>1 DEF LeaseLost, Typed, WorkersOK
  <2>3. QED BY <2>2 DEF Fence, HoldsClaim, SettlesAsHolder
<1>2. Typed /\ Fence /\ [Next]_vars => Fence'
  BY NextFence
<1> HIDE DEF Fenced
<1>3. Spec => [][Fenced]_vars
  BY <1>1, <1>2, InitTyped, InitFence, NextTyped, NextNoGap, PTL DEF Spec
<1>4. QED BY <1>3 DEF Fenced, OnlyHolderSettles

-----------------------------------------------------------------------------
(* The refinement of DurableEffects.                                       *)

(* A row is about what its request was about.                              *)
SubjectsKept ==
  \A i \in DOMAIN rows : about[rows[i].payload] = [kind |-> rows[i].kind, card |-> rows[i].card]

(* What a worker reports as carried out was carried out.                   *)
Carried == \A w \in Workers : pc[w] # "ready" /\ verdict[w] = "ok" => current[w].payload \in performed

LEMMA NextCarried == Typed /\ Carried /\ [Next]_vars => Carried'
<1> SUFFICES ASSUME Typed, Carried, [Next]_vars PROVE Carried'
  OBVIOUS
<1> USE DEF history, workers, Typed, WorkersOK, Carried
<1>1. ASSUME NEW w \in Workers, NEW v \in Verdicts, Apply(w, v)
      PROVE  Carried'
  <2>1. PICK item \in FirstOf(held[w]) :
          /\ current' = [ current EXCEPT ![w] = item ]
          /\ \/ v \in {"ok", "retry"} /\ performed' = performed \cup {item.payload}
             \/ v # "ok" /\ performed' = performed
    BY <1>1 DEF Apply
  <2>2. /\ verdict' = [ verdict EXCEPT ![w] = v ]
        /\ \A u \in Workers \ {w} : pc'[u] = pc[u]
    BY <1>1 DEF Apply
  <2>3. QED BY <2>1, <2>2
<1>2. ASSUME NEW w \in Workers, NextItem(w)
      PROVE  Carried'
  BY <1>2 DEF NextItem
<1>3. ASSUME NEW w \in Workers, Report(w)
      PROVE  Carried'
  <2>1. performed' = performed /\ pc' = [ pc EXCEPT ![w] = "settle" ] /\ pc[w] = "report"
        /\ UNCHANGED <<current, verdict>>
    BY <1>3 DEF Report, EnqueueEffect
  <2>2. QED BY <2>1
<1>4. ASSUME NEW w \in Workers,
             TakeBatch(w) \/ ClaimUnheard(w) \/ CheckClaim(w)
      PROVE  Carried'
  BY <1>4 DEF TakeBatch, ClaimUnheard, CheckClaim
<1>5. ASSUME NEW p \in Procs, Crash(p)
      PROVE  Carried'
  BY <1>5 DEF Crash
<1>6. ASSUME UNCHANGED <<workers, performed>>
      PROVE  Carried'
  BY <1>6
<1>7. QED
  BY <1>1, <1>2, <1>3, <1>4, <1>5, <1>6
  DEF Next, WorkerStep, Settle, WriteOutcome, GiveWay, CannotRecord, Ask, EnqueueEffect,
      Reclaim, Tick, vars

-----------------------------------------------------------------------------
(* What can be lost where the check and the write are apart.               *)

(* A row opens with the request it is named after and is handed on to later*)
(* ones; a worker remembers one that is no later than the one in the row.  *)
Ordered ==
  /\ \A i \in DOMAIN rows : i <= rows[i].payload
  /\ \A w \in Workers : \A a \in held[w] :
       /\ a.id <= a.payload
       /\ a.id \in DOMAIN rows => a.payload <= rows[a.id].payload

(* The rows of p are rows of q, or hold a request newer than all of q's.   *)
Grown(p, q, n) ==
  \A i \in DOMAIN p : \/ p[i].payload = n + 1 /\ i <= n + 1
                      \/ i \in DOMAIN q /\ p[i].payload = q[i].payload

LEMMA OrderKept ==
  ASSUME Typed, Ordered, Grown(rows', rows, asked),
         \A w \in Workers : held'[w] \subseteq held[w]
  PROVE  Ordered'
<1>0. asked \in Nat /\ \A i \in DOMAIN rows : i \in Nat /\ rows[i].payload \in 1..asked
  BY OutboxAssumption DEF Typed, RestOK, QueueOK
<1>1. ASSUME NEW i \in DOMAIN rows' PROVE i <= rows'[i].payload
  BY <1>0, <1>1 DEF Grown, Ordered
<1>2. ASSUME NEW w \in Workers, NEW a \in held'[w]
      PROVE  /\ a.id <= a.payload
             /\ a.id \in DOMAIN rows' => a.payload <= rows'[a.id].payload
  <2>1. a \in held[w] /\ a.payload \in 1..asked
    BY <1>2 DEF Typed, WorkersOK
  <2>2. a.id <= a.payload /\ (a.id \in DOMAIN rows => a.payload <= rows[a.id].payload)
    BY <2>1 DEF Ordered
  <2>3. ASSUME a.id \in DOMAIN rows' PROVE a.payload <= rows'[a.id].payload
    BY <1>0, <2>1, <2>2, <2>3 DEF Grown
  <2>4. QED BY <2>2, <2>3
<1>3. QED BY <1>1, <1>2 DEF Ordered

LEMMA EnqueueGrown ==
  ASSUME Typed,
         NEW kind \in AskKinds \cup {"admin_notice"}, NEW card \in Cards \cup {NoCard},
         NEW delay \in Int,
         EnqueueEffect(kind, card, delay)
  PROVE  Grown(rows', rows, asked)
<1> DEFINE e == Entry(kind, card, delay, asked + 1)
<1>1. Enqueued(rows', rows, asked, e) /\ asked \in Nat
  BY EnqueueRows, OutboxAssumption DEF Typed, RestOK
<1>2. e.payload = asked + 1
  BY DEF Entry
<1> HIDE DEF e
<1>3. DOMAIN rows' \subseteq 1..(asked + 1)
  BY <1>1 DEF Enqueued, QueueOK
<1>4. ASSUME NEW i \in DOMAIN rows'
      PROVE  \/ rows'[i].payload = asked + 1 /\ i <= asked + 1
             \/ i \in DOMAIN rows /\ rows'[i].payload = rows[i].payload
  <2>1. CASE i \in DOMAIN rows \ Foldable(rows, e)
    BY <1>1, <2>1 DEF Enqueued
  <2>2. CASE i \notin DOMAIN rows \ Foldable(rows, e)
    BY <1>1, <1>2, <1>3, <2>2 DEF Enqueued, Carries
  <2>3. QED BY <2>1, <2>2
<1>5. QED BY <1>4 DEF Grown

LEMMA NextOrdered == Typed /\ Ordered /\ [Next]_vars => Ordered'
<1> SUFFICES ASSUME Typed, Ordered, [Next]_vars PROVE Ordered'
  OBVIOUS
<1> USE DEF history, workers
<1>a. asked \in Nat /\ QueueOK(rows, asked)
  BY OutboxAssumption DEF Typed, RestOK
<1>b. SameRequests(rows', rows) \/ rows' = rows => Grown(rows', rows, asked)
  BY DEF SameRequests, SameRequest, Grown
<1>1. ASSUME NEW kind \in AskKinds, NEW card \in Cards, NEW delay \in Delays,
             Ask(kind, card, delay)
      PROVE  Ordered'
  <2>1. delay \in Int
    BY OutboxAssumption
  <2>2. Grown(rows', rows, asked)
    BY <1>1, <2>1, EnqueueGrown DEF Ask
  <2>3. QED BY <1>1, <2>2, OrderKept DEF Ask
<1>2. ASSUME NEW w \in Workers, TakeBatch(w) \/ ClaimUnheard(w)
      PROVE  Ordered'
  <2> DEFINE batch == Batch(rows, IndexOf[w], Of, BatchSize)
  <2>1. /\ rows' = Claim(rows, batch, Name[w])
        /\ held[w] = {}
        /\ \/ held' = [ held EXCEPT ![w] = { ItemOf(rows', i) : i \in batch } ]
           \/ held' = held
    BY <1>2 DEF TakeBatch, ClaimUnheard
  <2>2. batch \subseteq DOMAIN rows
    BY DEF Batch, Claimable
  <2> HIDE DEF batch
  <2>3. SameRequests(rows', rows)
    BY <1>a, <2>1, ClaimQueue
  <2>4. \A i \in DOMAIN rows' : i \in DOMAIN rows /\ rows'[i].payload = rows[i].payload
    BY <2>3 DEF SameRequests, SameRequest
  <2>5. ASSUME NEW u \in Workers, NEW a \in held'[u]
        PROVE  /\ a.id <= a.payload
               /\ a.id \in DOMAIN rows' => a.payload <= rows'[a.id].payload
    <3>1. CASE a \in held[u]
      BY <2>4, <3>1 DEF Ordered
    <3>2. CASE a \notin held[u]
      <4>1. PICK i \in batch : a = ItemOf(rows', i)
        BY <2>1, <2>5, <3>2 DEF Typed, WorkersOK
      <4>2. a.id = i /\ a.payload = rows'[i].payload
        BY <4>1 DEF ItemOf
      <4>3. i \in DOMAIN rows' /\ i <= rows[i].payload /\ rows'[i].payload = rows[i].payload
        BY <2>2, <2>3 DEF SameRequests, SameRequest, Ordered
      <4>4. rows[i].payload \in Nat
        BY <1>a, <2>2 DEF QueueOK
      <4>5. QED BY <4>2, <4>3, <4>4
    <3>3. QED BY <3>1, <3>2
  <2>6. \A i \in DOMAIN rows' : i <= rows'[i].payload
    BY <2>4 DEF Ordered
  <2>7. QED BY <2>5, <2>6 DEF Ordered
<1>3. ASSUME NEW w \in Workers, NEW v \in Verdicts, Apply(w, v)
      PROVE  Ordered'
  BY <1>3, <1>b, OrderKept DEF Apply
<1>4. ASSUME NEW w \in Workers, Report(w)
      PROVE  Ordered'
  <2>1. Grown(rows', rows, asked)
    BY <1>4, <1>b, EnqueueGrown DEF Report
  <2>2. QED BY <1>4, <2>1, OrderKept DEF Report
<1>5. ASSUME NEW w \in Workers, Settle(w) \/ WriteOutcome(w) \/ GiveWay(w) \/ CannotRecord(w)
      PROVE  Ordered'
  <2>1. NextItem(w) /\ (rows' = rows \/ (pc[w] # "ready" /\ RecordVerdict(w)))
    BY <1>5 DEF Settle, WriteOutcome, GiveWay, CannotRecord
  <2>2. \A u \in Workers : held'[u] \subseteq held[u]
    BY <2>1 DEF NextItem, Typed, WorkersOK
  <2>3. \A i \in DOMAIN rows' : i \in DOMAIN rows /\ SameRequest(rows'[i], rows[i])
    BY <2>1, RecordRows, SettledLanes
  <2>4. Grown(rows', rows, asked)
    BY <2>3 DEF Grown, SameRequest
  <2>5. QED BY <2>2, <2>4, OrderKept
<1>6. ASSUME NEW w \in Workers, CheckClaim(w)
      PROVE  Ordered'
  BY <1>6, <1>b, OrderKept DEF CheckClaim
<1>7. ASSUME NEW p \in Procs, Crash(p)
      PROVE  Ordered'
  BY <1>7, <1>b, OrderKept DEF Crash
<1>8. CASE Reclaim \/ Tick
  <2>1. SameRequests(rows', rows) /\ held' = held
    BY <1>8, <1>a, ReclaimQueue, ElapseQueue DEF Reclaim, Tick
  <2>2. QED BY <2>1, <1>b, OrderKept
<1>9. CASE UNCHANGED vars
  BY <1>9, <1>b, OrderKept DEF vars
<1>10. QED
  BY <1>1, <1>2, <1>3, <1>4, <1>5, <1>6, <1>7, <1>8, <1>9 DEF Next, WorkerStep

(* A request whose fate a settlement decides was in the settled row.       *)
LEMMA SettledByWorker ==
  ASSUME Typed, Fence, Carried, Ordered, NEW w \in Workers, NEW r \in Requests,
         pc[w] \in {"settle", "write"}, pc[w] = "settle" => ~LeaseLost(w),
         RecordVerdict(w), NextItem(w), settled'[r] # settled[r]
  PROVE  SettledBy(w, r)
<1> DEFINE id == current[w].id
<1>1. /\ id \in DOMAIN rows /\ rows[id].payload = r
      /\ settled'[r] = IF verdict[w] = "ok" THEN "done" ELSE "dropped"
  BY DEF RecordVerdict, Typed, RestOK
<1>2. current[w] \in held[w] /\ current[w] \in Item /\ pc'[w] = "ready"
  BY DEF Typed, WorkersOK, NextItem
<1>3. CASE current[w].payload = r
  BY <1>1, <1>2, <1>3 DEF Carried, SettledBy
<1>4. CASE current[w].payload # r
  <2>1. ~HoldsClaim(rows, id, Name[w])
    BY <1>1, <1>2, <1>4 DEF Fence
  <2>2. pc[w] = "write" /\ Overtaken(w)
    BY <1>1, <2>1 DEF LeaseLost, HoldsClaim, Overtaken
  <2>3. r # id
    <3>1. id <= current[w].payload /\ current[w].payload <= rows[id].payload
      BY <1>1, <1>2 DEF Ordered
    <3>2. id \in Nat /\ current[w].payload \in Nat /\ rows[id].payload \in Nat
      BY <1>1, <1>2, OutboxAssumption DEF Item, Requests
    <3>3. QED BY <1>1, <1>4, <3>1, <3>2
  <2>4. QED BY <1>1, <1>2, <2>2, <2>3 DEF SettledBy
<1>5. QED BY <1>3, <1>4

(* On either backend, where names are unique: what a worker's verdict      *)
(* settles is what it carried out, but for an edit folded into the row of  *)
(* an older one after the claim on that row was gone.                      *)
THEOREM OnlyFoldedIsLost == NamesUnique => (Spec => OnlyOvertakenIsLost)
<1> SUFFICES ASSUME NamesUnique PROVE Spec => OnlyOvertakenIsLost
  OBVIOUS
<1> DEFINE Decided == \A r \in Requests :
             settled'[r] # settled[r] /\ settled'[r] # "superseded"
               => \E w \in Workers : SettledBy(w, r)
<1>1. Typed /\ Fence /\ Carried /\ Ordered /\ [Next]_vars => [Decided]_vars
  <2> SUFFICES ASSUME Typed, Fence, Carried, Ordered, Next,
                      NEW r \in Requests,
                      settled'[r] # settled[r], settled'[r] # "superseded"
               PROVE  \E w \in Workers : SettledBy(w, r)
    BY DEF vars
  <2> USE DEF history, workers
  <2>1. ASSUME NEW kind \in AskKinds \cup {"admin_notice"}, NEW card \in Cards \cup {NoCard},
               NEW delay \in Int, EnqueueEffect(kind, card, delay)
        PROVE  FALSE
    BY <2>1 DEF EnqueueEffect
  <2>2. ASSUME NEW w \in Workers, Settle(w) \/ WriteOutcome(w)
        PROVE  SettledBy(w, r)
    BY <2>2, SettledByWorker DEF Settle, WriteOutcome
  <2>3. ASSUME NEW w \in Workers, Report(w)
        PROVE  FALSE
    BY <2>1, <2>3 DEF Report
  <2>4. ASSUME NEW w \in Workers, WorkerStep(w)
        PROVE  Settle(w) \/ WriteOutcome(w)
    BY <2>3, <2>4 DEF WorkerStep, TakeBatch, Apply, CheckClaim, GiveWay
  <2>5. ASSUME NEW kind \in AskKinds, NEW card \in Cards, NEW delay \in Delays,
               Ask(kind, card, delay)
        PROVE  FALSE
    BY <2>1, <2>5, OutboxAssumption DEF Ask
  <2>6. QED
    BY <2>2, <2>4, <2>5 DEF Next, ClaimUnheard, CannotRecord, Crash, Reclaim, Tick
<1>2. Typed /\ Fence /\ [Next]_vars => Fence'
  BY NextFence
<1>3. Init => Carried /\ Ordered
  BY DEF Init, Carried, Ordered
<1> HIDE DEF Decided
<1>4. Spec => [][Decided]_vars
  BY <1>1, <1>2, <1>3, InitTyped, InitFence, NextTyped, NextCarried, NextOrdered, PTL DEF Spec
<1>5. QED BY <1>4 DEF Decided, OnlyOvertakenIsLost

(* Queueing an effect is one request that takes the place of those that    *)
(* leave the queue by it.                                                  *)
LEMMA EnqueuePromise ==
  ASSUME Typed, SubjectsKept,
         NEW kind \in AskKinds \cup {"admin_notice"}, NEW card \in Cards \cup {NoCard},
         [kind |-> kind, card |-> card] \in Subjects,
         NEW delay \in Int,
         EnqueueEffect(kind, card, delay)
  PROVE  Promise!Next /\ SubjectsKept'
<1> DEFINE r == asked + 1
           s == [kind |-> kind, card |-> card]
           e == Entry(kind, card, delay, asked + 1)
           S == { x \in Requests : Queued(x) /\ ~Queued(x)' }
<1>1. asked \in Nat /\ r \in Requests /\ QueueOK(rows, asked) /\ r \in Nat
  BY OutboxAssumption DEF Typed, RestOK, EnqueueEffect, Requests
<1>2. /\ asked' = r
      /\ rows' = Enqueue(rows, asked + 1, e)
      /\ about' = [ about EXCEPT ![r] = s ]
      /\ settled' = [ x \in Requests |->
                        IF \E i \in Foldable(rows, e) : rows[i].payload = x
                          THEN "superseded" ELSE settled[x] ]
      /\ performed' = performed
  BY DEF EnqueueEffect, Entry
<1>3. /\ DOMAIN rows \subseteq DOMAIN rows'
      /\ \E i \in DOMAIN rows' : rows'[i].payload = r
      /\ \A i \in DOMAIN rows' :
           IF i \in DOMAIN rows \ Foldable(rows, e) THEN rows'[i] = rows[i]
                                                    ELSE Carries(rows'[i], e)
  BY <1>2, EnqueueRows DEF Typed, RestOK, Enqueued
<1>4. e.payload = r /\ e.kind = kind /\ e.card = card
  BY DEF Entry
<1>5. \A i \in Foldable(rows, e) : i \in DOMAIN rows /\ rows[i].kind = kind /\ rows[i].card = card
                                   /\ kind \in Coalescable /\ card # NoCard
  BY <1>4 DEF Foldable
<1>6. \A i \in DOMAIN rows : rows[i].payload \in Nat /\ rows[i].payload < r
  BY <1>1 DEF QueueOK
<1> HIDE DEF e
<1>7. SubjectsKept'
  <2>1. ASSUME NEW i \in DOMAIN rows'
        PROVE  about'[rows'[i].payload] = [kind |-> rows'[i].kind, card |-> rows'[i].card]
    <3>1. CASE i \in DOMAIN rows \ Foldable(rows, e)
      <4>1. rows'[i] = rows[i] /\ rows[i].payload # r
        BY <1>1, <1>3, <1>6, <3>1
      <4>2. about'[rows[i].payload] = about[rows[i].payload]
        BY <1>2, <4>1 DEF Typed, RestOK
      <4>3. QED BY <3>1, <4>1, <4>2 DEF SubjectsKept
    <3>2. CASE ~(i \in DOMAIN rows \ Foldable(rows, e))
      <4>1. rows'[i].payload = r /\ rows'[i].kind = kind /\ rows'[i].card = card
        BY <1>3, <1>4, <2>1, <3>2 DEF Carries
      <4>2. about'[r] = s
        BY <1>1, <1>2 DEF Typed, RestOK
      <4>3. QED BY <4>1, <4>2
    <3>3. QED BY <3>1, <3>2
  <2>2. QED BY <2>1 DEF SubjectsKept
<1>8. Fate[r] = "unasked"
  <2>1. ~Queued(r)
    BY <1>1, <1>6 DEF Queued
  <2>2. QED BY <1>1, <2>1 DEF Fate
(* A request leaves the queue only if every row that held it was folded.   *)
<1>9. ASSUME NEW x \in S
      PROVE  \E i \in Foldable(rows, e) : rows[i].payload = x
  <2>1. PICK i \in DOMAIN rows : rows[i].payload = x
    BY DEF Queued
  <2>2. i \in Foldable(rows, e)
    <3>1. SUFFICES ASSUME i \notin Foldable(rows, e) PROVE Queued(x)'
      OBVIOUS
    <3>2. rows'[i] = rows[i] /\ i \in DOMAIN rows'
      BY <1>3, <3>1
    <3>3. QED BY <2>1, <3>2 DEF Queued
  <2>3. QED BY <2>1, <2>2
<1>10. ASSUME NEW x \in S
       PROVE  Fate[x] = "queued" /\ about[x] = s /\ s \in Replaceable /\ x # r
  <2>1. PICK i \in Foldable(rows, e) : rows[i].payload = x
    BY <1>9
  <2>2. about[x] = s /\ kind \in Coalescable /\ card # NoCard /\ x < r
    BY <1>5, <1>6, <2>1 DEF SubjectsKept
  <2>3. QED BY <1>1, <2>2 DEF Fate, Replaceable
<1>11. ASSUME NEW x \in Requests
       PROVE  Fate'[x] = IF x = r THEN "queued" ELSE IF x \in S THEN "superseded" ELSE Fate[x]
  <2>1. CASE x = r
    BY <1>1, <1>3, <2>1 DEF Fate, Queued
  <2>2. CASE x \in S
    <3>1. x # r /\ Queued(x) /\ ~Queued(x)'
      BY <1>10, <2>2
    <3>2. x < r
      BY <1>6, <3>1 DEF Queued
    <3>3. settled'[x] = "superseded"
      BY <1>2, <1>9, <2>2
    <3>4. ~(x > asked')
      BY <1>1, <1>2, <3>2 DEF Requests
    <3>5. QED BY <3>1, <2>2, <3>3, <3>4 DEF Fate
  <2>3. CASE x # r /\ x \notin S /\ Queued(x)
    <3>1. Queued(x)'
      BY <2>3
    <3>2. QED BY <2>3, <3>1 DEF Fate
  <2>4. CASE x # r /\ ~Queued(x)
    <3>1. ~Queued(x)'
      <4>1. SUFFICES ASSUME NEW i \in DOMAIN rows', rows'[i].payload = x PROVE FALSE
        BY DEF Queued
      <4>2. i \in DOMAIN rows \ Foldable(rows, e)
        BY <1>3, <1>4, <2>4, <4>1 DEF Carries
      <4>3. QED BY <1>3, <2>4, <4>1, <4>2 DEF Queued
    <3>2. settled'[x] = settled[x]
      BY <1>2, <1>5, <2>4 DEF Queued
    <3>3. (x > asked') <=> (x > asked)
      BY <1>1, <1>2, <2>4 DEF Requests
    <3>4. x \notin S
      BY <2>4
    <3>5. QED BY <2>4, <3>1, <3>2, <3>3, <3>4 DEF Fate
  <2>5. QED BY <2>1, <2>2, <2>3, <2>4
<1>12. Fate' = [ x \in Requests |-> IF x = r THEN "queued"
                                    ELSE IF x \in S THEN "superseded" ELSE Fate[x] ]
  <2> HIDE DEF r, S
  <2>1. Fate' = [ x \in Requests |-> Fate'[x] ]
    BY DEF Fate
  <2>2. QED BY <1>11, <2>1
<1>13. Promise!Ask(r, s, S)
  <2> HIDE DEF r, s, S
  <2>1. QED BY <1>2, <1>8, <1>10, <1>12 DEF Promise!Ask
<1>14. S \in SUBSET Requests /\ s \in Subjects
  OBVIOUS
<1> HIDE DEF r, s, S
<1>15. QED BY <1>1, <1>7, <1>13, <1>14 DEF Promise!Next

(* Steps that keep what the rows ask for are invisible to the promise.     *)
LEMMA SameFate ==
  ASSUME SameRequests(rows', rows), UNCHANGED <<asked, settled>>
  PROVE  Fate' = Fate
<1>1. \A r \in Requests : Queued(r)' <=> Queued(r)
  BY DEF Queued, SameRequests, SameRequest
<1>2. QED BY <1>1 DEF Fate

LEMMA SameSubjects ==
  ASSUME SubjectsKept, about' = about,
         \A i \in DOMAIN rows' : i \in DOMAIN rows /\ SameRequest(rows'[i], rows[i])
  PROVE  SubjectsKept'
BY DEF SubjectsKept, SameRequest

(* Settling a row ends the request in it, unless another row holds it too. *)
LEMMA SettlePromise ==
  ASSUME Typed, Fence, Carried, SubjectsKept, NEW w \in Workers, Settle(w)
  PROVE  [Promise!Next]_(Promise!vars) /\ SubjectsKept'
<1> USE DEF history, workers
<1> DEFINE id == current[w].id
<1>1. /\ pc[w] # "ready" /\ RecordVerdict(w)
      /\ UNCHANGED <<asked, about, performed>>
  BY DEF Settle, NextItem
<1>2. PICK r \in Requests :
        /\ id \in DOMAIN rows
        /\ rows[id].payload = r
        /\ r <= asked
        /\ current[w].payload = r
  <2>1. current[w] \in held[w] /\ HoldsClaim(rows, id, Name[w])
    BY <1>1 DEF Settle, LeaseLost, Typed, WorkersOK
  <2>2. id \in DOMAIN rows /\ current[w].payload = rows[id].payload
    BY <2>1 DEF Fence, HoldsClaim
  <2>3. rows[id].payload \in 1..asked
    BY <2>2 DEF Typed, QueueOK
  <2>4. asked \in 0..MaxRequests /\ MaxRequests \in Nat
    BY OutboxAssumption DEF Typed, RestOK
  <2> HIDE DEF id
  <2>5. QED BY <2>2, <2>3, <2>4 DEF Requests
<1>3. \A i \in DOMAIN rows' : i \in DOMAIN rows /\ SameRequest(rows'[i], rows[i])
  <2>1. \/ rows' = Remove(rows, id)
        \/ \E t \in Int : rows' = Release(rows, id, t)
    BY <1>1, RecordRows
  <2>2. QED BY <2>1, SettledLanes
<1>4. SubjectsKept'
  BY <1>1, <1>3, SameSubjects
<1>5. CASE /\ verdict[w] # "retry" \/ Exhausted(current[w])
           /\ rows' = Remove(rows, id)
           /\ settled' = [ settled EXCEPT ![r] = IF verdict[w] = "ok" THEN "done" ELSE "dropped" ]
  <2> DEFINE as == IF verdict[w] = "ok" THEN "done" ELSE "dropped"
  <2>1. Queued(r)
    BY <1>2 DEF Queued
  <2>2. /\ DOMAIN rows' = DOMAIN rows \ {id}
        /\ \A i \in DOMAIN rows' : rows'[i] = rows[i]
    BY <1>5 DEF Remove
  <2>3. \A x \in Requests \ {r} : Queued(x)' <=> Queued(x)
    <3>1. SUFFICES ASSUME NEW x \in Requests \ {r} PROVE Queued(x)' <=> Queued(x)
      OBVIOUS
    <3>2. rows[id].payload # x
      BY <1>2, <3>1
    <3> HIDE DEF id
    <3>3. QED BY <2>2, <3>1, <3>2 DEF Queued
  <2>4. \A x \in Requests \ {r} : settled'[x] = settled[x]
    BY <1>2, <1>5 DEF Typed, RestOK
  <2>5. \A x \in Requests \ {r} : Fate'[x] = Fate[x]
    BY <1>1, <2>3, <2>4 DEF Fate
  <2>6. /\ Fate = [ x \in Requests |-> Fate[x] ]
        /\ Fate' = [ x \in Requests |-> Fate'[x] ]
    BY DEF Fate
  <2>7. Fate[r] = "queued"
    BY <1>2, <2>1 DEF Fate
  <2>8. CASE Queued(r)'
    <3>1. Fate'[r] = "queued"
      BY <1>2, <2>8 DEF Fate
    <3>2. Fate' = Fate
      <4> QED BY <2>5, <2>6, <2>7, <3>1
    <3>3. QED BY <1>1, <1>4, <3>2 DEF Promise!vars
  <2>9. CASE ~Queued(r)'
    <3>1. Fate'[r] = as
      <4>1. settled'[r] = as
        BY <1>2, <1>5 DEF Typed, RestOK
      <4>2. ~(r > asked')
        BY <1>1, <1>2, OutboxAssumption DEF Typed, RestOK, Requests
      <4> HIDE DEF as
      <4>3. QED BY <1>2, <2>9, <4>1, <4>2 DEF Fate
    <3>2. Fate' = [ Fate EXCEPT ![r] = as ]
      <4> HIDE DEF as
      <4> QED BY <2>5, <2>6, <3>1
    <3>3. CASE verdict[w] = "ok"
      <4>1. r \in performed
        BY <1>1, <1>2, <3>3 DEF Carried
      <4>2. r \in Requests /\ as = "done"
        BY <1>2, <3>3
      <4> HIDE DEF as
      <4>3. Promise!Finish(r)
        BY <1>1, <2>7, <3>2, <4>1, <4>2 DEF Promise!Finish
      <4>4. QED BY <1>4, <4>2, <4>3 DEF Promise!Next
    <3>4. CASE verdict[w] # "ok"
      <4>1. r \in Requests /\ as = "dropped"
        BY <1>2, <3>4
      <4> HIDE DEF as
      <4>2. Promise!GiveUp(r)
        BY <1>1, <2>7, <3>2, <4>1 DEF Promise!GiveUp
      <4>3. QED BY <1>4, <4>1, <4>2 DEF Promise!Next
    <3>5. QED BY <3>3, <3>4
  <2>10. QED BY <2>8, <2>9
<1>6. CASE /\ \E after \in RetryAfters :
                rows' = Release(rows, id, Later(after, Backoff(current[w].attempts)))
           /\ settled' = settled
  <2>1. SameRequests(rows', rows)
    <3>1. current[w].attempts \in Nat
      BY <1>1 DEF Typed, WorkersOK, Item
    <3>2. asked \in Nat /\ QueueOK(rows, asked)
      BY OutboxAssumption DEF Typed, RestOK
    <3>3. QED BY <1>6, <3>1, <3>2, ReleaseQueue, BackoffType
  <2>2. QED BY <1>1, <1>4, <1>6, <2>1, SameFate DEF Promise!vars
<1>7. QED BY <1>1, <1>2, <1>5, <1>6 DEF RecordVerdict

LEMMA PromiseInit == Init => Promise!Init
<1>1. ASSUME Init PROVE Fate = [ r \in Requests |-> "unasked" ]
  BY <1>1 DEF Init, Fate, Queued, Requests
<1>2. QED BY <1>1 DEF Init, Promise!Init

LEMMA PromiseStep ==
  Backend = "sqlite" /\ Typed /\ Fence /\ NoGap /\ Carried /\ SubjectsKept /\ [Next]_vars
    => [Promise!Next]_(Promise!vars) /\ SubjectsKept'
<1> SUFFICES ASSUME Backend = "sqlite", Typed, Fence, NoGap, Carried, SubjectsKept, [Next]_vars
             PROVE  [Promise!Next]_(Promise!vars) /\ SubjectsKept'
  OBVIOUS
<1> USE DEF history, workers
<1>a. asked \in Nat /\ asked \in 0..MaxRequests /\ QueueOK(rows, asked)
  BY OutboxAssumption DEF Typed, RestOK
<1>b. ASSUME SameRequests(rows', rows), UNCHANGED history
      PROVE  [Promise!Next]_(Promise!vars) /\ SubjectsKept'
  <2>1. Fate' = Fate
    BY <1>b, SameFate
  <2>2. SubjectsKept'
    BY <1>b, SameSubjects DEF SameRequests
  <2>3. QED BY <1>b, <2>1, <2>2 DEF Promise!vars
<1>c. rows' = rows => SameRequests(rows', rows)
  BY DEF SameRequests, SameRequest
<1>1. ASSUME NEW kind \in AskKinds, NEW card \in Cards, NEW delay \in Delays,
             Ask(kind, card, delay)
      PROVE  [Promise!Next]_(Promise!vars) /\ SubjectsKept'
  <2>1. [kind |-> kind, card |-> card] \in Subjects /\ delay \in Int
    BY OutboxAssumption DEF Subjects
  <2>2. QED BY <1>1, <2>1, EnqueuePromise DEF Ask
<1>2. ASSUME NEW w \in Workers, TakeBatch(w) \/ ClaimUnheard(w)
      PROVE  [Promise!Next]_(Promise!vars) /\ SubjectsKept'
  <2>1. SameRequests(rows', rows)
    BY <1>2, <1>a, ClaimQueue DEF TakeBatch, ClaimUnheard
  <2>2. QED BY <1>2, <1>b, <2>1 DEF TakeBatch, ClaimUnheard
<1>3. ASSUME NEW w \in Workers, NEW v \in Verdicts, Apply(w, v)
      PROVE  [Promise!Next]_(Promise!vars) /\ SubjectsKept'
  <2>1. UNCHANGED <<rows, asked, about, settled>>
    BY <1>3 DEF Apply
  <2>2. Fate' = Fate /\ SubjectsKept'
    BY <1>c, <2>1, SameFate DEF SubjectsKept
  <2>3. PICK item \in held[w] :
          performed' = performed \cup {item.payload} \/ performed' = performed
    BY <1>3 DEF Apply, FirstOf
  <2>4. PICK r \in Requests : r = item.payload /\ r <= asked
    BY <1>a, OutboxAssumption DEF Typed, WorkersOK, Requests
  <2>5. Fate[r] # "unasked"
    BY <1>a, <2>4 DEF Fate, Requests, Typed, RestOK
  <2>6. CASE performed' = performed \cup {r}
    <3>1. Promise!Perform(r)
      BY <2>1, <2>2, <2>5, <2>6 DEF Promise!Perform
    <3>2. QED BY <2>2, <3>1 DEF Promise!Next
  <2>7. CASE performed' = performed
    BY <2>1, <2>2, <2>7 DEF Promise!vars
  <2>8. QED BY <2>3, <2>4, <2>6, <2>7
<1>4. ASSUME NEW w \in Workers, Report(w)
      PROVE  [Promise!Next]_(Promise!vars) /\ SubjectsKept'
  <2>1. CASE EnqueueEffect("admin_notice", NoCard, 0)
    <3>1. [kind |-> "admin_notice", card |-> NoCard] \in Subjects
      BY DEF Subjects
    <3>2. QED BY <2>1, <3>1, EnqueuePromise
  <2>2. CASE UNCHANGED <<rows, history>>
    BY <1>b, <1>c, <2>2
  <2>3. QED BY <1>4, <2>1, <2>2 DEF Report
<1>5. ASSUME NEW w \in Workers, Settle(w)
      PROVE  [Promise!Next]_(Promise!vars) /\ SubjectsKept'
  BY <1>5, SettlePromise
<1>6. ASSUME NEW w \in Workers, CheckClaim(w) \/ WriteOutcome(w)
      PROVE  FALSE
  BY <1>6 DEF CheckClaim, WriteOutcome, NoGap
<1>7. ASSUME NEW w \in Workers, GiveWay(w) \/ CannotRecord(w)
      PROVE  [Promise!Next]_(Promise!vars) /\ SubjectsKept'
  <2>1. rows' = rows /\ UNCHANGED history
    BY <1>7 DEF GiveWay, CannotRecord, NextItem
  <2>2. QED BY <1>b, <1>c, <2>1
<1>8. ASSUME NEW p \in Procs, Crash(p)
      PROVE  [Promise!Next]_(Promise!vars) /\ SubjectsKept'
  BY <1>8, <1>b, <1>c DEF Crash
<1>9. CASE Reclaim \/ Tick
  <2>1. SameRequests(rows', rows) /\ UNCHANGED history
    BY <1>9, <1>a, ReclaimQueue, ElapseQueue DEF Reclaim, Tick
  <2>2. QED BY <1>b, <2>1
<1>10. CASE UNCHANGED vars
  BY <1>10, <1>b, <1>c DEF vars
<1>11. QED
  BY <1>1, <1>2, <1>3, <1>4, <1>5, <1>6, <1>7, <1>8, <1>9, <1>10 DEF Next, WorkerStep

(* With unique names and an atomic settlement the outbox keeps its promise:*)
(* no effect is lost, and none is ticked off that was not carried out.     *)
THEOREM OutboxKeepsPromise ==
  NamesUnique /\ Backend = "sqlite" => (Spec => EffectsAreDurable)
<1> SUFFICES ASSUME NamesUnique, Backend = "sqlite" PROVE Spec => EffectsAreDurable
  OBVIOUS
<1>1. Init => Carried /\ SubjectsKept
  BY DEF Init, Carried, SubjectsKept
<1>2. Typed /\ Fence /\ [Next]_vars => Fence'
  BY NextFence
<1>3. Typed /\ Fence /\ NoGap /\ Carried /\ SubjectsKept /\ [Next]_vars
        => [Promise!Next]_(Promise!vars) /\ SubjectsKept'
  BY PromiseStep
<1>4. Spec => Promise!Init /\ [][Promise!Next]_(Promise!vars)
  BY <1>1, <1>2, <1>3, InitTyped, InitFence, NextTyped, NextNoGap, NextCarried, PromiseInit, PTL
  DEF Spec
<1>5. QED BY <1>4 DEF EffectsAreDurable, Promise!Spec

=============================================================================

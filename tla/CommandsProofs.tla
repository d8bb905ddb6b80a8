--------------------------- MODULE CommandsProofs ---------------------------
(***************************************************************************)
(* What is proved of the commands and buttons of the bot: of those that    *)
(* silence (Silencing) and of those that take a card and answer it         *)
(* (Answering).                                                            *)
(***************************************************************************)
EXTENDS Silencing, Answering, SequenceTheorems, TLAPS

-----------------------------------------------------------------------------
(***************************************************************************)
(* That the rows of the silences table and the audit trail tell the truth, *)
(* for any number of workers, desks, peers and upsets.  Alertmanager only  *)
(* ever adds to its silences and ends them (Grows), so what was true of    *)
(* one when its answer came stays true until the answer is recorded; and   *)
(* an operation is begun once, is in one desk's hands at most, and of one  *)
(* that was queued the effect is still there until its row is.             *)
(***************************************************************************)

PeerSet == { Peers[n] : n \in DOMAIN Peers }

Silence == [ of : Asks, active : BOOLEAN, asAsked : BOOLEAN, known : SUBSET PeerSet ]

Callers == Workers \cup Desks

(* Silences are added and end; whose they are stays, and one that does not *)
(* end as it was asked to never will.                                      *)
GrowsTo(after) ==
  /\ DOMAIN silences \subseteq DOMAIN after
  /\ \A i \in DOMAIN silences :
       /\ after[i].of = silences[i].of
       /\ after[i].active => silences[i].active
       /\ after[i].asAsked => silences[i].asAsked

Prolonged == \E i \in DOMAIN silences : ~silences[i].asAsked

Typed == TypeOK /\ silences \in Seq(Silence)

(* What is asked of a silence is asked of one there is.                    *)
Meant(op) == op.kind # "create" => op.of \in DOMAIN silences

Begins ==
  /\ \A op \in begun : Meant(op)
  /\ \A op \in queued : op.kind # "extend"
  /\ DOMAIN queue \subseteq queued
  /\ \A c \in Callers : callers[c].pc # "idle" => callers[c].op \in begun

(* What a success an answer brought means.                                 *)
Came(op, id) ==
  CASE op.kind = "create" -> id \in DOMAIN silences /\ silences[id].of = op.of
    [] op.kind = "expire" -> op.of \in DOMAIN silences /\ ~silences[op.of].active
    [] OTHER              -> Prolonged

WorkerIsTrue(x) ==
  /\ x.pc # "run"
  /\ x.pc # "idle" => x.op \in queued
  /\ x.pc = "returned" /\ x.result = "ok" => Came(x.op, x.id)

DeskIsTrue(x) ==
  /\ x.pc = "calling" => x.op.kind = "extend"
  /\ x.pc = "run" => x.op \notin queued
  /\ x.pc = "returned" =>
       /\ x.op.kind # "extend" => (x.result = "ok" <=> x.op \in queued)
       /\ x.op.kind = "extend" /\ x.result = "ok" => Prolonged

(* An operation is in one desk's hands, and then not in the trail.         *)
InOneHand ==
  \A t \in Desks : callers[t].pc # "idle" =>
    /\ \A u \in Desks : u # t /\ callers[u].pc # "idle" => callers[u].op # callers[t].op
    /\ \A e \in trail : e.op # callers[t].op

CallersAreTrue ==
  /\ \A w \in Workers : WorkerIsTrue(callers[w])
  /\ \A t \in Desks : DeskIsTrue(callers[t])

(* A row's effect was queued and is not any more.                          *)
RowsFollow ==
  \A i \in DOMAIN links : Asked(silences[i].of) \in queued \ DOMAIN queue

(* Every try of an effect that was not one of MaxTries cost an upset.      *)
Abandoned(op) ==
  /\ queue[op].holder # None
  /\ callers[queue[op].holder].pc = "idle" \/ callers[queue[op].holder].op # op

TriesPaid ==
  \A op \in DOMAIN queue :
    /\ queue[op].tries =< MaxTries + upsets
    /\ queue[op].holder = None \/ Abandoned(op) => queue[op].tries < MaxTries + upsets

IInv ==
  /\ Typed /\ Begins /\ CallersAreTrue /\ InOneHand /\ RowsFollow /\ TriesPaid
  /\ RowsTellTruth /\ TrailTellsTruth

-----------------------------------------------------------------------------
(* The silences as a sequence.                                             *)
LEMMA SilencesAre ==
  ASSUME NEW s \in Seq(Silence)
  PROVE  /\ Len(s) \in Nat /\ DOMAIN s = 1..Len(s) /\ s = [ i \in DOMAIN s |-> s[i] ]
         /\ \A i \in DOMAIN s : s[i] \in Silence
BY LenProperties

LEMMA SequenceOf ==
  ASSUME NEW s \in Seq(Silence), NEW after, after \in [ DOMAIN s -> Silence ]
  PROVE  after \in Seq(Silence) /\ DOMAIN after = DOMAIN s
<1>1. Len(s) \in Nat /\ DOMAIN s = 1..Len(s)
  BY SilencesAre
<1>2. after \in [ 1..Len(s) -> Silence ]
  BY <1>1
<1> QED BY <1>1, <1>2, SeqDef

LEMMA Lengthened ==
  ASSUME NEW s \in Seq(Silence), NEW new \in Silence
  PROVE  /\ Append(s, new) \in Seq(Silence)
         /\ DOMAIN s \subseteq DOMAIN Append(s, new)
         /\ Len(s) + 1 \in DOMAIN Append(s, new) /\ Append(s, new)[Len(s) + 1] = new
         /\ \A i \in DOMAIN s : Append(s, new)[i] = s[i]
<1>1. Len(s) \in Nat /\ DOMAIN s = 1..Len(s)
  BY SilencesAre
<1>2. /\ Append(s, new) \in Seq(Silence) /\ Len(Append(s, new)) = Len(s) + 1
      /\ \A i \in 1..Len(s) : Append(s, new)[i] = s[i]
      /\ Append(s, new)[Len(s) + 1] = new
  BY <1>1, AppendProperties
<1>3. DOMAIN Append(s, new) = 1..(Len(s) + 1)
  BY <1>2, LenProperties
<1> QED BY <1>1, <1>2, <1>3

LEMMA GrowsToItself ==
  ASSUME Typed
  PROVE  GrowsTo(silences)
BY DEF GrowsTo

(* What Alertmanager answers, and what a success says.                     *)
LEMMA AnswersAre ==
  ASSUME Typed, NEW op \in Ops, Meant(op), NEW peer \in PeerSet, NEW answer \in Answers(op, peer)
  PROVE  /\ answer.silences \in Seq(Silence) /\ GrowsTo(answer.silences)
         /\ answer.code \in {"ok", "4xx", "5xx"}
         /\ answer.code = "ok" =>
              CASE op.kind = "create" ->
                     answer.id \in DOMAIN answer.silences /\ answer.silences[answer.id].of = op.of
                [] op.kind = "expire" -> op.of \in DOMAIN answer.silences /\ ~answer.silences[op.of].active
                [] OTHER -> \E i \in DOMAIN answer.silences : ~answer.silences[i].asAsked
<1> DEFINE i == op.of
<1>0. /\ silences \in Seq(Silence) /\ DOMAIN silences = 1..Len(silences) /\ Len(silences) \in Nat
      /\ \A j \in DOMAIN silences : silences[j] \in Silence
  BY SilencesAre DEF Typed
<1>1. ASSUME NEW codes, codes \subseteq {"ok", "4xx", "5xx"},
             answer \in { [ code |-> c, id |-> i, silences |-> silences ] : c \in codes }
      PROVE  /\ answer.silences = silences /\ answer.code \in codes
             /\ answer.silences \in Seq(Silence) /\ GrowsTo(answer.silences)
             /\ answer.code \in {"ok", "4xx", "5xx"}
  BY <1>0, <1>1, GrowsToItself
<1>2. ASSUME NEW new \in Silence, NEW a,
             a = [ code |-> "ok", id |-> Len(silences) + 1, silences |-> Append(silences, new) ]
      PROVE  /\ a.silences \in Seq(Silence) /\ GrowsTo(a.silences) /\ a.code = "ok"
             /\ a.id \in DOMAIN a.silences /\ a.silences[a.id] = new
  BY <1>0, <1>2, Lengthened DEF GrowsTo
<1>3. CASE op.kind = "create"
  <2>1. i \in Asks /\ New(i, peer) \in Silence /\ New(i, peer).of = i
    <3>1. i \in Asks
      BY <1>3 DEF Ops
    <3> QED BY <3>1 DEF New, Silence
  <2>2. CASE i \in lapsed
    <3>1. answer \in { [ code |-> c, id |-> i, silences |-> silences ] : c \in {"4xx"} }
      BY <1>3, <2>2 DEF Answers
    <3>2. {"4xx"} \subseteq {"ok", "4xx", "5xx"} /\ "ok" \notin {"4xx"}
      OBVIOUS
    <3> QED BY <1>1, <3>1, <3>2
  <2>3. CASE i \notin lapsed
    <3>1. answer = [ code |-> "ok", id |-> Len(silences) + 1, silences |-> Append(silences, New(i, peer)) ]
      BY <1>3, <2>3 DEF Answers
    <3> QED BY <1>2, <1>3, <2>1, <3>1
  <2> QED BY <2>2, <2>3
<1>4. CASE op.kind # "create"
  <2>0. i \in DOMAIN silences /\ silences[i] \in Silence /\ op.kind \in {"expire", "extend"}
    BY <1>0, <1>4 DEF Meant, Ops
  <2>1. CASE peer \notin silences[i].known
    <3>1. answer \in { [ code |-> c, id |-> i, silences |-> silences ] : c \in {"4xx"} }
      BY <1>4, <2>1 DEF Answers
    <3>2. {"4xx"} \subseteq {"ok", "4xx", "5xx"} /\ "ok" \notin {"4xx"}
      OBVIOUS
    <3> QED BY <1>1, <3>1, <3>2
  <2>2. CASE peer \in silences[i].known /\ op.kind = "expire" /\ silences[i].active
    <3> DEFINE after == [ silences EXCEPT ![i].active = FALSE ]
    <3>1. answer = [ code |-> "ok", id |-> i, silences |-> after ]
      BY <2>2 DEF Answers
    <3>2. after \in [ DOMAIN silences -> Silence ]
      BY <1>0, <2>0 DEF Silence
    <3>3. after \in Seq(Silence) /\ DOMAIN after = DOMAIN silences
      BY <1>0, <3>2, SequenceOf
    <3>4. GrowsTo(after) /\ ~after[i].active
      BY <1>0, <2>0, <3>3 DEF GrowsTo, Silence
    <3> HIDE DEF after
    <3> QED BY <2>0, <2>2, <3>1, <3>3, <3>4
  <2>3. CASE peer \in silences[i].known /\ op.kind = "expire" /\ ~silences[i].active
    <3>1. answer \in { [ code |-> c, id |-> i, silences |-> silences ] : c \in {"ok", "4xx", "5xx"} }
      BY <2>3 DEF Answers
    <3> QED BY <1>1, <2>0, <2>3, <3>1
  <2>4. CASE peer \in silences[i].known /\ op.kind = "extend" /\ silences[i].active
    <3> DEFINE after == [ silences EXCEPT ![i].asAsked = FALSE ]
    <3>1. answer = [ code |-> "ok", id |-> i, silences |-> after ]
      BY <2>4 DEF Answers
    <3>2. after \in [ DOMAIN silences -> Silence ]
      BY <1>0, <2>0 DEF Silence
    <3>3. after \in Seq(Silence) /\ DOMAIN after = DOMAIN silences
      BY <1>0, <3>2, SequenceOf
    <3>4. GrowsTo(after) /\ ~after[i].asAsked
      BY <1>0, <2>0, <3>3 DEF GrowsTo, Silence
    <3> HIDE DEF after
    <3> QED BY <2>0, <2>4, <3>1, <3>3, <3>4
  <2>5. CASE peer \in silences[i].known /\ op.kind = "extend" /\ ~silences[i].active
    <3> DEFINE new == [ New(silences[i].of, peer) EXCEPT !.asAsked = FALSE ]
    <3>1. answer = [ code |-> "ok", id |-> Len(silences) + 1, silences |-> Append(silences, new) ]
      BY <2>5 DEF Answers
    <3>2. new \in Silence /\ ~new.asAsked
      BY <2>0 DEF New, Silence
    <3> HIDE DEF new
    <3>3. /\ answer.silences \in Seq(Silence) /\ GrowsTo(answer.silences) /\ answer.code = "ok"
          /\ answer.id \in DOMAIN answer.silences /\ answer.silences[answer.id] = new
      BY <1>2, <3>1, <3>2
    <3>4. \E j \in DOMAIN answer.silences : ~answer.silences[j].asAsked
      BY <3>2, <3>3
    <3> QED BY <2>5, <3>3, <3>4
  <2> QED BY <2>0, <2>1, <2>2, <2>3, <2>4, <2>5
<1> QED BY <1>3, <1>4

-----------------------------------------------------------------------------
(* One thing changes hands.                                                *)
LEMMA PutIs ==
  ASSUME Typed, NEW c \in Callers, NEW x, Put(c, x)
  PROVE  /\ DOMAIN callers' = Callers /\ callers'[c] = x
         /\ \A d \in Callers : d # c => callers'[d] = callers[d]
BY DEF Typed, TypeOK, Put, Callers

LEMMA CallerIs ==
  ASSUME Typed, NEW c \in Callers
  PROVE  /\ callers[c] \in Caller /\ callers[c].op \in Ops \cup {None}
         /\ callers[c].at \in DOMAIN Peers /\ callers[c].round \in 1..Rounds
BY DEF Typed, TypeOK, Callers, Caller

LEMMA IdleIs ==
  /\ Idle \in Caller /\ Idle.pc = "idle" /\ Idle.op = None
  /\ \A op \in Ops : Calling(op) \in Caller /\ Calling(op).pc = "calling" /\ Calling(op).op = op
<1>1. 1 \in DOMAIN Peers /\ 1 \in 1..Rounds
  BY SilencingAssumption
<1>2. Idle \in Caller /\ Idle.pc = "idle" /\ Idle.op = None
  BY <1>1 DEF Idle, Caller, Results
<1>3. \A op \in Ops : Calling(op) \in Caller /\ Calling(op).pc = "calling" /\ Calling(op).op = op
  BY <1>2 DEF Calling, Caller
<1> QED BY <1>2, <1>3

(* The types, when no more than this changes.                              *)
LEMMA StaysTyped ==
  ASSUME Typed, UNCHANGED <<queue, links, begun, queued, trail>>,
         silences' \in Seq(Silence), GrowsTo(silences'), lapsed' \subseteq Asks,
         DOMAIN callers' = Callers, \A c \in Callers : callers'[c] \in Caller,
         missed' \subseteq DOMAIN silences', upsets' \in 0..Upsets, upsets =< upsets'
  PROVE  Typed'
<1>1. DOMAIN links' \subseteq DOMAIN silences'
  BY DEF Typed, TypeOK, GrowsTo
<1>2. \A i \in DOMAIN silences' : silences'[i] \in Silence
  BY SilencesAre
<1> QED BY <1>1, <1>2 DEF Typed, TypeOK, Silence, PeerSet, Callers

LEMMA Meanwhile ==
  ASSUME Typed, GrowsTo(silences')
  PROVE  /\ \A op : Meant(op) => Meant(op)'
         /\ Prolonged => Prolonged'
         /\ \A op, id : Came(op, id) => Came(op, id)'
<1>1. \A op : Meant(op) => Meant(op)'
  BY DEF Meant, GrowsTo
<1>2. Prolonged => Prolonged'
  BY DEF Prolonged, GrowsTo
<1>3. \A op, id : Came(op, id) => Came(op, id)'
  BY <1>2 DEF Came, GrowsTo
<1> QED BY <1>1, <1>2, <1>3

(* An attempt: of the request, what the next lemmas need.                  *)
LEMMA Requested ==
  ASSUME Typed, NEW c \in Callers, NEW op \in Ops, callers[c].op = op, Meant(op),
         NEW code \in Codes, NEW id \in Nat, Request(c, code, id)
  PROVE  /\ silences' \in Seq(Silence) /\ GrowsTo(silences')
         /\ missed' \subseteq DOMAIN silences'
         /\ upsets' \in 0..Upsets /\ upsets =< upsets'
         /\ code = "ok" => Came(op, id)'
<1> DEFINE peer == Peers[callers[c].at]
<1>1. peer \in PeerSet
  BY CallerIs DEF PeerSet
<1>2. upsets \in 0..Upsets /\ Upsets \in Nat
  BY SilencingAssumption DEF Typed, TypeOK
<1>3. UNCHANGED upsets \/ Upset => upsets' \in 0..Upsets /\ upsets =< upsets'
  BY <1>2 DEF Upset
<1>4. CASE code = "unreachable" /\ id = 0 /\ Upset /\ UNCHANGED <<silences, missed>>
  <2>1. silences' \in Seq(Silence) /\ GrowsTo(silences') /\ missed' \subseteq DOMAIN silences'
    BY <1>4, GrowsToItself DEF Typed, TypeOK
  <2> QED BY <1>3, <1>4, <2>1
<1>5. CASE \E answer \in Answers(op, peer) :
           /\ silences' = answer.silences
           /\ missed' = IF op.kind = "expire" /\ peer \notin silences[op.of].known
                          THEN missed \cup {op.of} ELSE missed
           /\ id = IF op.kind = "create" /\ code = "ok" THEN answer.id ELSE 0
           /\ \/ code = answer.code /\ UNCHANGED upsets
              \/ code = "timeout" /\ Upset
              \/ code = "garbled" /\ answer.code = "ok" /\ op.kind # "expire" /\ Upset
  <2>1. PICK answer \in Answers(op, peer) :
           /\ silences' = answer.silences
           /\ missed' = IF op.kind = "expire" /\ peer \notin silences[op.of].known
                          THEN missed \cup {op.of} ELSE missed
           /\ id = IF op.kind = "create" /\ code = "ok" THEN answer.id ELSE 0
           /\ \/ code = answer.code /\ UNCHANGED upsets
              \/ code = "timeout" /\ Upset
              \/ code = "garbled" /\ answer.code = "ok" /\ op.kind # "expire" /\ Upset
    BY <1>5
  <2> HIDE DEF peer
  <2>3. silences' \in Seq(Silence) /\ GrowsTo(silences')
    BY <1>1, <2>1, AnswersAre
  <2>4. missed' \subseteq DOMAIN silences'
    <3>1. missed \subseteq DOMAIN silences /\ DOMAIN silences \subseteq DOMAIN silences'
      BY <2>3 DEF Typed, TypeOK, GrowsTo
    <3>2. op.kind = "expire" => op.of \in DOMAIN silences
      BY DEF Meant
    <3> QED BY <2>1, <3>1, <3>2
  <2>5. ASSUME code = "ok"
        PROVE  Came(op, id)'
    <3>1. answer.code = "ok" /\ (op.kind = "create" => id = answer.id)
      BY <2>1, <2>5
    <3>2. /\ op.kind = "create" => answer.id \in DOMAIN silences' /\ silences'[answer.id].of = op.of
          /\ op.kind = "expire" => op.of \in DOMAIN silences' /\ ~silences'[op.of].active
          /\ op.kind \notin {"create", "expire"} => \E i \in DOMAIN silences' : ~silences'[i].asAsked
      BY <1>1, <2>1, <3>1, AnswersAre
    <3> QED BY <3>1, <3>2 DEF Came, Prolonged
  <2> QED BY <1>3, <2>1, <2>3, <2>4, <2>5
<1> QED BY <1>4, <1>5 DEF Request

(* The rows and the trail, when no more than this changes.                 *)
LEMMA RowsStay ==
  ASSUME IInv, Typed', GrowsTo(silences'), links' = links, queued \subseteq queued',
         \A op \in queued \ DOMAIN queue : op \notin DOMAIN queue',
         \A i \in DOMAIN links' : links'[i] = "expired" => ~silences[i].active
  PROVE  RowsFollow' /\ RowsTellTruth'
<1>1. \A i \in DOMAIN links : i \in DOMAIN silences /\ silences'[i].of = silences[i].of
  BY DEF IInv, Typed, TypeOK, GrowsTo
<1>2. RowsFollow'
  BY <1>1 DEF IInv, RowsFollow, Asked
<1>3. OverIsOver' /\ CreditedOnce'
  BY <1>1 DEF IInv, RowsTellTruth, OverIsOver, CreditedOnce, GrowsTo
<1> QED BY <1>2, <1>3 DEF RowsTellTruth

(* A caller goes on with the operation it has.                             *)
LEMMA GoesOn ==
  ASSUME IInv, Typed', GrowsTo(silences'), NEW c \in Callers, callers[c].pc # "idle",
         NEW x, Put(c, x), x.op = callers[c].op, x.pc \in {"calling", "returned"},
         c \in Workers => WorkerIsTrue(x)', c \in Desks => DeskIsTrue(x)',
         UNCHANGED <<queue, links, begun, queued, trail>>, upsets =< upsets'
  PROVE  IInv'
<1>1. /\ callers'[c] = x /\ \A d \in Callers : d # c => callers'[d] = callers[d]
      /\ \A d \in Callers : callers'[d].op = callers[d].op
      /\ \A d \in Callers : callers'[d].pc = "idle" <=> callers[d].pc = "idle"
  BY PutIs DEF IInv
<1>2. Begins'
  BY <1>1, Meanwhile DEF IInv, Begins
<1>3. CallersAreTrue'
  <2>1. \A w \in Workers : w # c => WorkerIsTrue(callers[w])'
    BY <1>1, Meanwhile DEF IInv, CallersAreTrue, WorkerIsTrue, Callers
  <2>2. \A t \in Desks : t # c => DeskIsTrue(callers[t])'
    BY <1>1, Meanwhile DEF IInv, CallersAreTrue, DeskIsTrue, Callers
  <2> QED BY <1>1, <2>1, <2>2 DEF CallersAreTrue
<1>4. InOneHand'
  BY <1>1 DEF IInv, InOneHand, Callers
<1>5. RowsFollow' /\ RowsTellTruth'
  BY RowsStay DEF IInv, RowsTellTruth, OverIsOver
<1>6. TriesPaid'
  <2>1. \A op \in DOMAIN queue : queue[op].holder = None \/ queue[op].holder \in Callers
    BY DEF IInv, Typed, TypeOK, Callers
  <2>2. \A op \in DOMAIN queue : Abandoned(op)' => Abandoned(op)
    BY <1>1, <2>1 DEF Abandoned
  <2>3. upsets \in Nat /\ upsets' \in Nat /\ MaxTries \in Nat /\ \A op \in DOMAIN queue : queue[op].tries \in Nat
    BY SilencingAssumption DEF IInv, Typed, TypeOK
  <2> QED BY <2>2, <2>3 DEF IInv, TriesPaid
<1>7. TrailTellsTruth'
  <2>1. \A e \in trail : e.op.kind = "extend" /\ e.result = "ok" => Prolonged
    BY DEF IInv, TrailTellsTruth, Prolonged
  <2>2. Prolonged => Prolonged'
    BY Meanwhile DEF IInv
  <2>3. \A e \in trail : e.op.kind # "extend" => (e.result = "ok" <=> e.op \in queued)
    BY DEF IInv, TrailTellsTruth
  <2> QED BY <2>1, <2>2, <2>3 DEF TrailTellsTruth, Prolonged
<1> QED BY <1>2, <1>3, <1>4, <1>5, <1>6, <1>7 DEF IInv

LEMMA Attempted ==
  ASSUME IInv, NEW c \in Callers, Attempt(c)
  PROVE  IInv'
<1>1. Typed /\ callers[c] \in Caller /\ callers[c].pc = "calling"
  BY CallerIs DEF IInv, Attempt
<1> PICK op \in Ops : op = callers[c].op
  BY <1>1 DEF IInv, Begins, Typed, TypeOK
<1>2. Meant(op)
  BY <1>1 DEF IInv, Begins
<1>3. PICK code \in Codes, id \in 0..(Len(silences) + 1) :
       /\ Request(c, code, id)
       /\ \/ ~Retryable(code) /\ Returned(c, code, id)
          \/ /\ Retryable(code) /\ callers[c].at < Len(Peers)
             /\ Put(c, [ callers[c] EXCEPT !.at = @ + 1 ])
          \/ /\ Retryable(code) /\ callers[c].at = Len(Peers)
             /\ \/ Returned(c, code, 0)
                \/ /\ callers[c].round < Rounds
                   /\ Put(c, [ callers[c] EXCEPT !.at = 1, !.round = @ + 1 ])
  BY DEF Attempt
<1>4. UNCHANGED <<lapsed, queue, links, begun, queued, trail>>
  BY DEF Attempt, people
<1>5. id \in Nat /\ "ok" \notin {"5xx", "unreachable", "timeout"}
  BY <1>1, SilencesAre DEF Typed
<1>6. /\ silences' \in Seq(Silence) /\ GrowsTo(silences') /\ missed' \subseteq DOMAIN silences'
      /\ upsets' \in 0..Upsets /\ upsets =< upsets'
      /\ code = "ok" => Came(op, id)'
  BY <1>1, <1>2, <1>3, <1>5, Requested
<1>7. PICK x \in Caller : /\ Put(c, x) /\ x.op = op /\ x.pc \in {"calling", "returned"}
                          /\ x.pc = "returned" => x.result = code /\ (code = "ok" => x.id = id)
  <2>1. code \in Results
    BY DEF Results
  <2>2. CASE Returned(c, code, id)
    <3> DEFINE x == [ callers[c] EXCEPT !.pc = "returned", !.result = code, !.id = id ]
    <3>1. x \in Caller /\ x.op = op /\ x.pc = "returned" /\ x.result = code /\ x.id = id
      BY <1>1, <1>5, <2>1 DEF Caller
    <3> QED BY <2>2, <3>1 DEF Returned
  <2>3. CASE Retryable(code) /\ Returned(c, code, 0)
    <3> DEFINE x == [ callers[c] EXCEPT !.pc = "returned", !.result = code, !.id = 0 ]
    <3>1. x \in Caller /\ x.op = op /\ x.pc = "returned" /\ x.result = code
      BY <1>1, <2>1 DEF Caller
    <3>2. code # "ok"
      BY <1>5, <2>3 DEF Retryable
    <3> QED BY <2>3, <3>1, <3>2 DEF Returned
  <2>4. CASE callers[c].at < Len(Peers) /\ Put(c, [ callers[c] EXCEPT !.at = @ + 1 ])
    <3> DEFINE x == [ callers[c] EXCEPT !.at = @ + 1 ]
    <3>1. callers[c].at + 1 \in DOMAIN Peers
      BY <1>1, <2>4, CallerIs, SilencingAssumption
    <3>2. x \in Caller /\ x.op = op /\ x.pc = "calling"
      BY <1>1, <3>1 DEF Caller
    <3> QED BY <2>4, <3>2
  <2>5. CASE callers[c].round < Rounds /\ Put(c, [ callers[c] EXCEPT !.at = 1, !.round = @ + 1 ])
    <3> DEFINE x == [ callers[c] EXCEPT !.at = 1, !.round = @ + 1 ]
    <3>1. callers[c].round + 1 \in 1..Rounds /\ 1 \in DOMAIN Peers
      BY <1>1, <2>5, CallerIs, SilencingAssumption
    <3>2. x \in Caller /\ x.op = op /\ x.pc = "calling"
      BY <1>1, <3>1 DEF Caller
    <3> QED BY <2>5, <3>2
  <2> QED BY <1>3, <2>2, <2>3, <2>4, <2>5
<1>8. Typed'
  <2>1. DOMAIN callers' = Callers /\ \A d \in Callers : callers'[d] \in Caller
    BY <1>1, <1>7, PutIs, CallerIs
  <2>2. lapsed' \subseteq Asks
    BY <1>1, <1>4 DEF Typed, TypeOK
  <2> QED BY <1>1, <1>4, <1>6, <2>1, <2>2, StaysTyped
<1>9. x.pc = "returned" /\ x.result = "ok" => Came(x.op, x.id)'
  BY <1>6, <1>7
<1>10. ASSUME c \in Workers
       PROVE  WorkerIsTrue(x)'
  BY <1>1, <1>4, <1>7, <1>9, <1>10 DEF IInv, CallersAreTrue, WorkerIsTrue
<1>11. ASSUME c \in Desks
       PROVE  DeskIsTrue(x)'
  <2>1. op.kind = "extend"
    BY <1>1, <1>11 DEF IInv, CallersAreTrue, DeskIsTrue
  <2>2. x.pc = "returned" /\ x.result = "ok" => Prolonged'
    BY <1>7, <1>9, <2>1 DEF Came
  <2> QED BY <1>7, <2>1, <2>2 DEF DeskIsTrue
<1> QED BY <1>1, <1>4, <1>6, <1>7, <1>8, <1>10, <1>11, GoesOn

(* A desk that is refused or fails, or has its silence looked up.          *)
LEMMA Looked ==
  ASSUME IInv, NEW t \in Desks, Refuse(t) \/ RunFails(t) \/ LookUp(t)
  PROVE  IInv'
<1>1. /\ Typed /\ t \in Callers /\ callers[t] \in Caller /\ callers[t].pc = "run"
      /\ callers[t].op \in Ops /\ callers[t].op \notin queued
  <2>1. t \in Callers /\ callers[t].pc = "run" /\ Typed
    BY DEF Refuse, RunFails, LookUp, Callers, IInv
  <2>2. callers[t].op \in begun /\ callers[t].op \notin queued
    BY <2>1 DEF IInv, Begins, CallersAreTrue, DeskIsTrue
  <2> QED BY <2>1, <2>2, CallerIs DEF Typed, TypeOK
<1>2. /\ UNCHANGED <<silences, lapsed, queue, links, begun, queued, trail, missed>>
      /\ upsets' \in 0..Upsets /\ upsets =< upsets'
  BY SilencingAssumption DEF Refuse, RunFails, LookUp, people, Upset, IInv, Typed, TypeOK
<1>3. GrowsTo(silences') /\ silences' \in Seq(Silence)
  BY <1>1, <1>2, GrowsToItself DEF Typed
<1>4. PICK x \in Caller : /\ Put(t, x) /\ x.op = callers[t].op
                          /\ \/ x.pc = "returned" /\ x.result # "ok"
                             \/ x.pc = "calling" /\ x.op.kind = "extend"
  <2>1. ASSUME NEW result \in {"refused", "5xx"}, Returned(t, result, 0)
        PROVE  \E x \in Caller : Put(t, x) /\ x.op = callers[t].op /\ x.pc = "returned" /\ x.result # "ok"
    <3> DEFINE x == [ callers[t] EXCEPT !.pc = "returned", !.result = result, !.id = 0 ]
    <3>1. x \in Caller /\ x.op = callers[t].op /\ x.pc = "returned" /\ x.result # "ok"
      BY <1>1 DEF Caller, Results, Codes
    <3> QED BY <2>1, <3>1 DEF Returned
  <2>2. ASSUME callers[t].op.kind = "extend", Put(t, Calling(callers[t].op))
        PROVE  \E x \in Caller : Put(t, x) /\ x.op = callers[t].op /\ x.pc = "calling" /\ x.op.kind = "extend"
    BY <1>1, <2>2, IdleIs
  <2> QED BY <2>1, <2>2 DEF Refuse, RunFails, LookUp
<1>5. Typed'
  <2>1. DOMAIN callers' = Callers /\ \A d \in Callers : callers'[d] \in Caller
    BY <1>1, <1>4, PutIs, CallerIs
  <2> QED BY <1>1, <1>2, <1>3, <2>1, StaysTyped DEF Typed, TypeOK
<1>6. DeskIsTrue(x)' /\ t \notin Workers
  BY <1>1, <1>2, <1>4, SilencingAssumption DEF DeskIsTrue
<1> QED BY <1>1, <1>2, <1>3, <1>4, <1>5, <1>6, GoesOn

(* The other callers, while one moves and an operation may be queued that  *)
(* none of them has.                                                       *)
LEMMA OthersStayTrue ==
  ASSUME IInv, NEW c, \A d \in Callers : d # c => callers'[d] = callers[d],
         UNCHANGED silences, queued \subseteq queued',
         \A t \in Desks : t # c /\ callers[t].pc # "idle" /\ callers[t].op \in queued' => callers[t].op \in queued
  PROVE  /\ \A w \in Workers : w # c => WorkerIsTrue(callers[w])'
         /\ \A t \in Desks : t # c => DeskIsTrue(callers[t])'
<1>1. GrowsTo(silences') /\ Typed
  BY GrowsToItself DEF IInv
<1>2. \A w \in Workers : w # c => WorkerIsTrue(callers[w])'
  BY <1>1, Meanwhile DEF IInv, CallersAreTrue, WorkerIsTrue, Callers
<1>3. \A t \in Desks : t # c => DeskIsTrue(callers[t])'
  BY <1>1, Meanwhile DEF IInv, CallersAreTrue, DeskIsTrue, Callers
<1> QED BY <1>2, <1>3

LEMMA Holder ==
  ASSUME Typed, NEW op \in DOMAIN queue
  PROVE  /\ op \in Ops /\ queue[op] \in [ tries : 0..(MaxTries + Upsets), holder : Workers \cup {None} ]
         /\ queue[op].tries \in Nat /\ queue[op].holder \in Workers \cup {None}
         /\ queue[op].holder # None => queue[op].holder \in Workers /\ queue[op].holder \notin Desks
<1>1. /\ op \in Ops /\ queue[op] \in [ tries : 0..(MaxTries + Upsets), holder : Workers \cup {None} ]
      /\ queue[op].tries \in 0..(MaxTries + Upsets) /\ queue[op].holder \in Workers \cup {None}
  BY DEF Typed, TypeOK
<1> QED BY <1>1, SilencingAssumption

LEMMA Counted ==
  ASSUME Typed
  PROVE  MaxTries \in Nat \ {0} /\ Upsets \in Nat /\ upsets \in Nat /\ upsets =< Upsets
         /\ (Upset => upsets' = upsets + 1 /\ upsets' \in 0..Upsets)
BY SilencingAssumption DEF Typed, TypeOK, Upset

(* TriesPaid, when the queue stays and no claim is abandoned.              *)
LEMMA TriesStayPaid ==
  ASSUME Typed, TriesPaid, UNCHANGED <<queue, upsets>>,
         \A w \in Workers : callers'[w] = callers[w]
  PROVE  TriesPaid'
<1>1. \A op \in DOMAIN queue : Abandoned(op)' => Abandoned(op)
  BY Holder DEF Abandoned
<1> QED BY <1>1 DEF TriesPaid

LEMMA Began ==
  ASSUME IInv, NEW t \in Desks, NEW op \in Ops, Begun(t, op), Meant(op)
  PROVE  IInv'
<1>1. /\ Typed /\ t \in Callers /\ callers[t].pc = "idle" /\ op \notin begun /\ op \notin queued
      /\ begun' = begun \cup {op}
      /\ UNCHANGED <<silences, lapsed, queue, links, queued, trail, missed, upsets>>
  BY DEF Begun, Callers, IInv, Typed, TypeOK
<1>2. PICK x \in Caller : /\ Put(t, x) /\ x.op = op
                          /\ x.pc \in {"run", "returned"} /\ x.result # "ok"
  <2>1. PICK allowed \in BOOLEAN :
          Put(t, [ Idle EXCEPT !.op = op, !.pc = IF allowed THEN "run" ELSE "returned",
                               !.result = IF allowed THEN "none" ELSE "denied" ])
    BY DEF Begun
  <2> DEFINE x == [ Idle EXCEPT !.op = op, !.pc = IF allowed THEN "run" ELSE "returned",
                                !.result = IF allowed THEN "none" ELSE "denied" ]
  <2>2. x \in Caller /\ x.op = op /\ x.pc = (IF allowed THEN "run" ELSE "returned")
        /\ x.result = IF allowed THEN "none" ELSE "denied"
    BY IdleIs DEF Caller, Results
  <2>3. Put(t, x)
    BY <2>1
  <2> HIDE DEF x
  <2> QED BY <2>2, <2>3
<1>3. /\ DOMAIN callers' = Callers /\ callers'[t] = x
      /\ \A d \in Callers : d # t => callers'[d] = callers[d]
  BY <1>1, <1>2, PutIs
<1>4. Typed'
  BY <1>1, <1>3, CallerIs DEF Typed, TypeOK, Callers
<1>5. Begins'
  BY <1>1, <1>2, <1>3 DEF IInv, Begins, Meant
<1>6. CallersAreTrue'
  <2>1. t \notin Workers
    BY SilencingAssumption
  <2>2. DeskIsTrue(callers[t])'
    BY <1>1, <1>2, <1>3 DEF DeskIsTrue
  <2>3. /\ \A w \in Workers : w # t => WorkerIsTrue(callers[w])'
        /\ \A u \in Desks : u # t => DeskIsTrue(callers[u])'
    BY <1>1, <1>3, OthersStayTrue
  <2> QED BY <2>1, <2>2, <2>3 DEF CallersAreTrue
<1>7. InOneHand'
  <2>1. \A u \in Desks : u # t /\ callers[u].pc # "idle" => callers[u].op # op
    BY <1>1 DEF IInv, Begins, Callers
  <2>2. \A e \in trail : e.op # op
    BY <1>1 DEF Typed, TypeOK
  <2> QED BY <1>1, <1>2, <1>3, <2>1, <2>2 DEF IInv, InOneHand, Callers
<1>8. RowsFollow' /\ RowsTellTruth' /\ TrailTellsTruth'
  BY <1>1 DEF IInv, RowsFollow, RowsTellTruth, OverIsOver, CreditedOnce, TrailTellsTruth
<1>9. TriesPaid'
  <2>1. \A w \in Workers : callers'[w] = callers[w]
    BY <1>3, SilencingAssumption DEF Callers
  <2> QED BY <1>1, <2>1, TriesStayPaid DEF IInv
<1> QED BY <1>4, <1>5, <1>6, <1>7, <1>8, <1>9 DEF IInv

LEMMA QueuedIt ==
  ASSUME IInv, NEW t \in Desks, QueueSilence(t) \/ QueueExpiry(t)
  PROVE  IInv'
<1>1. /\ Typed /\ t \in Callers /\ t \notin Workers /\ callers[t] \in Caller /\ callers[t].pc = "run"
      /\ callers[t].op \in begun /\ callers[t].op \notin queued /\ callers[t].op \in Ops
      /\ callers[t].op.kind # "extend" /\ Enqueued(t)
  <2>1. t \in Callers /\ t \notin Workers /\ callers[t].pc = "run" /\ Typed /\ callers[t].op.kind # "extend"
        /\ Enqueued(t)
    BY SilencingAssumption DEF QueueSilence, QueueExpiry, Callers, IInv
  <2>2. callers[t].op \in begun /\ callers[t].op \notin queued
    BY <2>1 DEF IInv, Begins, CallersAreTrue, DeskIsTrue
  <2> QED BY <2>1, <2>2, CallerIs DEF Typed, TypeOK
<1> PICK op \in Ops : op = callers[t].op
  BY <1>1
<1> DEFINE fresh == [ tries |-> 0, holder |-> None ]
           x == [ callers[t] EXCEPT !.pc = "returned", !.result = "ok", !.id = 0 ]
<1>2. /\ queue' = [ q \in DOMAIN queue \cup {op} |-> IF q = op THEN fresh ELSE queue[q] ]
      /\ queued' = queued \cup {op} /\ Put(t, x)
      /\ UNCHANGED <<silences, lapsed, links, begun, trail, missed, upsets>>
  BY <1>1 DEF Enqueued, Returned
<1>3. x \in Caller /\ x.op = op /\ x.pc = "returned" /\ x.result = "ok"
  BY <1>1 DEF Caller, Results, Codes
<1> HIDE DEF x
<1>4. /\ DOMAIN callers' = Callers /\ callers'[t] = x
      /\ \A d \in Callers : d # t => callers'[d] = callers[d]
  BY <1>1, <1>2, PutIs
<1>5. /\ DOMAIN queue' = DOMAIN queue \cup {op} /\ queue'[op] = fresh
      /\ \A q \in DOMAIN queue : q # op => queue'[q] = queue[q]
  BY <1>2
<1>6. fresh \in [ tries : 0..(MaxTries + Upsets), holder : Workers \cup {None} ]
  BY <1>1, Counted
<1>7. Typed'
  <2>1. \A q \in DOMAIN queue' :
          q \in Ops /\ queue'[q] \in [ tries : 0..(MaxTries + Upsets), holder : Workers \cup {None} ]
    BY <1>1, <1>5, <1>6, Holder
  <2>2. DOMAIN callers' = Workers \cup Desks /\ \A c \in DOMAIN callers' : callers'[c] \in Caller
    BY <1>1, <1>3, <1>4, CallerIs DEF Callers
  <2> QED BY <1>1, <1>2, <2>1, <2>2 DEF Typed, TypeOK
<1>8. Begins'
  <2>1. \A c \in Callers : callers'[c].pc # "idle" => callers'[c].op \in begun
    BY <1>1, <1>3, <1>4 DEF IInv, Begins
  <2> QED BY <1>1, <1>2, <1>5, <2>1 DEF IInv, Begins, Meant
<1>9. CallersAreTrue'
  <2>1. DeskIsTrue(callers[t])'
    BY <1>1, <1>2, <1>3, <1>4 DEF DeskIsTrue
  <2>2. \A u \in Desks : u # t /\ callers[u].pc # "idle" => callers[u].op # op
    BY <1>1 DEF IInv, InOneHand
  <2>3. /\ \A w \in Workers : w # t => WorkerIsTrue(callers[w])'
        /\ \A u \in Desks : u # t => DeskIsTrue(callers[u])'
    BY <1>2, <1>4, <2>2, OthersStayTrue
  <2> QED BY <1>1, <2>1, <2>3 DEF CallersAreTrue
<1>10. InOneHand'
  BY <1>1, <1>2, <1>3, <1>4 DEF IInv, InOneHand, Callers
<1>11. RowsFollow'
  BY <1>1, <1>2, <1>5 DEF IInv, RowsFollow
<1>12. RowsTellTruth'
  BY <1>2 DEF IInv, RowsTellTruth, OverIsOver, CreditedOnce
<1>13. TrailTellsTruth'
  <2>1. \A e \in trail : e.op \in queued' <=> e.op \in queued
    BY <1>1, <1>2 DEF IInv, InOneHand
  <2> QED BY <1>2, <2>1 DEF IInv, TrailTellsTruth
<1>14. TriesPaid'
  <2>1. queue'[op].tries = 0 /\ queue'[op].holder = None /\ 0 < MaxTries + upsets
    BY <1>1, <1>5, Counted
  <2>2. ASSUME NEW q \in DOMAIN queue, q # op
        PROVE  queue'[q] = queue[q] /\ (Abandoned(q)' => Abandoned(q))
    BY <1>1, <1>4, <1>5, <2>2, Holder DEF Abandoned, Callers
  <2>3. ASSUME NEW q \in DOMAIN queue'
        PROVE  /\ queue'[q].tries =< MaxTries + upsets
               /\ queue'[q].holder = None \/ Abandoned(q)' => queue'[q].tries < MaxTries + upsets
    <3>1. CASE q = op
      BY <1>1, <2>1, <3>1, Counted
    <3>2. CASE q # op
      BY <1>5, <2>2, <2>3, <3>2 DEF IInv, TriesPaid
    <3> QED BY <3>1, <3>2
  <2> QED BY <1>2, <2>3 DEF TriesPaid
<1> QED BY <1>7, <1>8, <1>9, <1>10, <1>11, <1>12, <1>13, <1>14 DEF IInv

LEMMA Audited ==
  ASSUME IInv, NEW t \in Desks, Audit(t)
  PROVE  IInv'
<1> DEFINE entry == [ op |-> callers[t].op, result |-> Outcome(callers[t].result) ]
<1>1. /\ Typed /\ t \in Callers /\ t \notin Workers /\ callers[t].pc = "returned"
      /\ callers[t].op \in begun /\ Put(t, Idle)
      /\ UNCHANGED <<silences, lapsed, queue, links, begun, queued, missed>>
      /\ \/ trail' = trail \cup {entry} /\ UNCHANGED upsets
         \/ Upset /\ UNCHANGED trail
  BY SilencingAssumption DEF Audit, Callers, IInv, Begins
<1>2. /\ DOMAIN callers' = Callers /\ callers'[t] = Idle
      /\ \A d \in Callers : d # t => callers'[d] = callers[d]
  BY <1>1, PutIs
<1>3. /\ entry.op = callers[t].op /\ entry.result \in {"ok", "denied", "error"}
      /\ entry.result = "ok" <=> callers[t].result = "ok"
  BY DEF Outcome
<1>4. /\ callers[t].op.kind # "extend" => (callers[t].result = "ok" <=> callers[t].op \in queued)
      /\ callers[t].op.kind = "extend" /\ callers[t].result = "ok" => Prolonged
  BY <1>1 DEF IInv, CallersAreTrue, DeskIsTrue
<1> HIDE DEF entry
<1>5. trail \subseteq trail' /\ trail' \subseteq trail \cup {entry} /\ upsets' \in 0..Upsets /\ upsets =< upsets'
  BY <1>1, Counted DEF Typed, TypeOK
<1>6. Typed'
  <2>1. DOMAIN callers' = Workers \cup Desks /\ \A c \in DOMAIN callers' : callers'[c] \in Caller
    BY <1>1, <1>2, IdleIs, CallerIs DEF Callers
  <2>2. \A e \in trail' : e.op \in begun /\ e.result \in {"ok", "denied", "error"}
    BY <1>1, <1>3, <1>5 DEF Typed, TypeOK
  <2> QED BY <1>1, <1>5, <2>1, <2>2 DEF Typed, TypeOK
<1>7. Begins'
  BY <1>1, <1>2, IdleIs DEF IInv, Begins, Meant
<1>8. CallersAreTrue'
  <2>1. DeskIsTrue(callers[t])'
    BY <1>2, IdleIs DEF DeskIsTrue
  <2>2. /\ \A w \in Workers : w # t => WorkerIsTrue(callers[w])'
        /\ \A u \in Desks : u # t => DeskIsTrue(callers[u])'
    BY <1>1, <1>2, OthersStayTrue
  <2> QED BY <1>1, <2>1, <2>2 DEF CallersAreTrue
<1>9. InOneHand'
  <2>1. \A u \in Desks : u # t /\ callers[u].pc # "idle" => callers[u].op # entry.op
    BY <1>1, <1>3 DEF IInv, InOneHand
  <2>2. \A u \in Desks : callers'[u].pc # "idle" => u # t /\ callers'[u] = callers[u]
    BY <1>2, IdleIs DEF Callers
  <2> QED BY <1>5, <2>1, <2>2 DEF IInv, InOneHand
<1>10. RowsFollow' /\ RowsTellTruth'
  BY <1>1 DEF IInv, RowsFollow, RowsTellTruth, OverIsOver, CreditedOnce
<1>11. TrailTellsTruth'
  BY <1>1, <1>3, <1>4, <1>5 DEF IInv, TrailTellsTruth, Prolonged
<1>12. TriesPaid'
  <2>1. \A q \in DOMAIN queue : Abandoned(q)' => Abandoned(q)
    BY <1>1, <1>2, Holder DEF Abandoned, Callers
  <2>2. \A q \in DOMAIN queue : queue[q].tries \in Nat
    BY <1>1, Holder
  <2> QED BY <1>1, <1>5, <2>1, <2>2, Counted DEF IInv, TriesPaid
<1> QED BY <1>6, <1>7, <1>8, <1>9, <1>10, <1>11, <1>12 DEF IInv

LEMMA Took ==
  ASSUME IInv, NEW w \in Workers, NEW op \in DOMAIN queue, Take(w, op)
  PROVE  IInv'
<1> DEFINE claim == [ tries |-> queue[op].tries + 1, holder |-> w ]
           x == Calling(op)
<1>1. /\ Typed /\ w \in Callers /\ w \notin Desks /\ w # None /\ op \in Ops /\ op \in queued /\ op \in begun
      /\ callers[w].pc = "idle" /\ queue[op].holder = None
      /\ queue' = [ queue EXCEPT ![op] = claim ] /\ Put(w, x)
      /\ UNCHANGED <<silences, lapsed, links, begun, queued, trail, missed, upsets>>
  <2>1. Typed /\ op \in queued /\ op \in begun
    BY DEF IInv, Begins, Typed, TypeOK
  <2>2. queue' = [ queue EXCEPT ![op] = claim ]
    BY DEF Take
  <2> QED BY <2>1, <2>2, Holder, SilencingAssumption DEF Take, people, Callers
<1>2. x \in Caller /\ x.pc = "calling" /\ x.op = op
  BY <1>1, IdleIs
<1>3. queue[op].tries \in Nat /\ queue[op].tries < MaxTries + upsets
  BY <1>1, Holder DEF IInv, TriesPaid
<1>4. claim \in [ tries : 0..(MaxTries + Upsets), holder : Workers \cup {None} ]
      /\ claim.tries =< MaxTries + upsets /\ claim.holder = w
  BY <1>1, <1>3, Counted
<1> HIDE DEF x, claim
<1>5. /\ DOMAIN callers' = Callers /\ callers'[w] = x
      /\ \A d \in Callers : d # w => callers'[d] = callers[d]
  BY <1>1, PutIs
<1>6. /\ DOMAIN queue' = DOMAIN queue /\ queue'[op] = claim
      /\ \A q \in DOMAIN queue : q # op => queue'[q] = queue[q]
  BY <1>1
<1>7. Typed'
  <2>1. \A q \in DOMAIN queue' :
          q \in Ops /\ queue'[q] \in [ tries : 0..(MaxTries + Upsets), holder : Workers \cup {None} ]
    BY <1>1, <1>4, <1>6, Holder
  <2>2. DOMAIN callers' = Workers \cup Desks /\ \A c \in DOMAIN callers' : callers'[c] \in Caller
    BY <1>1, <1>2, <1>5, CallerIs DEF Callers
  <2> QED BY <1>1, <2>1, <2>2 DEF Typed, TypeOK
<1>8. Begins'
  BY <1>1, <1>2, <1>5, <1>6 DEF IInv, Begins, Meant
<1>9. CallersAreTrue'
  <2>1. WorkerIsTrue(callers[w])'
    BY <1>1, <1>2, <1>5 DEF WorkerIsTrue
  <2>2. /\ \A v \in Workers : v # w => WorkerIsTrue(callers[v])'
        /\ \A u \in Desks : u # w => DeskIsTrue(callers[u])'
    BY <1>1, <1>5, OthersStayTrue
  <2> QED BY <1>1, <2>1, <2>2 DEF CallersAreTrue
<1>10. InOneHand'
  BY <1>1, <1>5 DEF IInv, InOneHand, Callers
<1>11. RowsFollow' /\ RowsTellTruth' /\ TrailTellsTruth'
  BY <1>1, <1>6 DEF IInv, RowsFollow, RowsTellTruth, OverIsOver, CreditedOnce, TrailTellsTruth
<1>12. TriesPaid'
  <2>1. queue'[op].tries =< MaxTries + upsets /\ queue'[op].holder # None /\ ~Abandoned(op)'
    BY <1>1, <1>2, <1>4, <1>5, <1>6 DEF Abandoned
  <2>2. ASSUME NEW q \in DOMAIN queue, q # op
        PROVE  queue'[q] = queue[q] /\ (Abandoned(q)' => Abandoned(q))
    BY <1>1, <1>5, <1>6, <2>2, Holder DEF Abandoned, Callers
  <2>3. ASSUME NEW q \in DOMAIN queue'
        PROVE  /\ queue'[q].tries =< MaxTries + upsets
               /\ queue'[q].holder = None \/ Abandoned(q)' => queue'[q].tries < MaxTries + upsets
    <3>1. CASE q = op
      BY <2>1, <3>1
    <3>2. CASE q # op
      BY <1>6, <2>2, <2>3, <3>2 DEF IInv, TriesPaid
    <3> QED BY <3>1, <3>2
  <2> QED BY <1>1, <2>3 DEF TriesPaid
<1> QED BY <1>7, <1>8, <1>9, <1>10, <1>11, <1>12 DEF IInv

(* A claim that is given back.                                             *)
LEMMA GaveBack ==
  ASSUME IInv, NEW op \in DOMAIN queue, Reclaim(op) \/ Overrun(op)
  PROVE  IInv'
<1> DEFINE free == [ queue[op] EXCEPT !.holder = None ]
<1>1. /\ Typed /\ queue' = [ queue EXCEPT ![op] = free ]
      /\ UNCHANGED <<silences, lapsed, callers, links, begun, queued, trail, missed>>
      /\ (Abandoned(op) /\ UNCHANGED upsets) \/ Upset
  BY DEF Reclaim, Overrun, Unclaimed, people, IInv, Abandoned
<1>2. /\ free \in [ tries : 0..(MaxTries + Upsets), holder : Workers \cup {None} ]
      /\ free.holder = None /\ free.tries = queue[op].tries
  BY <1>1, Holder
<1> HIDE DEF free
<1>3. /\ DOMAIN queue' = DOMAIN queue /\ queue'[op] = free
      /\ \A q \in DOMAIN queue : q # op => queue'[q] = queue[q]
  BY <1>1
<1>4. Typed'
  <2>1. \A q \in DOMAIN queue' :
          q \in Ops /\ queue'[q] \in [ tries : 0..(MaxTries + Upsets), holder : Workers \cup {None} ]
    BY <1>1, <1>2, <1>3, Holder
  <2>2. upsets' \in 0..Upsets
    BY <1>1, Counted DEF Typed, TypeOK
  <2> QED BY <1>1, <2>1, <2>2 DEF Typed, TypeOK
<1>5. Begins'
  BY <1>1, <1>3 DEF IInv, Begins, Meant
<1>6. CallersAreTrue' /\ InOneHand'
  BY <1>1 DEF IInv, CallersAreTrue, WorkerIsTrue, DeskIsTrue, InOneHand, Came, Prolonged
<1>7. RowsFollow' /\ RowsTellTruth' /\ TrailTellsTruth'
  BY <1>1, <1>3 DEF IInv, RowsFollow, RowsTellTruth, OverIsOver, CreditedOnce, TrailTellsTruth
<1>8. TriesPaid'
  <2>1. queue[op].tries \in Nat /\ queue[op].tries < MaxTries + upsets'
    <3>1. queue[op].tries \in Nat /\ queue[op].tries =< MaxTries + upsets
      BY <1>1, Holder DEF IInv, TriesPaid
    <3>2. CASE Abandoned(op) /\ UNCHANGED upsets
      BY <3>1, <3>2 DEF IInv, TriesPaid
    <3>3. CASE Upset
      BY <1>1, <3>1, <3>3, Counted
    <3> QED BY <1>1, <3>2, <3>3
  <2>2. upsets =< upsets' /\ upsets \in Nat /\ upsets' \in Nat /\ MaxTries \in Nat
    BY <1>1, Counted
  <2>3. ASSUME NEW q \in DOMAIN queue'
        PROVE  /\ queue'[q].tries =< MaxTries + upsets'
               /\ queue'[q].holder = None \/ Abandoned(q)' => queue'[q].tries < MaxTries + upsets'
    <3>1. CASE q = op
      BY <1>2, <1>3, <2>1, <2>2, <3>1
    <3>2. CASE q # op
      <4>1. q \in DOMAIN queue /\ queue'[q] = queue[q] /\ (Abandoned(q)' => Abandoned(q)) /\ queue[q].tries \in Nat
        BY <1>1, <1>3, <2>3, <3>2, Holder DEF Abandoned
      <4> QED BY <2>2, <4>1 DEF IInv, TriesPaid
    <3> QED BY <3>1, <3>2
  <2> QED BY <2>3 DEF TriesPaid
<1> QED BY <1>4, <1>5, <1>6, <1>7, <1>8 DEF IInv

LEMMA Crashed ==
  ASSUME IInv, Crash
  PROVE  IInv'
<1>1. /\ Typed /\ DOMAIN callers' = Callers /\ \A c \in Callers : callers'[c] = Idle
      /\ UNCHANGED <<silences, lapsed, queue, links, begun, queued, trail, missed>>
      /\ upsets' = upsets + 1 /\ upsets' \in 0..Upsets
  <2>1. Typed /\ DOMAIN callers = Callers
    BY DEF IInv, Typed, TypeOK, Callers
  <2> QED BY <2>1, Counted DEF Crash, people
<1>2. Typed'
  BY <1>1, IdleIs DEF Typed, TypeOK, Callers
<1>3. Begins' /\ CallersAreTrue' /\ InOneHand'
  BY <1>1, IdleIs DEF IInv, Begins, Meant, CallersAreTrue, WorkerIsTrue, DeskIsTrue, InOneHand, Callers
<1>4. RowsFollow' /\ RowsTellTruth' /\ TrailTellsTruth'
  BY <1>1 DEF IInv, RowsFollow, RowsTellTruth, OverIsOver, CreditedOnce, TrailTellsTruth
<1>5. TriesPaid'
  <2>1. \A q \in DOMAIN queue : queue[q].tries \in Nat /\ queue[q].tries =< MaxTries + upsets
    BY <1>1, Holder DEF IInv, TriesPaid
  <2> QED BY <1>1, <2>1, Counted DEF TriesPaid
<1> QED BY <1>2, <1>3, <1>4, <1>5 DEF IInv

(* An effect that came to an end, and the row it leaves.                   *)
LEMMA Settles ==
  ASSUME IInv, NEW op \in DOMAIN queue, NEW made, Came(op, made),
         queue' = Removed(op), links' = LinksAfter(op, made), UNCHANGED <<silences, queued>>
  PROVE  /\ DOMAIN links' \subseteq DOMAIN silences
         /\ \A i \in DOMAIN links' : links'[i] \in {"active", "expired"}
         /\ RowsFollow' /\ RowsTellTruth'
<1>1. /\ op \in Ops /\ op \in queued /\ op.kind \in {"create", "expire"}
      /\ DOMAIN queue' = DOMAIN queue \ {op}
      /\ DOMAIN links \subseteq DOMAIN silences /\ \A i \in DOMAIN links : links[i] \in {"active", "expired"}
  BY DEF IInv, Typed, TypeOK, Begins, Removed, Ops
<1>2. CASE op.kind = "create"
  <2>1. made \in DOMAIN silences /\ Asked(silences[made].of) = op
    BY <1>1, <1>2 DEF Came, Asked, Ops
  <2>2. /\ DOMAIN links' = DOMAIN links \cup {made} /\ links'[made] = "active"
        /\ \A i \in DOMAIN links : i # made => links'[i] = links[i]
    BY <1>2 DEF LinksAfter, Linked
  <2>3. RowsFollow'
    BY <1>1, <2>1, <2>2 DEF IInv, RowsFollow
  <2>4. OverIsOver'
    BY <2>2 DEF IInv, RowsTellTruth, OverIsOver
  <2>5. CreditedOnce'
    <3>1. \A i \in DOMAIN links : silences[i].of # silences[made].of
      BY <2>1 DEF IInv, RowsFollow
    <3> QED BY <2>2, <3>1 DEF IInv, RowsTellTruth, CreditedOnce
  <2> QED BY <1>1, <2>1, <2>2, <2>3, <2>4, <2>5 DEF RowsTellTruth
<1>3. CASE op.kind = "expire"
  <2>1. /\ op.of \in DOMAIN silences /\ ~silences[op.of].active
        /\ DOMAIN links' = DOMAIN links
        /\ \A i \in DOMAIN links : links'[i] = IF i = op.of THEN "expired" ELSE links[i]
    BY <1>3 DEF Came, LinksAfter
  <2>2. RowsFollow'
    BY <1>1, <2>1 DEF IInv, RowsFollow
  <2>3. OverIsOver' /\ CreditedOnce'
    BY <2>1 DEF IInv, RowsTellTruth, OverIsOver, CreditedOnce
  <2> QED BY <1>1, <2>1, <2>2, <2>3 DEF RowsTellTruth
<1> QED BY <1>1, <1>2, <1>3

LEMMA Recorded ==
  ASSUME IInv, NEW w \in Workers, Record(w)
  PROVE  IInv'
<1> DEFINE id == callers[w].id
           result == callers[w].result
<1> PICK op : op = callers[w].op
  OBVIOUS
<1>1. /\ Typed /\ w \in Callers /\ w \notin Desks /\ w # None /\ callers[w].pc = "returned"
      /\ Put(w, Idle) /\ UNCHANGED <<silences, lapsed, begun, queued, trail, missed>>
      /\ \/ Holds(w, op) /\ Settled(op, result, id) /\ UNCHANGED upsets
         \/ ~Holds(w, op) /\ UNCHANGED <<queue, links, upsets>>
         \/ Upset /\ UNCHANGED <<queue, links>>
      /\ result = "ok" => Came(op, id)
  BY SilencingAssumption DEF Record, people, IInv, Callers, CallersAreTrue, WorkerIsTrue
<1>2. /\ DOMAIN callers' = Callers /\ callers'[w] = Idle
      /\ \A d \in Callers : d # w => callers'[d] = callers[d]
  BY <1>1, PutIs
<1>3. /\ DOMAIN queue' \subseteq DOMAIN queue
      /\ \A q \in DOMAIN queue' :
           \/ queue'[q] = queue[q] /\ (q # op \/ queue[q].holder # w \/ Upset)
           \/ queue'[q] = [ queue[q] EXCEPT !.holder = None ] /\ queue[q].tries < MaxTries
      /\ \/ UNCHANGED links
         \/ op \in DOMAIN queue /\ result = "ok" /\ queue' = Removed(op) /\ links' = LinksAfter(op, id)
  <2>1. CASE Holds(w, op) /\ Settled(op, result, id) /\ UNCHANGED upsets
    <3>1. CASE result = "ok"
      BY <2>1, <3>1 DEF Holds, Settled, Removed
    <3>2. CASE Retryable(result) /\ queue[op].tries < MaxTries /\ queue' = [ queue EXCEPT ![op].holder = None ]
               /\ UNCHANGED links
      BY <2>1, <3>2 DEF Holds
    <3>3. CASE queue' = Removed(op) /\ UNCHANGED links
      BY <3>3 DEF Removed
    <3> QED BY <2>1, <3>1, <3>2, <3>3 DEF Settled
  <2>2. CASE ~Holds(w, op) /\ UNCHANGED <<queue, links, upsets>>
    BY <2>2 DEF Holds
  <2>3. CASE Upset /\ UNCHANGED <<queue, links>>
    BY <2>3
  <2> QED BY <1>1, <2>1, <2>2, <2>3
<1>4. upsets' \in 0..Upsets /\ upsets =< upsets' /\ (Upset => upsets < upsets')
      /\ upsets \in Nat /\ upsets' \in Nat /\ MaxTries \in Nat \ {0}
  BY <1>1, Counted DEF Typed, TypeOK
<1>5. /\ DOMAIN links' \subseteq DOMAIN silences
      /\ \A i \in DOMAIN links' : links'[i] \in {"active", "expired"}
      /\ RowsFollow' /\ RowsTellTruth'
  <2>1. CASE UNCHANGED links
    <3>1. RowsFollow'
      BY <1>1, <1>3, <2>1 DEF IInv, RowsFollow
    <3>2. RowsTellTruth'
      BY <1>1, <2>1 DEF IInv, RowsTellTruth, OverIsOver, CreditedOnce
    <3> QED BY <1>1, <2>1, <3>1, <3>2 DEF Typed, TypeOK
  <2>2. CASE op \in DOMAIN queue /\ result = "ok" /\ queue' = Removed(op) /\ links' = LinksAfter(op, id)
    <3> HIDE DEF id, result
    <3> QED BY <1>1, <2>2, Settles
  <2> QED BY <1>3, <2>1, <2>2
<1>6. Typed'
  <2>1. \A q \in DOMAIN queue' :
          q \in Ops /\ queue'[q] \in [ tries : 0..(MaxTries + Upsets), holder : Workers \cup {None} ]
    BY <1>1, <1>3, Holder
  <2>2. DOMAIN callers' = Workers \cup Desks /\ \A c \in DOMAIN callers' : callers'[c] \in Caller
    BY <1>1, <1>2, IdleIs, CallerIs DEF Callers
  <2> QED BY <1>1, <1>4, <1>5, <2>1, <2>2 DEF Typed, TypeOK
<1>7. Begins'
  BY <1>1, <1>2, <1>3, IdleIs DEF IInv, Begins, Meant
<1>8. CallersAreTrue'
  <2>1. WorkerIsTrue(callers[w])'
    BY <1>2, IdleIs DEF WorkerIsTrue
  <2>2. /\ \A v \in Workers : v # w => WorkerIsTrue(callers[v])'
        /\ \A u \in Desks : u # w => DeskIsTrue(callers[u])'
    BY <1>1, <1>2, OthersStayTrue
  <2> QED BY <1>1, <2>1, <2>2 DEF CallersAreTrue
<1>9. InOneHand' /\ TrailTellsTruth'
  BY <1>1, <1>2 DEF IInv, InOneHand, TrailTellsTruth, Callers
<1>10. TriesPaid'
  <2> SUFFICES ASSUME NEW q \in DOMAIN queue'
               PROVE  /\ queue'[q].tries =< MaxTries + upsets'
                      /\ queue'[q].holder = None \/ Abandoned(q)' => queue'[q].tries < MaxTries + upsets'
    BY DEF TriesPaid
  <2>1. /\ q \in DOMAIN queue /\ queue[q].tries \in Nat /\ queue[q].tries =< MaxTries + upsets
        /\ queue[q].holder = None \/ Abandoned(q) => queue[q].tries < MaxTries + upsets
    BY <1>1, <1>3, Holder DEF IInv, TriesPaid
  <2>2. CASE queue'[q] = queue[q] /\ Upset
    BY <1>4, <2>1, <2>2
  <2>3. CASE queue'[q] = queue[q] /\ (q # op \/ queue[q].holder # w)
    <3>1. Abandoned(q)' => Abandoned(q)
      BY <1>1, <1>2, <2>1, <2>3, Holder DEF Abandoned, Callers
    <3> QED BY <1>4, <2>1, <2>3, <3>1
  <2>4. CASE queue'[q] = [ queue[q] EXCEPT !.holder = None ] /\ queue[q].tries < MaxTries
    <3>1. queue'[q].tries = queue[q].tries
      BY <1>1, <2>1, <2>4, Holder
    <3> QED BY <1>4, <2>1, <2>4, <3>1
  <2> QED BY <1>3, <2>2, <2>3, <2>4
<1> QED BY <1>5, <1>6, <1>7, <1>8, <1>9, <1>10 DEF IInv

(* Alertmanager's own steps, and a list of it that is read.                *)
LEMMA WorldMoves ==
  ASSUME IInv, Gossip \/ (\E a \in Asks : Lapse(a)) \/ Sync
  PROVE  IInv'
<1>1. /\ Typed /\ silences \in Seq(Silence) /\ \A i \in DOMAIN silences : silences[i] \in Silence
      /\ silences = [ i \in DOMAIN silences |-> silences[i] ]
      /\ UNCHANGED <<queue, callers, begun, queued, trail, missed, upsets>>
  BY SilencesAre DEF Gossip, Lapse, Sync, people, IInv, Typed
<1>2. silences' \in Seq(Silence) /\ GrowsTo(silences') /\ lapsed' \subseteq Asks
  <2>1. CASE Gossip
    <3>1. PICK i \in DOMAIN silences, p \in PeerSet : silences' = [ silences EXCEPT ![i].known = @ \cup {p} ]
      BY <2>1 DEF Gossip, PeerSet
    <3>2. /\ silences' \in [ DOMAIN silences -> Silence ]
          /\ \A j \in DOMAIN silences : /\ silences'[j].of = silences[j].of
                                        /\ silences'[j].active = silences[j].active
                                        /\ silences'[j].asAsked = silences[j].asAsked
      BY <1>1, <3>1 DEF Silence
    <3> QED BY <1>1, <2>1, <3>2, SequenceOf DEF Gossip, GrowsTo, Typed, TypeOK
  <2>2. CASE \E a \in Asks : Lapse(a)
    <3>1. PICK a \in Asks : Lapse(a)
      BY <2>2
    <3>2. silences' = [ i \in DOMAIN silences |->
            [ silences[i] EXCEPT !.active = @ /\ ~(silences[i].of = a /\ silences[i].asAsked) ] ]
      BY <3>1 DEF Lapse
    <3>3. ASSUME NEW j \in DOMAIN silences
          PROVE  /\ silences'[j] \in Silence /\ silences'[j].of = silences[j].of
                 /\ silences'[j].active => silences[j].active
                 /\ silences'[j].asAsked = silences[j].asAsked
      <4>1. silences'[j] = [ silences[j] EXCEPT !.active = @ /\ ~(silences[j].of = a /\ silences[j].asAsked) ]
        BY <3>2
      <4>2. silences[j] \in Silence
        BY <1>1
      <4>3. (silences[j].active /\ ~(silences[j].of = a /\ silences[j].asAsked)) \in BOOLEAN
        OBVIOUS
      <4> QED BY <4>1, <4>2, <4>3 DEF Silence
    <3>4. silences' \in [ DOMAIN silences -> Silence ]
      BY <3>2, <3>3
    <3>5. lapsed' \subseteq Asks
      BY <1>1, <3>1 DEF Lapse, Typed, TypeOK
    <3> QED BY <1>1, <3>3, <3>4, <3>5, SequenceOf DEF GrowsTo
  <2>3. CASE Sync
    BY <1>1, <2>3, GrowsToItself DEF Sync, Typed, TypeOK
  <2> QED BY <2>1, <2>2, <2>3
<1>3. /\ DOMAIN links' = DOMAIN links
      /\ \A i \in DOMAIN links' : links'[i] \in {"active", "expired"} /\ (links'[i] = "expired" => ~silences[i].active)
  <2>1. /\ \A i \in DOMAIN links : links[i] \in {"active", "expired"}
        /\ \A i \in DOMAIN links : links[i] = "expired" => ~silences[i].active
    BY DEF IInv, Typed, TypeOK, RowsTellTruth, OverIsOver
  <2>2. CASE Sync
    <3>1. PICK n \in DOMAIN Peers :
       links' = [ i \in DOMAIN links |-> IF i \in DOMAIN Listed(Peers[n]) THEN Listed(Peers[n])[i] ELSE links[i] ]
      BY <2>2 DEF Sync
    <3>2. \A i \in DOMAIN Listed(Peers[n]) :
            Listed(Peers[n])[i] = IF silences[i].active THEN "active" ELSE "expired"
      BY DEF Listed
    <3> QED BY <2>1, <3>1, <3>2
  <2>3. CASE UNCHANGED links
    BY <2>1, <2>3
  <2> QED BY <2>2, <2>3 DEF Gossip, Lapse
<1>4. Typed'
  <2>1. missed' \subseteq DOMAIN silences' /\ DOMAIN links' \subseteq DOMAIN silences'
    BY <1>1, <1>2, <1>3 DEF Typed, TypeOK, GrowsTo
  <2>2. \A i \in DOMAIN silences' : silences'[i] \in Silence
    BY <1>2, SilencesAre
  <2> QED BY <1>1, <1>2, <1>3, <2>1, <2>2 DEF Typed, TypeOK, Silence, PeerSet
<1>5. Begins'
  BY <1>1, <1>2, Meanwhile DEF IInv, Begins
<1>6. CallersAreTrue'
  BY <1>1, <1>2, Meanwhile DEF IInv, CallersAreTrue, WorkerIsTrue, DeskIsTrue
<1>7. InOneHand' /\ TriesPaid'
  BY <1>1 DEF IInv, InOneHand, TriesPaid, Abandoned
<1>8. RowsFollow' /\ RowsTellTruth'
  <2>1. \A i \in DOMAIN links : i \in DOMAIN silences /\ silences'[i].of = silences[i].of
                                /\ (silences'[i].active => silences[i].active)
    BY <1>1, <1>2 DEF Typed, TypeOK, GrowsTo
  <2>2. RowsFollow'
    BY <1>1, <1>3, <2>1 DEF IInv, RowsFollow
  <2>3. OverIsOver' /\ CreditedOnce'
    BY <1>3, <2>1 DEF IInv, RowsTellTruth, OverIsOver, CreditedOnce
  <2> QED BY <2>2, <2>3 DEF RowsTellTruth
<1>9. TrailTellsTruth'
  <2>1. Prolonged => Prolonged'
    BY <1>1, <1>2, Meanwhile
  <2> QED BY <1>1, <2>1 DEF IInv, TrailTellsTruth, Prolonged
<1> QED BY <1>4, <1>5, <1>6, <1>7, <1>8, <1>9 DEF IInv

LEMMA Initially == Init => IInv
<1> SUFFICES ASSUME Init
             PROVE  IInv
  OBVIOUS
<1>1. /\ silences = <<>> /\ silences \in Seq(Silence) /\ DOMAIN silences = {}
      /\ DOMAIN callers = Callers /\ \A c \in Callers : callers[c] = Idle
      /\ DOMAIN queue = {} /\ DOMAIN links = {} /\ begun = {} /\ queued = {} /\ trail = {}
      /\ missed = {} /\ lapsed = {} /\ upsets = 0
  BY EmptySeq DEF Init, Callers
<1>2. Typed
  BY <1>1, IdleIs, SilencingAssumption DEF Typed, TypeOK, Callers
<1>3. Begins /\ CallersAreTrue /\ InOneHand
  BY <1>1, IdleIs DEF Begins, CallersAreTrue, WorkerIsTrue, DeskIsTrue, InOneHand, Callers
<1>4. RowsFollow /\ TriesPaid /\ RowsTellTruth /\ TrailTellsTruth
  BY <1>1 DEF RowsFollow, TriesPaid, RowsTellTruth, OverIsOver, CreditedOnce, TrailTellsTruth
<1> QED BY <1>2, <1>3, <1>4 DEF IInv

LEMMA Inductive == IInv /\ [Next]_vars => IInv'
<1> SUFFICES ASSUME IInv, [Next]_vars
             PROVE  IInv'
  OBVIOUS
<1>1. CASE \E w \in Workers : Step(w)
  <2>1. PICK w \in Workers : Step(w)
    BY <1>1
  <2> QED BY <2>1, Attempted, Recorded, Took DEF Step, Callers
<1>2. CASE \E t \in Desks : Act(t)
  <2>1. PICK t \in Desks : Act(t)
    BY <1>2
  <2>2. CASE \E op \in [ kind : {"create"}, of : Asks ]
                  \cup [ kind : {"expire", "extend"}, of : DOMAIN silences ] : Command(t, op) \/ Choose(t, op)
    <3>1. PICK op \in [ kind : {"create"}, of : Asks ]
                  \cup [ kind : {"expire", "extend"}, of : DOMAIN silences ] : Command(t, op) \/ Choose(t, op)
      BY <2>2
    <3>2. Begun(t, op) /\ Meant(op)
      BY <3>1 DEF Command, Choose, Meant
    <3>3. op \in Ops
      <4>1. DOMAIN silences \subseteq Nat
        BY SilencesAre DEF IInv, Typed
      <4> QED BY <4>1 DEF Ops
    <3> QED BY <3>2, <3>3, Began
  <2>3. CASE Refuse(t) \/ LookUp(t) \/ RunFails(t)
    BY <2>3, Looked
  <2>4. CASE QueueSilence(t) \/ QueueExpiry(t)
    BY <2>4, QueuedIt
  <2>5. CASE Attempt(t) \/ Audit(t)
    BY <2>5, Attempted, Audited DEF Callers
  <2> QED BY <2>1, <2>2, <2>3, <2>4, <2>5 DEF Act
<1>3. CASE \E op \in DOMAIN queue : Reclaim(op) \/ Overrun(op)
  BY <1>3, GaveBack
<1>4. CASE Gossip \/ (\E a \in Asks : Lapse(a)) \/ Sync
  BY <1>4, WorldMoves
<1>5. CASE Crash
  BY <1>5, Crashed
<1>6. CASE UNCHANGED vars
  <2>1. UNCHANGED <<silences, lapsed, queue, callers, links, begun, queued, trail, missed, upsets>>
    BY <1>6 DEF vars
  <2> QED BY <2>1 DEF IInv, Typed, TypeOK, Begins, Meant, CallersAreTrue, WorkerIsTrue, DeskIsTrue, Came,
             Prolonged, InOneHand, RowsFollow, TriesPaid, Abandoned, RowsTellTruth, OverIsOver, CreditedOnce,
             TrailTellsTruth
<1> QED BY <1>1, <1>2, <1>3, <1>4, <1>5, <1>6 DEF Next

LEMMA Invariant == Spec => []IInv
BY Initially, Inductive, PTL DEF Spec

-----------------------------------------------------------------------------
(* The type invariant; with it, an effect is tried MaxTries times and once *)
(* more for every upset at the most, and a row is of a silence there was.  *)
THEOREM SilencingTypeCorrect == Spec => []TypeOK
<1>1. IInv => TypeOK
  BY DEF IInv, Typed
<1> QED BY <1>1, Invariant, PTL

(* The rows of the silences table (write_silence, sync_silences): what     *)
(* they call over mutes nobody, and of an ask there is one, however many   *)
(* workers its effect went through and whatever list a peer gave.          *)
THEOREM RowsAreTrue == Spec => []RowsTellTruth
<1>1. IInv => RowsTellTruth
  BY DEF IInv
<1> QED BY <1>1, Invariant, PTL

(* The audit trail: ok is what was queued or got to Alertmanager, and what *)
(* was denied or refused did not.                                          *)
THEOREM TrailIsTrue == Spec => []TrailTellsTruth
<1>1. IInv => TrailTellsTruth
  BY DEF IInv
<1> QED BY <1>1, Invariant, PTL

-----------------------------------------------------------------------------
(***************************************************************************)
(* That cards tell who has the alert, for any number of people and cards.  *)
(* Most of the invariant is about messages that are behind: one is only    *)
(* while an edit of it is owed, by an interaction that has its redraw to   *)
(* come or by the queue, or one was missed; and an edit under way that     *)
(* nobody owes again, and none was missed since it began, has read the     *)
(* row, and the holder if it read that too, as they are now.               *)
(***************************************************************************)

AnsweringOK ==
  /\ held \in Holders
  /\ cards \in [ CardIds -> Rows ]
  /\ acting \in [ People -> [ redraw : SUBSET CardIds, assignee : Holders ] ]
  /\ redraws \subseteq CardIds
  /\ edit \in Edits \cup {Nobody}
  /\ shown \in [ CardIds -> [ state : States, replies : Nat, holder : Holders ] ]
  /\ drawn \in [ CardIds -> [ state : States, replies : Nat, holder : Holders ] ]
  /\ released \in BOOLEAN

(* An edit of the card is owed.                                            *)
Owed(c) == c \in redraws \/ \E p \in People : c \in acting[p].redraw

Says(content, row, holder) ==
  /\ content.state = row.state
  /\ content.holder = IF row.state = "acked" THEN holder ELSE Nobody
  /\ content.replies > 0 <=> row.replies > 0

(* What the edit under way will draw is what the card says now.            *)
EditIsFresh(c) ==
  /\ edit.row.state = cards[c].state
  /\ edit.row.replies > 0 <=> cards[c].replies > 0
  /\ edit.read => edit.holder = held

Caught(c) ==
  IF edit # Nobody /\ edit.card = c THEN EditIsFresh(c) ELSE Says(drawn[c], cards[c], held)

Follows ==
  /\ \A c \in CardIds \ unsure : drawn[c] = shown[c]
  /\ \A c \in CardIds \ behind : Owed(c) \/ Caught(c)

(* Of the states a card may have, acked is that of a held alert.           *)
StatesAgree ==
  \A c \in CardIds :
    cards[c].state \in {"silenced", "resolved", IF held = Nobody THEN "firing" ELSE "acked"}

Kept == ~released /\ held = Nobody => \E p \in People : acting[p].assignee # Nobody

AnsweringInv == AnsweringOK /\ Follows /\ StatesAgree /\ Kept

-----------------------------------------------------------------------------
LEMMA NotCallingIsACall ==
  NotCalling \in [ redraw : SUBSET CardIds, assignee : Holders ]
  /\ NotCalling.redraw = {} /\ NotCalling.assignee = Nobody
BY DEF NotCalling, Holders

LEMMA ContentIs ==
  ASSUME NEW row \in Rows, NEW holder \in Holders
  PROVE  /\ Content(row, holder) \in [ state : States, replies : Nat, holder : Holders ]
         /\ Says(Content(row, holder), row, holder)
BY DEF Content, Says, Rows, Holders

LEMMA AnsweringInitially == AnsweringAssumption /\ AnsweringInit => AnsweringInv
<1> SUFFICES ASSUME AnsweringAssumption, AnsweringInit
             PROVE  AnsweringInv
  OBVIOUS
<1>1. Nobody \in Holders /\ held = Nobody /\ held \in Holders
  BY DEF AnsweringInit, Holders
<1>2. cards \in [ CardIds -> Rows ] /\ \A c \in CardIds : cards[c].state = "firing"
  BY DEF AnsweringInit, Rows, States
<1>3. /\ shown \in [ CardIds -> [ state : States, replies : Nat, holder : Holders ] ]
      /\ \A c \in CardIds : Says(shown[c], cards[c], Nobody)
  BY <1>1, <1>2, ContentIs DEF AnsweringInit
<1>4. AnsweringOK
  BY <1>1, <1>2, <1>3, NotCallingIsACall DEF AnsweringInit, AnsweringOK
<1>5. Follows
  BY <1>3 DEF AnsweringInit, Follows, Caught
<1>6. StatesAgree /\ Kept
  BY <1>2 DEF AnsweringInit, StatesAgree, Kept
<1> QED BY <1>4, <1>5, <1>6 DEF AnsweringInv

(* What somebody else owes stays owed.                                     *)
LEMMA CallersAre ==
  ASSUME AnsweringOK, NEW p \in People, NEW call \in [ redraw : SUBSET CardIds, assignee : Holders ],
         acting' = [ acting EXCEPT ![p] = call ]
  PROVE  /\ acting' \in [ People -> [ redraw : SUBSET CardIds, assignee : Holders ] ]
         /\ acting'[p] = call /\ \A q \in People : q # p => acting'[q] = acting[q]
BY DEF AnsweringOK

(* A card moves to the state of its alert's holder, or not at all.         *)
LEMMA MovedIs ==
  ASSUME AnsweringAssumption, AnsweringOK, StatesAgree, NEW trigger, NEW acknowledged \in BOOLEAN,
         \/ trigger = "acknowledged" /\ held = Nobody
         \/ trigger = "ack_revoked" /\ held # Nobody
         \/ trigger \in {"silenced", "resolved"} /\ \A c \in CardIds : cards[c].state \in {"firing", "acked"}
  PROVE  /\ Moved(trigger, acknowledged) \in [ CardIds -> Rows ]
         /\ \A c \in CardIds :
              LET after == Moved(trigger, acknowledged)[c].state
              IN  CASE trigger = "acknowledged" -> after \in {"silenced", "resolved", "acked"}
                    [] trigger = "ack_revoked"  -> after \in {"silenced", "resolved", "firing"}
                    [] OTHER                    -> after \in {"silenced", "resolved"}
<1> DEFINE after(c) == NextState(cards[c].state, trigger, acknowledged)
<1>1. ASSUME NEW c \in CardIds
      PROVE  /\ cards[c] \in Rows
             /\ after(c) \in States \cup {Nobody}
             /\ CASE trigger = "acknowledged" -> after(c) = IF cards[c].state = "firing" THEN "acked" ELSE Nobody
                  [] trigger = "ack_revoked"  -> after(c) = IF cards[c].state = "acked" THEN "firing" ELSE Nobody
                  [] OTHER                    -> after(c) = trigger
  <2>1. cards[c] \in Rows /\ cards[c].state \in {"firing", "acked", "silenced", "resolved"}
    BY DEF AnsweringOK, StatesAgree
  <2>2. trigger \in {"acknowledged", "ack_revoked", "silenced", "resolved"}
    OBVIOUS
  <2>3. CASE trigger = "acknowledged"
    BY <2>1, <2>3 DEF NextState, States
  <2>4. CASE trigger = "ack_revoked"
    BY <2>1, <2>4 DEF NextState, States
  <2>5. CASE trigger \in {"silenced", "resolved"}
    BY <2>1, <2>5 DEF NextState, States, IsOpen
  <2> QED BY <2>1, <2>2, <2>3, <2>4, <2>5
<1> HIDE DEF after
<1>2. ASSUME NEW c \in CardIds
      PROVE  /\ Moved(trigger, acknowledged)[c]
                  = IF after(c) = Nobody THEN cards[c] ELSE [ cards[c] EXCEPT !.state = after(c) ]
             /\ Moved(trigger, acknowledged)[c] \in Rows
             /\ Moved(trigger, acknowledged)[c].state = IF after(c) = Nobody THEN cards[c].state ELSE after(c)
  <2>1. Moved(trigger, acknowledged)[c]
                  = IF after(c) = Nobody THEN cards[c] ELSE [ cards[c] EXCEPT !.state = after(c) ]
    BY DEF Moved, after
  <2> QED BY <1>1, <2>1 DEF Rows
<1>3. Moved(trigger, acknowledged) \in [ CardIds -> Rows ]
  <2>1. Moved(trigger, acknowledged) = [ c \in CardIds |-> Moved(trigger, acknowledged)[c] ]
    BY DEF Moved
  <2> QED BY <1>2, <2>1
<1>4. ASSUME NEW c \in CardIds
      PROVE  LET s == Moved(trigger, acknowledged)[c].state
             IN  CASE trigger = "acknowledged" -> s \in {"silenced", "resolved", "acked"}
                   [] trigger = "ack_revoked"  -> s \in {"silenced", "resolved", "firing"}
                   [] OTHER                    -> s \in {"silenced", "resolved"}
  <2>1. cards[c].state \in {"silenced", "resolved", IF held = Nobody THEN "firing" ELSE "acked"}
    BY DEF StatesAgree
  <2>2. trigger \in {"acknowledged", "ack_revoked", "silenced", "resolved"}
    OBVIOUS
  <2>3. "acked" # Nobody /\ "firing" # Nobody /\ "silenced" # Nobody /\ "resolved" # Nobody
    BY DEF AnsweringAssumption, States
  <2> QED BY <1>1, <1>2, <2>1, <2>2, <2>3
<1> QED BY <1>3, <1>4

(* Taking and releasing: the alert has another holder, and every card is   *)
(* to be drawn again; or nothing happened.                                 *)
LEMMA Acknowledged ==
  ASSUME AnsweringAssumption, AnsweringInv, NEW user \in People, Acknowledge(user)
  PROVE  /\ held' \in People /\ cards' \in [ CardIds -> Rows ] /\ released' \in BOOLEAN /\ StatesAgree'
         /\ held' = held => cards' = cards
<1>1. CASE held = Nobody
  <2>1. held' = user /\ cards' = Moved("acknowledged", TRUE) /\ released' = FALSE /\ held' # Nobody
    BY <1>1 DEF Acknowledge, AnsweringAssumption
  <2> QED BY <1>1, <2>1, MovedIs DEF AnsweringInv, StatesAgree
<1>2. CASE held # Nobody
  <2>1. UNCHANGED <<held, cards, released>>
    BY <1>2 DEF Acknowledge
  <2> QED BY <1>2, <2>1 DEF AnsweringInv, AnsweringOK, Holders, StatesAgree
<1> QED BY <1>1, <1>2

LEMMA Revoked ==
  ASSUME AnsweringAssumption, AnsweringInv, Revoke
  PROVE  /\ held' = Nobody /\ cards' \in [ CardIds -> Rows ] /\ StatesAgree'
         /\ held' = held => cards' = cards
<1>1. CASE held = Nobody
  BY <1>1 DEF Revoke, AnsweringInv, AnsweringOK, StatesAgree
<1>2. CASE held # Nobody
  <2>1. held' = Nobody /\ cards' = Moved("ack_revoked", FALSE)
    BY <1>2 DEF Revoke
  <2> QED BY <1>2, <2>1, MovedIs DEF AnsweringInv, StatesAgree
<1> QED BY <1>1, <1>2

(* An interaction that draws again what it changed.                        *)
LEMMA RedrawsWhatChanged ==
  ASSUME AnsweringInv, NEW p \in People, NEW assignee \in Holders, acting[p].redraw = {},
         acting' = [ acting EXCEPT ![p] = [ redraw |-> Redrawn, assignee |-> assignee ] ],
         held' \in Holders, cards' \in [ CardIds -> Rows ], held' = held => cards' = cards,
         released' \in BOOLEAN, UNCHANGED <<redraws, edit, shown, drawn, behind, unsure>>
  PROVE  AnsweringOK' /\ Follows' /\ acting'[p].assignee = assignee
         /\ \A q \in People : q # p => acting'[q] = acting[q]
<1> DEFINE call == [ redraw |-> Redrawn, assignee |-> assignee ]
<1>1. call \in [ redraw : SUBSET CardIds, assignee : Holders ]
  BY DEF Redrawn
<1>2. /\ acting' \in [ People -> [ redraw : SUBSET CardIds, assignee : Holders ] ]
      /\ acting'[p] = call /\ \A q \in People : q # p => acting'[q] = acting[q]
  BY <1>1, CallersAre DEF AnsweringInv
<1>3. AnsweringOK'
  BY <1>2 DEF AnsweringInv, AnsweringOK
<1>4. Follows'
  <2>1. CASE held' = held
    <3>1. \A c \in CardIds : Owed(c) => Owed(c)'
      BY <1>2 DEF Owed
    <3>2. \A c \in CardIds : Caught(c) => Caught(c)'
      BY <2>1 DEF Caught, EditIsFresh, Says
    <3> QED BY <3>1, <3>2 DEF AnsweringInv, Follows
  <2>2. CASE held' # held
    <3>1. \A c \in CardIds : Owed(c)'
      BY <1>2, <2>2 DEF Owed, Redrawn
    <3> QED BY <3>1 DEF AnsweringInv, Follows
  <2> QED BY <2>1, <2>2
<1> QED BY <1>2, <1>3, <1>4

LEMMA CallsFromRest ==
  ASSUME NEW p \in People, NEW redraw, NEW assignee, Call(p, redraw, assignee)
  PROVE  /\ acting[p] = NotCalling /\ acting[p].redraw = {} /\ acting[p].assignee = Nobody
         /\ acting' = [ acting EXCEPT ![p] = [ redraw |-> redraw, assignee |-> assignee ] ]
BY NotCallingIsACall DEF Call

LEMMA TakesAndReleases ==
  ASSUME AnsweringAssumption, AnsweringInv, NEW p \in People,
         TakeAlert(p) \/ Release(p) \/ Give(p) \/ \E a \in People : Handover(p, a)
  PROVE  AnsweringInv'
<1>0. Nobody \in Holders /\ People \subseteq Holders
  BY DEF Holders
<1>1. CASE TakeAlert(p)
  <2>1. Acknowledge(p) /\ Call(p, Redrawn, Nobody) /\ UNCHANGED <<redraws, edit, shown, drawn, behind, unsure>>
    BY <1>1 DEF TakeAlert, delivery
  <2>2. /\ held' \in People /\ cards' \in [ CardIds -> Rows ] /\ released' \in BOOLEAN /\ StatesAgree'
        /\ held' = held => cards' = cards
    BY <2>1, Acknowledged
  <2>3. AnsweringOK' /\ Follows'
    BY <1>0, <2>1, <2>2, CallsFromRest, RedrawsWhatChanged
  <2>4. Kept'
    BY <2>2 DEF Kept, AnsweringAssumption
  <2> QED BY <2>2, <2>3, <2>4 DEF AnsweringInv
<1>2. CASE Release(p)
  <2>1. Revoke /\ Call(p, Redrawn, Nobody) /\ released' = TRUE /\ UNCHANGED <<redraws, edit, shown, drawn, behind, unsure>>
    BY <1>2 DEF Release, delivery
  <2>2. held' = Nobody /\ cards' \in [ CardIds -> Rows ] /\ StatesAgree' /\ (held' = held => cards' = cards)
    BY <2>1, Revoked
  <2>3. AnsweringOK' /\ Follows'
    BY <1>0, <2>1, <2>2, CallsFromRest, RedrawsWhatChanged
  <2>4. Kept'
    BY <2>1 DEF Kept
  <2> QED BY <2>2, <2>3, <2>4 DEF AnsweringInv
<1>3. CASE Give(p)
  <2>1. /\ acting[p].assignee # Nobody /\ acting[p].redraw = {} /\ Acknowledge(acting[p].assignee)
        /\ acting' = [ acting EXCEPT ![p] = [ redraw |-> Redrawn, assignee |-> Nobody ] ]
        /\ UNCHANGED <<redraws, edit, shown, drawn, behind, unsure>>
    BY <1>3 DEF Give, delivery
  <2>2. acting[p].assignee \in People
    BY <2>1 DEF AnsweringInv, AnsweringOK, Holders
  <2>3. /\ held' \in People /\ cards' \in [ CardIds -> Rows ] /\ released' \in BOOLEAN /\ StatesAgree'
        /\ held' = held => cards' = cards
    BY <2>1, <2>2, Acknowledged
  <2>4. AnsweringOK' /\ Follows'
    BY <1>0, <2>1, <2>3, RedrawsWhatChanged
  <2>5. Kept'
    BY <2>3 DEF Kept, AnsweringAssumption
  <2> QED BY <2>3, <2>4, <2>5 DEF AnsweringInv
<1>4. CASE \E a \in People : Handover(p, a)
  <2>1. PICK a \in People : Handover(p, a)
    BY <1>4
  <2>2. Revoke /\ Call(p, Redrawn, a) /\ UNCHANGED <<released, redraws, edit, shown, drawn, behind, unsure>>
    BY <2>1 DEF Handover, delivery
  <2>3. held' = Nobody /\ cards' \in [ CardIds -> Rows ] /\ StatesAgree' /\ (held' = held => cards' = cards)
    BY <2>2, Revoked
  <2>4. released' \in BOOLEAN
    BY <2>2 DEF AnsweringInv, AnsweringOK
  <2>5. AnsweringOK' /\ Follows' /\ acting'[p].assignee = a
    BY <1>0, <2>2, <2>3, <2>4, CallsFromRest, RedrawsWhatChanged
  <2>6. Kept'
    BY <2>5 DEF Kept, AnsweringAssumption
  <2> QED BY <2>3, <2>5, <2>6 DEF AnsweringInv
<1> QED BY <1>1, <1>2, <1>3, <1>4

LEMMA Replied ==
  ASSUME AnsweringAssumption, AnsweringInv, NEW p \in People, NEW c \in CardIds, Reply(p, c)
  PROVE  AnsweringInv'
<1> DEFINE redraw == IF cards[c].replies = 0 THEN {c} ELSE {}
           call == [ redraw |-> redraw, assignee |-> Nobody ]
<1>1. /\ cards' = [ cards EXCEPT ![c].replies = @ + 1 ] /\ Call(p, redraw, Nobody)
      /\ UNCHANGED <<held, redraws, edit, shown, drawn, released, behind, unsure>>
  BY DEF Reply, delivery
<1>2. /\ cards' \in [ CardIds -> Rows ] /\ \A d \in CardIds : cards'[d].state = cards[d].state
      /\ cards'[c].replies = cards[c].replies + 1 /\ cards[c].replies \in Nat
      /\ \A d \in CardIds : d # c => cards'[d] = cards[d]
  BY <1>1 DEF AnsweringInv, AnsweringOK, Rows
<1>3. call \in [ redraw : SUBSET CardIds, assignee : Holders ] /\ call.redraw = redraw
  BY DEF Holders
<1>4. /\ acting[p].redraw = {} /\ acting[p].assignee = Nobody
      /\ acting' \in [ People -> [ redraw : SUBSET CardIds, assignee : Holders ] ]
      /\ acting'[p] = call /\ \A q \in People : q # p => acting'[q] = acting[q]
  <2>1. acting[p].redraw = {} /\ acting[p].assignee = Nobody /\ acting' = [ acting EXCEPT ![p] = call ]
    BY <1>1, CallsFromRest
  <2> HIDE DEF call
  <2> QED BY <1>3, <2>1, CallersAre DEF AnsweringInv
<1>5. AnsweringOK'
  BY <1>1, <1>2, <1>4 DEF AnsweringInv, AnsweringOK
<1>6. Follows'
  <2>1. \A d \in CardIds : Owed(d) => Owed(d)'
    BY <1>1, <1>4 DEF Owed
  <2>2. ASSUME NEW d \in CardIds, Caught(d)
        PROVE  Owed(d)' \/ Caught(d)'
    <3>1. CASE d = c /\ cards[c].replies = 0
      BY <1>3, <1>4, <3>1 DEF Owed
    <3>2. CASE ~(d = c /\ cards[c].replies = 0)
      <4>1. cards'[d].replies > 0 <=> cards[d].replies > 0
        BY <1>2, <3>2
      <4> QED BY <1>1, <1>2, <2>2, <4>1 DEF Caught, EditIsFresh, Says
    <3> QED BY <3>1, <3>2
  <2> QED BY <1>1, <2>1, <2>2 DEF AnsweringInv, Follows
<1>7. StatesAgree'
  BY <1>1, <1>2 DEF AnsweringInv, StatesAgree
<1>8. Kept'
  BY <1>1, <1>4 DEF AnsweringInv, Kept
<1> QED BY <1>5, <1>6, <1>7, <1>8 DEF AnsweringInv

(* The redraws of an interaction reach the queue or are lost.              *)
LEMMA RedrawsEnd ==
  ASSUME AnsweringInv, NEW p \in People,
         NEW assignee \in Holders, assignee = acting[p].assignee \/ released' = (released \/ (acting[p].assignee # Nobody /\ held = Nobody)),
         assignee = acting[p].assignee => released' = released,
         acting' = [ acting EXCEPT ![p] = [ redraw |-> {}, assignee |-> assignee ] ],
         \/ redraws' = redraws \cup acting[p].redraw /\ behind' = behind
         \/ redraws' = redraws /\ behind' = behind \cup acting[p].redraw,
         UNCHANGED <<held, cards, edit, shown, drawn, unsure>>, released' \in BOOLEAN
  PROVE  AnsweringInv'
<1> DEFINE call == [ redraw |-> {}, assignee |-> assignee ]
<1>1. call \in [ redraw : SUBSET CardIds, assignee : Holders ] /\ call.redraw = {} /\ call.assignee = assignee
  OBVIOUS
<1>2. /\ acting' \in [ People -> [ redraw : SUBSET CardIds, assignee : Holders ] ]
      /\ acting'[p] = call /\ \A q \in People : q # p => acting'[q] = acting[q]
  BY <1>1, CallersAre DEF AnsweringInv
<1>3. AnsweringOK'
  BY <1>2 DEF AnsweringInv, AnsweringOK
<1>4. Follows'
  <2>1. ASSUME NEW c \in CardIds \ behind', Owed(c)
        PROVE  Owed(c)'
    BY <1>1, <1>2, <2>1 DEF Owed
  <2>2. \A c \in CardIds : Caught(c) => Caught(c)'
    BY DEF Caught, EditIsFresh, Says
  <2> QED BY <2>1, <2>2 DEF AnsweringInv, Follows
<1>5. StatesAgree'
  BY DEF AnsweringInv, StatesAgree
<1>6. Kept'
  BY <1>1, <1>2 DEF AnsweringInv, Kept, AnsweringOK
<1> QED BY <1>3, <1>4, <1>5, <1>6 DEF AnsweringInv

LEMMA InteractionsEnd ==
  ASSUME AnsweringInv, NEW p \in People, ReRender(p) \/ ReRenderFails(p) \/ Cut(p)
  PROVE  AnsweringInv'
<1> DEFINE kept == [ redraw |-> {}, assignee |-> acting[p].assignee ]
<1>1. acting[p] \in [ redraw : SUBSET CardIds, assignee : Holders ] /\ released \in BOOLEAN
  BY DEF AnsweringInv, AnsweringOK
<1>4. [ acting[p] EXCEPT !.redraw = {} ] = kept
  <2>1. ASSUME NEW call \in [ redraw : SUBSET CardIds, assignee : Holders ]
        PROVE  [ call EXCEPT !.redraw = {} ] = [ redraw |-> {}, assignee |-> call.assignee ]
    OBVIOUS
  <2> QED BY <1>1, <2>1
<1>2. CASE ReRender(p) \/ ReRenderFails(p)
  <2>1. acting' = [ acting EXCEPT ![p] = kept ]
    BY <1>2, <1>4 DEF ReRender, ReRenderFails
  <2>2. /\ UNCHANGED <<held, cards, edit, shown, drawn, released, unsure>>
        /\ \/ redraws' = redraws \cup acting[p].redraw /\ behind' = behind
           \/ redraws' = redraws /\ behind' = behind \cup acting[p].redraw
    BY <1>2 DEF ReRender, ReRenderFails, delivery
  <2>3. acting[p].assignee \in Holders
    BY <1>1
  <2> QED BY <1>1, <2>1, <2>2, <2>3, RedrawsEnd
<1>3. CASE Cut(p)
  <2>1. /\ acting' = [ acting EXCEPT ![p] = [ redraw |-> {}, assignee |-> Nobody ] ]
        /\ released' = (released \/ (acting[p].assignee # Nobody /\ held = Nobody))
        /\ UNCHANGED <<held, cards, edit, shown, drawn, redraws, unsure>>
        /\ behind' = behind \cup acting[p].redraw
    BY <1>3 DEF Cut, delivery, NotCalling
  <2>2. Nobody \in Holders /\ released' \in BOOLEAN
    BY <1>1, <2>1 DEF Holders
  <2>3. Nobody = acting[p].assignee => released' = released
    BY <1>1, <2>1
  <2> QED BY <2>1, <2>2, <2>3, RedrawsEnd
<1> QED BY <1>2, <1>3

(* The pipeline queues every card in the transaction that moves them.      *)
LEMMA Changed ==
  ASSUME AnsweringAssumption, AnsweringInv, NEW trigger \in {"silenced", "resolved"}, Change(trigger)
  PROVE  AnsweringInv'
<1>1. /\ \A c \in CardIds : cards[c].state \in {"firing", "acked"}
      /\ cards' = Moved(trigger, held # Nobody) /\ redraws' = CardIds
      /\ UNCHANGED <<held, acting, edit, shown, drawn, released, behind, unsure>>
  BY DEF Change
<1>2. /\ cards' \in [ CardIds -> Rows ]
      /\ \A c \in CardIds : cards'[c].state \in {"silenced", "resolved"}
  BY <1>1, MovedIs DEF AnsweringInv
<1>3. AnsweringOK' /\ StatesAgree'
  BY <1>1, <1>2 DEF AnsweringInv, AnsweringOK, StatesAgree
<1>4. Follows'
  BY <1>1 DEF AnsweringInv, Follows, Owed
<1>5. Kept'
  BY <1>1 DEF AnsweringInv, Kept
<1> QED BY <1>3, <1>4, <1>5 DEF AnsweringInv

LEMMA EditBegins ==
  ASSUME AnsweringAssumption, AnsweringInv, NEW c \in CardIds, ReadCard(c)
  PROVE  AnsweringInv'
<1> DEFINE new == [ card |-> c, row |-> cards[c], holder |-> Nobody, read |-> FALSE ]
<1>1. /\ edit = Nobody /\ edit' = new /\ redraws' = redraws \ {c} /\ behind' = behind \ {c}
      /\ UNCHANGED <<held, cards, acting, shown, drawn, released, unsure>>
  BY DEF ReadCard
<1>2. new \in Edits /\ new # Nobody /\ new.card = c /\ new.row = cards[c] /\ new.read = FALSE
  <2>1. cards[c] \in Rows /\ Nobody \in Holders
    BY DEF AnsweringInv, AnsweringOK, Holders
  <2>2. new \in Edits
    BY <2>1 DEF Edits
  <2> QED BY <2>2 DEF AnsweringAssumption
<1>3. AnsweringOK'
  BY <1>1, <1>2 DEF AnsweringInv, AnsweringOK
<1>4. Follows'
  <2>1. Caught(c)'
    BY <1>1, <1>2 DEF Caught, EditIsFresh
  <2>2. \A d \in CardIds : d # c => (Caught(d) => Caught(d)') /\ (Owed(d) => Owed(d)')
    BY <1>1, <1>2 DEF Caught, EditIsFresh, Says, Owed
  <2> QED BY <1>1, <2>1, <2>2 DEF AnsweringInv, Follows
<1>5. StatesAgree' /\ Kept'
  BY <1>1 DEF AnsweringInv, StatesAgree, Kept
<1> QED BY <1>3, <1>4, <1>5 DEF AnsweringInv

LEMMA EditReads ==
  ASSUME AnsweringAssumption, AnsweringInv, ReadHolder \/ ReadHolderFails
  PROVE  AnsweringInv'
<1>1. /\ edit # Nobody /\ edit \in Edits /\ edit.card \in CardIds
      /\ UNCHANGED <<held, cards, acting, redraws, shown, drawn, released, unsure>>
  BY DEF ReadHolder, ReadHolderFails, AnsweringInv, AnsweringOK, Edits
<1>2. /\ edit' \in Edits /\ edit' # Nobody /\ edit'.card = edit.card /\ edit'.row = edit.row
      /\ \/ edit'.holder = held /\ behind' = behind
         \/ behind' = behind \cup {edit.card}
  <2>1. CASE ReadHolder
    <3>1. edit' = [ edit EXCEPT !.holder = held, !.read = TRUE ] /\ behind' = behind
      BY <2>1 DEF ReadHolder
    <3>2. edit' \in Edits /\ edit'.card = edit.card /\ edit'.row = edit.row /\ edit'.holder = held
      BY <1>1, <3>1 DEF Edits, AnsweringInv, AnsweringOK
    <3> QED BY <3>1, <3>2 DEF AnsweringAssumption
  <2>2. CASE ReadHolderFails
    <3>1. edit' = [ edit EXCEPT !.read = TRUE ] /\ behind' = behind \cup {edit.card}
      BY <2>2 DEF ReadHolderFails
    <3>2. edit' \in Edits /\ edit'.card = edit.card /\ edit'.row = edit.row
      BY <1>1, <3>1 DEF Edits
    <3> QED BY <3>1, <3>2 DEF AnsweringAssumption
  <2> QED BY <2>1, <2>2
<1>3. AnsweringOK'
  BY <1>1, <1>2 DEF AnsweringInv, AnsweringOK
<1>4. Follows'
  <2>1. \A c \in CardIds : Owed(c) => Owed(c)'
    BY <1>1 DEF Owed
  <2>2. \A c \in CardIds \ behind' : Caught(c) => Caught(c)'
    BY <1>1, <1>2 DEF Caught, EditIsFresh, Says
  <2> QED BY <1>1, <1>2, <2>1, <2>2 DEF AnsweringInv, Follows
<1>5. StatesAgree' /\ Kept'
  BY <1>1 DEF AnsweringInv, StatesAgree, Kept
<1> QED BY <1>3, <1>4, <1>5 DEF AnsweringInv

(* What the edit under way draws; of an edit that is fresh, what is so.    *)
LEMMA NewIs ==
  ASSUME AnsweringInv, edit # Nobody
  PROVE  /\ edit.card \in CardIds
         /\ NewContent \in [ state : States, replies : Nat, holder : Holders ]
         /\ EditIsFresh(edit.card) /\ edit.read => Says(NewContent, cards[edit.card], held)
<1>1. edit.card \in CardIds /\ edit.row \in Rows /\ edit.holder \in Holders
  BY DEF AnsweringInv, AnsweringOK, Edits
<1>2. /\ NewContent \in [ state : States, replies : Nat, holder : Holders ]
      /\ Says(NewContent, edit.row, edit.holder)
  BY <1>1, ContentIs DEF NewContent
<1>3. EditIsFresh(edit.card) /\ edit.read => Says(NewContent, cards[edit.card], held)
  BY <1>2 DEF EditIsFresh, Says
<1> QED BY <1>1, <1>2, <1>3

LEMMA EditEnds ==
  ASSUME AnsweringAssumption, AnsweringInv, Deliver \/ DeliverFails \/ DeliverGivenUp \/ CompletionLost
  PROVE  AnsweringInv'
<1>0. edit # Nobody
  BY DEF Deliver, DeliverFails, DeliverGivenUp, CompletionLost
<1> PICK c \in CardIds : c = edit.card
  BY <1>0, NewIs
<1>1. /\ edit.read /\ edit' = Nobody
      /\ UNCHANGED <<held, cards, acting, released>> /\ redraws \subseteq redraws'
  BY DEF Deliver, DeliverFails, DeliverGivenUp, CompletionLost
<1>2. /\ NewContent \in [ state : States, replies : Nat, holder : Holders ]
      /\ EditIsFresh(c) => Says(NewContent, cards[c], held)
  BY <1>0, <1>1, NewIs
<1>3. /\ redraws' \subseteq CardIds
      /\ shown' \in [ CardIds -> [ state : States, replies : Nat, holder : Holders ] ]
      /\ drawn' \in [ CardIds -> [ state : States, replies : Nat, holder : Holders ] ]
      /\ \A d \in CardIds : d # c => shown'[d] = shown[d] /\ drawn'[d] = drawn[d]
      /\ behind \subseteq behind' /\ unsure \ {c} \subseteq unsure'
  <2>1. CASE Deliver
    BY <1>2, <2>1 DEF Deliver, AnsweringInv, AnsweringOK
  <2>2. CASE DeliverFails \/ DeliverGivenUp
    BY <2>2 DEF DeliverFails, DeliverGivenUp, AnsweringInv, AnsweringOK
  <2>3. CASE CompletionLost
    BY <1>2, <2>3 DEF CompletionLost, AnsweringInv, AnsweringOK
  <2> QED BY <2>1, <2>2, <2>3
<1>4. AnsweringOK'
  BY <1>1, <1>3 DEF AnsweringInv, AnsweringOK
<1>5. \A d \in CardIds : Owed(d) => Owed(d)'
  BY <1>1 DEF Owed
<1>6. \A d \in CardIds : Caught(d)' <=> Says(drawn'[d], cards[d], held)
  BY <1>1 DEF Caught, Says
<1>7. /\ c \notin unsure' => drawn'[c] = shown'[c]
      /\ c \notin behind' => Owed(c)' \/ Caught(c)'
  <2>1. /\ c \notin unsure => drawn[c] = shown[c]
        /\ c \notin behind => Owed(c) \/ EditIsFresh(c)
    BY <1>0 DEF AnsweringInv, Follows, Caught
  <2>2. CASE Deliver /\ NewContent = drawn[c]
    <3>1. UNCHANGED <<shown, drawn, behind, unsure>>
      BY <2>2 DEF Deliver
    <3> QED BY <1>2, <1>5, <1>6, <2>1, <2>2, <3>1
  <2>3. CASE Deliver /\ NewContent # drawn[c]
    <3>1. /\ shown' = [ shown EXCEPT ![c] = NewContent ] /\ drawn' = [ drawn EXCEPT ![c] = NewContent ]
          /\ behind' = behind
      BY <2>3 DEF Deliver
    <3>2. drawn'[c] = NewContent /\ shown'[c] = NewContent
      BY <3>1 DEF AnsweringInv, AnsweringOK
    <3> QED BY <1>2, <1>5, <1>6, <2>1, <3>1, <3>2
  <2>4. CASE DeliverFails
    <3>1. c \in redraws' /\ UNCHANGED <<shown, drawn, unsure>>
      BY <2>4 DEF DeliverFails
    <3> QED BY <2>1, <3>1 DEF Owed
  <2>5. CASE DeliverGivenUp
    <3>1. c \in behind' /\ UNCHANGED <<shown, drawn, unsure>>
      BY <2>5 DEF DeliverGivenUp
    <3> QED BY <2>1, <3>1
  <2>6. CASE CompletionLost
    <3>1. c \in redraws' /\ c \in unsure'
      BY <2>6 DEF CompletionLost
    <3> QED BY <3>1 DEF Owed
  <2> QED BY <2>2, <2>3, <2>4, <2>5, <2>6
<1>8. ASSUME NEW d \in CardIds, d # c
      PROVE  /\ d \notin unsure' => drawn'[d] = shown'[d]
             /\ d \notin behind' => Owed(d)' \/ Caught(d)'
  <2>1. /\ d \notin unsure => drawn[d] = shown[d]
        /\ d \notin behind => Owed(d) \/ Says(drawn[d], cards[d], held)
    BY <1>8 DEF AnsweringInv, Follows, Caught
  <2> QED BY <1>3, <1>5, <1>6, <1>8, <2>1
<1>9. Follows'
  BY <1>7, <1>8 DEF Follows
<1>10. StatesAgree' /\ Kept'
  BY <1>1 DEF AnsweringInv, StatesAgree, Kept
<1> QED BY <1>4, <1>9, <1>10 DEF AnsweringInv

LEMMA AnsweringInductive == AnsweringAssumption /\ AnsweringInv /\ [AnsweringNext]_answering => AnsweringInv'
<1> SUFFICES ASSUME AnsweringAssumption, AnsweringInv, [AnsweringNext]_answering
             PROVE  AnsweringInv'
  OBVIOUS
<1>1. ASSUME UNCHANGED answering
      PROVE  AnsweringInv'
  BY <1>1 DEF answering, AnsweringInv, AnsweringOK, Follows, Owed, Caught, EditIsFresh, Says, StatesAgree, Kept
<1>2. CASE \E p \in People :
             \/ TakeAlert(p) \/ Release(p) \/ Give(p) \/ ReRender(p) \/ ReRenderFails(p) \/ Cut(p)
             \/ \E a \in People : Handover(p, a)
             \/ \E c \in CardIds : Reply(p, c)
  BY <1>2, TakesAndReleases, InteractionsEnd, Replied
<1>3. CASE \E trigger \in {"silenced", "resolved"} : Change(trigger)
  BY <1>3, Changed
<1>4. CASE \E c \in CardIds : ReadCard(c)
  BY <1>4, EditBegins
<1>5. CASE ReadHolder \/ ReadHolderFails \/ Deliver \/ DeliverFails \/ DeliverGivenUp \/ CompletionLost
  BY <1>5, EditReads, EditEnds
<1> QED BY <1>1, <1>2, <1>3, <1>4, <1>5 DEF AnsweringNext

LEMMA AnsweringInvariant == AnsweringAssumption => (AnsweringSpec => []AnsweringInv)
<1> SUFFICES ASSUME AnsweringAssumption PROVE AnsweringSpec => []AnsweringInv
  OBVIOUS
<1>1. AnsweringInit => AnsweringInv
  BY AnsweringInitially
<1>2. AnsweringInv /\ [AnsweringNext]_answering => AnsweringInv'
  BY AnsweringInductive
<1> QED BY <1>1, <1>2, PTL DEF AnsweringSpec

-----------------------------------------------------------------------------
(* Whoever took, released, handed over and replied, for any number of      *)
(* cards: once nothing is under way a card shows its state and who has the *)
(* alert (re_render after acknowledge, and assemble's two reads), unless   *)
(* its last edit was lost or given up (dispatch.rs, process), or the       *)
(* completion of one was and none has changed it since.                    *)
THEOREM CardsTellHolder == AnsweringAssumption => (AnsweringSpec => []CardTellsHolder)
<1>1. ASSUME AnsweringInv, AtRest, NEW c \in CardIds \ (behind \cup unsure)
      PROVE  LET now == Content(cards[c], held)
             IN  /\ shown[c].state = now.state /\ shown[c].holder = now.holder
                 /\ (shown[c].replies > 0) = (now.replies > 0)
  <2>1. ~Owed(c) /\ edit = Nobody
    BY <1>1, NotCallingIsACall DEF AtRest, Owed
  <2>2. Says(shown[c], cards[c], held)
    BY <1>1, <2>1 DEF AnsweringInv, Follows, Caught
  <2> QED BY <2>2 DEF Says, Content
<1>2. AnsweringInv => CardTellsHolder
  BY <1>1 DEF CardTellsHolder
<1> QED BY <1>2, AnsweringInvariant, PTL

(* An alert that somebody had is had until a person releases it, whoever   *)
(* comes between the two transactions of a handover; and of a held alert   *)
(* no card says that it waits for someone.                                 *)
THEOREM KeptUntilReleased == AnsweringAssumption => (AnsweringSpec => []HeldUntilReleased)
<1> SUFFICES ASSUME AnsweringAssumption PROVE AnsweringSpec => []HeldUntilReleased
  OBVIOUS
<1>1. AnsweringInv => HeldUntilReleased
  BY DEF AnsweringInv, Kept, StatesAgree, HeldUntilReleased
<1> QED BY <1>1, AnsweringInvariant, PTL

=============================================================================

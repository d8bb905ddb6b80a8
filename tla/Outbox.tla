------------------------------- MODULE Outbox -------------------------------
(***************************************************************************)
(* The side-effect queue at work: tasks that queue effects, dispatcher     *)
(* workers that claim, carry out and settle them (runtime/src/dispatch.rs, *)
(* Dispatcher::run and handle), the janitor that takes expired leases back *)
(* (runtime/src/service.rs, reclaim_leases), and processes that die.       *)
(*                                                                         *)
(* What an effect does to Discord is abstracted to its verdict; a request  *)
(* is a number, and stands for the payload it left in its row.             *)
(***************************************************************************)
EXTENDS OutboxQueue

CONSTANTS
  Procs, Workers, Cards, NoWork, NoSubject,
  ProcOf,       (* The process a worker runs in.                           *)
  IndexOf, Of,  (* LaneAssignment: its index, among Of workers.            *)
  Name,         (* Its WorkerId, "<pid>-<index>".                          *)
  LaneOf,       (* DedupeKey::lane of each card, and of NoCard: "admin".   *)
  AskKinds,     (* The kinds of card effect the environment queues.        *)
  Delays,       (* The not_before of a queued effect, from now.            *)
  RetryAfters,  (* The delays a Failure::Retry may name.                   *)
  ReclaimAge,   (* The age at which a claim is taken back: three leases.   *)
  BatchSize, MaxAttempts, MaxBackoff,
  Backend,      (* "sqlite" or "postgres".                                 *)
  MaxAsks,      (* Bound: effects the environment queues.                  *)
  MaxRequests,  (* Bound: effects queued, the route-health notices too.    *)
  MaxFaults     (* Bound: crashes, database errors and slow workers.       *)

Requests == 1..MaxRequests
Subjects == [kind : AskKinds, card : Cards] \cup {[kind |-> "admin_notice", card |-> NoCard]}

ASSUME OutboxAssumption ==
  /\ ProcOf \in [Workers -> Procs]
  /\ Of \in Nat \ {0}
  /\ IndexOf \in [Workers -> 0..(Of - 1)]
  /\ LaneOf \in [Cards \cup {NoCard} -> Nat]
  /\ NoCard \notin Cards
  /\ \A w \in Workers : Name[w] # Nobody
  /\ Delays \subseteq Nat /\ RetryAfters \subseteq Nat
  /\ BatchSize \in Nat \ {0}
  /\ ReclaimAge \in Nat /\ Horizon > ReclaimAge
  /\ MaxAttempts \in Nat \ {0} /\ MaxBackoff \in Nat
  /\ Backend \in {"sqlite", "postgres"}
  /\ MaxAsks \in Nat /\ MaxRequests \in Nat /\ MaxFaults \in Nat
  /\ MaxRequests >= MaxAsks + Cardinality(Procs) + MaxFaults
  /\ NoSubject \notin Subjects

VARIABLES
  rows,       (* The outbox table.                                         *)
  held,       (* The items a worker has in memory from its last claim.     *)
  current,    (* The one it is on.                                         *)
  verdict,    (* How carrying that one out ended.                          *)
  pc,         (* Where in `handle' it is.                                  *)
  said,       (* The processes that have queued their route-health notice. *)
  faults,     (* How much of MaxFaults is used up.                         *)
  asked,      (* How many requests were made.                              *)
  about,      (* History: the subject of each request.                     *)
  performed,  (* History: the requests carried out at least once.          *)
  settled     (* History: how the row holding a request was last settled.  *)

history == <<asked, about, performed, settled>>
workers == <<held, current, verdict, pc>>
vars    == <<rows, workers, said, faults, history>>

Verdicts == {"ok", "drop", "blocked", "retry"}

(* The OutboxItem claim_outbox returns: the row as it was claimed.         *)
ItemOf(q, i) ==
  [ id |-> i, card |-> q[i].card, lane |-> q[i].lane, payload |-> q[i].payload,
    attempts |-> q[i].attempts, notBefore |-> q[i].notBefore ]

Init ==
  /\ rows = [ i \in {} |-> Nobody ]
  /\ held = [ w \in Workers |-> {} ]
  /\ current = [ w \in Workers |-> NoWork ]
  /\ verdict = [ w \in Workers |-> "none" ]
  /\ pc = [ w \in Workers |-> "ready" ]
  /\ said = {}
  /\ faults = 0
  /\ asked = 0
  /\ about = [ r \in Requests |-> NoSubject ]
  /\ performed = {}
  /\ settled = [ r \in Requests |-> "none" ]

Fault == faults < MaxFaults /\ faults' = faults + 1

-----------------------------------------------------------------------------
(* Queues one effect as request asked + 1, in a transaction of its own.    *)
EnqueueEffect(kind, card, delay) ==
  LET r == asked + 1
      e == [ kind |-> kind, card |-> card, lane |-> LaneOf[card],
             payload |-> r, notBefore |-> delay ]
  IN  /\ asked < MaxRequests
      /\ asked' = r
      /\ rows' = Enqueue(rows, r, e)
      /\ about' = [ about EXCEPT ![r] = [kind |-> kind, card |-> card] ]
      /\ settled' = [ x \in Requests |->
                        IF \E i \in Foldable(rows, e) : rows[i].payload = x
                          THEN "superseded" ELSE settled[x] ]
      /\ UNCHANGED performed

(* The pipeline, a command or a sweep queues an effect on a card.          *)
Ask(kind, card, delay) ==
  /\ asked < MaxAsks
  /\ EnqueueEffect(kind, card, delay)
  /\ UNCHANGED <<workers, said, faults>>

-----------------------------------------------------------------------------
(* run: an idle worker claims a batch.                                     *)
TakeBatch(w) ==
  LET batch == Batch(rows, IndexOf[w], Of, BatchSize)
  IN  /\ pc[w] = "ready" /\ held[w] = {}
      /\ batch # {}
      /\ rows' = Claim(rows, batch, Name[w])
      /\ held' = [ held EXCEPT ![w] = { ItemOf(rows', i) : i \in batch } ]
      /\ UNCHANGED <<current, verdict, pc, said, faults, history>>

(* The claim commits and its answer is lost on the way back: the worker    *)
(* logs "cannot claim outbox work" and holds nothing.                      *)
ClaimUnheard(w) ==
  LET batch == Batch(rows, IndexOf[w], Of, BatchSize)
  IN  /\ Backend = "postgres"
      /\ pc[w] = "ready" /\ held[w] = {}
      /\ batch # {}
      /\ Fault
      /\ rows' = Claim(rows, batch, Name[w])
      /\ UNCHANGED <<workers, said, history>>

FirstOf(items) ==
  { a \in items : \A b \in items \ {a} :
      \/ a.notBefore < b.notBefore
      \/ a.notBefore = b.notBefore /\ a.id < b.id }

Exhausted(item) == item.attempts >= MaxAttempts

(* handle, first half: the item is carried out.  A call that failed for a  *)
(* reason worth a retry may have reached Discord all the same.             *)
Apply(w, v) ==
  /\ pc[w] = "ready"
  /\ \E item \in FirstOf(held[w]) :
       /\ current' = [ current EXCEPT ![w] = item ]
       /\ verdict' = [ verdict EXCEPT ![w] = v ]
       /\ pc' = [ pc EXCEPT ![w] =
                    IF v = "blocked" \/ (v = "retry" /\ Exhausted(item))
                      THEN "report" ELSE "settle" ]
       /\ \/ v \in {"ok", "retry"} /\ performed' = performed \cup {item.payload}
          \/ v # "ok" /\ UNCHANGED performed
  /\ UNCHANGED <<rows, held, said, faults, asked, about, settled>>

(* report_route_health: nothing is said if the card cannot be read; the    *)
(* key is remembered before the notice is queued, and an enqueue that      *)
(* fails is only logged.  Every card is on one route.                      *)
Report(w) ==
  LET p == ProcOf[w]
      silent == current[w].card = NoCard \/ p \in said
  IN  /\ pc[w] = "report"
      /\ pc' = [ pc EXCEPT ![w] = "settle" ]
      /\ \/ silent /\ UNCHANGED <<rows, said, faults, history>>
         \/ ~silent /\ Fault /\ UNCHANGED <<rows, said, history>>
         \/ /\ ~silent
            /\ said' = said \cup {p}
            /\ \/ EnqueueEffect("admin_notice", NoCard, 0) /\ UNCHANGED faults
               \/ Fault /\ UNCHANGED <<rows, history>>
      /\ UNCHANGED <<held, current, verdict>>

-----------------------------------------------------------------------------
(* handle, second half: complete_outbox or fail_outbox.                    *)

(* backoff_secs.                                                           *)
Backoff(attempts) ==
  Earlier(IF attempts <= 20 THEN 2 ^ attempts ELSE 2 ^ 20, MaxBackoff)

(* The worker is done with its item, whatever became of the row.           *)
NextItem(w) ==
  /\ held' = [ held EXCEPT ![w] = @ \ {current[w]} ]
  /\ current' = [ current EXCEPT ![w] = NoWork ]
  /\ verdict' = [ verdict EXCEPT ![w] = "none" ]
  /\ pc' = [ pc EXCEPT ![w] = "ready" ]
  /\ UNCHANGED <<said, asked, about, performed>>

(* The statements behind take_claim name the row by its id alone.          *)
RecordVerdict(w) ==
  LET id    == current[w].id
      final == verdict[w] # "retry" \/ Exhausted(current[w])
      as    == IF verdict[w] = "ok" THEN "done" ELSE "dropped"
  IN  \/ /\ final
         /\ rows' = Remove(rows, id)
         /\ settled' = IF id \in DOMAIN rows
                         THEN [ settled EXCEPT ![rows[id].payload] = as ]
                         ELSE settled
      \/ /\ ~final
         /\ \E after \in RetryAfters :
              rows' = Release(rows, id, Later(after, Backoff(current[w].attempts)))
         /\ UNCHANGED settled

LeaseLost(w) == ~HoldsClaim(rows, current[w].id, Name[w])

(* SQLite: BEGIN IMMEDIATE makes the check and the write one step.         *)
Settle(w) ==
  /\ Backend = "sqlite"
  /\ pc[w] = "settle"
  /\ ~LeaseLost(w)
  /\ RecordVerdict(w)
  /\ NextItem(w)
  /\ UNCHANGED faults

(* PostgreSQL: the check is a plain SELECT in a read-committed transaction *)
(* and another transaction may commit before the write.                    *)
CheckClaim(w) ==
  /\ Backend = "postgres"
  /\ pc[w] = "settle"
  /\ ~LeaseLost(w)
  /\ pc' = [ pc EXCEPT ![w] = "write" ]
  /\ UNCHANGED <<rows, held, current, verdict, said, faults, history>>

WriteOutcome(w) ==
  /\ pc[w] = "write"
  /\ RecordVerdict(w)
  /\ NextItem(w)
  /\ UNCHANGED faults

(* StoreError::LeaseLost: the row is gone or somebody else's; nothing is   *)
(* written and the worker moves on.                                        *)
GiveWay(w) ==
  /\ pc[w] = "settle"
  /\ LeaseLost(w)
  /\ NextItem(w)
  /\ UNCHANGED <<rows, faults, settled>>

(* Any other store error rolls back and is only logged: the row stays      *)
(* claimed by a worker that has forgotten it.                              *)
CannotRecord(w) ==
  /\ pc[w] \in {"settle", "write"}
  /\ Fault
  /\ NextItem(w)
  /\ UNCHANGED <<rows, settled>>

-----------------------------------------------------------------------------
(* The process dies and is started again: memory goes, the table stays.    *)
Crash(p) ==
  LET mine == { w \in Workers : ProcOf[w] = p }
  IN  /\ p \in said \/ \E w \in mine : held[w] # {}
      /\ Fault
      /\ held' = [ w \in Workers |-> IF w \in mine THEN {} ELSE held[w] ]
      /\ current' = [ w \in Workers |-> IF w \in mine THEN NoWork ELSE current[w] ]
      /\ verdict' = [ w \in Workers |-> IF w \in mine THEN "none" ELSE verdict[w] ]
      /\ pc' = [ w \in Workers |-> IF w \in mine THEN "ready" ELSE pc[w] ]
      /\ said' = said \ {p}
      /\ UNCHANGED <<rows, history>>

(* The janitor takes back every claim older than three leases.  Taking     *)
(* rows from a worker that is slow rather than dead uses up one fault.     *)
Reclaim ==
  LET expired == Expired(rows, ReclaimAge)
      slow    == \E w \in Workers, i \in expired :
                   \E item \in held[w] : item.id = i /\ rows[i].claimedBy = Name[w]
  IN  /\ expired # {}
      /\ IF slow THEN Fault ELSE UNCHANGED faults
      /\ rows' = ReclaimExpired(rows, ReclaimAge)
      /\ UNCHANGED <<workers, said, history>>

Tick ==
  /\ rows' = Elapse(rows)
  /\ rows' # rows
  /\ UNCHANGED <<workers, said, faults, history>>

-----------------------------------------------------------------------------
WorkerStep(w) ==
  \/ TakeBatch(w)
  \/ \E v \in Verdicts : Apply(w, v)
  \/ Report(w)
  \/ Settle(w)
  \/ CheckClaim(w)
  \/ WriteOutcome(w)
  \/ GiveWay(w)

Next ==
  \/ \E kind \in AskKinds, card \in Cards, delay \in Delays : Ask(kind, card, delay)
  \/ \E w \in Workers : WorkerStep(w)
  \/ \E w \in Workers : ClaimUnheard(w) \/ CannotRecord(w)
  \/ \E p \in Procs : Crash(p)
  \/ Reclaim
  \/ Tick

Spec == Init /\ [][Next]_vars

(***************************************************************************)
(* A live worker never stops, a janitor's interval and a row's delay come  *)
(* to an end; nothing says the environment queues or fails anything.       *)
(***************************************************************************)
Fairness ==
  /\ \A w \in Workers : WF_vars(WorkerStep(w))
  /\ WF_vars(Reclaim)
  /\ WF_vars(Tick)

FairSpec == Spec /\ Fairness

-----------------------------------------------------------------------------
Row ==
  [ kind : AskKinds \cup {"admin_notice"}, card : Cards \cup {NoCard}, lane : Nat,
    payload : Requests, notBefore : Int, attempts : Nat,
    claimedBy : {Name[w] : w \in Workers} \cup {Nobody}, claimedAt : Int ]

Item ==
  [ id : Requests, card : Cards \cup {NoCard}, lane : Nat, payload : Requests,
    attempts : Nat, notBefore : Int ]

(* The type invariant: every row holds a request that was made, and a      *)
(* worker past `ready' is on an item of its batch.                         *)
TypeOK ==
  /\ asked \in 0..MaxRequests
  /\ DOMAIN rows \subseteq 1..asked
  /\ rows \in [ DOMAIN rows -> Row ]
  /\ held \in [ Workers -> SUBSET Item ]
  /\ current \in [ Workers -> Item \cup {NoWork} ]
  /\ verdict \in [ Workers -> Verdicts \cup {"none"} ]
  /\ pc \in [ Workers -> {"ready", "report", "settle", "write"} ]
  /\ \A w \in Workers : pc[w] # "ready" => current[w] \in held[w] /\ verdict[w] # "none"
  /\ said \subseteq Procs
  /\ faults \in 0..MaxFaults
  /\ about \in [ Requests -> Subjects \cup {NoSubject} ]
  /\ performed \subseteq 1..asked
  /\ settled \in [ Requests -> {"none", "done", "dropped", "superseded"} ]

(* "Two workers can never edit one card" (main.rs): no two workers are on  *)
(* effects of the same card at the same time, whatever leases expired.     *)
OneWorkerPerCard ==
  \A v, w \in Workers :
    pc[v] # "ready" /\ pc[w] # "ready" /\ v # w /\ current[v].card # NoCard
      => current[v].card # current[w].card

(* take_claim is a fence: a worker that settles an item is the last one    *)
(* that claimed the row, the claim still stands, and the effect in the row *)
(* is the one it carried out.  A claim is told from a later one by the     *)
(* attempt counter.                                                        *)
SettlesAsHolder(w) ==
  LET id == current[w].id
  IN  /\ id \in DOMAIN rows
      /\ rows[id].claimedBy = Name[w]
      /\ rows[id].attempts = current[w].attempts
      /\ rows[id].payload = current[w].payload

OnlyHolderSettles ==
  [][ \A w \in Workers :
        held'[w] # held[w] /\ held[w] # {} /\ rows' # rows => SettlesAsHolder(w) ]_vars

(* On PostgreSQL only half of that holds: take_claim reads the row without *)
(* locking it, and the DELETE behind it names the row by id.  An effect    *)
(* that was not carried out is settled as another's verdict only when it   *)
(* was folded into the row of an older one, and the lease on that row was  *)
(* taken back between the check and the write.                             *)
Overtaken(w) ==
  LET row == rows[current[w].id]
  IN  row.claimedBy # Name[w] \/ row.attempts # current[w].attempts

SettledBy(w, r) ==
  LET id == current[w].id
  IN  /\ pc[w] \in {"settle", "write"} /\ pc'[w] = "ready"
      /\ id \in DOMAIN rows
      /\ rows[id].payload = r
      /\ \/ current[w].payload = r /\ (settled'[r] = "done" => r \in performed)
         \/ pc[w] = "write" /\ Overtaken(w) /\ r # id

OnlyOvertakenIsLost ==
  [][ \A r \in Requests :
        settled'[r] # settled[r] /\ settled'[r] # "superseded"
          => \E w \in Workers : SettledBy(w, r) ]_vars

Queued(r) == \E i \in DOMAIN rows : rows[i].payload = r

(* Every effect that is queued is in the end carried out, given up on or   *)
(* replaced, whatever crashes, slow workers and database errors happen.    *)
EveryRequestSettles == \A r \in Requests : Queued(r) ~> ~Queued(r)

(***************************************************************************)
(* The promise this implements.  A request is queued while a row holds it; *)
(* otherwise it stands where the last row that held it left it.            *)
(***************************************************************************)
Fate ==
  [ r \in Requests |-> IF Queued(r) THEN "queued"
                       ELSE IF r > asked THEN "unasked"
                       ELSE settled[r] ]

Replaceable == { s \in Subjects : s.kind \in Coalescable /\ s.card # NoCard }

Promise == INSTANCE DurableEffects WITH fate <- Fate

(* No queued effect is lost or ticked off without having been carried out. *)
EffectsAreDurable == Promise!Spec

=============================================================================

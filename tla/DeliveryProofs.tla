--------------------------- MODULE DeliveryProofs ---------------------------
(***************************************************************************)
(* One card and its message, for any budget of deliveries, faults, crashes *)
(* and the rest, and any waits: that once nothing is under way the card's  *)
(* hash and tags are those of the card as it is, and the message shows     *)
(* them; and that its post is held open while the card is live, and let go *)
(* once its alert has resolved.                                            *)
(***************************************************************************)
EXTENDS Delivery, FiniteSetTheorems, SequenceTheorems, WellFoundedInduction, TLAPS

-----------------------------------------------------------------------------
IsRead     == doing # None /\ doing.step = "read"
IsAnswered == doing # None /\ doing.step = "answered"

(* An item that carries flags has them.                                    *)
Queued == { item \in Items : item.kind = "set_flags" => item.flags \in Flags }

Head1 == Head(batch).kind

Has(q, kind)  == \E i \in DOMAIN q : q[i].kind = kind
AtMostOne(q, kind) == \A i, j \in DOMAIN q : q[i].kind = kind /\ q[j].kind = kind => i = j

SameColumns(a, b) ==
  /\ a.posted = b.posted /\ a.hash = b.hash /\ a.tags = b.tags
  /\ a.archived = b.archived /\ a.pinned = b.pinned

TypeInv ==
  /\ policy \in Policies
  /\ alert \in Alert /\ held \in BOOLEAN
  /\ row \in Row
  /\ plan \in Plan \cup {None}
  /\ queue \in Seq(Queued)
  /\ batch \in Seq(Queued)
  /\ doing \in Reading \cup Answer \cup {None}
  /\ doing # None => batch # <<>>
  /\ post \in Post \cup {None}
  /\ labelTag \in [ forum : Nat, known : Nat, last : Nat ]
  /\ left \in [ Sources -> Nat ]
  /\ \A s \in Sources : left[s] <= Budget[s]

(* What is read stays what the row has, for only the worker writes it.     *)
ReadInv ==
  /\ IsRead => SameColumns(doing.card, row)
  /\ IsAnswered =>
       /\ doing.verdict # "done" => doing.applied = Nothing
       /\ doing.applied.posted # None => Head1 = "post_card" /\ doing.applied.hash # None
       /\ doing.applied.hash # None => Head1 \in {"post_card", "edit_card", "resync_card"}

(* One post_card is to be carried out at most, and none for a posted card. *)
PostPending == Has(queue, "post_card") \/ Has(batch, "post_card")

OnePostInv ==
  /\ AtMostOne(queue, "post_card") /\ AtMostOne(batch, "post_card")
  /\ ~(Has(queue, "post_card") /\ Has(batch, "post_card"))
  /\ PostPending => ~row.posted /\ row.state # "orphaned" /\ (plan # None => plan.card.state # "orphaned")
  /\ row.state = "orphaned" => ~row.posted
  /\ plan # None /\ plan.card.state = "orphaned" => ~row.posted

(* An item of the kind is still to be read for.                            *)
AheadOf(q, b, d, kind) ==
  Has(q, kind) \/ \E i \in DOMAIN b : b[i].kind = kind /\ (i = 1 => d = None)

Ahead(kind) == AheadOf(queue, batch, doing, kind)

Wanted == Rendered(row, alert.text)

(* The answer under way is that of the first post.                         *)
Landing == IsAnswered /\ doing.applied.posted # None

(* The edit in hand read the card as it is now, and its answer says so.    *)
EditUnderWay ==
  /\ doing # None /\ Head1 = "edit_card"
  /\ IsRead /\ row.posted => Rendered(doing.card, doing.text) = Wanted
  /\ IsAnswered /\ doing.verdict # "retry" /\ row.posted => Coalesce(doing.applied.hash, row.hash) = Wanted

HashFresh ==
  /\ row.posted => row.hash = Wanted
  /\ IsRead /\ Head1 \in {"post_card", "edit_card", "resync_card"} /\ (Head1 = "post_card" \/ row.posted)
       => Rendered(doing.card, doing.text) = Wanted
  /\ IsAnswered /\ (row.posted \/ Landing) => doing.applied.hash \in {None, Wanted}

(* The edit that brings the card's hash up to date is queued or under way, *)
(* or there is none to make.                                               *)
HashInv == Unused("refusals") /\ plan = None => Ahead("edit_card") \/ EditUnderWay \/ HashFresh

(* Nothing happened that leaves a drawn message unrecorded.                *)
NoLoss ==
  Unused("crashes") /\ (Unused("requests") \/ \A s \in {"tags", "faults", "refusals"} : Unused(s))

ResyncRequested == Has(queue, "resync_card") \/ Has(batch, "resync_card") => ~Unused("requests")

(* Until a tag is deleted nobody knows one that is not there.              *)
TagKnown ==
  Unused("tags") => labelTag.known \in {0, labelTag.forum} /\ (IsRead => doing.known \in {0, labelTag.forum})

(* The hash the row has once the answer under way is recorded.             *)
HashAnswered == IF IsAnswered THEN Coalesce(doing.applied.hash, row.hash) ELSE row.hash

HashShown == NoLoss /\ post # None /\ (row.posted \/ Landing) => post.shown = HashAnswered

ShownInv == ResyncRequested /\ TagKnown /\ HashShown

RightTag(tags) == tags # None /\ tags.state = TagState(row.state)

(* The retag in hand read the state as it is now.                          *)
RetagUnderWay ==
  /\ doing # None /\ Head1 = "set_tags"
  /\ IsRead /\ row.posted => TagState(doing.card.state) = TagState(row.state)
  /\ IsAnswered /\ doing.verdict # "retry" /\ row.posted /\ post # None
       => RightTag(Coalesce(doing.applied.tags, row.tags))

TagsFresh ==
  /\ row.posted /\ post # None => RightTag(row.tags)
  /\ IsRead /\ Head1 \in {"post_card", "resync_card", "set_tags"} /\ (Head1 = "post_card" \/ row.posted)
       => TagState(doing.card.state) = TagState(row.state)
  /\ IsAnswered /\ (row.posted \/ Landing) /\ doing.applied.tags # None => RightTag(doing.applied.tags)
  /\ Landing => doing.applied.tags # None

(* The same of a post's tags, which no acknowledgement queues.             *)
TagsInv ==
  policy.forum /\ (\A s \in {"acks", "refusals", "refreshes"} : Unused(s)) =>
    Ahead("set_tags") \/ RetagUnderWay \/ TagsFresh

TagsAnswered == IF IsAnswered THEN Coalesce(doing.applied.tags, row.tags) ELSE row.tags

TagShownInv ==
  policy.forum /\ Unused("crashes") /\ post # None /\ (row.posted \/ Landing) =>
    post.tags # None /\ post.tags.state = TagsAnswered.state

-----------------------------------------------------------------------------
(* The queue.                                                              *)

(* The n-th place of a set of numbers: each has one, and each of them is   *)
(* one.                                                                    *)
LEMMA PlacesAre ==
  ASSUME NEW n \in Nat, NEW S \in SUBSET (1..n)
  PROVE  /\ Cardinality(S) \in Nat
         /\ \A m \in 1..Cardinality(S) : PlaceOf(S, m) \in S
         /\ \A k, m \in 1..Cardinality(S) : PlaceOf(S, k) = PlaceOf(S, m) => k = m
         /\ \A i \in S : \E m \in 1..Cardinality(S) : PlaceOf(S, m) = i
         /\ \A k, m \in 1..Cardinality(S) : PlaceOf(S, k) < PlaceOf(S, m) => k < m
<1> DEFINE N == Cardinality(S)
           Till(i) == { j \in S : j <= i }
           rank == [ i \in S |-> Cardinality(Till(i)) ]
<1>0. S \subseteq Int
  OBVIOUS
<1>1. IsFiniteSet(S) /\ N \in Nat
  <2>1. 1 \in Int /\ n \in Int
    OBVIOUS
  <2>2. IsFiniteSet(1..n)
    BY <2>1, FS_Interval
  <2>3. IsFiniteSet(S)
    BY <2>2, FS_Subset
  <2> QED BY <2>3, FS_CardinalityType
<1>2. ASSUME NEW i \in S
      PROVE  rank[i] \in 1..N /\ IsFiniteSet(Till(i))
  <2>1. Till(i) \in SUBSET S /\ i \in Till(i)
    OBVIOUS
  <2> HIDE DEF Till
  <2>2. IsFiniteSet(Till(i)) /\ Cardinality(Till(i)) <= N /\ Cardinality(Till(i)) \in Nat
    BY <1>1, <2>1, FS_Subset, FS_CardinalityType
  <2>3. Cardinality(Till(i)) # 0
    BY <2>1, <2>2, FS_EmptySet
  <2> QED BY <1>1, <2>2, <2>3
<1>3. ASSUME NEW i \in S, NEW j \in S, i < j
      PROVE  rank[i] < rank[j]
  <2>1. Till(i) \in SUBSET (Till(j) \ {j}) /\ j \in Till(j)
    <3>1. i \in Int /\ j \in Int /\ \A k \in S : k \in Int
      BY <1>0
    <3>2. \A k \in S : k <= i => k <= j /\ k # j
      BY <1>3, <3>1
    <3>3. j <= j
      BY <3>1
    <3>4. \A k \in Till(i) : k \in Till(j) /\ k # j
      BY <3>2
    <3>5. j \in Till(j)
      BY <3>3
    <3> HIDE DEF Till
    <3> QED BY <3>4, <3>5
  <2>2. IsFiniteSet(Till(j))
    BY <1>2
  <2> HIDE DEF Till
  <2>3. IsFiniteSet(Till(j) \ {j}) /\ Cardinality(Till(j) \ {j}) = Cardinality(Till(j)) - 1
    BY <2>1, <2>2, FS_RemoveElement
  <2>4. Cardinality(Till(i)) <= Cardinality(Till(j)) - 1
    BY <2>1, <2>3, FS_Subset
  <2> QED BY <1>2, <2>4
<1>4. rank \in Injection(S, 1..N)
  <2>1. rank \in [ S -> 1..N ]
    BY <1>2
  <2> HIDE DEF rank
  <2>2. \A i, j \in S : rank[i] = rank[j] => i = j
    <3>1. SUFFICES ASSUME NEW i \in S, NEW j \in S, rank[i] = rank[j], i # j
                   PROVE  FALSE
      OBVIOUS
    <3>2. i < j \/ j < i
      BY <1>0, <3>1
    <3>3. rank[i] \in Int /\ rank[j] \in Int
      <4>1. rank[i] \in 1..N /\ rank[j] \in 1..N
        BY <1>2
      <4> HIDE DEF N
      <4> QED BY <1>1, <4>1
    <3>4. rank[i] < rank[j] \/ rank[j] < rank[i]
      BY <1>3, <3>2
    <3> HIDE DEF rank
    <3> QED BY <3>1, <3>3, <3>4
  <2> QED BY <2>1, <2>2 DEF Injection, IsInjective
<1>5. rank \in Surjection(S, 1..N)
  <2>1. IsFiniteSet(1..N) /\ Cardinality(1..N) = N
    BY <1>1, FS_Interval
  <2> HIDE DEF rank
  <2> QED BY <1>4, <2>1, FS_Injection
<1>6. ASSUME NEW m \in 1..N
      PROVE  PlaceOf(S, m) \in S /\ rank[PlaceOf(S, m)] = m
  <2>1. \E i \in S : rank[i] = m
    <3> HIDE DEF rank
    <3> QED BY <1>5 DEF Surjection
  <2>2. PICK i \in S : Cardinality(Till(i)) = m
    BY <2>1
  <2>3. PlaceOf(S, m) = CHOOSE i1 \in S : Cardinality(Till(i1)) = m
    BY DEF PlaceOf
  <2> HIDE DEF Till
  <2>4. PlaceOf(S, m) \in S /\ Cardinality(Till(PlaceOf(S, m))) = m
    BY <2>2, <2>3, Zenon
  <2> QED BY <2>4
<1>7. \A i \in S : \E m \in 1..N : PlaceOf(S, m) = i
  <2> SUFFICES ASSUME NEW i \in S
               PROVE  \E m \in 1..N : PlaceOf(S, m) = i
    OBVIOUS
  <2>1. rank[i] \in 1..N
    BY <1>2
  <2> HIDE DEF rank
  <2>2. PlaceOf(S, rank[i]) = i
    BY <1>4, <1>6, <2>1 DEF Injection, IsInjective
  <2> QED BY <2>1, <2>2
<1>8. ASSUME NEW k \in 1..N, NEW m \in 1..N, PlaceOf(S, k) < PlaceOf(S, m)
      PROVE  k < m
  <2>1. rank[PlaceOf(S, k)] < rank[PlaceOf(S, m)]
    BY <1>3, <1>6, <1>8
  <2> HIDE DEF rank
  <2> QED BY <1>6, <2>1
<1> HIDE DEF rank
<1> QED BY <1>1, <1>6, <1>7, <1>8

(* Picking items by their places keeps their kinds, and takes none twice.  *)
LEMMA ItemsAtIs ==
  ASSUME NEW X, NEW q \in Seq(X), NEW S \in SUBSET DOMAIN q
  PROVE  /\ ItemsAt(q, S) \in Seq(X)
         /\ \A kind : Has(ItemsAt(q, S), kind) <=> \E i \in S : q[i].kind = kind
         /\ \A kind : AtMostOne(q, kind) => AtMostOne(ItemsAt(q, S), kind)
<1>1. Len(q) \in Nat /\ DOMAIN q = 1..Len(q)
  BY LenProperties
<1>2. /\ Cardinality(S) \in Nat
      /\ \A m \in 1..Cardinality(S) : PlaceOf(S, m) \in S
      /\ \A k, m \in 1..Cardinality(S) : PlaceOf(S, k) = PlaceOf(S, m) => k = m
      /\ \A i \in S : \E m \in 1..Cardinality(S) : PlaceOf(S, m) = i
  BY <1>1, PlacesAre
<1> DEFINE r == ItemsAt(q, S)
<1>3. DOMAIN r = 1..Cardinality(S) /\ \A m \in 1..Cardinality(S) : r[m] = q[PlaceOf(S, m)]
  BY DEF ItemsAt
<1>4. r \in Seq(X)
  <2>1. \A m \in 1..Cardinality(S) : q[PlaceOf(S, m)] \in X
    BY <1>1, <1>2, ElementOfSeq
  <2>2. r \in [ 1..Cardinality(S) -> X ]
    BY <2>1 DEF ItemsAt
  <2> HIDE DEF r
  <2> QED BY <1>2, <2>2, SeqDef
<1> HIDE DEF r
<1>5. \A kind : Has(r, kind) <=> \E i \in S : q[i].kind = kind
  BY <1>2, <1>3 DEF Has
<1>6. \A kind : AtMostOne(q, kind) => AtMostOne(r, kind)
  <2> SUFFICES ASSUME NEW kind, AtMostOne(q, kind), NEW k \in DOMAIN r, NEW m \in DOMAIN r,
                      r[k].kind = kind, r[m].kind = kind
               PROVE  k = m
    BY DEF AtMostOne
  <2>1. PlaceOf(S, k) = PlaceOf(S, m)
    BY <1>2, <1>3 DEF AtMostOne
  <2> QED BY <1>2, <1>3, <2>1
<1> QED BY <1>4, <1>5, <1>6 DEF r

LEMMA JoinedIs ==
  ASSUME NEW X, NEW q \in Seq(X), NEW r \in Seq(X)
  PROVE  /\ q \o r \in Seq(X)
         /\ \A kind : Has(q \o r, kind) <=> Has(q, kind) \/ Has(r, kind)
         /\ \A kind : AtMostOne(q, kind) /\ AtMostOne(r, kind) /\ ~(Has(q, kind) /\ Has(r, kind))
                     => AtMostOne(q \o r, kind)
<1> DEFINE m == Len(q)
           n == Len(r)
           s == q \o r
<1>1. m \in Nat /\ DOMAIN q = 1..m /\ n \in Nat /\ DOMAIN r = 1..n
  BY LenProperties
<1>2. /\ s \in Seq(X) /\ Len(s) = m + n
      /\ \A i \in 1..(m + n) : s[i] = IF i <= m THEN q[i] ELSE r[i - m]
  BY ConcatProperties
<1>3. DOMAIN s = 1..(m + n)
  BY <1>2, LenProperties
<1> HIDE DEF s, m, n
<1>4. ASSUME NEW kind
      PROVE  Has(s, kind) <=> Has(q, kind) \/ Has(r, kind)
  <2>1. ASSUME NEW i \in 1..m, q[i].kind = kind
        PROVE  i \in DOMAIN s /\ s[i].kind = kind
    BY <1>1, <1>2, <1>3, <2>1
  <2>2. ASSUME NEW i \in 1..n, r[i].kind = kind
        PROVE  m + i \in DOMAIN s /\ s[m + i].kind = kind
    <3>1. m + i \in 1..(m + n) /\ ~(m + i <= m) /\ (m + i) - m = i
      BY <1>1
    <3> QED BY <1>2, <1>3, <2>2, <3>1
  <2>3. ASSUME NEW i \in 1..(m + n), s[i].kind = kind
        PROVE  Has(q, kind) \/ Has(r, kind)
    <3>1. CASE i <= m
      <4>1. i \in 1..m /\ s[i] = q[i]
        BY <1>1, <1>2, <3>1
      <4> QED BY <1>1, <2>3, <4>1 DEF Has
    <3>2. CASE ~(i <= m)
      <4>1. i - m \in 1..n /\ s[i] = r[i - m]
        BY <1>1, <1>2, <3>2
      <4> QED BY <1>1, <2>3, <4>1 DEF Has
    <3> QED BY <3>1, <3>2
  <2> QED BY <1>1, <1>3, <2>1, <2>2, <2>3 DEF Has
<1>5. ASSUME NEW kind, AtMostOne(q, kind), AtMostOne(r, kind), ~(Has(q, kind) /\ Has(r, kind)),
             NEW i \in DOMAIN s, NEW j \in DOMAIN s, s[i].kind = kind, s[j].kind = kind
      PROVE  i = j
  <2>1. ASSUME NEW k \in DOMAIN s, s[k].kind = kind
        PROVE  \/ k <= m /\ k \in DOMAIN q /\ q[k].kind = kind
               \/ ~(k <= m) /\ k - m \in DOMAIN r /\ r[k - m].kind = kind
    <3>1. k \in 1..(m + n)
      BY <1>3
    <3>2. k <= m => k \in 1..m
      BY <1>1, <3>1
    <3>3. ~(k <= m) => k - m \in 1..n
      BY <1>1, <3>1
    <3> QED BY <1>1, <1>2, <2>1, <3>1, <3>2, <3>3
  <2>2. CASE i <= m /\ j <= m
    BY <1>5, <2>1, <2>2 DEF AtMostOne
  <2>3. CASE ~(i <= m) /\ ~(j <= m)
    <3>1. i - m = j - m
      BY <1>5, <2>1, <2>3 DEF AtMostOne
    <3> QED BY <1>1, <1>3, <3>1
  <2>4. CASE (i <= m /\ ~(j <= m)) \/ (~(i <= m) /\ j <= m)
    <3>1. Has(q, kind) /\ Has(r, kind)
      BY <1>5, <2>1, <2>4 DEF Has
    <3> QED BY <1>5, <3>1
  <2> QED BY <2>2, <2>3, <2>4
<1>6. \A kind : AtMostOne(q, kind) /\ AtMostOne(r, kind) /\ ~(Has(q, kind) /\ Has(r, kind))
                => AtMostOne(s, kind)
  BY <1>5 DEF AtMostOne
<1> QED BY <1>2, <1>4, <1>6 DEF s

LEMMA PartIs ==
  ASSUME NEW X, NEW q \in Seq(X), NEW m \in 1..(Len(q) + 1), NEW n \in 0..Len(q)
  PROVE  /\ SubSeq(q, m, n) \in Seq(X)
         /\ DOMAIN SubSeq(q, m, n) = 1..(n - m + 1)
         /\ \A i \in 1..(n - m + 1) : SubSeq(q, m, n)[i] = q[m + i - 1]
<1>1. Len(q) \in Nat /\ DOMAIN q = 1..Len(q)
  BY LenProperties
<1>2. \A i \in m..n : q[i] \in X
  <2>1. \A i \in m..n : i \in 1..Len(q)
    BY <1>1
  <2> QED BY <2>1, ElementOfSeq
<1> DEFINE s == SubSeq(q, m, n)
<1>3. m \in Int /\ n \in Int
  BY <1>1
<1>4. /\ s \in Seq(X) /\ Len(s) = IF m <= n THEN n - m + 1 ELSE 0
      /\ \A i \in 1..(n - m + 1) : s[i] = q[m + i - 1]
  BY <1>2, <1>3, SubSeqProperties
<1>5. DOMAIN s = 1..Len(s)
  BY <1>4, LenProperties
<1> HIDE DEF s
<1>6. 1..Len(s) = 1..(n - m + 1)
  BY <1>1, <1>4
<1> QED BY <1>4, <1>5, <1>6 DEF s

(* The item comes between those that are there.                            *)
LEMMA InsertIs ==
  ASSUME NEW X, NEW q \in Seq(X), NEW item \in X
  PROVE  /\ Insert(q, item) \in Seq(X)
         /\ \A kind : Has(Insert(q, item), kind) <=> Has(q, kind) \/ item.kind = kind
         /\ \A kind : AtMostOne(q, kind) /\ ~(Has(q, kind) /\ item.kind = kind)
                     => AtMostOne(Insert(q, item), kind)
<1> DEFINE p == Cardinality(Sooner(q, item.due))
           a == SubSeq(q, 1, p)
           b == SubSeq(q, p + 1, Len(q))
<1>1. Len(q) \in Nat /\ DOMAIN q = 1..Len(q)
  BY LenProperties
<1>2. p \in 0..Len(q)
  <2>1. Sooner(q, item.due) \in SUBSET (1..Len(q))
    BY <1>1 DEF Sooner
  <2>2. IsFiniteSet(1..Len(q)) /\ Cardinality(1..Len(q)) = Len(q)
    BY <1>1, FS_Interval
  <2> QED BY <1>1, <2>1, <2>2, FS_Subset, FS_CardinalityType
<1>3. Insert(q, item) = (a \o <<item>>) \o b
  <2>1. (p + 1) - 1 = p
    BY <1>1, <1>2
  <2> HIDE DEF p
  <2> QED BY <2>1 DEF Insert, InsertAt, p
<1> HIDE DEF p
<1>4. a \in Seq(X) /\ DOMAIN a = 1..p /\ \A i \in 1..p : a[i] = q[i]
  <2>1. 1 \in 1..(Len(q) + 1) /\ (p - 1) + 1 = p
    BY <1>1, <1>2
  <2>2. /\ a \in Seq(X) /\ DOMAIN a = 1..((p - 1) + 1)
        /\ \A i \in 1..((p - 1) + 1) : a[i] = q[(1 + i) - 1]
    BY <1>2, <2>1, PartIs
  <2>3. \A i \in 1..p : (1 + i) - 1 = i
    BY <1>1, <1>2
  <2> HIDE DEF a
  <2> QED BY <2>1, <2>2, <2>3
<1>5. b \in Seq(X) /\ DOMAIN b = 1..(Len(q) - p) /\ \A i \in 1..(Len(q) - p) : b[i] = q[p + i]
  <2>1. p + 1 \in 1..(Len(q) + 1) /\ Len(q) \in 0..Len(q) /\ (Len(q) - (p + 1)) + 1 = Len(q) - p
    BY <1>1, <1>2
  <2>2. /\ b \in Seq(X) /\ DOMAIN b = 1..((Len(q) - (p + 1)) + 1)
        /\ \A i \in 1..((Len(q) - (p + 1)) + 1) : b[i] = q[((p + 1) + i) - 1]
    BY <2>1, PartIs
  <2>3. \A i \in 1..(Len(q) - p) : ((p + 1) + i) - 1 = p + i
    BY <1>1, <1>2
  <2> HIDE DEF b
  <2> QED BY <2>1, <2>2, <2>3
<1> HIDE DEF a, b
<1>6. \A kind : /\ Has(q, kind) <=> Has(a, kind) \/ Has(b, kind)
                /\ AtMostOne(q, kind) => AtMostOne(a, kind) /\ AtMostOne(b, kind)
                /\ AtMostOne(q, kind) => ~(Has(a, kind) /\ Has(b, kind))
  <2> SUFFICES ASSUME NEW kind
               PROVE  /\ Has(q, kind) <=> Has(a, kind) \/ Has(b, kind)
                      /\ AtMostOne(q, kind) => AtMostOne(a, kind) /\ AtMostOne(b, kind)
                      /\ AtMostOne(q, kind) => ~(Has(a, kind) /\ Has(b, kind))
    OBVIOUS
  <2>1. ASSUME NEW i \in DOMAIN q
        PROVE  (i <= p /\ i \in DOMAIN a /\ a[i] = q[i])
               \/ (~(i <= p) /\ i - p \in DOMAIN b /\ b[i - p] = q[i])
    <3>1. CASE i <= p
      <4>1. i \in 1..p
        BY <1>1, <1>2, <3>1
      <4> QED BY <1>4, <3>1, <4>1
    <3>2. CASE ~(i <= p)
      <4>1. i - p \in 1..(Len(q) - p) /\ p + (i - p) = i
        BY <1>1, <1>2, <3>2
      <4>2. b[i - p] = q[i]
        BY <1>5, <4>1
      <4> QED BY <1>5, <3>2, <4>1, <4>2
    <3> QED BY <3>1, <3>2
  <2>2. ASSUME NEW i \in DOMAIN a
        PROVE  i \in DOMAIN q /\ q[i] = a[i] /\ i <= p
    BY <1>1, <1>2, <1>4
  <2>3. ASSUME NEW i \in DOMAIN b
        PROVE  i \in Nat /\ p + i \in DOMAIN q /\ q[p + i] = b[i] /\ ~(p + i <= p)
    BY <1>1, <1>2, <1>5
  <2>4. Has(q, kind) <=> Has(a, kind) \/ Has(b, kind)
    BY <2>1, <2>2, <2>3 DEF Has
  <2>5. AtMostOne(q, kind) => AtMostOne(a, kind)
    BY <2>2 DEF AtMostOne
  <2>6. AtMostOne(q, kind) => AtMostOne(b, kind)
    <3> SUFFICES ASSUME AtMostOne(q, kind), NEW i \in DOMAIN b, NEW j \in DOMAIN b,
                        b[i].kind = kind, b[j].kind = kind
                 PROVE  i = j
      BY DEF AtMostOne
    <3>1. p + i = p + j
      BY <2>3 DEF AtMostOne
    <3> QED BY <1>1, <1>2, <2>3, <3>1
  <2>7. AtMostOne(q, kind) => ~(Has(a, kind) /\ Has(b, kind))
    <3> SUFFICES ASSUME AtMostOne(q, kind), NEW i \in DOMAIN a, NEW j \in DOMAIN b,
                        a[i].kind = kind, b[j].kind = kind
                 PROVE  FALSE
      BY DEF Has
    <3>1. i = p + j
      BY <2>2, <2>3 DEF AtMostOne
    <3> QED BY <2>2, <2>3, <3>1
  <2> QED BY <2>4, <2>5, <2>6, <2>7
<1> DEFINE one == <<item>>
<1>7. one \in Seq(X) /\ \A kind : /\ Has(one, kind) <=> item.kind = kind
                                  /\ AtMostOne(one, kind)
  BY DEF Has, AtMostOne
<1> HIDE DEF one
<1> DEFINE c == a \o one
<1>8. /\ c \in Seq(X)
      /\ \A kind : Has(c, kind) <=> Has(a, kind) \/ Has(one, kind)
      /\ \A kind : AtMostOne(a, kind) /\ AtMostOne(one, kind) /\ ~(Has(a, kind) /\ Has(one, kind))
                  => AtMostOne(c, kind)
  BY <1>4, <1>7, JoinedIs
<1> HIDE DEF c
<1>9. /\ c \o b \in Seq(X)
      /\ \A kind : Has(c \o b, kind) <=> Has(c, kind) \/ Has(b, kind)
      /\ \A kind : AtMostOne(c, kind) /\ AtMostOne(b, kind) /\ ~(Has(c, kind) /\ Has(b, kind))
                  => AtMostOne(c \o b, kind)
  BY <1>5, <1>8, JoinedIs
<1>10. Insert(q, item) = c \o b
  BY <1>3 DEF c, one
<1>11. ASSUME NEW kind
       PROVE  /\ Has(c \o b, kind) <=> Has(q, kind) \/ item.kind = kind
              /\ AtMostOne(q, kind) /\ ~(Has(q, kind) /\ item.kind = kind) => AtMostOne(c \o b, kind)
  <2>1. /\ Has(q, kind) <=> Has(a, kind) \/ Has(b, kind)
        /\ AtMostOne(q, kind) => AtMostOne(a, kind) /\ AtMostOne(b, kind)
        /\ AtMostOne(q, kind) => ~(Has(a, kind) /\ Has(b, kind))
    BY <1>6
  <2>2. /\ Has(c, kind) <=> Has(a, kind) \/ item.kind = kind
        /\ AtMostOne(a, kind) /\ ~(Has(a, kind) /\ item.kind = kind) => AtMostOne(c, kind)
    BY <1>7, <1>8
  <2>3. /\ Has(c \o b, kind) <=> Has(c, kind) \/ Has(b, kind)
        /\ AtMostOne(c, kind) /\ AtMostOne(b, kind) /\ ~(Has(c, kind) /\ Has(b, kind))
             => AtMostOne(c \o b, kind)
    BY <1>9
  <2> QED BY <2>1, <2>2, <2>3
<1> QED BY <1>9, <1>10, <1>11

(* What enqueueing does: an item of the kind is there, the others stay.    *)
Adds(q, kind, after) ==
  /\ after \in Seq(Queued)
  /\ \A k : Has(after, k) <=> Has(q, k) \/ k = kind
  /\ kind # "post_card" /\ AtMostOne(q, "post_card") => AtMostOne(after, "post_card")

(* Enqueue adds the item's kind and no other, whether it inserts or folds. *)
LEMMA EnqueueIs ==
  ASSUME DeliveryAssumption, NEW q \in Seq(Queued), NEW item \in Queued
  PROVE  Adds(q, item.kind, Enqueue(q, item))
<1>1. CASE ~Pending(q, item.kind)
  BY <1>1, InsertIs DEF Enqueue, Adds
<1>2. CASE Pending(q, item.kind)
  <2> DEFINE sooner == Sooner(q, item.due)
             folded == { i \in DOMAIN q \ sooner : q[i].kind = item.kind }
             others == DOMAIN q \ (sooner \cup folded)
             moved  == ItemsAt(q, folded)
             brought == [ n \in DOMAIN moved |-> [ moved[n] EXCEPT !.due = item.due ] ]
  <2>1. Enqueue(q, item) = (ItemsAt(q, sooner) \o brought) \o ItemsAt(q, others)
    BY <1>2 DEF Enqueue
  <2>2. /\ sooner \in SUBSET DOMAIN q /\ folded \in SUBSET DOMAIN q /\ others \in SUBSET DOMAIN q
        /\ DOMAIN q = sooner \cup folded \cup others
        /\ sooner \cap folded = {} /\ others \cap folded = {} /\ sooner \cap others = {}
    BY DEF Sooner
  <2>3. \A i \in folded : q[i].kind = item.kind
    OBVIOUS
  <2> HIDE DEF sooner, folded, others
  <2>4. /\ ItemsAt(q, sooner) \in Seq(Queued)
        /\ \A kind : Has(ItemsAt(q, sooner), kind) <=> \E i \in sooner : q[i].kind = kind
        /\ \A kind : AtMostOne(q, kind) => AtMostOne(ItemsAt(q, sooner), kind)
    BY <2>2, ItemsAtIs
  <2>5. /\ ItemsAt(q, others) \in Seq(Queued)
        /\ \A kind : Has(ItemsAt(q, others), kind) <=> \E i \in others : q[i].kind = kind
        /\ \A kind : AtMostOne(q, kind) => AtMostOne(ItemsAt(q, others), kind)
    BY <2>2, ItemsAtIs
  <2>6. /\ moved \in Seq(Queued)
        /\ \A kind : Has(moved, kind) <=> \E i \in folded : q[i].kind = kind
        /\ \A kind : AtMostOne(q, kind) => AtMostOne(moved, kind)
    BY <2>2, ItemsAtIs
  <2> HIDE DEF moved
  <2>7. /\ brought \in Seq(Queued)
        /\ DOMAIN brought = DOMAIN moved
        /\ \A n \in DOMAIN moved : brought[n].kind = moved[n].kind
    <3>1. Len(moved) \in Nat /\ DOMAIN moved = 1..Len(moved)
      BY <2>6, LenProperties
    <3>2. ASSUME NEW n \in DOMAIN moved
          PROVE  /\ [ moved[n] EXCEPT !.due = item.due ] \in Queued
                 /\ [ moved[n] EXCEPT !.due = item.due ].kind = moved[n].kind
      <4>1. moved[n] \in Queued
        BY <2>6, <3>1, ElementOfSeq
      <4>2. PICK old \in Queued : old = moved[n]
        BY <4>1
      <4>3. [ old EXCEPT !.due = item.due ] \in Queued /\ [ old EXCEPT !.due = item.due ].kind = old.kind
        BY DEF Queued, Items
      <4> QED BY <4>2, <4>3
    <3>3. brought \in [ 1..Len(moved) -> Queued ]
      BY <3>1, <3>2
    <3>4. \A n \in DOMAIN moved : brought[n].kind = moved[n].kind
      BY <3>2
    <3>5. DOMAIN brought = DOMAIN moved
      OBVIOUS
    <3> HIDE DEF brought
    <3>6. brought \in Seq(Queued)
      BY <3>1, <3>3, SeqDef
    <3> QED BY <3>4, <3>5, <3>6
  <2>8. \A kind : /\ Has(brought, kind) <=> Has(moved, kind)
                  /\ AtMostOne(moved, kind) => AtMostOne(brought, kind)
    <3> HIDE DEF brought
    <3> QED BY <2>7 DEF Has, AtMostOne
  <2> HIDE DEF brought
  <2> DEFINE front == ItemsAt(q, sooner) \o brought
  <2>9. /\ front \in Seq(Queued)
        /\ \A kind : Has(front, kind) <=> Has(ItemsAt(q, sooner), kind) \/ Has(brought, kind)
        /\ \A kind : AtMostOne(ItemsAt(q, sooner), kind) /\ AtMostOne(brought, kind)
                      /\ ~(Has(ItemsAt(q, sooner), kind) /\ Has(brought, kind)) => AtMostOne(front, kind)
    BY <2>4, <2>7, JoinedIs
  <2> HIDE DEF front
  <2> DEFINE after == front \o ItemsAt(q, others)
  <2>10. /\ after \in Seq(Queued)
         /\ \A kind : Has(after, kind) <=> Has(front, kind) \/ Has(ItemsAt(q, others), kind)
         /\ \A kind : AtMostOne(front, kind) /\ AtMostOne(ItemsAt(q, others), kind)
                       /\ ~(Has(front, kind) /\ Has(ItemsAt(q, others), kind)) => AtMostOne(after, kind)
    BY <2>5, <2>9, JoinedIs
  <2>11. Enqueue(q, item) = after
    BY <2>1 DEF front
  <2> HIDE DEF after
  <2>12. ASSUME NEW kind
         PROVE  Has(after, kind) <=> Has(q, kind)
    <3>1. Has(q, kind) <=> \E i \in sooner \cup folded \cup others : q[i].kind = kind
      BY <2>2 DEF Has
    <3>2. Has(after, kind) <=> (\E i \in sooner : q[i].kind = kind) \/ (\E i \in folded : q[i].kind = kind)
                               \/ (\E i \in others : q[i].kind = kind)
      BY <2>4, <2>5, <2>6, <2>8, <2>9, <2>10
    <3> QED BY <3>1, <3>2
  <2>13. Has(q, item.kind)
    BY <1>2 DEF Pending, Has
  <2>14. ASSUME item.kind # "post_card", AtMostOne(q, "post_card")
         PROVE  AtMostOne(after, "post_card")
    <3>1. ~Has(brought, "post_card") /\ ~Has(moved, "post_card")
      BY <2>3, <2>6, <2>8, <2>14
    <3>2. AtMostOne(front, "post_card")
      BY <2>4, <2>6, <2>8, <2>9, <2>14, <3>1
    <3>3. ~(Has(ItemsAt(q, sooner), "post_card") /\ Has(ItemsAt(q, others), "post_card"))
      <4> SUFFICES ASSUME NEW i \in sooner, NEW j \in others,
                          q[i].kind = "post_card", q[j].kind = "post_card"
                   PROVE  FALSE
        BY <2>4, <2>5
      <4>1. i = j
        BY <2>2, <2>14 DEF AtMostOne
      <4> QED BY <2>2, <4>1
    <3> QED BY <2>5, <2>9, <2>10, <2>14, <3>1, <3>2, <3>3
  <2> QED BY <2>10, <2>11, <2>12, <2>13, <2>14 DEF Adds
<1> QED BY <1>1, <1>2

-----------------------------------------------------------------------------
(* Enqueueing one item after the other: what is in the queue after n of    *)
(* them is shown for every n by the least n for which it is not so.        *)

LEMMA LeastOf ==
  ASSUME NEW I \in SUBSET Nat, I # {}
  PROVE  \E x \in I : \A y \in I : x <= y
<1>1. IsWellFoundedOn(OpToRel(<, Nat), Nat)
  BY NatLessThanWellFounded
<1>2. PICK x \in I : \A y \in I : <<y, x>> \notin OpToRel(<, Nat)
  BY <1>1, WFMin
<1>3. \A y \in I : ~(y < x)
  BY <1>2 DEF OpToRel
<1> QED BY <1>3

LEMMA MaxOf ==
  ASSUME NEW n \in Nat, NEW S \in SUBSET (1..n), S # {}
  PROVE  Max(S) \in S /\ \A y \in S : y <= Max(S)
<1> DEFINE B == { k \in Nat : \A y \in S : y <= k }
<1>1. n \in B
  OBVIOUS
<1>2. PICK k \in B : \A m \in B : k <= m
  BY <1>1, LeastOf
<1>3. k \in S
  <2>1. SUFFICES ASSUME k \notin S PROVE FALSE
    OBVIOUS
  <2>2. \A y \in S : y \in Nat /\ 1 <= y /\ y <= k /\ y # k
    BY <1>2, <2>1
  <2>3. k \in Nat /\ k # 0
    <3>1. PICK y \in S : TRUE
      OBVIOUS
    <3> QED BY <1>2, <2>2, <3>1
  <2>4. k - 1 \in B
    BY <2>2, <2>3
  <2> QED BY <1>2, <2>3, <2>4
<1>4. \E x \in S : \A y \in S : x >= y
  BY <1>3
<1>5. Max(S) \in S /\ \A y \in S : Max(S) >= y
  BY <1>4, Zenon DEF Max
<1> QED BY <1>5

IsLoop(q, items, N, it) ==
  it = [ s \in SUBSET (1..N) |-> IF s = {} THEN q
                                ELSE Enqueue(it[s \ {Max(s)}], items[Max(s)]) ]

(* A fold is a function on the lengths up to that of the sequence, so that *)
(* no induction over sequences is needed.                                  *)
LEMMA LoopExists ==
  ASSUME NEW q, NEW items, NEW N \in Nat
  PROVE  \E it : IsLoop(q, items, N, it)
<1> DEFINE Turn(it, s) == IF s = {} THEN q
                          ELSE Enqueue(it[s \ {Max(s)}], items[Max(s)])
           Exists(n) == \E it : it = [ s \in SUBSET (1..n) |-> Turn(it, s) ]
           Bad == { n \in Nat : ~Exists(n) }
<1>1. SUFFICES ASSUME Bad # {}
               PROVE  FALSE
  BY DEF IsLoop
<1>2. PICK n \in Bad : \A m \in Bad : n <= m
  BY <1>1, LeastOf
<1>3. \A m \in Nat : \A s \in SUBSET (1..m) : s # {} =>
        Max(s) \in s /\ s \ {Max(s)} \in SUBSET (1..(m - 1))
  <2> SUFFICES ASSUME NEW m \in Nat, NEW s \in SUBSET (1..m), s # {}
               PROVE  Max(s) \in s /\ s \ {Max(s)} \in SUBSET (1..(m - 1))
    OBVIOUS
  <2>1. Max(s) \in s /\ \A y \in s : y <= Max(s)
    BY MaxOf
  <2>2. ASSUME NEW x \in s, \A y \in s : y <= x
        PROVE  s \ {x} \in SUBSET (1..(m - 1))
    <3>1. \A y \in s \ {x} : y \in Nat /\ 1 <= y /\ y <= x /\ y # x /\ x <= m /\ x \in Nat
      BY <2>2
    <3>2. \A y \in s \ {x} : y \in 1..(m - 1)
      BY <3>1
    <3> QED BY <3>2
  <2> QED BY <2>1, <2>2
<1>4. n # 0
  <2>1. \A s \in SUBSET (1..0) : s = {}
    OBVIOUS
  <2> DEFINE it == [ s \in SUBSET (1..0) |-> q ]
  <2>2. it = [ s \in SUBSET (1..0) |-> Turn(it, s) ]
    BY <2>1
  <2> HIDE DEF Turn, it
  <2>3. Exists(0)
    BY <2>2
  <2> QED BY <2>3
<1>5. n - 1 \in Nat /\ Exists(n - 1)
  <2>1. n \in Nat /\ n - 1 \in Nat /\ ~(n <= n - 1)
    BY <1>2, <1>4
  <2> HIDE DEF Exists
  <2> QED BY <1>2, <2>1
<1>6. PICK g : g = [ s \in SUBSET (1..(n - 1)) |-> Turn(g, s) ]
  BY <1>5
<1> DEFINE h == [ s \in SUBSET (1..n) |-> Turn(g, s) ]
<1>7. \A s \in SUBSET (1..(n - 1)) : s \in SUBSET (1..n)
  BY <1>5
<1>8. \A s \in SUBSET (1..(n - 1)) : h[s] = g[s]
  BY <1>6, <1>7
<1>9. ASSUME NEW s \in SUBSET (1..n)
      PROVE  Turn(g, s) = Turn(h, s)
  <2>1. CASE s = {}
    BY <2>1
  <2>2. CASE s # {}
    <3>1. s \ {Max(s)} \in SUBSET (1..(n - 1))
      BY <1>3, <2>2
    <3>2. h[s \ {Max(s)}] = g[s \ {Max(s)}]
      BY <1>8, <3>1
    <3> HIDE DEF h
    <3> QED BY <2>2, <3>2
  <2> QED BY <2>1, <2>2
<1> HIDE DEF Turn
<1>10. h = [ s \in SUBSET (1..n) |-> Turn(h, s) ]
  <2>1. [ s \in SUBSET (1..n) |-> Turn(g, s) ] = [ s \in SUBSET (1..n) |-> Turn(h, s) ]
    BY <1>9
  <2> QED BY <2>1
<1> HIDE DEF h
<1>11. Exists(n)
  BY <1>10
<1> QED BY <1>11

(* The queue after each of the N items.                                    *)
Queues(q, items, N, f) ==
  /\ f[0] = q
  /\ \A n \in 1..N : f[n] = Enqueue(f[n - 1], items[n])
  /\ EnqueueAll(q, items) = f[N]

LEMMA EnqueueAllIsLoop ==
  ASSUME NEW q, NEW items, NEW N \in Nat, DOMAIN items = 1..N
  PROVE  \E f : Queues(q, items, N, f)
<1> DEFINE it == CHOOSE it : IsLoop(q, items, N, it)
<1>1. EnqueueAll(q, items) = it[1..N]
  BY DEF EnqueueAll, FoldLeft, MapThenFoldSet, IsLoop
<1>2. IsLoop(q, items, N, it)
  BY LoopExists, Zenon
<1> HIDE DEF it
<1> DEFINE f == [ n \in 0..N |-> it[1..n] ]
<1>3. f[0] = q
  <2>1. 1..0 = {}
    OBVIOUS
  <2> QED BY <1>2, <2>1 DEF IsLoop
<1>4. ASSUME NEW n \in 1..N
      PROVE  f[n] = Enqueue(f[n - 1], items[n])
  <2>1. 1..n \in SUBSET (1..N) /\ n \in 1..n /\ n \in Nat
    OBVIOUS
  <2>2. Max(1..n) = n
    <3>1. Max(1..n) \in 1..n /\ \A y \in 1..n : y <= Max(1..n)
      BY <2>1, MaxOf
    <3> QED BY <2>1, <3>1
  <2>3. (1..n) \ {n} = 1..(n - 1)
    BY <2>1
  <2>4. it[1..n] = Enqueue(it[1..(n - 1)], items[n])
    BY <1>2, <2>1, <2>2, <2>3 DEF IsLoop
  <2> QED BY <2>4
<1>5. f[N] = it[1..N]
  OBVIOUS
<1> QED BY <1>1, <1>3, <1>4, <1>5 DEF Queues

(* A fold of Enqueue over planned items adds the kinds of them all.        *)
LEMMA EnqueueAllIs ==
  ASSUME DeliveryAssumption, NEW q \in Seq(Queued), NEW items \in Seq(Queued)
  PROVE  /\ EnqueueAll(q, items) \in Seq(Queued)
         /\ \A kind : Has(EnqueueAll(q, items), kind) <=> Has(q, kind) \/ Has(items, kind)
         /\ ~Has(items, "post_card") /\ AtMostOne(q, "post_card")
              => AtMostOne(EnqueueAll(q, items), "post_card")
<1>1. PICK N \in Nat : N = Len(items) /\ DOMAIN items = 1..N
  BY LenProperties
<1>2. PICK f : Queues(q, items, N, f)
  BY <1>1, EnqueueAllIsLoop
<1> DEFINE So(n) == /\ f[n] \in Seq(Queued)
                    /\ \A kind : Has(f[n], kind)
                                  <=> Has(q, kind) \/ \E i \in 1..N : i <= n /\ items[i].kind = kind
                    /\ ~Has(items, "post_card") /\ AtMostOne(q, "post_card")
                         => AtMostOne(f[n], "post_card")
           Bad == { n \in 0..N : ~So(n) }
<1>3. So(0)
  <2>1. f[0] = q
    BY <1>2 DEF Queues
  <2>2. \A i \in 1..N : ~(i <= 0)
    OBVIOUS
  <2> QED BY <2>1, <2>2
<1>4. ASSUME NEW n \in 1..N, So(n - 1)
      PROVE  So(n)
  <2>1. PICK before : before = f[n - 1]
    OBVIOUS
  <2>2. PICK item \in Queued : item = items[n]
    BY <1>1, ElementOfSeq
  <2>3. before \in Seq(Queued)
    BY <1>4, <2>1
  <2>4. Adds(before, item.kind, Enqueue(before, item))
    BY <2>3, EnqueueIs
  <2>5. f[n] = Enqueue(before, item)
    BY <1>2, <2>1, <2>2 DEF Queues
  <2>6. \A i \in 1..N : i <= n <=> i <= n - 1 \/ i = n
    BY <1>1
  <2>7. f[n] \in Seq(Queued)
    BY <2>4, <2>5 DEF Adds
  <2>8. ASSUME NEW kind
        PROVE  Has(f[n], kind) <=> Has(q, kind) \/ \E i \in 1..N : i <= n /\ items[i].kind = kind
    <3>1. Has(f[n], kind) <=> Has(before, kind) \/ kind = item.kind
      BY <2>4, <2>5 DEF Adds
    <3>2. Has(before, kind) <=> Has(q, kind) \/ \E i \in 1..N : i <= n - 1 /\ items[i].kind = kind
      BY <1>4, <2>1
    <3> QED BY <2>2, <2>6, <3>1, <3>2
  <2>9. ASSUME ~Has(items, "post_card"), AtMostOne(q, "post_card")
        PROVE  AtMostOne(f[n], "post_card")
    <3>1. item.kind # "post_card"
      BY <1>1, <2>2, <2>9 DEF Has
    <3>2. AtMostOne(before, "post_card")
      BY <1>4, <2>1, <2>9
    <3> QED BY <2>4, <2>5, <3>1, <3>2 DEF Adds
  <2> QED BY <2>7, <2>8, <2>9
<1> HIDE DEF So
<1>5. Bad = {}
  <2>1. SUFFICES ASSUME Bad # {} PROVE FALSE
    OBVIOUS
  <2>2. PICK n \in Bad : \A m \in Bad : n <= m
    <3>1. Bad \in SUBSET Nat
      OBVIOUS
    <3> HIDE DEF Bad
    <3> QED BY <2>1, <3>1, LeastOf
  <2>3. n # 0 /\ n \in 0..N
    BY <1>3, <2>2
  <2>4. n - 1 \in 0..N /\ n \in 1..N /\ ~(n <= n - 1)
    BY <2>3
  <2>5. So(n - 1)
    BY <2>2, <2>4
  <2> QED BY <1>4, <2>2, <2>4, <2>5
<1>6. So(N)
  BY <1>1, <1>5
<1>7. \A kind : Has(items, kind) <=> \E i \in 1..N : i <= N /\ items[i].kind = kind
  BY <1>1 DEF Has
<1>8. EnqueueAll(q, items) = f[N]
  BY <1>2 DEF Queues
<1> QED BY <1>6, <1>7, <1>8 DEF So

-----------------------------------------------------------------------------
(* What a decision queues: always an edit, and the tags if the card moves; *)
(* never a post or a resync.                                               *)
Planned(s) == s \in Seq(Queued) /\ ~Has(s, "post_card") /\ ~Has(s, "resync_card")

LEMMA NoneIs == Planned(<<>>)
  BY EmptySeq DEF Planned, Has

LEMMA OneIs ==
  ASSUME NEW item \in Queued
  PROVE  /\ <<item>> \in Seq(Queued)
         /\ \A kind : Has(<<item>>, kind) <=> item.kind = kind
  BY DEF Has

LEMMA OneIsPlanned ==
  ASSUME NEW item \in Queued, item.kind \notin {"post_card", "resync_card"}
  PROVE  Planned(<<item>>)
  BY OneIs DEF Planned

LEMMA TwoArePlanned ==
  ASSUME NEW q, NEW r, Planned(q), Planned(r)
  PROVE  /\ Planned(q \o r)
         /\ \A kind : Has(q \o r, kind) <=> Has(q, kind) \/ Has(r, kind)
<1>1. q \in Seq(Queued) /\ r \in Seq(Queued)
  BY DEF Planned
<1>2. q \o r \in Seq(Queued) /\ \A kind : Has(q \o r, kind) <=> Has(q, kind) \/ Has(r, kind)
  BY <1>1, JoinedIs
<1>3. ~Has(q \o r, "post_card") /\ ~Has(q \o r, "resync_card")
  BY <1>2 DEF Planned
<1> QED BY <1>2, <1>3 DEF Planned

LEMMA ItemIs ==
  ASSUME NEW kind \in Kinds \ {"set_flags"}, NEW due \in Nat
  PROVE  Item(kind, due) \in Queued /\ Item(kind, due).kind = kind
  BY DEF Item, Queued, Items

LEMMA SetPinnedIs ==
  ASSUME NEW pin \in BOOLEAN
  PROVE  SetPinned(pin) \in Queued /\ SetPinned(pin).kind = "set_pinned"
<1>1. SetPinned(pin) = [ kind |-> "set_pinned", due |-> 0, flags |-> None, pin |-> pin ]
  BY DEF SetPinned, Item
<1> QED BY <1>1 DEF Queued, Items, Kinds

LEMMA SetFlagsIs ==
  ASSUME NEW due \in Nat, NEW archived \in BOOLEAN, NEW locked \in BOOLEAN, NEW planned \in States
  PROVE  SetFlags(due, archived, locked, planned) \in Queued
         /\ SetFlags(due, archived, locked, planned).kind = "set_flags"
<1>1. PICK w \in {"week", "route"} : w = Window(planned)
  BY DEF Window
<1>2. [ archived |-> archived, locked |-> locked, window |-> w, planned |-> planned ] \in Flags
  BY DEF Flags
<1> QED BY <1>1, <1>2 DEF SetFlags, Queued, Items, Kinds

(* What update_for plans: an edit always, tags when a forum card changes   *)
(* its state, and neither a post nor a resync.                             *)
LEMMA EffectsAre ==
  ASSUME DeliveryAssumption, policy \in Policies, NEW card \in Row, NEW state \in States \cup {None}
  PROVE  /\ Planned(Effects(card, state))
         /\ Has(Effects(card, state), "edit_card")
         /\ policy.forum /\ state # None => Has(Effects(card, state), "set_tags")
<1> DEFINE effective == IF state = None THEN card.state ELSE state
           Forum(s)  == IF policy.forum THEN s ELSE <<>>
           moved == state # None
           gone == state = "resolved"
           p1 == IF card.archived THEN <<SetFlags(0, FALSE, FALSE, effective)>> ELSE <<>>
           p2 == Forum(ReopenedPostWindow(card, effective))
           p3 == <<Item("edit_card", Debounce)>>
           p4 == Forum(ForumEffects(card, effective, moved))
           p5 == IF gone THEN <<Item("disable_components", 0)>> ELSE <<>>
           p6 == IF gone THEN Forum(ResolvedPostFlags(card)) ELSE <<>>
<1>1. Effects(card, state) = ((((p1 \o p2) \o p3) \o p4) \o p5) \o p6
  BY DEF Effects
<1>2. effective \in States /\ Debounce \in Nat /\ policy \in Policy
  BY DEF Row, DeliveryAssumption
<1>3. Planned(p1)
  <2>1. SetFlags(0, FALSE, FALSE, effective) \in Queued /\ SetFlags(0, FALSE, FALSE, effective).kind = "set_flags"
    <3> HIDE DEF effective
    <3> QED BY <1>2, SetFlagsIs
  <2> QED BY <2>1, OneIsPlanned, NoneIs
<1>4. Planned(p2)
  <2>1. SetFlags(Debounce, FALSE, FALSE, effective) \in Queued
        /\ SetFlags(Debounce, FALSE, FALSE, effective).kind = "set_flags"
    <3> HIDE DEF effective
    <3> QED BY <1>2, SetFlagsIs
  <2>2. Planned(<<SetFlags(Debounce, FALSE, FALSE, effective)>>)
    BY <2>1, OneIsPlanned
  <2> HIDE DEF effective
  <2> QED BY <2>2, NoneIs DEF ReopenedPostWindow
<1>5. Planned(p3) /\ Has(p3, "edit_card")
  <2>1. "edit_card" \in Kinds \ {"set_flags"}
    BY DEF Kinds
  <2>2. Item("edit_card", Debounce) \in Queued /\ Item("edit_card", Debounce).kind = "edit_card"
    BY <1>2, <2>1, ItemIs
  <2> QED BY <2>2, OneIs, OneIsPlanned
<1>6. Planned(p4) /\ (policy.forum /\ moved => Has(p4, "set_tags"))
  <2> DEFINE q1 == <<Item("set_tags", 0)>>
             q2 == IF policy.bump THEN <<Item("thread_note", 0)>> ELSE <<>>
             wants == policy.pins /\ WantsPin(effective)
             q3 == IF wants # card.pinned THEN <<SetPinned(wants)>> ELSE <<>>
  <2>1. "set_tags" \in Kinds \ {"set_flags"} /\ "thread_note" \in Kinds \ {"set_flags"}
    BY DEF Kinds
  <2>2. Item("set_tags", 0) \in Queued /\ Item("set_tags", 0).kind = "set_tags"
    BY <2>1, ItemIs
  <2>3. Item("thread_note", 0) \in Queued /\ Item("thread_note", 0).kind = "thread_note"
    BY <2>1, ItemIs
  <2>4. Planned(q1) /\ Has(q1, "set_tags")
    BY <2>2, OneIs, OneIsPlanned
  <2>5. Planned(q2)
    BY <2>3, OneIsPlanned, NoneIs
  <2>6. Planned(q3)
    <3>1. PICK pin \in BOOLEAN : pin = wants
      BY <1>2 DEF Policy, WantsPin
    <3>2. Planned(<<SetPinned(pin)>>)
      BY SetPinnedIs, OneIsPlanned
    <3> QED BY <3>1, <3>2, NoneIs
  <2>7. ForumEffects(card, effective, moved) = IF ~moved THEN <<>> ELSE (q1 \o q2) \o q3
    BY DEF ForumEffects
  <2> HIDE DEF q1, q2, q3
  <2>8. Planned(q1 \o q2) /\ Has(q1 \o q2, "set_tags")
    BY <2>4, <2>5, TwoArePlanned
  <2>9. Planned((q1 \o q2) \o q3) /\ Has((q1 \o q2) \o q3, "set_tags")
    BY <2>6, <2>8, TwoArePlanned
  <2> HIDE DEF effective
  <2> QED BY <2>7, <2>9, NoneIs
<1>7. Planned(p5)
  <2>1. "disable_components" \in Kinds \ {"set_flags"}
    BY DEF Kinds
  <2>2. Item("disable_components", 0) \in Queued /\ Item("disable_components", 0).kind = "disable_components"
    BY <2>1, ItemIs
  <2> QED BY <2>2, OneIsPlanned, NoneIs
<1>8. Planned(p6)
  <2>1. "resolved" \in States
    BY DEF States
  <2>2. PICK a \in BOOLEAN, l \in BOOLEAN : a = policy.archiveOnResolve
                                            /\ l = (policy.archiveOnResolve /\ policy.lockOnResolve)
    BY <1>2 DEF Policy
  <2>3. SetFlags(Debounce, a, l, "resolved") \in Queued
        /\ SetFlags(Debounce, a, l, "resolved").kind = "set_flags"
    BY <1>2, <2>1, SetFlagsIs
  <2>4. Planned(<<SetFlags(Debounce, a, l, "resolved")>>)
    BY <2>3, OneIsPlanned
  <2>5. Planned(ResolvedPostFlags(card))
    BY <2>2, <2>4, NoneIs DEF ResolvedPostFlags
  <2> QED BY <2>5, NoneIs
<1> HIDE DEF p1, p2, p3, p4, p5, p6
<1>9. Planned(p1 \o p2)
  BY <1>3, <1>4, TwoArePlanned
<1>10. Planned((p1 \o p2) \o p3) /\ Has((p1 \o p2) \o p3, "edit_card")
  BY <1>5, <1>9, TwoArePlanned
<1>11. /\ Planned(((p1 \o p2) \o p3) \o p4) /\ Has(((p1 \o p2) \o p3) \o p4, "edit_card")
       /\ policy.forum /\ moved => Has(((p1 \o p2) \o p3) \o p4, "set_tags")
  BY <1>6, <1>10, TwoArePlanned
<1>12. /\ Planned((((p1 \o p2) \o p3) \o p4) \o p5) /\ Has((((p1 \o p2) \o p3) \o p4) \o p5, "edit_card")
       /\ policy.forum /\ moved => Has((((p1 \o p2) \o p3) \o p4) \o p5, "set_tags")
  BY <1>7, <1>11, TwoArePlanned
<1>13. /\ Planned(((((p1 \o p2) \o p3) \o p4) \o p5) \o p6) /\ Has(((((p1 \o p2) \o p3) \o p4) \o p5) \o p6, "edit_card")
       /\ policy.forum /\ moved => Has(((((p1 \o p2) \o p3) \o p4) \o p5) \o p6, "set_tags")
  BY <1>8, <1>12, TwoArePlanned
<1> QED BY <1>1, <1>13

-----------------------------------------------------------------------------
(* What a handler does, whichever it is.                                   *)

LabelTags == [ forum : Nat, known : Nat, last : Nat ]

(* desired_tags: on a forum route the tag of the state, known or not.      *)
LEMMA DesiredIs ==
  ASSUME DeliveryAssumption, policy \in Policies, NEW card \in Row, NEW known \in Nat
  PROVE  /\ DesiredTags(card, known) \in TagSet \cup {None}
         /\ policy.forum => DesiredTags(card, known) # None
                            /\ DesiredTags(card, known).state = TagState(card.state)
         /\ ~policy.forum => DesiredTags(card, known) = None
<1>1. TagState(card.state) \in States
  BY DEF TagState, States
<1>2. PICK label \in Nat : label = IF policy.labelTag THEN known ELSE 0
  OBVIOUS
<1>3. [ state |-> TagState(card.state), label |-> label ] \in TagSet
  BY <1>1 DEF TagSet
<1>4. DesiredTags(card, known) = IF ~policy.forum THEN None
                                 ELSE [ state |-> TagState(card.state), label |-> label ]
  BY <1>2 DEF DesiredTags
<1> QED BY <1>3, <1>4 DEF DeliveryAssumption

(* The tag Discord has and the one the snapshot has are the same once a    *)
(* tag was created, or the snapshot has none.                              *)
LEMMA LabelTaggedIs ==
  ASSUME TypeInv, NEW tag \in LabelTagged
  PROVE  tag \in LabelTags /\ (tag = labelTag \/ tag.known \in {0, tag.forum})
<1>1. labelTag \in LabelTags
  BY DEF TypeInv, LabelTags
<1>2. CASE ~LabelTagMissing
  BY <1>1, <1>2 DEF LabelTagged
<1>3. CASE LabelTagMissing
  <2>1. PICK id \in Nat : id = IF labelTag.forum # 0 THEN labelTag.forum ELSE labelTag.last + 1
    BY <1>1 DEF LabelTags
  <2>2. PICK last \in Nat : last = IF id > labelTag.last THEN id ELSE labelTag.last
    BY <1>1 DEF LabelTags
  <2>3. PICK made : made = [ forum |-> id, known |-> id, last |-> last ]
    OBVIOUS
  <2>4. LabelTagged = {labelTag, made, [ made EXCEPT !.known = 0 ]}
    BY <1>3, <2>1, <2>2, <2>3 DEF LabelTagged
  <2>5. made \in LabelTags /\ made.known = made.forum
    BY <2>3 DEF LabelTags
  <2>6. [ made EXCEPT !.known = 0 ] \in LabelTags /\ [ made EXCEPT !.known = 0 ].known = 0
    BY <2>5 DEF LabelTags
  <2> QED BY <1>1, <2>4, <2>5, <2>6
<1> QED BY <1>2, <1>3

(* What a post or a retag works with was read for it, or is as it is now.  *)
LEMMA AssembledIs ==
  ASSUME DeliveryAssumption, TypeInv, doing \in Reading, NEW made \in LabelTagged, NEW skip \in BOOLEAN
  PROVE  \E card \in Row, text \in Nat, tags \in TagSet \cup {None}, tag \in LabelTags :
           /\ Assembled(made, skip) = [ card |-> card, text |-> text, tags |-> tags, tag |-> tag ]
           /\ (card = doing.card /\ text = doing.text) \/ (card = row /\ text = alert.text)
           /\ tag = labelTag \/ tag.known \in {0, tag.forum}
           /\ policy.forum => tags # None /\ tags.state = TagState(card.state)
           /\ ~policy.forum => tags = None
<1>1. policy \in Policy /\ alert.text \in Nat /\ labelTag \in LabelTags /\ row \in Row
  BY DEF TypeInv, DeliveryAssumption, Alert, LabelTags
<1>2. doing.card \in Row /\ doing.text \in Nat /\ doing.known \in Nat
  BY DEF Reading
<1>3. ASSUME NEW card \in Row, NEW known \in Nat
      PROVE  /\ DesiredTags(card, known) \in TagSet \cup {None}
             /\ policy.forum => DesiredTags(card, known) # None
                                /\ DesiredTags(card, known).state = TagState(card.state)
             /\ ~policy.forum => DesiredTags(card, known) = None
  BY DesiredIs DEF TypeInv
<1>4. made \in LabelTags /\ (made = labelTag \/ made.known \in {0, made.forum})
  BY LabelTaggedIs
<1>5. \A tag \in LabelTags :
        Again(tag) = [ card |-> row, text |-> alert.text, tags |-> DesiredTags(row, tag.known), tag |-> tag ]
  BY DEF Again
<1> DEFINE Fit(a) == \E card \in Row, text \in Nat, tags \in TagSet \cup {None}, tag \in LabelTags :
             /\ a = [ card |-> card, text |-> text, tags |-> tags, tag |-> tag ]
             /\ (card = doing.card /\ text = doing.text) \/ (card = row /\ text = alert.text)
             /\ tag = labelTag \/ tag.known \in {0, tag.forum}
             /\ policy.forum => tags # None /\ tags.state = TagState(card.state)
             /\ ~policy.forum => tags = None
<1>6. ASSUME NEW tag \in LabelTags, tag = labelTag \/ tag.known \in {0, tag.forum}
      PROVE  Fit(Again(tag))
  <2>1. tag.known \in Nat
    BY DEF LabelTags
  <2>2. PICK tags \in TagSet \cup {None} : tags = DesiredTags(row, tag.known)
    BY <1>1, <1>3, <2>1
  <2>3. /\ policy.forum => tags # None /\ tags.state = TagState(row.state)
        /\ ~policy.forum => tags = None
    BY <1>1, <1>3, <2>1, <2>2
  <2>4. Again(tag) = [ card |-> row, text |-> alert.text, tags |-> tags, tag |-> tag ]
    BY <1>5, <2>2
  <2> QED BY <1>1, <1>6, <2>3, <2>4
<1>7. Fit(First(made))
  <2>1. CASE made.known = labelTag.known
    <3>1. PICK tags \in TagSet \cup {None} : tags = DesiredTags(doing.card, doing.known)
      BY <1>2, <1>3
    <3>2. /\ policy.forum => tags # None /\ tags.state = TagState(doing.card.state)
          /\ ~policy.forum => tags = None
      BY <1>2, <1>3, <3>1
    <3>3. First(made) = [ card |-> doing.card, text |-> doing.text, tags |-> tags, tag |-> made ]
      BY <2>1, <3>1 DEF First
    <3> QED BY <1>2, <1>4, <3>2, <3>3
  <2>2. CASE made.known # labelTag.known
    <3>1. First(made) = Again(made)
      BY <2>2 DEF First
    <3> HIDE DEF Fit
    <3> QED BY <1>4, <1>6, <3>1
  <2> QED BY <2>1, <2>2
<1>9. PICK tag2 \in LabelTags : tag2 = [ made EXCEPT !.known = made.forum ] /\ tag2.known = tag2.forum
  <2>1. [ made EXCEPT !.known = made.forum ] \in LabelTags
    BY <1>4 DEF LabelTags
  <2>2. [ made EXCEPT !.known = made.forum ].known = made.forum /\ [ made EXCEPT !.known = made.forum ].forum = made.forum
    BY <1>4 DEF LabelTags
  <2> QED BY <2>1, <2>2
<1>10. Assembled(made, skip) \in {First(made), Again(tag2)}
  BY <1>9 DEF Assembled
<1>11. Fit(Assembled(made, skip))
  <2>1. Fit(Again(tag2))
    <3> HIDE DEF Fit
    <3> QED BY <1>6, <1>9
  <2> HIDE DEF Fit
  <2> QED BY <1>7, <1>10, <2>1
<1> QED BY <1>11

(* The answer of a handler at an item of that kind, with the row, the      *)
(* message and the tag it leaves.                                          *)
Did(kind, answer, card, message, tag) ==
  LET applied == answer.applied
      read    == Rendered(doing.card, doing.text)
      current == {TagState(doing.card.state), TagState(row.state)}
  IN  /\ doing \in Reading /\ Head1 = kind
      /\ answer \in Answer /\ answer.verdict \in {"done", "drop"}
      /\ answer.verdict = "drop" => applied = Nothing
      /\ message \in Post \cup {None} /\ tag \in LabelTags
      /\ tag = labelTag \/ tag.known \in {0, tag.forum}
      /\ \/ card = row
         \/ /\ card = [ row EXCEPT !.state = "orphaned", !.posted = FALSE, !.pinned = FALSE ]
            /\ doing.card.posted /\ message = None /\ kind # "post_card"
      /\ applied.posted # None => kind = "post_card" /\ applied.hash # None
      /\ message # None /\ post = None => applied.posted # None
      /\ applied.hash # None => kind \in {"post_card", "edit_card", "resync_card"}
      /\ kind = "post_card" => applied.hash \in {None, read, Wanted}
      /\ kind = "edit_card" /\ card.posted => Coalesce(applied.hash, row.hash) = read
      /\ kind = "resync_card" => applied.hash \in {None, read}
      /\ applied.hash # None => message # None /\ message.shown = applied.hash
      /\ applied.hash = None /\ message # None =>
           /\ post # None
           /\ \/ message.shown = post.shown
              \/ kind = "resync_card" /\ UnknownTag(DesiredTags(doing.card, doing.known), labelTag)
      /\ applied.tags # None => kind \in {"post_card", "resync_card", "set_tags"}
                                /\ applied.tags.state \in current
      /\ kind = "resync_card" /\ applied.tags # None => applied.tags.state = TagState(doing.card.state)
      /\ policy.forum /\ kind = "set_tags" /\ card.posted /\ message # None =>
           Coalesce(applied.tags, row.tags) # None /\ Coalesce(applied.tags, row.tags).state \in current
      /\ policy.forum /\ applied.posted # None => applied.tags # None
      /\ applied.tags # None => message # None /\ message.tags = applied.tags
      /\ policy.forum /\ applied.tags = None /\ message # None => post # None /\ message.tags = post.tags

LEMMA OnceIs == TRUE \in Once /\ None \in Once
  BY DEF Once

LEMMA AnswerIs ==
  ASSUME NEW posted \in Once, NEW hash \in Render \cup {None}, NEW tags \in TagSet \cup {None},
         NEW archived \in BOOLEAN \cup {None}, NEW pinned \in BOOLEAN \cup {None},
         NEW verdict \in {"done", "drop", "retry"}, NEW answer,
         answer = [ step |-> "answered", verdict |-> verdict,
                    applied |-> [ posted |-> posted, hash |-> hash, tags |-> tags,
                                  archived |-> archived, pinned |-> pinned ] ]
  PROVE  /\ answer \in Answer /\ answer.verdict = verdict
         /\ answer.applied.posted = posted /\ answer.applied.hash = hash /\ answer.applied.tags = tags
         /\ answer.applied.archived = archived /\ answer.applied.pinned = pinned
<1> DEFINE applied == [ posted |-> posted, hash |-> hash, tags |-> tags, archived |-> archived, pinned |-> pinned ]
<1>1. /\ applied \in Applied
      /\ applied.posted = posted /\ applied.hash = hash /\ applied.tags = tags
      /\ applied.archived = archived /\ applied.pinned = pinned
  BY DEF Applied
<1> HIDE DEF applied
<1>2. answer = [ step |-> "answered", verdict |-> verdict, applied |-> applied ]
  BY DEF applied
<1>3. answer \in Answer /\ answer.verdict = verdict /\ answer.applied = applied
  BY <1>1, <1>2 DEF Answer
<1> QED BY <1>1, <1>3

(* A message that a call changes nothing of what it shows.                 *)
LEMMA ReopenedIs ==
  ASSUME NEW p \in Post
  PROVE  Reopened(p) \in Post /\ Reopened(p).shown = p.shown /\ Reopened(p).tags = p.tags
<1>1. CASE p.archived
  BY <1>1 DEF Reopened, Post
<1>2. CASE ~p.archived
  BY <1>2 DEF Reopened
<1> QED BY <1>1, <1>2

(* A call made again in a reopened thread reports that, and nothing else.  *)
LEMMA ReopenNotedIs ==
  ASSUME NEW p \in Post
  PROVE  \E archived \in BOOLEAN \cup {None} :
           ReopenNoted(p) = [ posted |-> None, hash |-> None, tags |-> None, archived |-> archived, pinned |-> None ]
<1>1. PICK archived \in BOOLEAN \cup {None} : archived = IF p.archived THEN FALSE ELSE None
  OBVIOUS
<1>2. ReopenNoted(p) = [ posted |-> None, hash |-> None, tags |-> None, archived |-> archived, pinned |-> None ]
  <2>1. ReopenNoted(p) = [ Nothing EXCEPT !.archived = archived ]
    BY <1>1, Zenon DEF ReopenNoted
  <2> QED BY <2>1 DEF Nothing
<1> QED BY <1>2

(* A call that neither draws the card nor sets its tags.                   *)
LEMMA TouchedDid ==
  ASSUME DeliveryAssumption, TypeInv, doing \in Reading,
         NEW verdict \in {"done", "drop"},
         NEW archived \in BOOLEAN \cup {None}, NEW pinned \in BOOLEAN \cup {None},
         verdict = "drop" => archived = None /\ pinned = None,
         NEW message \in Post \cup {None},
         message # None => post # None /\ message.shown = post.shown /\ message.tags = post.tags,
         NEW tag \in LabelTags, tag = labelTag \/ tag.known \in {0, tag.forum},
         Head1 = "edit_card" /\ row.posted => row.hash = Rendered(doing.card, doing.text),
         Head1 = "set_tags" /\ policy.forum /\ row.posted /\ message # None =>
           row.tags # None /\ row.tags.state \in {TagState(doing.card.state), TagState(row.state)},
         NEW answer,
         answer = [ step |-> "answered", verdict |-> verdict,
                    applied |-> [ posted |-> None, hash |-> None, tags |-> None,
                                  archived |-> archived, pinned |-> pinned ] ]
  PROVE  Did(Head1, answer, row, message, tag)
<1>1. /\ answer \in Answer /\ answer.verdict = verdict
      /\ answer.applied.posted = None /\ answer.applied.hash = None /\ answer.applied.tags = None
  <2>1. None \in Once /\ None \in Render \cup {None} /\ None \in TagSet \cup {None}
    BY OnceIs
  <2> QED BY <2>1, AnswerIs
<1>2. verdict = "drop" => answer.applied = Nothing
  BY DEF Nothing
<1>3. \A old : Coalesce(None, old) = old
  BY DEF Coalesce
<1>4. PICK applied : applied = answer.applied
  OBVIOUS
<1>5. applied.posted = None /\ applied.hash = None /\ applied.tags = None
  BY <1>1, <1>4
<1> QED BY <1>1, <1>2, <1>3, <1>4, <1>5 DEF Did

(* Nothing is done, or nothing is there to do it to.                       *)
LEMMA NothingDid ==
  ASSUME DeliveryAssumption, TypeInv, doing \in Reading,
         NEW verdict \in {"done", "drop"},
         NEW tag \in LabelTags, tag = labelTag \/ tag.known \in {0, tag.forum},
         Head1 = "edit_card" /\ row.posted => row.hash = Rendered(doing.card, doing.text),
         Head1 = "set_tags" /\ policy.forum /\ row.posted /\ post # None =>
           row.tags # None /\ row.tags.state \in {TagState(doing.card.state), TagState(row.state)},
         NEW answer,
         answer = [ step |-> "answered", verdict |-> verdict, applied |-> Nothing ]
  PROVE  Did(Head1, answer, row, post, tag)
<1>1. answer = [ step |-> "answered", verdict |-> verdict,
                 applied |-> [ posted |-> None, hash |-> None, tags |-> None,
                               archived |-> None, pinned |-> None ] ]
  BY DEF Nothing
<1>2. PICK message \in Post \cup {None} : message = post
  BY DEF TypeInv
<1>3. None \in BOOLEAN \cup {None}
  OBVIOUS
<1>4. Did(Head1, answer, row, message, tag)
  BY <1>1, <1>2, <1>3, TouchedDid
<1> QED BY <1>2, <1>4

(* A handler is at the first item, with what was read of the row.          *)
LEMMA AtHandler ==
  ASSUME DeliveryAssumption, TypeInv, ReadInv, NEW kind, Handling(kind)
  PROVE  /\ doing \in Reading /\ Head1 = kind /\ IsRead /\ ~IsAnswered
         /\ SameColumns(doing.card, row)
         /\ doing.card \in Row /\ doing.text \in Nat /\ row \in Row
         /\ Rendered(doing.card, doing.text) \in Render
         /\ labelTag \in LabelTags /\ batch \in Seq(Queued) /\ batch # <<>>
<1>1. doing \in Reading /\ Head1 = kind /\ IsRead /\ ~IsAnswered
  BY DEF Handling, TypeInv, Reading, Answer, Head1, IsRead, IsAnswered
<1>2. doing.card \in Row /\ doing.text \in Nat /\ row \in Row
  BY <1>1 DEF Reading, TypeInv
<1>3. Rendered(doing.card, doing.text) \in Render
  BY <1>2 DEF Rendered, Render, Row
<1>4. SameColumns(doing.card, row)
  BY <1>1 DEF ReadInv
<1>5. doing # None
  BY <1>1 DEF IsRead
<1>6. labelTag \in LabelTags /\ batch \in Seq(Queued) /\ batch # <<>>
  BY <1>5 DEF TypeInv, LabelTags
<1> QED BY <1>1, <1>2, <1>3, <1>4, <1>6

LEMMA SayDid ==
  ASSUME DeliveryAssumption, TypeInv, ReadInv, NEW kind \in {"thread_note", "escalate"}, Say(kind)
  PROVE  Did(kind, doing', row', post', labelTag')
<1>1. Handling(kind) /\ UNCHANGED <<row, labelTag>>
  BY DEF Say, store
<1>2. /\ doing \in Reading /\ Head1 = kind /\ labelTag \in LabelTags
  BY <1>1, AtHandler
<1>3. PICK answer : answer = doing'
  OBVIOUS
<1>4. CASE Dropped /\ UNCHANGED post
  <2>1. answer = [ step |-> "answered", verdict |-> "drop", applied |-> Nothing ]
    BY <1>3, <1>4 DEF Dropped, Answered
  <2>2. Did(Head1, answer, row, post, labelTag)
    BY <1>2, <2>1, NothingDid
  <2> QED BY <1>1, <1>2, <1>3, <1>4, <2>2
<1>5. CASE post # None /\ post' = Reopened(post) /\ Done(ReopenNoted(post))
  <2>1. PICK p \in Post : p = post
    BY <1>5 DEF TypeInv
  <2>2. PICK message : message = Reopened(p)
    OBVIOUS
  <2>3. message \in Post /\ message.shown = p.shown /\ message.tags = p.tags
    BY <2>2, ReopenedIs
  <2>4. PICK archived \in BOOLEAN \cup {None} :
          ReopenNoted(p) = [ posted |-> None, hash |-> None, tags |-> None, archived |-> archived, pinned |-> None ]
    BY ReopenNotedIs
  <2>5. answer = [ step |-> "answered", verdict |-> "done",
                   applied |-> [ posted |-> None, hash |-> None, tags |-> None,
                                 archived |-> archived, pinned |-> None ] ]
    BY <1>3, <1>5, <2>1, <2>4 DEF Done, Answered
  <2>6. Did(Head1, answer, row, message, labelTag)
    BY <1>2, <1>5, <2>1, <2>3, <2>5, TouchedDid
  <2> QED BY <1>1, <1>2, <1>3, <1>5, <2>1, <2>2, <2>6
<1> QED BY <1>4, <1>5 DEF Say

LEMMA SetPostFlagsDid ==
  ASSUME DeliveryAssumption, TypeInv, ReadInv, SetPostFlags
  PROVE  Did("set_flags", doing', row', post', labelTag')
<1>1. Handling("set_flags") /\ UNCHANGED <<row, labelTag>>
  BY DEF SetPostFlags, store
<1>2. /\ doing \in Reading /\ Head1 = "set_flags" /\ labelTag \in LabelTags
      /\ batch \in Seq(Queued) /\ batch # <<>>
  BY <1>1, AtHandler
<1>3. PICK answer : answer = doing'
  OBVIOUS
<1>4. ASSUME NEW verdict \in {"done", "drop"}, Answered(verdict, Nothing), UNCHANGED post
      PROVE  Did("set_flags", doing', row', post', labelTag')
  <2>1. answer = [ step |-> "answered", verdict |-> verdict, applied |-> Nothing ]
    BY <1>3, <1>4 DEF Answered
  <2>2. Did(Head1, answer, row, post, labelTag)
    BY <1>2, <2>1, NothingDid
  <2> QED BY <1>1, <1>2, <1>3, <1>4, <2>2
<1>5. ASSUME post # None,
             post' = [ post EXCEPT !.archived = Head(batch).flags.archived,
                                   !.locked = Head(batch).flags.locked,
                                   !.window = Head(batch).flags.window ],
             Done([ Nothing EXCEPT !.archived = Head(batch).flags.archived ])
      PROVE  Did("set_flags", doing', row', post', labelTag')
  <2>1. PICK p \in Post : p = post
    BY <1>5 DEF TypeInv
  <2>2. Head(batch) \in Queued
    BY <1>2, HeadTailProperties
  <2>3. PICK flags \in Flags : flags = Head(batch).flags
    BY <1>2, <2>2 DEF Queued, Head1
  <2>4. PICK archived \in BOOLEAN : archived = flags.archived
    BY DEF Flags
  <2>5. PICK message : message = [ p EXCEPT !.archived = flags.archived, !.locked = flags.locked,
                                            !.window = flags.window ]
    OBVIOUS
  <2>6. message \in Post /\ message.shown = p.shown /\ message.tags = p.tags
    BY <2>5 DEF Post, Flags
  <2>7. answer = [ step |-> "answered", verdict |-> "done",
                   applied |-> [ posted |-> None, hash |-> None, tags |-> None,
                                 archived |-> archived, pinned |-> None ] ]
    <3>1. answer = [ step |-> "answered", verdict |-> "done",
                     applied |-> [ Nothing EXCEPT !.archived = archived ] ]
      BY <1>3, <1>5, <2>3, <2>4 DEF Done, Answered
    <3>2. [ Nothing EXCEPT !.archived = archived ]
            = [ posted |-> None, hash |-> None, tags |-> None, archived |-> archived, pinned |-> None ]
      BY DEF Nothing
    <3> QED BY <3>1, <3>2
  <2>8. archived \in BOOLEAN \cup {None} /\ None \in BOOLEAN \cup {None}
    OBVIOUS
  <2>9. Did(Head1, answer, row, message, labelTag)
    BY <1>2, <1>5, <2>1, <2>6, <2>7, <2>8, TouchedDid
  <2> QED BY <1>1, <1>2, <1>3, <1>5, <2>1, <2>3, <2>5, <2>9
<1> QED BY <1>4, <1>5 DEF SetPostFlags, Done, Dropped

LEMMA SetPostPinnedDid ==
  ASSUME DeliveryAssumption, TypeInv, ReadInv, SetPostPinned
  PROVE  Did("set_pinned", doing', row', post', labelTag')
<1>1. Handling("set_pinned") /\ UNCHANGED <<row, labelTag>>
  BY DEF SetPostPinned, store
<1>2. /\ doing \in Reading /\ Head1 = "set_pinned" /\ labelTag \in LabelTags
      /\ batch \in Seq(Queued) /\ batch # <<>>
  BY <1>1, AtHandler
<1>3. PICK answer : answer = doing'
  OBVIOUS
<1>4. ASSUME NEW verdict \in {"done", "drop"}, Answered(verdict, Nothing), UNCHANGED post
      PROVE  Did("set_pinned", doing', row', post', labelTag')
  <2>1. answer = [ step |-> "answered", verdict |-> verdict, applied |-> Nothing ]
    BY <1>3, <1>4 DEF Answered
  <2>2. Did(Head1, answer, row, post, labelTag)
    BY <1>2, <2>1, NothingDid
  <2> QED BY <1>1, <1>2, <1>3, <1>4, <2>2
<1>5. ASSUME post # None, post' = [ post EXCEPT !.pinned = Head(batch).pin ],
             Done([ Nothing EXCEPT !.pinned = Head(batch).pin ])
      PROVE  Did("set_pinned", doing', row', post', labelTag')
  <2>1. PICK p \in Post : p = post
    BY <1>5 DEF TypeInv
  <2>2. Head(batch) \in Queued
    BY <1>2, HeadTailProperties
  <2>3. PICK pin \in BOOLEAN : pin = Head(batch).pin
    BY <2>2 DEF Queued, Items
  <2>4. PICK message : message = [ p EXCEPT !.pinned = pin ]
    OBVIOUS
  <2>5. message \in Post /\ message.shown = p.shown /\ message.tags = p.tags
    BY <2>4 DEF Post
  <2>6. answer = [ step |-> "answered", verdict |-> "done",
                   applied |-> [ posted |-> None, hash |-> None, tags |-> None,
                                 archived |-> None, pinned |-> pin ] ]
    <3>1. answer = [ step |-> "answered", verdict |-> "done",
                     applied |-> [ Nothing EXCEPT !.pinned = pin ] ]
      BY <1>3, <1>5, <2>3 DEF Done, Answered
    <3>2. [ Nothing EXCEPT !.pinned = pin ]
            = [ posted |-> None, hash |-> None, tags |-> None, archived |-> None, pinned |-> pin ]
      BY DEF Nothing
    <3> QED BY <3>1, <3>2
  <2>7. pin \in BOOLEAN \cup {None} /\ None \in BOOLEAN \cup {None}
    OBVIOUS
  <2>8. Did(Head1, answer, row, message, labelTag)
    BY <1>2, <1>5, <2>1, <2>5, <2>6, <2>7, TouchedDid
  <2> QED BY <1>1, <1>2, <1>3, <1>5, <2>1, <2>3, <2>4, <2>8
<1> QED BY <1>4, <1>5 DEF SetPostPinned, Done, Dropped

LEMMA DisableComponentsDid ==
  ASSUME DeliveryAssumption, TypeInv, ReadInv, DisableComponents
  PROVE  Did("disable_components", doing', row', post', labelTag')
<1>1. Handling("disable_components") /\ UNCHANGED <<row, labelTag>>
  BY DEF DisableComponents, store
<1>2. /\ doing \in Reading /\ Head1 = "disable_components" /\ labelTag \in LabelTags
  BY <1>1, AtHandler
<1>3. PICK answer : answer = doing'
  OBVIOUS
<1>4. CASE Dropped /\ UNCHANGED post
  <2>1. answer = [ step |-> "answered", verdict |-> "drop", applied |-> Nothing ]
    BY <1>3, <1>4 DEF Dropped, Answered
  <2>2. Did(Head1, answer, row, post, labelTag)
    BY <1>2, <2>1, NothingDid
  <2> QED BY <1>1, <1>2, <1>3, <1>4, <2>2
<1>5. CASE post # None /\ post' = [ Reopened(post) EXCEPT !.controls = FALSE ] /\ Done(ReopenNoted(post))
  <2>1. PICK p \in Post : p = post
    BY <1>5 DEF TypeInv
  <2>2. PICK opened \in Post : opened = Reopened(p) /\ opened.shown = p.shown /\ opened.tags = p.tags
    BY ReopenedIs
  <2>3. PICK message : message = [ opened EXCEPT !.controls = FALSE ]
    OBVIOUS
  <2>4. message \in Post /\ message.shown = p.shown /\ message.tags = p.tags
    BY <2>2, <2>3 DEF Post
  <2>5. PICK archived \in BOOLEAN \cup {None} :
          ReopenNoted(p) = [ posted |-> None, hash |-> None, tags |-> None, archived |-> archived, pinned |-> None ]
    BY ReopenNotedIs
  <2>6. answer = [ step |-> "answered", verdict |-> "done",
                   applied |-> [ posted |-> None, hash |-> None, tags |-> None,
                                 archived |-> archived, pinned |-> None ] ]
    BY <1>3, <1>5, <2>1, <2>5 DEF Done, Answered
  <2>7. Did(Head1, answer, row, message, labelTag)
    BY <1>2, <1>5, <2>1, <2>4, <2>6, TouchedDid
  <2> QED BY <1>1, <1>2, <1>3, <1>5, <2>1, <2>2, <2>3, <2>7
<1> QED BY <1>4, <1>5 DEF DisableComponents

LEMMA RedrawnIs ==
  ASSUME NEW p \in Post, doing \in Reading
  PROVE  /\ Redrawn(p) \in Post /\ Redrawn(p).shown = Rendered(doing.card, doing.text)
         /\ Redrawn(p).tags = p.tags
<1>1. PICK opened \in Post : opened = Reopened(p) /\ opened.tags = p.tags
  BY ReopenedIs
<1>2. PICK shown \in Render : shown = Rendered(doing.card, doing.text)
  BY DEF Rendered, Render, Reading, Row
<1>3. PICK controls \in BOOLEAN : controls = HasComponents(doing.card.state)
  BY DEF HasComponents, IsOpen
<1>4. Redrawn(p) = [ opened EXCEPT !.shown = shown, !.controls = controls ]
  BY <1>1, <1>2, <1>3 DEF Redrawn
<1> QED BY <1>1, <1>2, <1>4 DEF Post

LEMMA OrphanedDid ==
  ASSUME DeliveryAssumption, TypeInv, NEW kind \in {"edit_card", "resync_card"}, doing \in Reading, Head1 = kind,
         doing.card.posted, post = None, MessageDeleted, UNCHANGED labelTag
  PROVE  Did(kind, doing', row', post', labelTag')
<1>1. PICK answer : answer = doing'
  OBVIOUS
<1>2. PICK card : card = [ row EXCEPT !.state = "orphaned", !.posted = FALSE, !.pinned = FALSE ]
  OBVIOUS
<1>3. row' = card /\ post' = None /\ labelTag' = labelTag
  BY <1>2 DEF MessageDeleted
<1>4. card.posted = FALSE
  <2>1. row \in Row
    BY DEF TypeInv
  <2> QED BY <1>2, <2>1 DEF Row
<1>5. answer = [ step |-> "answered", verdict |-> "drop",
                 applied |-> [ posted |-> None, hash |-> None, tags |-> None, archived |-> None, pinned |-> None ] ]
  BY <1>1 DEF MessageDeleted, Dropped, Answered, Nothing
<1>6. None \in BOOLEAN \cup {None} /\ None \in Once /\ None \in Render \cup {None} /\ None \in TagSet \cup {None}
  BY OnceIs
<1>7. /\ answer \in Answer /\ answer.verdict = "drop"
      /\ answer.applied.posted = None /\ answer.applied.hash = None /\ answer.applied.tags = None
  BY <1>5, <1>6, AnswerIs
<1>8. answer.applied = Nothing
  BY <1>5 DEF Nothing
<1>9. labelTag \in LabelTags
  BY DEF TypeInv, LabelTags
<1>10. PICK message \in Post \cup {None} : message = None
  OBVIOUS
<1>11. PICK applied : applied = answer.applied
  OBVIOUS
<1>12. Did(kind, answer, card, message, labelTag)
  BY <1>2, <1>4, <1>7, <1>8, <1>9, <1>10, <1>11 DEF Did
<1> QED BY <1>1, <1>3, <1>10, <1>12

LEMMA EditCardDid ==
  ASSUME DeliveryAssumption, TypeInv, ReadInv, EditCard
  PROVE  Did("edit_card", doing', row', post', labelTag')
<1>1. Handling("edit_card") /\ UNCHANGED labelTag
  BY DEF EditCard
<1>2. /\ doing \in Reading /\ Head1 = "edit_card" /\ labelTag \in LabelTags
      /\ SameColumns(doing.card, row)
  BY <1>1, AtHandler
<1>3. PICK answer : answer = doing'
  OBVIOUS
<1>4. PICK render \in Render : render = Rendered(doing.card, doing.text)
  BY <1>1, AtHandler
<1>5. ASSUME NEW verdict \in {"done", "drop"}, Answered(verdict, Nothing), UNCHANGED <<row, post>>,
             ~doing.card.posted \/ doing.card.hash = render
      PROVE  Did("edit_card", doing', row', post', labelTag')
  <2>1. answer = [ step |-> "answered", verdict |-> verdict, applied |-> Nothing ]
    BY <1>3, <1>5 DEF Answered
  <2>2. row.posted => row.hash = Rendered(doing.card, doing.text)
    BY <1>2, <1>4, <1>5 DEF SameColumns
  <2>3. Did(Head1, answer, row, post, labelTag)
    BY <1>2, <2>1, <2>2, NothingDid
  <2> QED BY <1>1, <1>2, <1>3, <1>5, <2>3
<1>6. CASE doing.card.posted /\ post = None /\ MessageDeleted
  BY <1>1, <1>2, <1>6, OrphanedDid
<1>7. CASE post # None /\ post' = Redrawn(post) /\ Done([ ReopenNoted(post) EXCEPT !.hash = render ]) /\ UNCHANGED row
  <2>1. PICK p \in Post : p = post
    BY <1>7 DEF TypeInv
  <2>2. PICK message \in Post : message = Redrawn(p) /\ message.shown = render /\ message.tags = p.tags
    BY <1>2, <1>4, RedrawnIs
  <2>3. PICK archived \in BOOLEAN \cup {None} :
          ReopenNoted(p) = [ posted |-> None, hash |-> None, tags |-> None, archived |-> archived, pinned |-> None ]
    BY ReopenNotedIs
  <2>4. answer = [ step |-> "answered", verdict |-> "done",
                   applied |-> [ posted |-> None, hash |-> render, tags |-> None,
                                 archived |-> archived, pinned |-> None ] ]
    BY <1>3, <1>7, <2>1, <2>3 DEF Done, Answered
  <2>5. None \in BOOLEAN \cup {None} /\ None \in Once /\ render \in Render \cup {None} /\ None \in TagSet \cup {None}
    BY OnceIs
  <2>6. /\ answer \in Answer /\ answer.verdict = "done"
        /\ answer.applied.posted = None /\ answer.applied.hash = render /\ answer.applied.tags = None
    BY <2>4, <2>5, AnswerIs
  <2>7. PICK applied : applied = answer.applied
    OBVIOUS
  <2>8. render # None
    BY DEF DeliveryAssumption
  <2>9. Coalesce(render, row.hash) = render
    BY <2>8 DEF Coalesce
  <2>10. Did("edit_card", answer, row, message, labelTag)
    BY <1>2, <1>4, <1>7, <2>1, <2>2, <2>6, <2>7, <2>8, <2>9 DEF Did
  <2> QED BY <1>1, <1>3, <1>7, <2>1, <2>2, <2>10
<1> QED BY <1>4, <1>5, <1>6, <1>7 DEF EditCard, Unposted, Done, Dropped

LEMMA ResyncCardDid ==
  ASSUME DeliveryAssumption, TypeInv, ReadInv, ResyncCard
  PROVE  Did("resync_card", doing', row', post', labelTag')
<1>1. Handling("resync_card") /\ UNCHANGED labelTag
  BY DEF ResyncCard
<1>2. /\ doing \in Reading /\ Head1 = "resync_card" /\ labelTag \in LabelTags
  BY <1>1, AtHandler
<1>3. PICK answer : answer = doing'
  OBVIOUS
<1>4. PICK render \in Render : render = Rendered(doing.card, doing.text)
  BY <1>1, AtHandler
<1>5. render # None
  BY DEF DeliveryAssumption
<1>6. PICK tags \in TagSet \cup {None} :
        /\ tags = DesiredTags(doing.card, doing.known)
        /\ policy.forum => tags # None /\ tags.state = TagState(doing.card.state)
        /\ ~policy.forum => tags = None
  <2>1. doing.card \in Row /\ doing.known \in Nat /\ policy \in Policies
    BY <1>2 DEF Reading, TypeInv
  <2> QED BY <2>1, DesiredIs
<1>7. CASE Unposted /\ Dropped /\ UNCHANGED <<row, post>>
  <2>1. answer = [ step |-> "answered", verdict |-> "drop", applied |-> Nothing ]
    BY <1>3, <1>7 DEF Dropped, Answered
  <2>2. Did(Head1, answer, row, post, labelTag)
    BY <1>2, <2>1, NothingDid
  <2> QED BY <1>1, <1>2, <1>3, <1>7, <2>2
<1>8. CASE doing.card.posted /\ post = None /\ MessageDeleted
  BY <1>1, <1>2, <1>8, OrphanedDid
<1>9. CASE post # None /\ UNCHANGED row /\ UnknownTag(tags, labelTag) /\ Dropped /\ post' = Redrawn(post)
  <2>1. PICK p \in Post : p = post
    BY <1>9 DEF TypeInv
  <2>2. PICK message \in Post : message = Redrawn(p) /\ message.tags = p.tags
    BY <1>2, <1>4, RedrawnIs
  <2>3. answer = [ step |-> "answered", verdict |-> "drop",
                   applied |-> [ posted |-> None, hash |-> None, tags |-> None, archived |-> None, pinned |-> None ] ]
    BY <1>3, <1>9 DEF Dropped, Answered, Nothing
  <2>4. None \in BOOLEAN \cup {None} /\ None \in Once /\ None \in Render \cup {None} /\ None \in TagSet \cup {None}
    BY OnceIs
  <2>5. /\ answer \in Answer /\ answer.verdict = "drop"
        /\ answer.applied.posted = None /\ answer.applied.hash = None /\ answer.applied.tags = None
    BY <2>3, <2>4, AnswerIs
  <2>6. answer.applied = Nothing
    BY <2>3 DEF Nothing
  <2>7. PICK applied : applied = answer.applied
    OBVIOUS
  <2>8. Did("resync_card", answer, row, message, labelTag)
    BY <1>2, <1>6, <1>9, <2>1, <2>2, <2>5, <2>6, <2>7 DEF Did
  <2> QED BY <1>1, <1>3, <1>9, <2>1, <2>2, <2>8
<1>10. CASE /\ post # None /\ UNCHANGED row /\ post' = [ Redrawn(post) EXCEPT !.tags = tags ]
            /\ Done([ ReopenNoted(post) EXCEPT !.hash = render, !.tags = tags ])
  <2>1. PICK p \in Post : p = post
    BY <1>10 DEF TypeInv
  <2>2. PICK drawn \in Post : drawn = Redrawn(p) /\ drawn.shown = render
    BY <1>2, <1>4, RedrawnIs
  <2>3. PICK message \in Post : message = [ drawn EXCEPT !.tags = tags ] /\ message.shown = render /\ message.tags = tags
    <3>1. /\ [ drawn EXCEPT !.tags = tags ] \in Post /\ [ drawn EXCEPT !.tags = tags ].tags = tags
          /\ [ drawn EXCEPT !.tags = tags ].shown = drawn.shown
      BY DEF Post
    <3> QED BY <2>2, <3>1
  <2>4. PICK archived \in BOOLEAN \cup {None} :
          ReopenNoted(p) = [ posted |-> None, hash |-> None, tags |-> None, archived |-> archived, pinned |-> None ]
    BY ReopenNotedIs
  <2>5. answer = [ step |-> "answered", verdict |-> "done",
                   applied |-> [ posted |-> None, hash |-> render, tags |-> tags,
                                 archived |-> archived, pinned |-> None ] ]
    <3>1. PICK noted : noted = ReopenNoted(p)
      OBVIOUS
    <3>2. answer = [ step |-> "answered", verdict |-> "done",
                     applied |-> [ noted EXCEPT !.hash = render, !.tags = tags ] ]
      BY <1>3, <1>10, <2>1, <3>1 DEF Done, Answered
    <3>3. [ noted EXCEPT !.hash = render, !.tags = tags ]
            = [ posted |-> None, hash |-> render, tags |-> tags, archived |-> archived, pinned |-> None ]
      <4>1. PICK drew : drew = [ noted EXCEPT !.hash = render ]
        OBVIOUS
      <4>2. drew = [ posted |-> None, hash |-> render, tags |-> None, archived |-> archived, pinned |-> None ]
        BY <2>4, <3>1, <4>1
      <4>3. [ noted EXCEPT !.hash = render, !.tags = tags ] = [ drew EXCEPT !.tags = tags ]
        BY <4>1
      <4> QED BY <4>2, <4>3
    <3> QED BY <3>2, <3>3
  <2>6. None \in BOOLEAN \cup {None} /\ None \in Once /\ render \in Render \cup {None}
    BY OnceIs
  <2>7. /\ answer \in Answer /\ answer.verdict = "done"
        /\ answer.applied.posted = None /\ answer.applied.hash = render /\ answer.applied.tags = tags
    BY <2>5, <2>6, AnswerIs
  <2>8. PICK applied : applied = answer.applied
    OBVIOUS
  <2>9. Did("resync_card", answer, row, message, labelTag)
    BY <1>2, <1>4, <1>5, <1>6, <1>10, <2>1, <2>3, <2>7, <2>8 DEF Did
  <2> QED BY <1>1, <1>3, <1>10, <2>1, <2>2, <2>3, <2>9
<1>11. doing.card.posted \in BOOLEAN
  BY <1>2 DEF Reading, Row
<1> QED BY <1>4, <1>6, <1>7, <1>8, <1>9, <1>10, <1>11 DEF ResyncCard, Unposted

LEMMA SetTagsDid ==
  ASSUME DeliveryAssumption, TypeInv, ReadInv, SetTags
  PROVE  Did("set_tags", doing', row', post', labelTag')
<1>1. Handling("set_tags") /\ UNCHANGED row
  BY DEF SetTags, store
<1>2. /\ doing \in Reading /\ Head1 = "set_tags" /\ labelTag \in LabelTags
      /\ SameColumns(doing.card, row)
  BY <1>1, AtHandler
<1>3. PICK answer : answer = doing'
  OBVIOUS
<1>4. ~Unposted => \E made \in LabelTagged :
        LET a == Assembled(made, Skip(First(made)))
        IN  /\ labelTag' = a.tag
            /\ IF Skip(a) THEN Done(Nothing) /\ UNCHANGED post
               ELSE IF post = None THEN Dropped /\ UNCHANGED post
               ELSE /\ post' = [ Reopened(post) EXCEPT !.tags = a.tags ]
                    /\ Done([ ReopenNoted(post) EXCEPT !.tags = a.tags ])
  BY DEF SetTags
<1>20. CASE Unposted
  <2>0. Unposted /\ Dropped /\ UNCHANGED <<post, labelTag>>
    BY <1>20 DEF SetTags
  <2>1. answer = [ step |-> "answered", verdict |-> "drop", applied |-> Nothing ]
    BY <1>3, <2>0 DEF Dropped, Answered
  <2>2. ~row.posted
    BY <1>2, <2>0 DEF SameColumns, Unposted
  <2>3. Did(Head1, answer, row, post, labelTag)
    BY <1>2, <2>1, <2>2, NothingDid
  <2> QED BY <1>1, <1>2, <1>3, <2>0, <2>3
<1>21. SUFFICES ASSUME NEW made \in LabelTagged, NEW a, a = Assembled(made, Skip(First(made))),
                       labelTag' = a.tag,
                       IF Skip(a) THEN Done(Nothing) /\ UNCHANGED post
                       ELSE IF post = None THEN Dropped /\ UNCHANGED post
                       ELSE /\ post' = [ Reopened(post) EXCEPT !.tags = a.tags ]
                            /\ Done([ ReopenNoted(post) EXCEPT !.tags = a.tags ])
                PROVE  Did("set_tags", doing', row', post', labelTag')
  BY <1>4, <1>20
<1>5. PICK card \in Row, text \in Nat, tags \in TagSet \cup {None}, tag \in LabelTags :
        /\ a = [ card |-> card, text |-> text, tags |-> tags, tag |-> tag ]
        /\ (card = doing.card /\ text = doing.text) \/ (card = row /\ text = alert.text)
        /\ tag = labelTag \/ tag.known \in {0, tag.forum}
        /\ policy.forum => tags # None /\ tags.state = TagState(card.state)
        /\ ~policy.forum => tags = None
  <2>1. PICK skip \in BOOLEAN : skip = Skip(First(made))
    BY DEF Skip
  <2>2. \E card \in Row, text \in Nat, tags \in TagSet \cup {None}, tag \in LabelTags :
          /\ Assembled(made, skip) = [ card |-> card, text |-> text, tags |-> tags, tag |-> tag ]
          /\ (card = doing.card /\ text = doing.text) \/ (card = row /\ text = alert.text)
          /\ tag = labelTag \/ tag.known \in {0, tag.forum}
          /\ policy.forum => tags # None /\ tags.state = TagState(card.state)
          /\ ~policy.forum => tags = None
    BY <1>2, AssembledIs
  <2> QED BY <1>21, <2>1, <2>2
<1>6. card.tags = row.tags
  BY <1>2, <1>5 DEF SameColumns
<1>7. /\ Skip(a) <=> card.tags = tags
      /\ a.tag = tag /\ a.tags = tags
  BY <1>5 DEF Skip
<1>8. tags # None /\ policy.forum => tags.state \in {TagState(doing.card.state), TagState(row.state)}
  BY <1>5
<1>10. CASE card.tags = tags /\ Done(Nothing) /\ UNCHANGED post /\ labelTag' = tag
  <2>1. answer = [ step |-> "answered", verdict |-> "done", applied |-> Nothing ]
    BY <1>3, <1>10 DEF Done, Answered
  <2>2. policy.forum => row.tags # None /\ row.tags.state \in {TagState(doing.card.state), TagState(row.state)}
    BY <1>5, <1>6, <1>8, <1>10
  <2>3. Did(Head1, answer, row, post, tag)
    BY <1>2, <1>5, <2>1, <2>2, NothingDid
  <2> QED BY <1>1, <1>2, <1>3, <1>10, <2>3
<1>11. CASE post = None /\ Dropped /\ UNCHANGED post /\ labelTag' = tag
  <2>1. answer = [ step |-> "answered", verdict |-> "drop", applied |-> Nothing ]
    BY <1>3, <1>11 DEF Dropped, Answered
  <2>2. Did(Head1, answer, row, post, tag)
    BY <1>2, <1>5, <1>11, <2>1, NothingDid
  <2> QED BY <1>1, <1>2, <1>3, <1>11, <2>2
<1>12. CASE /\ post # None /\ post' = [ Reopened(post) EXCEPT !.tags = tags ] /\ labelTag' = tag
            /\ Done([ ReopenNoted(post) EXCEPT !.tags = tags ])
  <2>1. PICK p \in Post : p = post
    BY <1>12 DEF TypeInv
  <2>2. PICK opened \in Post : opened = Reopened(p) /\ opened.shown = p.shown
    BY ReopenedIs
  <2>3. PICK message \in Post : message = [ opened EXCEPT !.tags = tags ] /\ message.shown = p.shown /\ message.tags = tags
    <3>1. /\ [ opened EXCEPT !.tags = tags ] \in Post /\ [ opened EXCEPT !.tags = tags ].tags = tags
          /\ [ opened EXCEPT !.tags = tags ].shown = opened.shown
      BY DEF Post
    <3> QED BY <2>2, <3>1
  <2>4. PICK archived \in BOOLEAN \cup {None} :
          ReopenNoted(p) = [ posted |-> None, hash |-> None, tags |-> None, archived |-> archived, pinned |-> None ]
    BY ReopenNotedIs
  <2>5. answer = [ step |-> "answered", verdict |-> "done",
                   applied |-> [ posted |-> None, hash |-> None, tags |-> tags,
                                 archived |-> archived, pinned |-> None ] ]
    <3>1. PICK noted : noted = ReopenNoted(p)
      OBVIOUS
    <3>2. answer = [ step |-> "answered", verdict |-> "done", applied |-> [ noted EXCEPT !.tags = tags ] ]
      BY <1>3, <1>12, <2>1, <3>1 DEF Done, Answered
    <3>3. [ noted EXCEPT !.tags = tags ]
            = [ posted |-> None, hash |-> None, tags |-> tags, archived |-> archived, pinned |-> None ]
      BY <2>4, <3>1
    <3> QED BY <3>2, <3>3
  <2>6. None \in BOOLEAN \cup {None} /\ None \in Once /\ None \in Render \cup {None}
    BY OnceIs
  <2>7. /\ answer \in Answer /\ answer.verdict = "done"
        /\ answer.applied.posted = None /\ answer.applied.hash = None /\ answer.applied.tags = tags
    BY <2>5, <2>6, AnswerIs
  <2>8. PICK applied : applied = answer.applied
    OBVIOUS
  <2>9. tags # None => Coalesce(tags, row.tags) = tags
    BY DEF Coalesce
  <2>10. tags # None => policy.forum
    BY <1>5
  <2>11. Did("set_tags", answer, row, message, tag)
    BY <1>2, <1>5, <1>8, <1>12, <2>1, <2>3, <2>7, <2>8, <2>9, <2>10 DEF Did
  <2> QED BY <1>1, <1>3, <1>12, <2>1, <2>2, <2>3, <2>11
<1> QED BY <1>21, <1>7, <1>10, <1>11, <1>12

LEMMA PostCardDid ==
  ASSUME DeliveryAssumption, TypeInv, ReadInv, PostCard
  PROVE  Did("post_card", doing', row', post', labelTag')
<1>1. Handling("post_card") /\ UNCHANGED row
  BY DEF PostCard, store
<1>2. /\ doing \in Reading /\ Head1 = "post_card" /\ labelTag \in LabelTags
  BY <1>1, AtHandler
<1>3. PICK answer : answer = doing'
  OBVIOUS
<1>20. CASE doing.card.posted
  <2>0. Dropped /\ UNCHANGED <<post, labelTag>>
    BY <1>20 DEF PostCard
  <2>1. answer = [ step |-> "answered", verdict |-> "drop", applied |-> Nothing ]
    BY <1>3, <2>0 DEF Dropped, Answered
  <2>2. Did(Head1, answer, row, post, labelTag)
    BY <1>2, <2>1, NothingDid
  <2> QED BY <1>1, <1>2, <1>3, <2>0, <2>2
<1>21. SUFFICES ASSUME NEW made \in LabelTagged, NEW a, a = Assembled(made, FALSE),
                       \E granted \in BOOLEAN :
                         LET pin == granted /\ BornPinned(a.card.state)
                         IN  /\ post' = [ shown |-> Rendered(a.card, a.text),
                                          controls |-> HasComponents(a.card.state), tags |-> a.tags,
                                          archived |-> FALSE, locked |-> FALSE,
                                          window |-> Window(a.card.state), pinned |-> pin ]
                             /\ labelTag' = a.tag
                             /\ Done([ Nothing EXCEPT !.posted = TRUE, !.hash = Rendered(a.card, a.text),
                                                       !.tags = a.tags, !.pinned = IF pin THEN TRUE ELSE None ])
                PROVE  Did("post_card", doing', row', post', labelTag')
  BY <1>20 DEF PostCard
<1>5. PICK card \in Row, text \in Nat, tags \in TagSet \cup {None}, tag \in LabelTags :
        /\ a = [ card |-> card, text |-> text, tags |-> tags, tag |-> tag ]
        /\ (card = doing.card /\ text = doing.text) \/ (card = row /\ text = alert.text)
        /\ tag = labelTag \/ tag.known \in {0, tag.forum}
        /\ policy.forum => tags # None /\ tags.state = TagState(card.state)
        /\ ~policy.forum => tags = None
  <2>1. PICK skip \in BOOLEAN : skip = FALSE
    OBVIOUS
  <2>2. \E card \in Row, text \in Nat, tags \in TagSet \cup {None}, tag \in LabelTags :
          /\ Assembled(made, skip) = [ card |-> card, text |-> text, tags |-> tags, tag |-> tag ]
          /\ (card = doing.card /\ text = doing.text) \/ (card = row /\ text = alert.text)
          /\ tag = labelTag \/ tag.known \in {0, tag.forum}
          /\ policy.forum => tags # None /\ tags.state = TagState(card.state)
          /\ ~policy.forum => tags = None
    BY <1>2, AssembledIs
  <2> QED BY <1>21, <2>1, <2>2
<1>6. PICK render \in Render : render = Rendered(card, text) /\ render \in {Rendered(doing.card, doing.text), Wanted}
  <2>1. Rendered(card, text) \in Render
    BY DEF Rendered, Render, Row
  <2>2. Rendered(card, text) \in {Rendered(doing.card, doing.text), Wanted}
    BY <1>5 DEF Wanted
  <2> QED BY <2>1, <2>2
<1>7. tags # None => policy.forum /\ tags.state \in {TagState(doing.card.state), TagState(row.state)}
  BY <1>5
<1>9. ASSUME NEW pin \in BOOLEAN,
             post' = [ shown |-> render, controls |-> HasComponents(card.state), tags |-> tags,
                       archived |-> FALSE, locked |-> FALSE, window |-> Window(card.state), pinned |-> pin ],
             labelTag' = tag,
             Done([ Nothing EXCEPT !.posted = TRUE, !.hash = render, !.tags = tags,
                                   !.pinned = IF pin THEN TRUE ELSE None ])
      PROVE  Did("post_card", doing', row', post', labelTag')
  <2>1. PICK controls \in BOOLEAN : controls = HasComponents(card.state)
    BY DEF HasComponents, IsOpen
  <2>2. PICK window \in {"week", "route"} : window = Window(card.state)
    BY DEF Window
  <2>3. PICK message : message = [ shown |-> render, controls |-> controls, tags |-> tags, archived |-> FALSE,
                                   locked |-> FALSE, window |-> window, pinned |-> pin ]
    OBVIOUS
  <2>4. message \in Post /\ message.shown = render /\ message.tags = tags
    BY <2>3 DEF Post
  <2>5. post' = message
    BY <1>9, <2>1, <2>2, <2>3
  <2>6. PICK pinned \in BOOLEAN \cup {None} : pinned = IF pin THEN TRUE ELSE None
    OBVIOUS
  <2>7. PICK posted \in Once : posted = TRUE
    BY OnceIs
  <2>8. answer = [ step |-> "answered", verdict |-> "done",
                   applied |-> [ posted |-> posted, hash |-> render, tags |-> tags,
                                 archived |-> None, pinned |-> pinned ] ]
    <3>1. answer = [ step |-> "answered", verdict |-> "done",
                     applied |-> [ Nothing EXCEPT !.posted = posted, !.hash = render, !.tags = tags,
                                                  !.pinned = pinned ] ]
      BY <1>3, <1>9, <2>6, <2>7 DEF Done, Answered
    <3>2. PICK x1 : x1 = [ Nothing EXCEPT !.posted = posted ]
      OBVIOUS
    <3>3. PICK x2 : x2 = [ x1 EXCEPT !.hash = render ]
      OBVIOUS
    <3>4. PICK x3 : x3 = [ x2 EXCEPT !.tags = tags ]
      OBVIOUS
    <3>5. x1 = [ posted |-> posted, hash |-> None, tags |-> None, archived |-> None, pinned |-> None ]
      BY <3>2 DEF Nothing
    <3>6. x2 = [ posted |-> posted, hash |-> render, tags |-> None, archived |-> None, pinned |-> None ]
      BY <3>3, <3>5
    <3>7. x3 = [ posted |-> posted, hash |-> render, tags |-> tags, archived |-> None, pinned |-> None ]
      BY <3>4, <3>6
    <3>8. [ x3 EXCEPT !.pinned = pinned ]
            = [ posted |-> posted, hash |-> render, tags |-> tags, archived |-> None, pinned |-> pinned ]
      BY <3>7
    <3>9. [ Nothing EXCEPT !.posted = posted, !.hash = render, !.tags = tags, !.pinned = pinned ]
            = [ x3 EXCEPT !.pinned = pinned ]
      BY <3>2, <3>3, <3>4
    <3> QED BY <3>1, <3>8, <3>9
  <2>9. /\ answer \in Answer /\ answer.verdict = "done"
        /\ answer.applied.posted = posted /\ answer.applied.hash = render /\ answer.applied.tags = tags
    <3>1. PICK archived \in BOOLEAN \cup {None} : archived = None
      OBVIOUS
    <3>2. PICK hash \in Render \cup {None} : hash = render
      OBVIOUS
    <3>3. PICK verdict \in {"done", "drop", "retry"} : verdict = "done"
      OBVIOUS
    <3>4. answer = [ step |-> "answered", verdict |-> verdict,
                     applied |-> [ posted |-> posted, hash |-> hash, tags |-> tags,
                                   archived |-> archived, pinned |-> pinned ] ]
      BY <2>8, <3>1, <3>2, <3>3
    <3>5. /\ answer \in Answer /\ answer.verdict = verdict
          /\ answer.applied.posted = posted /\ answer.applied.hash = hash /\ answer.applied.tags = tags
      BY <3>4, AnswerIs
    <3> QED BY <3>2, <3>3, <3>5
  <2>10. PICK applied : applied = answer.applied
    OBVIOUS
  <2>11. render # None /\ message # None
    BY <2>4 DEF DeliveryAssumption
  <2>12. posted # None
    <3>1. posted \in BOOLEAN
      BY <2>7
    <3> QED BY <3>1 DEF DeliveryAssumption
  <2>13. Did("post_card", answer, row, message, tag)
    BY <1>2, <1>5, <1>6, <1>7, <2>4, <2>9, <2>10, <2>11, <2>12 DEF Did
  <2> QED BY <1>1, <1>3, <1>9, <2>5, <2>13
<1>10. a.card = card /\ a.text = text /\ a.tags = tags /\ a.tag = tag
  BY <1>5
<1>11. CASE \E granted \in BOOLEAN :
              LET pin == granted /\ BornPinned(card.state)
              IN  /\ post' = [ shown |-> render, controls |-> HasComponents(card.state), tags |-> tags,
                               archived |-> FALSE, locked |-> FALSE,
                               window |-> Window(card.state), pinned |-> pin ]
                  /\ labelTag' = tag
                  /\ Done([ Nothing EXCEPT !.posted = TRUE, !.hash = render,
                                           !.tags = tags, !.pinned = IF pin THEN TRUE ELSE None ])
  <2>1. PICK granted \in BOOLEAN :
              LET pin == granted /\ BornPinned(card.state)
              IN  /\ post' = [ shown |-> render, controls |-> HasComponents(card.state), tags |-> tags,
                               archived |-> FALSE, locked |-> FALSE,
                               window |-> Window(card.state), pinned |-> pin ]
                  /\ labelTag' = tag
                  /\ Done([ Nothing EXCEPT !.posted = TRUE, !.hash = render,
                                           !.tags = tags, !.pinned = IF pin THEN TRUE ELSE None ])
    BY <1>11
  <2>2. PICK pin \in BOOLEAN : pin = (granted /\ BornPinned(card.state))
    OBVIOUS
  <2>3. /\ post' = [ shown |-> render, controls |-> HasComponents(card.state), tags |-> tags,
                     archived |-> FALSE, locked |-> FALSE,
                     window |-> Window(card.state), pinned |-> pin ]
        /\ labelTag' = tag
        /\ Done([ Nothing EXCEPT !.posted = TRUE, !.hash = render,
                                 !.tags = tags, !.pinned = IF pin THEN TRUE ELSE None ])
    BY <2>1, <2>2
  <2> QED BY <1>9, <2>3
<1> QED BY <1>21, <1>6, <1>10, <1>11

(* Whatever the kind of the item, its handler leaves an answer, a row, a   *)
(* message and a tag that go together.                                     *)
LEMMA HandledDid ==
  ASSUME DeliveryAssumption, TypeInv, ReadInv, Handle
  PROVE  /\ \E kind \in Kinds : Handling(kind) /\ Did(kind, doing', row', post', labelTag')
         /\ UNCHANGED <<policy, alert, held, plan, queue, batch, left>>
<1>1. CASE PostCard
  BY <1>1, PostCardDid DEF PostCard, Kinds, store
<1>2. CASE EditCard
  BY <1>2, EditCardDid DEF EditCard, Kinds
<1>3. CASE ResyncCard
  BY <1>3, ResyncCardDid DEF ResyncCard, Kinds
<1>4. CASE SetTags
  BY <1>4, SetTagsDid DEF SetTags, Kinds, store
<1>5. CASE ThreadNote
  BY <1>5, SayDid DEF ThreadNote, Say, Kinds, store
<1>6. CASE Escalate
  BY <1>6, SayDid DEF Escalate, Say, Kinds, store
<1>7. CASE SetPostFlags
  BY <1>7, SetPostFlagsDid DEF SetPostFlags, Kinds, store
<1>8. CASE SetPostPinned
  BY <1>8, SetPostPinnedDid DEF SetPostPinned, Kinds, store
<1>9. CASE DisableComponents
  BY <1>9, DisableComponentsDid DEF DisableComponents, Kinds, store
<1> QED BY <1>1, <1>2, <1>3, <1>4, <1>5, <1>6, <1>7, <1>8, <1>9 DEF Handle

-----------------------------------------------------------------------------
(* What each action does to the queue and to the batch.                    *)
LEMMA HeadTailIs ==
  ASSUME NEW X, NEW q \in Seq(X), q # <<>>
  PROVE  /\ Head(q) \in X /\ Tail(q) \in Seq(X)
         /\ 1 \in DOMAIN q /\ q[1] = Head(q)
         /\ \A i \in DOMAIN Tail(q) : i + 1 \in DOMAIN q /\ i + 1 # 1 /\ Tail(q)[i] = q[i + 1]
         /\ \A i \in DOMAIN q : i # 1 => \E j \in DOMAIN Tail(q) : Tail(q)[j] = q[i] /\ i = j + 1
<1>1. /\ Head(q) \in X /\ Tail(q) \in Seq(X) /\ Head(q) = q[1] /\ Len(q) \in Nat /\ Len(q) # 0
      /\ Len(Tail(q)) = Len(q) - 1 /\ \A i \in 1..Len(Tail(q)) : Tail(q)[i] = q[i + 1]
  BY HeadTailProperties, LenProperties, EmptySeq
<1>2. DOMAIN q = 1..Len(q) /\ DOMAIN Tail(q) = 1..Len(Tail(q))
  BY <1>1, LenProperties
<1>3. PICK t : t = Tail(q)
  OBVIOUS
<1>4. PICK n \in Nat : n = Len(q) - 1 /\ Len(q) = n + 1
  <2>1. Len(q) - 1 \in Nat /\ Len(q) = (Len(q) - 1) + 1
    <3>1. PICK len \in Nat : len = Len(q) /\ len # 0
      BY <1>1
    <3>2. len - 1 \in Nat /\ len = (len - 1) + 1
      BY <3>1
    <3> QED BY <3>1, <3>2
  <2> QED BY <2>1
<1>5. DOMAIN q = 1..(n + 1) /\ DOMAIN t = 1..n /\ \A i \in 1..n : t[i] = q[i + 1]
  BY <1>1, <1>2, <1>3, <1>4
<1>6. ASSUME NEW i \in 1..(n + 1), i # 1
      PROVE  \E j \in 1..n : t[j] = q[i] /\ i = j + 1
  <2>1. PICK j \in 1..n : i = j + 1
    <3>1. i - 1 \in 1..n /\ i = (i - 1) + 1
      BY <1>6
    <3> QED BY <3>1
  <2> QED BY <1>5, <2>1
<1>7. \A i \in 1..n : i + 1 \in 1..(n + 1) /\ i + 1 # 1
  OBVIOUS
<1>8. 1 \in 1..(n + 1)
  OBVIOUS
<1> QED BY <1>1, <1>3, <1>5, <1>6, <1>7, <1>8

LEMMA FirstAndRest ==
  ASSUME NEW q \in Seq(Queued), q # <<>>
  PROVE  /\ Head(q) \in Queued /\ Tail(q) \in Seq(Queued)
         /\ \A kind : Has(q, kind) <=> Head(q).kind = kind \/ Has(Tail(q), kind)
         /\ \A kind : AtMostOne(q, kind) => AtMostOne(Tail(q), kind)
         /\ \A kind : AtMostOne(q, kind) /\ Head(q).kind = kind => ~Has(Tail(q), kind)
<1>1. PICK first, rest : first = Head(q) /\ rest = Tail(q)
  OBVIOUS
<1>2. /\ first \in Queued /\ rest \in Seq(Queued)
      /\ 1 \in DOMAIN q /\ q[1] = first
      /\ \A i \in DOMAIN rest : i + 1 \in DOMAIN q /\ i + 1 # 1 /\ rest[i] = q[i + 1]
      /\ \A i \in DOMAIN q : i # 1 => \E j \in DOMAIN rest : rest[j] = q[i] /\ i = j + 1
  BY <1>1, HeadTailIs
<1>3. \A kind : Has(q, kind) <=> first.kind = kind \/ Has(rest, kind)
  BY <1>2 DEF Has
<1>4. ASSUME NEW kind, AtMostOne(q, kind)
      PROVE  AtMostOne(rest, kind) /\ (first.kind = kind => ~Has(rest, kind))
  <2>1. DOMAIN rest \subseteq Int
    <3>1. DOMAIN rest = 1..Len(rest) /\ Len(rest) \in Nat
      BY <1>2, LenProperties
    <3> QED BY <3>1
  <2>2. ASSUME NEW i \in DOMAIN rest, NEW j \in DOMAIN rest, rest[i].kind = kind, rest[j].kind = kind
        PROVE  i = j
    <3>1. i + 1 = j + 1
      BY <1>2, <1>4, <2>2 DEF AtMostOne
    <3> QED BY <2>1, <3>1
  <2>3. ASSUME first.kind = kind, NEW i \in DOMAIN rest, rest[i].kind = kind
        PROVE  FALSE
    BY <1>2, <1>4, <2>3 DEF AtMostOne
  <2> QED BY <2>2, <2>3 DEF AtMostOne, Has
<1> QED BY <1>1, <1>2, <1>3, <1>4

(* Who is still to be read for, in a batch taken apart.                    *)
LEMMA AheadIs ==
  ASSUME NEW q, NEW b \in Seq(Queued), b # <<>>, NEW d, NEW kind
  PROVE  AheadOf(q, b, d, kind)
           <=> Has(q, kind) \/ (d = None /\ Head(b).kind = kind) \/ Has(Tail(b), kind)
<1>1. PICK first, rest : first = Head(b) /\ rest = Tail(b)
  OBVIOUS
<1>2. /\ 1 \in DOMAIN b /\ b[1] = first
      /\ \A i \in DOMAIN rest : i + 1 \in DOMAIN b /\ i + 1 # 1 /\ rest[i] = b[i + 1]
      /\ \A i \in DOMAIN b : i # 1 => \E j \in DOMAIN rest : rest[j] = b[i] /\ i = j + 1
  BY <1>1, HeadTailIs
<1>3. AheadOf(q, b, d, kind) <=> Has(q, kind) \/ (d = None /\ first.kind = kind) \/ Has(rest, kind)
  BY <1>2 DEF AheadOf, Has
<1> QED BY <1>1, <1>3

LEMMA AheadOfNone ==
  ASSUME NEW q, NEW d, NEW kind
  PROVE  AheadOf(q, <<>>, d, kind) <=> Has(q, kind)
  BY DEF AheadOf

LEMMA IdleAheadIs ==
  ASSUME NEW q, NEW b, NEW kind
  PROVE  AheadOf(q, b, None, kind) <=> Has(q, kind) \/ Has(b, kind)
  BY DEF AheadOf, Has

(* claim_outbox: what is due goes from the queue to the batch.             *)
LEMMA ClaimIs ==
  ASSUME TypeInv, Claim
  PROVE  /\ doing = None /\ batch = <<>> /\ doing' = None
         /\ queue' \in Seq(Queued) /\ batch' \in Seq(Queued)
         /\ \A kind : Has(queue, kind) <=> Has(queue', kind) \/ Has(batch', kind)
         /\ \A kind : AtMostOne(queue, kind) =>
              AtMostOne(queue', kind) /\ AtMostOne(batch', kind) /\ ~(Has(queue', kind) /\ Has(batch', kind))
<1> DEFINE due == Sooner(queue, 0)
           rest == DOMAIN queue \ due
<1>1. due \in SUBSET DOMAIN queue /\ rest \in SUBSET DOMAIN queue
      /\ due \cap rest = {} /\ DOMAIN queue = due \cup rest
  BY DEF Sooner
<1>2. queue' = ItemsAt(queue, rest) /\ batch' = ItemsAt(queue, due) /\ queue \in Seq(Queued)
      /\ batch = <<>> /\ doing = None /\ doing' = None
  BY DEF Claim, TypeInv
<1> HIDE DEF due, rest
<1>3. PICK p \in Seq(Queued) : p = queue
  BY <1>2
<1>4. /\ ItemsAt(p, rest) \in Seq(Queued)
      /\ \A kind : Has(ItemsAt(p, rest), kind) <=> \E i \in rest : p[i].kind = kind
      /\ \A kind : AtMostOne(p, kind) => AtMostOne(ItemsAt(p, rest), kind)
  BY <1>1, <1>3, ItemsAtIs
<1>5. /\ ItemsAt(p, due) \in Seq(Queued)
      /\ \A kind : Has(ItemsAt(p, due), kind) <=> \E i \in due : p[i].kind = kind
      /\ \A kind : AtMostOne(p, kind) => AtMostOne(ItemsAt(p, due), kind)
  BY <1>1, <1>3, ItemsAtIs
<1>6. PICK a, b : a = ItemsAt(p, rest) /\ b = ItemsAt(p, due)
  OBVIOUS
<1>7. ASSUME NEW kind
      PROVE  Has(p, kind) <=> Has(a, kind) \/ Has(b, kind)
  <2>1. Has(p, kind) <=> \E i \in due \cup rest : p[i].kind = kind
    BY <1>1, <1>3 DEF Has
  <2>2. Has(a, kind) <=> \E i \in rest : p[i].kind = kind
    BY <1>4, <1>6
  <2>3. Has(b, kind) <=> \E i \in due : p[i].kind = kind
    BY <1>5, <1>6
  <2> QED BY <2>1, <2>2, <2>3
<1>8. ASSUME NEW kind, AtMostOne(p, kind)
      PROVE  ~(Has(a, kind) /\ Has(b, kind))
  BY <1>1, <1>3, <1>4, <1>5, <1>6, <1>8 DEF AtMostOne
<1> QED BY <1>2, <1>3, <1>4, <1>5, <1>6, <1>7, <1>8

LEMMA TickIs ==
  ASSUME TypeInv, Tick
  PROVE  /\ queue' \in Seq(Queued)
         /\ \A kind : Has(queue', kind) <=> Has(queue, kind)
         /\ \A kind : AtMostOne(queue, kind) => AtMostOne(queue', kind)
<1>1. PICK p \in Seq(Queued) : p = queue
  BY DEF TypeInv
<1>2. PICK r : r = [ i \in DOMAIN p |-> [ p[i] EXCEPT !.due = IF @ = 0 THEN 0 ELSE @ - 1 ] ]
  OBVIOUS
<1>3. queue' = r
  BY <1>1, <1>2 DEF Tick
<1>4. DOMAIN p = 1..Len(p) /\ Len(p) \in Nat
  BY LenProperties
<1>5. ASSUME NEW i \in DOMAIN p
      PROVE  r[i] \in Queued /\ r[i].kind = p[i].kind
  <2>1. PICK old \in Queued : old = p[i]
    BY <1>4, ElementOfSeq
  <2>2. PICK due \in Nat : due = IF old.due = 0 THEN 0 ELSE old.due - 1
    BY DEF Queued, Items
  <2>3. [ old EXCEPT !.due = due ] \in Queued /\ [ old EXCEPT !.due = due ].kind = old.kind
    BY DEF Queued, Items
  <2>4. r[i] = [ old EXCEPT !.due = due ]
    BY <1>2, <2>1, <2>2
  <2> QED BY <2>1, <2>3, <2>4
<1>6. r \in [ 1..Len(p) -> Queued ] /\ DOMAIN r = DOMAIN p
  BY <1>2, <1>4, <1>5
<1>7. r \in Seq(Queued)
  BY <1>4, <1>6, SeqDef
<1> QED BY <1>1, <1>3, <1>5, <1>6, <1>7 DEF Has, AtMostOne

(* A completed item leaves the batch, a failed one goes back to the queue. *)
LEMMA SettleIs ==
  ASSUME DeliveryAssumption, TypeInv, Settle
  PROVE  /\ queue' \in Seq(Queued) /\ batch' \in Seq(Queued) /\ batch' = Tail(batch)
         /\ \A kind : Has(queue', kind) <=> Has(queue, kind) \/ (doing.verdict = "retry" /\ Head1 = kind)
         /\ \A kind : AtMostOne(queue, kind) /\ ~(Has(queue, kind) /\ Head1 = kind) => AtMostOne(queue', kind)
<1>1. batch \in Seq(Queued) /\ batch # <<>> /\ queue \in Seq(Queued)
  BY DEF TypeInv, Settle
<1>2. PICK p \in Seq(Queued), first \in Queued : p = queue /\ first = Head(batch)
  BY <1>1, FirstAndRest
<1>3. batch' \in Seq(Queued) /\ batch' = Tail(batch)
  BY <1>1, FirstAndRest DEF Settle
<1>4. PICK again : again = [ first EXCEPT !.due = Backoff ]
  OBVIOUS
<1>5. again \in Queued /\ again.kind = first.kind
  BY <1>4 DEF Queued, Items, DeliveryAssumption
<1>6. queue' = IF doing.verdict = "retry" THEN Insert(p, again) ELSE p
  BY <1>2, <1>4 DEF Settle
<1>7. /\ Insert(p, again) \in Seq(Queued)
      /\ \A kind : Has(Insert(p, again), kind) <=> Has(p, kind) \/ again.kind = kind
      /\ \A kind : AtMostOne(p, kind) /\ ~(Has(p, kind) /\ again.kind = kind) => AtMostOne(Insert(p, again), kind)
  BY <1>5, InsertIs
<1>8. CASE doing.verdict = "retry"
  BY <1>2, <1>3, <1>5, <1>6, <1>7, <1>8 DEF Head1
<1>9. CASE doing.verdict # "retry"
  BY <1>2, <1>3, <1>6, <1>9
<1> QED BY <1>8, <1>9

LEMMA SpendIs ==
  ASSUME DeliveryAssumption, TypeInv, NEW source \in Sources, Spend(source)
  PROVE  /\ left' \in [ Sources -> Nat ] /\ \A s \in Sources : left'[s] <= Budget[s]
         /\ left'[source] # Budget[source]
         /\ \A s \in Sources \ {source} : left'[s] = left[s]
<1>1. left \in [ Sources -> Nat ] /\ Budget \in [ Sources -> Nat ] /\ \A s \in Sources : left[s] <= Budget[s]
  BY DEF TypeInv, DeliveryAssumption
<1>2. left[source] > 0 /\ left' = [ left EXCEPT ![source] = @ - 1 ]
  BY DEF Spend
<1> QED BY <1>1, <1>2

-----------------------------------------------------------------------------
(* Type correctness.                                                       *)
LEMMA NextStateType ==
  ASSUME NEW state, NEW trigger, NEW acknowledged
  PROVE  NextState(state, trigger, acknowledged) \in (States \ {"orphaned"}) \cup {None}
  BY DEF NextState, States

LEMMA StateAfterType ==
  ASSUME NEW p
  PROVE  StateAfter(p) \in (States \ {"orphaned"}) \cup {None}
<1>1. PICK new \in (States \ {"orphaned"}) \cup {None} :
        new = NextState(p.card.state, TriggerFor(p.kind, p.alert, p.card.state, FALSE), p.held)
  BY NextStateType
<1>2. StateAfter(p) = IF p.card.state = "resolved" /\ new \in {"firing", "acked"} /\ p.alert.suppressed
                        THEN "silenced" ELSE new
  BY <1>1 DEF StateAfter
<1> QED BY <1>2 DEF States

(* A card that changes its state keeps its other columns.                  *)
LEMMA MovedIs ==
  ASSUME NEW card \in Row, NEW state \in (States \ {"orphaned"}) \cup {None}, NEW moved,
         moved = IF state = None THEN card ELSE [ card EXCEPT !.state = state ]
  PROVE  /\ moved \in Row /\ SameColumns(card, moved)
         /\ moved.state = IF state = None THEN card.state ELSE state
         /\ moved.state = "orphaned" => card.state = "orphaned"
<1>1. CASE state = None
  BY <1>1 DEF SameColumns
<1>2. CASE state # None
  <2>1. moved = [ card EXCEPT !.state = state ] /\ state \in States /\ state # "orphaned"
    BY <1>2
  <2> QED BY <1>2, <2>1 DEF Row, SameColumns
<1> QED BY <1>1, <1>2

LEMMA CoalesceIs ==
  ASSUME NEW S, NEW new \in S \cup {None}, NEW old \in S
  PROVE  Coalesce(new, old) \in S
  BY DEF Coalesce

LEMMA AppliedIs ==
  ASSUME NEW card \in Row, NEW applied \in Applied
  PROVE  /\ ApplyToCard(card, applied) \in Row
         /\ ApplyToCard(card, applied).state = card.state
         /\ ApplyToCard(card, applied).posted = Coalesce(applied.posted, card.posted)
         /\ ApplyToCard(card, applied).hash = Coalesce(applied.hash, card.hash)
         /\ ApplyToCard(card, applied).tags = Coalesce(applied.tags, card.tags)
<1>1. PICK posted \in BOOLEAN : posted = Coalesce(applied.posted, card.posted)
  <2>1. applied.posted \in BOOLEAN \cup {None}
    BY DEF Applied, Once
  <2>2. PICK new \in BOOLEAN \cup {None}, old \in BOOLEAN : new = applied.posted /\ old = card.posted
    BY <2>1 DEF Row
  <2> QED BY <2>2, CoalesceIs
<1>2. PICK hash \in Render \cup {None} : hash = Coalesce(applied.hash, card.hash)
  BY CoalesceIs DEF Applied, Row, Coalesce
<1>3. PICK tags \in TagSet \cup {None} : tags = Coalesce(applied.tags, card.tags)
  BY CoalesceIs DEF Applied, Row, Coalesce
<1>4. PICK archived \in BOOLEAN : archived = Coalesce(applied.archived, card.archived)
  <2>1. PICK new \in BOOLEAN \cup {None}, old \in BOOLEAN : new = applied.archived /\ old = card.archived
    BY DEF Row, Applied
  <2> QED BY <2>1, CoalesceIs
<1>5. PICK pinned \in BOOLEAN : pinned = Coalesce(applied.pinned, card.pinned)
  <2>1. PICK new \in BOOLEAN \cup {None}, old \in BOOLEAN : new = applied.pinned /\ old = card.pinned
    BY DEF Row, Applied
  <2> QED BY <2>1, CoalesceIs
<1>6. PICK x : x = [ card EXCEPT !.posted = posted, !.hash = hash, !.tags = tags,
                                 !.archived = archived, !.pinned = pinned ]
  OBVIOUS
<1>7. x \in Row /\ x.state = card.state /\ x.posted = posted /\ x.hash = hash /\ x.tags = tags
  <2>1. PICK x1 \in Row : x1 = [ card EXCEPT !.posted = posted ] /\ x1.state = card.state /\ x1.posted = posted
    <3>1. [ card EXCEPT !.posted = posted ] \in Row /\ [ card EXCEPT !.posted = posted ].state = card.state
          /\ [ card EXCEPT !.posted = posted ].posted = posted
      BY DEF Row
    <3> QED BY <3>1
  <2>2. PICK x2 \in Row : x2 = [ x1 EXCEPT !.hash = hash ] /\ x2.state = x1.state /\ x2.posted = x1.posted /\ x2.hash = hash
    <3>1. [ x1 EXCEPT !.hash = hash ] \in Row /\ [ x1 EXCEPT !.hash = hash ].state = x1.state
          /\ [ x1 EXCEPT !.hash = hash ].posted = x1.posted /\ [ x1 EXCEPT !.hash = hash ].hash = hash
      BY DEF Row
    <3> QED BY <3>1
  <2>3. PICK x3 \in Row : /\ x3 = [ x2 EXCEPT !.tags = tags ] /\ x3.state = x2.state /\ x3.posted = x2.posted
                          /\ x3.hash = x2.hash /\ x3.tags = tags
    <3>1. [ x2 EXCEPT !.tags = tags ] \in Row /\ [ x2 EXCEPT !.tags = tags ].state = x2.state
          /\ [ x2 EXCEPT !.tags = tags ].posted = x2.posted /\ [ x2 EXCEPT !.tags = tags ].hash = x2.hash
          /\ [ x2 EXCEPT !.tags = tags ].tags = tags
      BY DEF Row
    <3> QED BY <3>1
  <2>4. PICK x4 \in Row : /\ x4 = [ x3 EXCEPT !.archived = archived ] /\ x4.state = x3.state /\ x4.posted = x3.posted
                          /\ x4.hash = x3.hash /\ x4.tags = x3.tags
    <3>1. [ x3 EXCEPT !.archived = archived ] \in Row /\ [ x3 EXCEPT !.archived = archived ].state = x3.state
          /\ [ x3 EXCEPT !.archived = archived ].posted = x3.posted /\ [ x3 EXCEPT !.archived = archived ].hash = x3.hash
          /\ [ x3 EXCEPT !.archived = archived ].tags = x3.tags
      BY DEF Row
    <3> QED BY <3>1
  <2>5. [ x4 EXCEPT !.pinned = pinned ] \in Row /\ [ x4 EXCEPT !.pinned = pinned ].state = x4.state
        /\ [ x4 EXCEPT !.pinned = pinned ].posted = x4.posted /\ [ x4 EXCEPT !.pinned = pinned ].hash = x4.hash
        /\ [ x4 EXCEPT !.pinned = pinned ].tags = x4.tags
    BY DEF Row
  <2>6. x = [ x4 EXCEPT !.pinned = pinned ]
    BY <1>6, <2>1, <2>2, <2>3, <2>4
  <2> QED BY <2>1, <2>2, <2>3, <2>4, <2>5, <2>6
<1>8. ApplyToCard(card, applied) = x
  BY <1>1, <1>2, <1>3, <1>4, <1>5, <1>6 DEF ApplyToCard
<1> QED BY <1>1, <1>2, <1>3, <1>7, <1>8

LEMMA DeliverIs ==
  ASSUME DeliveryAssumption, TypeInv, NEW new \in Incoming, Deliver(new)
  PROVE  new \in Alert /\ plan' \in Plan /\ plan'.card = row /\ plan' # None
<1>1. alert \in Alert /\ alert.text \in Nat /\ row \in Row /\ held \in BOOLEAN
  BY DEF TypeInv, Alert, DeliveryAssumption
<1>2. new \in Alert
  BY <1>1 DEF Incoming, Alert, DeliveryAssumption
<1>3. PICK kind : kind = Classify(alert, new)
  OBVIOUS
<1>4. kind \in Events
  <2>1. kind \in Events \cup {None}
    BY <1>3 DEF Classify, Events
  <2> QED BY <1>3, <2>1 DEF Deliver
<1>5. PICK p : p = [ kind |-> kind, alert |-> new, card |-> row, held |-> held ]
  OBVIOUS
<1>6. p \in Plan /\ p.card = row
  BY <1>1, <1>2, <1>4, <1>5 DEF Plan
<1>7. plan' = p
  BY <1>3, <1>5 DEF Deliver
<1> QED BY <1>2, <1>6, <1>7 DEF DeliveryAssumption

(* apply_decision: the row moves and the effects are queued, or the plan is*)
(* dropped because the card was orphaned.                                  *)
LEMMA ApplyIs ==
  ASSUME DeliveryAssumption, TypeInv, ApplyDecision
  PROVE  /\ plan \in Plan /\ plan # None /\ queue' \in Seq(Queued)
         /\ row' \in Row /\ SameColumns(row, row')
         /\ row'.state = "orphaned" => row.state = "orphaned"
         /\ \A kind : Has(queue, kind) => Has(queue', kind)
         /\ \A kind \in {"post_card", "resync_card"} : Has(queue', kind) => Has(queue, kind)
         /\ AtMostOne(queue, "post_card") => AtMostOne(queue', "post_card")
         /\ \/ plan.card.state = "orphaned" /\ UNCHANGED <<row, queue>>
            \/ /\ Has(queue', "edit_card")
               /\ policy.forum => row' = row \/ Has(queue', "set_tags")
<1>1. plan \in Plan /\ plan # None /\ queue \in Seq(Queued) /\ row \in Row /\ policy \in Policies
  BY DEF ApplyDecision, TypeInv
<1>2. CASE plan.card.state = "orphaned" /\ UNCHANGED <<row, queue>>
  BY <1>1, <1>2 DEF SameColumns
<1>3. CASE plan.card.state # "orphaned"
  <2>1. PICK state \in (States \ {"orphaned"}) \cup {None} : state = StateAfter(plan)
    BY StateAfterType
  <2>2. PICK card \in Row : card = plan.card
    BY <1>1 DEF Plan
  <2>3. PICK items : items = Effects(card, state)
    OBVIOUS
  <2>4. /\ Planned(items) /\ Has(items, "edit_card")
        /\ policy.forum /\ state # None => Has(items, "set_tags")
    BY <1>1, <2>3, EffectsAre
  <2>5. items \in Seq(Queued) /\ ~Has(items, "post_card") /\ ~Has(items, "resync_card")
    BY <2>4 DEF Planned
  <2>12. PICK p \in Seq(Queued) : p = queue
    BY <1>1
  <2>6. PICK r : r = EnqueueAll(p, items)
    OBVIOUS
  <2>7. /\ r \in Seq(Queued)
        /\ \A kind : Has(r, kind) <=> Has(p, kind) \/ Has(items, kind)
        /\ AtMostOne(p, "post_card") => AtMostOne(r, "post_card")
    BY <2>5, <2>12, <2>6, EnqueueAllIs
  <2>8. queue' = r
    BY <1>3, <2>1, <2>2, <2>3, <2>12, <2>6 DEF ApplyDecision
  <2>9. PICK moved : moved = IF state = None THEN row ELSE [ row EXCEPT !.state = state ]
    OBVIOUS
  <2>10. row' = moved
    BY <1>3, <2>1, <2>9 DEF ApplyDecision
  <2>11. /\ moved \in Row /\ SameColumns(row, moved) /\ (state = None => moved = row)
         /\ moved.state = "orphaned" => row.state = "orphaned"
    <3>1. PICK card1 \in Row : card1 = row
      BY <1>1
    <3>2. /\ moved \in Row /\ SameColumns(card1, moved)
          /\ moved.state = "orphaned" => card1.state = "orphaned"
      BY <2>9, <3>1, MovedIs
    <3> QED BY <2>9, <3>1, <3>2
  <2> QED BY <1>1, <2>4, <2>5, <2>12, <2>6, <2>7, <2>8, <2>10, <2>11
<1> QED BY <1>2, <1>3 DEF ApplyDecision

LEMMA EnqueuedIs ==
  ASSUME DeliveryAssumption, TypeInv, NEW kind \in {"edit_card", "resync_card", "escalate"},
         queue' = Enqueue(queue, Item(kind, 0))
  PROVE  /\ queue' \in Seq(Queued)
         /\ \A k : Has(queue', k) <=> Has(queue, k) \/ k = kind
         /\ AtMostOne(queue, "post_card") => AtMostOne(queue', "post_card")
<1>1. PICK item \in Queued : item = Item(kind, 0) /\ item.kind = kind
  BY ItemIs DEF Kinds
<1>2. PICK p \in Seq(Queued) : p = queue
  BY DEF TypeInv
<1>3. Adds(p, item.kind, Enqueue(p, item))
  BY EnqueueIs
<1> QED BY <1>1, <1>2, <1>3 DEF Adds

LEMMA AcknowledgeIs ==
  ASSUME DeliveryAssumption, TypeInv, Acknowledge
  PROVE  row' \in Row /\ SameColumns(row, row') /\ (row'.state = "orphaned" => row.state = "orphaned")
<1>1. PICK state \in (States \ {"orphaned"}) \cup {None} :
        state = NextState(row.state, IF held THEN "ack_revoked" ELSE "acknowledged", ~held)
  BY NextStateType
<1>2. row' = IF state = None THEN row ELSE [ row EXCEPT !.state = state ]
  BY <1>1 DEF Acknowledge
<1>3. PICK card \in Row : card = row
  BY DEF TypeInv
<1>4. PICK moved : moved = row'
  OBVIOUS
<1>5. /\ moved \in Row /\ SameColumns(card, moved)
      /\ moved.state = "orphaned" => card.state = "orphaned"
  BY <1>2, <1>3, <1>4, MovedIs
<1> QED BY <1>3, <1>4, <1>5

LEMMA CrashIs ==
  ASSUME TypeInv, Crash
  PROVE  /\ queue' \in Seq(Queued) /\ batch' = <<>> /\ doing' = None
         /\ \A kind : Has(queue', kind) <=> Has(batch, kind) \/ Has(queue, kind)
         /\ \A kind : AtMostOne(queue, kind) /\ AtMostOne(batch, kind) /\ ~(Has(queue, kind) /\ Has(batch, kind))
                     => AtMostOne(queue', kind)
<1>1. PICK p \in Seq(Queued), b \in Seq(Queued) : p = queue /\ b = batch
  BY DEF TypeInv
<1>2. queue' = b \o p /\ batch' = <<>> /\ doing' = None
  BY <1>1 DEF Crash
<1>3. /\ b \o p \in Seq(Queued)
      /\ \A kind : Has(b \o p, kind) <=> Has(b, kind) \/ Has(p, kind)
      /\ \A kind : AtMostOne(b, kind) /\ AtMostOne(p, kind) /\ ~(Has(b, kind) /\ Has(p, kind))
                  => AtMostOne(b \o p, kind)
  BY JoinedIs
<1> QED BY <1>1, <1>2, <1>3

LEMMA TypeAtStart ==
  ASSUME DeliveryAssumption, Init
  PROVE  TypeInv
<1>1. PICK item \in Queued : item = Item("post_card", 0)
  BY ItemIs DEF Kinds
<1>2. queue \in Seq(Queued) /\ batch \in Seq(Queued)
  BY <1>1, OneIs, EmptySeq DEF Init
<1>3. alert \in Alert
  BY DEF Init, Alert, DeliveryAssumption
<1>4. row \in Row
  <2>1. PICK state \in States : state = InitialState(alert)
    BY DEF InitialState, States
  <2> QED BY <2>1 DEF Init, NewRow, Row
<1>5. labelTag \in [ forum : Nat, known : Nat, last : Nat ]
  BY DEF Init
<1>6. left \in [ Sources -> Nat ] /\ \A s \in Sources : left[s] <= Budget[s]
  BY DEF Init, DeliveryAssumption
<1> QED BY <1>2, <1>3, <1>4, <1>5, <1>6 DEF Init, TypeInv

LEMMA NothingIs ==
  ASSUME NEW answer, NEW verdict \in {"done", "drop", "retry"},
         answer = [ step |-> "answered", verdict |-> verdict, applied |-> Nothing ]
  PROVE  /\ answer \in Answer /\ answer.verdict = verdict /\ answer.step = "answered"
         /\ answer.applied = Nothing
         /\ answer.applied.posted = None /\ answer.applied.hash = None /\ answer.applied.tags = None
<1>1. PICK posted \in Once, hash \in Render \cup {None}, tags \in TagSet \cup {None},
           archived \in BOOLEAN \cup {None}, pinned \in BOOLEAN \cup {None} :
        posted = None /\ hash = None /\ tags = None /\ archived = None /\ pinned = None
  BY OnceIs
<1>2. answer = [ step |-> "answered", verdict |-> verdict,
                 applied |-> [ posted |-> posted, hash |-> hash, tags |-> tags,
                               archived |-> archived, pinned |-> pinned ] ]
  BY <1>1 DEF Nothing
<1>3. /\ answer \in Answer /\ answer.verdict = verdict
      /\ answer.applied.posted = posted /\ answer.applied.hash = hash /\ answer.applied.tags = tags
  BY <1>2, AnswerIs
<1> QED BY <1>1, <1>3

(* The flags of a post that may have been opened again on the way.         *)
Opened(p) ==
  \/ p.archived = post.archived /\ p.locked = post.locked /\ p.window = post.window
  \/ ~p.archived /\ ~p.locked /\ p.window = "week"

(* What stands of a call that failed half-way: the thread opened, or also  *)
(* the card drawn.                                                         *)
LEMMA HalfDoneIs ==
  ASSUME DeliveryAssumption, TypeInv, doing \in Reading, NEW p \in HalfDone, p # post
  PROVE  /\ post # None /\ p \in Post /\ p.tags = post.tags /\ Opened(p)
         /\ p.shown = post.shown \/ Head1 = "resync_card"
         /\ Head1 # "set_flags"
<1>1. ~Straight
  BY DEF HalfDone
<1>2. post # None /\ Head1 # "set_flags"
  BY <1>1 DEF Straight, Head1
<1>3. PICK old \in Post : old = post
  BY <1>2 DEF TypeInv
<1>4. PICK opened \in Post : opened = Reopened(old) /\ opened.shown = old.shown /\ opened.tags = old.tags
  BY ReopenedIs
<1>5. \/ opened.archived = old.archived /\ opened.locked = old.locked /\ opened.window = old.window
      \/ ~opened.archived /\ ~opened.locked /\ opened.window = "week"
  BY <1>4 DEF Reopened, Post
<1>6. CASE p = Reopened(post)
  BY <1>2, <1>3, <1>4, <1>5, <1>6 DEF Opened
<1>7. CASE p = Redrawn(post) /\ Head1 = "resync_card"
  <2>1. PICK shown \in Render : shown = Rendered(doing.card, doing.text)
    BY DEF Rendered, Render, Reading, Row
  <2>2. PICK controls \in BOOLEAN : controls = HasComponents(doing.card.state)
    BY DEF HasComponents, IsOpen
  <2>3. p = [ opened EXCEPT !.shown = shown, !.controls = controls ]
    BY <1>3, <1>4, <1>7, <2>1, <2>2 DEF Redrawn
  <2>4. /\ p \in Post /\ p.tags = opened.tags
        /\ p.archived = opened.archived /\ p.locked = opened.locked /\ p.window = opened.window
    BY <2>3 DEF Post
  <2> QED BY <1>2, <1>3, <1>4, <1>5, <1>7, <2>4 DEF Opened
<1> QED BY <1>1, <1>6, <1>7 DEF HalfDone, Head1

(* A call, or a read, that fails, and an answer that is lost.              *)
Stops == CallFails \/ CallRefused \/ RefreshFails \/ AnswerLost

(* The post and the tag as they are left then.                             *)
LEMMA StoppedPost ==
  ASSUME DeliveryAssumption, TypeInv, Stops
  PROVE  /\ labelTag' \in LabelTags /\ (labelTag' = labelTag \/ labelTag'.known \in {0, labelTag'.forum})
         /\ \/ post' = post
            \/ /\ post # None /\ post' \in Post /\ post'.tags = post.tags /\ Opened(post')
               /\ \/ post'.shown = post.shown
                  \/ Head1 = "resync_card" /\ (~Unused("faults")' \/ ~Unused("refusals")')
               /\ Head1 # "set_flags"
<1>1. PICK tag : tag = labelTag'
  OBVIOUS
<1>2. labelTag \in LabelTags
  BY DEF TypeInv, LabelTags
<1>3. tag = labelTag \/ tag \in LabelTagged
  BY <1>1 DEF Stops, CallFails, CallRefused, RefreshFails, AnswerLost, Broken
<1>4. tag \in LabelTags /\ (tag = labelTag \/ tag.known \in {0, tag.forum})
  BY <1>2, <1>3, LabelTaggedIs
<1>5. PICK p : p = post'
  OBVIOUS
<1>6. CASE AnswerLost
  BY <1>1, <1>4, <1>6 DEF AnswerLost
<1>7. CASE CallFails \/ CallRefused \/ RefreshFails
  <2>1. doing # None /\ doing.step = "read" /\ p \in HalfDone
    BY <1>5, <1>7 DEF CallFails, CallRefused, RefreshFails, Broken, Handling
  <2>2. doing \in Reading
    BY <2>1 DEF TypeInv, Answer
  <2>3. p # post => /\ post # None /\ p \in Post /\ p.tags = post.tags /\ Opened(p)
                    /\ p.shown = post.shown \/ Head1 = "resync_card"
                    /\ Head1 # "set_flags"
    BY <2>1, <2>2, HalfDoneIs
  <2>4. Head1 = "resync_card" => ~Unused("faults")' \/ ~Unused("refusals")'
    <3>1. Head1 = "resync_card" => ~RefreshFails
      BY DEF RefreshFails, Handling, Head1
    <3>2. CallFails => left'["faults"] # Budget["faults"]
      BY SpendIs DEF CallFails, Sources
    <3>3. CallRefused => left'["refusals"] # Budget["refusals"]
      BY SpendIs DEF CallRefused, Sources
    <3> QED BY <1>7, <3>1, <3>2, <3>3 DEF Unused
  <2>5. labelTag' \in LabelTags /\ (labelTag' = labelTag \/ labelTag'.known \in {0, labelTag'.forum})
    BY ONLY <1>1, <1>4
  <2>6. CASE p = post
    BY ONLY <1>5, <2>5, <2>6
  <2>7. CASE p # post
    <3>1. /\ post # None /\ p \in Post /\ p.tags = post.tags /\ Opened(p) /\ Head1 # "set_flags"
          /\ p.shown = post.shown \/ Head1 = "resync_card"
      BY ONLY <2>3, <2>7
    <3>2. post' \in Post /\ post'.tags = post.tags /\ post'.shown = p.shown
      BY ONLY <1>5, <3>1
    <3>3. Opened(post')
      BY ONLY <1>5, <3>1 DEF Opened
    <3>4. \/ post'.shown = post.shown
          \/ Head1 = "resync_card" /\ (~Unused("faults")' \/ ~Unused("refusals")')
      BY ONLY <2>4, <3>1, <3>2
    <3>5. /\ post # None /\ post' \in Post /\ post'.tags = post.tags /\ Opened(post')
          /\ Head1 # "set_flags"
      BY ONLY <3>1, <3>2, <3>3
    <3> QED BY ONLY <2>5, <3>4, <3>5
  <2> QED BY ONLY <2>6, <2>7
<1> QED BY <1>6, <1>7 DEF Stops

LEMMA StoppedIs ==
  ASSUME DeliveryAssumption, TypeInv, Stops
  PROVE  /\ doing # None /\ batch # <<>> /\ doing' # None /\ doing' \in Answer /\ IsAnswered' /\ ~IsRead'
         /\ doing'.verdict \in {"retry", "drop"} /\ doing'.applied = Nothing
         /\ doing'.applied.posted = None /\ doing'.applied.hash = None /\ doing'.applied.tags = None
         /\ doing'.verdict = "drop" =>
              ~Unused("refusals")' \/ (~Unused("refreshes")' /\ Head1 \in {"post_card", "set_tags"})
         /\ IsRead \/ ~Unused("crashes")'
         /\ \A s \in Sources \ {"faults", "refusals", "refreshes", "crashes"} : left'[s] = left[s]
         /\ left'["crashes"] = left["crashes"] \/ ~Unused("crashes")'
         /\ left' \in [ Sources -> Nat ] /\ \A s \in Sources : left'[s] <= Budget[s]
         /\ UNCHANGED <<policy, alert, held, row, plan, queue, batch>>
<1>1. PICK answer : answer = doing'
  OBVIOUS
<1>2. PICK verdict \in {"done", "drop", "retry"} :
        /\ verdict = IF CallFails \/ AnswerLost THEN "retry" ELSE "drop"
        /\ answer = [ step |-> "answered", verdict |-> verdict, applied |-> Nothing ]
  <2>1. CASE CallFails \/ AnswerLost
    BY <1>1, <2>1 DEF CallFails, AnswerLost, Answered, Broken
  <2>2. CASE ~(CallFails \/ AnswerLost)
    BY <1>1, <2>2 DEF Stops, CallRefused, RefreshFails, Answered, Dropped, Broken
  <2> QED BY <2>1, <2>2
<1>3. /\ answer \in Answer /\ answer.verdict = verdict /\ answer.step = "answered" /\ answer.applied = Nothing
      /\ answer.applied.posted = None /\ answer.applied.hash = None /\ answer.applied.tags = None
  BY <1>2, NothingIs
<1>4. answer # None
  BY <1>3 DEF DeliveryAssumption
<1>5. doing # None /\ batch # <<>>
  BY DEF Stops, CallFails, CallRefused, RefreshFails, AnswerLost, Broken, Handling, TypeInv
<1>6. UNCHANGED <<policy, alert, held, row, plan, queue, batch>>
  BY DEF Stops, CallFails, CallRefused, RefreshFails, AnswerLost, Broken, store
<1>7. "crashes" \in Sources \ {"faults", "refusals", "refreshes"}
  BY DEF Sources
<1>8. CASE CallFails
  <2>1. /\ left' \in [ Sources -> Nat ] /\ \A s \in Sources : left'[s] <= Budget[s]
        /\ \A s \in Sources \ {"faults"} : left'[s] = left[s]
    BY <1>8, SpendIs DEF CallFails, Sources
  <2>2. doing.step = "read"
    BY <1>8 DEF CallFails, Broken
  <2> QED BY <1>1, <1>2, <1>3, <1>4, <1>5, <1>6, <1>7, <1>8, <2>1, <2>2 DEF IsRead, IsAnswered
<1>9. CASE CallRefused
  <2>1. /\ left' \in [ Sources -> Nat ] /\ \A s \in Sources : left'[s] <= Budget[s]
        /\ \A s \in Sources \ {"refusals"} : left'[s] = left[s]
        /\ left'["refusals"] # Budget["refusals"]
    BY <1>9, SpendIs DEF CallRefused, Sources
  <2>2. doing.step = "read"
    BY <1>9 DEF CallRefused, Broken
  <2> QED BY <1>1, <1>2, <1>3, <1>4, <1>5, <1>6, <1>7, <1>9, <2>1, <2>2 DEF IsRead, IsAnswered, Unused
<1>10. CASE RefreshFails
  <2>1. /\ left' \in [ Sources -> Nat ] /\ \A s \in Sources : left'[s] <= Budget[s]
        /\ \A s \in Sources \ {"refreshes"} : left'[s] = left[s]
        /\ left'["refreshes"] # Budget["refreshes"]
    BY <1>10, SpendIs DEF RefreshFails, Sources
  <2>2. doing.step = "read" /\ Head1 \in {"post_card", "set_tags"}
    BY <1>10 DEF RefreshFails, Handling, Head1
  <2> QED BY <1>1, <1>2, <1>3, <1>4, <1>5, <1>6, <1>7, <1>10, <2>1, <2>2 DEF IsRead, IsAnswered, Unused
<1>11. CASE AnswerLost
  <2>1. /\ left' \in [ Sources -> Nat ] /\ \A s \in Sources : left'[s] <= Budget[s]
        /\ \A s \in Sources \ {"crashes"} : left'[s] = left[s]
        /\ left'["crashes"] # Budget["crashes"]
    BY <1>11, SpendIs DEF AnswerLost, Sources
  <2> QED BY <1>1, <1>2, <1>3, <1>4, <1>5, <1>6, <1>11, <2>1 DEF IsRead, IsAnswered, Unused
<1> QED BY <1>8, <1>9, <1>10, <1>11 DEF Stops

LEMMA ReadRowIs ==
  ASSUME DeliveryAssumption, TypeInv, ReadRow
  PROVE  /\ doing = None /\ batch # <<>> /\ doing' \in Reading /\ doing' # None /\ IsRead' /\ ~IsAnswered'
         /\ doing'.card = row /\ doing'.text = alert.text /\ doing'.known = labelTag.known
<1>1. PICK read : read = [ step |-> "read", card |-> row, text |-> alert.text, known |-> labelTag.known ]
  OBVIOUS
<1>2. row \in Row /\ alert.text \in Nat /\ labelTag.known \in Nat
  BY DEF TypeInv, Alert, DeliveryAssumption
<1>3. /\ read \in Reading /\ read.step = "read"
      /\ read.card = row /\ read.text = alert.text /\ read.known = labelTag.known
  BY <1>1, <1>2 DEF Reading
<1>4. read # None
  BY <1>3 DEF DeliveryAssumption
<1>5. doing' = read /\ doing = None /\ batch # <<>>
  BY <1>1 DEF ReadRow
<1> QED BY <1>3, <1>4, <1>5 DEF IsRead, IsAnswered

(* What a handler leaves behind, in terms of the variables.                *)
LEMMA HandleIs ==
  ASSUME DeliveryAssumption, TypeInv, ReadInv, Handle
  PROVE  /\ \E kind \in Kinds : Handling(kind) /\ Did(kind, doing', row', post', labelTag')
         /\ UNCHANGED <<policy, alert, held, plan, queue, batch, left>>
         /\ doing # None /\ IsRead /\ ~IsAnswered /\ doing \in Reading /\ batch # <<>>
         /\ doing' # None /\ IsAnswered' /\ ~IsRead' /\ doing' \in Answer
         /\ SameColumns(doing.card, row)
<1>1. PICK kind \in Kinds : Handling(kind) /\ Did(kind, doing', row', post', labelTag')
  BY HandledDid
<1>2. doing # None /\ IsRead /\ ~IsAnswered /\ doing \in Reading /\ batch # <<>> /\ SameColumns(doing.card, row)
  BY <1>1, AtHandler DEF IsRead
<1>3. doing' \in Answer
  BY <1>1 DEF Did
<1>4. doing'.step = "answered"
  BY <1>3 DEF Answer
<1>5. doing' # None
  BY <1>3 DEF DeliveryAssumption
<1> QED BY <1>1, <1>2, <1>3, <1>4, <1>5, HandledDid DEF IsRead, IsAnswered

LEMMA DeleteTagIs ==
  ASSUME DeliveryAssumption, TypeInv, DeleteTag
  PROVE  /\ labelTag' \in LabelTags /\ post' \in Post \cup {None}
         /\ post' # None => post # None /\ post'.shown = post.shown
         /\ post' # None /\ post.tags # None => post'.tags # None /\ post'.tags.state = post.tags.state
<1>1. labelTag' \in LabelTags
  BY DEF TypeInv, DeleteTag, LabelTags
<1>2. CASE post = None \/ post.tags = None
  BY <1>1, <1>2 DEF TypeInv, DeleteTag
<1>3. CASE post # None /\ post.tags # None
  <2>1. PICK p \in Post : p = post
    BY <1>3 DEF TypeInv
  <2>2. PICK tags \in TagSet : tags = p.tags
    BY <1>3, <2>1 DEF Post
  <2>3. PICK fewer \in TagSet : fewer = [ tags EXCEPT !.label = 0 ] /\ fewer.state = tags.state
    <3>1. [ tags EXCEPT !.label = 0 ] \in TagSet /\ [ tags EXCEPT !.label = 0 ].state = tags.state
      BY DEF TagSet
    <3> QED BY <3>1
  <2>4. PICK message : message = [ p EXCEPT !.tags = fewer ]
    OBVIOUS
  <2>5. message \in Post /\ message.shown = p.shown /\ message.tags = fewer
    BY <2>4 DEF Post
  <2>6. post' = message
    BY <1>3, <2>1, <2>2, <2>3, <2>4 DEF DeleteTag
  <2> QED BY <1>1, <1>3, <2>1, <2>2, <2>3, <2>5, <2>6 DEF DeliveryAssumption
<1> QED BY <1>1, <1>2, <1>3

LEMMA IdleArchiveIs ==
  ASSUME DeliveryAssumption, TypeInv, IdleArchive
  PROVE  post # None /\ post' \in Post /\ post'.shown = post.shown /\ post'.tags = post.tags
<1>1. PICK p \in Post : p = post /\ post # None
  BY DEF TypeInv, IdleArchive
<1>2. PICK message : message = [ p EXCEPT !.archived = TRUE ]
  OBVIOUS
<1>3. message \in Post /\ message.shown = p.shown /\ message.tags = p.tags
  BY <1>2 DEF Post
<1> QED BY <1>1, <1>2, <1>3 DEF IdleArchive

(* Types are kept by every step.                                           *)
LEMMA TypeStep ==
  ASSUME DeliveryAssumption, TypeInv, ReadInv, [Next]_vars
  PROVE  TypeInv'
<1>1. labelTag \in LabelTags
  BY DEF TypeInv, LabelTags
<1>2. ASSUME NEW new \in Incoming, Deliver(new)
      PROVE  TypeInv'
  <2>1. left' \in [ Sources -> Nat ] /\ \A s \in Sources : left'[s] <= Budget[s]
    BY <1>2, SpendIs DEF Deliver, Sources
  <2>2. new \in Alert /\ plan' \in Plan
    BY <1>2, DeliverIs
  <2> QED BY <1>2, <2>1, <2>2 DEF TypeInv, Deliver
<1>3. CASE ApplyDecision
  BY <1>3, ApplyIs DEF TypeInv, ApplyDecision
<1>4. CASE Acknowledge
  <2>1. left' \in [ Sources -> Nat ] /\ \A s \in Sources : left'[s] <= Budget[s]
    BY <1>4, SpendIs DEF Acknowledge, Sources
  <2>2. queue' \in Seq(Queued)
    BY <1>4, EnqueuedIs DEF Acknowledge
  <2>3. row' \in Row
    BY <1>4, AcknowledgeIs
  <2>4. held' \in BOOLEAN
    BY <1>4 DEF Acknowledge
  <2> QED BY <1>4, <2>1, <2>2, <2>3, <2>4 DEF TypeInv, Acknowledge
<1>5. ASSUME NEW kind \in {"resync_card", "escalate"}, Request(kind)
      PROVE  TypeInv'
  <2>1. left' \in [ Sources -> Nat ] /\ \A s \in Sources : left'[s] <= Budget[s]
    BY <1>5, SpendIs DEF Request, Sources
  <2>2. queue' \in Seq(Queued)
    BY <1>5, EnqueuedIs DEF Request
  <2> QED BY <1>5, <2>1, <2>2 DEF TypeInv, Request
<1>6. CASE Tick
  BY <1>6, TickIs DEF TypeInv, Tick, store
<1>7. CASE Claim
  BY <1>7, ClaimIs DEF TypeInv, Claim, store
<1>8. CASE ReadRow
  BY <1>8, ReadRowIs DEF TypeInv, ReadRow, store
<1>9. CASE Handle
  <2>1. PICK kind \in Kinds : Did(kind, doing', row', post', labelTag')
    BY <1>9, HandleIs
  <2>2. post' \in Post \cup {None} /\ labelTag' \in LabelTags
    BY <2>1 DEF Did
  <2>3. row' \in Row
    <3>1. row \in Row
      BY DEF TypeInv
    <3>2. row' = row \/ row' = [ row EXCEPT !.state = "orphaned", !.posted = FALSE, !.pinned = FALSE ]
      BY <2>1 DEF Did
    <3>3. [ row EXCEPT !.state = "orphaned", !.posted = FALSE, !.pinned = FALSE ] \in Row
      BY <3>1 DEF Row, States
    <3> QED BY <3>1, <3>2, <3>3
  <2>4. /\ UNCHANGED <<policy, alert, held, plan, queue, batch, left>>
        /\ doing' \in Answer /\ batch # <<>>
    BY <1>9, HandleIs
  <2> QED BY <2>2, <2>3, <2>4 DEF TypeInv, LabelTags
<1>10. CASE Settle
  <2>1. row' \in Row
    <3>1. row \in Row /\ doing \in Answer
      BY <1>10 DEF TypeInv, Settle, Reading
    <3>2. PICK card \in Row, applied \in Applied : card = row /\ applied = doing.applied
      BY <3>1 DEF Answer
    <3>3. ApplyToCard(card, applied) \in Row
      BY AppliedIs
    <3> QED BY <1>10, <3>2, <3>3 DEF Settle
  <2>2. queue' \in Seq(Queued) /\ batch' \in Seq(Queued)
    BY <1>10, SettleIs
  <2> QED BY <1>10, <2>1, <2>2 DEF TypeInv, Settle
<1>11. CASE Crash
  <2>1. left' \in [ Sources -> Nat ] /\ \A s \in Sources : left'[s] <= Budget[s]
    BY <1>11, SpendIs DEF Crash, Sources
  <2>2. queue' \in Seq(Queued) /\ batch' = <<>> /\ doing' = None
    BY <1>11, CrashIs
  <2>3. batch' \in Seq(Queued)
    BY <2>2, EmptySeq
  <2> QED BY <1>11, <2>1, <2>2, <2>3 DEF TypeInv, Crash, store
<1>12. CASE Stops
  <2>1. post \in Post \cup {None} /\ (post' = post \/ post' \in Post)
    BY <1>12, StoppedPost DEF TypeInv
  <2> QED BY <1>12, <2>1, StoppedIs, StoppedPost DEF TypeInv, LabelTags
<1>13. CASE IdleArchive
  <2>1. left' \in [ Sources -> Nat ] /\ \A s \in Sources : left'[s] <= Budget[s]
    BY <1>13, SpendIs DEF IdleArchive, Sources
  <2>2. post' \in Post
    BY <1>13, IdleArchiveIs
  <2> QED BY <1>13, <2>1, <2>2 DEF TypeInv, IdleArchive, store
<1>14. CASE DeleteTag
  <2>1. left' \in [ Sources -> Nat ] /\ \A s \in Sources : left'[s] <= Budget[s]
    BY <1>14, SpendIs DEF DeleteTag, Sources
  <2>2. labelTag' \in LabelTags /\ post' \in Post \cup {None}
    BY <1>14, DeleteTagIs
  <2> QED BY <1>14, <2>1, <2>2 DEF TypeInv, DeleteTag, store, LabelTags
<1>15. CASE DeleteMessage
  <2>1. left' \in [ Sources -> Nat ] /\ \A s \in Sources : left'[s] <= Budget[s]
    BY <1>15, SpendIs DEF DeleteMessage, Sources
  <2> QED BY <1>15, <2>1 DEF TypeInv, DeleteMessage, store
<1>16. CASE UNCHANGED vars
  BY <1>16 DEF TypeInv, vars
<1> QED BY <1>2, <1>3, <1>4, <1>5, <1>6, <1>7, <1>8, <1>9, <1>10, <1>11, <1>12, <1>13, <1>14, <1>15, <1>16
        DEF Next, Work, Stops

-----------------------------------------------------------------------------
(* What the worker has read, and the one post.                             *)
LEMMA SettledIs ==
  ASSUME DeliveryAssumption, TypeInv, Settle
  PROVE  /\ batch \in Seq(Queued) /\ batch # <<>> /\ row \in Row
         /\ doing # None /\ doing \in Answer /\ IsAnswered /\ ~IsRead /\ doing' = None
         /\ UNCHANGED <<policy, alert, held, plan, post, labelTag, left>>
         /\ \A kind : Has(batch, kind) <=> Head1 = kind \/ Has(batch', kind)
         /\ \A kind : AtMostOne(batch, kind) => AtMostOne(batch', kind) /\ (Head1 = kind => ~Has(batch', kind))
         /\ row'.state = row.state /\ row'.posted = Coalesce(doing.applied.posted, row.posted)
         /\ row'.hash = Coalesce(doing.applied.hash, row.hash)
         /\ row'.tags = Coalesce(doing.applied.tags, row.tags)
<1>1. /\ batch \in Seq(Queued) /\ batch # <<>> /\ row \in Row
      /\ doing # None /\ doing \in Answer /\ IsAnswered /\ ~IsRead /\ doing' = None
      /\ UNCHANGED <<policy, alert, held, plan, post, labelTag, left>>
  BY DEF TypeInv, Settle, Reading, IsAnswered, IsRead
<1>2. PICK b \in Seq(Queued) : b = batch /\ b # <<>>
  BY <1>1
<1>3. PICK first, rest : first = Head(b) /\ rest = Tail(b)
  OBVIOUS
<1>4. /\ \A kind : Has(b, kind) <=> first.kind = kind \/ Has(rest, kind)
      /\ \A kind : AtMostOne(b, kind) => AtMostOne(rest, kind)
      /\ \A kind : AtMostOne(b, kind) /\ first.kind = kind => ~Has(rest, kind)
  BY <1>2, <1>3, FirstAndRest
<1>5. Head1 = first.kind /\ batch' = rest
  BY <1>2, <1>3, SettleIs DEF Head1
<1>6. PICK card \in Row, applied \in Applied : card = row /\ applied = doing.applied
  BY <1>1 DEF Answer
<1>7. PICK after : after = ApplyToCard(card, applied)
  OBVIOUS
<1>8. /\ after.state = card.state /\ after.posted = Coalesce(applied.posted, card.posted)
      /\ after.hash = Coalesce(applied.hash, card.hash) /\ after.tags = Coalesce(applied.tags, card.tags)
  BY <1>7, AppliedIs
<1>9. row' = after
  BY <1>6, <1>7 DEF Settle
<1> QED BY <1>1, <1>2, <1>4, <1>5, <1>6, <1>8, <1>9

(* Nobody but the worker itself writes the columns it has read.            *)
LEMMA ReadStep ==
  ASSUME DeliveryAssumption, TypeInv, ReadInv, [Next]_vars
  PROVE  ReadInv'
<1>1. CASE UNCHANGED <<row, batch, doing>>
  BY <1>1 DEF ReadInv, IsRead, IsAnswered, Head1
<1>2. ASSUME UNCHANGED <<batch, doing>>, SameColumns(row, row')
      PROVE  ReadInv'
  BY <1>2 DEF ReadInv, IsRead, IsAnswered, Head1, SameColumns
<1>3. CASE doing' = None
  BY <1>3 DEF ReadInv, IsRead, IsAnswered
<1>4. CASE ReadRow
  <2>1. doing'.card = row /\ ~IsAnswered' /\ row' = row
    BY <1>4, ReadRowIs DEF ReadRow, store
  <2> QED BY <2>1 DEF ReadInv, SameColumns
<1>5. CASE Handle
  <2>1. PICK kind \in Kinds : Did(kind, doing', row', post', labelTag')
    BY <1>5, HandleIs
  <2>2. batch' = batch /\ ~IsRead'
    BY <1>5, HandleIs
  <2>3. PICK answer : answer = doing'
    OBVIOUS
  <2>4. /\ Head1 = kind
        /\ answer.verdict # "done" => answer.applied = Nothing
        /\ answer.applied.posted # None => kind = "post_card" /\ answer.applied.hash # None
        /\ answer.applied.hash # None => kind \in {"post_card", "edit_card", "resync_card"}
    BY <2>1, <2>3 DEF Did
  <2> QED BY <2>2, <2>3, <2>4 DEF ReadInv, Head1
<1>6. CASE Stops
  BY <1>6, StoppedIs DEF ReadInv
<1>7. CASE ApplyDecision
  BY <1>2, <1>7, ApplyIs DEF ApplyDecision
<1>8. CASE Acknowledge
  BY <1>2, <1>8, AcknowledgeIs DEF Acknowledge
<1>9. CASE Claim
  BY <1>3, <1>9, ClaimIs
<1>10. CASE Settle \/ Crash
  BY <1>3, <1>10 DEF Settle, Crash
<1>11. CASE \/ \E new \in Incoming : Deliver(new)
            \/ \E kind \in {"resync_card", "escalate"} : Request(kind)
            \/ Tick \/ IdleArchive \/ DeleteTag \/ DeleteMessage \/ UNCHANGED vars
  BY <1>1, <1>11 DEF Deliver, Request, Tick, IdleArchive, DeleteTag, DeleteMessage, store, vars
<1> QED BY <1>4, <1>5, <1>6, <1>7, <1>8, <1>9, <1>10, <1>11 DEF Next, Work, Stops

(* No step queues a second post_card, or one for a card that is posted.    *)
LEMMA OnePostStep ==
  ASSUME DeliveryAssumption, TypeInv, ReadInv, OnePostInv, [Next]_vars
  PROVE  OnePostInv'
<1>1. CASE UNCHANGED <<row, plan, queue, batch>>
  BY <1>1 DEF OnePostInv, PostPending
<1>2. ASSUME NEW new \in Incoming, Deliver(new)
      PROVE  OnePostInv'
  <2>1. plan'.card = row /\ UNCHANGED <<row, queue, batch>>
    BY <1>2, DeliverIs DEF Deliver
  <2> QED BY <2>1 DEF OnePostInv, PostPending
<1>3. CASE ApplyDecision
  <2>1. /\ SameColumns(row, row') /\ (row'.state = "orphaned" => row.state = "orphaned")
        /\ Has(queue', "post_card") => Has(queue, "post_card")
        /\ AtMostOne(queue, "post_card") => AtMostOne(queue', "post_card")
        /\ plan' = None /\ batch' = batch
    BY <1>3, ApplyIs DEF ApplyDecision
  <2> QED BY <2>1 DEF OnePostInv, PostPending, SameColumns
<1>4. CASE Acknowledge
  <2>1. SameColumns(row, row') /\ (row'.state = "orphaned" => row.state = "orphaned")
    BY <1>4, AcknowledgeIs
  <2>2. /\ Has(queue', "post_card") => Has(queue, "post_card")
        /\ AtMostOne(queue, "post_card") => AtMostOne(queue', "post_card")
    BY <1>4, EnqueuedIs DEF Acknowledge
  <2>3. UNCHANGED <<plan, batch>>
    BY <1>4 DEF Acknowledge
  <2> QED BY <2>1, <2>2, <2>3 DEF OnePostInv, PostPending, SameColumns
<1>5. ASSUME NEW kind \in {"resync_card", "escalate"}, Request(kind)
      PROVE  OnePostInv'
  <2>1. /\ Has(queue', "post_card") => Has(queue, "post_card")
        /\ AtMostOne(queue, "post_card") => AtMostOne(queue', "post_card")
    BY <1>5, EnqueuedIs DEF Request
  <2>2. UNCHANGED <<row, plan, batch>>
    BY <1>5 DEF Request
  <2> QED BY <2>1, <2>2 DEF OnePostInv, PostPending
<1>6. CASE Tick
  <2>1. /\ Has(queue', "post_card") => Has(queue, "post_card")
        /\ AtMostOne(queue, "post_card") => AtMostOne(queue', "post_card")
    BY <1>6, TickIs
  <2>2. UNCHANGED <<row, plan, batch>>
    BY <1>6 DEF Tick, store
  <2> QED BY <2>1, <2>2 DEF OnePostInv, PostPending
<1>7. CASE Claim
  <2>1. /\ Has(queue, "post_card") <=> Has(queue', "post_card") \/ Has(batch', "post_card")
        /\ AtMostOne(queue, "post_card") =>
              AtMostOne(queue', "post_card") /\ AtMostOne(batch', "post_card")
              /\ ~(Has(queue', "post_card") /\ Has(batch', "post_card"))
    BY <1>7, ClaimIs
  <2>2. UNCHANGED <<row, plan>>
    BY <1>7 DEF Claim, store
  <2> QED BY <2>1, <2>2 DEF OnePostInv, PostPending
<1>8. CASE Crash
  <2>1. /\ Has(queue', "post_card") <=> Has(batch, "post_card") \/ Has(queue, "post_card")
        /\ AtMostOne(queue, "post_card") /\ AtMostOne(batch, "post_card")
           /\ ~(Has(queue, "post_card") /\ Has(batch, "post_card")) => AtMostOne(queue', "post_card")
        /\ batch' = <<>>
    BY <1>8, CrashIs
  <2>2. UNCHANGED <<row, plan>>
    BY <1>8 DEF Crash, store
  <2>3. ~Has(<<>>, "post_card") /\ AtMostOne(<<>>, "post_card")
    BY DEF Has, AtMostOne
  <2> QED BY <2>1, <2>2, <2>3 DEF OnePostInv, PostPending
<1>9. CASE Handle
  <2>1. PICK kind \in Kinds : Did(kind, doing', row', post', labelTag')
    BY <1>9, HandleIs
  <2>2. UNCHANGED <<plan, queue, batch>> /\ SameColumns(doing.card, row)
    BY <1>9, HandleIs
  <2>3. PICK card : card = row'
    OBVIOUS
  <2>4. card = row \/ (row.posted /\ card = [ row EXCEPT !.state = "orphaned", !.posted = FALSE, !.pinned = FALSE ])
    BY <2>1, <2>2, <2>3 DEF Did, SameColumns
  <2>5. card = row \/ (row.posted /\ ~card.posted)
    <3>1. row \in Row
      BY DEF TypeInv
    <3> QED BY <2>4, <3>1 DEF Row
  <2> QED BY <2>2, <2>3, <2>5 DEF OnePostInv, PostPending
<1>10. CASE Settle
  <2>1. row \in Row /\ doing \in Answer /\ IsAnswered
    BY <1>10, SettledIs
  <2>2. /\ Has(batch, "post_card") <=> Head1 = "post_card" \/ Has(batch', "post_card")
        /\ AtMostOne(batch, "post_card") => AtMostOne(batch', "post_card")
        /\ AtMostOne(batch, "post_card") /\ Head1 = "post_card" => ~Has(batch', "post_card")
    BY <1>10, SettledIs
  <2>3. /\ Has(queue', "post_card") <=> Has(queue, "post_card") \/ (doing.verdict = "retry" /\ Head1 = "post_card")
        /\ AtMostOne(queue, "post_card") /\ ~(Has(queue, "post_card") /\ Head1 = "post_card")
             => AtMostOne(queue', "post_card")
    BY <1>10, SettleIs
  <2>4. PICK card \in Row, applied \in Applied : card = row /\ applied = doing.applied
    BY <2>1 DEF Answer
  <2>5. /\ row'.state = card.state /\ row'.posted = Coalesce(applied.posted, card.posted)
    BY <1>10, <2>4, SettledIs
  <2>6. applied.posted # None => Head1 = "post_card" /\ doing.verdict # "retry"
    <3>1. doing.verdict # "done" => applied.posted = None
      BY <2>1, <2>4 DEF ReadInv, Nothing
    <3> QED BY <2>1, <2>4, <3>1 DEF ReadInv
  <2>7. plan' = plan
    BY <1>10 DEF Settle
  <2>8. applied.posted = None => row'.posted = card.posted
    BY <2>5 DEF Coalesce
  <2>9. Head1 = "post_card" => Has(batch, "post_card")
    BY <2>2
  <2>10. CASE applied.posted = None
    BY <2>2, <2>3, <2>4, <2>5, <2>7, <2>8, <2>10 DEF OnePostInv, PostPending
  <2>11. CASE applied.posted # None
    BY <2>2, <2>3, <2>4, <2>5, <2>6, <2>7, <2>9, <2>11 DEF OnePostInv, PostPending
  <2> QED BY <2>10, <2>11
<1>11. CASE ReadRow \/ IdleArchive \/ DeleteTag \/ DeleteMessage \/ UNCHANGED vars
  BY <1>1, <1>11 DEF ReadRow, IdleArchive, DeleteTag, DeleteMessage, store, vars
<1>12. CASE Stops
  BY <1>1, <1>12, StoppedIs
<1> QED BY <1>2, <1>3, <1>4, <1>5, <1>6, <1>7, <1>8, <1>9, <1>10, <1>11, <1>12 DEF Next, Work, Stops

-----------------------------------------------------------------------------
(* What is still to be read for stays so until it is read for.             *)
LEMMA AheadStep ==
  ASSUME DeliveryAssumption, TypeInv, ReadInv, [Next]_vars, NEW kind, Ahead(kind), ~(ReadRow /\ Head1 = kind)
  PROVE  Ahead(kind)'
<1>1. AheadOf(queue, batch, doing, kind)
  BY DEF Ahead
<1>2. SUFFICES AheadOf(queue', batch', doing', kind)
  BY DEF Ahead
<1>3. ASSUME UNCHANGED batch, Has(queue, kind) => Has(queue', kind), doing = None <=> doing' = None
      PROVE  AheadOf(queue', batch', doing', kind)
  BY <1>1, <1>3 DEF AheadOf
<1>4. CASE UNCHANGED <<queue, batch, doing>>
  BY <1>3, <1>4
<1>5. CASE ApplyDecision
  BY <1>3, <1>5, ApplyIs DEF ApplyDecision
<1>6. CASE Acknowledge
  <2>1. Has(queue, kind) => Has(queue', kind)
    BY <1>6, EnqueuedIs DEF Acknowledge
  <2> QED BY <1>3, <1>6, <2>1 DEF Acknowledge
<1>7. ASSUME NEW k \in {"resync_card", "escalate"}, Request(k)
      PROVE  AheadOf(queue', batch', doing', kind)
  <2>1. Has(queue, kind) => Has(queue', kind)
    BY <1>7, EnqueuedIs DEF Request
  <2> QED BY <1>3, <1>7, <2>1 DEF Request
<1>8. CASE Tick
  BY <1>3, <1>8, TickIs DEF Tick
<1>9. CASE Handle
  <2>1. UNCHANGED <<queue, batch>> /\ doing # None /\ doing' # None
    BY <1>9, HandleIs
  <2> QED BY <1>3, <2>1
<1>10. CASE Stops
  <2>1. UNCHANGED <<queue, batch>> /\ doing # None /\ doing' # None
    BY <1>10, StoppedIs
  <2> QED BY <1>3, <2>1
<1>11. CASE Claim
  <2>1. /\ batch = <<>> /\ doing' = None
        /\ Has(queue, kind) <=> Has(queue', kind) \/ Has(batch', kind)
    BY <1>11, ClaimIs
  <2>2. Has(queue, kind)
    BY <1>1, <2>1, AheadOfNone
  <2> QED BY <2>1, <2>2, IdleAheadIs
<1>12. CASE Crash
  <2>1. Has(queue', kind) <=> Has(batch, kind) \/ Has(queue, kind)
    BY <1>12, CrashIs
  <2>2. Has(queue, kind) \/ Has(batch, kind)
    BY <1>1 DEF AheadOf, Has
  <2> QED BY <2>1, <2>2 DEF AheadOf
<1>13. CASE ReadRow
  <2>1. PICK b \in Seq(Queued) : b = batch /\ b # <<>>
    BY <1>13 DEF TypeInv, ReadRow
  <2>2. UNCHANGED <<queue, batch>>
    BY <1>13 DEF ReadRow
  <2>3. Head(b).kind # kind
    BY <1>13, <2>1 DEF Head1
  <2>4. PICK q, d, d2 : q = queue /\ d = doing /\ d2 = doing'
    OBVIOUS
  <2>5. AheadOf(q, b, d, kind) <=> Has(q, kind) \/ (d = None /\ Head(b).kind = kind) \/ Has(Tail(b), kind)
    BY <2>1, AheadIs
  <2>6. AheadOf(q, b, d2, kind) <=> Has(q, kind) \/ (d2 = None /\ Head(b).kind = kind) \/ Has(Tail(b), kind)
    BY <2>1, AheadIs
  <2> QED BY <1>1, <2>1, <2>2, <2>3, <2>4, <2>5, <2>6
<1>14. CASE Settle
  <2>1. PICK b \in Seq(Queued) : b = batch /\ b # <<>>
    BY <1>14, SettledIs
  <2>2. doing # None /\ doing' = None /\ batch' = Tail(b)
    BY <1>14, <2>1, SettledIs, SettleIs
  <2>3. PICK q, d : q = queue /\ d = doing
    OBVIOUS
  <2>4. AheadOf(q, b, d, kind) <=> Has(q, kind) \/ (d = None /\ Head(b).kind = kind) \/ Has(Tail(b), kind)
    BY <2>1, AheadIs
  <2>5. Has(queue, kind) \/ Has(batch', kind)
    BY <1>1, <2>1, <2>2, <2>3, <2>4
  <2>6. Has(queue, kind) => Has(queue', kind)
    BY <1>14, SettleIs
  <2>7. AheadOf(queue', batch', None, kind)
    BY <2>5, <2>6, IdleAheadIs
  <2> QED BY <2>2, <2>7
<1>15. CASE \/ \E new \in Incoming : Deliver(new)
            \/ IdleArchive \/ DeleteTag \/ DeleteMessage \/ UNCHANGED vars
  BY <1>4, <1>15 DEF Deliver, IdleArchive, DeleteTag, DeleteMessage, vars
<1> QED BY <1>5, <1>6, <1>7, <1>8, <1>9, <1>10, <1>11, <1>12, <1>13, <1>14, <1>15 DEF Next, Work, Stops

(* What a crash or a failed attempt leaves undone is to be read for again. *)
LEMMA AgainAhead ==
  ASSUME DeliveryAssumption, TypeInv, NEW kind, Head1 = kind, Crash \/ (Settle /\ doing.verdict = "retry")
  PROVE  Ahead(kind)'
<1>1. CASE Crash
  <2>1. PICK b \in Seq(Queued) : b = batch /\ b # <<>>
    BY <1>1 DEF TypeInv, Crash
  <2>2. Has(batch, kind)
    BY <2>1, FirstAndRest DEF Head1
  <2>3. Has(queue', kind)
    BY <1>1, <2>2, CrashIs
  <2> QED BY <2>3 DEF Ahead, AheadOf
<1>2. CASE Settle /\ doing.verdict = "retry"
  <2>1. Has(queue', kind)
    BY <1>2, SettleIs
  <2> QED BY <2>1 DEF Ahead, AheadOf
<1> QED BY <1>1, <1>2

LEMMA QueuedAhead ==
  ASSUME NEW kind, Has(queue', kind)
  PROVE  Ahead(kind)'
BY DEF Ahead, AheadOf

-----------------------------------------------------------------------------
(* What is left of the budget.                                             *)
LEMMA SpentIs ==
  ASSUME DeliveryAssumption, TypeInv, NEW source \in Sources, Spend(source)
  PROVE  ~Unused(source)' /\ \A s \in Sources : Unused(s)' => Unused(s)
<1>1. /\ left'[source] # Budget[source]
      /\ \A s \in Sources \ {source} : left'[s] = left[s]
  BY SpendIs
<1> QED BY <1>1 DEF Unused

(* What is unused after a step was unused before it.                        *)
LEMMA UnusedStep ==
  ASSUME DeliveryAssumption, TypeInv, ReadInv, [Next]_vars
  PROVE  /\ \A s \in Sources : Unused(s)' => Unused(s)
         /\ Crash \/ AnswerLost => ~Unused("crashes")'
         /\ (\E kind \in {"resync_card", "escalate"} : Request(kind)) => ~Unused("requests")'
         /\ DeleteTag => ~Unused("tags")'
         /\ Acknowledge => ~Unused("acks")'
         /\ CallFails => ~Unused("faults")'
         /\ CallRefused => ~Unused("refusals")'
         /\ RefreshFails => ~Unused("refreshes")'
<1>1. \A source \in Sources : Spend(source) => ~Unused(source)' /\ \A s \in Sources : Unused(s)' => Unused(s)
  BY SpentIs
<1>2. /\ "deliveries" \in Sources /\ "acks" \in Sources /\ "requests" \in Sources /\ "faults" \in Sources
      /\ "refusals" \in Sources /\ "refreshes" \in Sources
      /\ "crashes" \in Sources /\ "idle" \in Sources /\ "tags" \in Sources /\ "losses" \in Sources
  BY DEF Sources
<1>3. /\ Crash \/ AnswerLost => Spend("crashes")
      /\ (\E kind \in {"resync_card", "escalate"} : Request(kind)) => Spend("requests")
      /\ DeleteTag => Spend("tags")
      /\ Acknowledge => Spend("acks")
      /\ CallFails => Spend("faults")
      /\ CallRefused => Spend("refusals")
      /\ RefreshFails => Spend("refreshes")
  BY DEF Crash, AnswerLost, Request, DeleteTag, Acknowledge, CallFails, CallRefused, RefreshFails
<1>4. \A s \in Sources : Unused(s)' => Unused(s)
  <2>1. ASSUME left' = left
        PROVE  \A s \in Sources : Unused(s)' => Unused(s)
    BY <2>1 DEF Unused
  <2>2. CASE Handle \/ Settle
    BY <2>1, <2>2, HandleIs, SettledIs
  <2>3. CASE ApplyDecision \/ Tick \/ Claim \/ ReadRow \/ UNCHANGED vars
    BY <2>1, <2>3 DEF ApplyDecision, Tick, Claim, ReadRow, vars
  <2>4. CASE \E source \in Sources : Spend(source)
    BY <1>1, <2>4
  <2>5. CASE \/ \E new \in Incoming : Deliver(new)
             \/ \E kind \in {"resync_card", "escalate"} : Request(kind)
             \/ Acknowledge \/ Crash \/ Stops \/ IdleArchive \/ DeleteTag \/ DeleteMessage
    <3>1. \E source \in Sources : Spend(source)
      BY <1>2, <1>3, <2>5 DEF Deliver, Request, Acknowledge, Crash, Stops, IdleArchive, DeleteTag, DeleteMessage
    <3> QED BY <2>4, <3>1
  <2> QED BY <2>2, <2>3, <2>5 DEF Next, Work, Stops
<1> QED BY <1>1, <1>2, <1>3, <1>4

-----------------------------------------------------------------------------
(* The hash of the card's row.                                             *)
LEMMA PostIsPending ==
  ASSUME TypeInv, ReadInv, doing # None, Head1 = "post_card" \/ Landing
  PROVE  PostPending
<1>1. PICK b \in Seq(Queued) : b = batch /\ b # <<>>
  BY DEF TypeInv
<1>2. Head1 = "post_card"
  BY DEF ReadInv, Landing
<1> QED BY <1>1, <1>2, FirstAndRest DEF Head1, PostPending

LEMMA HashKept ==
  ASSUME EditUnderWay \/ HashFresh, Head1' = Head1, UNCHANGED <<alert, row, doing>>
  PROVE  EditUnderWay' \/ HashFresh'
BY DEF EditUnderWay, HashFresh, IsRead, IsAnswered, Landing, Wanted

(* A reading of the row is current when it is made.                        *)
LEMMA HashRead ==
  ASSUME DeliveryAssumption, TypeInv, ReadInv, ReadRow
  PROVE  /\ Ahead("edit_card") \/ EditUnderWay \/ HashFresh =>
              Ahead("edit_card")' \/ EditUnderWay' \/ HashFresh'
         /\ Head1 = "edit_card" => EditUnderWay'
         /\ HashFresh => HashFresh'
<1>1. /\ doing = None /\ doing' # None /\ IsRead' /\ ~IsAnswered'
      /\ doing'.card = row /\ doing'.text = alert.text
  BY ReadRowIs
<1>2. UNCHANGED <<alert, row, batch>>
  BY DEF ReadRow, store
<1>3. Head1' = Head1
  BY <1>2 DEF Head1
<1>4. Rendered(doing.card, doing.text)' = Wanted'
  BY <1>1, <1>2 DEF Rendered, Wanted
<1>5. ASSUME Head1 = "edit_card"
      PROVE  EditUnderWay'
  BY <1>1, <1>3, <1>4, <1>5 DEF EditUnderWay
<1>6. ASSUME Head1 # "edit_card", Ahead("edit_card")
      PROVE  Ahead("edit_card")'
  <2>1. [Next]_vars
    BY DEF Next, Work
  <2> QED BY <1>6, <2>1, AheadStep
<1>7. ASSUME HashFresh
      PROVE  HashFresh'
  <2>1. row'.posted => row'.hash = Wanted'
    BY <1>2, <1>7 DEF HashFresh, Wanted
  <2> QED BY <1>1, <1>4, <2>1 DEF HashFresh, Landing
<1> QED BY <1>1, <1>5, <1>6, <1>7 DEF EditUnderWay

(* A handler that read what is so now reports the hash of it, or needs to  *)
(* report none.                                                            *)
LEMMA HashHandled ==
  ASSUME DeliveryAssumption, TypeInv, ReadInv, Handle
  PROVE  (EditUnderWay => EditUnderWay') /\ (HashFresh => HashFresh')
<1>1. PICK kind \in Kinds : Did(kind, doing', row', post', labelTag')
  BY HandleIs
<1>2. /\ UNCHANGED <<alert, batch>> /\ SameColumns(doing.card, row)
      /\ doing # None /\ IsRead /\ ~IsAnswered /\ doing' # None /\ IsAnswered' /\ ~IsRead'
  BY HandleIs
<1>3. PICK answer, card : answer = doing' /\ card = row'
  OBVIOUS
<1>4. PICK read, wanted : read = Rendered(doing.card, doing.text) /\ wanted = Wanted
  OBVIOUS
<1>5. /\ Head1 = kind /\ Head1' = kind
      /\ answer.applied.posted # None => kind = "post_card" /\ answer.applied.hash # None
      /\ answer.applied.hash # None => kind \in {"post_card", "edit_card", "resync_card"}
      /\ kind = "post_card" => answer.applied.hash \in {None, read, wanted}
      /\ kind = "edit_card" /\ card.posted => Coalesce(answer.applied.hash, row.hash) = read
      /\ kind = "resync_card" => answer.applied.hash \in {None, read}
  BY <1>1, <1>2, <1>3, <1>4 DEF Did, Head1
<1>6. card = row \/ (~card.posted /\ kind # "post_card")
  <2>1. row \in Row
    BY DEF TypeInv
  <2>2. card = row \/ (kind # "post_card" /\ card = [ row EXCEPT !.state = "orphaned", !.posted = FALSE, !.pinned = FALSE ])
    BY <1>1, <1>3 DEF Did
  <2> QED BY <2>1, <2>2 DEF Row
<1>7. Landing' => answer.applied.posted # None
  BY <1>3 DEF Landing
<1>8. card = row => Wanted' = wanted
  BY <1>2, <1>3, <1>4 DEF Wanted, Rendered
<1>9. ASSUME EditUnderWay
      PROVE  EditUnderWay'
  <2>1. kind = "edit_card" /\ (row.posted => read = wanted)
    BY <1>2, <1>4, <1>5, <1>9 DEF EditUnderWay
  <2>2. card.posted => card = row /\ Coalesce(answer.applied.hash, card.hash) = Wanted'
    BY <1>5, <1>6, <1>8, <2>1
  <2> QED BY <1>2, <1>3, <1>5, <2>1, <2>2 DEF EditUnderWay
<1>10. ASSUME HashFresh
       PROVE  HashFresh'
  <2>1. /\ row.posted => row.hash = wanted
        /\ kind \in {"post_card", "edit_card", "resync_card"} /\ (kind = "post_card" \/ row.posted) => read = wanted
    BY <1>2, <1>4, <1>5, <1>10 DEF HashFresh
  <2>2. card.posted => card.hash = Wanted'
    BY <1>6, <1>8, <2>1
  <2>3. card.posted \/ Landing' => card = row /\ (card.posted \/ kind = "post_card")
    BY <1>5, <1>6, <1>7
  <2>4. ASSUME card.posted \/ Landing'
        PROVE  answer.applied.hash \in {None, Wanted'}
    <3>1. card = row /\ Wanted' = wanted /\ (row.posted \/ kind = "post_card")
      BY <1>8, <2>3, <2>4
    <3>2. CASE kind = "post_card"
      BY <1>5, <2>1, <3>1, <3>2
    <3>3. CASE kind = "resync_card"
      BY <1>5, <2>1, <3>1, <3>3
    <3>4. CASE kind = "edit_card"
      BY <1>5, <2>1, <3>1, <3>4 DEF Coalesce
    <3>5. CASE kind \notin {"post_card", "edit_card", "resync_card"}
      BY <1>5, <3>5
    <3> QED BY <3>2, <3>3, <3>4, <3>5
  <2> QED BY <1>2, <1>3, <2>2, <2>4 DEF HashFresh
<1> QED BY <1>9, <1>10

(* What the answer reported is in the row then.                            *)
LEMMA HashSettled ==
  ASSUME DeliveryAssumption, TypeInv, ReadInv, Settle
  PROVE  /\ EditUnderWay /\ doing.verdict = "retry" => Ahead("edit_card")'
         /\ HashFresh \/ (EditUnderWay /\ doing.verdict # "retry") => HashFresh'
<1>1. /\ doing # None /\ IsAnswered /\ doing' = None /\ UNCHANGED alert
      /\ row'.state = row.state /\ row'.posted = Coalesce(doing.applied.posted, row.posted)
      /\ row'.hash = Coalesce(doing.applied.hash, row.hash)
  BY SettledIs
<1>2. PICK applied, card : applied = doing.applied /\ card = row'
  OBVIOUS
<1>3. Wanted' = Wanted
  BY <1>1 DEF Wanted, Rendered
<1>4. /\ applied.posted # None => Head1 = "post_card" /\ applied.hash # None
      /\ applied.posted = None => card.posted = row.posted
  BY <1>1, <1>2 DEF ReadInv, Coalesce
<1>5. EditUnderWay /\ doing.verdict = "retry" => Ahead("edit_card")'
  BY AgainAhead DEF EditUnderWay
<1>6. ASSUME EditUnderWay, doing.verdict # "retry"
      PROVE  card.posted => card.hash = Wanted'
  <2>1. Head1 = "edit_card"
    BY <1>6 DEF EditUnderWay
  <2>2. card.posted => row.posted
    BY <1>4, <2>1
  <2> QED BY <1>1, <1>2, <1>3, <1>6, <2>2 DEF EditUnderWay
<1>7. ASSUME HashFresh
      PROVE  card.posted => card.hash = Wanted'
  <2>1. card.posted => row.posted \/ Landing
    BY <1>1, <1>2, <1>4 DEF Landing
  <2>2. row.posted \/ Landing => applied.hash \in {None, Wanted}
    BY <1>1, <1>2, <1>7 DEF HashFresh
  <2>3. CASE applied.hash = None
    BY <1>1, <1>2, <1>3, <1>4, <1>7, <2>3 DEF HashFresh, Coalesce
  <2>4. CASE applied.hash # None
    BY <1>1, <1>2, <1>3, <2>1, <2>2, <2>4 DEF Coalesce
  <2> QED BY <2>3, <2>4
<1>8. (card.posted => card.hash = Wanted') => HashFresh'
  BY <1>1, <1>2 DEF HashFresh, IsRead, IsAnswered, Landing
<1> QED BY <1>5, <1>6, <1>7, <1>8

(* The card's hash stays current, or the edit that makes it so stays ahead.*)
LEMMA HashStep ==
  ASSUME DeliveryAssumption, TypeInv, ReadInv, OnePostInv, HashInv, [Next]_vars
  PROVE  HashInv'
<1>0. (Unused("refusals")' => Unused("refusals")) /\ (CallRefused => ~Unused("refusals")')
  BY UnusedStep DEF Sources
<1>1. SUFFICES ASSUME Unused("refusals")', plan' = None
               PROVE  Ahead("edit_card")' \/ EditUnderWay' \/ HashFresh'
  BY DEF HashInv
<1>2. CASE ApplyDecision
  <2>1. \/ plan.card.state = "orphaned" /\ UNCHANGED <<row, queue>>
        \/ Has(queue', "edit_card")
    BY <1>2, ApplyIs
  <2>2. CASE Has(queue', "edit_card")
    BY <2>2, QueuedAhead
  <2>3. CASE plan.card.state = "orphaned" /\ UNCHANGED <<row, queue>>
    <3>1. plan # None /\ UNCHANGED <<row, batch, doing>>
      BY <1>2, <2>3 DEF ApplyDecision
    <3>2. ~row.posted /\ ~PostPending
      BY <2>3, <3>1 DEF OnePostInv
    <3>3. ~(doing # None /\ (Head1 = "post_card" \/ Landing))
      BY <3>2, PostIsPending
    <3>4. Head1' = Head1 /\ (Landing' <=> Landing)
      BY <3>1 DEF Head1, Landing, IsAnswered
    <3> QED BY <3>1, <3>2, <3>3, <3>4 DEF HashFresh, IsRead, IsAnswered
  <2> QED BY <2>1, <2>2, <2>3
<1>3. CASE \E new \in Incoming : Deliver(new)
  BY <1>1, <1>3, DeliverIs
<1>4. ASSUME plan = None
      PROVE  Ahead("edit_card")' \/ EditUnderWay' \/ HashFresh'
  <2>1. Ahead("edit_card") \/ EditUnderWay \/ HashFresh
    BY <1>0, <1>1, <1>4 DEF HashInv
  <2>2. CASE ReadRow
    BY <2>1, <2>2, HashRead
  <2>3. CASE ~ReadRow /\ Ahead("edit_card")
    BY <2>3, AheadStep
  <2>4. ASSUME EditUnderWay \/ HashFresh, ~ReadRow
        PROVE  Ahead("edit_card")' \/ EditUnderWay' \/ HashFresh'
    <3>1. CASE UNCHANGED <<alert, row, doing, batch>>
      BY <2>4, <3>1, HashKept DEF Head1
    <3>2. CASE Acknowledge
      <4>1. Has(queue', "edit_card")
        BY <3>2, EnqueuedIs DEF Acknowledge
      <4> QED BY <4>1, QueuedAhead
    <3>3. CASE Handle
      BY <2>4, <3>3, HashHandled
    <3>4. CASE Settle
      BY <2>4, <3>4, HashSettled
    <3>5. CASE Claim
      <4>1. doing = None /\ doing' = None /\ UNCHANGED <<alert, row>>
        BY <3>5, ClaimIs DEF Claim, store
      <4> QED BY <2>4, <4>1 DEF EditUnderWay, HashFresh, IsRead, IsAnswered, Landing, Wanted
    <3>6. CASE Crash
      <4>1. doing' = None /\ UNCHANGED <<alert, row>>
        BY <3>6 DEF Crash, store
      <4>2. CASE EditUnderWay
        BY <3>6, <4>2, AgainAhead DEF EditUnderWay
      <4>3. CASE HashFresh
        BY <4>1, <4>3 DEF HashFresh, IsRead, IsAnswered, Landing, Wanted
      <4> QED BY <2>4, <4>2, <4>3
    <3>7. CASE Stops
      <4>1. /\ doing' # None /\ IsAnswered' /\ ~IsRead' /\ doing # None
            /\ doing'.verdict # "retry" => Head1 \in {"post_card", "set_tags"}
            /\ doing'.applied.posted = None /\ doing'.applied.hash = None
            /\ UNCHANGED <<alert, row, batch>>
        BY <1>1, <3>7, StoppedIs
      <4>2. Wanted' = Wanted /\ Head1' = Head1
        BY <4>1 DEF Wanted, Head1
      <4>3. CASE EditUnderWay
        BY <4>1, <4>2, <4>3 DEF EditUnderWay
      <4>4. CASE HashFresh
        BY <4>1, <4>2, <4>4 DEF HashFresh
      <4> QED BY <2>4, <4>3, <4>4
    <3>8. CASE \/ \E kind \in {"resync_card", "escalate"} : Request(kind)
               \/ Tick \/ IdleArchive \/ DeleteTag \/ DeleteMessage \/ UNCHANGED vars
      BY <3>1, <3>8 DEF Request, Tick, IdleArchive, DeleteTag, DeleteMessage, store, vars
    <3> QED BY <1>2, <1>3, <1>1, <1>4, <2>4, <3>2, <3>3, <3>4, <3>5, <3>6, <3>7, <3>8 DEF Next, Work, ApplyDecision, Stops
  <2> QED BY <2>1, <2>2, <2>3, <2>4
<1>5. ASSUME plan # None
      PROVE  ApplyDecision \/ \E new \in Incoming : Deliver(new)
  <2>1. plan' # plan
    BY <1>1, <1>5
  <2>2. Handle => plan' = plan
    BY HandleIs
  <2>3. Stops \/ Settle => plan' = plan
    BY StoppedIs, SettledIs
  <2> QED BY <2>1, <2>2, <2>3
          DEF Next, Work, Stops, Acknowledge, Request, Tick, Claim, ReadRow, Crash, IdleArchive, DeleteTag,
              DeleteMessage, store, vars
<1> QED BY <1>2, <1>3, <1>4, <1>5

-----------------------------------------------------------------------------
(* What the message shows.                                                 *)
LEMMA ResyncStep ==
  ASSUME DeliveryAssumption, TypeInv, ReadInv, ResyncRequested, [Next]_vars
  PROVE  ResyncRequested'
<1>1. /\ Unused("requests")' => Unused("requests")
      /\ (\E kind \in {"resync_card", "escalate"} : Request(kind)) => ~Unused("requests")'
  BY UnusedStep DEF Sources
<1>2. SUFFICES ASSUME Unused("requests")', Has(queue', "resync_card") \/ Has(batch', "resync_card")
               PROVE  Has(queue, "resync_card") \/ Has(batch, "resync_card")
  BY <1>1 DEF ResyncRequested
<1>3. CASE UNCHANGED <<queue, batch>>
  BY <1>2, <1>3
<1>4. CASE ApplyDecision
  <2>1. Has(queue', "resync_card") => Has(queue, "resync_card")
    BY <1>4, ApplyIs
  <2> QED BY <1>2, <1>4, <2>1 DEF ApplyDecision
<1>5. CASE Acknowledge
  <2>1. Has(queue', "resync_card") => Has(queue, "resync_card")
    BY <1>5, EnqueuedIs DEF Acknowledge
  <2> QED BY <1>2, <1>5, <2>1 DEF Acknowledge
<1>6. CASE Tick
  BY <1>2, <1>6, TickIs DEF Tick
<1>7. CASE Claim
  BY <1>2, <1>7, ClaimIs
<1>8. CASE Crash
  <2>1. ~Has(batch', "resync_card")
    BY <1>8, CrashIs DEF Has
  <2> QED BY <1>2, <1>8, <2>1, CrashIs
<1>9. CASE Settle
  BY <1>2, <1>9, SettleIs, SettledIs
<1>10. CASE Handle \/ Stops
  BY <1>3, <1>10, HandleIs, StoppedIs
<1>11. CASE \/ \E new \in Incoming : Deliver(new)
            \/ ReadRow \/ IdleArchive \/ DeleteTag \/ DeleteMessage \/ UNCHANGED vars
  BY <1>3, <1>11 DEF Deliver, ReadRow, IdleArchive, DeleteTag, DeleteMessage, vars
<1> QED BY <1>1, <1>2, <1>4, <1>5, <1>6, <1>7, <1>8, <1>9, <1>10, <1>11 DEF Next, Work, Stops

LEMMA TagKnownStep ==
  ASSUME DeliveryAssumption, TypeInv, ReadInv, TagKnown, [Next]_vars
  PROVE  TagKnown'
<1>1. /\ Unused("tags")' => Unused("tags")
      /\ DeleteTag => ~Unused("tags")'
  BY UnusedStep DEF Sources
<1>2. SUFFICES ASSUME Unused("tags")'
               PROVE  labelTag'.known \in {0, labelTag'.forum} /\ (IsRead' => doing'.known \in {0, labelTag'.forum})
  BY DEF TagKnown
<1>3. labelTag.known \in {0, labelTag.forum} /\ (IsRead => doing.known \in {0, labelTag.forum})
  BY <1>1, <1>2 DEF TagKnown
<1>4. CASE UNCHANGED <<labelTag, doing>>
  BY <1>3, <1>4 DEF IsRead
<1>5. CASE ReadRow
  <2>1. doing'.known = labelTag.known /\ labelTag' = labelTag
    BY <1>5, ReadRowIs DEF ReadRow
  <2> QED BY <1>3, <2>1
<1>6. CASE Handle
  <2>1. PICK kind \in Kinds : Did(kind, doing', row', post', labelTag')
    BY <1>6, HandleIs
  <2>2. labelTag' = labelTag \/ labelTag'.known \in {0, labelTag'.forum}
    BY <2>1 DEF Did
  <2>3. ~IsRead'
    BY <1>6, HandleIs
  <2> QED BY <1>3, <2>2, <2>3
<1>7. CASE Settle \/ Claim \/ Crash
  <2>1. doing' = None /\ labelTag' = labelTag
    BY <1>7, ClaimIs DEF Settle, Claim, Crash
  <2> QED BY <1>3, <2>1 DEF IsRead
<1>8. CASE Stops
  BY <1>3, <1>8, StoppedIs, StoppedPost
<1>9. CASE \/ \E new \in Incoming : Deliver(new)
           \/ \E kind \in {"resync_card", "escalate"} : Request(kind)
           \/ ApplyDecision \/ Acknowledge \/ Tick \/ IdleArchive \/ DeleteMessage \/ UNCHANGED vars
  BY <1>4, <1>9 DEF Deliver, Request, ApplyDecision, Acknowledge, Tick, IdleArchive, DeleteMessage, vars
<1> QED BY <1>1, <1>2, <1>5, <1>6, <1>7, <1>8, <1>9 DEF Next, Work, Stops

(* A handler that draws reports the hash of what it drew, unless a deleted *)
(* tag stops it half-way.                                                  *)
LEMMA ShownHandled ==
  ASSUME DeliveryAssumption, TypeInv, ReadInv, ShownInv, Handle
  PROVE  HashShown'
<1>1. PICK kind \in Kinds : Handling(kind) /\ Did(kind, doing', row', post', labelTag')
  BY HandleIs
<1>2. /\ UNCHANGED <<batch, left>>
      /\ doing # None /\ IsRead /\ ~IsAnswered /\ IsAnswered' /\ batch # <<>> /\ doing \in Reading
  BY HandleIs
<1>3. PICK answer, card, message : answer = doing' /\ card = row' /\ message = post'
  OBVIOUS
<1>4. SUFFICES ASSUME NoLoss, message # None, card.posted \/ Landing'
               PROVE  message.shown = Coalesce(answer.applied.hash, card.hash)
  BY <1>2, <1>3 DEF HashShown, NoLoss, Unused, HashAnswered
<1>5. /\ Head1 = kind
      /\ card = row \/ message = None
      /\ answer.applied.posted # None => answer.applied.hash # None
      /\ answer.applied.hash # None => message.shown = answer.applied.hash
      /\ answer.applied.hash = None => post # None
           /\ (message.shown = post.shown
               \/ (kind = "resync_card" /\ UnknownTag(DesiredTags(doing.card, doing.known), labelTag)))
  <2>1. PICK tag, applied : tag = labelTag' /\ applied = answer.applied
    OBVIOUS
  <2>2. Did(kind, answer, card, message, tag)
    BY <1>1, <1>3, <2>1
  <2>3. /\ Head1 = kind /\ (card = row \/ message = None)
        /\ applied.posted # None => applied.hash # None
        /\ applied.hash # None => message.shown = applied.hash
    BY <2>1, <2>2 DEF Did
  <2>4. applied.hash = None => post # None
    BY <1>4, <2>1, <2>2 DEF Did
  <2>5. applied.hash = None => message.shown = post.shown \/ (kind = "resync_card" /\ UnknownTag(DesiredTags(doing.card, doing.known), labelTag))
    BY <1>4, <2>1, <2>2 DEF Did
  <2> QED BY <2>1, <2>3, <2>4, <2>5
<1>6. CASE answer.applied.hash # None
  BY <1>5, <1>6 DEF Coalesce
<1>7. CASE answer.applied.hash = None
  <2>1. card = row /\ row.posted /\ post # None
    BY <1>3, <1>4, <1>5, <1>7 DEF Landing
  <2>2. post.shown = row.hash
    BY <1>2, <1>4, <2>1 DEF ShownInv, HashShown, HashAnswered
  <2>3. ~(kind = "resync_card" /\ UnknownTag(DesiredTags(doing.card, doing.known), labelTag))
    <3>1. SUFFICES ASSUME kind = "resync_card"
                   PROVE  ~UnknownTag(DesiredTags(doing.card, doing.known), labelTag)
      OBVIOUS
    <3>2. PICK b \in Seq(Queued) : b = batch /\ b # <<>>
      BY <1>2 DEF TypeInv
    <3>3. Has(batch, "resync_card")
      BY <1>5, <3>1, <3>2, FirstAndRest DEF Head1
    <3>4. Unused("tags")
      BY <1>4, <3>3 DEF ShownInv, ResyncRequested, NoLoss
    <3>5. doing.known \in {0, labelTag.forum}
      BY <1>2, <3>4 DEF ShownInv, TagKnown
    <3>6. PICK tags : tags = DesiredTags(doing.card, doing.known)
      OBVIOUS
    <3>7. tags # None => tags.label \in {0, labelTag.forum}
      BY <3>5, <3>6 DEF DesiredTags
    <3> QED BY <3>6, <3>7 DEF UnknownTag
  <2> QED BY <1>5, <1>7, <2>1, <2>2, <2>3 DEF Coalesce
<1> QED BY <1>6, <1>7

(* The message shows what the row says it shows, or will say.              *)
LEMMA HashShownStep ==
  ASSUME DeliveryAssumption, TypeInv, ReadInv, ShownInv, [Next]_vars
  PROVE  HashShown'
<1>1. NoLoss' => NoLoss
  BY UnusedStep DEF NoLoss, Sources
<1>2. CASE UNCHANGED <<row, doing, post>>
  BY <1>1, <1>2 DEF ShownInv, HashShown, HashAnswered, Landing, IsAnswered
<1>3. ASSUME SameColumns(row, row'), UNCHANGED <<doing, post>>
      PROVE  HashShown'
  BY <1>1, <1>3 DEF ShownInv, HashShown, HashAnswered, Landing, IsAnswered, SameColumns
<1>4. CASE Handle
  BY <1>4, ShownHandled
<1>5. CASE CallFails \/ CallRefused \/ RefreshFails
  <2>1. /\ IsRead /\ IsAnswered' /\ UNCHANGED row
        /\ doing'.applied.posted = None /\ doing'.applied.hash = None
    <3>1. IsRead
      BY <1>5 DEF CallFails, CallRefused, RefreshFails, Broken, Handling, IsRead
    <3> QED BY <1>5, <3>1, StoppedIs DEF Stops
  <2>2. ~IsAnswered
    BY <2>1 DEF IsRead, IsAnswered
  <2>3. NoLoss /\ post # None /\ row.posted => post.shown = row.hash
    BY <2>2 DEF ShownInv, HashShown, HashAnswered
  <2>4. Head1 = "resync_card" => ~Unused("requests")'
    <3>1. PICK b \in Seq(Queued) : b = batch /\ b # <<>>
      BY <1>5, StoppedIs DEF TypeInv, Stops
    <3>2. Head1 = "resync_card" => Has(batch, "resync_card")
      BY <3>1, FirstAndRest DEF Head1
    <3>3. Unused("requests")' => Unused("requests")
      BY UnusedStep DEF Sources
    <3> QED BY <3>2, <3>3 DEF ShownInv, ResyncRequested
  <2>5. NoLoss' => post' = post \/ (post # None /\ post'.shown = post.shown)
    BY <1>5, <2>4, StoppedPost DEF Stops, NoLoss
  <2> QED BY <1>1, <2>1, <2>3, <2>5 DEF HashShown, HashAnswered, Landing, Coalesce
<1>6. CASE Settle
  <2>1. /\ IsAnswered /\ doing' = None /\ UNCHANGED post
        /\ row'.posted = Coalesce(doing.applied.posted, row.posted)
        /\ row'.hash = Coalesce(doing.applied.hash, row.hash)
    BY <1>6, SettledIs
  <2>2. row'.posted => row.posted \/ Landing
    BY <2>1 DEF Landing, Coalesce
  <2>3. NoLoss /\ post # None /\ (row.posted \/ Landing) => post.shown = row'.hash
    BY <2>1 DEF ShownInv, HashShown, HashAnswered
  <2> QED BY <1>1, <2>1, <2>2, <2>3 DEF HashShown, HashAnswered, IsAnswered, Landing
<1>7. CASE ReadRow
  <2>1. doing = None /\ ~IsAnswered' /\ UNCHANGED <<row, post>>
    BY <1>7, ReadRowIs DEF ReadRow, store
  <2> QED BY <1>1, <2>1 DEF ShownInv, HashShown, HashAnswered, IsAnswered, Landing
<1>8. CASE Claim
  <2>1. doing = None /\ doing' = None /\ UNCHANGED <<row, post>>
    BY <1>8, ClaimIs DEF Claim, store
  <2> QED BY <1>2, <2>1
<1>9. CASE Crash \/ AnswerLost
  <2>1. ~NoLoss'
    BY <1>9, UnusedStep DEF NoLoss
  <2> QED BY <2>1 DEF HashShown
<1>10. CASE DeleteMessage
  BY <1>10 DEF DeleteMessage, HashShown
<1>11. CASE IdleArchive \/ DeleteTag
  <2>1. /\ post' # None => post # None /\ post'.shown = post.shown
        /\ UNCHANGED <<row, doing>>
    BY <1>11, IdleArchiveIs, DeleteTagIs DEF IdleArchive, DeleteTag, store
  <2> QED BY <1>1, <2>1 DEF ShownInv, HashShown, HashAnswered, IsAnswered, Landing
<1>12. CASE ApplyDecision
  BY <1>3, <1>12, ApplyIs DEF ApplyDecision
<1>13. CASE Acknowledge
  BY <1>3, <1>13, AcknowledgeIs DEF Acknowledge
<1>14. CASE \/ \E new \in Incoming : Deliver(new)
            \/ \E kind \in {"resync_card", "escalate"} : Request(kind)
            \/ Tick \/ UNCHANGED vars
  BY <1>2, <1>14 DEF Deliver, Request, Tick, store, vars
<1> QED BY <1>4, <1>5, <1>6, <1>7, <1>8, <1>9, <1>10, <1>11, <1>12, <1>13, <1>14 DEF Next, Work, Stops

-----------------------------------------------------------------------------
(* The tags of a forum post.                                               *)
LEMMA TagsKept ==
  ASSUME RetagUnderWay \/ TagsFresh, Head1' = Head1, UNCHANGED <<row, doing>>, post' # None => post # None
  PROVE  RetagUnderWay' \/ TagsFresh'
BY DEF RetagUnderWay, TagsFresh, IsRead, IsAnswered, Landing, RightTag

LEMMA TagsRead ==
  ASSUME DeliveryAssumption, TypeInv, ReadInv, ReadRow, Ahead("set_tags") \/ RetagUnderWay \/ TagsFresh
  PROVE  Ahead("set_tags")' \/ RetagUnderWay' \/ TagsFresh'
<1>1. /\ doing = None /\ doing' # None /\ IsRead' /\ ~IsAnswered' /\ doing'.card = row
  BY ReadRowIs
<1>2. UNCHANGED <<row, batch, post>>
  BY DEF ReadRow, store
<1>3. Head1' = Head1
  BY <1>2 DEF Head1
<1>4. TagState(doing'.card.state) = TagState(row'.state)
  BY <1>1, <1>2
<1>5. CASE Head1 = "set_tags"
  BY <1>1, <1>3, <1>4, <1>5 DEF RetagUnderWay
<1>6. CASE Head1 # "set_tags" /\ Ahead("set_tags")
  <2>1. [Next]_vars
    BY DEF Next, Work
  <2> QED BY <1>6, <2>1, AheadStep
<1>7. CASE TagsFresh
  <2>1. row'.posted /\ post' # None => RightTag(row.tags)' /\ ~Landing'
    BY <1>1, <1>2, <1>7 DEF TagsFresh, RightTag, Landing
  <2> QED BY <1>1, <1>4, <2>1 DEF TagsFresh, Landing
<1> QED BY <1>1, <1>5, <1>6, <1>7 DEF RetagUnderWay

(* A handler that read the state as it is sets the tag of that state.      *)
LEMMA TagsHandled ==
  ASSUME DeliveryAssumption, TypeInv, ReadInv, OnePostInv, Handle, policy.forum, RetagUnderWay \/ TagsFresh
  PROVE  RetagUnderWay' \/ TagsFresh'
<1>1. PICK kind \in Kinds : Did(kind, doing', row', post', labelTag')
  BY HandleIs
<1>2. /\ UNCHANGED batch
      /\ doing # None /\ IsRead /\ ~IsAnswered /\ doing' # None /\ IsAnswered' /\ ~IsRead'
  BY HandleIs
<1>3. PICK answer, card, message, tag : answer = doing' /\ card = row' /\ message = post' /\ tag = labelTag'
  OBVIOUS
<1>4. Did(kind, answer, card, message, tag)
  BY <1>1, <1>3
<1>5. PICK applied, read, now : /\ applied = answer.applied
                                /\ read = TagState(doing.card.state) /\ now = TagState(row.state)
  OBVIOUS
<1>6. /\ Head1 = kind /\ Head1' = kind
      /\ applied.posted # None => kind = "post_card"
      /\ message # None /\ post = None => applied.posted # None
      /\ applied.tags # None => kind \in {"post_card", "resync_card", "set_tags"} /\ applied.tags.state \in {read, now}
      /\ kind = "resync_card" /\ applied.tags # None => applied.tags.state = read
      /\ applied.posted # None => applied.tags # None
  BY <1>2, <1>4, <1>5 DEF Did, Head1
<1>7. kind = "set_tags" /\ card.posted /\ message # None =>
        Coalesce(applied.tags, row.tags) # None /\ Coalesce(applied.tags, row.tags).state \in {read, now}
  BY <1>4, <1>5 DEF Did
<1>8. card = row \/ (~card.posted /\ kind # "post_card")
  <2>1. row \in Row
    BY DEF TypeInv
  <2>2. card = row \/ (kind # "post_card" /\ card = [ row EXCEPT !.state = "orphaned", !.posted = FALSE, !.pinned = FALSE ])
    BY <1>4 DEF Did
  <2> QED BY <2>1, <2>2 DEF Row
<1>9. Landing' => applied.posted # None
  BY <1>3, <1>5 DEF Landing
<1>10. \A tags : card = row => (RightTag(tags)' <=> tags # None /\ tags.state = now)
  BY <1>3, <1>5 DEF RightTag
<1>11. kind = "post_card" => ~row.posted
  <2>1. kind = "post_card" => PostPending
    BY <1>2, <1>6, PostIsPending
  <2> QED BY <2>1 DEF OnePostInv
<1>12. CASE RetagUnderWay
  <2>1. kind = "set_tags" /\ (row.posted => read = now)
    BY <1>2, <1>5, <1>6, <1>12 DEF RetagUnderWay
  <2>2. card.posted /\ message # None => RightTag(Coalesce(applied.tags, row.tags))'
    <3>1. SUFFICES ASSUME card.posted, message # None
                   PROVE  RightTag(Coalesce(applied.tags, row.tags))'
      OBVIOUS
    <3>2. card = row /\ read = now
      BY <1>8, <2>1, <3>1
    <3>3. PICK tags : tags = Coalesce(applied.tags, row.tags)
      OBVIOUS
    <3>4. tags # None /\ tags.state = now
      BY <1>7, <2>1, <3>1, <3>2, <3>3
    <3>5. Coalesce(applied.tags, row.tags)' = tags
      BY <1>3, <3>2, <3>3 DEF Coalesce
    <3>6. row'.state = row.state
      BY <1>3, <3>2
    <3> QED BY <1>5, <3>4, <3>5, <3>6 DEF RightTag
  <2> QED BY <1>2, <1>3, <1>5, <1>6, <1>8, <2>1, <2>2 DEF RetagUnderWay, RightTag, Coalesce
<1>13. CASE TagsFresh
  <2>1. /\ row.posted /\ post # None => row.tags # None /\ row.tags.state = now
        /\ kind \in {"post_card", "resync_card", "set_tags"} /\ (kind = "post_card" \/ row.posted) => read = now
    BY <1>2, <1>5, <1>6, <1>13 DEF TagsFresh, RightTag
  <2>2. card.posted /\ message # None => RightTag(row.tags)'
    <3>1. SUFFICES ASSUME card.posted, message # None
                   PROVE  RightTag(row.tags)'
      OBVIOUS
    <3>2. card = row /\ row.posted
      BY <1>8, <3>1
    <3>3. post # None
      BY <1>6, <1>11, <3>1, <3>2
    <3>4. row' = row
      BY <1>3, <3>2
    <3> QED BY <1>5, <2>1, <3>2, <3>3, <3>4 DEF RightTag
  <2>3. ASSUME card.posted \/ Landing', applied.tags # None
        PROVE  applied.tags.state = now /\ row'.state = row.state
    <3>1. card = row /\ (row.posted \/ kind = "post_card")
      BY <1>6, <1>8, <1>9, <2>3
    <3>2. read = now
      BY <1>6, <2>1, <2>3, <3>1
    <3> QED BY <1>3, <1>6, <2>3, <3>1, <3>2
  <2>4. Landing' => applied.tags # None
    BY <1>6, <1>9
  <2>5. IsAnswered' /\ (row'.posted \/ Landing') /\ doing'.applied.tags # None => RightTag(doing.applied.tags)'
    BY <1>3, <1>5, <2>3 DEF RightTag
  <2> QED BY <1>2, <1>3, <1>5, <2>2, <2>4, <2>5 DEF TagsFresh
<1> QED BY <1>12, <1>13

LEMMA TagsSettled ==
  ASSUME DeliveryAssumption, TypeInv, ReadInv, Settle, RetagUnderWay \/ TagsFresh
  PROVE  Ahead("set_tags")' \/ TagsFresh'
<1>1. /\ doing # None /\ IsAnswered /\ doing' = None /\ UNCHANGED post
      /\ row'.state = row.state /\ row'.posted = Coalesce(doing.applied.posted, row.posted)
      /\ row'.tags = Coalesce(doing.applied.tags, row.tags)
  BY SettledIs
<1>2. PICK applied, card : applied = doing.applied /\ card = row'
  OBVIOUS
<1>3. /\ applied.posted # None => Head1 = "post_card"
      /\ applied.posted = None => card.posted = row.posted
  BY <1>1, <1>2 DEF ReadInv, Coalesce
<1>4. SUFFICES Ahead("set_tags")' \/ (card.posted /\ post # None => card.tags # None /\ card.tags.state = TagState(row.state))
  BY <1>1, <1>2 DEF TagsFresh, IsRead, IsAnswered, Landing, RightTag
<1>5. CASE RetagUnderWay
  <2>1. CASE doing.verdict = "retry"
    BY <1>5, <2>1, AgainAhead DEF RetagUnderWay
  <2>2. CASE doing.verdict # "retry"
    <3>1. Head1 = "set_tags"
      BY <1>5 DEF RetagUnderWay
    <3>2. card.posted => row.posted
      BY <1>3, <3>1
    <3> QED BY <1>1, <1>2, <1>5, <2>2, <3>2 DEF RetagUnderWay, RightTag
  <2> QED BY <2>1, <2>2
<1>6. CASE TagsFresh
  <2>1. card.posted => row.posted \/ Landing
    BY <1>1, <1>2, <1>3 DEF Landing
  <2>2. CASE applied.tags = None
    <3>1. ~Landing
      BY <1>2, <1>6, <2>2 DEF TagsFresh
    <3> QED BY <1>1, <1>2, <1>6, <2>1, <2>2, <3>1 DEF TagsFresh, Coalesce, RightTag
  <2>3. CASE applied.tags # None
    BY <1>1, <1>2, <1>6, <2>1, <2>3 DEF TagsFresh, Coalesce, RightTag
  <2> QED BY <2>2, <2>3
<1> QED BY <1>5, <1>6

(* The state tag stays the card's, or the effect that makes it so stays    *)
(* ahead.                                                                  *)
LEMMA TagsStep ==
  ASSUME DeliveryAssumption, TypeInv, ReadInv, OnePostInv, TagsInv, [Next]_vars
  PROVE  TagsInv'
<1>1. policy' = policy
  <2>1. Handle => policy' = policy
    BY HandleIs
  <2>2. Stops \/ Settle => policy' = policy
    BY StoppedIs, SettledIs
  <2> QED BY <2>1, <2>2
          DEF Next, Work, Stops, Deliver, ApplyDecision, Acknowledge, Request, Tick, Claim, ReadRow, Crash,
              IdleArchive, DeleteTag, DeleteMessage, vars
<1>2. /\ \A s \in {"acks", "refusals", "refreshes"} : Unused(s)' => Unused(s)
      /\ Acknowledge => ~Unused("acks")'
  BY UnusedStep DEF Sources
<1>3. SUFFICES ASSUME policy.forum, \A s \in {"acks", "refusals", "refreshes"} : Unused(s)' /\ Unused(s)
               PROVE  Ahead("set_tags")' \/ RetagUnderWay' \/ TagsFresh'
  BY <1>1, <1>2 DEF TagsInv
<1>4. Ahead("set_tags") \/ RetagUnderWay \/ TagsFresh
  BY <1>3 DEF TagsInv
<1>5. CASE ReadRow
  BY <1>4, <1>5, TagsRead
<1>6. CASE ~ReadRow /\ Ahead("set_tags")
  BY <1>6, AheadStep
<1>7. ASSUME RetagUnderWay \/ TagsFresh, ~ReadRow
      PROVE  Ahead("set_tags")' \/ RetagUnderWay' \/ TagsFresh'
  <2>1. CASE UNCHANGED <<row, doing, batch>> /\ (post' # None => post # None)
    BY <1>7, <2>1, TagsKept DEF Head1
  <2>2. CASE ApplyDecision
    <3>1. row' = row \/ Has(queue', "set_tags")
      BY <1>3, <2>2, ApplyIs
    <3> QED BY <2>1, <2>2, <3>1, QueuedAhead DEF ApplyDecision
  <2>3. CASE Handle
    BY <1>3, <1>7, <2>3, TagsHandled
  <2>4. CASE Settle
    BY <1>7, <2>4, TagsSettled
  <2>5. CASE Claim
    <3>1. doing = None /\ doing' = None /\ UNCHANGED <<row, post>>
      BY <2>5, ClaimIs DEF Claim, store
    <3> QED BY <1>7, <3>1 DEF RetagUnderWay, TagsFresh, IsRead, IsAnswered, Landing, RightTag
  <2>6. CASE Crash
    <3>1. doing' = None /\ UNCHANGED <<row, post>>
      BY <2>6 DEF Crash, store
    <3>2. CASE RetagUnderWay
      BY <2>6, <3>2, AgainAhead DEF RetagUnderWay
    <3>3. CASE TagsFresh
      BY <3>1, <3>3 DEF TagsFresh, IsRead, IsAnswered, Landing, RightTag
    <3> QED BY <1>7, <3>2, <3>3
  <2>7. CASE Stops
    <3>1. /\ doing' # None /\ IsAnswered' /\ ~IsRead' /\ doing # None
          /\ doing'.verdict = "retry" /\ doing'.applied.posted = None /\ doing'.applied.tags = None
          /\ UNCHANGED <<row, batch>> /\ (post' # None => post # None)
      <4>1. Unused("refusals")' /\ Unused("refreshes")'
        BY <1>3
      <4> QED BY <2>7, <4>1, StoppedIs, StoppedPost
    <3>2. Head1' = Head1 /\ ~Landing'
      BY <3>1 DEF Head1, Landing
    <3>3. CASE RetagUnderWay
      BY <3>1, <3>2, <3>3 DEF RetagUnderWay
    <3>4. CASE TagsFresh
      BY <3>1, <3>2, <3>4 DEF TagsFresh, RightTag
    <3> QED BY <1>7, <3>3, <3>4
  <2>8. CASE IdleArchive \/ DeleteTag
    <3>1. post' # None => post # None
      BY <2>8, IdleArchiveIs, DeleteTagIs
    <3> QED BY <2>1, <2>8, <3>1 DEF IdleArchive, DeleteTag, store
  <2>9. CASE \/ \E new \in Incoming : Deliver(new)
             \/ \E kind \in {"resync_card", "escalate"} : Request(kind)
             \/ Tick \/ DeleteMessage \/ UNCHANGED vars
    BY <2>1, <2>9 DEF Deliver, Request, Tick, DeleteMessage, store, vars
  <2> QED BY <1>2, <1>3, <1>7, <2>2, <2>3, <2>4, <2>5, <2>6, <2>7, <2>8, <2>9 DEF Next, Work, Stops
<1> QED BY <1>4, <1>5, <1>6, <1>7

LEMMA TagShownHandled ==
  ASSUME DeliveryAssumption, TypeInv, ReadInv, TagShownInv, Handle, policy.forum, Unused("crashes")
  PROVE  TagShownInv'
<1>1. PICK kind \in Kinds : Did(kind, doing', row', post', labelTag')
  BY HandleIs
<1>2. doing # None /\ IsRead /\ ~IsAnswered /\ IsAnswered'
  BY HandleIs
<1>3. PICK answer, card, message, tag : answer = doing' /\ card = row' /\ message = post' /\ tag = labelTag'
  OBVIOUS
<1>4. PICK applied : applied = answer.applied
  OBVIOUS
<1>5. Did(kind, answer, card, message, tag)
  BY <1>1, <1>3
<1>6. /\ card = row \/ message = None
      /\ applied.posted # None => applied.tags # None
      /\ applied.tags # None => message.tags = applied.tags
      /\ applied.tags = None /\ message # None => post # None /\ message.tags = post.tags
  BY <1>4, <1>5 DEF Did
<1>7. SUFFICES ASSUME message # None, card.posted \/ Landing'
               PROVE  message.tags # None /\ message.tags.state = Coalesce(applied.tags, card.tags).state
  BY <1>2, <1>3, <1>4 DEF TagShownInv, TagsAnswered
<1>8. CASE applied.tags # None
  <2>1. PICK tags : tags = Coalesce(applied.tags, card.tags)
    OBVIOUS
  <2>2. tags = applied.tags
    BY <1>8, <2>1 DEF Coalesce
  <2> QED BY <1>6, <1>8, <2>1, <2>2
<1>9. CASE applied.tags = None
  <2>1. card = row /\ row.posted /\ post # None /\ message.tags = post.tags
    BY <1>3, <1>4, <1>6, <1>7, <1>9 DEF Landing
  <2>2. post.tags # None /\ post.tags.state = row.tags.state
    BY <1>2, <2>1 DEF TagShownInv, TagsAnswered
  <2>3. Coalesce(applied.tags, card.tags) = row.tags
    BY <1>9, <2>1 DEF Coalesce
  <2> QED BY <2>1, <2>2, <2>3
<1> QED BY <1>8, <1>9

(* The post has the state tag the row says it has, or will say.            *)
LEMMA TagShownStep ==
  ASSUME DeliveryAssumption, TypeInv, ReadInv, TagShownInv, [Next]_vars
  PROVE  TagShownInv'
<1>1. policy' = policy
  <2>1. Handle => policy' = policy
    BY HandleIs
  <2>2. Stops \/ Settle => policy' = policy
    BY StoppedIs, SettledIs
  <2> QED BY <2>1, <2>2
          DEF Next, Work, Stops, Deliver, ApplyDecision, Acknowledge, Request, Tick, Claim, ReadRow, Crash,
              IdleArchive, DeleteTag, DeleteMessage, vars
<1>2. (Unused("crashes")' => Unused("crashes")) /\ (Crash \/ AnswerLost => ~Unused("crashes")')
  BY UnusedStep DEF Sources
<1>3. SUFFICES ASSUME policy.forum, Unused("crashes"), ~Crash, ~AnswerLost
               PROVE  TagShownInv'
  BY <1>1, <1>2 DEF TagShownInv
<1>4. post # None /\ (row.posted \/ Landing) => post.tags # None /\ post.tags.state = TagsAnswered.state
  BY <1>3 DEF TagShownInv
<1>5. ASSUME SameColumns(row, row'), UNCHANGED doing, post' # None => post # None,
             post # None /\ post' # None /\ post.tags # None => post'.tags # None /\ post'.tags.state = post.tags.state
      PROVE  TagShownInv'
  <2>1. (row'.posted \/ Landing') => (row.posted \/ Landing)
    BY <1>5 DEF SameColumns, Landing, IsAnswered
  <2>2. TagsAnswered' = TagsAnswered
    BY <1>5 DEF SameColumns, TagsAnswered, IsAnswered
  <2> QED BY <1>4, <1>5, <2>1, <2>2 DEF TagShownInv
<1>6. CASE UNCHANGED <<row, doing, post>>
  BY <1>5, <1>6 DEF SameColumns
<1>7. CASE Handle
  BY <1>3, <1>7, TagShownHandled
<1>8. CASE CallFails \/ CallRefused \/ RefreshFails
  <2>1. /\ IsRead /\ IsAnswered' /\ UNCHANGED row
        /\ post' = post \/ (post # None /\ post'.tags = post.tags)
        /\ doing'.applied.posted = None /\ doing'.applied.tags = None
    <3>1. IsRead
      BY <1>8 DEF CallFails, CallRefused, RefreshFails, Broken, Handling, IsRead
    <3>2. Stops
      BY <1>8 DEF Stops
    <3> QED BY <3>1, <3>2, StoppedIs, StoppedPost
  <2>2. ~IsAnswered
    BY <2>1 DEF IsRead, IsAnswered
  <2>3. TagsAnswered = row.tags /\ TagsAnswered' = row.tags /\ ~Landing'
    BY <2>1, <2>2 DEF TagsAnswered, Landing, Coalesce
  <2> QED BY <1>4, <2>1, <2>3 DEF TagShownInv
<1>9. CASE Settle
  <2>1. /\ IsAnswered /\ doing' = None /\ UNCHANGED post
        /\ row'.posted = Coalesce(doing.applied.posted, row.posted)
        /\ row'.tags = Coalesce(doing.applied.tags, row.tags)
    BY <1>9, SettledIs
  <2>2. row'.posted => row.posted \/ Landing
    BY <2>1 DEF Landing, Coalesce
  <2>3. TagsAnswered' = TagsAnswered /\ ~Landing'
    BY <2>1 DEF TagsAnswered, IsAnswered, Landing
  <2> QED BY <1>4, <2>1, <2>2, <2>3 DEF TagShownInv
<1>10. CASE ReadRow
  <2>1. doing = None /\ ~IsAnswered' /\ UNCHANGED <<row, post>>
    BY <1>10, ReadRowIs DEF ReadRow, store
  <2>2. TagsAnswered' = TagsAnswered /\ ~Landing'
    BY <2>1 DEF TagsAnswered, IsAnswered, Landing
  <2> QED BY <1>4, <2>1, <2>2 DEF TagShownInv
<1>11. CASE Claim
  <2>1. doing = None /\ doing' = None /\ UNCHANGED <<row, post>>
    BY <1>11, ClaimIs DEF Claim, store
  <2> QED BY <1>6, <2>1
<1>12. CASE DeleteMessage
  BY <1>12 DEF DeleteMessage, TagShownInv
<1>13. CASE IdleArchive
  BY <1>5, <1>13, IdleArchiveIs DEF IdleArchive, store, SameColumns
<1>14. CASE DeleteTag
  BY <1>5, <1>14, DeleteTagIs DEF DeleteTag, store, SameColumns
<1>15. CASE ApplyDecision
  BY <1>5, <1>15, ApplyIs DEF ApplyDecision
<1>16. CASE Acknowledge
  BY <1>5, <1>16, AcknowledgeIs DEF Acknowledge
<1>17. CASE \/ \E new \in Incoming : Deliver(new)
            \/ \E kind \in {"resync_card", "escalate"} : Request(kind)
            \/ Tick \/ UNCHANGED vars
  BY <1>6, <1>17 DEF Deliver, Request, Tick, store, vars
<1> QED BY <1>3, <1>7, <1>8, <1>9, <1>10, <1>11, <1>12, <1>13, <1>14, <1>15, <1>16, <1>17 DEF Next, Work, Stops

-----------------------------------------------------------------------------
(* All of it together.                                                     *)
IInv == TypeInv /\ ReadInv /\ OnePostInv /\ HashInv /\ ShownInv /\ TagsInv /\ TagShownInv

(* A card that was just planned has its post_card queued and no message.   *)
LEMMA AtStart == Init => IInv
<1> SUFFICES ASSUME Init
             PROVE  IInv
  OBVIOUS
<1> USE DeliveryAssumption
<1>1. TypeInv
  BY TypeAtStart
<1>2. doing = None /\ post = None /\ batch = <<>> /\ plan = None
      /\ labelTag = [ forum |-> 0, known |-> 0, last |-> 0 ]
  BY DEF Init
<1>3. PICK state \in States : state = InitialState(alert)
  BY DEF InitialState, States
<1>4. row = NewRow(state)
  BY <1>3 DEF Init
<1>5. ~row.posted /\ row.state # "orphaned"
  <2>1. state # "orphaned"
    BY <1>3 DEF Init, InitialState
  <2> QED BY <1>4, <2>1 DEF NewRow
<1>6. PICK item \in Queued : item = Item("post_card", 0) /\ item.kind = "post_card"
  BY ItemIs DEF Kinds
<1>7. /\ queue = <<item>>
      /\ \A kind : Has(queue, kind) <=> kind = "post_card"
      /\ AtMostOne(queue, "post_card")
  <2>1. queue = <<item>>
    BY <1>6 DEF Init
  <2>2. \A kind : Has(queue, kind) <=> kind = "post_card"
    BY <1>6, <2>1, OneIs
  <2> QED BY <2>1, <2>2 DEF AtMostOne
<1>8. (\A kind : ~Has(batch, kind)) /\ AtMostOne(batch, "post_card")
  BY <1>2 DEF Has, AtMostOne
<1>9. ~IsRead /\ ~IsAnswered /\ ~Landing
  BY <1>2 DEF IsRead, IsAnswered, Landing
<1>10. ReadInv
  BY <1>9 DEF ReadInv
<1>11. OnePostInv
  BY <1>2, <1>5, <1>7, <1>8 DEF OnePostInv, PostPending
<1>12. HashInv
  BY <1>5, <1>9 DEF HashInv, HashFresh
<1>13. ShownInv
  BY <1>2, <1>7, <1>8, <1>9 DEF ShownInv, ResyncRequested, TagKnown, HashShown
<1>14. TagsInv
  BY <1>5, <1>9 DEF TagsInv, TagsFresh
<1>15. TagShownInv
  BY <1>2 DEF TagShownInv
<1> QED BY <1>1, <1>10, <1>11, <1>12, <1>13, <1>14, <1>15 DEF IInv

(* Each part of the invariant is kept with those it needs.                 *)
LEMMA AfterStep == IInv /\ [Next]_vars => IInv'
<1> SUFFICES ASSUME IInv, [Next]_vars
             PROVE  IInv'
  OBVIOUS
<1> USE DeliveryAssumption
<1>1. TypeInv /\ ReadInv /\ OnePostInv /\ HashInv /\ ShownInv /\ TagsInv /\ TagShownInv
  BY DEF IInv
<1>2. TypeInv' /\ ReadInv' /\ OnePostInv'
  BY <1>1, TypeStep, ReadStep, OnePostStep
<1>3. HashInv'
  BY <1>1, HashStep
<1>4. ShownInv'
  <2>1. ResyncRequested /\ TagKnown
    BY <1>1 DEF ShownInv
  <2>2. ResyncRequested' /\ TagKnown' /\ HashShown'
    BY <1>1, <2>1, ResyncStep, TagKnownStep, HashShownStep
  <2> QED BY <2>2 DEF ShownInv
<1>5. TagsInv' /\ TagShownInv'
  BY <1>1, TagsStep, TagShownStep
<1> QED BY <1>2, <1>3, <1>4, <1>5 DEF IInv

LEMMA AlwaysIInv == Spec => []IInv
BY AtStart, AfterStep, PTL DEF Spec

(* An item of the queue or of a batch.                                     *)
LEMMA PlacesOfQueued ==
  ASSUME NEW q \in Seq(Queued), NEW i \in DOMAIN q
  PROVE  q[i] \in Items
<1>1. i \in 1..Len(q)
  BY LenProperties
<1> QED BY <1>1, ElementOfSeq DEF Queued

(* The invariant says more of the queue, the worker and the tag than TypeOK*)
(* does.                                                                   *)
LEMMA TypesGiven ==
  ASSUME IInv
  PROVE  TypeOK
<1>1. TypeInv
  BY DEF IInv
<1>2. PICK p \in Seq(Queued), b \in Seq(Queued) : p = queue /\ b = batch
  BY <1>1 DEF TypeInv
<1>3. /\ \A i \in DOMAIN queue : queue[i] \in Items
      /\ \A i \in DOMAIN batch : batch[i] \in Items
  BY <1>2, PlacesOfQueued
<1>4. labelTag \in [ {"forum", "known", "last"} -> Nat ]
  BY <1>1 DEF TypeInv
<1> QED BY <1>1, <1>3, <1>4 DEF TypeInv, TypeOK

(* With nothing under way, no edit is ahead.                               *)
LEMMA NothingAhead ==
  ASSUME IInv, Settled
  PROVE  doing = None /\ (\A kind : ~Ahead(kind)) /\ ~IsRead /\ ~IsAnswered /\ ~Landing
<1>1. doing = None
  BY DEF IInv, TypeInv, Settled
<1>2. DOMAIN queue = {} /\ DOMAIN batch = {}
  BY DEF Settled
<1>3. \A kind : ~Ahead(kind)
  BY <1>2 DEF Ahead, AheadOf, Has
<1> QED BY <1>1, <1>3 DEF IsRead, IsAnswered, Landing

(* At rest nothing is ahead, so the hash is fresh and the message shows it.*)
LEMMA MessageGiven ==
  ASSUME IInv
  PROVE  MessageCatchesUp
<1> USE DeliveryAssumption
<1>1. SUFFICES ASSUME Visible
               PROVE  /\ Unused("refusals") => row.hash = Wanted
                      /\ NoLoss => post.shown = row.hash
  BY DEF MessageCatchesUp, Wanted, NoLoss
<1>2. Settled /\ row.posted /\ post # None
  BY <1>1 DEF Visible
<1>3. doing = None /\ ~Ahead("edit_card") /\ ~IsRead /\ ~IsAnswered
  BY <1>2, NothingAhead
<1>4. Unused("refusals") => HashFresh
  BY <1>2, <1>3 DEF IInv, HashInv, EditUnderWay, Settled
<1>5. Unused("refusals") => row.hash = Wanted
  BY <1>2, <1>4 DEF HashFresh
<1>6. NoLoss => post.shown = row.hash
  BY <1>2, <1>3 DEF IInv, ShownInv, HashShown, HashAnswered
<1> QED BY <1>5, <1>6

(* The same of the state tag.                                              *)
LEMMA TagsGiven ==
  ASSUME IInv
  PROVE  TagsFollowDecisions
<1>1. SUFFICES ASSUME Visible, policy.forum
               PROVE  /\ (\A s \in {"acks", "refusals", "refreshes"} : Unused(s))
                           => row.tags.state = TagState(row.state)
                      /\ Unused("crashes") => post.tags.state = row.tags.state
  BY DEF TagsFollowDecisions
<1>2. Settled /\ row.posted /\ post # None
  BY <1>1 DEF Visible
<1>3. doing = None /\ ~Ahead("set_tags") /\ ~IsRead /\ ~IsAnswered
  BY <1>2, NothingAhead
<1>4. (\A s \in {"acks", "refusals", "refreshes"} : Unused(s)) => TagsFresh
  BY <1>1, <1>3 DEF IInv, TagsInv, RetagUnderWay
<1>5. (\A s \in {"acks", "refusals", "refreshes"} : Unused(s)) => row.tags.state = TagState(row.state)
  BY <1>2, <1>4 DEF TagsFresh, RightTag
<1>6. Unused("crashes") => post.tags.state = row.tags.state
  BY <1>1, <1>2, <1>3 DEF IInv, TagShownInv, TagsAnswered
<1> QED BY <1>5, <1>6

(* What the queue, the worker, the row and the message hold has its type,  *)
(* for any budget and any waits; a worker never has a call under way       *)
(* without an item (dispatch.rs, the loop over a claimed lane).            *)
THEOREM DeliveryTypeCorrect == Spec => []TypeOK
<1>1. IInv => TypeOK
  BY TypesGiven
<1> QED BY <1>1, AlwaysIInv, PTL

(* Once nothing is under way for a posted card, the hash recorded is of    *)
(* the card as it is, whatever order decisions, retries, folds and crashes *)
(* came in, unless an effect was dropped for good; and the message shows   *)
(* what is recorded, unless a worker's report was lost or a requested      *)
(* redraw was cut after its edit (dispatch.rs, edit, resync, run_one).     *)
THEOREM MessageIsCurrent == Spec => []MessageCatchesUp
<1>1. IInv => MessageCatchesUp
  BY MessageGiven
<1> QED BY <1>1, AlwaysIInv, PTL

(* Once nothing is under way for a posted card of a forum whose alert      *)
(* nobody acknowledged, the state tag recorded is the card's, unless an    *)
(* effect was dropped for good or for tags that could not be read again;   *)
(* and the post has the recorded one unless a worker's report was lost     *)
(* (dispatch.rs, retag and resync_forum_tags).                             *)
THEOREM TagsAreCurrent == Spec => []TagsFollowDecisions
<1>1. IInv => TagsFollowDecisions
  BY TagsGiven
<1> QED BY <1>1, AlwaysIInv, PTL

(* What a queue holds of a set of items, whatever they are due.            *)
Holding(q, X) == \E i \in DOMAIN q : q[i] \in X

(* A set that does not tell items apart by when they are due.              *)
SameItem(a, b) == a.kind = b.kind /\ a.flags = b.flags /\ a.pin = b.pin
Timeless(X) == X \in SUBSET Queued /\ \A a \in X, b \in Queued : SameItem(a, b) => b \in X

(* What is picked out of a queue holds what was at the places picked.      *)
LEMMA ItemsAtHold ==
  ASSUME NEW q \in Seq(Queued), NEW S \in SUBSET DOMAIN q
  PROVE  \A X : Holding(ItemsAt(q, S), X) <=> \E i \in S : q[i] \in X
<1>1. Len(q) \in Nat /\ DOMAIN q = 1..Len(q)
  BY LenProperties
<1>2. /\ Cardinality(S) \in Nat
      /\ \A m \in 1..Cardinality(S) : PlaceOf(S, m) \in S
      /\ \A i \in S : \E m \in 1..Cardinality(S) : PlaceOf(S, m) = i
  BY <1>1, PlacesAre
<1> DEFINE r == ItemsAt(q, S)
<1>3. DOMAIN r = 1..Cardinality(S) /\ \A m \in 1..Cardinality(S) : r[m] = q[PlaceOf(S, m)]
  BY DEF ItemsAt
<1> HIDE DEF r
<1>4. \A X : Holding(r, X) <=> \E i \in S : q[i] \in X
  BY <1>2, <1>3 DEF Holding
<1> QED BY <1>4 DEF r

(* What two queues hold, one after the other.                              *)
LEMMA JoinedHold ==
  ASSUME NEW q \in Seq(Queued), NEW r \in Seq(Queued)
  PROVE  \A X : Holding(q \o r, X) <=> Holding(q, X) \/ Holding(r, X)
<1> DEFINE m == Len(q)
           n == Len(r)
           s == q \o r
<1>1. m \in Nat /\ DOMAIN q = 1..m /\ n \in Nat /\ DOMAIN r = 1..n
  BY LenProperties
<1>2. /\ s \in Seq(Queued) /\ Len(s) = m + n
      /\ \A i \in 1..(m + n) : s[i] = IF i <= m THEN q[i] ELSE r[i - m]
  BY ConcatProperties
<1>3. DOMAIN s = 1..(m + n)
  BY <1>2, LenProperties
<1> HIDE DEF s, m, n
<1>4. \A i \in 1..m : i \in DOMAIN s /\ s[i] = q[i]
  BY <1>1, <1>2, <1>3
<1>5. ASSUME NEW i \in 1..n
      PROVE  m + i \in DOMAIN s /\ s[m + i] = r[i]
  <2>1. m + i \in 1..(m + n) /\ ~(m + i <= m) /\ (m + i) - m = i
    BY <1>1
  <2> QED BY <1>2, <1>3, <2>1
<1>6. ASSUME NEW i \in DOMAIN s
      PROVE  (i \in 1..m /\ s[i] = q[i]) \/ (i - m \in 1..n /\ s[i] = r[i - m])
  <2>1. i \in 1..(m + n)
    BY <1>3
  <2>2. CASE i <= m
    BY <1>1, <1>2, <2>1, <2>2
  <2>3. CASE ~(i <= m)
    BY <1>1, <1>2, <2>1, <2>3
  <2> QED BY <2>2, <2>3
<1>7. \A X : Holding(s, X) <=> Holding(q, X) \/ Holding(r, X)
  BY <1>1, <1>4, <1>5, <1>6 DEF Holding
<1> QED BY <1>7 DEF s

(* A queue of one item.                                                    *)
LEMMA OneHolds ==
  ASSUME NEW item
  PROVE  \A X : Holding(<<item>>, X) <=> item \in X
BY DEF Holding

(* An empty queue.                                                         *)
LEMMA NoneHolds == \A X : ~Holding(<<>>, X)
BY DEF Holding

(* Where an item is inserted.                                              *)
LEMMA InsertParts ==
  ASSUME NEW q \in Seq(Queued), NEW item \in Queued
  PROVE  \E p \in 0..Len(q) :
           /\ p = Cardinality(Sooner(q, item.due))
           /\ SubSeq(q, 1, p) \in Seq(Queued) /\ SubSeq(q, p + 1, Len(q)) \in Seq(Queued)
           /\ \A X : Holding(q, X) <=> Holding(SubSeq(q, 1, p), X) \/ Holding(SubSeq(q, p + 1, Len(q)), X)
           /\ Insert(q, item) = (SubSeq(q, 1, p) \o <<item>>) \o SubSeq(q, p + 1, Len(q))
<1> DEFINE p == Cardinality(Sooner(q, item.due))
           a == SubSeq(q, 1, p)
           b == SubSeq(q, p + 1, Len(q))
<1>1. Len(q) \in Nat /\ DOMAIN q = 1..Len(q)
  BY LenProperties
<1>2. p \in 0..Len(q)
  <2>1. Sooner(q, item.due) \in SUBSET (1..Len(q))
    BY <1>1 DEF Sooner
  <2>2. IsFiniteSet(1..Len(q)) /\ Cardinality(1..Len(q)) = Len(q)
    BY <1>1, FS_Interval
  <2> QED BY <1>1, <2>1, <2>2, FS_Subset, FS_CardinalityType
<1>3. Insert(q, item) = (a \o <<item>>) \o b
  <2>1. (p + 1) - 1 = p
    BY <1>1, <1>2
  <2> HIDE DEF p
  <2> QED BY <2>1 DEF Insert, InsertAt, p
<1> HIDE DEF p
<1>4. a \in Seq(Queued) /\ DOMAIN a = 1..p /\ \A i \in 1..p : a[i] = q[i]
  <2>1. 1 \in 1..(Len(q) + 1) /\ (p - 1) + 1 = p
    BY <1>1, <1>2
  <2>2. /\ a \in Seq(Queued) /\ DOMAIN a = 1..((p - 1) + 1)
        /\ \A i \in 1..((p - 1) + 1) : a[i] = q[(1 + i) - 1]
    BY <1>2, <2>1, PartIs
  <2>3. \A i \in 1..p : (1 + i) - 1 = i
    BY <1>1, <1>2
  <2> HIDE DEF a
  <2> QED BY <2>1, <2>2, <2>3
<1>5. b \in Seq(Queued) /\ DOMAIN b = 1..(Len(q) - p) /\ \A i \in 1..(Len(q) - p) : b[i] = q[p + i]
  <2>1. p + 1 \in 1..(Len(q) + 1) /\ Len(q) \in 0..Len(q) /\ (Len(q) - (p + 1)) + 1 = Len(q) - p
    BY <1>1, <1>2
  <2>2. /\ b \in Seq(Queued) /\ DOMAIN b = 1..((Len(q) - (p + 1)) + 1)
        /\ \A i \in 1..((Len(q) - (p + 1)) + 1) : b[i] = q[((p + 1) + i) - 1]
    BY <2>1, PartIs
  <2>3. \A i \in 1..(Len(q) - p) : ((p + 1) + i) - 1 = p + i
    BY <1>1, <1>2
  <2> HIDE DEF b
  <2> QED BY <2>1, <2>2, <2>3
<1> HIDE DEF a, b
<1>6. ASSUME NEW X
      PROVE  Holding(q, X) <=> Holding(a, X) \/ Holding(b, X)
  <2>1. ASSUME NEW i \in DOMAIN q
        PROVE  (i \in DOMAIN a /\ a[i] = q[i]) \/ (i - p \in DOMAIN b /\ b[i - p] = q[i])
    <3>1. CASE i <= p
      BY <1>1, <1>2, <1>4, <3>1
    <3>2. CASE ~(i <= p)
      <4>1. i - p \in 1..(Len(q) - p) /\ p + (i - p) = i
        BY <1>1, <1>2, <3>2
      <4>2. b[i - p] = q[i]
        BY <1>5, <4>1
      <4> QED BY <1>5, <4>1, <4>2
    <3> QED BY <3>1, <3>2
  <2>2. \A i \in DOMAIN a : i \in DOMAIN q /\ q[i] = a[i]
    BY <1>1, <1>2, <1>4
  <2>3. \A i \in DOMAIN b : p + i \in DOMAIN q /\ q[p + i] = b[i]
    BY <1>1, <1>2, <1>5
  <2> QED BY <2>1, <2>2, <2>3 DEF Holding
<1>7. Insert(q, item) = (SubSeq(q, 1, p) \o <<item>>) \o SubSeq(q, p + 1, Len(q)) /\ p = Cardinality(Sooner(q, item.due))
  BY <1>3 DEF a, b, p
<1> QED BY <1>2, <1>4, <1>5, <1>6, <1>7 DEF a, b

(* An item inserted is there, with what was there before.                  *)
LEMMA InsertHold ==
  ASSUME NEW q \in Seq(Queued), NEW item \in Queued
  PROVE  \A X : Holding(Insert(q, item), X) <=> Holding(q, X) \/ item \in X
<1>1. PICK p \in 0..Len(q) :
           /\ SubSeq(q, 1, p) \in Seq(Queued) /\ SubSeq(q, p + 1, Len(q)) \in Seq(Queued)
           /\ \A X : Holding(q, X) <=> Holding(SubSeq(q, 1, p), X) \/ Holding(SubSeq(q, p + 1, Len(q)), X)
           /\ Insert(q, item) = (SubSeq(q, 1, p) \o <<item>>) \o SubSeq(q, p + 1, Len(q))
  BY InsertParts
<1>2. PICK a \in Seq(Queued), b \in Seq(Queued) : a = SubSeq(q, 1, p) /\ b = SubSeq(q, p + 1, Len(q))
  BY <1>1
<1>3. PICK one \in Seq(Queued) : one = <<item>>
  BY OneIs
<1>4. PICK c \in Seq(Queued) : c = a \o one
  BY JoinedIs
<1>5. \A X : Holding(c, X) <=> Holding(a, X) \/ item \in X
  <2>1. \A X : Holding(c, X) <=> Holding(a, X) \/ Holding(one, X)
    BY <1>4, JoinedHold
  <2>2. \A X : Holding(one, X) <=> item \in X
    BY <1>3, OneHolds
  <2> QED BY <2>1, <2>2
<1>6. \A X : Holding(c \o b, X) <=> Holding(c, X) \/ Holding(b, X)
  BY JoinedHold
<1>7. Insert(q, item) = c \o b
  BY <1>1, <1>2, <1>3, <1>4
<1> QED BY <1>1, <1>2, <1>5, <1>6, <1>7

(* An item due at another time is the same item.                           *)
LEMMA LaterIs ==
  ASSUME NEW X, Timeless(X), NEW item \in Queued, NEW due \in Nat
  PROVE  /\ [ item EXCEPT !.due = due ] \in Queued /\ SameItem([ item EXCEPT !.due = due ], item)
         /\ [ item EXCEPT !.due = due ] \in X <=> item \in X
<1>1. PICK later : later = [ item EXCEPT !.due = due ]
  OBVIOUS
<1>2. later \in Queued /\ SameItem(later, item) /\ SameItem(item, later)
  BY <1>1 DEF Queued, Items, SameItem
<1> QED BY <1>1, <1>2 DEF Timeless

(* An item that folds brings those of its kind that are due later forward. *)
LEMMA FoldedHold ==
  ASSUME NEW q \in Seq(Queued), NEW item \in Queued, Pending(q, item.kind)
  PROVE  \A X : Holding(Enqueue(q, item), X) <=>
           \E i \in DOMAIN q :
             IF q[i].kind = item.kind /\ ~(q[i].due <= item.due) THEN [ q[i] EXCEPT !.due = item.due ] \in X
             ELSE q[i] \in X
<1> DEFINE sooner == Sooner(q, item.due)
           folded == { i \in DOMAIN q \ sooner : q[i].kind = item.kind }
           others == DOMAIN q \ (sooner \cup folded)
           moved  == ItemsAt(q, folded)
           brought == [ n \in DOMAIN moved |-> [ moved[n] EXCEPT !.due = item.due ] ]
<1>1. Enqueue(q, item) = (ItemsAt(q, sooner) \o brought) \o ItemsAt(q, others)
  BY DEF Enqueue
<1>2. /\ sooner \in SUBSET DOMAIN q /\ folded \in SUBSET DOMAIN q /\ others \in SUBSET DOMAIN q
      /\ DOMAIN q = sooner \cup folded \cup others
      /\ \A i \in DOMAIN q : i \in folded <=> q[i].kind = item.kind /\ ~(q[i].due <= item.due)
      /\ \A i \in sooner \cup others : i \notin folded
  BY DEF Sooner
<1> HIDE DEF sooner, folded, others
<1>3. PICK a \in Seq(Queued), c \in Seq(Queued) : a = ItemsAt(q, sooner) /\ c = ItemsAt(q, others)
  BY <1>2, ItemsAtIs
<1>4. moved \in Seq(Queued)
  BY <1>2, ItemsAtIs
<1> DEFINE Sent(X) == { old \in Queued : [ old EXCEPT !.due = item.due ] \in X }
<1>5. /\ \A X : Holding(a, X) <=> \E i \in sooner : q[i] \in X
      /\ \A X : Holding(c, X) <=> \E i \in others : q[i] \in X
      /\ \A X : Holding(moved, X) <=> \E i \in folded : q[i] \in X
  BY <1>2, <1>3, ItemsAtHold
<1> HIDE DEF moved
<1>6. item.due \in Nat
  BY DEF Queued, Items
<1>7. Len(moved) \in Nat /\ DOMAIN moved = 1..Len(moved) /\ \A n \in DOMAIN moved : moved[n] \in Queued
  BY <1>4, LenProperties, ElementOfSeq
<1>8. ASSUME NEW n \in DOMAIN moved
      PROVE  [ moved[n] EXCEPT !.due = item.due ] \in Queued
  <2>1. PICK old \in Queued, due \in Nat : old = moved[n] /\ due = item.due
    BY <1>6, <1>7
  <2>2. [ old EXCEPT !.due = due ] \in Queued
    BY DEF Queued, Items
  <2> QED BY <2>1, <2>2
<1>9. /\ brought \in Seq(Queued) /\ DOMAIN brought = DOMAIN moved
      /\ \A n \in DOMAIN moved : brought[n] = [ moved[n] EXCEPT !.due = item.due ]
  <2>1. brought \in [ 1..Len(moved) -> Queued ]
    BY <1>7, <1>8
  <2>2. \A n \in DOMAIN moved : brought[n] = [ moved[n] EXCEPT !.due = item.due ]
    OBVIOUS
  <2>3. DOMAIN brought = DOMAIN moved
    OBVIOUS
  <2> HIDE DEF brought
  <2>4. PICK len \in Nat : len = Len(moved)
    BY <1>7
  <2>5. PICK r \in [ 1..len -> Queued ] : r = brought
    BY <2>1, <2>4
  <2>6. r \in Seq(Queued)
    BY SeqDef
  <2> QED BY <2>2, <2>3, <2>5, <2>6
<1> HIDE DEF brought
<1>10. \A X : Holding(brought, X) <=> Holding(moved, Sent(X))
  BY <1>7, <1>9 DEF Holding
<1>11. PICK b \in Seq(Queued) : b = brought
  BY <1>9
<1>12. PICK front \in Seq(Queued) : front = a \o b
  BY JoinedIs
<1>13. \A X : Holding(front, X) <=> Holding(a, X) \/ Holding(b, X)
  BY <1>12, JoinedHold
<1>14. \A X : Holding(front \o c, X) <=> Holding(front, X) \/ Holding(c, X)
  BY JoinedHold
<1>15. Enqueue(q, item) = front \o c
  BY <1>1, <1>3, <1>11, <1>12
<1>16. ASSUME NEW X
       PROVE  Holding(brought, X) <=> \E i \in folded : [ q[i] EXCEPT !.due = item.due ] \in X
  <2>1. \A i \in folded : q[i] \in Queued
    <3>1. \A i \in DOMAIN q : q[i] \in Queued
      <4>1. Len(q) \in Nat /\ DOMAIN q = 1..Len(q)
        BY LenProperties
      <4> QED BY <4>1, ElementOfSeq
    <3> QED BY <1>2, <3>1
  <2>2. \A i \in folded : q[i] \in Sent(X) <=> [ q[i] EXCEPT !.due = item.due ] \in X
    BY <2>1
  <2>3. Holding(moved, Sent(X)) <=> \E i \in folded : q[i] \in Sent(X)
    BY <1>5
  <2>4. Holding(brought, X) <=> Holding(moved, Sent(X))
    BY <1>10
  <2> HIDE DEF Sent
  <2> QED BY <2>2, <2>3, <2>4
<1>17. ASSUME NEW X
       PROVE  Holding(front \o c, X) <=>
                \/ \E i \in sooner : q[i] \in X
                \/ \E i \in folded : [ q[i] EXCEPT !.due = item.due ] \in X
                \/ \E i \in others : q[i] \in X
  BY <1>5, <1>11, <1>13, <1>14, <1>16
<1> QED BY <1>2, <1>15, <1>17

(* An item that does not fold is there afterwards; nothing else comes, and *)
(* nothing goes.                                                           *)
LEMMA EnqueueHold ==
  ASSUME DeliveryAssumption, NEW q \in Seq(Queued), NEW item \in Queued, NEW X, Timeless(X)
  PROVE  /\ Holding(q, X) => Holding(Enqueue(q, item), X)
         /\ Holding(Enqueue(q, item), X) => Holding(q, X) \/ item \in X
         /\ ~Folds(item.kind) /\ item \in X => Holding(Enqueue(q, item), X)
<1>1. CASE ~Pending(q, item.kind)
  BY <1>1, InsertHold DEF Enqueue
<1>2. CASE Pending(q, item.kind)
  <2>1. PICK due \in Nat : due = item.due
    BY DEF Queued, Items
  <2>2. ASSUME NEW i \in DOMAIN q
        PROVE  [ q[i] EXCEPT !.due = due ] \in X <=> q[i] \in X
    <3>1. PICK old \in Queued : old = q[i]
      BY ElementOfSeq, LenProperties
    <3>2. [ old EXCEPT !.due = due ] \in X <=> old \in X
      BY LaterIs
    <3> QED BY <3>1, <3>2
  <2>3. Holding(Enqueue(q, item), X) <=>
          \E i \in DOMAIN q :
             IF q[i].kind = item.kind /\ ~(q[i].due <= due) THEN [ q[i] EXCEPT !.due = due ] \in X
             ELSE q[i] \in X
    BY <1>2, <2>1, FoldedHold
  <2>4. Holding(Enqueue(q, item), X) <=> Holding(q, X)
    BY <2>2, <2>3 DEF Holding
  <2>5. Folds(item.kind)
    BY <1>2 DEF Pending
  <2> QED BY <2>4, <2>5
<1> QED BY <1>1, <1>2

(* A set nothing comes into but with an item of it.                        *)
Brought(X) ==
  \A q \in Seq(Queued), item \in Queued : Holding(Enqueue(q, item), X) => Holding(q, X) \/ item \in X

(* That is so of a set that does not look at the times.                    *)
LEMMA TimelessBrought ==
  ASSUME DeliveryAssumption, NEW X, Timeless(X)
  PROVE  Brought(X)
BY EnqueueHold DEF Brought

Steady(X) == Timeless(X) /\ \A item \in X : ~Folds(item.kind)

(* Several items that do not fold are all there afterwards.                *)
LEMMA EnqueueAllHold ==
  ASSUME DeliveryAssumption, NEW q \in Seq(Queued), NEW items \in Seq(Queued), NEW X, Steady(X)
  PROVE  Holding(EnqueueAll(q, items), X) <=> Holding(q, X) \/ Holding(items, X)
<1>1. PICK N \in Nat : N = Len(items) /\ DOMAIN items = 1..N
  BY LenProperties
<1>2. PICK f : Queues(q, items, N, f)
  BY <1>1, EnqueueAllIsLoop
<1> DEFINE So(n) == /\ f[n] \in Seq(Queued)
                    /\ Holding(f[n], X) <=> Holding(q, X) \/ \E i \in 1..N : i <= n /\ items[i] \in X
           Bad == { n \in 0..N : ~So(n) }
<1>3. So(0)
  <2>1. f[0] = q
    BY <1>2 DEF Queues
  <2>2. \A i \in 1..N : ~(i <= 0)
    OBVIOUS
  <2> QED BY <2>1, <2>2
<1>4. ASSUME NEW n \in 1..N, So(n - 1)
      PROVE  So(n)
  <2>1. PICK before \in Seq(Queued) : before = f[n - 1]
    BY <1>4
  <2>2. PICK item \in Queued : item = items[n]
    BY <1>1, ElementOfSeq
  <2>3. Enqueue(before, item) \in Seq(Queued)
    BY EnqueueIs DEF Adds
  <2>4. Holding(Enqueue(before, item), X) <=> Holding(before, X) \/ item \in X
    BY EnqueueHold DEF Steady
  <2>5. f[n] = Enqueue(before, item)
    BY <1>2, <2>1, <2>2 DEF Queues
  <2>6. \A i \in 1..N : i <= n <=> i <= n - 1 \/ i = n
    BY <1>1
  <2>7. Holding(before, X) <=> Holding(q, X) \/ \E i \in 1..N : i <= n - 1 /\ items[i] \in X
    BY <1>4, <2>1
  <2> QED BY <2>2, <2>3, <2>4, <2>5, <2>6, <2>7
<1> HIDE DEF So
<1>5. Bad = {}
  <2>1. SUFFICES ASSUME Bad # {} PROVE FALSE
    OBVIOUS
  <2>2. PICK n \in Bad : \A m \in Bad : n <= m
    <3>1. Bad \in SUBSET Nat
      OBVIOUS
    <3> HIDE DEF Bad
    <3> QED BY <2>1, <3>1, LeastOf
  <2>3. n # 0 /\ n \in 0..N
    BY <1>3, <2>2
  <2>4. n - 1 \in 0..N /\ n \in 1..N /\ ~(n <= n - 1)
    BY <2>3
  <2>5. So(n - 1)
    BY <2>2, <2>4
  <2> QED BY <1>4, <2>2, <2>4, <2>5
<1>6. So(N)
  BY <1>1, <1>5
<1>7. Holding(items, X) <=> \E i \in 1..N : i <= N /\ items[i] \in X
  BY <1>1 DEF Holding
<1>8. EnqueueAll(q, items) = f[N]
  BY <1>2 DEF Queues
<1> QED BY <1>6, <1>7, <1>8 DEF So

(* Nothing comes but with one of several items.                            *)
LEMMA EnqueueAllBrings ==
  ASSUME DeliveryAssumption, NEW q \in Seq(Queued), NEW items \in Seq(Queued), NEW X, Brought(X)
  PROVE  Holding(EnqueueAll(q, items), X) => Holding(q, X) \/ Holding(items, X)
<1>1. PICK N \in Nat : N = Len(items) /\ DOMAIN items = 1..N
  BY LenProperties
<1>2. PICK f : Queues(q, items, N, f)
  BY <1>1, EnqueueAllIsLoop
<1> DEFINE So(n) == /\ f[n] \in Seq(Queued)
                    /\ Holding(f[n], X) => Holding(q, X) \/ Holding(items, X)
           Bad == { n \in 0..N : ~So(n) }
<1>3. So(0)
  BY <1>2 DEF Queues
<1>4. ASSUME NEW n \in 1..N, So(n - 1)
      PROVE  So(n)
  <2>1. PICK before \in Seq(Queued) : before = f[n - 1]
    BY <1>4
  <2>2. PICK item \in Queued : item = items[n]
    BY <1>1, ElementOfSeq
  <2>3. Enqueue(before, item) \in Seq(Queued)
    BY EnqueueIs DEF Adds
  <2>4. Holding(Enqueue(before, item), X) => Holding(before, X) \/ item \in X
    BY DEF Brought
  <2>5. f[n] = Enqueue(before, item)
    BY <1>2, <2>1, <2>2 DEF Queues
  <2>6. item \in X => Holding(items, X)
    BY <1>1, <2>2 DEF Holding
  <2> QED BY <1>4, <2>1, <2>3, <2>4, <2>5, <2>6
<1> HIDE DEF So
<1>5. Bad = {}
  <2>1. SUFFICES ASSUME Bad # {} PROVE FALSE
    OBVIOUS
  <2>2. PICK n \in Bad : \A m \in Bad : n <= m
    <3>1. Bad \in SUBSET Nat
      OBVIOUS
    <3> HIDE DEF Bad
    <3> QED BY <2>1, <3>1, LeastOf
  <2>3. n # 0 /\ n \in 0..N
    BY <1>3, <2>2
  <2>4. n - 1 \in 0..N /\ n \in 1..N /\ ~(n <= n - 1)
    BY <2>3
  <2>5. So(n - 1)
    BY <2>2, <2>4
  <2> QED BY <1>4, <2>2, <2>4, <2>5
<1>6. So(N)
  BY <1>1, <1>5
<1>7. EnqueueAll(q, items) = f[N]
  BY <1>2 DEF Queues
<1> QED BY <1>6, <1>7 DEF So

(* Time passing, a claim and a crash lose nothing.                         *)
LEMMA TickHold ==
  ASSUME TypeInv, Tick, NEW X, Timeless(X)
  PROVE  Holding(queue', X) <=> Holding(queue, X)
<1>1. PICK p \in Seq(Queued) : p = queue
  BY DEF TypeInv
<1>2. PICK r : r = [ i \in DOMAIN p |-> [ p[i] EXCEPT !.due = IF @ = 0 THEN 0 ELSE @ - 1 ] ]
  OBVIOUS
<1>3. queue' = r
  BY <1>1, <1>2 DEF Tick
<1>4. DOMAIN p = 1..Len(p) /\ Len(p) \in Nat
  BY LenProperties
<1>5. ASSUME NEW i \in DOMAIN p
      PROVE  r[i] \in X <=> p[i] \in X
  <2>1. PICK old \in Queued : old = p[i]
    BY <1>4, ElementOfSeq
  <2>2. PICK due \in Nat : due = IF old.due = 0 THEN 0 ELSE old.due - 1
    BY DEF Queued, Items
  <2>3. [ old EXCEPT !.due = due ] \in X <=> old \in X
    BY LaterIs
  <2>4. r[i] = [ old EXCEPT !.due = due ]
    BY <1>2, <2>1, <2>2
  <2> QED BY <2>1, <2>3, <2>4
<1>6. DOMAIN r = DOMAIN p
  BY <1>2
<1> QED BY <1>1, <1>3, <1>5, <1>6 DEF Holding

(* What is claimed goes from the queue to the batch.                       *)
LEMMA ClaimHold ==
  ASSUME TypeInv, Claim, NEW X
  PROVE  Holding(queue, X) <=> Holding(queue', X) \/ Holding(batch', X)
<1> DEFINE due == Sooner(queue, 0)
           rest == DOMAIN queue \ due
<1>1. due \in SUBSET DOMAIN queue /\ rest \in SUBSET DOMAIN queue /\ DOMAIN queue = due \cup rest
  BY DEF Sooner
<1>2. queue' = ItemsAt(queue, rest) /\ batch' = ItemsAt(queue, due) /\ queue \in Seq(Queued)
  BY DEF Claim, TypeInv
<1> HIDE DEF due, rest
<1>3. PICK p \in Seq(Queued) : p = queue
  BY <1>2
<1>6. PICK S, T : S = rest /\ T = due
  OBVIOUS
<1>4. /\ Holding(ItemsAt(p, S), X) <=> \E i \in S : p[i] \in X
      /\ Holding(ItemsAt(p, T), X) <=> \E i \in T : p[i] \in X
  BY <1>1, <1>3, <1>6, ItemsAtHold
<1>5. Holding(p, X) <=> \E i \in S \cup T : p[i] \in X
  BY <1>1, <1>3, <1>6 DEF Holding
<1> QED BY <1>2, <1>3, <1>4, <1>5, <1>6

(* What a dead worker had goes back.                                       *)
LEMMA CrashHold ==
  ASSUME TypeInv, Crash, NEW X
  PROVE  Holding(queue', X) <=> Holding(batch, X) \/ Holding(queue, X)
<1>1. PICK p \in Seq(Queued), b \in Seq(Queued) : p = queue /\ b = batch
  BY DEF TypeInv
<1>2. queue' = b \o p
  BY <1>1 DEF Crash
<1> QED BY <1>1, <1>2, JoinedHold

(* A batch taken apart.                                                    *)
LEMMA FirstHold ==
  ASSUME NEW q \in Seq(Queued), q # <<>>, NEW X
  PROVE  Holding(q, X) <=> Head(q) \in X \/ Holding(Tail(q), X)
<1>1. PICK first, rest : first = Head(q) /\ rest = Tail(q)
  OBVIOUS
<1>2. /\ 1 \in DOMAIN q /\ q[1] = first
      /\ \A i \in DOMAIN rest : i + 1 \in DOMAIN q /\ rest[i] = q[i + 1]
      /\ \A i \in DOMAIN q : i # 1 => \E j \in DOMAIN rest : rest[j] = q[i]
  BY <1>1, HeadTailIs
<1>3. Holding(q, X) <=> first \in X \/ Holding(rest, X)
  BY <1>2 DEF Holding
<1> QED BY <1>1, <1>3

(* What an answer has not settled goes back to the queue.                  *)
LEMMA SettleHold ==
  ASSUME DeliveryAssumption, TypeInv, Settle, NEW X, Timeless(X)
  PROVE  /\ Holding(queue', X) <=> Holding(queue, X) \/ (doing.verdict = "retry" /\ Head(batch) \in X)
         /\ Holding(batch, X) <=> Head(batch) \in X \/ Holding(batch', X)
<1>1. batch \in Seq(Queued) /\ batch # <<>> /\ queue \in Seq(Queued)
  BY DEF TypeInv, Settle
<1>2. PICK p \in Seq(Queued), b \in Seq(Queued), first \in Queued, rest \in Seq(Queued) :
        p = queue /\ b = batch /\ b # <<>> /\ first = Head(b) /\ rest = Tail(b)
  BY <1>1, FirstAndRest
<1>3. Holding(b, X) <=> first \in X \/ Holding(rest, X)
  BY <1>2, FirstHold
<1>4. batch' = rest
  BY <1>2 DEF Settle
<1>5. PICK again \in Queued : again = [ first EXCEPT !.due = Backoff ] /\ (again \in X <=> first \in X)
  BY LaterIs DEF DeliveryAssumption
<1>6. queue' = IF doing.verdict = "retry" THEN Insert(p, again) ELSE p
  BY <1>2, <1>5 DEF Settle
<1>7. Holding(Insert(p, again), X) <=> Holding(p, X) \/ again \in X
  BY InsertHold
<1>8. CASE doing.verdict = "retry"
  BY <1>2, <1>3, <1>4, <1>5, <1>6, <1>7, <1>8
<1>9. CASE doing.verdict # "retry"
  BY <1>2, <1>3, <1>4, <1>6, <1>9
<1> QED BY <1>8, <1>9

-----------------------------------------------------------------------------
(* A live card's post is held open.                                        *)

(* Flags planned for a live card, and those of them that do not open the   *)
(* thread for a week.                                                      *)
LiveFlags == { item \in Queued : item.kind = "set_flags" /\ HoldsThreadOpen(item.flags.planned) }
Wrong == { item \in LiveFlags : item.flags.archived \/ item.flags.locked \/ item.flags.window # "week" }

FlagsKnown == ~Holding(queue, Wrong) /\ ~Holding(batch, Wrong)

(* An item of X is still to be read for.                                   *)
AheadIn(q, b, d, X) == Holding(q, X) \/ \E i \in DOMAIN b : b[i] \in X /\ (i = 1 => d = None)

FlagsAhead == AheadIn(queue, batch, doing, LiveFlags)

(* A decision that was read for knows whether the card is live.            *)
PlanInv ==
  plan # None /\ plan.card.state # "orphaned" /\ row.state # "orphaned" =>
    (HoldsThreadOpen(plan.card.state) <=> HoldsThreadOpen(row.state))

HeldOpen(p) == ~p.locked /\ p.window = "week" /\ (p.archived => ~Unused("idle"))

(* The flags in hand were read for a live card, and have opened its post.  *)
FlagsUnderWay ==
  /\ doing # None /\ Head(batch) \in LiveFlags
  /\ IsRead /\ row.posted => HoldsThreadOpen(doing.card.state)
  /\ IsAnswered /\ doing.verdict # "retry" /\ row.posted /\ post # None => HeldOpen(post)

HeldFresh ==
  /\ post # None /\ (row.posted \/ Landing) => HeldOpen(post)
  /\ IsRead /\ (Head1 = "post_card" \/ row.posted) => HoldsThreadOpen(doing.card.state)

(* The flags that open a live card's post are queued or under way, or it   *)
(* is open.                                                                *)
OpenInv ==
  policy.forum /\ HoldsThreadOpen(row.state) /\ Unused("refusals") =>
    FlagsAhead \/ FlagsUnderWay \/ HeldFresh

(* Flags do not fold, and are the same whenever they are due.              *)
LEMMA LiveFlagsSteady == Steady(LiveFlags) /\ Steady(Wrong)
<1>1. Timeless(LiveFlags)
  BY DEF Timeless, SameItem, LiveFlags
<1>2. Timeless(Wrong)
  BY DEF Timeless, SameItem, LiveFlags, Wrong
<1>3. \A item \in LiveFlags : ~Folds(item.kind)
  BY DEF LiveFlags, Folds
<1> QED BY <1>1, <1>2, <1>3 DEF Steady, Wrong

(* A batch taken apart.                                                    *)
LEMMA AheadInIs ==
  ASSUME NEW q, NEW b \in Seq(Queued), b # <<>>, NEW d, NEW X
  PROVE  AheadIn(q, b, d, X) <=> Holding(q, X) \/ (d = None /\ Head(b) \in X) \/ Holding(Tail(b), X)
<1>1. PICK first, rest : first = Head(b) /\ rest = Tail(b)
  OBVIOUS
<1>2. /\ 1 \in DOMAIN b /\ b[1] = first
      /\ \A i \in DOMAIN rest : i + 1 \in DOMAIN b /\ i + 1 # 1 /\ rest[i] = b[i + 1]
      /\ \A i \in DOMAIN b : i # 1 => \E j \in DOMAIN rest : rest[j] = b[i] /\ i = j + 1
  BY <1>1, HeadTailIs
<1>3. AheadIn(q, b, d, X) <=> Holding(q, X) \/ (d = None /\ first \in X) \/ Holding(rest, X)
  BY <1>2 DEF AheadIn, Holding
<1> QED BY <1>1, <1>3

(* With nothing in hand all of the batch is still to be read for.          *)
LEMMA IdleAheadIn ==
  ASSUME NEW q, NEW b, NEW X
  PROVE  AheadIn(q, b, None, X) <=> Holding(q, X) \/ Holding(b, X)
BY DEF AheadIn, Holding

(* The route stays as it is.                                               *)
LEMMA PolicyStep ==
  ASSUME DeliveryAssumption, TypeInv, ReadInv, [Next]_vars
  PROVE  policy' = policy
<1>1. Handle => policy' = policy
  BY HandleIs
<1>2. Stops \/ Settle => policy' = policy
  BY StoppedIs, SettledIs
<1> QED BY <1>1, <1>2
        DEF Next, Work, Stops, Deliver, ApplyDecision, Acknowledge, Request, Tick, Claim, ReadRow, Crash,
            IdleArchive, DeleteTag, DeleteMessage, vars

(* What a decision queues for the card.                                    *)
LEMMA ApplyHold ==
  ASSUME DeliveryAssumption, TypeInv, ApplyDecision, NEW X, Steady(X)
  PROVE  /\ Holding(queue, X) => Holding(queue', X)
         /\ plan.card.state # "orphaned" =>
              (Holding(queue', X) <=> Holding(queue, X) \/ Holding(Effects(plan.card, StateAfter(plan)), X))
         /\ plan.card.state = "orphaned" => queue' = queue
<1>1. CASE plan.card.state = "orphaned"
  BY <1>1 DEF ApplyDecision
<1>2. CASE plan.card.state # "orphaned"
  <2>1. PICK card \in Row, state \in States \cup {None} : card = plan.card /\ state = StateAfter(plan)
    <3>1. plan \in Plan
      BY DEF ApplyDecision, TypeInv
    <3>2. plan.card \in Row
      BY <3>1 DEF Plan
    <3>3. StateAfter(plan) \in States \cup {None}
      BY StateAfterType
    <3> QED BY <3>2, <3>3
  <2>2. PICK items \in Seq(Queued) : items = Effects(card, state)
    <3>1. policy \in Policies
      BY DEF TypeInv
    <3>2. Effects(card, state) \in Seq(Queued)
      BY <3>1, EffectsAre DEF Planned
    <3> QED BY <3>2
  <2>3. PICK p \in Seq(Queued) : p = queue
    BY DEF TypeInv
  <2>4. Holding(EnqueueAll(p, items), X) <=> Holding(p, X) \/ Holding(items, X)
    BY EnqueueAllHold
  <2>5. queue' = EnqueueAll(p, items)
    BY <1>2, <2>1, <2>2, <2>3 DEF ApplyDecision
  <2> QED BY <1>2, <2>1, <2>2, <2>3, <2>4, <2>5
<1> QED BY <1>1, <1>2

(* An acknowledgement's edit and a request.                                *)
LEMMA EnqueuedHold ==
  ASSUME DeliveryAssumption, TypeInv, NEW kind \in {"edit_card", "resync_card", "escalate"},
         queue' = Enqueue(queue, Item(kind, 0)), NEW X, Timeless(X)
  PROVE  /\ Holding(queue, X) => Holding(queue', X)
         /\ Holding(queue', X) => Holding(queue, X) \/ Item(kind, 0) \in X
<1>1. PICK item \in Queued : item = Item(kind, 0)
  BY ItemIs DEF Kinds
<1>2. PICK p \in Seq(Queued) : p = queue
  BY DEF TypeInv
<1> QED BY <1>1, <1>2, EnqueueHold

(* What is still to be read for stays so until it is read for.             *)
LEMMA AheadInStep ==
  ASSUME DeliveryAssumption, TypeInv, ReadInv, [Next]_vars, NEW X, Steady(X),
         AheadIn(queue, batch, doing, X), ~(ReadRow /\ Head(batch) \in X)
  PROVE  AheadIn(queue', batch', doing', X)
<1> USE DEF Steady
<1>3. ASSUME UNCHANGED batch, Holding(queue, X) => Holding(queue', X), doing = None <=> doing' = None
      PROVE  AheadIn(queue', batch', doing', X)
  BY <1>3 DEF AheadIn
<1>4. CASE UNCHANGED <<queue, batch, doing>>
  BY <1>3, <1>4
<1>5. CASE ApplyDecision
  BY <1>3, <1>5, ApplyHold DEF ApplyDecision
<1>6. CASE Acknowledge
  <2>1. Holding(queue, X) => Holding(queue', X)
    BY <1>6, EnqueuedHold DEF Acknowledge
  <2> QED BY <1>3, <1>6, <2>1 DEF Acknowledge
<1>7. ASSUME NEW k \in {"resync_card", "escalate"}, Request(k)
      PROVE  AheadIn(queue', batch', doing', X)
  <2>1. Holding(queue, X) => Holding(queue', X)
    BY <1>7, EnqueuedHold DEF Request
  <2> QED BY <1>3, <1>7, <2>1 DEF Request
<1>8. CASE Tick
  BY <1>3, <1>8, TickHold DEF Tick
<1>9. CASE Handle
  <2>1. UNCHANGED <<queue, batch>> /\ doing # None /\ doing' # None
    BY <1>9, HandleIs
  <2> QED BY <1>3, <2>1
<1>10. CASE Stops
  <2>1. UNCHANGED <<queue, batch>> /\ doing # None /\ doing' # None
    BY <1>10, StoppedIs
  <2> QED BY <1>3, <2>1
<1>11. CASE Claim
  <2>1. batch = <<>> /\ doing' = None
    BY <1>11, ClaimIs
  <2>2. Holding(queue', X) \/ Holding(batch', X)
    <3>1. Holding(queue, X)
      BY <2>1 DEF AheadIn
    <3> QED BY <1>11, <3>1, ClaimHold
  <2> QED BY <2>1, <2>2, IdleAheadIn
<1>12. CASE Crash
  <2>1. Holding(queue, X) \/ Holding(batch, X)
    BY DEF AheadIn, Holding
  <2>2. Holding(queue', X)
    BY <1>12, <2>1, CrashHold
  <2> QED BY <2>2 DEF AheadIn
<1>13. CASE ReadRow
  <2>1. PICK b \in Seq(Queued) : b = batch /\ b # <<>>
    BY <1>13 DEF TypeInv, ReadRow
  <2>2. UNCHANGED <<queue, batch>>
    BY <1>13 DEF ReadRow
  <2>3. Head(b) \notin X
    BY <1>13, <2>1
  <2>4. PICK q, d, d2 : q = queue /\ d = doing /\ d2 = doing'
    OBVIOUS
  <2>5. AheadIn(q, b, d, X) <=> Holding(q, X) \/ (d = None /\ Head(b) \in X) \/ Holding(Tail(b), X)
    BY <2>1, AheadInIs
  <2>6. AheadIn(q, b, d2, X) <=> Holding(q, X) \/ (d2 = None /\ Head(b) \in X) \/ Holding(Tail(b), X)
    BY <2>1, AheadInIs
  <2> QED BY <2>1, <2>2, <2>3, <2>4, <2>5, <2>6
<1>14. CASE Settle
  <2>1. PICK b \in Seq(Queued) : b = batch /\ b # <<>>
    BY <1>14, SettledIs
  <2>2. doing # None /\ doing' = None /\ batch' = Tail(b)
    BY <1>14, <2>1, SettledIs, SettleIs
  <2>3. PICK q, d : q = queue /\ d = doing
    OBVIOUS
  <2>4. AheadIn(q, b, d, X) <=> Holding(q, X) \/ (d = None /\ Head(b) \in X) \/ Holding(Tail(b), X)
    BY <2>1, AheadInIs
  <2>5. Holding(queue, X) \/ Holding(batch', X)
    BY <2>1, <2>2, <2>3, <2>4
  <2>6. Holding(queue, X) => Holding(queue', X)
    BY <1>14, SettleHold
  <2>7. AheadIn(queue', batch', None, X)
    BY <2>5, <2>6, IdleAheadIn
  <2> QED BY <2>2, <2>7
<1>15. CASE \/ \E new \in Incoming : Deliver(new)
            \/ IdleArchive \/ DeleteTag \/ DeleteMessage \/ UNCHANGED vars
  BY <1>4, <1>15 DEF Deliver, IdleArchive, DeleteTag, DeleteMessage, vars
<1> QED BY <1>5, <1>6, <1>7, <1>8, <1>9, <1>10, <1>11, <1>12, <1>13, <1>14, <1>15 DEF Next, Work, Stops

(* The item in hand goes back when the process dies or the attempt failed. *)
LEMMA AgainHeld ==
  ASSUME DeliveryAssumption, TypeInv, NEW X, Timeless(X), Head(batch) \in X,
         (Crash /\ batch # <<>>) \/ (Settle /\ doing.verdict = "retry")
  PROVE  Holding(queue', X)
<1>1. CASE Crash /\ batch # <<>>
  <2>1. PICK b \in Seq(Queued) : b = batch /\ b # <<>>
    BY <1>1 DEF TypeInv
  <2>2. Holding(b, X)
    BY <2>1, FirstHold
  <2> QED BY <1>1, <2>1, <2>2, CrashHold
<1>2. CASE Settle /\ doing.verdict = "retry"
  BY <1>2, SettleHold
<1> QED BY <1>1, <1>2

(* Nothing of X comes from a decision that plans nothing of it.            *)
LEMMA ApplyBrings ==
  ASSUME DeliveryAssumption, TypeInv, ApplyDecision, NEW X, Brought(X), ~Holding(queue, X),
         plan.card.state # "orphaned" => ~Holding(Effects(plan.card, StateAfter(plan)), X)
  PROVE  ~Holding(queue', X)
<1>1. CASE plan.card.state = "orphaned"
  BY <1>1 DEF ApplyDecision
<1>2. CASE plan.card.state # "orphaned"
  <2>1. PICK card \in Row, state \in States \cup {None} : card = plan.card /\ state = StateAfter(plan)
    <3>1. plan \in Plan
      BY DEF ApplyDecision, TypeInv
    <3>2. plan.card \in Row
      BY <3>1 DEF Plan
    <3>3. StateAfter(plan) \in States \cup {None}
      BY StateAfterType
    <3> QED BY <3>2, <3>3
  <2>2. PICK items \in Seq(Queued) : items = Effects(card, state)
    <3>1. policy \in Policies
      BY DEF TypeInv
    <3>2. Effects(card, state) \in Seq(Queued)
      BY <3>1, EffectsAre DEF Planned
    <3> QED BY <3>2
  <2>3. PICK p \in Seq(Queued) : p = queue
    BY DEF TypeInv
  <2>4. Holding(EnqueueAll(p, items), X) => Holding(p, X) \/ Holding(items, X)
    BY EnqueueAllBrings
  <2>5. queue' = EnqueueAll(p, items)
    BY <1>2, <2>1, <2>2, <2>3 DEF ApplyDecision
  <2> QED BY <1>2, <2>1, <2>2, <2>3, <2>4, <2>5
<1> QED BY <1>1, <1>2

(* Nothing of X comes but from a decision or a request.                    *)
LEMMA NothingComes ==
  ASSUME DeliveryAssumption, TypeInv, ReadInv, [Next]_vars, NEW X, Timeless(X),
         ~Holding(queue, X), ~Holding(batch, X),
         ApplyDecision /\ plan.card.state # "orphaned" => ~Holding(Effects(plan.card, StateAfter(plan)), X),
         Acknowledge => Item("edit_card", 0) \notin X,
         \A kind \in {"resync_card", "escalate"} : Request(kind) => Item(kind, 0) \notin X
  PROVE  ~Holding(queue', X) /\ ~Holding(batch', X)
<1>1. CASE UNCHANGED <<queue, batch>>
  BY <1>1
<1>2. CASE ApplyDecision
  BY <1>2, ApplyBrings, TimelessBrought DEF ApplyDecision
<1>3. CASE Acknowledge
  <2>2. ~Holding(queue', X)
    BY <1>3, EnqueuedHold DEF Acknowledge
  <2> QED BY <1>3, <2>2 DEF Acknowledge
<1>4. ASSUME NEW k \in {"resync_card", "escalate"}, Request(k)
      PROVE  ~Holding(queue', X) /\ ~Holding(batch', X)
  <2>1. ~Holding(queue', X)
    BY <1>4, EnqueuedHold DEF Request
  <2> QED BY <1>4, <2>1 DEF Request
<1>5. CASE Tick
  BY <1>5, TickHold DEF Tick
<1>6. CASE Claim
  BY <1>6, ClaimHold
<1>7. CASE Crash
  BY <1>7, CrashHold, CrashIs, NoneHolds
<1>8. CASE Settle
  BY <1>8, SettleHold
<1>9. CASE Handle \/ Stops
  BY <1>1, <1>9, HandleIs, StoppedIs
<1>10. CASE \/ \E new \in Incoming : Deliver(new)
            \/ ReadRow \/ IdleArchive \/ DeleteTag \/ DeleteMessage \/ UNCHANGED vars
  BY <1>1, <1>10 DEF Deliver, ReadRow, IdleArchive, DeleteTag, DeleteMessage, vars
<1> QED BY <1>2, <1>3, <1>4, <1>5, <1>6, <1>7, <1>8, <1>9, <1>10 DEF Next, Work, Stops

(* An item that is planned, or is not.                                     *)
LEMMA OneOrNoneHolds ==
  ASSUME NEW item \in Queued, NEW there \in BOOLEAN, NEW q, q = IF there THEN <<item>> ELSE <<>>
  PROVE  q \in Seq(Queued) /\ \A X : Holding(q, X) <=> there /\ item \in X
<1>1. CASE there
  BY <1>1, OneIs, OneHolds
<1>2. CASE ~there
  BY <1>2, NoneHolds, EmptySeq
<1> QED BY <1>1, <1>2

(* Two parts of what is planned.                                           *)
LEMMA BothHold ==
  ASSUME NEW q \in Seq(Queued), NEW r \in Seq(Queued)
  PROVE  q \o r \in Seq(Queued) /\ \A X : Holding(q \o r, X) <=> Holding(q, X) \/ Holding(r, X)
BY JoinedIs, JoinedHold

(* The flags an update plans: to reopen an archived thread, to reopen the  *)
(* thread of a card that comes back, and to seal that of one resolved.     *)
Reopening(effective) == SetFlags(0, FALSE, FALSE, effective)
Reviving(effective)  == SetFlags(Debounce, FALSE, FALSE, effective)
Sealing == SetFlags(Debounce, policy.archiveOnResolve, policy.archiveOnResolve /\ policy.lockOnResolve, "resolved")

(* They are items of a queue.                                              *)
LEMMA PlannedFlagsAre ==
  ASSUME DeliveryAssumption, policy \in Policies, NEW effective \in States
  PROVE  Reopening(effective) \in Queued /\ Reviving(effective) \in Queued /\ Sealing \in Queued
<1>1. "resolved" \in States /\ Debounce \in Nat /\ policy \in Policy
  BY DEF States, DeliveryAssumption
<1>2. PICK a \in BOOLEAN, l \in BOOLEAN : a = policy.archiveOnResolve
                                          /\ l = (policy.archiveOnResolve /\ policy.lockOnResolve)
  BY <1>1 DEF Policy
<1>3. SetFlags(Debounce, a, l, "resolved") \in Queued
  BY <1>1, SetFlagsIs
<1>4. Sealing \in Queued
  BY <1>2, <1>3, Zenon DEF Sealing
<1>5. Reopening(effective) \in Queued /\ Reviving(effective) \in Queued
  BY <1>1, SetFlagsIs DEF Reopening, Reviving
<1> QED BY <1>4, <1>5

(* An item of X is among what an update plans, its seal aside.             *)
PlannedIn(card, state, effective, X) ==
  \/ card.archived /\ Reopening(effective) \in X
  \/ /\ policy.forum /\ ~card.archived /\ card.state = "resolved" /\ HoldsThreadOpen(effective)
     /\ Reviving(effective) \in X
  \/ Item("edit_card", Debounce) \in X
  \/ /\ policy.forum /\ state # None
     /\ \/ Item("set_tags", 0) \in X
        \/ policy.bump /\ Item("thread_note", 0) \in X
        \/ /\ (policy.pins /\ WantsPin(effective)) # card.pinned
           /\ SetPinned(policy.pins /\ WantsPin(effective)) \in X
  \/ state = "resolved" /\ Item("disable_components", 0) \in X

(* What update_for plans, item by item: the seal comes last.               *)
LEMMA EffectsParts ==
  ASSUME DeliveryAssumption, policy \in Policies, NEW card \in Row, NEW state \in States \cup {None},
         NEW effective \in States, effective = IF state = None THEN card.state ELSE state,
         NEW sealed \in BOOLEAN,
         sealed <=> state = "resolved" /\ policy.forum /\ ~(~policy.archiveOnResolve /\ card.archived)
  PROVE  \E before \in Seq(Queued) :
           /\ Effects(card, state) = before \o (IF sealed THEN <<Sealing>> ELSE <<>>)
           /\ \A X : Holding(before, X) <=> PlannedIn(card, state, effective, X)
<1> DEFINE Forum(s)  == IF policy.forum THEN s ELSE <<>>
           moved == state # None
           gone == state = "resolved"
           p1 == IF card.archived THEN <<Reopening(effective)>> ELSE <<>>
           p2 == Forum(ReopenedPostWindow(card, effective))
           p3 == <<Item("edit_card", Debounce)>>
           p4 == Forum(ForumEffects(card, effective, moved))
           p5 == IF gone THEN <<Item("disable_components", 0)>> ELSE <<>>
           p6 == IF gone THEN Forum(ResolvedPostFlags(card)) ELSE <<>>
<1>1. Effects(card, state) = ((((p1 \o p2) \o p3) \o p4) \o p5) \o p6
  BY DEF Effects, Reopening
<1>2. /\ Reopening(effective) \in Queued /\ Reviving(effective) \in Queued /\ Sealing \in Queued
      /\ policy \in Policy /\ Debounce \in Nat /\ card.archived \in BOOLEAN /\ policy.forum \in BOOLEAN
      /\ policy.archiveOnResolve \in BOOLEAN /\ policy.bump \in BOOLEAN /\ policy.pins \in BOOLEAN
  <2>1. policy \in Policy /\ Debounce \in Nat
    BY DEF DeliveryAssumption
  <2> QED BY <2>1, PlannedFlagsAre DEF Policy, Row
<1>3. p1 \in Seq(Queued) /\ \A X : Holding(p1, X) <=> card.archived /\ Reopening(effective) \in X
  BY <1>2, OneOrNoneHolds
<1>4. /\ p2 \in Seq(Queued)
      /\ \A X : Holding(p2, X) <=>
           /\ policy.forum /\ ~card.archived /\ card.state = "resolved" /\ HoldsThreadOpen(effective)
           /\ Reviving(effective) \in X
  <2>1. PICK there \in BOOLEAN :
          there <=> policy.forum /\ ~card.archived /\ card.state = "resolved" /\ HoldsThreadOpen(effective)
    OBVIOUS
  <2>2. p2 = IF there THEN <<Reviving(effective)>> ELSE <<>>
    BY <2>1 DEF ReopenedPostWindow, Reviving
  <2>3. p2 \in Seq(Queued) /\ \A X : Holding(p2, X) <=> there /\ Reviving(effective) \in X
    BY <1>2, <2>2, OneOrNoneHolds
  <2> HIDE DEF p2
  <2> QED BY <2>1, <2>3
<1>5. Item("edit_card", Debounce) \in Queued /\ p3 \in Seq(Queued) /\ \A X : Holding(p3, X) <=> Item("edit_card", Debounce) \in X
  <2>1. Item("edit_card", Debounce) \in Queued
    BY <1>2, ItemIs DEF Kinds
  <2> QED BY <2>1, OneIs, OneHolds
<1>6. /\ p4 \in Seq(Queued)
      /\ \A X : Holding(p4, X) <=>
           /\ policy.forum /\ moved
           /\ \/ Item("set_tags", 0) \in X
              \/ policy.bump /\ Item("thread_note", 0) \in X
              \/ /\ (policy.pins /\ WantsPin(effective)) # card.pinned
                 /\ SetPinned(policy.pins /\ WantsPin(effective)) \in X
  <2> DEFINE q1 == <<Item("set_tags", 0)>>
             q2 == IF policy.bump THEN <<Item("thread_note", 0)>> ELSE <<>>
             wants == policy.pins /\ WantsPin(effective)
             q3 == IF wants # card.pinned THEN <<SetPinned(wants)>> ELSE <<>>
             three == (q1 \o q2) \o q3
  <2>1. Item("set_tags", 0) \in Queued /\ Item("thread_note", 0) \in Queued
    BY ItemIs DEF Kinds
  <2>2. q1 \in Seq(Queued) /\ \A X : Holding(q1, X) <=> Item("set_tags", 0) \in X
    BY <2>1, OneIs, OneHolds
  <2>3. q2 \in Seq(Queued) /\ \A X : Holding(q2, X) <=> policy.bump /\ Item("thread_note", 0) \in X
    BY <1>2, <2>1, OneOrNoneHolds
  <2>4. q3 \in Seq(Queued) /\ \A X : Holding(q3, X) <=> wants # card.pinned /\ SetPinned(wants) \in X
    <3>1. PICK there \in BOOLEAN : there <=> wants # card.pinned
      OBVIOUS
    <3>2. SetPinned(wants) \in Queued
      <4>1. PICK pin \in BOOLEAN : pin = wants
        BY <1>2 DEF WantsPin
      <4> QED BY <4>1, SetPinnedIs, Zenon
    <3>3. q3 = IF there THEN <<SetPinned(wants)>> ELSE <<>>
      BY <3>1
    <3> HIDE DEF wants
    <3>4. q3 \in Seq(Queued) /\ \A X : Holding(q3, X) <=> there /\ SetPinned(wants) \in X
      BY <3>2, <3>3, OneOrNoneHolds
    <3> QED BY <3>1, <3>4
  <2>5. p4 = IF policy.forum /\ moved THEN three ELSE <<>>
    BY DEF ForumEffects
  <2> HIDE DEF q1, q2, q3, p4
  <2>6. three \in Seq(Queued) /\ \A X : Holding(three, X) <=> Holding(q1, X) \/ Holding(q2, X) \/ Holding(q3, X)
    <3>1. q1 \o q2 \in Seq(Queued) /\ \A X : Holding(q1 \o q2, X) <=> Holding(q1, X) \/ Holding(q2, X)
      BY <2>2, <2>3, BothHold
    <3>2. PICK first \in Seq(Queued) : first = q1 \o q2
      BY <3>1
    <3>3. first \o q3 \in Seq(Queued) /\ \A X : Holding(first \o q3, X) <=> Holding(first, X) \/ Holding(q3, X)
      BY <2>4, BothHold
    <3> QED BY <3>1, <3>2, <3>3
  <2> HIDE DEF three, wants
  <2>7. CASE policy.forum /\ moved
    <3>1. p4 = three
      BY <2>5, <2>7
    <3> QED BY <2>2, <2>3, <2>4, <2>6, <2>7, <3>1, Zenon DEF wants
  <2>8. CASE ~(policy.forum /\ moved)
    BY <2>5, <2>8, NoneHolds, EmptySeq
  <2> QED BY <2>7, <2>8
<1>7. p5 \in Seq(Queued) /\ \A X : Holding(p5, X) <=> gone /\ Item("disable_components", 0) \in X
  <2>1. Item("disable_components", 0) \in Queued
    BY ItemIs DEF Kinds
  <2>2. gone \in BOOLEAN
    OBVIOUS
  <2> HIDE DEF gone
  <2> QED BY <2>1, <2>2, OneOrNoneHolds
<1>8. p6 = IF sealed THEN <<Sealing>> ELSE <<>>
  BY DEF ResolvedPostFlags, Sealing
<1> HIDE DEF p1, p2, p3, p4, p5, p6
<1> DEFINE both(q, r, s) == s = q \o r /\ \A X : Holding(s, X) <=> Holding(q, X) \/ Holding(r, X)
<1>9. ASSUME NEW q \in Seq(Queued), NEW r \in Seq(Queued)
      PROVE  \E s \in Seq(Queued) : both(q, r, s)
  <2>1. PICK s \in Seq(Queued) : s = q \o r
    BY BothHold
  <2> QED BY <2>1, BothHold
<1> HIDE DEF both
<1>10. PICK q2 \in Seq(Queued) : both(p1, p2, q2)
  BY <1>3, <1>4, <1>9
<1>11. PICK q3 \in Seq(Queued) : both(q2, p3, q3)
  BY <1>5, <1>9
<1>12. PICK q4 \in Seq(Queued) : both(q3, p4, q4)
  BY <1>6, <1>9
<1>13. PICK q5 \in Seq(Queued) : both(q4, p5, q5)
  BY <1>7, <1>9
<1>14. Effects(card, state) = q5 \o (IF sealed THEN <<Sealing>> ELSE <<>>)
  BY <1>1, <1>8, <1>10, <1>11, <1>12, <1>13 DEF both
<1>15. \A X : Holding(q5, X) <=>
         Holding(p1, X) \/ Holding(p2, X) \/ Holding(p3, X) \/ Holding(p4, X) \/ Holding(p5, X)
  BY <1>10, <1>11, <1>12, <1>13 DEF both
<1>16. \A X : Holding(q5, X) <=> PlannedIn(card, state, effective, X)
  BY <1>3, <1>4, <1>5, <1>6, <1>7, <1>15 DEF PlannedIn
<1> QED BY <1>14, <1>16

(* Each item update_for plans.                                             *)
LEMMA EffectsHold ==
  ASSUME DeliveryAssumption, policy \in Policies, NEW card \in Row, NEW state \in States \cup {None},
         NEW effective \in States, effective = IF state = None THEN card.state ELSE state
  PROVE  \A X : Holding(Effects(card, state), X) <=>
           \/ card.archived /\ Reopening(effective) \in X
           \/ /\ policy.forum /\ ~card.archived /\ card.state = "resolved" /\ HoldsThreadOpen(effective)
              /\ Reviving(effective) \in X
           \/ Item("edit_card", Debounce) \in X
           \/ /\ policy.forum /\ state # None
              /\ \/ Item("set_tags", 0) \in X
                 \/ policy.bump /\ Item("thread_note", 0) \in X
                 \/ /\ (policy.pins /\ WantsPin(effective)) # card.pinned
                    /\ SetPinned(policy.pins /\ WantsPin(effective)) \in X
           \/ state = "resolved" /\ Item("disable_components", 0) \in X
           \/ /\ state = "resolved" /\ policy.forum /\ ~(~policy.archiveOnResolve /\ card.archived)
              /\ Sealing \in X
<1>1. PICK sealed \in BOOLEAN :
        sealed <=> state = "resolved" /\ policy.forum /\ ~(~policy.archiveOnResolve /\ card.archived)
  OBVIOUS
<1>2. PICK before \in Seq(Queued) :
           /\ Effects(card, state) = before \o (IF sealed THEN <<Sealing>> ELSE <<>>)
           /\ \A X : Holding(before, X) <=> PlannedIn(card, state, effective, X)
  BY <1>1, EffectsParts
<1>3. Sealing \in Queued
  BY PlannedFlagsAre
<1>4. PICK last \in Seq(Queued) :
        /\ last = IF sealed THEN <<Sealing>> ELSE <<>>
        /\ \A X : Holding(last, X) <=> sealed /\ Sealing \in X
  BY <1>3, OneOrNoneHolds
<1>5. Effects(card, state) = before \o last
  BY <1>2, <1>4
<1>6. \A X : Holding(Effects(card, state), X) <=> Holding(before, X) \/ Holding(last, X)
  BY <1>5, JoinedHold
<1>7. \A X : Holding(Effects(card, state), X) <=> Holding(before, X) \/ (sealed /\ Sealing \in X)
  BY <1>4, <1>6
<1> QED BY <1>1, <1>2, <1>7 DEF PlannedIn

(* A decision plans live flags for a live card, and opens with them the    *)
(* thread of one that comes back.                                          *)
LEMMA EffectsFlags ==
  ASSUME DeliveryAssumption, policy \in Policies, NEW card \in Row, NEW state \in States \cup {None}
  PROVE  /\ ~Holding(Effects(card, state), Wrong)
         /\ policy.forum /\ card.state = "resolved" /\ state # None /\ HoldsThreadOpen(state) =>
              Holding(Effects(card, state), LiveFlags)
<1>1. PICK effective \in States : effective = IF state = None THEN card.state ELSE state
  BY DEF Row
<1>2. Reopening(effective) \in Queued /\ Reviving(effective) \in Queued /\ Sealing \in Queued
  BY PlannedFlagsAre
<1>3. ASSUME NEW due, NEW item, item = SetFlags(due, FALSE, FALSE, effective), item \in Queued
      PROVE  item \notin Wrong /\ (HoldsThreadOpen(effective) => item \in LiveFlags)
  BY <1>3 DEF Wrong, LiveFlags, SetFlags, Window
<1>4. Reopening(effective) \notin Wrong /\ (HoldsThreadOpen(effective) => Reopening(effective) \in LiveFlags)
  BY <1>2, <1>3 DEF Reopening
<1>5. Reviving(effective) \notin Wrong /\ (HoldsThreadOpen(effective) => Reviving(effective) \in LiveFlags)
  BY <1>2, <1>3 DEF Reviving
<1>6. Sealing \notin LiveFlags
  BY DEF LiveFlags, Sealing, SetFlags, HoldsThreadOpen
<1>7. \A kind, due : kind # "set_flags" => Item(kind, due) \notin LiveFlags
  BY DEF LiveFlags, Item
<1>8. \A pin : SetPinned(pin) \notin LiveFlags
  <2>1. \A pin : SetPinned(pin).kind = "set_pinned"
    BY DEF SetPinned, Item
  <2> QED BY <2>1 DEF LiveFlags
<1>9. Wrong \subseteq LiveFlags
  BY DEF Wrong
<1>10. /\ Item("edit_card", Debounce) \notin Wrong /\ Item("set_tags", 0) \notin Wrong /\ Item("thread_note", 0) \notin Wrong
       /\ Item("disable_components", 0) \notin Wrong /\ Sealing \notin Wrong
       /\ SetPinned(policy.pins /\ WantsPin(effective)) \notin Wrong
  BY <1>6, <1>7, <1>8, <1>9
<1>11. ~Holding(Effects(card, state), Wrong)
  BY <1>1, <1>4, <1>5, <1>10, EffectsHold
<1>12. policy.forum /\ card.state = "resolved" /\ state # None /\ HoldsThreadOpen(state) =>
         Holding(Effects(card, state), LiveFlags)
  <2>1. SUFFICES ASSUME policy.forum, card.state = "resolved", state # None, HoldsThreadOpen(state)
                 PROVE  Holding(Effects(card, state), LiveFlags)
    OBVIOUS
  <2>2. effective = state /\ HoldsThreadOpen(effective) /\ card.archived \in BOOLEAN
    BY <1>1, <2>1 DEF Row
  <2> QED BY <1>1, <1>4, <1>5, <2>1, <2>2, EffectsHold
<1> QED BY <1>11, <1>12

-----------------------------------------------------------------------------
(* What a handler leaves of the post's flags.                              *)
SameFlags(a, b) == a.archived = b.archived /\ a.locked = b.locked /\ a.window = b.window

(* The post is born, gets the flags of the item, keeps its own, or was     *)
(* opened because it was archived.                                         *)
FlagsAfter(p) ==
  \/ /\ Head1 = "post_card" /\ ~doing.card.posted /\ ~p.archived /\ ~p.locked
     /\ p.window \in {Window(doing.card.state), Window(row.state)}
  \/ /\ Head1 = "set_flags" /\ post # None /\ doing.card.posted /\ ~Superseded(Head(batch).flags)
     /\ SameFlags(p, Head(batch).flags)
  \/ /\ post # None /\ SameFlags(p, post)
     /\ Head1 = "set_flags" => ~doing.card.posted \/ Superseded(Head(batch).flags)
     /\ Head1 = "post_card" => doing.card.posted
  \/ /\ post # None /\ post.archived /\ Head1 \notin {"post_card", "set_flags", "set_pinned"} /\ doing.card.posted
     /\ ~p.archived /\ ~p.locked /\ p.window = "week"
     /\ Head1 = "edit_card" => doing.card.hash # Rendered(doing.card, doing.text)

(* A reopened thread, or one that was open.                                *)
LEMMA ReopenedFlags ==
  ASSUME NEW p \in Post
  PROVE  /\ ~Reopened(p).archived
         /\ SameFlags(Reopened(p), p) \/ (p.archived /\ ~Reopened(p).locked /\ Reopened(p).window = "week")
<1>1. CASE p.archived
  BY <1>1 DEF Reopened, Post
<1>2. CASE ~p.archived
  BY <1>2 DEF Reopened, SameFlags
<1> QED BY <1>1, <1>2

(* A handler that leaves the message's flags, or opens its thread first.   *)
LEMMA KeptFlags ==
  ASSUME DeliveryAssumption, TypeInv, ReadInv, NEW kind \in Kinds \ {"post_card", "set_flags"}, Handling(kind),
         NEW p \in Post, p = post, NEW message,
         \/ SameFlags(message, p)
         \/ /\ SameFlags(message, Reopened(p)) /\ kind # "set_pinned" /\ doing.card.posted
            /\ kind = "edit_card" => doing.card.hash # Rendered(doing.card, doing.text)
  PROVE  FlagsAfter(message)
<1>1. Head1 = kind /\ post # None
  BY AtHandler DEF DeliveryAssumption
<1>2. CASE SameFlags(message, p)
  BY <1>1, <1>2 DEF FlagsAfter
<1>3. CASE ~SameFlags(message, p)
  <2>1. PICK opened : opened = Reopened(p)
    OBVIOUS
  <2>2. ~opened.archived /\ (SameFlags(opened, p) \/ (p.archived /\ ~opened.locked /\ opened.window = "week"))
    BY <2>1, ReopenedFlags
  <2>3. p.archived /\ ~message.archived /\ ~message.locked /\ message.window = "week"
    BY <1>3, <2>1, <2>2 DEF SameFlags
  <2> QED BY <1>1, <1>3, <2>3 DEF FlagsAfter
<1> QED BY <1>2, <1>3

(* A handler that leaves the message as it is.                             *)
LEMMA UntouchedFlags ==
  ASSUME DeliveryAssumption, TypeInv, ReadInv, NEW kind \in Kinds \ {"post_card", "set_flags"}, Handling(kind),
         NEW message, message = post, message # None
  PROVE  FlagsAfter(message)
<1>1. message \in Post
  BY DEF TypeInv
<1> QED BY <1>1, KeptFlags DEF SameFlags

(* A redrawn message has the flags of a reopened one.                      *)
LEMMA RedrawnFlags ==
  ASSUME NEW p \in Post
  PROVE  SameFlags(Redrawn(p), Reopened(p))
<1>1. PICK opened \in Post : opened = Reopened(p)
  BY ReopenedIs
<1>2. PICK shown, controls : shown = Rendered(doing.card, doing.text) /\ controls = HasComponents(doing.card.state)
  OBVIOUS
<1>3. PICK drew : drew = [ opened EXCEPT !.shown = shown ]
  OBVIOUS
<1>4. SameFlags(drew, opened) /\ drew = [ opened EXCEPT !.shown = shown ]
  BY <1>3 DEF SameFlags, Post
<1>5. PICK drawn : drawn = [ drew EXCEPT !.controls = controls ]
  OBVIOUS
<1>6. SameFlags(drawn, drew)
  BY <1>3, <1>5 DEF SameFlags, Post
<1>7. Redrawn(p) = drawn
  BY <1>1, <1>2, <1>3, <1>5 DEF Redrawn
<1> QED BY <1>1, <1>4, <1>6, <1>7 DEF SameFlags

(* The tags, the controls and the pin are not flags.                       *)
LEMMA OtherColumn ==
  ASSUME NEW p \in Post, NEW x
  PROVE  /\ SameFlags([ p EXCEPT !.tags = x ], p) /\ SameFlags([ p EXCEPT !.controls = x ], p)
         /\ SameFlags([ p EXCEPT !.pinned = x ], p)
BY DEF SameFlags, Post

(* Each handler.                                                           *)
LEMMA HandledFlags ==
  ASSUME DeliveryAssumption, TypeInv, ReadInv, Handle, NEW message, message = post', message # None
  PROVE  FlagsAfter(message)
<1>1. CASE PostCard
  <2>1. Handling("post_card") /\ UNCHANGED row
    BY <1>1 DEF PostCard, store
  <2>2. Head1 = "post_card" /\ doing \in Reading /\ labelTag \in LabelTags /\ doing.card.posted \in BOOLEAN
    BY <2>1, AtHandler DEF Row
  <2>4. ASSUME NEW made \in LabelTagged, NEW a, a = Assembled(made, FALSE)
        PROVE  a.card \in {doing.card, row}
    <3>2. FALSE \in BOOLEAN
      OBVIOUS
    <3>1. \E card \in Row, text \in Nat, tags \in TagSet \cup {None}, tag \in LabelTags :
            /\ Assembled(made, FALSE) = [ card |-> card, text |-> text, tags |-> tags, tag |-> tag ]
            /\ (card = doing.card /\ text = doing.text) \/ (card = row /\ text = alert.text)
            /\ tag = labelTag \/ tag.known \in {0, tag.forum}
            /\ policy.forum => tags # None /\ tags.state = TagState(card.state)
            /\ ~policy.forum => tags = None
      BY <2>2, <3>2, AssembledIs
    <3>3. PICK card \in Row, text \in Nat, tags \in TagSet \cup {None}, tag \in LabelTags :
            /\ a = [ card |-> card, text |-> text, tags |-> tags, tag |-> tag ]
            /\ card = doing.card \/ card = row
      BY <2>4, <3>1
    <3> QED BY <3>3
  <2>5. CASE doing.card.posted
    <3>1. message = post
      BY <1>1, <2>5 DEF PostCard
    <3> QED BY <2>2, <2>5, <3>1 DEF FlagsAfter, SameFlags
  <2>6. CASE ~doing.card.posted
    <3>1. \E made \in LabelTagged : \E shown, controls, pin :
            LET a == Assembled(made, FALSE)
            IN  message = [ shown |-> shown, controls |-> controls, tags |-> a.tags, archived |-> FALSE,
                            locked |-> FALSE, window |-> Window(a.card.state), pinned |-> pin ]
      BY <1>1, <2>6 DEF PostCard
    <3>6. PICK made \in LabelTagged : \E shown, controls, pin :
            LET a == Assembled(made, FALSE)
            IN  message = [ shown |-> shown, controls |-> controls, tags |-> a.tags, archived |-> FALSE,
                            locked |-> FALSE, window |-> Window(a.card.state), pinned |-> pin ]
      BY <3>1
    <3>2. PICK a, shown, controls, tags, pin :
            /\ a = Assembled(made, FALSE)
            /\ message = [ shown |-> shown, controls |-> controls, tags |-> tags, archived |-> FALSE,
                           locked |-> FALSE, window |-> Window(a.card.state), pinned |-> pin ]
      BY <3>6
    <3>3. a.card \in {doing.card, row}
      BY <2>4, <3>2
    <3>4. PICK card : card = a.card
      OBVIOUS
    <3>5. message.window = Window(card.state) /\ ~message.archived /\ ~message.locked
      BY <3>2, <3>4
    <3> QED BY <2>2, <2>6, <3>3, <3>4, <3>5 DEF FlagsAfter
  <2> QED BY <2>5, <2>6
<1>2. CASE EditCard
  <2>1. Handling("edit_card") /\ "edit_card" \in Kinds \ {"post_card", "set_flags"}
    BY <1>2 DEF EditCard, Kinds
  <2>2. CASE post' = post
    BY <2>1, <2>2, UntouchedFlags
  <2>3. CASE post' # post
    <3>1. /\ ~Unposted /\ doing.card.hash # Rendered(doing.card, doing.text) /\ post # None
          /\ message = Redrawn(post)
      BY <1>2, <2>3 DEF EditCard, MessageDeleted
    <3>2. PICK p \in Post : p = post
      BY <3>1 DEF TypeInv
    <3>3. SameFlags(message, Reopened(p))
      BY <3>1, <3>2, RedrawnFlags
    <3> QED BY <2>1, <3>1, <3>2, <3>3, KeptFlags DEF Unposted
  <2> QED BY <2>2, <2>3
<1>3. CASE ResyncCard
  <2>1. Handling("resync_card") /\ "resync_card" \in Kinds \ {"post_card", "set_flags"}
    BY <1>3 DEF ResyncCard, Kinds
  <2>2. CASE post' = post
    BY <2>1, <2>2, UntouchedFlags
  <2>3. CASE post' # post
    <3>1. PICK tags : tags = DesiredTags(doing.card, doing.known)
      OBVIOUS
    <3>2. /\ ~Unposted /\ post # None
          /\ message = Redrawn(post) \/ message = [ Redrawn(post) EXCEPT !.tags = tags ]
      BY <1>3, <2>3, <3>1 DEF ResyncCard, MessageDeleted
    <3>3. PICK p \in Post : p = post
      BY <3>2 DEF TypeInv
    <3>4. doing \in Reading
      BY <2>1, AtHandler
    <3>5. PICK drawn \in Post : drawn = Redrawn(p)
      BY <3>4, RedrawnIs
    <3>6. SameFlags(drawn, Reopened(p))
      BY <3>5, RedrawnFlags
    <3>7. message = drawn \/ message = [ drawn EXCEPT !.tags = tags ]
      BY <3>2, <3>3, <3>5
    <3>8. SameFlags(message, Reopened(p))
      <4>1. SameFlags([ drawn EXCEPT !.tags = tags ], drawn)
        BY OtherColumn
      <4>2. SameFlags(message, drawn)
        BY <3>7, <4>1 DEF SameFlags
      <4> QED BY <3>6, <4>2 DEF SameFlags
    <3> QED BY <2>1, <3>2, <3>3, <3>8, KeptFlags DEF Unposted
  <2> QED BY <2>2, <2>3
<1>4. CASE SetTags
  <2>1. Handling("set_tags") /\ "set_tags" \in Kinds \ {"post_card", "set_flags"}
    BY <1>4 DEF SetTags, Kinds
  <2>2. CASE post' = post
    BY <2>1, <2>2, UntouchedFlags
  <2>3. CASE post' # post
    <3>1. ~Unposted
      BY <1>4, <2>3 DEF SetTags
    <3>2. PICK made \in LabelTagged :
            LET a == Assembled(made, Skip(First(made)))
            IN  IF Skip(a) \/ post = None THEN post' = post
                ELSE post' = [ Reopened(post) EXCEPT !.tags = a.tags ]
      BY <1>4, <3>1 DEF SetTags, Unposted
    <3>7. PICK tags : tags = Assembled(made, Skip(First(made))).tags
      OBVIOUS
    <3>3. ~Unposted /\ post # None /\ message = [ Reopened(post) EXCEPT !.tags = tags ]
      BY <2>3, <3>1, <3>2, <3>7
    <3>4. PICK p \in Post : p = post
      BY <3>3 DEF TypeInv
    <3>5. PICK opened \in Post : opened = Reopened(p)
      BY ReopenedIs
    <3>6. SameFlags(message, Reopened(p))
      BY <3>3, <3>4, <3>5, OtherColumn
    <3> QED BY <2>1, <3>3, <3>4, <3>6, KeptFlags DEF Unposted
  <2> QED BY <2>2, <2>3
<1>5. ASSUME NEW kind \in {"thread_note", "escalate"}, Say(kind)
      PROVE  FlagsAfter(message)
  <2>1. Handling(kind) /\ kind \in Kinds \ {"post_card", "set_flags"} /\ kind \notin {"edit_card", "set_pinned"}
    BY <1>5 DEF Say, Kinds
  <2>2. CASE post' = post
    BY <2>1, <2>2, UntouchedFlags
  <2>3. CASE post' # post
    <3>1. ~Unposted /\ post # None /\ message = Reopened(post)
      BY <1>5, <2>3 DEF Say
    <3>2. PICK p \in Post : p = post
      BY <3>1 DEF TypeInv
    <3>3. SameFlags(message, Reopened(p))
      BY <3>1, <3>2 DEF SameFlags
    <3> QED BY <2>1, <3>1, <3>2, <3>3, KeptFlags DEF Unposted
  <2> QED BY <2>2, <2>3
<1>6. CASE SetPostFlags
  <2>1. Handling("set_flags") /\ Head1 = "set_flags" /\ batch \in Seq(Queued) /\ batch # <<>> /\ doing.card.posted \in BOOLEAN
    <3>1. Handling("set_flags")
      BY <1>6 DEF SetPostFlags
    <3> QED BY <3>1, AtHandler DEF Row
  <2>2. PICK flags \in Flags : flags = Head(batch).flags
    <3>1. Head(batch) \in Queued
      BY <2>1, HeadTailProperties
    <3> QED BY <2>1, <3>1 DEF Queued, Head1
  <2>3. CASE Superseded(flags) \/ Unposted
    <3>1. message = post
      BY <1>6, <2>2, <2>3 DEF SetPostFlags
    <3> QED BY <2>1, <2>2, <2>3, <3>1 DEF FlagsAfter, SameFlags, Unposted
  <2>4. CASE ~Superseded(flags) /\ ~Unposted
    <3>1. post # None /\ message = [ post EXCEPT !.archived = flags.archived, !.locked = flags.locked,
                                                 !.window = flags.window ]
      BY <1>6, <2>2, <2>4 DEF SetPostFlags
    <3>2. PICK p \in Post : p = post
      BY <3>1 DEF TypeInv
    <3>3. PICK archived, locked, window : archived = flags.archived /\ locked = flags.locked /\ window = flags.window
      OBVIOUS
    <3>4. message = [ p EXCEPT !.archived = archived, !.locked = locked, !.window = window ]
      BY <3>1, <3>2, <3>3
    <3>5. message.archived = archived /\ message.locked = locked /\ message.window = window
      BY <3>4 DEF Post
    <3>6. SameFlags(message, flags)
      BY <3>3, <3>5 DEF SameFlags
    <3> QED BY <2>1, <2>2, <2>4, <3>1, <3>6 DEF FlagsAfter, Unposted
  <2> QED BY <2>3, <2>4
<1>7. CASE SetPostPinned
  <2>1. Handling("set_pinned") /\ "set_pinned" \in Kinds \ {"post_card", "set_flags"}
    BY <1>7 DEF SetPostPinned, Kinds
  <2>2. CASE post' = post
    BY <2>1, <2>2, UntouchedFlags
  <2>3. CASE post' # post
    <3>1. PICK pin : pin = Head(batch).pin
      OBVIOUS
    <3>2. post # None /\ message = [ post EXCEPT !.pinned = pin ]
      BY <1>7, <2>3, <3>1 DEF SetPostPinned
    <3>3. PICK p \in Post : p = post
      BY <3>2 DEF TypeInv
    <3>4. SameFlags(message, p)
      BY <3>2, <3>3, OtherColumn
    <3> QED BY <2>1, <3>3, <3>4, KeptFlags
  <2> QED BY <2>2, <2>3
<1>8. CASE DisableComponents
  <2>1. Handling("disable_components") /\ "disable_components" \in Kinds \ {"post_card", "set_flags"}
    BY <1>8 DEF DisableComponents, Kinds
  <2>2. CASE post' = post
    BY <2>1, <2>2, UntouchedFlags
  <2>3. CASE post' # post
    <3>1. ~Unposted /\ post # None /\ message = [ Reopened(post) EXCEPT !.controls = FALSE ]
      BY <1>8, <2>3 DEF DisableComponents
    <3>2. PICK p \in Post : p = post
      BY <3>1 DEF TypeInv
    <3>3. PICK opened \in Post : opened = Reopened(p)
      BY ReopenedIs
    <3>4. SameFlags(message, Reopened(p))
      BY <3>1, <3>2, <3>3, OtherColumn
    <3> QED BY <2>1, <3>1, <3>2, <3>4, KeptFlags DEF Unposted
  <2> QED BY <2>2, <2>3
<1> QED BY <1>1, <1>2, <1>3, <1>4, <1>5, <1>6, <1>7, <1>8 DEF Handle, ThreadNote, Escalate

-----------------------------------------------------------------------------
(* A live card's post is held open.                                        *)
LEMMA FlagsKnownStep ==
  ASSUME DeliveryAssumption, TypeInv, ReadInv, FlagsKnown, [Next]_vars
  PROVE  FlagsKnown'
<1>1. ApplyDecision /\ plan.card.state # "orphaned" => ~Holding(Effects(plan.card, StateAfter(plan)), Wrong)
  <2>1. SUFFICES ASSUME ApplyDecision, plan.card.state # "orphaned"
                 PROVE  ~Holding(Effects(plan.card, StateAfter(plan)), Wrong)
    OBVIOUS
  <2>2. plan \in Plan /\ policy \in Policies
    BY <2>1 DEF ApplyDecision, TypeInv
  <2>3. PICK card \in Row, state \in States \cup {None} : card = plan.card /\ state = StateAfter(plan)
    <3>1. plan.card \in Row
      BY <2>2 DEF Plan
    <3>2. StateAfter(plan) \in States \cup {None}
      BY StateAfterType
    <3> QED BY <3>1, <3>2
  <2>4. ~Holding(Effects(card, state), Wrong)
    BY <2>2, EffectsFlags
  <2> QED BY <2>3, <2>4
<1>2. \A kind \in {"resync_card", "escalate"} : Item(kind, 0) \notin Wrong
  BY DEF Item, Wrong, LiveFlags
<1>3. Item("edit_card", 0) \notin Wrong
  BY DEF Item, Wrong, LiveFlags
<1>4. ~Holding(queue', Wrong) /\ ~Holding(batch', Wrong)
  BY <1>1, <1>2, <1>3, LiveFlagsSteady, NothingComes DEF FlagsKnown, Steady
<1> QED BY <1>4 DEF FlagsKnown

(* An acknowledgement neither resolves a card nor brings it back.          *)
LEMMA AcknowledgedIs ==
  ASSUME Acknowledge
  PROVE  /\ row.state # "orphaned" /\ row'.state # "orphaned"
         /\ HoldsThreadOpen(row'.state) <=> HoldsThreadOpen(row.state)
         /\ row'.state = "resolved" <=> row.state = "resolved"
<1>1. PICK state : state = NextState(row.state, IF held THEN "ack_revoked" ELSE "acknowledged", ~held)
  OBVIOUS
<1>2. /\ row.state # "orphaned"
      /\ row' = IF state = None THEN row ELSE [ row EXCEPT !.state = state ]
  BY <1>1 DEF Acknowledge
<1>3. state = None \/ (state \in {"acked", "firing"} /\ row.state \in {"acked", "firing"})
  BY <1>1 DEF NextState
<1>4. state # None => row'.state = state \/ row' = row
  BY <1>2
<1> QED BY <1>2, <1>3, <1>4 DEF HoldsThreadOpen


(* Where the row of a card that a handler or an answer leaves stands.      *)
LEMMA HandledRow ==
  ASSUME DeliveryAssumption, TypeInv, ReadInv, Handle
  PROVE  row' = row \/ (row'.state = "orphaned" /\ ~row'.posted)
<1>1. PICK kind \in Kinds : Did(kind, doing', row', post', labelTag')
  BY HandleIs
<1>2. PICK old \in Row : old = row
  BY DEF TypeInv
<1>4. PICK card : card = row'
  OBVIOUS
<1>3. card = old \/ card = [ old EXCEPT !.state = "orphaned", !.posted = FALSE, !.pinned = FALSE ]
  BY <1>1, <1>2, <1>4 DEF Did
<1>5. [ old EXCEPT !.state = "orphaned", !.posted = FALSE, !.pinned = FALSE ].state = "orphaned"
      /\ [ old EXCEPT !.state = "orphaned", !.posted = FALSE, !.pinned = FALSE ].posted = FALSE
  BY DEF Row
<1> QED BY <1>2, <1>3, <1>4, <1>5

(* A card crosses between live and resolved with its plan only.            *)
LEMMA PlanStep ==
  ASSUME DeliveryAssumption, TypeInv, ReadInv, PlanInv, [Next]_vars
  PROVE  PlanInv'
<1>1. ASSUME UNCHANGED plan, row'.state = row.state \/ row'.state = "orphaned"
      PROVE  PlanInv'
  BY <1>1 DEF PlanInv
<1>2. CASE \E new \in Incoming : Deliver(new)
  <2>1. plan'.card = row /\ row' = row
    BY <1>2, DeliverIs DEF Deliver
  <2> QED BY <2>1 DEF PlanInv
<1>3. CASE ApplyDecision
  BY <1>3 DEF ApplyDecision, PlanInv
<1>4. CASE Acknowledge
  BY <1>4, AcknowledgedIs DEF PlanInv, Acknowledge
<1>5. CASE Handle
  BY <1>1, <1>5, HandledRow, HandleIs
<1>6. CASE Settle
  BY <1>1, <1>6, SettledIs
<1>7. CASE Stops
  BY <1>1, <1>7, StoppedIs
<1>8. CASE \/ \E kind \in {"resync_card", "escalate"} : Request(kind)
           \/ Tick \/ Claim \/ ReadRow \/ Crash \/ IdleArchive \/ DeleteTag \/ DeleteMessage \/ UNCHANGED vars
  BY <1>1, <1>8 DEF Request, Tick, Claim, ReadRow, Crash, IdleArchive, DeleteTag, DeleteMessage, store, vars
<1> QED BY <1>2, <1>3, <1>4, <1>5, <1>6, <1>7, <1>8 DEF Next, Work, Stops

(* What holds of the post is not lost with more of the budget spent.       *)
LEMMA HeldStep ==
  ASSUME DeliveryAssumption, TypeInv, ReadInv, [Next]_vars,
         NEW p, HeldOpen(p), NEW q, SameFlags(q, p)
  PROVE  ~q.locked /\ q.window = "week" /\ (q.archived => ~Unused("idle")')
<1>1. Unused("idle")' => Unused("idle")
  BY UnusedStep DEF Sources
<1> QED BY <1>1 DEF HeldOpen, SameFlags

(* What holds the post open stays so while the worker does nothing.        *)
LEMMA OpenKept ==
  ASSUME DeliveryAssumption, TypeInv, ReadInv, [Next]_vars, FlagsUnderWay \/ HeldFresh,
         UNCHANGED <<doing, batch>>, row'.posted = row.posted,
         post' # None => post # None /\ (HeldOpen(post) => HeldOpen(post)')
  PROVE  FlagsUnderWay' \/ HeldFresh'
<1>1. /\ IsRead' <=> IsRead
      /\ IsAnswered' <=> IsAnswered
      /\ Landing' <=> Landing
      /\ Head1' = Head1
  BY DEF IsRead, IsAnswered, Landing, Head1
<1>2. CASE FlagsUnderWay
  BY <1>1, <1>2 DEF FlagsUnderWay
<1>3. CASE HeldFresh
  BY <1>1, <1>3 DEF HeldFresh
<1> QED BY <1>2, <1>3

(* The same of the flags alone.                                            *)
LEMMA SameHeld ==
  ASSUME DeliveryAssumption, TypeInv, ReadInv, [Next]_vars,
         UNCHANGED post \/ (post # None /\ SameFlags(post', post))
  PROVE  HeldOpen(post) => HeldOpen(post)'
<1>1. PICK p, q : p = post /\ q = post'
  OBVIOUS
<1>2. SameFlags(q, p)
  BY <1>1 DEF SameFlags
<1>3. HeldOpen(p) => ~q.locked /\ q.window = "week" /\ (q.archived => ~Unused("idle")')
  BY <1>2, HeldStep
<1> QED BY <1>1, <1>3 DEF HeldOpen

(* Flags that are read for a live card are under way.                      *)
LEMMA OpenRead ==
  ASSUME DeliveryAssumption, TypeInv, ReadInv, ReadRow, HoldsThreadOpen(row.state),
         FlagsAhead \/ FlagsUnderWay \/ HeldFresh
  PROVE  FlagsAhead' \/ FlagsUnderWay' \/ HeldFresh'
<1>1. /\ doing = None /\ doing' # None /\ IsRead' /\ ~IsAnswered' /\ doing'.card = row
  BY ReadRowIs
<1>2. UNCHANGED <<row, batch, post, left>>
  BY DEF ReadRow, store
<1>3. HoldsThreadOpen(doing'.card.state)
  BY <1>1
<1>4. CASE Head(batch) \in LiveFlags
  BY <1>1, <1>2, <1>3, <1>4 DEF FlagsUnderWay
<1>5. CASE Head(batch) \notin LiveFlags /\ FlagsAhead
  <2>1. [Next]_vars
    BY DEF Next, Work
  <2> QED BY <1>5, <2>1, AheadInStep, LiveFlagsSteady DEF FlagsAhead
<1>6. CASE HeldFresh
  <2>1. post' # None /\ row'.posted => HeldOpen(post)'
    BY <1>2, <1>6 DEF HeldFresh, HeldOpen, Unused
  <2> QED BY <1>1, <1>3, <2>1 DEF HeldFresh, Landing
<1> QED BY <1>1, <1>4, <1>5, <1>6 DEF FlagsUnderWay

(* A handler that read a live card leaves its post open.                   *)
LEMMA OpenHandled ==
  ASSUME DeliveryAssumption, TypeInv, ReadInv, FlagsKnown, Handle, HoldsThreadOpen(row.state), row' = row,
         FlagsUnderWay \/ HeldFresh
  PROVE  FlagsUnderWay' \/ HeldFresh'
<1>1. PICK kind \in Kinds : Did(kind, doing', row', post', labelTag')
  BY HandleIs
<1>2. /\ UNCHANGED <<batch, left>> /\ SameColumns(doing.card, row) /\ batch # <<>> /\ batch \in Seq(Queued)
      /\ doing # None /\ IsRead /\ ~IsAnswered /\ doing' # None /\ IsAnswered' /\ ~IsRead'
  BY HandleIs DEF TypeInv
<1>3. PICK message, idle : message = post' /\ idle = Unused("idle")
  OBVIOUS
<1>4. (Unused("idle")' <=> idle) /\ Head1' = Head1
  BY <1>2, <1>3 DEF Unused, Head1
<1>5. message # None => FlagsAfter(message)
  BY <1>3, HandledFlags
<1>6. Landing' => Head1 = "post_card"
  BY <1>1 DEF Did, Landing, Head1
<1>7. doing.card.posted = row.posted
  BY <1>2 DEF SameColumns
<1>8. PICK first \in Queued : first = Head(batch) /\ (first \in LiveFlags => first \notin Wrong) /\ Head1 = first.kind
  <2>1. PICK b \in Seq(Queued) : b = batch /\ b # <<>>
    BY <1>2
  <2>2. Head(b) \in Queued
    BY <2>1, FirstAndRest
  <2>3. Head(b) \notin Wrong
    BY <2>1, FirstHold DEF FlagsKnown
  <2> QED BY <2>1, <2>2, <2>3 DEF Head1
<1>9. ASSUME NEW p, SameFlags(p, first.flags), first.kind = "set_flags", HoldsThreadOpen(first.flags.planned)
      PROVE  ~p.archived /\ ~p.locked /\ p.window = "week"
  BY <1>8, <1>9 DEF SameFlags, LiveFlags, Wrong
<1>10. CASE FlagsUnderWay
  <2>1. Head1 = "set_flags" /\ first \in LiveFlags /\ (row.posted => HoldsThreadOpen(doing.card.state))
    BY <1>2, <1>8, <1>10 DEF FlagsUnderWay, LiveFlags
  <2>2. row.posted /\ message # None => ~message.archived /\ ~message.locked /\ message.window = "week"
    <3>1. SUFFICES ASSUME row.posted, message # None
                   PROVE  ~message.archived /\ ~message.locked /\ message.window = "week"
      OBVIOUS
    <3>2. ~Superseded(first.flags) /\ HoldsThreadOpen(first.flags.planned)
      BY <2>1, <3>1 DEF Superseded, LiveFlags
    <3>3. SameFlags(message, first.flags)
      BY <1>5, <1>7, <1>8, <2>1, <3>1, <3>2 DEF FlagsAfter
    <3> QED BY <1>8, <1>9, <2>1, <3>2, <3>3
  <2> QED BY <1>2, <1>3, <1>8, <2>1, <2>2 DEF FlagsUnderWay, HeldOpen
<1>11. CASE HeldFresh
  <2>1. /\ post # None /\ row.posted => ~post.locked /\ post.window = "week" /\ (post.archived => ~idle)
        /\ Head1 = "post_card" \/ row.posted => HoldsThreadOpen(doing.card.state)
    BY <1>2, <1>3, <1>11 DEF HeldFresh, HeldOpen
  <2>2. SUFFICES ASSUME message # None, row.posted \/ Head1 = "post_card"
                 PROVE  ~message.locked /\ message.window = "week" /\ (message.archived => ~idle)
    BY <1>2, <1>3, <1>4, <1>6 DEF HeldFresh, HeldOpen
  <2>3. HoldsThreadOpen(doing.card.state)
    BY <2>1, <2>2
  <2>4. Window(doing.card.state) = "week" /\ Window(row.state) = "week"
    BY <2>3 DEF Window
  <2>5. CASE Head1 = "set_flags" /\ ~Superseded(Head(batch).flags) /\ SameFlags(message, Head(batch).flags)
    <3>1. HoldsThreadOpen(first.flags.planned)
      BY <1>8, <2>3, <2>5 DEF Superseded
    <3> QED BY <1>8, <1>9, <2>5, <3>1
  <2>6. CASE post # None /\ SameFlags(message, post) /\ (Head1 = "post_card" => doing.card.posted)
    BY <1>7, <2>1, <2>2, <2>6 DEF SameFlags
  <2> QED BY <1>5, <2>2, <2>4, <2>5, <2>6 DEF FlagsAfter
<1> QED BY <1>10, <1>11

(* Flags that failed are queued again, and others have been set.           *)
LEMMA OpenSettled ==
  ASSUME DeliveryAssumption, TypeInv, ReadInv, Settle, FlagsUnderWay \/ HeldFresh
  PROVE  FlagsAhead' \/ HeldFresh'
<1>1. /\ doing # None /\ IsAnswered /\ ~IsRead /\ doing' = None /\ UNCHANGED <<post, left>>
      /\ row'.posted = Coalesce(doing.applied.posted, row.posted)
  BY SettledIs
<1>2. /\ doing.applied.posted # None => Head1 = "post_card"
      /\ doing.applied.posted = None => row'.posted = row.posted
  BY <1>1 DEF ReadInv, Coalesce
<1>3. ~IsRead' /\ ~Landing' /\ (HeldOpen(post) => HeldOpen(post)')
  BY <1>1 DEF IsRead, IsAnswered, Landing, HeldOpen, Unused
<1>4. CASE FlagsUnderWay
  <2>1. Head(batch) \in LiveFlags /\ Head1 = "set_flags"
    BY <1>4 DEF FlagsUnderWay, LiveFlags, Head1
  <2>2. CASE doing.verdict = "retry"
    <3>1. Holding(queue', LiveFlags)
      BY <2>1, <2>2, AgainHeld, LiveFlagsSteady DEF Steady
    <3> QED BY <3>1 DEF FlagsAhead, AheadIn
  <2>3. CASE doing.verdict # "retry"
    <3>1. row'.posted = row.posted
      BY <1>2, <2>1
    <3> QED BY <1>1, <1>3, <1>4, <2>3, <3>1 DEF FlagsUnderWay, HeldFresh
  <2> QED BY <2>2, <2>3
<1>5. CASE HeldFresh
  <2>1. row'.posted => row.posted \/ Landing
    BY <1>1, <1>2 DEF Landing
  <2> QED BY <1>1, <1>3, <1>5, <2>1 DEF HeldFresh
<1> QED BY <1>4, <1>5

(* A decision that brings a card back queues the flags that open its post. *)
LEMMA OpenApplied ==
  ASSUME DeliveryAssumption, TypeInv, ReadInv, OnePostInv, PlanInv, OpenInv, ApplyDecision,
         policy.forum, HoldsThreadOpen(row'.state), Unused("refusals")
  PROVE  FlagsAhead' \/ FlagsUnderWay' \/ HeldFresh'
<1>1. plan \in Plan /\ plan # None /\ UNCHANGED <<policy, batch, doing, post, left>> /\ SameColumns(row, row')
  BY ApplyIs DEF ApplyDecision
<1>2. [Next]_vars
  BY DEF Next
<1>3. CASE HoldsThreadOpen(row.state)
  <2>1. CASE FlagsAhead
    <3>1. Holding(queue, LiveFlags) => Holding(queue', LiveFlags)
      BY ApplyHold, LiveFlagsSteady
    <3> QED BY <1>1, <2>1, <3>1 DEF FlagsAhead, AheadIn
  <2>2. CASE FlagsUnderWay \/ HeldFresh
    <3>1. row'.posted = row.posted /\ (HeldOpen(post) => HeldOpen(post)')
      BY <1>1 DEF SameColumns, HeldOpen, Unused
    <3> QED BY <1>1, <1>2, <2>2, <3>1, OpenKept
  <2> QED BY <1>3, <2>1, <2>2 DEF OpenInv
<1>4. CASE ~HoldsThreadOpen(row.state)
  <2>1. row' # row /\ plan.card.state # "orphaned"
    BY <1>4 DEF ApplyDecision
  <2>2. PICK state \in States \cup {None} : state = StateAfter(plan)
    BY StateAfterType
  <2>3. state # None /\ row' = [ row EXCEPT !.state = state ]
    BY <2>1, <2>2 DEF ApplyDecision
  <2>4. HoldsThreadOpen(state)
    <3>1. row'.state = state \/ row' = row
      BY <2>3
    <3> QED BY <2>1, <3>1
  <2>5. CASE row.state = "resolved"
    <3>1. plan.card.state = "resolved"
      BY <1>1, <1>4, <2>1, <2>5 DEF PlanInv, HoldsThreadOpen
    <3>2. PICK card \in Row : card = plan.card
      BY <1>1 DEF Plan
    <3>3. policy \in Policies
      BY DEF TypeInv
    <3>4. Holding(Effects(card, state), LiveFlags)
      BY <2>3, <2>4, <3>1, <3>2, <3>3, EffectsFlags
    <3>5. Holding(queue', LiveFlags)
      BY <2>1, <2>2, <3>2, <3>4, ApplyHold, LiveFlagsSteady
    <3> QED BY <3>5 DEF FlagsAhead, AheadIn
  <2>6. CASE row.state = "orphaned"
    <3>1. ~row.posted /\ ~PostPending
      BY <2>6 DEF OnePostInv
    <3>2. ~(doing # None /\ (Head1 = "post_card" \/ Landing))
      BY <3>1, PostIsPending
    <3>3. ~row'.posted /\ Head1' = Head1 /\ (Landing' <=> Landing) /\ (IsRead' <=> IsRead)
      BY <1>1, <3>1 DEF Head1, Landing, IsAnswered, IsRead, SameColumns
    <3>4. ~Landing' /\ (IsRead' => Head1' # "post_card")
      BY <3>2, <3>3 DEF Landing, IsRead, IsAnswered
    <3> QED BY <3>3, <3>4 DEF HeldFresh
  <2> QED BY <1>4, <2>5, <2>6 DEF HoldsThreadOpen
<1> QED BY <1>3, <1>4

(* The flags that open the post stay ahead until it is open.               *)
LEMMA OpenStep ==
  ASSUME DeliveryAssumption, TypeInv, ReadInv, OnePostInv, FlagsKnown, PlanInv, OpenInv, [Next]_vars
  PROVE  OpenInv'
<1>0. Unused("refusals")' => Unused("refusals")
  BY UnusedStep DEF Sources
<1>1. SUFFICES ASSUME policy.forum, HoldsThreadOpen(row'.state), Unused("refusals"), Unused("refusals")'
               PROVE  FlagsAhead' \/ FlagsUnderWay' \/ HeldFresh'
  BY <1>0, PolicyStep DEF OpenInv
<1>2. CASE ApplyDecision
  BY <1>1, <1>2, OpenApplied
<1>3. ASSUME ~ApplyDecision
      PROVE  HoldsThreadOpen(row.state) /\ (Handle => row' = row)
  <2>1. CASE Handle
    BY <1>1, <2>1, HandledRow DEF HoldsThreadOpen
  <2>2. CASE Acknowledge
    BY <1>1, <2>2, AcknowledgedIs, HandledRow DEF HoldsThreadOpen
  <2>3. CASE Settle \/ Stops
    BY <1>1, <2>3, SettledIs, StoppedIs, HandledRow DEF HoldsThreadOpen
  <2>4. CASE UNCHANGED row
    BY <1>1, <2>4
  <2>5. CASE \/ \E new \in Incoming : Deliver(new)
             \/ \E kind \in {"resync_card", "escalate"} : Request(kind)
             \/ Tick \/ Claim \/ ReadRow \/ Crash \/ IdleArchive \/ DeleteTag \/ DeleteMessage \/ UNCHANGED vars
    BY <2>4, <2>5 DEF Deliver, Request, Tick, Claim, ReadRow, Crash, IdleArchive, DeleteTag, DeleteMessage, store, vars
  <2> QED BY <1>3, <2>1, <2>2, <2>3, <2>5 DEF Next, Work, Stops
<1>4. ASSUME ~ApplyDecision
      PROVE  FlagsAhead' \/ FlagsUnderWay' \/ HeldFresh'
  <2>1. HoldsThreadOpen(row.state) /\ (FlagsAhead \/ FlagsUnderWay \/ HeldFresh)
    BY <1>1, <1>3, <1>4 DEF OpenInv
  <2>2. CASE ReadRow
    BY <2>1, <2>2, OpenRead
  <2>3. CASE ~ReadRow /\ FlagsAhead
    BY <2>3, AheadInStep, LiveFlagsSteady DEF FlagsAhead
  <2>4. ASSUME FlagsUnderWay \/ HeldFresh, ~ReadRow
        PROVE  FlagsAhead' \/ FlagsUnderWay' \/ HeldFresh'
    <3>1. CASE UNCHANGED <<doing, batch, row, post>>
      <4>1. HeldOpen(post) => HeldOpen(post)'
        BY <3>1, SameHeld
      <4> QED BY <2>4, <3>1, <4>1, OpenKept
    <3>2. CASE Acknowledge
      <4>1. SameColumns(row, row') /\ UNCHANGED <<doing, batch, post>>
        BY <3>2, AcknowledgeIs DEF Acknowledge
      <4>2. HeldOpen(post) => HeldOpen(post)'
        BY <4>1, SameHeld
      <4> QED BY <2>4, <4>1, <4>2, OpenKept DEF SameColumns
    <3>3. CASE Handle
      BY <1>3, <1>4, <2>1, <2>4, <3>3, OpenHandled
    <3>4. CASE Settle
      BY <2>4, <3>4, OpenSettled
    <3>5. CASE Claim
      <4>1. doing = None /\ doing' = None /\ UNCHANGED <<row, post, left>>
        BY <3>5, ClaimIs DEF Claim, store
      <4> QED BY <2>4, <4>1 DEF FlagsUnderWay, HeldFresh, IsRead, IsAnswered, Landing, HeldOpen, Unused
    <3>6. CASE Crash
      <4>1. doing' = None /\ UNCHANGED <<row, post>> /\ batch # <<>>
        BY <3>6 DEF Crash, store
      <4>2. CASE FlagsUnderWay
        <5>1. Holding(queue', LiveFlags)
          BY <3>6, <4>1, <4>2, AgainHeld, LiveFlagsSteady DEF FlagsUnderWay, Steady
        <5> QED BY <5>1 DEF FlagsAhead, AheadIn
      <4>3. CASE HeldFresh
        <5>1. HeldOpen(post) => HeldOpen(post)'
          BY <4>1, SameHeld
        <5> QED BY <4>1, <4>3, <5>1 DEF HeldFresh, IsRead, IsAnswered, Landing
      <4> QED BY <2>4, <4>2, <4>3
    <3>7. CASE Stops
      <4>1. /\ doing' # None /\ IsAnswered' /\ ~IsRead' /\ doing # None /\ doing'.applied.posted = None
            /\ doing'.verdict \in {"retry", "drop"}
            /\ doing'.verdict = "drop" => Head1 \in {"post_card", "set_tags"}
            /\ UNCHANGED <<row, batch>>
        BY <1>1, <3>7, StoppedIs
      <4>2. post' = post \/ (post # None /\ Opened(post'))
        BY <3>7, StoppedPost
      <4>3. (post' # None => post # None) /\ (HeldOpen(post) => HeldOpen(post)')
        <5>1. CASE post' = post
          BY <5>1, SameHeld
        <5>2. CASE post # None /\ SameFlags(post', post)
          BY <5>2, SameHeld
        <5>3. CASE post # None /\ ~post'.archived /\ ~post'.locked /\ post'.window = "week"
          BY <5>3 DEF HeldOpen
        <5> QED BY <4>2, <5>1, <5>2, <5>3 DEF Opened, SameFlags
      <4>4. ~Landing'
        BY <4>1 DEF Landing
      <4>5. CASE FlagsUnderWay
        <5>1. Head1 = "set_flags"
          BY <4>5 DEF FlagsUnderWay, LiveFlags, Head1
        <5>2. doing'.verdict = "retry"
          BY <4>1, <5>1
        <5> QED BY <4>1, <4>5, <5>2 DEF FlagsUnderWay
      <4>6. CASE HeldFresh
        BY <4>1, <4>3, <4>4, <4>6 DEF HeldFresh
      <4> QED BY <2>4, <4>5, <4>6
    <3>8. CASE IdleArchive
      <4>1. PICK p \in Post : p = post /\ post # None
        BY <3>8 DEF TypeInv, IdleArchive
      <4>2. PICK message : message = [ p EXCEPT !.archived = TRUE ]
        OBVIOUS
      <4>3. post' = message /\ message.locked = p.locked /\ message.window = p.window
        BY <3>8, <4>1, <4>2 DEF IdleArchive, Post
      <4>4. ~Unused("idle")'
        BY <3>8, SpentIs DEF IdleArchive, Sources
      <4>5. HeldOpen(post) => HeldOpen(post)'
        BY <4>1, <4>3, <4>4 DEF HeldOpen
      <4>6. UNCHANGED <<doing, batch, row>>
        BY <3>8 DEF IdleArchive, store
      <4> QED BY <2>4, <4>1, <4>5, <4>6, OpenKept
    <3>9. CASE DeleteTag
      <4>1. UNCHANGED <<doing, batch, row>> /\ (post' # None => post # None)
        BY <3>9, DeleteTagIs DEF DeleteTag, store
      <4>2. post' = post \/ (post # None /\ SameFlags(post', post))
        <5>1. CASE post = None \/ post.tags = None
          BY <3>9, <5>1 DEF DeleteTag
        <5>2. CASE post # None /\ post.tags # None
          <6>1. PICK p \in Post : p = post
            BY <5>2 DEF TypeInv
          <6>2. PICK message, fewer : fewer = [ p.tags EXCEPT !.label = 0 ] /\ message = [ p EXCEPT !.tags = fewer ]
            OBVIOUS
          <6>3. SameFlags(message, p)
            BY <6>2, OtherColumn
          <6>4. post' = message
            BY <3>9, <5>2, <6>1, <6>2 DEF DeleteTag
          <6> QED BY <5>2, <6>1, <6>3, <6>4 DEF SameFlags
        <5> QED BY <5>1, <5>2
      <4>3. HeldOpen(post) => HeldOpen(post)'
        BY <4>2, SameHeld
      <4> QED BY <2>4, <4>1, <4>3, OpenKept
    <3>10. CASE DeleteMessage
      <4>1. UNCHANGED <<doing, batch, row>> /\ post' = None
        BY <3>10 DEF DeleteMessage, store
      <4> QED BY <2>4, <4>1, OpenKept
    <3>11. CASE \/ \E new \in Incoming : Deliver(new)
                \/ \E kind \in {"resync_card", "escalate"} : Request(kind)
                \/ Tick \/ UNCHANGED vars
      BY <3>1, <3>11 DEF Deliver, Request, Tick, store, vars
    <3> QED BY <1>4, <2>4, <3>2, <3>3, <3>4, <3>5, <3>6, <3>7, <3>8, <3>9, <3>10, <3>11 DEF Next, Work, Stops
  <2> QED BY <2>1, <2>2, <2>3, <2>4
<1> QED BY <1>1, <1>2, <1>4

-----------------------------------------------------------------------------
(* The order of a queue.                                                   *)

(* Flags that let a thread go, all other flags, and what may open a thread *)
(* again unless it comes before them.                                      *)
Flagged == { item \in Queued : item.kind = "set_flags" }
Seals   == { item \in Flagged : ~HoldsThreadOpen(item.flags.planned) /\ item.flags.window = "route" }
Strays  == { item \in Flagged : item \notin Seals }
Openers ==
  { item \in Queued :
      item.kind \in {"post_card", "resync_card", "set_tags", "thread_note", "escalate", "disable_components"} }
Edits   == { item \in Queued : item.kind = "edit_card" }

(* The item at place i is before each of Y, and due no later.              *)
Precedes(q, i, Y) == \A j \in DOMAIN q : q[j] \in Y => i < j /\ q[i].due <= q[j].due
Ordered(q) == \A i \in DOMAIN q : q[i] \in Openers => Precedes(q, i, Seals)
Leads(q, i) == q[i] \in Edits /\ Precedes(q, i, Seals)

(* Places of q taken, at most once each, to those of r.                    *)
LEMMA KeptOrder ==
  ASSUME NEW q, NEW r, NEW g,
         \A k \in DOMAIN r : /\ g[k] \in DOMAIN q
                             /\ r[k] \in Openers => q[g[k]] \in Openers
                             /\ r[k] \in Seals => q[g[k]] \in Seals
                             /\ q[g[k]] \in Edits => r[k] \in Edits,
         \A k, m \in DOMAIN r : /\ g[k] < g[m] => k < m
                                /\ q[g[k]].due <= q[g[m]].due => r[k].due <= r[m].due
  PROVE  /\ Ordered(q) => Ordered(r)
         /\ \A k \in DOMAIN r : Leads(q, g[k]) => Leads(r, k)
<1>1. ASSUME NEW k \in DOMAIN r, Precedes(q, g[k], Seals)
      PROVE  Precedes(r, k, Seals)
  <2>1. SUFFICES ASSUME NEW m \in DOMAIN r, r[m] \in Seals
                 PROVE  k < m /\ r[k].due <= r[m].due
    BY DEF Precedes
  <2>2. g[m] \in DOMAIN q /\ q[g[m]] \in Seals
    BY <2>1
  <2>3. g[k] < g[m] /\ q[g[k]].due <= q[g[m]].due
    BY <1>1, <2>2 DEF Precedes
  <2> QED BY <2>3
<1>2. \A k \in DOMAIN r : Leads(q, g[k]) => Leads(r, k)
  BY <1>1 DEF Leads
<1>3. Ordered(q) => Ordered(r)
  BY <1>1 DEF Ordered
<1> QED BY <1>2, <1>3

(* Time keeps the order.                                                   *)
LEMMA TickOrder ==
  ASSUME TypeInv, Tick
  PROVE  /\ DOMAIN queue' = DOMAIN queue
         /\ Ordered(queue) => Ordered(queue')
         /\ \A i \in DOMAIN queue : Leads(queue, i) => Leads(queue', i)
<1>1. PICK p \in Seq(Queued) : p = queue
  BY DEF TypeInv
<1>2. PICK r : r = [ i \in DOMAIN p |-> [ p[i] EXCEPT !.due = IF @ = 0 THEN 0 ELSE @ - 1 ] ]
  OBVIOUS
<1>3. queue' = r
  BY <1>1, <1>2 DEF Tick
<1>4. DOMAIN p = 1..Len(p) /\ Len(p) \in Nat /\ DOMAIN r = DOMAIN p
  BY <1>2, LenProperties
<1>5. ASSUME NEW i \in DOMAIN p
      PROVE  /\ r[i] \in Queued /\ SameItem(r[i], p[i]) /\ p[i] \in Queued
             /\ r[i].due = IF p[i].due = 0 THEN 0 ELSE p[i].due - 1
             /\ p[i].due \in Nat
  <2>1. PICK old \in Queued : old = p[i]
    BY <1>4, ElementOfSeq
  <2>2. PICK due \in Nat : due = IF old.due = 0 THEN 0 ELSE old.due - 1
    BY DEF Queued, Items
  <2>3. [ old EXCEPT !.due = due ] \in Queued /\ SameItem([ old EXCEPT !.due = due ], old)
        /\ [ old EXCEPT !.due = due ].due = due
    BY DEF Queued, Items, SameItem
  <2>4. r[i] = [ old EXCEPT !.due = due ] /\ old.due \in Nat
    BY <1>2, <2>1, <2>2 DEF Queued, Items
  <2> QED BY <2>1, <2>2, <2>3, <2>4
<1>6. Timeless(Openers) /\ Timeless(Seals) /\ Timeless(Edits)
  BY DEF Timeless, SameItem, Openers, Seals, Flagged, Edits
<1> DEFINE g == [ i \in DOMAIN p |-> i ]
<1>7. \A i \in DOMAIN p : g[i] = i
  OBVIOUS
<1> HIDE DEF g
<1>8. \A k \in DOMAIN r : /\ g[k] \in DOMAIN p
                          /\ r[k] \in Openers => p[g[k]] \in Openers
                          /\ r[k] \in Seals => p[g[k]] \in Seals
                          /\ p[g[k]] \in Edits => r[k] \in Edits
  <2>1. \A k \in DOMAIN p : SameItem(p[k], r[k])
    BY <1>5 DEF SameItem
  <2> QED BY <1>4, <1>5, <1>6, <1>7, <2>1 DEF Timeless
<1>9. \A k, m \in DOMAIN r : /\ g[k] < g[m] => k < m
                             /\ p[g[k]].due <= p[g[m]].due => r[k].due <= r[m].due
  BY <1>4, <1>5, <1>7
<1>10. (Ordered(p) => Ordered(r)) /\ \A k \in DOMAIN r : Leads(p, g[k]) => Leads(r, k)
  BY <1>8, <1>9, KeptOrder
<1> QED BY <1>1, <1>3, <1>4, <1>7, <1>10

(* What is picked out of a queue keeps its order.                          *)
LEMMA PickedOrder ==
  ASSUME NEW q \in Seq(Queued), NEW S \in SUBSET DOMAIN q
  PROVE  /\ Ordered(q) => Ordered(ItemsAt(q, S))
         /\ \A i \in S : Leads(q, i) => \E k \in DOMAIN ItemsAt(q, S) : Leads(ItemsAt(q, S), k)
<1>1. Len(q) \in Nat /\ DOMAIN q = 1..Len(q)
  BY LenProperties
<1> DEFINE N == Cardinality(S)
           r == ItemsAt(q, S)
           g == [ m \in 1..N |-> PlaceOf(S, m) ]
<1>2. /\ \A m \in 1..N : PlaceOf(S, m) \in S
      /\ \A i \in S : \E m \in 1..N : PlaceOf(S, m) = i
      /\ \A k, m \in 1..N : PlaceOf(S, k) < PlaceOf(S, m) => k < m
  BY <1>1, PlacesAre
<1>3. DOMAIN r = 1..N /\ \A m \in 1..N : r[m] = q[PlaceOf(S, m)]
  BY DEF ItemsAt
<1>4. \A m \in 1..N : g[m] = PlaceOf(S, m)
  OBVIOUS
<1> HIDE DEF r, g, N
<1>5. \A k \in DOMAIN r : /\ g[k] \in DOMAIN q
                          /\ r[k] \in Openers => q[g[k]] \in Openers
                          /\ r[k] \in Seals => q[g[k]] \in Seals
                          /\ q[g[k]] \in Edits => r[k] \in Edits
  BY <1>2, <1>3, <1>4
<1>6. \A k, m \in DOMAIN r : /\ g[k] < g[m] => k < m
                             /\ q[g[k]].due <= q[g[m]].due => r[k].due <= r[m].due
  BY <1>2, <1>3, <1>4
<1>7. (Ordered(q) => Ordered(r)) /\ \A k \in DOMAIN r : Leads(q, g[k]) => Leads(r, k)
  BY <1>5, <1>6, KeptOrder
<1>8. \A i \in S : \E k \in DOMAIN r : g[k] = i
  BY <1>2, <1>3, <1>4
<1> QED BY <1>7, <1>8 DEF r

(* A claim takes whatever precedes a seal along with it.                   *)
LEMMA ClaimOrder ==
  ASSUME TypeInv, Claim, Ordered(queue)
  PROVE  /\ Ordered(queue') /\ Ordered(batch')
         /\ Holding(batch', Seals) => ~Holding(queue', Openers)
         /\ (\E i \in DOMAIN queue : Leads(queue, i)) =>
              \/ (\E i \in DOMAIN queue' : Leads(queue', i)) /\ ~Holding(batch', Seals)
              \/ \E i \in DOMAIN batch' : Leads(batch', i)
<1> DEFINE due == Sooner(queue, 0)
           rest == DOMAIN queue \ due
<1>1. /\ due \in SUBSET DOMAIN queue /\ rest \in SUBSET DOMAIN queue /\ DOMAIN queue = due \cup rest
      /\ \A i \in DOMAIN queue : i \in due <=> queue[i].due <= 0
      /\ due \cap rest = {}
  BY DEF Sooner
<1>2. queue' = ItemsAt(queue, rest) /\ batch' = ItemsAt(queue, due) /\ queue \in Seq(Queued)
  BY DEF Claim, TypeInv
<1> HIDE DEF due, rest
<1>0. PICK p \in Seq(Queued) : p = queue
  BY <1>2
<1>3. PICK S, T : p = queue /\ S = rest /\ T = due /\ S \in SUBSET DOMAIN p /\ T \in SUBSET DOMAIN p
  BY <1>0, <1>1
<1>4. PICK q, b : q = ItemsAt(p, S) /\ b = ItemsAt(p, T) /\ q = queue' /\ b = batch'
  BY <1>2, <1>3
<1>5. Ordered(q) /\ Ordered(b)
  BY <1>3, <1>4, PickedOrder
<1>6. /\ \A X : Holding(q, X) <=> \E i \in S : p[i] \in X
      /\ \A X : Holding(b, X) <=> \E i \in T : p[i] \in X
  BY <1>3, <1>4, ItemsAtHold
<1>10. \A i \in DOMAIN p : p[i].due \in Nat
  <2>1. DOMAIN p = 1..Len(p)
    BY LenProperties
  <2>2. \A i \in DOMAIN p : p[i] \in Queued
    BY <2>1, ElementOfSeq
  <2> QED BY <2>2 DEF Queued, Items
<1>7. ASSUME NEW i \in DOMAIN p, NEW j \in T, p[j] \in Seals, Precedes(p, i, Seals)
      PROVE  i \in T
  <2>1. j \in DOMAIN p /\ p[j].due <= 0
    BY <1>1, <1>3
  <2>2. p[i].due <= p[j].due
    BY <1>7, <2>1 DEF Precedes
  <2>3. p[i].due <= 0
    BY <1>10, <2>1, <2>2
  <2> QED BY <1>1, <1>3, <2>3
<1>8. Holding(b, Seals) => ~Holding(q, Openers)
  <2>1. SUFFICES ASSUME NEW j \in T, p[j] \in Seals, NEW i \in S, p[i] \in Openers
                 PROVE  FALSE
    BY <1>6
  <2>2. Precedes(p, i, Seals) /\ i \in DOMAIN p
    BY <1>3, <2>1 DEF Ordered
  <2> QED BY <1>1, <1>3, <1>7, <2>1, <2>2
<1>9. ASSUME NEW i \in DOMAIN p, Leads(p, i)
      PROVE  \/ (\E k \in DOMAIN q : Leads(q, k)) /\ ~Holding(b, Seals)
             \/ \E k \in DOMAIN b : Leads(b, k)
  <2>1. CASE i \in T
    BY <1>3, <1>4, <1>9, <2>1, PickedOrder
  <2>2. CASE i \notin T
    <3>1. i \in S
      BY <1>1, <1>3, <2>2
    <3>2. \E k \in DOMAIN q : Leads(q, k)
      BY <1>3, <1>4, <1>9, <3>1, PickedOrder
    <3>3. ~Holding(b, Seals)
      BY <1>6, <1>7, <1>9, <2>2 DEF Leads
    <3> QED BY <3>2, <3>3
  <2> QED BY <2>1, <2>2
<1> QED BY <1>3, <1>4, <1>5, <1>8, <1>9

(* So does what is completed.                                              *)
LEMMA TailOrder ==
  ASSUME NEW q \in Seq(Queued), q # <<>>
  PROVE  /\ Ordered(q) => Ordered(Tail(q))
         /\ \A i \in DOMAIN q : i # 1 /\ Leads(q, i) => \E k \in DOMAIN Tail(q) : Leads(Tail(q), k)
<1>1. PICK r : r = Tail(q)
  OBVIOUS
<1>2. /\ \A i \in DOMAIN r : i + 1 \in DOMAIN q /\ r[i] = q[i + 1]
      /\ \A i \in DOMAIN q : i # 1 => \E j \in DOMAIN r : r[j] = q[i] /\ i = j + 1
      /\ r \in Seq(Queued)
  BY <1>1, HeadTailIs
<1>3. DOMAIN r = 1..Len(r) /\ Len(r) \in Nat
  BY <1>2, LenProperties
<1> DEFINE g == [ i \in DOMAIN r |-> i + 1 ]
<1>4. \A i \in DOMAIN r : g[i] = i + 1
  OBVIOUS
<1> HIDE DEF g
<1>5. \A k \in DOMAIN r : /\ g[k] \in DOMAIN q
                          /\ r[k] \in Openers => q[g[k]] \in Openers
                          /\ r[k] \in Seals => q[g[k]] \in Seals
                          /\ q[g[k]] \in Edits => r[k] \in Edits
  BY <1>2, <1>4
<1>6. \A k, m \in DOMAIN r : /\ g[k] < g[m] => k < m
                             /\ q[g[k]].due <= q[g[m]].due => r[k].due <= r[m].due
  <2>1. \A k, m \in DOMAIN r : g[k] < g[m] => k < m
    BY <1>3, <1>4
  <2>2. \A k, m \in DOMAIN r : q[g[k]].due <= q[g[m]].due => r[k].due <= r[m].due
    BY <1>2, <1>4
  <2> QED BY <2>1, <2>2
<1>7. (Ordered(q) => Ordered(r)) /\ \A k \in DOMAIN r : Leads(q, g[k]) => Leads(r, k)
  BY <1>5, <1>6, KeptOrder
<1>8. \A i \in DOMAIN q : i # 1 => \E j \in DOMAIN r : g[j] = i
  BY <1>2, <1>4
<1> QED BY <1>1, <1>7, <1>8


(* An item put at the end.                                                 *)
LEMMA LastOrder ==
  ASSUME NEW q \in Seq(Queued), NEW item \in Queued, NEW r, r = q \o <<item>>,
         item \in Seals => \A i \in DOMAIN q : q[i].due <= item.due,
         item \in Seals => ~Holding(q, Seals),
         item \notin Openers
  PROVE  /\ Ordered(q) => Ordered(r)
         /\ \A i \in DOMAIN q : Leads(q, i) => i \in DOMAIN r /\ Leads(r, i)
<1>1. Len(q) \in Nat /\ DOMAIN q = 1..Len(q)
  BY LenProperties
<1>2. PICK n \in Nat : n = Len(q)
  BY <1>1
<1>3. DOMAIN r = 1..(n + 1) /\ (\A i \in 1..n : r[i] = q[i]) /\ r[n + 1] = item
  <2>1. <<item>> \in Seq(Queued) /\ Len(<<item>>) = 1 /\ <<item>>[1] = item
    BY OneIs
  <2>2. PICK one \in Seq(Queued) : one = <<item>> /\ Len(one) = 1 /\ one[1] = item
    BY <2>1
  <2>3. r \in Seq(Queued) /\ Len(r) = n + 1 /\ \A i \in 1..(n + 1) : r[i] = IF i <= n THEN q[i] ELSE one[i - n]
    BY <1>2, <2>2, ConcatProperties
  <2>4. DOMAIN r = 1..(n + 1)
    BY <2>3, LenProperties
  <2>5. n + 1 \in 1..(n + 1) /\ ~(n + 1 <= n) /\ (n + 1) - n = 1
    OBVIOUS
  <2> QED BY <2>2, <2>3, <2>4, <2>5
<1>4. \A j \in DOMAIN r : j \in DOMAIN q \/ j = n + 1
  BY <1>1, <1>2, <1>3
<1>5. ASSUME NEW i \in DOMAIN q, Precedes(q, i, Seals)
      PROVE  Precedes(r, i, Seals) /\ r[i] = q[i] /\ i \in DOMAIN r
  <2>1. i \in DOMAIN r /\ r[i] = q[i] /\ i < n + 1
    BY <1>1, <1>2, <1>3
  <2>2. item \in Seals => r[i].due <= r[n + 1].due
    BY <1>3, <2>1
  <2>3. ASSUME NEW j \in DOMAIN r, r[j] \in Seals
        PROVE  i < j /\ r[i].due <= r[j].due
    <3>1. CASE j \in DOMAIN q
      <4>1. r[j] = q[j]
        BY <1>1, <1>2, <1>3, <3>1
      <4> QED BY <1>5, <2>1, <2>3, <3>1, <4>1 DEF Precedes
    <3>2. CASE j = n + 1
      BY <1>3, <2>1, <2>2, <2>3, <3>2
    <3> QED BY <1>4, <2>3, <3>1, <3>2
  <2> QED BY <2>1, <2>3 DEF Precedes
<1>6. Ordered(q) => Ordered(r)
  <2>1. SUFFICES ASSUME Ordered(q), NEW i \in DOMAIN r, r[i] \in Openers
                 PROVE  Precedes(r, i, Seals)
    BY DEF Ordered
  <2>2. i \in DOMAIN q /\ r[i] = q[i]
    BY <1>1, <1>2, <1>3, <1>4, <2>1
  <2> QED BY <1>5, <2>1, <2>2 DEF Ordered
<1> QED BY <1>5, <1>6 DEF Leads

(* The whole of a queue picked out of it is the queue.                     *)
LEMMA AllPlaces ==
  ASSUME NEW q \in Seq(Queued)
  PROVE  ItemsAt(q, DOMAIN q) = q /\ ItemsAt(q, {}) = <<>> /\ Cardinality(DOMAIN q) = Len(q)
<1>0. ASSUME NEW m \in Nat
      PROVE  Cardinality(1..m) = m
  <2>1. 1 \in Int /\ m \in Int
    OBVIOUS
  <2>2. Cardinality(1..m) = IF 1 > m THEN 0 ELSE m - 1 + 1
    BY <2>1, FS_Interval
  <2> QED BY <2>2
<1>1. PICK n \in Nat : n = Len(q) /\ DOMAIN q = 1..n /\ Cardinality(1..n) = n
  <2>1. Len(q) \in Nat /\ DOMAIN q = 1..Len(q)
    BY LenProperties
  <2> QED BY <1>0, <2>1
<1> DEFINE Till(i) == { j \in 1..n : j <= i }
<1>2. \A i \in 1..n : Cardinality(Till(i)) = i
  <2>1. SUFFICES ASSUME NEW i \in 1..n
                 PROVE  Cardinality(Till(i)) = i
    OBVIOUS
  <2>2. Till(i) = 1..i
    OBVIOUS
  <2>3. Cardinality(1..i) = i
    BY <1>0
  <2> QED BY <2>2, <2>3
<1>3. \A m \in 1..n : PlaceOf(1..n, m) = m
  <2>1. SUFFICES ASSUME NEW m \in 1..n
                 PROVE  PlaceOf(1..n, m) = m
    OBVIOUS
  <2>2. PlaceOf(1..n, m) = CHOOSE i \in 1..n : Cardinality(Till(i)) = m
    BY DEF PlaceOf
  <2> HIDE DEF Till
  <2>3. (CHOOSE i \in 1..n : Cardinality(Till(i)) = m) = m
    BY <1>2
  <2> QED BY <2>2, <2>3
<1>4. ItemsAt(q, DOMAIN q) = q
  <2>1. PICK r \in Seq(Queued) : r = ItemsAt(q, DOMAIN q)
    BY ItemsAtIs
  <2>2. DOMAIN r = 1..n /\ \A m \in 1..n : r[m] = q[m]
    BY <1>1, <1>3, <2>1 DEF ItemsAt
  <2>3. Len(r) = n
    BY <2>2, LenProperties
  <2> QED BY <1>1, <2>1, <2>2, <2>3, SeqEqual
<1>5. ItemsAt(q, {}) = <<>>
  <2>1. PICK r \in Seq(Queued) : r = ItemsAt(q, {})
    <3>1. {} \in SUBSET DOMAIN q
      OBVIOUS
    <3> QED BY <3>1, ItemsAtIs
  <2>2. DOMAIN r = 1..0
    BY <2>1, FS_EmptySet DEF ItemsAt
  <2>3. Len(r) = 0
    BY <2>2, LenProperties
  <2> QED BY <2>1, <2>3, EmptySeq
<1> QED BY <1>1, <1>4, <1>5

(* An item that is due last goes to the end, or folds and changes nothing. *)
LEMMA LateEnqueue ==
  ASSUME NEW q \in Seq(Queued), NEW item \in Queued, \A i \in DOMAIN q : q[i].due <= item.due
  PROVE  /\ Enqueue(q, item) = q \o <<item>> \/ (Pending(q, item.kind) /\ Enqueue(q, item) = q)
         /\ ~Folds(item.kind) => Enqueue(q, item) = q \o <<item>>
<1>1. Sooner(q, item.due) = DOMAIN q
  BY DEF Sooner
<1>2. ItemsAt(q, DOMAIN q) = q /\ ItemsAt(q, {}) = <<>> /\ Cardinality(DOMAIN q) = Len(q)
  BY AllPlaces
<1>3. CASE ~Pending(q, item.kind)
  <2>1. PICK p \in 0..Len(q) :
           /\ p = Cardinality(Sooner(q, item.due))
           /\ Insert(q, item) = (SubSeq(q, 1, p) \o <<item>>) \o SubSeq(q, p + 1, Len(q))
    BY InsertParts
  <2>2. p = Len(q) /\ Len(q) \in Nat
    BY <1>1, <1>2, <2>1, LenProperties
  <2>3. SubSeq(q, 1, Len(q)) = q
    BY SubSeqFull
  <2>4. SubSeq(q, Len(q) + 1, Len(q)) = <<>>
    <3>1. PICK n \in Nat : n = Len(q)
      BY <2>2
    <3>2. n + 1 \in Int /\ n \in Int /\ n < n + 1
      OBVIOUS
    <3>3. SubSeq(q, n + 1, n) = <<>>
      BY <3>2, SubSeqEmpty
    <3> QED BY <3>1, <3>3
  <2>5. PICK r \in Seq(Queued) : r = q \o <<item>>
    BY OneIs, JoinedIs
  <2>6. r \o <<>> = r
    BY ConcatEmptySeq
  <2> QED BY <1>3, <2>1, <2>2, <2>3, <2>4, <2>5, <2>6 DEF Enqueue
<1>4. CASE Pending(q, item.kind)
  <2> DEFINE sooner == Sooner(q, item.due)
             folded == { i \in DOMAIN q \ sooner : q[i].kind = item.kind }
             others == DOMAIN q \ (sooner \cup folded)
             moved  == ItemsAt(q, folded)
             brought == [ n \in DOMAIN moved |-> [ moved[n] EXCEPT !.due = item.due ] ]
  <2>1. Enqueue(q, item) = (ItemsAt(q, sooner) \o brought) \o ItemsAt(q, others)
    BY <1>4 DEF Enqueue
  <2>2. sooner = DOMAIN q /\ folded = {} /\ others = {}
    BY <1>1
  <2>3. moved = <<>>
    BY <1>2, <2>2
  <2> HIDE DEF moved, sooner, folded, others
  <2>4. brought = <<>>
    <3>1. DOMAIN moved = {}
      BY <2>3
    <3>2. brought \in [ 1..0 -> Queued ]
      BY <3>1
    <3>3. PICK r \in [ 1..0 -> Queued ] : r = brought
      BY <3>2
    <3>4. r \in Seq(Queued)
      BY SeqDef
    <3>5. Len(r) = 0
      BY <3>4, LenProperties
    <3> QED BY <3>3, <3>4, <3>5, EmptySeq
  <2> HIDE DEF brought
  <2>5. Enqueue(q, item) = (q \o <<>>) \o <<>>
    BY <1>2, <2>1, <2>2, <2>4
  <2>6. Enqueue(q, item) = q
    BY <2>5, ConcatEmptySeq
  <2> QED BY <1>4, <2>6 DEF Pending
<1> QED BY <1>3, <1>4

(* The last of several items is queued last.                               *)
LEMMA EnqueueAllLast ==
  ASSUME DeliveryAssumption, NEW q \in Seq(Queued), NEW before \in Seq(Queued), NEW item \in Queued
  PROVE  /\ EnqueueAll(q, before \o <<item>>) = Enqueue(EnqueueAll(q, before), item)
         /\ EnqueueAll(q, <<>>) = q
<1>1. PICK n \in Nat : n = Len(before) /\ DOMAIN before = 1..n
  BY LenProperties
<1>2. PICK items \in Seq(Queued) :
        /\ items = before \o <<item>> /\ DOMAIN items = 1..(n + 1)
        /\ (\A i \in 1..n : items[i] = before[i]) /\ items[n + 1] = item
  <2>1. <<item>> \in Seq(Queued) /\ Len(<<item>>) = 1 /\ <<item>>[1] = item
    BY OneIs
  <2>2. PICK one \in Seq(Queued) : one = <<item>> /\ Len(one) = 1 /\ one[1] = item
    BY <2>1
  <2>7. PICK items \in Seq(Queued) : items = before \o one
    BY <2>2, JoinedIs
  <2>3. Len(items) = n + 1 /\ \A i \in 1..(n + 1) : items[i] = IF i <= n THEN before[i] ELSE one[i - n]
    BY <1>1, <2>2, <2>7, ConcatProperties
  <2>4. DOMAIN items = 1..(n + 1)
    BY <2>3, LenProperties
  <2>5. n + 1 \in 1..(n + 1) /\ ~(n + 1 <= n) /\ (n + 1) - n = 1
    OBVIOUS
  <2>6. items[n + 1] = item
    BY <2>2, <2>3, <2>5
  <2>8. \A i \in 1..n : items[i] = before[i]
    <3>1. \A i \in 1..n : i \in 1..(n + 1) /\ i <= n
      OBVIOUS
    <3> QED BY <2>3, <3>1
  <2> QED BY <2>2, <2>4, <2>6, <2>7, <2>8
<1>3. n + 1 \in Nat
  OBVIOUS
<1>4. PICK f : Queues(q, items, n + 1, f)
  BY <1>2, <1>3, EnqueueAllIsLoop
<1>5. PICK g : Queues(q, before, n, g)
  BY <1>1, EnqueueAllIsLoop
<1> DEFINE Bad == { m \in 0..n : f[m] # g[m] }
<1>6. Bad = {}
  <2>1. SUFFICES ASSUME Bad # {} PROVE FALSE
    OBVIOUS
  <2>2. PICK m \in Bad : \A k \in Bad : m <= k
    <3>1. Bad \in SUBSET Nat
      OBVIOUS
    <3> HIDE DEF Bad
    <3> QED BY <2>1, <3>1, LeastOf
  <2>3. m # 0 /\ m \in 0..n
    BY <1>4, <1>5, <2>2 DEF Queues
  <2>4. m - 1 \in 0..n /\ m \in 1..n /\ m \in 1..(n + 1) /\ ~(m <= m - 1)
    BY <2>3
  <2>5. f[m - 1] = g[m - 1]
    BY <2>2, <2>4
  <2>6. f[m] = Enqueue(f[m - 1], items[m]) /\ g[m] = Enqueue(g[m - 1], before[m])
    BY <1>4, <1>5, <2>4 DEF Queues
  <2> QED BY <1>2, <2>2, <2>4, <2>5, <2>6
<1>7. f[n] = g[n]
  BY <1>6
<1>8. f[n + 1] = Enqueue(f[(n + 1) - 1], items[n + 1]) /\ (n + 1) - 1 = n
  BY <1>4 DEF Queues
<1>9. EnqueueAll(q, items) = f[n + 1] /\ EnqueueAll(q, before) = g[n]
  BY <1>4, <1>5 DEF Queues
<1>10. EnqueueAll(q, <<>>) = q
  <2>1. DOMAIN <<>> = 1..0 /\ 0 \in Nat
    BY EmptySeq, LenProperties
  <2>2. PICK h : Queues(q, <<>>, 0, h)
    BY <2>1, EnqueueAllIsLoop
  <2> QED BY <2>2 DEF Queues
<1> QED BY <1>2, <1>7, <1>8, <1>9, <1>10

(* What waits longer than a debounced edit does.                           *)
Later == { item \in Queued : item.due > Debounce }

(* Folding brings items forward only.                                      *)
LEMMA LaterBrought ==
  ASSUME DeliveryAssumption
  PROVE  Brought(Later)
<1>1. SUFFICES ASSUME NEW q \in Seq(Queued), NEW item \in Queued, Holding(Enqueue(q, item), Later)
               PROVE  Holding(q, Later) \/ item \in Later
  BY DEF Brought
<1>2. CASE ~Pending(q, item.kind)
  BY <1>1, <1>2, InsertHold DEF Enqueue
<1>3. CASE Pending(q, item.kind)
  <2>1. PICK i \in DOMAIN q :
          IF q[i].kind = item.kind /\ ~(q[i].due <= item.due) THEN [ q[i] EXCEPT !.due = item.due ] \in Later
          ELSE q[i] \in Later
    BY <1>1, <1>3, FoldedHold
  <2>2. CASE q[i] \in Later
    BY <2>2 DEF Holding
  <2>3. CASE [ q[i] EXCEPT !.due = item.due ] \in Later
    <3>1. PICK old \in Queued, due \in Nat : old = q[i] /\ due = item.due
      <4>1. DOMAIN q = 1..Len(q)
        BY LenProperties
      <4>2. q[i] \in Queued
        BY <4>1, ElementOfSeq
      <4> QED BY <4>2 DEF Queued, Items
    <3>2. [ old EXCEPT !.due = due ].due = due
      BY DEF Queued, Items
    <3>3. due > Debounce
      BY <2>3, <3>1, <3>2 DEF Later
    <3> QED BY <3>1, <3>3 DEF Later
  <2> QED BY <2>1, <2>2, <2>3
<1> QED BY <1>2, <1>3

(* The same, item by item.                                                 *)
LEMMA NoneLater ==
  ASSUME DeliveryAssumption, NEW q \in Seq(Queued), ~Holding(q, Later)
  PROVE  \A i \in DOMAIN q : q[i].due <= Debounce
<1>1. DOMAIN q = 1..Len(q)
  BY LenProperties
<1>2. \A i \in DOMAIN q : q[i] \in Queued /\ q[i].due \in Nat
  BY <1>1, ElementOfSeq DEF Queued, Items
<1> QED BY <1>2 DEF Holding, Later, DeliveryAssumption

(* Nothing a decision plans waits longer.                                  *)
LEMMA EffectsNotLater ==
  ASSUME DeliveryAssumption, policy \in Policies, NEW card \in Row, NEW state \in States \cup {None}
  PROVE  ~Holding(Effects(card, state), Later)
<1>1. PICK effective \in States : effective = IF state = None THEN card.state ELSE state
  BY DEF Row
<1>2. Debounce \in Nat
  BY DEF DeliveryAssumption
<1>3. ASSUME NEW item, item.due \in {0, Debounce}
      PROVE  item \notin Later
  BY <1>2, <1>3 DEF Later
<1>5. \A kind, due : Item(kind, due).due = due
  BY DEF Item
<1>6. \A pin : SetPinned(pin).due = 0
  BY DEF SetPinned, Item
<1>7. /\ Reopening(effective) \notin Later /\ Reviving(effective) \notin Later /\ Sealing \notin Later
  <2>1. Reopening(effective).due = 0 /\ Reviving(effective).due = Debounce /\ Sealing.due = Debounce
    BY DEF Reopening, Reviving, Sealing, SetFlags
  <2> QED BY <1>3, <2>1
<1>8. /\ Item("edit_card", Debounce) \notin Later /\ Item("set_tags", 0) \notin Later
      /\ Item("thread_note", 0) \notin Later /\ Item("disable_components", 0) \notin Later
      /\ \A pin : SetPinned(pin) \notin Later
  BY <1>3, <1>5, <1>6
<1> QED BY <1>1, <1>7, <1>8, EffectsHold

(* The seal, and the sets the order is about.                              *)
LEMMA SealsAre ==
  ASSUME DeliveryAssumption, policy \in Policies
  PROVE  /\ Sealing \in Seals /\ ~Folds(Sealing.kind) /\ Sealing.due = Debounce
         /\ Sealing \notin Openers /\ Sealing \notin Edits
         /\ Timeless(Seals) /\ Timeless(Strays) /\ Timeless(Flagged) /\ Timeless(Openers) /\ Timeless(Edits)
         /\ Steady(Seals) /\ Steady(Flagged)
<1>1. /\ Timeless(Seals) /\ Timeless(Strays) /\ Timeless(Flagged) /\ Timeless(Openers) /\ Timeless(Edits)
  BY DEF Timeless, SameItem, Openers, Seals, Strays, Flagged, Edits
<1>2. \A item \in Flagged : ~Folds(item.kind)
  BY DEF Flagged, Folds
<1>3. Sealing \in Queued
  BY PlannedFlagsAre DEF States
<1>4. /\ Sealing.kind = "set_flags" /\ Sealing.due = Debounce
      /\ Sealing.flags.planned = "resolved" /\ Sealing.flags.window = "route"
  BY DEF Sealing, SetFlags, Window, HoldsThreadOpen
<1>5. Sealing \in Seals /\ Sealing \notin Openers /\ Sealing \notin Edits
  BY <1>3, <1>4 DEF Seals, Flagged, HoldsThreadOpen, Openers, Edits
<1>6. Steady(Seals) /\ Steady(Flagged)
  BY <1>1, <1>2 DEF Steady, Seals
<1> QED BY <1>1, <1>4, <1>5, <1>6, <1>2 DEF Seals

(* What the decision that resolves a live card queues: the edit and what   *)
(* else may open the thread, and the seal behind all of it.                *)
LEMMA SealQueued ==
  ASSUME DeliveryAssumption, policy \in Policies, policy.forum, NEW q \in Seq(Queued), NEW card \in Row,
         ~card.archived, card.state # "resolved", ~Holding(q, Flagged), ~Holding(q, Later),
         NEW r, r = EnqueueAll(q, Effects(card, "resolved"))
  PROVE  /\ Holding(r, Seals) /\ ~Holding(r, Strays) /\ Ordered(r)
         /\ \E i \in DOMAIN r : Leads(r, i)
<1>1. "resolved" \in States /\ "resolved" \in States \cup {None} /\ "resolved" # None
  BY DEF States, DeliveryAssumption
<1>2. PICK before \in Seq(Queued) :
           /\ Effects(card, "resolved") = before \o <<Sealing>>
           /\ \A X : Holding(before, X) <=> PlannedIn(card, "resolved", "resolved", X)
  <2>1. PICK state \in States : state = "resolved" /\ state # None
    BY <1>1
  <2>2. PICK sealed \in BOOLEAN :
          sealed <=> state = "resolved" /\ policy.forum /\ ~(~policy.archiveOnResolve /\ card.archived)
    OBVIOUS
  <2>3. PICK before \in Seq(Queued) :
           /\ Effects(card, state) = before \o (IF sealed THEN <<Sealing>> ELSE <<>>)
           /\ \A X : Holding(before, X) <=> PlannedIn(card, state, state, X)
    BY <2>1, <2>2, EffectsParts
  <2>4. sealed
    BY <2>1, <2>2
  <2> QED BY <2>1, <2>3, <2>4
<1>3. /\ Sealing \in Queued /\ Sealing \in Seals /\ ~Folds(Sealing.kind) /\ Sealing.due = Debounce
      /\ Sealing \notin Openers /\ Sealing \notin Edits
  BY <1>1, SealsAre, PlannedFlagsAre
<1>4. PICK item \in Queued : item = Sealing
  BY <1>3
<1>5. PICK s \in Seq(Queued) : s = EnqueueAll(q, before)
  BY EnqueueAllIs
<1>6. ~Holding(before, Flagged) /\ ~Holding(before, Later)
  <2>1. ~Holding(before, Flagged)
    <3>1. Item("edit_card", Debounce) \notin Flagged /\ Item("set_tags", 0) \notin Flagged
          /\ Item("thread_note", 0) \notin Flagged /\ Item("disable_components", 0) \notin Flagged
      BY DEF Flagged, Item
    <3>2. \A pin : SetPinned(pin) \notin Flagged
      <4>1. \A pin : SetPinned(pin).kind = "set_pinned"
        BY DEF SetPinned, Item
      <4> QED BY <4>1 DEF Flagged
    <3> QED BY <1>2, <3>1, <3>2 DEF PlannedIn
  <2>2. ~Holding(Effects(card, "resolved"), Later)
    BY <1>1, EffectsNotLater
  <2>3. PICK one \in Seq(Queued) : one = <<item>>
    BY OneIs
  <2>4. \A X : Holding(before \o one, X) <=> Holding(before, X) \/ Holding(one, X)
    BY JoinedHold
  <2> QED BY <1>2, <1>4, <2>1, <2>2, <2>3, <2>4
<1>7. ~Holding(s, Flagged) /\ ~Holding(s, Later)
  <2>1. Brought(Flagged) /\ Brought(Later)
    BY SealsAre, TimelessBrought, LaterBrought
  <2> QED BY <1>5, <1>6, <2>1, EnqueueAllBrings
<1>8. \E i \in DOMAIN s : s[i] \in Edits
  <2>1. Has(before, "edit_card")
    <3>1. Item("edit_card", Debounce) \in Edits
      BY ItemIs DEF Kinds, Edits, DeliveryAssumption
    <3>2. Holding(before, Edits)
      BY <1>2, <3>1 DEF PlannedIn
    <3> QED BY <3>2 DEF Holding, Has, Edits
  <2>2. Has(s, "edit_card")
    BY <1>5, <2>1, EnqueueAllIs
  <2>3. DOMAIN s = 1..Len(s)
    BY LenProperties
  <2>4. \A i \in DOMAIN s : s[i] \in Queued
    BY <2>3, ElementOfSeq
  <2> QED BY <2>2, <2>4 DEF Has, Edits
<1>9. \A i \in DOMAIN s : s[i].due <= item.due
  BY <1>3, <1>4, <1>7, NoneLater
<1>10. r = s \o <<item>>
  <2>1. EnqueueAll(q, before \o <<item>>) = Enqueue(EnqueueAll(q, before), item)
    BY EnqueueAllLast
  <2>2. r = EnqueueAll(q, before \o <<item>>)
    BY <1>2, <1>4
  <2>3. r = Enqueue(s, item)
    BY <1>5, <2>1, <2>2
  <2>4. ~Folds(item.kind)
    BY <1>3, <1>4
  <2>5. Enqueue(s, item) = s \o <<item>>
    BY <1>9, <2>4, LateEnqueue
  <2> QED BY <2>3, <2>5
<1>11. ~Holding(s, Seals) /\ ~Holding(s, Strays)
  BY <1>7 DEF Holding, Seals, Strays
<1>12. (Ordered(s) => Ordered(r)) /\ \A i \in DOMAIN s : Leads(s, i) => i \in DOMAIN r /\ Leads(r, i)
  BY <1>3, <1>4, <1>9, <1>10, <1>11, LastOrder
<1>13. \A i \in DOMAIN s : Precedes(s, i, Seals)
  BY <1>11 DEF Precedes, Holding
<1>14. \A X : Holding(r, X) <=> Holding(s, X) \/ item \in X
  <2>1. PICK one \in Seq(Queued) : one = <<item>>
    BY OneIs
  <2>2. \A X : Holding(s \o one, X) <=> Holding(s, X) \/ Holding(one, X)
    BY JoinedHold
  <2>3. \A X : Holding(one, X) <=> item \in X
    BY <2>1, OneHolds
  <2> QED BY <1>10, <2>1, <2>2, <2>3
<1>15. item \in Seals /\ item \notin Strays
  BY <1>3, <1>4 DEF Strays
<1> QED BY <1>8, <1>11, <1>12, <1>13, <1>14, <1>15 DEF Ordered, Leads

(* A decision that leaves a resolved card as it is queues an edit last, or *)
(* folds it into one.                                                      *)
LEMMA EditQueued ==
  ASSUME DeliveryAssumption, policy \in Policies, NEW q \in Seq(Queued), NEW card \in Row,
         ~card.archived, card.state = "resolved", ~Holding(q, Later),
         NEW r, r = EnqueueAll(q, Effects(card, None))
  PROVE  /\ \A X : Timeless(X) /\ Item("edit_card", Debounce) \notin X => (Holding(r, X) <=> Holding(q, X))
         /\ Ordered(q) => Ordered(r)
         /\ \A i \in DOMAIN q : Leads(q, i) => i \in DOMAIN r /\ Leads(r, i)
<1>1. None # "resolved"
  BY DEF DeliveryAssumption, States
<1>2. PICK item \in Queued : item = Item("edit_card", Debounce)
  BY ItemIs DEF Kinds, DeliveryAssumption
<1>3. Effects(card, None) = <<item>>
  <2>1. /\ ReopenedPostWindow(card, card.state) = <<>>
        /\ ForumEffects(card, card.state, FALSE) = <<>>
    BY DEF ReopenedPostWindow, ForumEffects, HoldsThreadOpen
  <2>2. Effects(card, None) = ((((<<>> \o <<>>) \o <<item>>) \o <<>>) \o <<>>) \o <<>>
    BY <1>1, <1>2, <2>1 DEF Effects
  <2>3. PICK one \in Seq(Queued) : one = <<item>>
    BY OneIs
  <2>4. (<<>> \o <<>>) \o one = one /\ one \o <<>> = one
    BY ConcatEmptySeq, EmptySeq
  <2> QED BY <2>2, <2>3, <2>4
<1>4. r = Enqueue(q, item)
  <2>1. <<>> \in Seq(Queued) /\ <<>> \o <<item>> = <<item>>
    BY OneIs, EmptySeq, ConcatEmptySeq
  <2>2. PICK none \in Seq(Queued) : none = <<>>
    BY <2>1
  <2>3. EnqueueAll(q, none \o <<item>>) = Enqueue(EnqueueAll(q, none), item) /\ EnqueueAll(q, <<>>) = q
    BY EnqueueAllLast
  <2> QED BY <1>3, <2>1, <2>2, <2>3
<1>5. item.due = Debounce /\ item.kind = "edit_card"
  BY <1>2 DEF Item
<1>6. \A i \in DOMAIN q : q[i].due <= item.due
  BY <1>5, NoneLater
<1>7. item \notin Seals /\ item \notin Openers
  BY <1>5 DEF Seals, Flagged, Openers
<1>8. r = q \o <<item>> \/ r = q
  BY <1>4, <1>6, LateEnqueue
<1>9. \A X : Timeless(X) /\ item \notin X => (Holding(r, X) <=> Holding(q, X))
  BY <1>4, EnqueueHold
<1>10. CASE r = q
  BY <1>2, <1>9, <1>10
<1>11. CASE r = q \o <<item>>
  <2>1. (Ordered(q) => Ordered(r)) /\ \A i \in DOMAIN q : Leads(q, i) => i \in DOMAIN r /\ Leads(r, i)
    BY <1>7, <1>11, LastOrder
  <2> QED BY <1>2, <1>9, <2>1
<1> QED BY <1>8, <1>10, <1>11

-----------------------------------------------------------------------------
(* A resolved card's post is let go.                                       *)

(* Nothing happened that opens a thread again but a decision.              *)
Upsetting == {"acks", "faults", "refusals", "refreshes", "crashes", "idle"}
Quiet == policy.forum /\ alert.text = 0 /\ \A s \in Upsetting : Unused(s)

(* A decision that was read for is about the alert as it is stored.        *)
PlanKnown ==
  plan # None =>
    /\ plan.alert = alert
    /\ plan.kind = "fired" => alert.text # 0
    /\ plan.kind = "resolved" => ~IsFiring(alert)

(* No attempt failed, and a card is resolved only with its alert.          *)
QuietInv ==
  Quiet =>
    /\ ~Holding(queue, Later)
    /\ IsAnswered => doing.verdict # "retry"
    /\ plan # None /\ plan.card.state # "orphaned" /\ row.state # "orphaned" => plan.card.state = row.state
    /\ row.state = "resolved" => ~IsFiring(alert)

(* The card has no message and will not get one.                           *)
Gone == ~row.posted /\ ~PostPending

(* Nobody took the thread for archived.                                    *)
Unarchived ==
  /\ ~row.archived /\ (plan # None => ~plan.card.archived)
  /\ IsAnswered => doing.applied.archived # TRUE

(* First the card is live, and no flags are planned.                       *)
PhaseA ==
  /\ HoldsThreadOpen(row.state) /\ Unarchived
  /\ ~Holding(queue, Flagged) /\ ~Holding(batch, Flagged)

(* The edit comes before the seal, or there is none to make.               *)
EditFirst ==
  \/ (\E i \in DOMAIN queue : Leads(queue, i)) /\ ~Holding(batch, Seals)
  \/ \E i \in DOMAIN batch : Leads(batch, i) /\ (i = 1 => doing = None)
  \/ EditUnderWay
  \/ HashFresh

OnlySeals == ~Holding(queue, Strays) /\ ~Holding(batch, Strays)

(* Then it is resolved, and the seal waits behind whatever opens threads.  *)
PhaseB ==
  /\ row.state = "resolved" /\ Unarchived /\ OnlySeals
  /\ Holding(queue, Seals) \/ Holding(batch, Seals)
  /\ Ordered(queue) /\ Ordered(batch)
  /\ Holding(batch, Seals) => ~Holding(queue, Openers)
  /\ EditFirst
  /\ doing # None /\ Head(batch) \in Seals => IsRead /\ doing.card.state = "resolved"

(* Once the seal is made nothing is left that opens the thread.            *)
PhaseC ==
  /\ row.state = "resolved" /\ OnlySeals
  /\ ~Holding(queue, Openers) /\ ~Holding(batch, Openers)
  /\ HashFresh
  /\ post # None /\ row.posted => post.window = "route"

GoneInv == Quiet => Gone \/ PhaseA \/ PhaseB \/ PhaseC

(* The steps that leave things quiet.                                      *)
QuietNext ==
  \/ \E new \in Incoming : Deliver(new)
  \/ ApplyDecision
  \/ \E kind \in {"resync_card", "escalate"} : Request(kind)
  \/ Tick \/ Claim \/ ReadRow \/ Handle \/ Settle
  \/ DeleteTag \/ DeleteMessage
  \/ UNCHANGED vars

(* Things that are quiet after a step were so before it.                   *)
LEMMA QuietStep ==
  ASSUME DeliveryAssumption, TypeInv, ReadInv, [Next]_vars, Quiet'
  PROVE  Quiet /\ QuietNext /\ policy' = policy
<1>1. policy' = policy
  BY PolicyStep
<1>2. \A s \in Sources : Unused(s)' => Unused(s)
  BY UnusedStep
<1>3. Upsetting \subseteq Sources
  BY DEF Sources, Upsetting
<1>4. \A s \in Upsetting : Unused(s)' /\ Unused(s)
  BY <1>2, <1>3 DEF Quiet, Upsetting
<1>5. ~Acknowledge /\ ~Crash /\ ~Stops /\ ~IdleArchive
  <2>1. \A s \in Upsetting : ~Spend(s)
    BY <1>3, <1>4, SpentIs
  <2>2. /\ ~Spend("acks") /\ ~Spend("crashes") /\ ~Spend("idle")
        /\ ~Spend("faults") /\ ~Spend("refusals") /\ ~Spend("refreshes")
    BY <2>1 DEF Upsetting
  <2> QED BY <2>2 DEF Acknowledge, Crash, Stops, CallFails, CallRefused, RefreshFails, AnswerLost, IdleArchive
<1>6. QuietNext
  BY <1>5 DEF Next, Work, Stops, QuietNext
<1>7. alert.text = 0
  <2>1. CASE alert' = alert
    BY <2>1 DEF Quiet
  <2>2. ASSUME NEW new \in Incoming, Deliver(new)
        PROVE  alert.text = 0
    <3>1. alert.text \in Nat /\ alert' = new /\ new.text = 0
      BY <2>2 DEF TypeInv, Alert, DeliveryAssumption, Deliver, Quiet
    <3>2. new.text \in {alert.text, alert.text + 1}
      BY DEF Incoming
    <3> QED BY <3>1, <3>2
  <2>3. CASE Handle \/ Settle
    BY <2>1, <2>3, HandleIs, SettledIs
  <2>4. CASE \/ ApplyDecision \/ \E kind \in {"resync_card", "escalate"} : Request(kind)
             \/ Tick \/ Claim \/ ReadRow \/ DeleteTag \/ DeleteMessage \/ UNCHANGED vars
    BY <2>1, <2>4 DEF ApplyDecision, Request, Tick, Claim, ReadRow, DeleteTag, DeleteMessage, store, vars
  <2> QED BY <1>6, <2>2, <2>3, <2>4 DEF QuietNext
<1> QED BY <1>1, <1>4, <1>6, <1>7 DEF Quiet

(* What a delivery leaves of the rest.                                     *)
LEMMA PlanKnownStep ==
  ASSUME DeliveryAssumption, TypeInv, ReadInv, PlanKnown, [Next]_vars
  PROVE  PlanKnown'
<1>1. CASE UNCHANGED <<alert, plan>> \/ plan' = None
  BY <1>1 DEF PlanKnown
<1>2. ASSUME NEW new \in Incoming, Deliver(new)
      PROVE  PlanKnown'
  <2>1. PICK kind : kind = Classify(alert, new)
    OBVIOUS
  <2>2. PICK p : p = [ kind |-> kind, alert |-> new, card |-> row, held |-> held ]
    OBVIOUS
  <2>3. plan' = p /\ alert' = new /\ (kind = "fired" => new.text = alert.text + 1)
    BY <1>2, <2>1, <2>2 DEF Deliver
  <2>4. p.alert = new /\ p.kind = kind
    BY <2>2
  <2>5. kind = "fired" => new.text # 0
    <3>1. alert.text \in Nat
      BY DEF TypeInv, Alert, DeliveryAssumption
    <3> QED BY <2>3, <3>1
  <2>6. kind = "resolved" => ~IsFiring(new)
    <3>1. None # "resolved"
      BY DEF DeliveryAssumption, States
    <3> QED BY <2>1, <3>1 DEF Classify
  <2> QED BY <2>3, <2>4, <2>5, <2>6 DEF PlanKnown
<1>3. CASE Handle \/ Settle \/ Stops
  BY <1>1, <1>3, HandleIs, SettledIs, StoppedIs
<1>4. CASE \/ ApplyDecision \/ \E kind \in {"resync_card", "escalate"} : Request(kind)
           \/ Acknowledge \/ Tick \/ Claim \/ ReadRow \/ Crash \/ IdleArchive \/ DeleteTag \/ DeleteMessage
           \/ UNCHANGED vars
  BY <1>1, <1>4 DEF ApplyDecision, Acknowledge, Request, Tick, Claim, ReadRow, Crash, IdleArchive,
                    DeleteTag, DeleteMessage, store, vars
<1> QED BY <1>2, <1>3, <1>4 DEF Next, Work, Stops

(* Where a decision takes a card whose alert has only resolved.            *)
LEMMA QuietStateAfter ==
  ASSUME DeliveryAssumption, PlanKnown, plan # None, alert.text = 0
  PROVE  /\ plan.card.state = "resolved" /\ ~IsFiring(alert) => StateAfter(plan) = None
         /\ StateAfter(plan) = "resolved" => ~IsFiring(alert) /\ plan.card.state # "orphaned"
<1>1. plan.alert = alert /\ plan.kind # "fired" /\ (plan.kind = "resolved" => ~IsFiring(alert))
  BY DEF PlanKnown
<1>2. None \notin {"firing", "acked", "resolved", "silenced", "fired"}
  BY DEF DeliveryAssumption, States, Triggers
<1>3. PICK trigger : trigger = TriggerFor(plan.kind, plan.alert, plan.card.state, FALSE)
  OBVIOUS
<1>4. PICK new : new = NextState(plan.card.state, trigger, plan.held)
  OBVIOUS
<1>5. StateAfter(plan) = IF plan.card.state = "resolved" /\ new \in {"firing", "acked"} /\ plan.alert.suppressed
                           THEN "silenced" ELSE new
  BY <1>3, <1>4 DEF StateAfter
<1>6. ASSUME plan.card.state = "resolved", ~IsFiring(alert)
      PROVE  StateAfter(plan) = None
  <2>1. trigger # "fired"
    BY <1>1, <1>2, <1>3, <1>6 DEF TriggerFor, FromEvent, IsOpen
  <2>2. new = None
    BY <1>4, <1>6, <2>1 DEF NextState, IsOpen
  <2> QED BY <1>2, <1>5, <2>2
<1>7. ASSUME StateAfter(plan) = "resolved"
      PROVE  ~IsFiring(alert) /\ plan.card.state # "orphaned"
  <2>1. new = "resolved"
    BY <1>5, <1>7
  <2>2. trigger = "resolved" /\ plan.card.state # "orphaned"
    <3>1. PICK state, held1 : state = plan.card.state /\ held1 = plan.held
      OBVIOUS
    <3>2. new = NextState(state, trigger, held1)
      BY <1>4, <3>1
    <3>3. CASE state = "orphaned"
      BY <1>2, <2>1, <3>2, <3>3 DEF NextState, IsOpen
    <3>4. CASE state # "orphaned"
      BY <1>2, <2>1, <3>1, <3>2, <3>4 DEF NextState, IsOpen
    <3> QED BY <3>3, <3>4
  <2>3. trigger = "resolved" => ~IsFiring(alert)
    BY <1>1, <1>2, <1>3 DEF TriggerFor, FromEvent
  <2> QED BY <2>2, <2>3
<1> QED BY <1>6, <1>7

(* What a worker records of the thread's archive.                          *)
LEMMA SettledArchived ==
  ASSUME DeliveryAssumption, TypeInv, Settle
  PROVE  row'.archived = Coalesce(doing.applied.archived, row.archived)
<1>1. row \in Row
  BY SettledIs
<1>2. PICK card \in Row : card = row
  BY <1>1
<1>3. PICK posted, hash, tags, archived, pinned :
        /\ posted = Coalesce(doing.applied.posted, card.posted) /\ hash = Coalesce(doing.applied.hash, card.hash)
        /\ tags = Coalesce(doing.applied.tags, card.tags) /\ archived = Coalesce(doing.applied.archived, card.archived)
        /\ pinned = Coalesce(doing.applied.pinned, card.pinned)
  OBVIOUS
<1>4. PICK x : x = [ card EXCEPT !.posted = posted, !.hash = hash, !.tags = tags,
                                 !.archived = archived, !.pinned = pinned ]
  OBVIOUS
<1>5. x.archived = archived
  <2>1. PICK x1 : x1 = [ card EXCEPT !.posted = posted ]
    OBVIOUS
  <2>2. PICK x2 : x2 = [ x1 EXCEPT !.hash = hash ]
    OBVIOUS
  <2>3. PICK x3 : x3 = [ x2 EXCEPT !.tags = tags ]
    OBVIOUS
  <2>4. PICK x4 : x4 = [ x3 EXCEPT !.archived = archived ]
    OBVIOUS
  <2>5. "archived" \in DOMAIN x3
    <3>1. "archived" \in DOMAIN card
      BY DEF Row
    <3> QED BY <2>1, <2>2, <2>3, <3>1
  <2>6. x4.archived = archived /\ "archived" \in DOMAIN x4
    BY <2>4, <2>5
  <2>7. [ x4 EXCEPT !.pinned = pinned ].archived = archived
    BY <2>6
  <2> QED BY <1>4, <2>1, <2>2, <2>3, <2>4, <2>7
<1>6. row' = x
  BY <1>2, <1>3, <1>4 DEF Settle, ApplyToCard
<1> QED BY <1>2, <1>3, <1>5, <1>6

(* Only flags report that the thread is archived.                          *)
LEMMA HandledArchived ==
  ASSUME DeliveryAssumption, TypeInv, ReadInv, Handle, Head1 # "set_flags"
  PROVE  doing'.applied.archived # TRUE
<1>1. Nothing.archived # TRUE
  BY DEF Nothing, DeliveryAssumption
<1>2. \A p : ReopenNoted(p).archived # TRUE /\ "archived" \in DOMAIN ReopenNoted(p)
  <2>1. TAKE p
  <2>2. PICK archived : archived = IF p.archived THEN FALSE ELSE None
    OBVIOUS
  <2>3. archived # TRUE
    BY <2>2 DEF DeliveryAssumption
  <2>4. PICK nothing : nothing = Nothing
    OBVIOUS
  <2>5. "archived" \in DOMAIN nothing
    BY <2>4 DEF Nothing
  <2>6. PICK noted : noted = [ nothing EXCEPT !.archived = archived ]
    OBVIOUS
  <2>7. noted.archived = archived /\ "archived" \in DOMAIN noted
    BY <2>5, <2>6
  <2>8. ReopenNoted(p) = noted
    BY <2>2, <2>4, <2>6 DEF ReopenNoted
  <2> QED BY <2>3, <2>7, <2>8
<1>3. ASSUME NEW verdict, NEW applied, Answered(verdict, applied), applied.archived # TRUE
      PROVE  doing'.applied.archived # TRUE
  <2>1. doing' = [ step |-> "answered", verdict |-> verdict, applied |-> applied ]
    BY <1>3 DEF Answered
  <2>2. doing'.applied = applied
    BY <2>1
  <2> QED BY <1>3, <2>2
<1>4. Dropped \/ Done(Nothing) => doing'.applied.archived # TRUE
  <2>1. Dropped \/ Done(Nothing) => Answered("drop", Nothing) \/ Answered("done", Nothing)
    BY DEF Dropped, Done
  <2> QED BY <1>1, <1>3, <2>1
<1>5. Done(ReopenNoted(post)) => doing'.applied.archived # TRUE
  BY <1>2, <1>3 DEF Done
<1>6. ASSUME NEW hash, Done([ ReopenNoted(post) EXCEPT !.hash = hash ])
      PROVE  doing'.applied.archived # TRUE
  <2>1. PICK noted : noted = ReopenNoted(post)
    OBVIOUS
  <2>2. [ noted EXCEPT !.hash = hash ].archived # TRUE
    BY <1>2, <2>1
  <2> QED BY <1>3, <1>6, <2>1, <2>2 DEF Done
<1>7. ASSUME NEW tags, Done([ ReopenNoted(post) EXCEPT !.tags = tags ])
      PROVE  doing'.applied.archived # TRUE
  <2>1. PICK noted : noted = ReopenNoted(post)
    OBVIOUS
  <2>2. [ noted EXCEPT !.tags = tags ].archived # TRUE
    BY <1>2, <2>1
  <2> QED BY <1>3, <1>7, <2>1, <2>2 DEF Done
<1>8. ASSUME NEW hash, NEW tags, Done([ ReopenNoted(post) EXCEPT !.hash = hash, !.tags = tags ])
      PROVE  doing'.applied.archived # TRUE
  <2>1. PICK noted : noted = ReopenNoted(post)
    OBVIOUS
  <2>2. PICK first : first = [ noted EXCEPT !.hash = hash ]
    OBVIOUS
  <2>3. first.archived = noted.archived /\ "archived" \in DOMAIN first
    BY <1>2, <2>1, <2>2
  <2>4. PICK second : second = [ first EXCEPT !.tags = tags ]
    OBVIOUS
  <2>5. second.archived = first.archived
    BY <2>3, <2>4
  <2>6. Done(second)
    BY <1>8, <2>1, <2>2, <2>4
  <2> QED BY <1>2, <1>3, <2>1, <2>3, <2>5, <2>6 DEF Done
<1>9. CASE PostCard
  <2>1. ASSUME NEW hash, NEW tags, NEW pinned,
               Done([ Nothing EXCEPT !.posted = TRUE, !.hash = hash, !.tags = tags, !.pinned = pinned ])
        PROVE  doing'.applied.archived # TRUE
    <3>1. PICK nothing : nothing = Nothing
      OBVIOUS
    <3>2. nothing = Nothing /\ "archived" \in DOMAIN nothing
      BY <3>1 DEF Nothing
    <3>3. PICK posted : posted = TRUE
      OBVIOUS
    <3>4. PICK x1 : x1 = [ nothing EXCEPT !.posted = posted ]
      OBVIOUS
    <3>5. PICK x2 : x2 = [ x1 EXCEPT !.hash = hash ]
      OBVIOUS
    <3>6. PICK x3 : x3 = [ x2 EXCEPT !.tags = tags ]
      OBVIOUS
    <3>7. PICK x4 : x4 = [ x3 EXCEPT !.pinned = pinned ]
      OBVIOUS
    <3>8. x2.archived = nothing.archived /\ "archived" \in DOMAIN x2
      BY <3>2, <3>4, <3>5
    <3>9. x4.archived = nothing.archived
      BY <3>6, <3>7, <3>8
    <3>10. Done(x4)
      BY <2>1, <3>2, <3>3, <3>4, <3>5, <3>6, <3>7
    <3> QED BY <1>1, <1>3, <3>2, <3>9, <3>10 DEF Done
  <2>2. \/ Dropped
        \/ \E hash, tags, pinned :
             Done([ Nothing EXCEPT !.posted = TRUE, !.hash = hash, !.tags = tags, !.pinned = pinned ])
    BY <1>9 DEF PostCard
  <2> QED BY <1>4, <2>1, <2>2
<1>10. CASE EditCard
  BY <1>4, <1>6, <1>10 DEF EditCard, MessageDeleted
<1>11. CASE ResyncCard
  BY <1>4, <1>8, <1>11 DEF ResyncCard, MessageDeleted
<1>12. CASE SetTags
  <2>2. Dropped \/ Done(Nothing) \/ \E tags : Done([ ReopenNoted(post) EXCEPT !.tags = tags ])
    BY <1>12 DEF SetTags
  <2> QED BY <1>4, <1>7, <2>2
<1>13. CASE ThreadNote \/ Escalate \/ DisableComponents
  BY <1>4, <1>5, <1>13 DEF ThreadNote, Escalate, Say, DisableComponents
<1>14. CASE SetPostPinned
  <2>1. ASSUME NEW pin, Done([ Nothing EXCEPT !.pinned = pin ])
        PROVE  doing'.applied.archived # TRUE
    <3>1. [ Nothing EXCEPT !.pinned = pin ].archived # TRUE
      BY <1>1 DEF Nothing
    <3> QED BY <1>3, <2>1, <3>1 DEF Done
  <2>2. Dropped \/ Done(Nothing) \/ Done([ Nothing EXCEPT !.pinned = Head(batch).pin ])
    BY <1>14 DEF SetPostPinned
  <2> QED BY <1>4, <2>1, <2>2
<1>15. ~SetPostFlags
  BY DEF SetPostFlags, Handling, Head1
<1> QED BY <1>9, <1>10, <1>11, <1>12, <1>13, <1>14, <1>15 DEF Handle

(* Unless flags are set the thread is not taken for archived.              *)
LEMMA UnarchivedStep ==
  ASSUME DeliveryAssumption, TypeInv, ReadInv, Unarchived, QuietNext,
         Handle => Head1 # "set_flags" /\ row' = row
  PROVE  Unarchived'
<1>1. CASE UNCHANGED <<row, plan, doing>>
  BY <1>1 DEF Unarchived, IsAnswered
<1>2. ASSUME NEW new \in Incoming, Deliver(new)
      PROVE  Unarchived'
  <2>1. plan'.card = row /\ UNCHANGED <<row, doing>>
    BY <1>2, DeliverIs DEF Deliver
  <2> QED BY <2>1 DEF Unarchived, IsAnswered
<1>3. CASE ApplyDecision
  <2>1. row'.archived = row.archived /\ plan' = None /\ doing' = doing
    BY <1>3, ApplyIs DEF ApplyDecision, SameColumns
  <2> QED BY <2>1 DEF Unarchived, IsAnswered
<1>4. CASE ReadRow
  <2>1. ~IsAnswered' /\ UNCHANGED <<row, plan>>
    BY <1>4, ReadRowIs DEF ReadRow, store
  <2> QED BY <2>1 DEF Unarchived
<1>5. CASE Handle
  <2>1. doing'.applied.archived # TRUE /\ plan' = plan /\ row' = row
    BY <1>5, HandledArchived, HandleIs
  <2> QED BY <2>1 DEF Unarchived
<1>6. CASE Settle
  <2>1. doing' = None /\ plan' = plan /\ IsAnswered /\ row \in Row /\ doing \in Answer
    BY <1>6, SettledIs
  <2>2. doing.applied.archived \in BOOLEAN \cup {None} /\ doing.applied.archived # TRUE
    BY <2>1 DEF Answer, Applied, Unarchived
  <2>3. row'.archived = Coalesce(doing.applied.archived, row.archived)
    BY <1>6, SettledArchived
  <2>4. ~row'.archived
    BY <2>2, <2>3 DEF Coalesce, Unarchived
  <2> QED BY <2>1, <2>4 DEF Unarchived, IsAnswered
<1>7. CASE \/ \E kind \in {"resync_card", "escalate"} : Request(kind)
           \/ Tick \/ Claim \/ DeleteTag \/ DeleteMessage \/ UNCHANGED vars
  BY <1>1, <1>7 DEF Request, Tick, Claim, DeleteTag, DeleteMessage, store, vars
<1> QED BY <1>2, <1>3, <1>4, <1>5, <1>6, <1>7 DEF QuietNext

(* What a queue waits for is a debounce away at most.                      *)
LEMMA LaterStep ==
  ASSUME DeliveryAssumption, TypeInv, ReadInv, QuietNext, ~Holding(queue, Later),
         IsAnswered => doing.verdict # "retry"
  PROVE  ~Holding(queue', Later)
<1>1. CASE ApplyDecision
  <2>1. PICK card \in Row, state \in States \cup {None} : card = plan.card /\ state = StateAfter(plan)
    <3>1. plan \in Plan
      BY <1>1 DEF ApplyDecision, TypeInv
    <3>2. plan.card \in Row
      BY <3>1 DEF Plan
    <3>3. StateAfter(plan) \in States \cup {None}
      BY StateAfterType
    <3> QED BY <3>2, <3>3
  <2>2. policy \in Policies
    BY DEF TypeInv
  <2>3. ~Holding(Effects(card, state), Later)
    BY <2>2, EffectsNotLater
  <2> QED BY <1>1, <2>1, <2>3, LaterBrought, ApplyBrings
<1>2. ASSUME NEW kind \in {"resync_card", "escalate"}, Request(kind)
      PROVE  ~Holding(queue', Later)
  <2>1. PICK item \in Queued : item = Item(kind, 0)
    BY ItemIs DEF Kinds
  <2>2. item \notin Later
    <3>1. Debounce \in Nat
      BY DEF DeliveryAssumption
    <3>2. item.due = 0
      BY <2>1 DEF Item
    <3> QED BY <3>1, <3>2 DEF Later
  <2>3. PICK q \in Seq(Queued) : q = queue
    BY DEF TypeInv
  <2>4. queue' = Enqueue(q, item)
    BY <1>2, <2>1, <2>3 DEF Request
  <2>5. Holding(Enqueue(q, item), Later) => Holding(q, Later) \/ item \in Later
    BY LaterBrought DEF Brought
  <2> QED BY <2>2, <2>3, <2>4, <2>5
<1>3. CASE Tick
  <2>1. PICK q \in Seq(Queued) : q = queue
    BY DEF TypeInv
  <2>2. PICK r : r = queue'
    OBVIOUS
  <2>3. r = [ i \in DOMAIN q |-> [ q[i] EXCEPT !.due = IF @ = 0 THEN 0 ELSE @ - 1 ] ]
    BY <1>3, <2>1, <2>2 DEF Tick
  <2>4. SUFFICES ASSUME NEW i \in DOMAIN r, r[i] \in Later
                 PROVE  FALSE
    BY <2>2 DEF Holding
  <2>5. i \in DOMAIN q
    BY <2>3
  <2>6. DOMAIN q = 1..Len(q)
    BY LenProperties
  <2>7. q[i] \in Queued
    BY <2>5, <2>6, ElementOfSeq
  <2>8. PICK item \in Queued : item = q[i]
    BY <2>7
  <2>9. item.due \in Nat /\ "due" \in DOMAIN item
    BY DEF Queued, Items
  <2>10. PICK due : due = IF item.due = 0 THEN 0 ELSE item.due - 1
    OBVIOUS
  <2>11. r[i] = [ item EXCEPT !.due = due ]
    BY <2>3, <2>5, <2>8, <2>10
  <2>12. r[i].due = due
    BY <2>9, <2>11
  <2>13. due > Debounce
    BY <2>4, <2>12 DEF Later
  <2>14. item.due > Debounce
    BY <2>9, <2>10, <2>13 DEF DeliveryAssumption
  <2>15. item \in Later
    BY <2>14 DEF Later
  <2> QED BY <2>1, <2>5, <2>8, <2>15 DEF Holding
<1>4. CASE Claim
  BY <1>4, ClaimHold
<1>5. CASE Settle
  <2>1. IsAnswered
    BY <1>5, SettledIs
  <2> QED BY <1>5, <2>1 DEF Settle
<1>6. CASE Handle
  BY <1>6, HandleIs
<1>7. CASE (\E new \in Incoming : Deliver(new)) \/ ReadRow \/ DeleteTag \/ DeleteMessage \/ UNCHANGED vars
  BY <1>7 DEF Deliver, ReadRow, DeleteTag, DeleteMessage, vars
<1> QED BY <1>1, <1>2, <1>3, <1>4, <1>5, <1>6, <1>7 DEF QuietNext

(* A card is resolved by a decision about its resolved alert, and nothing  *)
(* else moves it.                                                          *)
LEMMA QuietInvStep ==
  ASSUME DeliveryAssumption, TypeInv, ReadInv, PlanKnown, QuietInv, [Next]_vars
  PROVE  QuietInv'
<1>1. SUFFICES ASSUME Quiet'
               PROVE  /\ ~Holding(queue', Later)
                      /\ IsAnswered' => doing'.verdict # "retry"
                      /\ plan' # None /\ plan'.card.state # "orphaned" /\ row'.state # "orphaned"
                           => plan'.card.state = row'.state
                      /\ row'.state = "resolved" => ~IsFiring(alert')
  <2>1. Later' = Later
    BY DEF Later, Queued
  <2> QED BY <2>1 DEF QuietInv, Holding
<1>2. Quiet /\ QuietNext
  BY <1>1, QuietStep
<1>3. /\ ~Holding(queue, Later)
      /\ IsAnswered => doing.verdict # "retry"
      /\ plan # None /\ plan.card.state # "orphaned" /\ row.state # "orphaned" => plan.card.state = row.state
      /\ row.state = "resolved" => ~IsFiring(alert)
  BY <1>2 DEF QuietInv
<1>4. ~Holding(queue', Later)
  BY <1>2, <1>3, LaterStep
<1>5. IsAnswered' => doing'.verdict # "retry"
  <2>1. CASE UNCHANGED doing
    BY <1>3, <2>1 DEF IsAnswered
  <2>2. CASE Handle
    <3>1. PICK kind \in Kinds : Did(kind, doing', row', post', labelTag')
      BY <2>2, HandleIs
    <3>2. PICK answer : answer = doing'
      OBVIOUS
    <3>3. answer.verdict \in {"done", "drop"}
      BY <3>1, <3>2 DEF Did
    <3> QED BY <3>2, <3>3
  <2>3. CASE Settle
    BY <2>3, SettledIs DEF IsAnswered
  <2>4. CASE ReadRow
    BY <2>4, ReadRowIs
  <2>5. CASE \/ \E new \in Incoming : Deliver(new)
             \/ ApplyDecision \/ \E kind \in {"resync_card", "escalate"} : Request(kind)
             \/ Tick \/ Claim \/ DeleteTag \/ DeleteMessage \/ UNCHANGED vars
    BY <2>1, <2>5 DEF Deliver, ApplyDecision, Request, Tick, Claim, DeleteTag, DeleteMessage, vars
  <2> QED BY <1>2, <2>2, <2>3, <2>4, <2>5 DEF QuietNext
<1>6. CASE \E new \in Incoming : Deliver(new)
  <2>1. PICK new \in Incoming : Deliver(new)
    BY <1>6
  <2>2. plan'.card = row /\ row' = row /\ alert' = new
    BY <2>1, DeliverIs DEF Deliver
  <2>3. row.state = "resolved" => ~IsFiring(new)
    <3>1. SUFFICES ASSUME ~IsFiring(alert), IsFiring(new)
                   PROVE  FALSE
      BY <1>3
    <3>2. Classify(alert, new) = "fired"
      BY <3>1 DEF Classify, IsFiring
    <3>3. new.text = alert.text + 1
      BY <2>1, <3>2 DEF Deliver
    <3>4. new.text = 0 /\ alert.text = 0
      BY <1>1, <1>2, <2>2 DEF Quiet
    <3> QED BY <3>3, <3>4
  <2> QED BY <1>4, <1>5, <2>2, <2>3
<1>7. CASE ApplyDecision
  <2>1. plan # None /\ plan' = None /\ alert' = alert /\ alert.text = 0
    BY <1>2, <1>7 DEF ApplyDecision, Quiet
  <2>2. StateAfter(plan) = "resolved" => ~IsFiring(alert)
    BY <2>1, QuietStateAfter
  <2>3. row'.state = "resolved" => row.state = "resolved" \/ StateAfter(plan) = "resolved"
    <3>1. CASE plan.card.state = "orphaned" \/ StateAfter(plan) = None
      BY <1>7, <3>1 DEF ApplyDecision
    <3>2. CASE plan.card.state # "orphaned" /\ StateAfter(plan) # None
      <4>1. PICK card \in Row : card = row
        BY DEF TypeInv
      <4>2. PICK state : state = StateAfter(plan)
        OBVIOUS
      <4>3. card = row /\ state = StateAfter(plan)
        BY <4>1, <4>2
      <4>4. row' = [ card EXCEPT !.state = state ]
        BY <1>7, <3>2, <4>3 DEF ApplyDecision
      <4>5. [ card EXCEPT !.state = state ].state = state
        BY DEF Row
      <4> QED BY <4>3, <4>4, <4>5
    <3> QED BY <3>1, <3>2
  <2> QED BY <1>3, <1>4, <1>5, <2>1, <2>2, <2>3
<1>8. CASE Handle
  <2>1. UNCHANGED <<alert, plan>>
    BY <1>8, HandleIs
  <2>2. row' = row \/ row'.state = "orphaned"
    BY <1>8, HandledRow
  <2> QED BY <1>3, <1>4, <1>5, <2>1, <2>2
<1>9. CASE Settle
  <2>1. row'.state = row.state /\ UNCHANGED <<alert, plan>>
    BY <1>9, SettledIs
  <2> QED BY <1>3, <1>4, <1>5, <2>1
<1>10. CASE UNCHANGED <<row, alert, plan>>
  BY <1>3, <1>4, <1>5, <1>10
<1>11. CASE \/ \E kind \in {"resync_card", "escalate"} : Request(kind)
            \/ Tick \/ Claim \/ ReadRow \/ DeleteTag \/ DeleteMessage \/ UNCHANGED vars
  BY <1>10, <1>11 DEF Request, Tick, Claim, ReadRow, DeleteTag, DeleteMessage, store, vars
<1> QED BY <1>2, <1>6, <1>7, <1>8, <1>9, <1>11 DEF QuietNext

(* A card without a message, and none to come, stays so.                   *)
LEMMA GoneStep ==
  ASSUME DeliveryAssumption, TypeInv, ReadInv, Gone, [Next]_vars
  PROVE  Gone'
<1>1. ~row.posted /\ ~Has(queue, "post_card") /\ ~Has(batch, "post_card") /\ ~PostPending
  BY DEF Gone, PostPending
<1>2. SUFFICES ~row'.posted /\ ~Has(queue', "post_card") /\ ~Has(batch', "post_card")
  BY DEF Gone, PostPending, Has
<1>3. CASE UNCHANGED <<row, queue, batch>>
  BY <1>1, <1>3
<1>4. CASE ApplyDecision
  <2>1. batch' = batch
    BY <1>4 DEF ApplyDecision
  <2> QED BY <1>1, <1>4, <2>1, ApplyIs DEF SameColumns
<1>5. CASE Acknowledge
  <2>1. batch' = batch /\ queue' = Enqueue(queue, Item("edit_card", 0))
    BY <1>5 DEF Acknowledge
  <2>2. SameColumns(row, row')
    BY <1>5, AcknowledgeIs
  <2>3. ~Has(queue', "post_card")
    BY <1>1, <2>1, EnqueuedIs
  <2> QED BY <1>1, <2>1, <2>2, <2>3 DEF SameColumns
<1>6. ASSUME NEW kind \in {"resync_card", "escalate"}, Request(kind)
      PROVE  ~row'.posted /\ ~Has(queue', "post_card") /\ ~Has(batch', "post_card")
  <2>1. UNCHANGED <<row, batch>> /\ queue' = Enqueue(queue, Item(kind, 0))
    BY <1>6 DEF Request
  <2>2. ~Has(queue', "post_card")
    BY <1>1, <2>1, EnqueuedIs
  <2> QED BY <1>1, <2>1, <2>2
<1>7. CASE Tick
  BY <1>1, <1>7, TickIs DEF Tick, store
<1>8. CASE Claim
  BY <1>1, <1>8, ClaimIs DEF Claim, store
<1>9. CASE Crash
  <2>1. ~Has(queue', "post_card") /\ batch' = <<>> /\ row' = row
    BY <1>1, <1>9, CrashIs DEF Crash, store
  <2>2. ~Has(<<>>, "post_card")
    BY DEF Has
  <2> QED BY <1>1, <2>1, <2>2
<1>10. CASE Handle
  <2>1. UNCHANGED <<queue, batch>>
    BY <1>10, HandleIs
  <2>2. row' = row \/ ~row'.posted
    BY <1>10, HandledRow
  <2> QED BY <1>1, <2>1, <2>2
<1>11. CASE Settle
  <2>1. doing # None /\ IsAnswered /\ row'.posted = Coalesce(doing.applied.posted, row.posted)
    BY <1>11, SettledIs
  <2>2. Head1 # "post_card" /\ ~Landing
    BY <1>1, <2>1, PostIsPending
  <2>3. ~row'.posted
    BY <1>1, <2>1, <2>2 DEF Landing, Coalesce
  <2>4. ~Has(queue', "post_card") /\ ~Has(batch', "post_card")
    BY <1>1, <1>11, <2>2, SettleIs, SettledIs
  <2> QED BY <2>3, <2>4
<1>12. CASE Stops
  BY <1>3, <1>12, StoppedIs
<1>13. CASE \/ \E new \in Incoming : Deliver(new)
            \/ ReadRow \/ IdleArchive \/ DeleteTag \/ DeleteMessage \/ UNCHANGED vars
  BY <1>3, <1>13 DEF Deliver, ReadRow, IdleArchive, DeleteTag, DeleteMessage, store, vars
<1> QED BY <1>4, <1>5, <1>6, <1>7, <1>8, <1>9, <1>10, <1>11, <1>12, <1>13 DEF Next, Work, Stops

(* What the hash is, with the row and the worker as they are.              *)
LEMMA FreshKept ==
  ASSUME UNCHANGED <<row, doing, batch>>, alert'.text = alert.text
  PROVE  /\ EditUnderWay => EditUnderWay'
         /\ HashFresh => HashFresh'
<1>1. Head1' = Head1 /\ Wanted' = Wanted
  BY DEF Head1, Wanted, Rendered
<1> QED BY <1>1 DEF EditUnderWay, HashFresh, IsRead, IsAnswered, Landing

(* What no decision for an unarchived card plans but with a new state.     *)
LEMMA FlagsPlanned ==
  ASSUME DeliveryAssumption, policy \in Policies, NEW card \in Row, NEW state \in States \cup {None},
         NEW effective \in States, effective = IF state = None THEN card.state ELSE state
  PROVE  /\ ~card.archived /\ card.state # "resolved" /\ state # "resolved" => ~Holding(Effects(card, state), Flagged)
         /\ card.state = "resolved" /\ state = None =>
              ~Holding(Effects(card, state), Strays) /\ ~Holding(Effects(card, state), Openers)
<1>1. /\ Item("edit_card", Debounce) \notin Flagged /\ Item("set_tags", 0) \notin Flagged
      /\ Item("thread_note", 0) \notin Flagged /\ Item("disable_components", 0) \notin Flagged
      /\ Item("edit_card", Debounce) \notin Openers
  BY DEF Flagged, Openers, Item
<1>2. SetPinned(policy.pins /\ WantsPin(effective)) \notin Flagged
  <2>1. SetPinned(policy.pins /\ WantsPin(effective)).kind = "set_pinned"
    BY DEF SetPinned, Item
  <2> QED BY <2>1 DEF Flagged
<1>3. Reopening(effective) \in Queued /\ Reopening(effective).kind = "set_flags"
      /\ Reopening(effective).flags.planned = effective /\ Reopening(effective).flags.window = Window(effective)
  BY PlannedFlagsAre DEF Reopening, SetFlags
<1>4. effective = "resolved" => Reopening(effective) \notin Strays /\ Reopening(effective) \notin Openers
  BY <1>3 DEF Strays, Seals, Flagged, Openers, Window, HoldsThreadOpen
<1>5. ASSUME ~card.archived, card.state # "resolved", state # "resolved"
      PROVE  ~Holding(Effects(card, state), Flagged)
  BY <1>1, <1>2, <1>5, EffectsHold
<1>6. ASSUME card.state = "resolved", state = None
      PROVE  ~Holding(Effects(card, state), Strays) /\ ~Holding(Effects(card, state), Openers)
  <2>1. effective = "resolved" /\ ~HoldsThreadOpen(effective) /\ state # "resolved"
    BY <1>6 DEF HoldsThreadOpen, DeliveryAssumption, States
  <2>2. Strays \subseteq Flagged
    BY DEF Strays
  <2> QED BY <1>1, <1>4, <1>6, <2>1, <2>2, EffectsHold
<1> QED BY <1>5, <1>6

(* The decision read for, when the card has a message or will.             *)
LEMMA DecisionIs ==
  ASSUME DeliveryAssumption, TypeInv, PlanKnown, QuietInv, Quiet, ApplyDecision,
         plan.card.state # "orphaned", row.state # "orphaned"
  PROVE  \E card \in Row, state \in States \cup {None} :
           /\ card = plan.card /\ state = StateAfter(plan) /\ state # "orphaned"
           /\ card.state = row.state
           /\ row'.state = IF state = None THEN row.state ELSE state
           /\ state = None => row' = row
           /\ queue' = EnqueueAll(queue, Effects(card, state))
           /\ row.state = "resolved" => state = None
<1>1. plan # None /\ plan \in Plan /\ alert.text = 0
  BY DEF ApplyDecision, TypeInv, Quiet
<1>2. PICK card \in Row : card = plan.card
  BY <1>1 DEF Plan
<1>3. PICK state \in States \cup {None} : state = StateAfter(plan) /\ state # "orphaned"
  <2>1. "orphaned" # None
    BY DEF DeliveryAssumption, States
  <2>2. StateAfter(plan) \in (States \ {"orphaned"}) \cup {None}
    BY StateAfterType
  <2> QED BY <2>1, <2>2
<1>4. card.state = row.state /\ (row.state = "resolved" => ~IsFiring(alert))
  BY <1>1, <1>2 DEF QuietInv
<1>5. row.state = "resolved" => state = None
  BY <1>1, <1>2, <1>3, <1>4, QuietStateAfter
<1>6. PICK old \in Row : old = row
  BY DEF TypeInv
<1>7. row' = IF state = None THEN old ELSE [ old EXCEPT !.state = state ]
  BY <1>3, <1>6 DEF ApplyDecision
<1>8. [ old EXCEPT !.state = state ].state = state
  BY DEF Row
<1>9. queue' = EnqueueAll(queue, Effects(card, state))
  BY <1>2, <1>3 DEF ApplyDecision
<1> QED BY <1>2, <1>3, <1>4, <1>5, <1>6, <1>7, <1>8, <1>9

(* The decision that resolves the card queues the seal behind the edit.    *)
LEMMA PhaseAStep ==
  ASSUME DeliveryAssumption, TypeInv, ReadInv, PlanKnown, QuietInv, Quiet, QuietNext, [Next]_vars, PhaseA,
         row'.state # "orphaned", plan # None => plan.card.state # "orphaned"
  PROVE  PhaseA' \/ PhaseB'
<1>1. HoldsThreadOpen(row.state) /\ Unarchived /\ ~Holding(queue, Flagged) /\ ~Holding(batch, Flagged)
  BY DEF PhaseA
<1>2. row.state # "orphaned" /\ row.state # "resolved" /\ policy \in Policies /\ policy.forum
  BY <1>1 DEF HoldsThreadOpen, TypeInv, Quiet
<1>3. Timeless(Flagged) /\ Timeless(Seals) /\ Timeless(Strays)
  BY <1>2, SealsAre
<1>4. Handle => Head1 # "set_flags" /\ row' = row
  <2>1. SUFFICES ASSUME Handle
                 PROVE  Head1 # "set_flags" /\ row' = row
    OBVIOUS
  <2>2. batch \in Seq(Queued) /\ batch # <<>>
    BY <2>1, HandleIs DEF TypeInv
  <2>3. Head(batch) \in Queued /\ Head(batch) \notin Flagged
    BY <1>1, <2>2, FirstHold, HeadTailProperties
  <2> QED BY <2>1, <2>3, HandledRow DEF Flagged, Head1
<1>5. Unarchived'
  BY <1>1, <1>4, UnarchivedStep
<1>6. ASSUME ~Holding(queue', Flagged), ~Holding(batch', Flagged), HoldsThreadOpen(row'.state)
      PROVE  PhaseA'
  <2>1. Flagged' = Flagged
    BY DEF Flagged, Queued
  <2> QED BY <1>5, <1>6, <2>1 DEF PhaseA, Holding
<1>7. CASE ApplyDecision
  <2>1. plan # None /\ UNCHANGED <<batch, doing>>
    BY <1>7 DEF ApplyDecision
  <2>2. PICK card \in Row, state \in States \cup {None} :
          /\ card = plan.card /\ state = StateAfter(plan) /\ state # "orphaned"
          /\ card.state = row.state
          /\ row'.state = IF state = None THEN row.state ELSE state
          /\ queue' = EnqueueAll(queue, Effects(card, state))
    BY <1>2, <1>7, <2>1, DecisionIs
  <2>3. ~card.archived
    BY <1>1, <2>1, <2>2 DEF Unarchived
  <2>4. PICK effective \in States : effective = IF state = None THEN card.state ELSE state
    BY DEF Row
  <2>5. CASE state # "resolved"
    <3>1. ~Holding(Effects(card, state), Flagged)
      BY <1>2, <2>2, <2>3, <2>4, <2>5, FlagsPlanned
    <3>2. ~Holding(queue', Flagged)
      BY <1>1, <1>3, <1>7, <2>2, <3>1, ApplyBrings, TimelessBrought
    <3>3. HoldsThreadOpen(row'.state)
      BY <1>2, <2>2, <2>5 DEF HoldsThreadOpen
    <3> QED BY <1>1, <1>6, <2>1, <3>2, <3>3
  <2>6. CASE state = "resolved"
    <3>1. ~Holding(queue, Later) /\ queue \in Seq(Queued)
      BY DEF QuietInv, TypeInv
    <3>2. PICK r : r = EnqueueAll(queue, Effects(card, "resolved"))
      OBVIOUS
    <3>3. /\ Holding(r, Seals) /\ ~Holding(r, Strays) /\ Ordered(r)
          /\ \E i \in DOMAIN r : Leads(r, i)
      BY <1>1, <1>2, <2>2, <2>3, <3>1, <3>2, SealQueued
    <3>4. queue' = r /\ row'.state = "resolved"
      BY <2>2, <2>6, <3>2 DEF DeliveryAssumption, States
    <3>5. PICK b \in Seq(Queued) : b = batch /\ ~Holding(b, Seals) /\ ~Holding(b, Strays)
      BY <1>1 DEF TypeInv, Holding, Seals, Strays
    <3>6. Ordered(b)
      BY <3>5 DEF Ordered, Precedes, Holding
    <3>7. doing # None => Head(b) \notin Seals
      <4>1. doing # None => b # <<>>
        BY <3>5 DEF TypeInv
      <4> QED BY <3>5, <4>1, FirstHold
    <3>8. Seals' = Seals /\ Strays' = Strays /\ Openers' = Openers /\ Edits' = Edits
      BY DEF Seals, Strays, Openers, Edits, Flagged, Queued
    <3>9. EditFirst'
      BY <2>1, <3>3, <3>4, <3>5, <3>8 DEF EditFirst, Holding, Leads, Precedes
    <3>10. OnlySeals'
      BY <2>1, <3>3, <3>4, <3>5, <3>8 DEF OnlySeals, Holding
    <3>11. Ordered(queue)' /\ Ordered(batch)'
      BY <2>1, <3>3, <3>4, <3>5, <3>6, <3>8 DEF Ordered, Precedes
    <3>12. Holding(queue, Seals)' /\ ~Holding(batch, Seals)'
      BY <2>1, <3>3, <3>4, <3>5, <3>8 DEF Holding
    <3>13. doing' # None => Head(batch)' \notin Seals'
      BY <2>1, <3>5, <3>7, <3>8
    <3> QED BY <1>5, <3>4, <3>9, <3>10, <3>11, <3>12, <3>13 DEF PhaseB
  <2> QED BY <2>5, <2>6
<1>8. CASE ~ApplyDecision
  <2>1. row'.state = row.state
    <3>1. Handle \/ Settle => row'.state = row.state
      BY <1>4, SettledIs
    <3> QED BY <1>8, <3>1 DEF QuietNext, Deliver, Request, Tick, Claim, ReadRow, DeleteTag, DeleteMessage, store, vars
  <2>2. ~Holding(queue', Flagged) /\ ~Holding(batch', Flagged)
    <3>1. \A kind \in {"edit_card", "resync_card", "escalate"} : Item(kind, 0) \notin Flagged
      BY DEF Item, Flagged
    <3> QED BY <1>1, <1>3, <1>8, <3>1, NothingComes
  <2> QED BY <1>1, <1>6, <2>1, <2>2
<1> QED BY <1>7, <1>8

(* The pieces of a phase after a step.                                     *)
LEMMA SealsSame ==
  /\ Seals' = Seals /\ Strays' = Strays /\ Openers' = Openers /\ Edits' = Edits /\ Flagged' = Flagged
BY DEF Seals, Strays, Openers, Edits, Flagged, Queued

(* What the seal waits for, said of a queue and a batch.                   *)
LEMMA BehindIs ==
  ASSUME NEW q, NEW b, q = queue', b = batch',
         ~Holding(q, Strays), ~Holding(b, Strays), Holding(q, Seals) \/ Holding(b, Seals),
         Ordered(q), Ordered(b), Holding(b, Seals) => ~Holding(q, Openers),
         row'.state = "resolved", Unarchived',
         \/ (\E i \in DOMAIN q : Leads(q, i)) /\ ~Holding(b, Seals)
         \/ \E i \in DOMAIN b : Leads(b, i) /\ (i = 1 => doing' = None)
         \/ EditUnderWay' \/ HashFresh',
         doing' # None /\ Head(b) \in Seals => IsRead' /\ doing'.card.state = "resolved"
  PROVE  PhaseB'
<1>1. Seals' = Seals /\ Strays' = Strays /\ Openers' = Openers /\ Edits' = Edits
  BY SealsSame
<1>2. OnlySeals'
  BY <1>1 DEF OnlySeals, Holding
<1>3. Ordered(queue)' /\ Ordered(batch)'
  BY <1>1 DEF Ordered, Precedes
<1>4. EditFirst'
  BY <1>1 DEF EditFirst, Leads, Precedes, Holding
<1>5. /\ Holding(queue, Seals)' \/ Holding(batch, Seals)'
      /\ Holding(batch, Seals)' => ~Holding(queue, Openers)'
  BY <1>1 DEF Holding
<1>6. doing' # None /\ Head(batch)' \in Seals' => IsRead' /\ doing'.card.state = "resolved"
  BY <1>1
<1> QED BY <1>2, <1>3, <1>4, <1>5, <1>6 DEF PhaseB

(* The same once it is made.                                               *)
LEMMA DoneIs ==
  ASSUME NEW q, NEW b, q = queue', b = batch', row'.state = "resolved",
         ~Holding(q, Strays), ~Holding(b, Strays), ~Holding(q, Openers), ~Holding(b, Openers),
         HashFresh', post' # None /\ row'.posted => post'.window = "route"
  PROVE  PhaseC'
<1>1. Strays' = Strays /\ Openers' = Openers
  BY SealsSame
<1> QED BY <1>1 DEF PhaseC, OnlySeals, Holding

(* Nobody asks anything of a card that is resolved.                        *)
LEMMA NoRequest ==
  ASSUME Quiet, row.state = "resolved", NEW kind \in {"resync_card", "escalate"}
  PROVE  ~Request(kind)
BY DEF Request, HoldsThreadOpen

(* The worker at the first item of its batch.                              *)
LEMMA AtWork ==
  ASSUME TypeInv, doing # None
  PROVE  batch \in Seq(Queued) /\ batch # <<>> /\ Head(batch) \in Queued /\ Tail(batch) \in Seq(Queued)
         /\ 1 \in DOMAIN batch /\ batch[1] = Head(batch)
<1>1. batch \in Seq(Queued) /\ batch # <<>>
  BY DEF TypeInv
<1> QED BY <1>1, HeadTailIs

(* The seal at hand read the resolved card: it is made, and the edit was   *)
(* before it.                                                              *)
LEMMA SealMade ==
  ASSUME DeliveryAssumption, TypeInv, ReadInv, Quiet, Handle, PhaseB, row' = row, Head(batch) \in Seals
  PROVE  PhaseC'
<1>1. /\ row.state = "resolved" /\ OnlySeals /\ Ordered(batch) /\ EditFirst
      /\ Holding(batch, Seals) => ~Holding(queue, Openers)
      /\ doing.card.state = "resolved"
  BY HandleIs DEF PhaseB
<1>2. doing # None /\ UNCHANGED <<queue, batch>> /\ SameColumns(doing.card, row)
  BY HandleIs
<1>3. batch \in Seq(Queued) /\ batch # <<>> /\ Head(batch) \in Queued /\ 1 \in DOMAIN batch /\ batch[1] = Head(batch)
  BY <1>2, AtWork
<1>4. Holding(batch, Seals)
  BY <1>3 DEF Holding
<1>5. DOMAIN batch = 1..Len(batch) /\ Len(batch) \in Nat
  BY <1>3, LenProperties
<1>6. \A i \in DOMAIN batch : ~Precedes(batch, i, Seals)
  <2>1. SUFFICES ASSUME NEW i \in DOMAIN batch, Precedes(batch, i, Seals)
                 PROVE  FALSE
    OBVIOUS
  <2>2. i < 1
    BY <1>3, <2>1 DEF Precedes
  <2> QED BY <1>5, <2>2
<1>7. ~Holding(batch, Openers)
  BY <1>1, <1>6 DEF Ordered, Holding
<1>8. Head1 = "set_flags" /\ Head(batch).flags.window = "route" /\ ~HoldsThreadOpen(Head(batch).flags.planned)
  BY DEF Seals, Flagged, Head1
<1>9. HashFresh
  BY <1>1, <1>4, <1>6, <1>8 DEF EditFirst, Leads, EditUnderWay
<1>10. HashFresh'
  BY <1>9, HashHandled
<1>11. ASSUME post' # None, row'.posted
       PROVE  post'.window = "route"
  <2>1. PICK message : message = post'
    OBVIOUS
  <2>2. FlagsAfter(message)
    BY <1>11, <2>1, HandledFlags
  <2>3. doing.card.posted
    BY <1>2, <1>11 DEF SameColumns
  <2>4. ~Superseded(Head(batch).flags)
    BY <1>1, <1>8 DEF Superseded, HoldsThreadOpen
  <2> QED BY <1>8, <2>1, <2>2, <2>3, <2>4 DEF FlagsAfter, SameFlags
<1> QED BY <1>1, <1>2, <1>4, <1>7, <1>10, <1>11, DoneIs DEF OnlySeals

(* The order of the queue is kept until the worker has the seal at hand.   *)
LEMMA PhaseBStep ==
  ASSUME DeliveryAssumption, TypeInv, ReadInv, PlanKnown, QuietInv, Quiet, QuietNext, PhaseB,
         alert'.text = alert.text, row'.state # "orphaned", plan # None => plan.card.state # "orphaned"
  PROVE  PhaseB' \/ PhaseC'
<1>1. /\ row.state = "resolved" /\ Unarchived
      /\ ~Holding(queue, Strays) /\ ~Holding(batch, Strays)
      /\ Holding(queue, Seals) \/ Holding(batch, Seals)
      /\ Ordered(queue) /\ Ordered(batch)
      /\ Holding(batch, Seals) => ~Holding(queue, Openers)
      /\ \/ (\E i \in DOMAIN queue : Leads(queue, i)) /\ ~Holding(batch, Seals)
         \/ \E i \in DOMAIN batch : Leads(batch, i) /\ (i = 1 => doing = None)
         \/ EditUnderWay \/ HashFresh
      /\ doing # None /\ Head(batch) \in Seals => IsRead /\ doing.card.state = "resolved"
  BY DEF PhaseB, OnlySeals, EditFirst
<1>2. policy \in Policies /\ queue \in Seq(Queued) /\ batch \in Seq(Queued)
  BY DEF TypeInv
<1>3. Timeless(Flagged) /\ Timeless(Seals) /\ Timeless(Strays) /\ Timeless(Openers)
  BY <1>2, SealsAre
<1>4. CASE Handle /\ Head(batch) \in Seals
  BY <1>4, HandledRow, SealMade
<1>5. ASSUME Handle => Head(batch) \notin Seals
      PROVE  Unarchived'
  <2>1. ASSUME Handle
        PROVE  Head1 # "set_flags" /\ row' = row
    <3>1. batch # <<>> /\ Head(batch) \in Queued
      BY <2>1, HandleIs, AtWork
    <3>2. Head(batch) \notin Strays
      BY <1>1, <1>2, <3>1, FirstHold
    <3> QED BY <1>5, <2>1, <3>1, <3>2, HandledRow DEF Strays, Flagged, Head1
  <2> QED BY <1>1, <2>1, UnarchivedStep
<1>6. ASSUME Unarchived', UNCHANGED <<queue, batch, doing, row>>, alert'.text = alert.text
      PROVE  PhaseB'
  <2>1. (EditUnderWay => EditUnderWay') /\ (HashFresh => HashFresh')
    BY <1>6, FreshKept
  <2>2. IsRead => IsRead'
    BY <1>6 DEF IsRead
  <2> QED BY <1>1, <1>6, <2>1, <2>2, BehindIs
<1>7. ASSUME ApplyDecision, Unarchived'
      PROVE  PhaseB'
  <2>1. plan # None /\ UNCHANGED <<batch, doing, alert>> /\ row.state # "orphaned"
    BY <1>1, <1>7 DEF ApplyDecision
  <2>2. PICK card \in Row : /\ card = plan.card /\ card.state = "resolved" /\ row' = row
                            /\ queue' = EnqueueAll(queue, Effects(card, None))
    BY <1>1, <1>7, <2>1, DecisionIs
  <2>3. ~card.archived /\ ~Holding(queue, Later)
    BY <1>1, <2>1, <2>2 DEF Unarchived, QuietInv
  <2>4. PICK r : r = EnqueueAll(queue, Effects(card, None))
    OBVIOUS
  <2>5. /\ \A X : Timeless(X) /\ Item("edit_card", Debounce) \notin X => (Holding(r, X) <=> Holding(queue, X))
        /\ Ordered(queue) => Ordered(r)
        /\ \A i \in DOMAIN queue : Leads(queue, i) => i \in DOMAIN r /\ Leads(r, i)
    BY <1>2, <2>2, <2>3, <2>4, EditQueued
  <2>6. /\ Item("edit_card", Debounce) \notin Seals /\ Item("edit_card", Debounce) \notin Strays
        /\ Item("edit_card", Debounce) \notin Openers
    BY DEF Item, Seals, Strays, Flagged, Openers
  <2>7. /\ Holding(r, Seals) <=> Holding(queue, Seals)
        /\ Holding(r, Strays) <=> Holding(queue, Strays)
        /\ Holding(r, Openers) <=> Holding(queue, Openers)
    BY <1>3, <2>5, <2>6
  <2>8. (EditUnderWay => EditUnderWay') /\ (HashFresh => HashFresh')
    BY <2>1, <2>2, FreshKept
  <2>9. IsRead => IsRead'
    BY <2>1 DEF IsRead
  <2>10. (\E i \in DOMAIN queue : Leads(queue, i)) => \E i \in DOMAIN r : Leads(r, i)
    BY <2>5
  <2>11. r = queue' /\ batch = batch'
    BY <2>1, <2>2, <2>4
  <2> QED BY <1>1, <1>7, <2>1, <2>2, <2>5, <2>7, <2>8, <2>9, <2>10, <2>11, BehindIs
<1>8. ASSUME Tick, Unarchived'
      PROVE  PhaseB'
  <2>1. UNCHANGED <<batch, doing, alert, row>>
    BY <1>8 DEF Tick, store
  <2>2. PICK r : r = queue'
    OBVIOUS
  <2>3. /\ Holding(r, Seals) <=> Holding(queue, Seals)
        /\ Holding(r, Strays) <=> Holding(queue, Strays)
        /\ Holding(r, Openers) <=> Holding(queue, Openers)
    BY <1>3, <1>8, <2>2, TickHold
  <2>4. /\ Ordered(r)
        /\ (\E i \in DOMAIN queue : Leads(queue, i)) => \E i \in DOMAIN r : Leads(r, i)
    BY <1>1, <1>8, <2>2, TickOrder
  <2>5. (EditUnderWay => EditUnderWay') /\ (HashFresh => HashFresh')
    BY <2>1, FreshKept
  <2>6. IsRead => IsRead'
    BY <2>1 DEF IsRead
  <2> QED BY <1>1, <1>8, <2>1, <2>2, <2>3, <2>4, <2>5, <2>6, BehindIs
<1>9. ASSUME Claim, Unarchived'
      PROVE  PhaseB'
  <2>1. batch = <<>> /\ doing = None /\ doing' = None /\ UNCHANGED <<row, alert>>
    BY <1>9, ClaimIs DEF Claim, store
  <2>2. PICK q, b : q = queue' /\ b = batch'
    OBVIOUS
  <2>3. /\ Holding(queue, Seals) <=> Holding(q, Seals) \/ Holding(b, Seals)
        /\ Holding(queue, Strays) <=> Holding(q, Strays) \/ Holding(b, Strays)
    BY <1>9, <2>2, ClaimHold
  <2>4. ~Holding(batch, Seals) /\ DOMAIN batch = {} /\ ~EditUnderWay
    BY <2>1, NoneHolds DEF EditUnderWay
  <2>5. /\ Ordered(q) /\ Ordered(b)
        /\ Holding(b, Seals) => ~Holding(q, Openers)
        /\ (\E i \in DOMAIN queue : Leads(queue, i)) =>
             \/ (\E i \in DOMAIN q : Leads(q, i)) /\ ~Holding(b, Seals)
             \/ \E i \in DOMAIN b : Leads(b, i)
    BY <1>1, <1>9, <2>2, ClaimOrder
  <2>6. HashFresh => HashFresh'
    BY <2>1 DEF HashFresh, IsRead, IsAnswered, Landing, Wanted
  <2> QED BY <1>1, <1>9, <2>1, <2>2, <2>3, <2>4, <2>5, <2>6, BehindIs
<1>10. ASSUME ReadRow, Unarchived'
       PROVE  PhaseB'
  <2>1. UNCHANGED <<queue, batch, row, alert>> /\ doing = None /\ IsRead' /\ doing'.card = row /\ batch # <<>>
    BY <1>10, ReadRowIs DEF ReadRow, store
  <2>2. batch[1] = Head(batch)
    BY <1>2, <2>1, HeadTailIs
  <2>3. Head1 = "edit_card" => EditUnderWay'
    BY <1>10, HashRead
  <2>4. HashFresh => HashFresh'
    BY <1>10, HashRead
  <2>5. ~EditUnderWay
    BY <2>1 DEF EditUnderWay
  <2>6. (\E i \in DOMAIN batch : Leads(batch, i)) => EditUnderWay' \/ \E i \in DOMAIN batch : Leads(batch, i) /\ i # 1
    BY <2>2, <2>3 DEF Leads, Edits, Head1
  <2> QED BY <1>1, <1>10, <2>1, <2>4, <2>5, <2>6, BehindIs
<1>11. ASSUME Handle, Head(batch) \notin Seals, Unarchived'
       PROVE  PhaseB'
  <2>1. UNCHANGED <<queue, batch>> /\ doing # None /\ row' = row
    BY <1>11, HandleIs, HandledRow
  <2>2. (EditUnderWay => EditUnderWay') /\ (HashFresh => HashFresh')
    BY <1>11, HashHandled
  <2> QED BY <1>1, <1>11, <2>1, <2>2, BehindIs
<1>12. ASSUME Settle, Unarchived'
       PROVE  PhaseB'
  <2>1. /\ doing # None /\ IsAnswered /\ ~IsRead /\ doing' = None /\ batch # <<>>
        /\ row'.state = row.state
    BY <1>12, SettledIs
  <2>2. doing.verdict # "retry"
    BY <2>1 DEF QuietInv
  <2>3. queue' = queue /\ batch' = Tail(batch)
    BY <1>12, <2>2 DEF Settle
  <2>4. PICK b : b = Tail(batch)
    OBVIOUS
  <2>5. Head(batch) \notin Seals
    BY <1>1, <2>1
  <2>6. /\ Holding(batch, Seals) <=> Holding(b, Seals)
        /\ ~Holding(b, Strays)
    BY <1>1, <1>2, <2>1, <2>4, <2>5, FirstHold
  <2>7. /\ Ordered(b)
        /\ \A i \in DOMAIN batch : i # 1 /\ Leads(batch, i) => \E k \in DOMAIN b : Leads(b, k)
    BY <1>1, <1>2, <2>1, <2>4, TailOrder
  <2>8. EditUnderWay \/ HashFresh => HashFresh'
    BY <1>12, <2>2, HashSettled
  <2> QED BY <1>1, <1>12, <2>1, <2>3, <2>4, <2>6, <2>7, <2>8, BehindIs
<1>13. CASE ~(Handle /\ Head(batch) \in Seals)
  <2>1. Unarchived'
    BY <1>5, <1>13
  <2>2. CASE \E new \in Incoming : Deliver(new)
    <3>1. UNCHANGED <<queue, batch, doing, row>>
      BY <2>2 DEF Deliver
    <3> QED BY <1>6, <2>1, <3>1
  <2>3. CASE DeleteTag \/ DeleteMessage \/ UNCHANGED vars
    <3>1. UNCHANGED <<queue, batch, doing, row, alert>>
      BY <2>3 DEF DeleteTag, DeleteMessage, store, vars
    <3> QED BY <1>6, <2>1, <3>1
  <2>4. \A kind \in {"resync_card", "escalate"} : ~Request(kind)
    BY <1>1, NoRequest
  <2> QED BY <1>7, <1>8, <1>9, <1>10, <1>11, <1>12, <1>13, <2>1, <2>2, <2>3, <2>4 DEF QuietNext
<1> QED BY <1>4, <1>13

(* With the seal made nothing opens the thread.                            *)
LEMMA StaysLetGo ==
  ASSUME DeliveryAssumption, TypeInv, ReadInv, PhaseC, QuietNext, ApplyDecision => row' = row,
         row'.state = "resolved", post' # None, row'.posted
  PROVE  post'.window = "route"
<1>1. /\ ~Holding(batch, Strays) /\ ~Holding(batch, Openers) /\ HashFresh
      /\ post # None /\ row.posted => post.window = "route"
  BY DEF PhaseC, OnlySeals
<1>2. CASE UNCHANGED <<row, post>>
  BY <1>1, <1>2
<1>3. CASE Handle
  <2>1. PICK message : message = post'
    OBVIOUS
  <2>2. FlagsAfter(message)
    BY <1>3, <2>1, HandledFlags
  <2>3. row' = row /\ doing # None /\ IsRead /\ SameColumns(doing.card, row)
    BY <1>3, HandledRow, HandleIs
  <2>4. batch # <<>> /\ Head(batch) \in Queued /\ batch \in Seq(Queued)
    BY <2>3, AtWork
  <2>5. Head(batch) \notin Strays /\ Head(batch) \notin Openers
    BY <1>1, <2>4, FirstHold
  <2>6. Head1 \notin {"post_card", "resync_card", "set_tags", "thread_note", "escalate", "disable_components"}
    BY <2>4, <2>5 DEF Openers, Head1
  <2>7. Head1 = "set_flags" => Head(batch).flags.window = "route"
    BY <2>4, <2>5 DEF Strays, Seals, Flagged, Head1
  <2>8. Head1 = "edit_card" => doing.card.hash = Rendered(doing.card, doing.text)
    BY <1>1, <2>3 DEF HashFresh, SameColumns
  <2>9. Head1 \in Kinds
    BY <2>4 DEF Queued, Items, Head1
  <2>10. Head1 \in {"edit_card", "set_flags", "set_pinned"}
    BY <2>6, <2>9 DEF Kinds
  <2> QED BY <1>1, <2>1, <2>2, <2>3, <2>6, <2>7, <2>8, <2>10 DEF FlagsAfter, SameFlags
<1>4. CASE Settle
  <2>1. post' = post /\ doing # None /\ IsAnswered /\ row'.posted = Coalesce(doing.applied.posted, row.posted)
    BY <1>4, SettledIs
  <2>2. batch # <<>> /\ Head(batch) \in Queued /\ batch \in Seq(Queued)
    BY <2>1, AtWork
  <2>3. Head(batch) \notin Openers
    BY <1>1, <2>2, FirstHold
  <2>4. doing.applied.posted = None
    BY <2>1, <2>2, <2>3 DEF Openers, ReadInv, Head1
  <2> QED BY <1>1, <2>1, <2>4 DEF Coalesce
<1>5. CASE DeleteTag
  <2>1. row' = row /\ post # None
    BY <1>5, DeleteTagIs DEF DeleteTag, store
  <2>2. CASE post.tags = None
    BY <1>1, <1>5, <2>1, <2>2 DEF DeleteTag
  <2>3. CASE post.tags # None
    <3>1. PICK p \in Post : p = post
      BY <2>1 DEF TypeInv
    <3>2. PICK fewer : fewer = [ p.tags EXCEPT !.label = 0 ]
      OBVIOUS
    <3>3. PICK message : message = [ p EXCEPT !.tags = fewer ]
      OBVIOUS
    <3>4. post' = message
      BY <1>5, <2>1, <2>3, <3>1, <3>2, <3>3 DEF DeleteTag
    <3>5. SameFlags(message, p)
      BY <3>3, OtherColumn
    <3> QED BY <1>1, <2>1, <3>1, <3>4, <3>5 DEF SameFlags
  <2> QED BY <2>2, <2>3
<1>6. CASE DeleteMessage
  BY <1>6 DEF DeleteMessage
<1>7. CASE ApplyDecision
  BY <1>2, <1>7 DEF ApplyDecision
<1>8. CASE \/ \E new \in Incoming : Deliver(new)
           \/ \E kind \in {"resync_card", "escalate"} : Request(kind)
           \/ Tick \/ Claim \/ ReadRow \/ UNCHANGED vars
  BY <1>2, <1>8 DEF Deliver, Request, Tick, Claim, ReadRow, store, vars
<1> QED BY <1>3, <1>4, <1>5, <1>6, <1>7, <1>8 DEF QuietNext

(* Nothing comes that sets other flags or opens a thread.                  *)
LEMMA PhaseCStep ==
  ASSUME DeliveryAssumption, TypeInv, ReadInv, PlanKnown, QuietInv, Quiet, QuietNext, [Next]_vars, PhaseC,
         alert'.text = alert.text, row'.state # "orphaned", plan # None => plan.card.state # "orphaned"
  PROVE  PhaseC'
<1>1. /\ row.state = "resolved" /\ HashFresh
      /\ ~Holding(queue, Strays) /\ ~Holding(batch, Strays)
      /\ ~Holding(queue, Openers) /\ ~Holding(batch, Openers)
  BY DEF PhaseC, OnlySeals
<1>2. policy \in Policies
  BY DEF TypeInv
<1>3. Timeless(Strays) /\ Timeless(Openers)
  BY <1>2, SealsAre
<1>4. ASSUME ApplyDecision
      PROVE  /\ row' = row
             /\ ~Holding(Effects(plan.card, StateAfter(plan)), Strays)
             /\ ~Holding(Effects(plan.card, StateAfter(plan)), Openers)
  <2>1. plan # None /\ row.state # "orphaned"
    BY <1>1, <1>4 DEF ApplyDecision
  <2>2. PICK card \in Row, state \in States \cup {None} :
          card = plan.card /\ state = StateAfter(plan) /\ state = None /\ card.state = "resolved" /\ row' = row
    BY <1>1, <1>4, <2>1, DecisionIs
  <2>3. PICK effective \in States : effective = IF state = None THEN card.state ELSE state
    BY DEF Row
  <2>4. ~Holding(Effects(card, state), Strays) /\ ~Holding(Effects(card, state), Openers)
    BY <1>2, <2>2, <2>3, FlagsPlanned
  <2> QED BY <2>2, <2>4
<1>5. \A kind \in {"resync_card", "escalate"} : ~Request(kind)
  BY <1>1, NoRequest
<1>6. Item("edit_card", 0) \notin Strays /\ Item("edit_card", 0) \notin Openers
  BY DEF Item, Strays, Flagged, Openers
<1>7. ~Holding(queue', Strays) /\ ~Holding(batch', Strays)
  BY <1>1, <1>3, <1>4, <1>5, <1>6, NothingComes
<1>8. ~Holding(queue', Openers) /\ ~Holding(batch', Openers)
  BY <1>1, <1>3, <1>4, <1>5, <1>6, NothingComes
<1>9. row'.state = "resolved" /\ HashFresh'
  <2>1. CASE UNCHANGED <<batch, doing, row>>
    BY <1>1, <2>1, FreshKept
  <2>2. CASE ApplyDecision
    BY <1>4, <2>1, <2>2 DEF ApplyDecision
  <2>3. CASE Claim
    <3>1. doing = None /\ doing' = None /\ UNCHANGED <<row, alert>>
      BY <2>3, ClaimIs DEF Claim, store
    <3> QED BY <1>1, <3>1 DEF HashFresh, IsRead, IsAnswered, Landing, Wanted
  <2>4. CASE ReadRow
    BY <1>1, <2>4, HashRead DEF ReadRow, store
  <2>5. CASE Handle
    BY <1>1, <2>5, HashHandled, HandledRow
  <2>6. CASE Settle
    BY <1>1, <2>6, HashSettled, SettledIs
  <2>7. CASE (\E new \in Incoming : Deliver(new)) \/ Tick \/ DeleteTag \/ DeleteMessage \/ UNCHANGED vars
    BY <2>1, <2>7 DEF Deliver, Tick, DeleteTag, DeleteMessage, store, vars
  <2> QED BY <1>5, <2>2, <2>3, <2>4, <2>5, <2>6, <2>7 DEF QuietNext
<1>10. post' # None /\ row'.posted => post'.window = "route"
  BY <1>4, <1>9, StaysLetGo
<1> QED BY <1>7, <1>8, <1>9, <1>10, DoneIs

(* From phase to phase, until the card has no message any more.            *)
LEMMA PhaseStep ==
  ASSUME DeliveryAssumption, TypeInv, ReadInv, OnePostInv, PlanKnown, QuietInv, GoneInv, [Next]_vars
  PROVE  GoneInv'
<1>1. SUFFICES ASSUME Quiet', ~Gone'
               PROVE  PhaseA' \/ PhaseB' \/ PhaseC'
  BY DEF GoneInv
<1>2. Quiet /\ QuietNext
  BY <1>1, QuietStep
<1>3. ~Gone
  BY <1>1, GoneStep
<1>4. row'.state # "orphaned"
  <2>1. OnePostInv'
    BY OnePostStep
  <2> QED BY <1>1, <2>1 DEF OnePostInv, Gone
<1>5. plan # None => plan.card.state # "orphaned"
  BY <1>3 DEF OnePostInv, Gone
<1>6. alert'.text = alert.text
  BY <1>1, <1>2 DEF Quiet
<1>7. PhaseA \/ PhaseB \/ PhaseC
  BY <1>2, <1>3 DEF GoneInv
<1> QED BY <1>2, <1>4, <1>5, <1>6, <1>7, PhaseAStep, PhaseBStep, PhaseCStep

-----------------------------------------------------------------------------
(* All of it together.                                                     *)
PostInv == FlagsKnown /\ PlanInv /\ OpenInv /\ PlanKnown /\ QuietInv /\ GoneInv

(* A card that was just planned is live, and nothing is planned for it but *)
(* its post.                                                               *)
LEMMA PostAtStart ==
  ASSUME Init
  PROVE  PostInv
<1> USE DeliveryAssumption
<1>1. TypeInv /\ plan = None /\ doing = None /\ post = None /\ batch = <<>>
  BY TypeAtStart DEF Init
<1>2. PICK item : item = Item("post_card", 0)
  OBVIOUS
<1>3. queue = <<item>> /\ item.kind = "post_card" /\ item.due = 0
  BY <1>2 DEF Init, Item
<1>4. \A X : Holding(queue, X) <=> item \in X
  BY <1>3, OneHolds
<1>5. \A X : ~Holding(batch, X)
  BY <1>1, NoneHolds
<1>6. item \notin Flagged /\ item \notin Wrong
  BY <1>3 DEF Flagged, Wrong, LiveFlags
<1>7. item \notin Later
  BY <1>3 DEF Later, DeliveryAssumption
<1>8. row.state = "firing" /\ row.posted = FALSE /\ row.archived = FALSE
  BY DEF Init, NewRow, InitialState
<1>9. HoldsThreadOpen(row.state) /\ ~IsRead /\ ~IsAnswered
  BY <1>1, <1>8 DEF HoldsThreadOpen, IsRead, IsAnswered
<1>10. FlagsKnown /\ PlanInv /\ PlanKnown
  BY <1>1, <1>4, <1>5, <1>6 DEF FlagsKnown, PlanInv, PlanKnown
<1>11. HeldFresh
  BY <1>1, <1>9 DEF HeldFresh
<1>12. QuietInv
  BY <1>1, <1>4, <1>7, <1>8, <1>9 DEF QuietInv
<1>13. PhaseA
  BY <1>1, <1>4, <1>5, <1>6, <1>8, <1>9 DEF PhaseA, Unarchived
<1> QED BY <1>10, <1>11, <1>12, <1>13 DEF PostInv, OpenInv, GoneInv

(* Each part of that is kept.                                              *)
LEMMA PostAfterStep ==
  ASSUME IInv, PostInv, [Next]_vars
  PROVE  PostInv'
<1>1. DeliveryAssumption /\ TypeInv /\ ReadInv /\ OnePostInv
  BY DeliveryAssumption DEF IInv
<1>2. FlagsKnown /\ PlanInv /\ OpenInv /\ PlanKnown /\ QuietInv /\ GoneInv
  BY DEF PostInv
<1>3. FlagsKnown' /\ PlanInv'
  BY <1>1, <1>2, FlagsKnownStep, PlanStep
<1>4. OpenInv'
  BY <1>1, <1>2, OpenStep
<1>5. PlanKnown' /\ QuietInv'
  BY <1>1, <1>2, PlanKnownStep, QuietInvStep
<1>6. GoneInv'
  BY <1>1, <1>2, PhaseStep
<1> QED BY <1>3, <1>4, <1>5, <1>6 DEF PostInv

(* So it is always so.                                                     *)
LEMMA AlwaysPostInv == Spec => [](IInv /\ PostInv)
<1>1. Init => IInv /\ PostInv
  BY AtStart, PostAtStart
<1>2. (IInv /\ PostInv) /\ [Next]_vars => (IInv /\ PostInv)'
  BY AfterStep, PostAfterStep
<1> QED BY <1>1, <1>2, PTL DEF Spec

(* At rest the flags that hold a live card's post open have been set, and  *)
(* a resolved card's seal was made.                                        *)
LEMMA PostGiven ==
  ASSUME IInv, PostInv
  PROVE  PostFollowsCard
<1> USE DeliveryAssumption
<1>1. LivePostHeldOpen
  <2>1. SUFFICES ASSUME Visible, policy.forum, HoldsThreadOpen(row.state), Unused("refusals")
                 PROVE  HeldOpen(post)
    BY DEF LivePostHeldOpen, HeldOpen
  <2>2. Settled /\ row.posted /\ post # None
    BY <2>1 DEF Visible
  <2>3. doing = None /\ queue = <<>> /\ batch = <<>>
    BY <2>2, NothingAhead DEF Settled
  <2>4. ~FlagsAhead
    <3>1. ~Holding(queue, LiveFlags)
      BY <2>3, NoneHolds
    <3>2. DOMAIN batch = {}
      BY <2>3
    <3> QED BY <3>1, <3>2 DEF FlagsAhead, AheadIn
  <2>5. HeldFresh
    BY <2>1, <2>3, <2>4 DEF PostInv, OpenInv, FlagsUnderWay
  <2> QED BY <2>2, <2>5 DEF HeldFresh
<1>2. ResolvedPostLetGo
  <2>1. SUFFICES ASSUME Visible, row.state = "resolved", Quiet
                 PROVE  post.window = "route"
    BY DEF ResolvedPostLetGo, Quiet, Upsetting
  <2>2. Settled /\ row.posted /\ post # None
    BY <2>1 DEF Visible
  <2>3. queue = <<>> /\ batch = <<>>
    BY <2>2 DEF Settled
  <2>4. ~Gone /\ ~PhaseA
    BY <2>1, <2>2 DEF Gone, PhaseA, HoldsThreadOpen
  <2>5. ~PhaseB
    BY <2>3, NoneHolds DEF PhaseB
  <2>6. PhaseC
    BY <2>1, <2>4, <2>5 DEF PostInv, GoneInv
  <2> QED BY <2>2, <2>6 DEF PhaseC
<1> QED BY <1>1, <1>2 DEF PostFollowsCard

(* Once nothing is under way, a live card's post in a forum is not sealed  *)
(* and has the long window, however often its alert resolved and came back *)
(* and whatever was tried again on the way, unless an effect was dropped   *)
(* for good; and that of an alert that has only resolved, with nothing     *)
(* failing, is on the short one, for the edit came before the seal         *)
(* (decide.rs, reopened_post_window and resolved_post_flags; dispatch.rs,  *)
(* set_post_flags).                                                        *)
THEOREM PostIsHeldOrLetGo == Spec => []PostFollowsCard
<1>1. IInv /\ PostInv => PostFollowsCard
  BY PostGiven
<1> QED BY <1>1, AlwaysPostInv, PTL

=============================================================================

---------------------------- MODULE LookupProofs ----------------------------
(***************************************************************************)
(* The lists of Lookup, for any alerts, labels, policies, filters and      *)
(* pages.  The argument: an alert has a place in a list, and each place    *)
(* has one (ListedIs); the pages that were turned to begin at the first,   *)
(* miss none, and as long as nothing changed are cut from the list as it   *)
(* is (LookupInv); pages one after the other are the list they were cut    *)
(* from (PagesMakeList); and the list has what the filter's words ask for, *)
(* whichever part of them SQL evaluates (FoundIsWanted).                   *)
(***************************************************************************)
EXTENDS RoutingProofs, MCRouting

-----------------------------------------------------------------------------
(***************************************************************************)
(* Lists and their pages.                                                  *)
(***************************************************************************)

(* Of a sequence S is the range of, without repetition.                    *)
Lists(s, S, N) ==
  /\ N \in Nat /\ s \in Seq(S) /\ Len(s) = N
  /\ \A a \in S : \E n \in 1..N : s[n] = a
  /\ \A m, n \in 1..N : m # n => s[m] # s[n]

(* Listed has each alert of a finite set once.                             *)
LEMMA ListedIs ==
  ASSUME LookupAssumption, seen \in [ Known -> Nat ], NEW S \in SUBSET Known
  PROVE  /\ IsFiniteSet(S) /\ Lists(Listed(S), S, Cardinality(S))
<1> DEFINE before == [ a \in S |-> { b \in S : ComesFirst(b, a) } ]
           N == Cardinality(S)
           rank(a) == Cardinality({ b \in S : ComesFirst(b, a) })
           s == Listed(S)
<1>1. IsFiniteSet(S) /\ S \subseteq Int
  BY FS_Subset DEF LookupAssumption
<1>2. Orders(before, S)
  <2>1. before \in [ S -> SUBSET S ]
    OBVIOUS
  <2>2. \A a, b \in S : b \in before[a] <=> ComesFirst(b, a)
    OBVIOUS
  <2>3. \A a \in S : seen[a] \in Int /\ a \in Int
    BY <1>1
  <2> HIDE DEF before
  <2>4. \A a, b, c \in S :
          /\ ~ComesFirst(a, a)
          /\ a # b => ComesFirst(a, b) \/ ComesFirst(b, a)
          /\ ComesFirst(a, b) => ~ComesFirst(b, a)
          /\ ComesFirst(a, b) /\ ComesFirst(b, c) => ComesFirst(a, c)
    BY <2>3 DEF ComesFirst
  <2> QED BY <2>1, <2>2, <2>4 DEF Orders
<1>3. \A a \in S : Cardinality(before[a]) = rank(a)
  OBVIOUS
<1> HIDE DEF before
<1>4. /\ N \in Nat
      /\ \A a \in S : rank(a) \in 0..(N - 1)
      /\ \A m \in 0..(N - 1) : \E a \in S : rank(a) = m
      /\ \A a, b \in S : rank(a) = rank(b) => a = b
  <2>1. /\ N \in Nat
        /\ \A a \in S : Cardinality(before[a]) \in 0..(N - 1)
        /\ \A m \in 0..(N - 1) : \E a \in S : Cardinality(before[a]) = m
        /\ \A a, b \in S : Cardinality(before[a]) = Cardinality(before[b]) => a = b
    <3>1. Ranks(before, S)
      BY <1>1, <1>2, RankIs
    <3> QED BY <3>1 DEF Ranks
  <2> HIDE DEF rank
  <2> QED BY <1>3, <2>1
<1>5. ASSUME NEW n \in 1..N
      PROVE  s[n] \in S /\ rank(s[n]) = n - 1
  <2>1. n - 1 \in 0..(N - 1)
    BY <1>4
  <2>2. PICK a \in S : rank(a) = n - 1
    BY <1>4, <2>1
  <2>3. s[n] = CHOOSE b \in S : rank(b) = n - 1
    BY DEF Listed
  <2> HIDE DEF rank, s
  <2> QED BY <2>2, <2>3, Zenon
<1>6. DOMAIN s = 1..N /\ s = [ n \in 1..N |-> s[n] ]
  BY DEF Listed
<1>7. s \in Seq(S) /\ Len(s) = N
  <2> HIDE DEF s
  <2>1. s \in [ 1..N -> S ]
    BY <1>5, <1>6
  <2> QED BY <1>4, <2>1, LenProperties
<1> HIDE DEF s
<1>8. ASSUME NEW a \in S
      PROVE  \E n \in 1..N : s[n] = a
  <2>1. rank(a) + 1 \in 1..N
    BY <1>4
  <2> HIDE DEF rank
  <2>2. s[rank(a) + 1] \in S /\ rank(s[rank(a) + 1]) = rank(a) + 1 - 1 /\ rank(a) \in Int
    BY <1>4, <1>5, <2>1
  <2>3. s[rank(a) + 1] = a
    BY <1>4, <2>2
  <2> QED BY <2>1, <2>3
<1>9. ASSUME NEW m \in 1..N, NEW n \in 1..N, m # n
      PROVE  s[m] # s[n]
  <2>1. rank(s[m]) = m - 1 /\ rank(s[n]) = n - 1
    BY <1>5
  <2>2. m - 1 # n - 1
    BY <1>9
  <2> HIDE DEF rank
  <2> QED BY <2>1, <2>2
<1> QED BY <1>1, <1>4, <1>7, <1>8, <1>9 DEF Lists, s

(* A page, entry by entry.                                                 *)
LEMMA TakenIs ==
  ASSUME NEW S, NEW s \in Seq(S), NEW o \in Nat, NEW k \in Nat
  PROVE  /\ Taken(s, o, k) \in Seq(S)
         /\ Len(Taken(s, o, k)) = IF o + k < Len(s) THEN k ELSE IF o < Len(s) THEN Len(s) - o ELSE 0
         /\ \A i \in 1..Len(Taken(s, o, k)) : Taken(s, o, k)[i] = s[o + i]
<1> DEFINE end == IF o + k < Len(s) THEN o + k ELSE Len(s)
           t == SubSeq(s, o + 1, end)
<1>1. Len(s) \in Nat /\ end \in Nat /\ end <= Len(s) /\ o + 1 \in Int
  BY LenProperties
<1>2. \A i \in (o + 1)..end : s[i] \in S
  BY <1>1, ElementOfSeq
<1>3. /\ t \in Seq(S)
      /\ Len(t) = IF o + 1 <= end THEN end - (o + 1) + 1 ELSE 0
      /\ \A i \in 1..(end - (o + 1) + 1) : t[i] = s[o + 1 + i - 1]
  <2> HIDE DEF end
  <2> QED BY <1>1, <1>2, SubSeqProperties
<1>4. Len(t) = IF o + k < Len(s) THEN k ELSE IF o < Len(s) THEN Len(s) - o ELSE 0
  BY <1>1, <1>3
<1>5. ASSUME NEW i \in 1..Len(t)
      PROVE  t[i] = s[o + i]
  <2> HIDE DEF t, end
  <2>1. i \in 1..(end - (o + 1) + 1) /\ o + 1 + i - 1 = o + i
    BY <1>1, <1>3
  <2> QED BY <1>3, <2>1
<1>6. Taken(s, o, k) = t
  BY DEF Taken
<1> HIDE DEF t
<1> QED BY <1>3, <1>4, <1>5, <1>6

(* One page more.                                                          *)
LEMMA PageJoins ==
  ASSUME NEW S, NEW s \in Seq(S), NEW o \in Nat, NEW k \in Nat, o <= Len(s)
  PROVE  Taken(s, 0, o) \o Taken(s, o, k) = Taken(s, 0, o + k)
<1> DEFINE end == IF o + k < Len(s) THEN o + k ELSE Len(s)
<1>1. Len(s) \in Nat
  BY LenProperties
<1>2. 1 \in 1..(Len(s) + 1) /\ o \in (1 - 1)..Len(s) /\ end \in o..Len(s)
  BY <1>1
<1>3. SubSeq(s, 1, o) \o SubSeq(s, o + 1, end) = SubSeq(s, 1, end)
  <2> HIDE DEF end
  <2> QED BY <1>2, ConcatAdjacentSubSeq
<1>4. Taken(s, 0, o) = SubSeq(s, 1, o)
  <2>1. (IF 0 + o < Len(s) THEN 0 + o ELSE Len(s)) = o /\ 0 + 1 = 1
    BY <1>1
  <2> QED BY <2>1 DEF Taken
<1>5. Taken(s, 0, o + k) = SubSeq(s, 1, end) /\ Taken(s, o, k) = SubSeq(s, o + 1, end)
  <2>1. (IF 0 + (o + k) < Len(s) THEN 0 + (o + k) ELSE Len(s)) = end /\ 0 + 1 = 1
    BY <1>1
  <2> QED BY <2>1 DEF Taken
<1> QED BY <1>3, <1>4, <1>5

LEMMA AllTaken ==
  ASSUME NEW S, NEW s \in Seq(S), NEW k \in Nat, Len(s) <= k
  PROVE  Taken(s, 0, k) = s
<1>1. (IF 0 + k < Len(s) THEN 0 + k ELSE Len(s)) = Len(s) /\ 0 + 1 = 1
  BY LenProperties
<1> QED BY <1>1, SubSeqFull DEF Taken

(* The pages of a list, one after the other, are the list.                 *)
LEMMA PagesMakeList ==
  ASSUME NEW S, NEW s \in Seq(S), NEW k \in Nat \ {0}, NEW N \in Nat \ {0},
         NEW pages, pages = [ n \in 1..N |-> Taken(s, (n - 1) * k, k) ],
         (N - 1) * k < Len(s), Len(s) <= N * k
  PROVE  FlattenSeq(pages) = s
<1> DEFINE Joined(f) == [ i \in 1..N |-> IF i = 1 THEN pages[i] ELSE f[i - 1] \o pages[i] ]
           g == [ i \in 1..N |-> Taken(s, 0, i * k) ]
<1>1. Len(s) \in Nat
  BY LenProperties
<1>2. ASSUME NEW i \in 1..N
      PROVE  g[i] = IF i = 1 THEN pages[i] ELSE g[i - 1] \o pages[i]
  <2>1. CASE i = 1
    <3>1. (1 - 1) * k = 0 /\ 1 * k = k
      OBVIOUS
    <3> QED BY <2>1, <3>1
  <2>2. CASE i # 1
    <3> DEFINE o == (i - 1) * k
    <3>1. i \in Nat /\ i - 1 \in 1..N /\ o \in Nat /\ o + k = i * k
      BY <2>2
    <3>2. i - 1 <= N - 1
      OBVIOUS
    <3>3. o <= (N - 1) * k /\ (N - 1) * k \in Nat
      BY <3>1, <3>2
    <3>4. o <= Len(s)
      <4> HIDE DEF o
      <4> DEFINE top == (N - 1) * k
      <4>1. o <= top /\ top \in Nat /\ top < Len(s)
        BY <3>3
      <4> HIDE DEF top
      <4> QED BY <1>1, <3>1, <4>1
    <3>5. g[i - 1] = Taken(s, 0, o) /\ pages[i] = Taken(s, o, k) /\ g[i] = Taken(s, 0, o + k)
      BY <3>1
    <3> HIDE DEF o, g
    <3> QED BY <2>2, <3>1, <3>4, <3>5, PageJoins
  <2> QED BY <2>1, <2>2
<1>3. g = Joined(g)
  <2>1. Joined(g) = [ i \in 1..N |-> g[i] ]
    <3> HIDE DEF g
    <3> QED BY <1>2
  <2> QED BY <2>1
<1>4. ASSUME NEW f, f = Joined(f)
      PROVE  f[N] = g[N]
  <2> DEFINE Bad == { i \in 1..N : f[i] # g[i] }
  <2>1. SUFFICES ASSUME Bad # {}
                 PROVE  FALSE
    <3>1. N \in 1..N
      OBVIOUS
    <3> HIDE DEF g
    <3> QED BY <3>1
  <2>2. PICK i \in Bad : \A j \in Bad : i <= j
    <3>1. Bad \in SUBSET Nat
      OBVIOUS
    <3> HIDE DEF Bad
    <3> QED BY <2>1, <3>1, LeastOf
  <2>3. \A j \in 1..N : f[j] = IF j = 1 THEN pages[j] ELSE f[j - 1] \o pages[j]
    BY <1>4
  <2> HIDE DEF g
  <2>4. i # 1
    BY <1>2, <2>2, <2>3
  <2>5. i - 1 \in 1..N /\ i - 1 \notin Bad
    <3>1. i \in 1..N /\ i - 1 \in 1..N /\ ~(i <= i - 1)
      BY <2>2, <2>4
    <3> HIDE DEF Bad
    <3> QED BY <2>2, <3>1
  <2>6. f[i - 1] = g[i - 1]
    BY <2>5
  <2> QED BY <1>2, <2>2, <2>3, <2>4, <2>6
<1>5. Len(pages) = N
  <2>1. \A n \in 1..N : (n - 1) * k \in Nat
    OBVIOUS
  <2>2. pages \in [ 1..N -> Seq(S) ]
    BY <2>1, TakenIs
  <2> QED BY <2>2, LenProperties
<1>6. FlattenSeq(pages) = (CHOOSE f : f = Joined(f))[N]
  BY <1>5 DEF FlattenSeq
<1>7. FlattenSeq(pages) = g[N]
  <2> HIDE DEF g, Joined
  <2>1. (CHOOSE f : f = Joined(f)) = Joined(CHOOSE f : f = Joined(f))
    BY <1>3, Zenon
  <2> QED BY <1>4, <1>6, <2>1
<1>8. g[N] = Taken(s, 0, N * k) /\ N * k \in Nat
  OBVIOUS
<1> QED BY <1>7, <1>8, AllTaken

-----------------------------------------------------------------------------
(***************************************************************************)
(* What somebody has turned to.                                            *)
(***************************************************************************)

(* The list that a filter's pages are cut from.                            *)
Rows(filter) == IF NeedsInMemoryFilter(filter) THEN Scanned(filter) ELSE Listed(Selected(filter))

TablesTyped ==
  /\ seen \in [ Known -> 0..now ] /\ now \in 0..MaxTime
  /\ states \in [ Keys -> {None, "firing", "acked"} ]

(* The pages somebody has turned to begin at the first, and miss none.     *)
Leafed(v) ==
  \E k \in Nat :
    /\ DOMAIN v.pages = { n * v.filter.limit : n \in 0..k }
    /\ \E j \in 0..k : v.offset = j * v.filter.limit

(* They are cut from the list as it is now, and begin before its end.      *)
Told(v) ==
  /\ v.total = Len(Rows(v.filter))
  /\ \A o \in DOMAIN v.pages :
       o < Len(Rows(v.filter)) /\ v.pages[o] = Taken(Rows(v.filter), o, v.filter.limit)

ViewOK(v) ==
  /\ v = [ filter |-> v.filter, offset |-> v.offset, total |-> v.total, steady |-> v.steady,
           pages |-> v.pages ]
  /\ v.filter \in Filters /\ v.steady \in BOOLEAN
  /\ Leafed(v)

LookupInv ==
  /\ TablesTyped
  /\ view # None => ViewOK(view) /\ (view.steady => Told(view))

LEMMA LimitIs ==
  ASSUME LookupAssumption, NEW filter \in Filters
  PROVE  filter.limit \in Nat /\ filter.limit # 0 /\ filter.fits \in BOOLEAN
BY DEF LookupAssumption

LEMMA SeenIs == ASSUME LookupAssumption, TablesTyped PROVE seen \in [ Known -> Nat ]
<1>1. now \in Nat
  BY DEF LookupAssumption, TablesTyped
<1>2. \A n \in 0..now : n \in Nat
  BY <1>1
<1> QED BY <1>2 DEF TablesTyped

LEMMA SelectedAreKnown == ASSUME NEW filter PROVE Selected(filter) \in SUBSET Known
BY DEF Selected

(* What is scanned, of what is selected.                                   *)
Scannable(filter) ==
  { a \in ToSet(Taken(Listed(Selected(filter)), 0, ScanLimit)) : MatchesRegexMatchers(filter, a) }

LEMMA ScannableIs ==
  ASSUME LookupAssumption, TablesTyped, NEW filter
  PROVE  /\ Scannable(filter) \in SUBSET { a \in Selected(filter) : MatchesRegexMatchers(filter, a) }
         /\ Cardinality(Selected(filter)) <= ScanLimit =>
              Scannable(filter) = { a \in Selected(filter) : MatchesRegexMatchers(filter, a) }
<1> DEFINE S == Selected(filter)
           s == Listed(S)
           t == Taken(s, 0, ScanLimit)
<1>1. Lists(s, S, Cardinality(S)) /\ ScanLimit \in Nat
  BY SeenIs, SelectedAreKnown, ListedIs DEF LookupAssumption
<1>2. s \in Seq(S) /\ Len(s) = Cardinality(S) /\ Cardinality(S) \in Nat /\ \A a \in S : \E n \in 1..Cardinality(S) : s[n] = a
  BY <1>1 DEF Lists
<1> HIDE DEF s, S
<1>3. t \in Seq(S)
  BY <1>1, <1>2, TakenIs
<1>4. ToSet(t) \in SUBSET S
  BY <1>3, LenProperties DEF ToSet
<1>5. ASSUME Cardinality(S) <= ScanLimit
      PROVE  ToSet(t) = S
  <2>1. t = s
    BY <1>1, <1>2, <1>5, AllTaken
  <2>2. DOMAIN s = 1..Cardinality(S)
    BY <1>2, LenProperties
  <2>3. S \in SUBSET ToSet(s)
    BY <1>2, <2>2 DEF ToSet
  <2> QED BY <1>4, <2>1, <2>3
<1>6. Scannable(filter) = { a \in ToSet(t) : MatchesRegexMatchers(filter, a) }
  BY DEF Scannable, S, s
<1> HIDE DEF t
<1> QED BY <1>4, <1>5, <1>6 DEF S

(* The alerts a filter's list has.                                         *)
Found(filter) == IF NeedsInMemoryFilter(filter) THEN Scannable(filter) ELSE Selected(filter)

LEMMA RowsListed ==
  ASSUME LookupAssumption, TablesTyped, NEW filter
  PROVE  /\ Found(filter) \in SUBSET Known
         /\ Rows(filter) = Listed(Found(filter))
         /\ Lists(Rows(filter), Found(filter), Cardinality(Found(filter)))
         /\ Rows(filter) \in Seq(Found(filter)) /\ Len(Rows(filter)) \in Nat
<1>1. Found(filter) \in SUBSET Known
  BY SelectedAreKnown, ScannableIs DEF Found
<1>2. Rows(filter) = Listed(Found(filter))
  BY DEF Rows, Found, Scanned, Scannable
<1>3. Lists(Rows(filter), Found(filter), Cardinality(Found(filter)))
  BY <1>1, <1>2, SeenIs, ListedIs
<1>4. Rows(filter) \in Seq(Found(filter)) /\ Len(Rows(filter)) \in Nat
  BY <1>3 DEF Lists
<1> QED BY <1>1, <1>2, <1>3, <1>4

(* A list stays as long as neither the alerts nor the cards change.        *)
LEMMA RowsStand ==
  ASSUME UNCHANGED <<seen, states>>, NEW filter
  PROVE  Rows(filter)' = Rows(filter)
<1>1. Selected(filter)' = Selected(filter)
  BY DEF Selected
<1>2. \A S : Listed(S)' = Listed(S)
  BY DEF Listed, ComesFirst
<1>3. Scanned(filter)' = Scanned(filter)
  BY <1>1, <1>2 DEF Scanned, Taken
<1> QED BY <1>1, <1>2, <1>3 DEF Rows

(* A page that is shown.                                                   *)
ShowsPage(filter, offset, pages, steady, w) ==
  w = [ filter |-> filter, offset |-> offset, total |-> Len(Rows(filter)), steady |-> steady,
        pages |-> [ n \in DOMAIN pages \cup {offset} |->
                      IF n = offset THEN Taken(Rows(filter), offset, filter.limit) ELSE pages[n] ] ]

LEMMA AnsweredIs ==
  ASSUME LookupAssumption, TablesTyped, NEW filter \in Filters, NEW offset \in Nat, NEW pages,
         NEW steady, NEW w, w = Answered(filter, offset, pages, steady), w # None
  PROVE  offset < Len(Rows(filter)) /\ ShowsPage(filter, offset, pages, steady, w)
<1> DEFINE page == Query(filter, offset)
<1>1. page.items = Taken(Rows(filter), offset, filter.limit) /\ page.total = Len(Rows(filter))
  BY DEF Query, Rows
<1>2. page.items # <<>>
  BY DEF Answered
<1>3. Answered(filter, offset, pages, steady)
        = [ filter |-> filter, offset |-> offset, total |-> page.total, steady |-> steady,
            pages |-> [ n \in DOMAIN pages \cup {offset} |->
                          IF n = offset THEN page.items ELSE pages[n] ] ]
  BY <1>2 DEF Answered
<1> HIDE DEF page
<1>4. Rows(filter) \in Seq(Found(filter)) /\ Len(Rows(filter)) \in Nat
  BY RowsListed
<1>5. filter.limit \in Nat
  BY LimitIs
<1>6. offset < Len(Rows(filter))
  <2>1. SUFFICES ASSUME ~(offset < Len(Rows(filter)))
                 PROVE  page.items = <<>>
    BY <1>2
  <2> DEFINE s == Rows(filter)
             k == filter.limit
  <2>2. s \in Seq(Found(filter)) /\ Len(s) \in Nat /\ k \in Nat /\ ~(offset < Len(s)) /\ page.items = Taken(s, offset, k)
    BY <1>1, <1>4, <1>5, <2>1
  <2> HIDE DEF s, k
  <2>3. /\ Taken(s, offset, k) \in Seq(Found(filter))
        /\ Len(Taken(s, offset, k)) = IF offset + k < Len(s) THEN k ELSE IF offset < Len(s) THEN Len(s) - offset ELSE 0
    BY <2>2, TakenIs
  <2>4. Len(page.items) = 0 /\ page.items \in Seq(Found(filter))
    BY <2>2, <2>3
  <2> QED BY <2>4, EmptySeq
<1> QED BY <1>1, <1>3, <1>6 DEF ShowsPage

(* What it leaves of a view.                                               *)
Turned(v, o, w) == ShowsPage(v.filter, o, v.pages, v.steady, w)

LEMMA TurnedIsView ==
  ASSUME LookupAssumption, NEW v, ViewOK(v), v.steady => Told(v), NEW o \in Nat, NEW w, Turned(v, o, w),
         o < Len(Rows(v.filter)),
         \E k \in Nat : /\ DOMAIN v.pages \cup {o} = { n * v.filter.limit : n \in 0..k }
                        /\ \E j \in 0..k : o = j * v.filter.limit
  PROVE  ViewOK(w) /\ (w.steady => Told(w))
<1>1. /\ w.filter = v.filter /\ w.offset = o /\ w.total = Len(Rows(v.filter)) /\ w.steady = v.steady
      /\ w.pages = [ n \in DOMAIN v.pages \cup {o} |->
                       IF n = o THEN Taken(Rows(v.filter), o, v.filter.limit) ELSE v.pages[n] ]
      /\ w = [ filter |-> w.filter, offset |-> w.offset, total |-> w.total, steady |-> w.steady,
               pages |-> w.pages ]
  BY DEF Turned, ShowsPage
<1>2. DOMAIN w.pages = DOMAIN v.pages \cup {o}
  BY <1>1
<1>3. Leafed(w)
  BY <1>1, <1>2 DEF Leafed
<1>4. ViewOK(w)
  BY <1>1, <1>3 DEF ViewOK
<1>5. ASSUME v.steady
      PROVE  Told(w)
  <2>1. Told(v)
    BY <1>5
  <2>2. ASSUME NEW n \in DOMAIN w.pages
        PROVE  n < Len(Rows(v.filter)) /\ w.pages[n] = Taken(Rows(v.filter), n, v.filter.limit)
    <3>1. w.pages[n] = IF n = o THEN Taken(Rows(v.filter), o, v.filter.limit) ELSE v.pages[n]
      BY <1>1, <1>2
    <3>2. CASE n = o
      BY <3>1, <3>2
    <3>3. CASE n # o
      BY <1>2, <2>1, <3>1, <3>3 DEF Told
    <3> QED BY <3>2, <3>3
  <2> QED BY <1>1, <2>2 DEF Told
<1>6. w.steady = v.steady
  BY <1>1
<1> QED BY <1>4, <1>5, <1>6

(* Where the two buttons lead.                                             *)
LEMMA NextLeaf ==
  ASSUME LookupAssumption, NEW v, ViewOK(v)
  PROVE  /\ v.offset + v.filter.limit \in Nat
         /\ \E k \in Nat :
              /\ DOMAIN v.pages \cup {v.offset + v.filter.limit} = { n * v.filter.limit : n \in 0..k }
              /\ \E j \in 0..k : v.offset + v.filter.limit = j * v.filter.limit
<1> DEFINE l == v.filter.limit
           o == v.offset + l
<1>1. l \in Nat
  BY LimitIs DEF ViewOK
<1>2. PICK k \in Nat : DOMAIN v.pages = { n * l : n \in 0..k } /\ \E j \in 0..k : v.offset = j * l
  BY DEF ViewOK, Leafed
<1>3. PICK j \in 0..k : v.offset = j * l
  BY <1>2
<1> HIDE DEF l
<1>4. o = (j + 1) * l /\ o \in Nat
  BY <1>1, <1>3
<1>5. CASE j + 1 \in 0..k
  <2>1. o \in { n * l : n \in 0..k }
    BY <1>4, <1>5
  <2> QED BY <1>2, <1>4, <1>5, <2>1 DEF l
<1>6. CASE j + 1 \notin 0..k
  <2>1. j = k
    BY <1>6
  <2>2. 0..(k + 1) = 0..k \cup {k + 1}
    OBVIOUS
  <2>3. { n * l : n \in 0..(k + 1) } = { n * l : n \in 0..k } \cup {(k + 1) * l}
    BY <2>2
  <2>4. DOMAIN v.pages \cup {o} = { n * l : n \in 0..(k + 1) }
    BY <1>2, <1>4, <2>1, <2>3
  <2>5. k + 1 \in Nat /\ k + 1 \in 0..(k + 1)
    OBVIOUS
  <2> QED BY <1>4, <2>1, <2>4, <2>5 DEF l
<1> QED BY <1>5, <1>6

LEMMA PreviousLeaf ==
  ASSUME LookupAssumption, NEW v, ViewOK(v), v.offset > 0, NEW o,
         o = IF v.offset > v.filter.limit THEN v.offset - v.filter.limit ELSE 0
  PROVE  /\ o \in Nat
         /\ \E k \in Nat : /\ DOMAIN v.pages \cup {o} = { n * v.filter.limit : n \in 0..k }
                           /\ \E j \in 0..k : o = j * v.filter.limit
<1> DEFINE l == v.filter.limit
<1>1. l \in Nat
  BY LimitIs DEF ViewOK
<1>2. PICK k \in Nat : DOMAIN v.pages = { n * l : n \in 0..k } /\ \E j \in 0..k : v.offset = j * l
  BY DEF ViewOK, Leafed
<1>3. PICK j \in 0..k : v.offset = j * l
  BY <1>2
<1> HIDE DEF l
<1>4. PICK i \in 0..k : o = i * l
  <2>1. CASE v.offset > l
    <3>1. j # 0
      <4>1. 0 * l = 0
        BY <1>1
      <4> QED BY <1>1, <1>3, <2>1, <4>1
    <3>2. j - 1 \in 0..k /\ (j - 1) * l = j * l - l
      BY <1>1, <3>1
    <3>3. o = (j - 1) * l
      BY <1>3, <2>1, <3>2 DEF l
    <3> QED BY <3>2, <3>3
  <2>2. CASE ~(v.offset > l)
    <3>1. o = 0 /\ 0 = 0 * l /\ 0 \in 0..k
      BY <1>1, <2>2 DEF l
    <3> QED BY <3>1
  <2> QED BY <2>1, <2>2
<1>5. o \in Nat
  BY <1>1, <1>4
<1>6. DOMAIN v.pages \cup {o} = { n * l : n \in 0..k }
  BY <1>2, <1>4
<1> QED BY <1>4, <1>5, <1>6 DEF l

LEMMA ToldStands ==
  ASSUME UNCHANGED <<seen, states>>, NEW w, w = view', Told(w)
  PROVE  Told(view)'
<1>1. w.total = Len(Rows(w.filter)')
  BY RowsStand DEF Told
<1>2. \A o \in DOMAIN w.pages :
        o < Len(Rows(w.filter)') /\ w.pages[o] = Taken(Rows(w.filter)', o, w.filter.limit)
  BY RowsStand DEF Told
<1> QED BY <1>1, <1>2 DEF Told

LEMMA ViewKept ==
  ASSUME LookupInv, UNCHANGED <<seen, states, now>>,
         view' # None => ViewOK(view') /\ (view'.steady => Told(view'))
  PROVE  LookupInv'
<1>1. TablesTyped'
  BY DEF LookupInv, TablesTyped
<1>2. ASSUME view' # None
      PROVE  ViewOK(view)' /\ (view'.steady => Told(view)')
  BY <1>2, ToldStands DEF ViewOK, Leafed
<1> QED BY <1>1, <1>2 DEF LookupInv

LEMMA LookupBegins == LookupAssumption /\ LookupInit => LookupInv
<1> SUFFICES ASSUME LookupAssumption, LookupInit
             PROVE  LookupInv
  OBVIOUS
<1>1. 0 \in 0..MaxTime /\ 0 \in 0..0
  BY DEF LookupAssumption
<1>2. TablesTyped
  BY <1>1 DEF LookupInit, TablesTyped
<1> QED BY <1>2 DEF LookupInit, LookupInv

LEMMA ListIsView ==
  ASSUME LookupAssumption, LookupInv, NEW filter \in Filters, List(filter)
  PROVE  LookupInv'
<1> DEFINE l == filter.limit
           none == [ n \in {} |-> <<>> ]
<1>1. view' = Answered(filter, 0, none, TRUE) /\ UNCHANGED <<seen, states, now>>
  BY DEF List
<1>2. ASSUME view' # None
      PROVE  ViewOK(view') /\ Told(view')
  <2> DEFINE r == Rows(filter)
             w == [ filter |-> filter, offset |-> 0, total |-> Len(r), steady |-> TRUE,
                    pages |-> [ n \in DOMAIN none \cup {0} |->
                                  IF n = 0 THEN Taken(r, 0, l) ELSE none[n] ] ]
  <2>1. 0 < Len(r) /\ view' = w
    <3> HIDE DEF none
    <3> DEFINE fresh == TRUE
    <3>1. view' = Answered(filter, 0, none, fresh) /\ 0 \in Nat /\ TablesTyped
      BY <1>1 DEF LookupInv
    <3> HIDE DEF fresh
    <3>2. 0 < Len(Rows(filter)) /\ ShowsPage(filter, 0, none, fresh, view')
      BY <1>2, <3>1, AnsweredIs
    <3> QED BY <3>2 DEF ShowsPage, fresh
  <2>2. l \in Nat
    BY LimitIs
  <2>3. DOMAIN none = {} /\ DOMAIN w.pages = {0} /\ w.pages[0] = Taken(r, 0, l)
    OBVIOUS
  <2>4. { n * l : n \in 0..0 } = {0} /\ 0 = 0 * l /\ 0 \in 0..0
    <3> HIDE DEF l
    <3>1. 0..0 = {0} /\ 0 * l = 0
      BY <2>2
    <3> QED BY <3>1
  <2>5. w.filter = filter /\ w.offset = 0 /\ w.total = Len(r) /\ w.steady = TRUE
    OBVIOUS
  <2>6. w = [ filter |-> w.filter, offset |-> w.offset, total |-> w.total, steady |-> w.steady,
              pages |-> w.pages ]
    OBVIOUS
  <2> HIDE DEF w, r, none
  <2>7. Leafed(w)
    <3>1. DOMAIN w.pages = { n * w.filter.limit : n \in 0..0 } /\ w.offset = 0 * w.filter.limit
      BY <2>3, <2>4, <2>5
    <3> QED BY <2>4, <3>1 DEF Leafed
  <2>8. ViewOK(w)
    BY <2>5, <2>6, <2>7 DEF ViewOK
  <2>9. Told(w)
    BY <2>1, <2>3, <2>5 DEF Told, r
  <2> QED BY <2>1, <2>8, <2>9
<1> QED BY <1>1, <1>2, ViewKept

LEMMA TurnIsView ==
  ASSUME LookupAssumption, LookupInv, view # None, NEW o \in Nat, Turn(o),
         \E k \in Nat : /\ DOMAIN view.pages \cup {o} = { n * view.filter.limit : n \in 0..k }
                        /\ \E j \in 0..k : o = j * view.filter.limit
  PROVE  LookupInv'
<1>1. view' = Answered(view.filter, o, view.pages, view.steady) /\ UNCHANGED <<seen, states, now>>
  BY DEF Turn
<1>2. ViewOK(view) /\ (view.steady => Told(view)) /\ view.filter \in Filters /\ TablesTyped
  BY DEF LookupInv, ViewOK
<1>3. ASSUME view' # None
      PROVE  ViewOK(view') /\ (view'.steady => Told(view'))
  <2>1. o < Len(Rows(view.filter)) /\ Turned(view, o, view')
    BY <1>1, <1>2, <1>3, AnsweredIs DEF Turned
  <2> QED BY <1>2, <2>1, TurnedIsView
<1> QED BY <1>1, <1>3, ViewKept

(* Whatever a list can see of is no longer steady.                         *)
LEMMA UnsteadyIsView ==
  ASSUME LookupInv, Unsteady, TablesTyped'
  PROVE  LookupInv'
<1>1. CASE view = None
  BY <1>1 DEF Unsteady, LookupInv
<1>2. CASE view # None
  <2> DEFINE w == [ filter |-> view.filter, offset |-> view.offset, total |-> view.total,
                    steady |-> FALSE, pages |-> view.pages ]
  <2>1. ViewOK(view)
    BY <1>2 DEF LookupInv
  <2>2. view = [ filter |-> view.filter, offset |-> view.offset, total |-> view.total,
                 steady |-> view.steady, pages |-> view.pages ]
    BY <2>1 DEF ViewOK
  <2>3. view' = w
    BY <1>2, <2>2 DEF Unsteady
  <2>4. /\ w.filter = view.filter /\ w.offset = view.offset /\ w.steady = FALSE /\ w.pages = view.pages
        /\ w = [ filter |-> w.filter, offset |-> w.offset, total |-> w.total, steady |-> w.steady,
                 pages |-> w.pages ]
    OBVIOUS
  <2> HIDE DEF w
  <2>5. ViewOK(w) /\ ~w.steady
    BY <2>1, <2>4 DEF ViewOK, Leafed
  <2>6. ViewOK(view)' /\ ~view'.steady
    BY <2>3, <2>5 DEF ViewOK, Leafed
  <2> QED BY <2>6 DEF LookupInv
<1> QED BY <1>1, <1>2

LEMMA LookupGoesOn == LookupAssumption /\ LookupInv /\ [LookupNext]_lookup => LookupInv'
<1> SUFFICES ASSUME LookupAssumption, LookupInv, [LookupNext]_lookup
             PROVE  LookupInv'
  OBVIOUS
<1>1. CASE \E filter \in Filters : List(filter)
  BY <1>1, ListIsView
<1>2. CASE PressNext
  <2>1. view # None /\ Turn(view.offset + view.filter.limit) /\ ViewOK(view)
    BY <1>2 DEF PressNext, LookupInv
  <2> QED BY <2>1, NextLeaf, TurnIsView
<1>3. CASE PressPrevious
  <2> DEFINE o == IF view.offset > view.filter.limit THEN view.offset - view.filter.limit ELSE 0
  <2>1. view # None /\ view.offset > 0 /\ Turn(o) /\ ViewOK(view)
    BY <1>3 DEF PressPrevious, LookupInv
  <2>2. /\ o \in Nat
        /\ \E k \in Nat : /\ DOMAIN view.pages \cup {o} = { n * view.filter.limit : n \in 0..k }
                          /\ \E j \in 0..k : o = j * view.filter.limit
    BY <2>1, PreviousLeaf
  <2> HIDE DEF o
  <2> QED BY <2>1, <2>2, TurnIsView
<1>4. CASE Dismiss
  BY <1>4 DEF Dismiss, LookupInv, TablesTyped
<1>5. CASE \E batch \in SUBSET Known \ {{}} : Arrive(batch)
  <2>1. PICK batch \in SUBSET Known : Arrive(batch)
    BY <1>5
  <2>2. now \in Nat /\ now' = now + 1 /\ now' \in 0..MaxTime
    BY <2>1 DEF Arrive, LookupInv, TablesTyped, LookupAssumption
  <2>3. seen' \in [ Known -> 0..now' ]
    <3>1. \A a \in Known : seen[a] \in 0..now' /\ now + 1 \in 0..now'
      BY <2>2 DEF LookupInv, TablesTyped
    <3> QED BY <2>1, <3>1 DEF Arrive
  <2>4. states' \in [ Keys -> {None, "firing", "acked"} ]
    BY <2>1 DEF Arrive, LookupInv, TablesTyped
  <2> QED BY <2>1, <2>2, <2>3, <2>4, UnsteadyIsView DEF Arrive, TablesTyped
<1>6. CASE \E k \in Keys : Acknowledge(k)
  <2>1. TablesTyped' /\ Unsteady
    BY <1>6 DEF Acknowledge, LookupInv, TablesTyped
  <2> QED BY <2>1, UnsteadyIsView
<1>7. CASE UNCHANGED lookup
  <2>1. UNCHANGED <<seen, states, now>> /\ view' = view
    BY <1>7 DEF lookup
  <2> QED BY <2>1, ViewKept DEF LookupInv
<1> QED BY <1>1, <1>2, <1>3, <1>4, <1>5, <1>6, <1>7 DEF LookupNext

LEMMA LookupInvariant == LookupAssumption => (LookupSpec => []LookupInv)
<1> SUFFICES ASSUME LookupAssumption PROVE LookupSpec => []LookupInv
  OBVIOUS
<1>1. LookupInit => LookupInv
  BY LookupBegins
<1>2. LookupInv /\ [LookupNext]_lookup => LookupInv'
  BY LookupGoesOn
<1> QED BY <1>1, <1>2, PTL DEF LookupSpec

-----------------------------------------------------------------------------
(***************************************************************************)
(* What follows.                                                           *)
(***************************************************************************)

(* Of pages that begin apart by what a page holds, none shares an alert.   *)
LEMMA PagesApart ==
  ASSUME NEW S, NEW s, NEW N, Lists(s, S, N), NEW l \in Nat, NEW f \in Nat, NEW g \in Nat, f + l <= g
  PROVE  ToSet(Taken(s, f, l)) \cap ToSet(Taken(s, g, l)) = {}
<1> DEFINE p == Taken(s, f, l)
           q == Taken(s, g, l)
<1>1. s \in Seq(S) /\ Len(s) = N /\ N \in Nat /\ \A m, n \in 1..N : m # n => s[m] # s[n]
  BY DEF Lists
<1>2. /\ p \in Seq(S) /\ Len(p) = IF f + l < Len(s) THEN l ELSE IF f < Len(s) THEN Len(s) - f ELSE 0
      /\ \A i \in 1..Len(p) : p[i] = s[f + i]
  <2>1. s \in Seq(S)
    BY <1>1
  <2> QED BY ONLY <2>1, f \in Nat, l \in Nat, TakenIs
<1>3. /\ q \in Seq(S) /\ Len(q) = IF g + l < Len(s) THEN l ELSE IF g < Len(s) THEN Len(s) - g ELSE 0
      /\ \A i \in 1..Len(q) : q[i] = s[g + i]
  <2>1. s \in Seq(S)
    BY <1>1
  <2> QED BY ONLY <2>1, g \in Nat, l \in Nat, TakenIs
<1>4. ASSUME NEW i \in 1..Len(p), NEW j \in 1..Len(q)
      PROVE  p[i] # q[j]
  <2>1. i \in Nat /\ j \in Nat /\ 1 <= i /\ i <= l /\ f + i <= N /\ 1 <= j /\ g + j <= N
    BY <1>1, <1>2, <1>3
  <2>2. f + i \in 1..N /\ g + j \in 1..N /\ f + i # g + j
    BY <1>1, <2>1
  <2> HIDE DEF p, q
  <2> QED BY <1>1, <1>2, <1>3, <2>2
<1>5. DOMAIN p = 1..Len(p) /\ DOMAIN q = 1..Len(q)
  BY <1>2, <1>3, LenProperties
<1> HIDE DEF p, q
<1>6. ToSet(p) \cap ToSet(q) = {}
  BY <1>4, <1>5 DEF ToSet
<1> QED BY <1>6 DEF p, q

LEMMA RoomBetween ==
  ASSUME NEW l \in Nat, NEW a \in Nat, NEW b \in Nat
  PROVE  /\ a * l \in Nat /\ b * l \in Nat
         /\ a < b => a * l + l <= b * l
         /\ b < a => b * l + l <= a * l
<1>1. (a + 1) * l = a * l + l /\ (b + 1) * l = b * l + l
  OBVIOUS
<1>2. (a < b => (a + 1) * l <= b * l) /\ (b < a => (b + 1) * l <= a * l)
  OBVIOUS
<1>3. a * l \in Nat /\ b * l \in Nat
  OBVIOUS
<1> QED BY <1>1, <1>2, <1>3

LEMMA LookupTyped == LookupAssumption /\ LookupInv => LookupTypeOK
<1> SUFFICES ASSUME LookupAssumption, LookupInv
             PROVE  LookupTypeOK
  OBVIOUS
<1>1. ASSUME view # None
      PROVE  /\ view.filter \in Filters /\ view.offset \in DOMAIN view.pages
             /\ view.steady => \A m, n \in DOMAIN view.pages :
                  m # n => ToSet(view.pages[m]) \cap ToSet(view.pages[n]) = {}
  <2> DEFINE l == view.filter.limit
             r == Rows(view.filter)
             S == Found(view.filter)
  <2>1. ViewOK(view) /\ (view.steady => Told(view)) /\ TablesTyped /\ view.filter \in Filters
    BY <1>1 DEF LookupInv, ViewOK
  <2>2. PICK k \in Nat : DOMAIN view.pages = { n * l : n \in 0..k } /\ \E j \in 0..k : view.offset = j * l
    BY <2>1 DEF ViewOK, Leafed
  <2>3. l \in Nat /\ Lists(r, S, Cardinality(S))
    BY <2>1, LimitIs, RowsListed
  <2>4. ASSUME view.steady, NEW m \in DOMAIN view.pages, NEW n \in DOMAIN view.pages, m # n
        PROVE  ToSet(view.pages[m]) \cap ToSet(view.pages[n]) = {}
    <3>1. view.pages[m] = Taken(r, m, l) /\ view.pages[n] = Taken(r, n, l)
      BY <2>1, <2>4 DEF Told
    <3>2. PICK a \in 0..k : m = a * l
      BY <2>2
    <3>3. PICK b \in 0..k : n = b * l
      BY <2>2
    <3> HIDE DEF l, r, S
    <3>4. a < b \/ b < a
      BY <2>4, <3>2, <3>3
    <3>5. a \in Nat /\ b \in Nat
      OBVIOUS
    <3>6. m \in Nat /\ n \in Nat /\ (a < b => m + l <= n) /\ (b < a => n + l <= m)
      BY <2>3, <3>2, <3>3, <3>5, RoomBetween
    <3>7. CASE a < b
      BY <2>3, <3>1, <3>6, <3>7, PagesApart
    <3>8. CASE b < a
      <4>1. ToSet(Taken(r, n, l)) \cap ToSet(Taken(r, m, l)) = {}
        BY <2>3, <3>6, <3>8, PagesApart
      <4> QED BY <3>1, <4>1
    <3> QED BY <3>4, <3>7, <3>8
  <2> QED BY <2>1, <2>2, <2>4
<1> QED BY <1>1 DEF LookupTypeOK, LookupInv, TablesTyped

-----------------------------------------------------------------------------
(* A label that names no severity counts as the least.                     *)
LEMMA SeverityIs == ASSUME NEW labels PROVE SeverityOf(labels) \in 1..3
BY MatchingAssumption DEF SeverityOf

(* What SQL evaluates and what is evaluated afterwards come to the words.  *)
LEMMA SplitIs ==
  ASSUME LookupAssumption, NEW filter \in Filters, NEW a \in Known
  PROVE  AllMatch(filter.matchers, LabelsOf[a])
           <=> /\ \A m \in filter.matchers : ~IsRegex(m) => ~Disagrees(m, LabelsOf[a])
               /\ MatchesRegexMatchers(filter, a)
<1>1. ASSUME NEW m \in filter.matchers, ~IsRegex(m)
      PROVE  ~Disagrees(m, LabelsOf[a]) <=> Matches(m, LabelsOf[a])
  <2>1. m.op \in {"=", "!="}
    BY <1>1 DEF LookupAssumption, IsRegex
  <2> QED BY <2>1 DEF Disagrees, Matches
<1> QED BY <1>1 DEF AllMatch, MatchesRegexMatchers

(* An alert that is looked for under its fingerprint is found there if it  *)
(* has no label that is ignored.                                           *)
LEMMA KeyIs ==
  ASSUME LookupAssumption, NEW a \in Known, FingerprintOf(a) \in Keys
  PROVE  IdentityOf(a) = FingerprintOf(a)
<1>1. PICK b \in Known : LabelsOf[a] = IdentityOf(b)
  BY DEF FingerprintOf, Keys
<1>2. DOMAIN LabelsOf[a] = DOMAIN LabelsOf[b] \ Ignored
  BY <1>1 DEF IdentityOf
<1>3. DOMAIN LabelsOf[a] \ Ignored = DOMAIN LabelsOf[a]
  BY <1>2
<1>4. IdentityOf(a) = [ n \in DOMAIN LabelsOf[a] |-> LabelsOf[a][n] ]
  BY <1>3 DEF IdentityOf
<1>5. LabelsOf[a] = [ n \in DOMAIN LabelsOf[a] |-> LabelsOf[a][n] ]
  BY DEF LookupAssumption
<1> QED BY <1>4, <1>5 DEF FingerprintOf

LEMMA SelectedIsWanted ==
  ASSUME LookupAssumption, NEW filter \in Filters, ~MergedUnder(filter)
  PROVE  { a \in Selected(filter) : MatchesRegexMatchers(filter, a) } = Wanted(filter)
<1>1. ASSUME NEW a \in Known
      PROVE  SeverityOf(LabelsOf[a]) \in SeveritiesAtOrAbove(filter.floor)
               <=> SeverityOf(LabelsOf[a]) >= filter.floor
  BY SeverityIs DEF SeveritiesAtOrAbove
<1>2. ASSUME NEW a \in Selected(filter), MatchesRegexMatchers(filter, a)
      PROVE  a \in Wanted(filter)
  <2>1. a \in Known
    BY DEF Selected
  <2>2. AllMatch(filter.matchers, LabelsOf[a])
    BY <1>2, <2>1, SplitIs DEF Selected
  <2>3. filter.state # None => states[IdentityOf(a)] = filter.state
    BY <2>1, KeyIs DEF Selected
  <2> QED BY <1>1, <2>1, <2>2, <2>3 DEF Selected, Wanted
<1>3. ASSUME NEW a \in Wanted(filter)
      PROVE  a \in Selected(filter) /\ MatchesRegexMatchers(filter, a)
  <2>1. a \in Known /\ AllMatch(filter.matchers, LabelsOf[a])
    BY DEF Wanted
  <2>2. filter.state # None => IdentityOf(a) = FingerprintOf(a)
    BY DEF MergedUnder
  <2>3. filter.state # None => FingerprintOf(a) \in Keys /\ states[FingerprintOf(a)] = filter.state
    BY <2>1, <2>2 DEF Wanted, Keys
  <2>4. /\ \A m \in filter.matchers : ~IsRegex(m) => ~Disagrees(m, LabelsOf[a])
        /\ MatchesRegexMatchers(filter, a)
    BY <2>1, SplitIs
  <2> QED BY <1>1, <2>1, <2>3, <2>4 DEF Selected, Wanted
<1> QED BY <1>2, <1>3

(* What a filter finds is what it asks for, unless more is to be scanned.  *)
LEMMA FoundIsWanted ==
  ASSUME LookupAssumption, TablesTyped, NEW filter \in Filters, ~MergedUnder(filter)
  PROVE  /\ Found(filter) \in SUBSET Wanted(filter)
         /\ ~(NeedsInMemoryFilter(filter) /\ Cardinality(Selected(filter)) > ScanLimit) =>
              Found(filter) = Wanted(filter)
<1>1. CASE NeedsInMemoryFilter(filter)
  <2>1. Cardinality(Selected(filter)) \in Nat /\ ScanLimit \in Nat
    <3>1. IsFiniteSet(Selected(filter))
      BY SelectedAreKnown, FS_Subset DEF LookupAssumption
    <3> QED BY <3>1, FS_CardinalityType DEF LookupAssumption
  <2> QED BY <1>1, <2>1, ScannableIs, SelectedIsWanted DEF Found
<1>2. CASE ~NeedsInMemoryFilter(filter)
  <2>1. \A a : MatchesRegexMatchers(filter, a)
    BY <1>2 DEF NeedsInMemoryFilter, MatchesRegexMatchers
  <2> QED BY <1>2, <2>1, SelectedIsWanted DEF Found
<1> QED BY <1>1, <1>2

LEMMA MultiplesAre ==
  ASSUME NEW l \in Nat \ {0}, NEW k \in Nat
  PROVE  Cardinality({ n * l : n \in 0..k }) = k + 1
<1> DEFINE T == { n * l : n \in 0..k }
           f == [ n \in 0..k |-> n * l ]
<1>1. f \in [ 0..k -> T ]
  OBVIOUS
<1>2. ASSUME NEW m \in 0..k, NEW n \in 0..k, m # n
      PROVE  f[m] # f[n]
  <2>1. m \in Nat /\ n \in Nat
    OBVIOUS
  <2>2. /\ m < n => m * l + l <= n * l
        /\ n < m => n * l + l <= m * l
        /\ m * l \in Nat /\ n * l \in Nat
    BY <2>1, RoomBetween
  <2>3. m < n \/ n < m
    BY <1>2, <2>1
  <2> DEFINE x == m * l
             y == n * l
  <2>4. f[m] = x /\ f[n] = y
    OBVIOUS
  <2>5. x \in Nat /\ y \in Nat /\ (x + l <= y \/ y + l <= x)
    BY <2>2, <2>3
  <2> HIDE DEF x, y, f
  <2> QED BY <2>4, <2>5
<1>3. \A t \in T : \E n \in 0..k : f[n] = t
  OBVIOUS
<1> HIDE DEF f, T
<1>4. f \in Bijection(0..k, T)
  BY <1>1, <1>2, <1>3 DEF Bijection, Injection, Surjection, IsInjective
<1>5. IsFiniteSet(0..k) /\ Cardinality(0..k) = k + 1
  BY FS_Interval
<1>6. Cardinality(T) = Cardinality(0..k)
  BY <1>4, <1>5, FS_Bijection DEF ExistsBijection
<1> QED BY <1>5, <1>6 DEF T

LEMMA Whole == LookupAssumption /\ LookupInv => PagesAreWhole
<1> SUFFICES ASSUME LookupAssumption, LookupInv, view # None, view.steady, view.filter.fits, ~HasNext,
                    ~MergedUnder(view.filter)
             PROVE  LET all == FlattenSeq([ n \in 1..Cardinality(DOMAIN view.pages) |->
                                              view.pages[(n - 1) * view.filter.limit] ])
                    IN  IF NeedsInMemoryFilter(view.filter) /\ Cardinality(Selected(view.filter)) > ScanLimit
                        THEN ToSet(all) \subseteq Wanted(view.filter)
                        ELSE all = Listed(Wanted(view.filter))
  BY DEF PagesAreWhole
<1> DEFINE filter == view.filter
           l == view.filter.limit
           r == Rows(filter)
           S == Found(filter)
           pages == [ n \in 1..Cardinality(DOMAIN view.pages) |-> view.pages[(n - 1) * l] ]
<1>1. ViewOK(view) /\ Told(view) /\ TablesTyped /\ filter \in Filters
  BY DEF LookupInv, ViewOK
<1>2. l \in Nat \ {0}
  BY <1>1, LimitIs
<1>3. PICK k \in Nat : DOMAIN view.pages = { n * l : n \in 0..k } /\ \E j \in 0..k : view.offset = j * l
  BY <1>1 DEF ViewOK, Leafed
<1>4. PICK j \in 0..k : view.offset = j * l
  BY <1>3
<1>5. S \in SUBSET Known /\ r = Listed(S) /\ r \in Seq(S) /\ Len(r) \in Nat
  BY <1>1, RowsListed
<1>6. /\ view.total = Len(r)
      /\ \A o \in DOMAIN view.pages : o < Len(r) /\ view.pages[o] = Taken(r, o, l)
  BY <1>1 DEF Told
<1>7. ~(view.offset + l < Len(r))
  BY <1>6 DEF HasNext
<1>8. Cardinality(DOMAIN view.pages) = k + 1
  BY <1>2, <1>3, MultiplesAre
<1> HIDE DEF r, S, l, filter
<1>9. \A n \in 0..k : n * l < Len(r) /\ view.pages[n * l] = Taken(r, n * l, l)
  BY <1>3, <1>6
<1>10. Len(r) <= (k + 1) * l
  <2>1. k \in 0..k /\ j \in Nat /\ (k + 1) * l = k * l + l
    BY <1>2
  <2>2. j * l \in Nat /\ k * l \in Nat /\ (j < k => j * l + l <= k * l)
    BY <1>2, <2>1, RoomBetween
  <2>3. k * l < Len(r) /\ ~(j * l + l < Len(r))
    BY <1>4, <1>7, <1>9, <2>1
  <2> DEFINE x == j * l
             y == k * l
  <2>4. x \in Nat /\ y \in Nat /\ (j < k => x + l <= y) /\ y < Len(r) /\ ~(x + l < Len(r)) /\ (k + 1) * l = y + l
    BY <2>1, <2>2, <2>3
  <2>5. x = y \/ j < k
    <3>1. j = k \/ j < k
      OBVIOUS
    <3> QED BY <3>1
  <2> HIDE DEF x, y
  <2> QED BY <1>2, <1>5, <2>4, <2>5
<1>11. FlattenSeq(pages) = r
  <2>1. pages = [ n \in 1..(k + 1) |-> Taken(r, (n - 1) * l, l) ]
    <3>1. \A n \in 1..(k + 1) : n - 1 \in 0..k
      OBVIOUS
    <3>2. \A n \in 1..(k + 1) : view.pages[(n - 1) * l] = Taken(r, (n - 1) * l, l)
      BY <1>9, <3>1
    <3> QED BY <1>8, <3>2
  <2>2. k + 1 \in Nat \ {0} /\ (k + 1) - 1 = k /\ k \in 0..k
    OBVIOUS
  <2>3. ((k + 1) - 1) * l < Len(r)
    BY <1>9, <2>2
  <2> HIDE DEF pages
  <2> QED BY <1>2, <1>5, <1>10, <2>1, <2>2, <2>3, PagesMakeList
<1>12. /\ S \in SUBSET Wanted(filter)
       /\ ~(NeedsInMemoryFilter(filter) /\ Cardinality(Selected(filter)) > ScanLimit) => S = Wanted(filter)
  BY <1>1, FoundIsWanted DEF S, filter
<1>13. ToSet(r) \in SUBSET S
  BY <1>5, LenProperties DEF ToSet
<1>14. IF NeedsInMemoryFilter(filter) /\ Cardinality(Selected(filter)) > ScanLimit
       THEN ToSet(FlattenSeq(pages)) \subseteq Wanted(filter)
       ELSE FlattenSeq(pages) = Listed(Wanted(filter))
  <2> HIDE DEF pages
  <2> QED BY <1>5, <1>11, <1>12, <1>13
<1> QED BY <1>14 DEF filter, l

(* The type invariant of the lists, for any alerts and filters: whoever    *)
(* turns the pages of a list that nothing changed meets no alert twice,    *)
(* for page_row cuts them by the offset from one order of scan_alerts or   *)
(* query_alerts.                                                           *)
THEOREM LookupTypeCorrect == LookupAssumption => (LookupSpec => []LookupTypeOK)
<1> SUFFICES ASSUME LookupAssumption PROVE LookupSpec => []LookupTypeOK
  OBVIOUS
<1>1. LookupInv => LookupTypeOK
  BY LookupTyped
<1> QED BY <1>1, LookupInvariant, PTL

(* For any alerts, labels, policy and filter, whoever has turned to the    *)
(* last page of a list that nothing changed has seen each alert the filter *)
(* asks for, once, the latest first: what the SQL of query_alerts leaves   *)
(* out and what scan_alerts evaluates afterwards come to the filter's      *)
(* words; unless more were to be scanned than are, and then nothing else.  *)
THEOREM ListsAreWhole == LookupAssumption => (LookupSpec => []PagesAreWhole)
<1> SUFFICES ASSUME LookupAssumption PROVE LookupSpec => []PagesAreWhole
  OBVIOUS
<1>1. LookupInv => PagesAreWhole
  BY Whole
<1> QED BY <1>1, LookupInvariant, PTL

(* The type invariants of the routing tables and of the lists together: a  *)
(* step is one of one of them, and the other stays as it is.               *)
THEOREM RoutingTypesCorrect == LookupAssumption => (RoutingSpec => []RoutingTypeOK)
<1> SUFFICES ASSUME LookupAssumption PROVE RoutingSpec => []RoutingTypeOK
  OBVIOUS
<1>1. RoutingInit => Init /\ LookupInit
  BY DEF RoutingInit
<1>2. [RoutingNext]_<<part, vars, lookup>> => [Next]_vars /\ [LookupNext]_lookup
  BY DEF RoutingNext
<1>3. RoutingSpec => Spec /\ LookupSpec
  BY <1>1, <1>2, PTL DEF RoutingSpec, Spec, LookupSpec
<1>4. TypeOK /\ LookupTypeOK => RoutingTypeOK
  BY DEF RoutingTypeOK
<1> QED BY <1>3, <1>4, RoutingTypeCorrect, LookupTypeCorrect, PTL
=============================================================================

-------------------------- MODULE QueryIteratorProofs --------------------------
(***************************************************************************)
(* For any pages, empty ones included, any page size and any failures: an  *)
(* iterator gives the rows in order, each once, and says that it has no    *)
(* more only when it gave them all.                                        *)
(***************************************************************************)
EXTENDS QueryIterator, WellFoundedInduction, TLAPS

-----------------------------------------------------------------------------
(* Induction, for a set in place of a predicate *)

LEMMA LeastNumber ==
    ASSUME NEW T \in SUBSET Nat, T # {}
    PROVE  \E n \in T : \A m \in T : n <= m
  <1>1. PICK n \in T : \A m \in T : ~(<<m, n>> \in OpToRel(<, Nat))
    BY NatLessThanWellFounded, WFMin
  <1>2. \A m \in T : ~(m < n)
    BY <1>1 DEF OpToRel
  <1> QED BY <1>2

LEMMA Induction ==
    ASSUME NEW n \in Nat, NEW Good,
           0 \in Good, \A i \in 0..(n - 1) : i \in Good => i + 1 \in Good
    PROVE  \A i \in 0..n : i \in Good
  <1> DEFINE Bad == (0..n) \ Good
  <1>1. Bad \in SUBSET Nat
    OBVIOUS
  <1>2. ASSUME Bad # {} PROVE FALSE
    <2>1. PICK k \in Bad : \A m \in Bad : k <= m
      <3> HIDE DEF Bad
      <3> QED BY <1>1, <1>2, LeastNumber
    <2>2. k \in 1..n /\ k - 1 \in 0..(n - 1)
      OBVIOUS
    <2>3. k - 1 \notin Bad
      <3> HIDE DEF Bad
      <3> QED BY <2>1, <2>2
    <2>4. k - 1 \in Good
      BY <2>2, <2>3
    <2>5. (k - 1) + 1 \in Good
      BY <2>2, <2>4
    <2> QED BY <2>2, <2>5
  <1> QED BY <1>2

-----------------------------------------------------------------------------
(* What FlattenSeq does *)

\* f[i] is the first i of n sequences of s, one after the other.
Flattens(f, s, n) ==
    f = [i \in 1..n |-> IF i = 1 THEN s[i] ELSE f[i - 1] \o s[i]]

LEMMA FlattensStep ==
    ASSUME NEW s, NEW n \in Nat, NEW f, Flattens(f, s, n)
    PROVE  /\ n # 0 => f[1] = s[1]
           /\ \A i \in 1..(n - 1) : f[i + 1] = f[i] \o s[i + 1]
  <1>1. \A i \in 1..n : f[i] = IF i = 1 THEN s[i] ELSE f[i - 1] \o s[i]
    BY DEF Flattens
  <1>2. ASSUME NEW i \in 1..(n - 1)
        PROVE  f[i + 1] = f[i] \o s[i + 1]
    <2>1. i + 1 \in 1..n /\ i + 1 # 1 /\ (i + 1) - 1 = i
      OBVIOUS
    <2> QED BY <1>1, <2>1
  <1>3. n # 0 => f[1] = s[1]
    BY <1>1
  <1> QED BY <1>2, <1>3

LEMMA FlattensExists ==
    ASSUME NEW s, NEW n \in Nat
    PROVE  \E f : Flattens(f, s, n)
  <1> DEFINE Upto(k, f) ==
                 f = [i \in 1..k |-> IF i = 1 THEN s[i] ELSE f[i - 1] \o s[i]]
             Good == {k \in 0..n : \E f : Upto(k, f)}
  <1>1. Upto(0, <<>>)
    OBVIOUS
  <1>2. ASSUME NEW j \in 0..(n - 1), NEW f, Upto(j, f)
        PROVE  \E g : Upto(j + 1, g)
    <2> DEFINE k == j + 1
               g == [i \in 1..k |-> IF i < k THEN f[i]
                                    ELSE IF k = 1 THEN s[1] ELSE f[j] \o s[k]]
    <2>1. \A i \in 1..j : f[i] = IF i = 1 THEN s[i] ELSE f[i - 1] \o s[i]
      BY <1>2
    <2>2. \A i \in 1..k : g[i] = IF i = 1 THEN s[i] ELSE g[i - 1] \o s[i]
      <3> SUFFICES ASSUME NEW i \in 1..k
                   PROVE  g[i] = IF i = 1 THEN s[i] ELSE g[i - 1] \o s[i]
        OBVIOUS
      <3>1. CASE i < k
        <4>1. i \in 1..j /\ g[i] = f[i] /\ (i # 1 => g[i - 1] = f[i - 1])
          BY <3>1
        <4> QED BY <2>1, <4>1
      <3>2. CASE i = k
        BY <3>2
      <3> QED BY <3>1, <3>2
    <2>3. Upto(k, g)
      BY <2>2
    <2> HIDE DEF Upto, g
    <2> QED BY <2>3
  <1> HIDE DEF Upto
  <1>3. 0 \in Good
    BY <1>1
  <1>4. \A j \in 0..(n - 1) : j \in Good => j + 1 \in Good
    BY <1>2
  <1>5. n \in Good
    <2> HIDE DEF Good
    <2> QED BY <1>3, <1>4, Induction
  <1>6. PICK f : Upto(n, f)
    BY <1>5
  <1>7. Flattens(f, s, n)
    BY <1>6 DEF Upto, Flattens
  <1> QED BY <1>7

LEMMA FlattenIsLast ==
    ASSUME NEW s, NEW n \in Nat \ {0}, Len(s) = n
    PROVE  \E f : Flattens(f, s, n) /\ FlattenSeq(s) = f[n]
  <1> DEFINE f == CHOOSE g : Flattens(g, s, n)
  <1>1. Flattens(f, s, n)
    BY FlattensExists
  <1>2. Len(s) # 0 /\ f = CHOOSE g : Flattens(g, s, Len(s))
    OBVIOUS
  <1>3. FlattenSeq(s) = (CHOOSE g : Flattens(g, s, Len(s)))[Len(s)]
    BY <1>2, Zenon DEF FlattenSeq, Flattens
  <1> HIDE DEF f
  <1> QED BY <1>1, <1>2, <1>3

LEMMA Associative ==
    ASSUME NEW T, NEW a \in Seq(T), NEW b \in Seq(T), NEW c \in Seq(T)
    PROVE  (a \o b) \o c = a \o (b \o c)
  OBVIOUS

LEMMA Consecutive ==
    ASSUME NEW T, NEW s \in Seq(T), NEW i \in 0..Len(s), NEW j \in i..Len(s)
    PROVE  /\ SubSeq(s, 1, j) \in Seq(T)
           /\ SubSeq(s, 1, i) \o SubSeq(s, i + 1, j) = SubSeq(s, 1, j)
  <1> DEFINE a == SubSeq(s, 1, i)
             b == SubSeq(s, i + 1, j)
             c == SubSeq(s, 1, j)
  <1>1. /\ i \in Nat /\ j \in Nat /\ i <= j /\ j <= Len(s) /\ Len(s) \in Nat
        /\ \A k \in 1..Len(s) : s[k] \in T
    OBVIOUS
  <1>2. c \in Seq(T) /\ Len(c) = j /\ \A k \in 1..j : c[k] = s[k]
    BY <1>1
  <1>3. a \in Seq(T) /\ Len(a) = i /\ \A k \in 1..i : a[k] = s[k]
    BY <1>1
  <1>4. b \in Seq(T) /\ Len(b) = j - i /\ \A k \in 1..(j - i) : b[k] = s[i + k]
    BY <1>1
  <1> HIDE DEF a, b, c
  <1>5. Len(a \o b) = j /\ \A k \in 1..j : (a \o b)[k] = s[k]
    BY <1>1, <1>3, <1>4
  <1>6. a \o b \in Seq(T)
    BY <1>3, <1>4
  <1>7. a \o b = c
    <2> DEFINE d == a \o b
    <2>1. d \in Seq(T) /\ Len(d) = j /\ \A k \in 1..j : d[k] = s[k]
      BY <1>5, <1>6
    <2> HIDE DEF d
    <2>2. d = [k \in 1..j |-> s[k]]
      BY <2>1
    <2>3. c = [k \in 1..j |-> s[k]]
      BY <1>2
    <2> QED BY <2>2, <2>3 DEF d
  <1> QED BY <1>2, <1>7 DEF a, b, c

\* What is flattened of some pages: of the first, nothing; and one page more adds
\* its rows at the end.
FlatUpTo(s, k) == FlattenSeq(SubSeq(s, 1, k))

LEMMA FlattenPages ==
    ASSUME NEW T, NEW s \in Seq(Seq(T))
    PROVE  /\ FlatUpTo(s, 0) = <<>>
           /\ \A k \in 0..Len(s) : FlatUpTo(s, k) \in Seq(T)
           /\ \A k \in 1..Len(s) : FlatUpTo(s, k) = FlatUpTo(s, k - 1) \o s[k]
           /\ FlatUpTo(s, Len(s)) = FlattenSeq(s)
  <1> DEFINE n == Len(s)
  <1>1. n \in Nat /\ \A i \in 1..n : s[i] \in Seq(T)
    OBVIOUS
  <1>2. FlatUpTo(s, 0) = <<>>
    <2>1. SubSeq(s, 1, 0) = <<>> /\ Len(<<>>) = 0
      OBVIOUS
    <2> QED BY <2>1 DEF FlatUpTo, FlattenSeq
  <1>3. PICK f : Flattens(f, s, n)
    BY <1>1, FlattensExists
  <1>4. /\ n # 0 => f[1] = s[1]
        /\ \A i \in 1..(n - 1) : f[i + 1] = f[i] \o s[i + 1]
    BY <1>1, <1>3, FlattensStep
  <1>5. \A i \in 1..n : f[i] \in Seq(T)
    <2> DEFINE Good == {i \in 0..n : i # 0 => f[i] \in Seq(T)}
    <2>1. 0 \in Good
      BY <1>1
    <2>2. \A i \in 0..(n - 1) : i \in Good => i + 1 \in Good
      <3> SUFFICES ASSUME NEW i \in 0..(n - 1), i \in Good PROVE i + 1 \in Good
        OBVIOUS
      <3>1. CASE i = 0
        BY <1>1, <1>4, <3>1
      <3>2. CASE i # 0
        <4>1. i \in 1..(n - 1) /\ i + 1 \in 1..n
          BY <1>1, <3>2
        <4>2. f[i] \in Seq(T) /\ s[i + 1] \in Seq(T)
          BY <1>1, <3>2, <4>1
        <4>3. f[i + 1] = f[i] \o s[i + 1]
          BY <1>4, <4>1
        <4>4. f[i + 1] \in Seq(T)
          BY <4>2, <4>3
        <4> QED BY <1>1, <4>1, <4>4
      <3> QED BY <3>1, <3>2
    <2>3. \A i \in 0..n : i \in Good
      <3> HIDE DEF Good, n
      <3> QED BY <1>1, <2>1, <2>2, Induction
    <2> QED BY <1>1, <2>3
  <1>6. ASSUME NEW k \in 1..n
        PROVE  FlatUpTo(s, k) = f[k]
    <2> DEFINE t == SubSeq(s, 1, k)
    <2>1. Len(t) = k /\ k \in Nat \ {0} /\ \A i \in 1..k : t[i] = s[i]
      BY <1>1
    <2> HIDE DEF t
    <2>2. PICK g : Flattens(g, t, k) /\ FlattenSeq(t) = g[k]
      BY <2>1, FlattenIsLast
    <2>3. /\ g[1] = t[1]
          /\ \A i \in 1..(k - 1) : g[i + 1] = g[i] \o t[i + 1]
      <3>1. k \in Nat /\ k # 0 /\ Flattens(g, t, k)
        BY <2>1, <2>2
      <3>2. \A i \in 1..(k - 1) : g[i + 1] = g[i] \o t[i + 1]
        BY <3>1, FlattensStep
      <3>3. g[1] = t[1]
        BY <3>1 DEF Flattens
      <3> QED BY <3>2, <3>3
    <2> DEFINE Good == {i \in 0..k : i # 0 => g[i] = f[i]}
    <2>4. 0 \in Good
      BY <1>1
    <2>5. \A i \in 0..(k - 1) : i \in Good => i + 1 \in Good
      <3> SUFFICES ASSUME NEW i \in 0..(k - 1), i \in Good PROVE i + 1 \in Good
        OBVIOUS
      <3>1. CASE i = 0
        BY <1>1, <1>4, <2>1, <2>3, <3>1
      <3>2. CASE i # 0
        <4>1. i \in 1..(k - 1) /\ i \in 1..(n - 1) /\ i + 1 \in 1..k
          BY <1>1, <3>2
        <4>2. g[i] = f[i]
          BY <3>2
        <4>3. /\ t[i + 1] = s[i + 1]
              /\ g[i + 1] = g[i] \o t[i + 1] /\ f[i + 1] = f[i] \o s[i + 1]
          BY <1>4, <2>1, <2>3, <4>1
        <4>4. g[i + 1] = f[i + 1]
          BY <4>2, <4>3
        <4> QED BY <2>1, <4>1, <4>4
      <3> QED BY <3>1, <3>2
    <2>6. \A i \in 0..k : i \in Good
      <3> HIDE DEF Good
      <3> QED BY <2>1, <2>4, <2>5, Induction
    <2>7. g[k] = f[k]
      BY <1>1, <2>6
    <2> QED BY <2>2, <2>7 DEF FlatUpTo, t
  <1>7. \A k \in 0..n : FlatUpTo(s, k) \in Seq(T)
    <2>1. FlatUpTo(s, 0) \in Seq(T)
      <3>1. <<>> \in Seq(T)
        OBVIOUS
      <3> QED BY <1>2, <3>1
    <2>2. \A k \in 1..n : FlatUpTo(s, k) \in Seq(T)
      BY <1>5, <1>6
    <2> QED BY <1>1, <2>1, <2>2
  <1>8. ASSUME NEW k \in 1..n
        PROVE  FlatUpTo(s, k) = FlatUpTo(s, k - 1) \o s[k]
    <2>1. CASE k = 1
      <3>1. FlatUpTo(s, 1) = s[1] /\ s[1] \in Seq(T)
        BY <1>1, <1>4, <1>6, <2>1
      <3>2. <<>> \o s[1] = s[1]
        BY <3>1
      <3> QED BY <1>2, <2>1, <3>1, <3>2
    <2>2. CASE k # 1
      <3>1. k - 1 \in 1..(n - 1) /\ k - 1 \in 1..n /\ (k - 1) + 1 = k
        BY <1>1, <2>2
      <3> QED BY <1>4, <1>6, <3>1
    <2> QED BY <2>1, <2>2
  <1>9. FlatUpTo(s, n) = FlattenSeq(s)
    <2>1. SubSeq(s, 1, n) = s
      BY <1>1
    <2> QED BY <2>1 DEF FlatUpTo
  <1> QED BY <1>2, <1>7, <1>8, <1>9

\* What is flattened of the first pages begins what is flattened of more.
LEMMA FlattenGrows ==
    ASSUME NEW T, NEW s \in Seq(Seq(T)), NEW k \in 0..Len(s)
    PROVE  \E rest \in Seq(T) : FlattenSeq(s) = FlatUpTo(s, k) \o rest
  <1> DEFINE n == Len(s) - k
             Good == {i \in 0..n : \E rest \in Seq(T) :
                          FlatUpTo(s, k + i) = FlatUpTo(s, k) \o rest}
  <1>1. n \in Nat /\ Len(s) \in Nat /\ k + n = Len(s)
    OBVIOUS
  <1>2. /\ \A j \in 0..Len(s) : FlatUpTo(s, j) \in Seq(T)
        /\ \A j \in 1..Len(s) : FlatUpTo(s, j) = FlatUpTo(s, j - 1) \o s[j]
        /\ FlatUpTo(s, Len(s)) = FlattenSeq(s)
    BY FlattenPages
  <1>3. 0 \in Good
    <2>1. FlatUpTo(s, k) \in Seq(T) /\ k + 0 = k
      BY <1>2
    <2>2. <<>> \in Seq(T) /\ FlatUpTo(s, k) = FlatUpTo(s, k) \o <<>>
      BY <2>1
    <2>3. 0 \in 0..n
      BY <1>1
    <2> QED BY <2>1, <2>2, <2>3
  <1>4. \A i \in 0..(n - 1) : i \in Good => i + 1 \in Good
    <2> SUFFICES ASSUME NEW i \in 0..(n - 1), i \in Good PROVE i + 1 \in Good
      OBVIOUS
    <2>1. PICK rest \in Seq(T) : FlatUpTo(s, k + i) = FlatUpTo(s, k) \o rest
      OBVIOUS
    <2>2. /\ k + (i + 1) \in 1..Len(s) /\ (k + (i + 1)) - 1 = k + i
          /\ s[k + (i + 1)] \in Seq(T)
      BY <1>1
    <2>3. FlatUpTo(s, k + (i + 1)) = (FlatUpTo(s, k) \o rest) \o s[k + (i + 1)]
      BY <1>2, <2>1, <2>2
    <2>4. (FlatUpTo(s, k) \o rest) \o s[k + (i + 1)]
              = FlatUpTo(s, k) \o (rest \o s[k + (i + 1)])
      <3>1. FlatUpTo(s, k) \in Seq(T)
        BY <1>2
      <3> DEFINE a == FlatUpTo(s, k)
                 c == s[k + (i + 1)]
      <3>2. c \in Seq(T)
        BY <2>2
      <3> HIDE DEF n, Good, a, c
      <3>3. (a \o rest) \o c = a \o (rest \o c)
        BY <3>1, <3>2, Associative DEF a
      <3> QED BY <3>3 DEF a, c
    <2>5. rest \o s[k + (i + 1)] \in Seq(T)
      BY <2>2
    <2>6. i + 1 \in 0..n
      BY <1>1
    <2> QED BY <2>3, <2>4, <2>5, <2>6
  <1>5. n \in Good
    <2> HIDE DEF Good, n
    <2>1. \A i \in 0..n : i \in Good
      BY <1>1, <1>3, <1>4, Induction
    <2> QED BY <1>1, <2>1
  <1> QED BY <1>1, <1>2, <1>5

-----------------------------------------------------------------------------
(* The invariant of an iterator *)

PagesFrom(token) == SubSeq(Pages, PageNumber(token), Len(Pages))

\* What fetchAll has yet to take of the page at hand.
LeftOfPage ==
    IF call = "all" THEN SubSeq(resources, currentIndex + 2, Len(resources)) ELSE <<>>

IteratorTypes ==
    /\ crossPartition \in BOOLEAN /\ bufferItems \in BOOLEAN
    /\ context \in {"default", "pipelined"}
    /\ state \in {"start", "inProgress", "ended"}
    /\ call \in {"none", "next", "all", "iterate"}
    /\ optionsContinuation \in 0..Len(Pages)
    /\ original \in 0..Len(Pages)
    /\ startedAt \in 0..Len(Pages)
    /\ continuation \in 0..Undefined
    /\ currentPartitionIndex \in {0, 1}
    /\ nextFetchFunction \in {None} \cup 1..Len(Pages)
    /\ fetching \in {None} \cup 1..Len(Pages)
    /\ resources \in Seq(Nat) /\ taken \in Seq(Nat)
    /\ currentIndex \in Nat /\ position \in Nat

\* Whatever is fetched, now or ahead, is the page that the continuation asks for.
NextPageIsFetched ==
    /\ currentPartitionIndex = 1 <=> continuation = Undefined
    /\ PageNumber(startedAt) <= PageNumber(continuation)
    /\ nextFetchFunction # None => nextFetchFunction = PageNumber(continuation)
    /\ fetching # None =>
           fetching = PageNumber(continuation) /\ call # "none" /\ LeftOfPage = <<>>

\* Before the continuation, all is taken but what is left of the page at hand.
TakenUpToContinuation ==
    context = "default" =>
        /\ position = 0
        /\ taken \o LeftOfPage =
               FlatUpTo(PagesFrom(startedAt),
                        PageNumber(continuation) - PageNumber(startedAt))

\* A query that spans partitions gives nothing before it is pipelined.
PipelinedFromTheStart ==
    /\ context = "pipelined" => crossPartition
    /\ crossPartition =>
           /\ optionsContinuation = 0 /\ original = 0 /\ startedAt = 0
           /\ continuation = 0
           /\ context = "default" => taken = <<>> /\ resources = <<>>

TakenUpToPosition ==
    context = "pipelined" =>
        /\ fetching = None
        /\ position <= Len(AllRows)
        /\ taken = SubSeq(AllRows, 1, position)
        /\ state = "ended" => position = Len(AllRows)

IteratorInv ==
    /\ IteratorTypes
    /\ NextPageIsFetched
    /\ TakenUpToContinuation
    /\ PipelinedFromTheStart
    /\ TakenUpToPosition

LEMMA PagesAre ==
    /\ Len(Pages) \in Nat \ {0}
    /\ Undefined = Len(Pages) + 1
    /\ \A p \in 1..Len(Pages) : Pages[p] \in Seq(Nat)
    /\ Starts \subseteq 0..Len(Pages)
  BY PagesAssumption DEF Undefined

LEMMA PagesFromAre ==
    ASSUME NEW token \in 0..Len(Pages)
    PROVE  /\ PageNumber(token) \in 1..Len(Pages)
           /\ PagesFrom(token) \in Seq(Seq(Nat))
           /\ Len(PagesFrom(token)) = Len(Pages) - PageNumber(token) + 1
           /\ \A j \in 1..Len(PagesFrom(token)) :
                  PagesFrom(token)[j] = Pages[PageNumber(token) + j - 1]
  <1>1. PageNumber(token) \in 1..Len(Pages)
    BY PagesAre DEF PageNumber
  <1>2. Pages \in Seq(Seq(Nat))
    BY PagesAssumption
  <1> QED BY <1>1, <1>2 DEF PagesFrom

\* A page more is its rows more.
LEMMA OnePageMore ==
    ASSUME NEW token \in 0..Len(Pages), NEW page \in PageNumber(token)..Len(Pages)
    PROVE  FlatUpTo(PagesFrom(token), (page + 1) - PageNumber(token))
               = FlatUpTo(PagesFrom(token), page - PageNumber(token)) \o Pages[page]
  <1> DEFINE s == PagesFrom(token)
             a == PageNumber(token)
             k == (page + 1) - a
  <1>1. /\ a \in 1..Len(Pages) /\ Len(Pages) \in Nat
        /\ s \in Seq(Seq(Nat)) /\ Len(s) = Len(Pages) - a + 1
        /\ \A j \in 1..Len(s) : s[j] = Pages[a + j - 1]
    BY PagesFromAre, PagesAre
  <1> HIDE DEF s, a
  <1>2. k \in 1..Len(s) /\ k - 1 = page - a /\ a + k - 1 = page
    BY <1>1 DEF a
  <1>3. FlatUpTo(s, k) = FlatUpTo(s, k - 1) \o s[k]
    <2> HIDE DEF k
    <2> QED BY <1>1, <1>2, FlattenPages
  <1>4. s[k] = Pages[page]
    BY <1>1, <1>2
  <1> QED BY <1>2, <1>3, <1>4 DEF s, a

\* No page is no row.
LEMMA NoPageYet ==
    ASSUME NEW token \in 0..Len(Pages)
    PROVE  FlatUpTo(PagesFrom(token), PageNumber(token) - PageNumber(token)) = <<>>
  <1>1. PagesFrom(token) \in Seq(Seq(Nat)) /\ PageNumber(token) \in Nat
    BY PagesFromAre
  <1>2. PageNumber(token) - PageNumber(token) = 0
    BY <1>1
  <1> QED BY <1>1, <1>2, FlattenPages

LEMMA AllRowsAre ==
    /\ AllRows \in Seq(Nat)
    /\ RowsFrom(0) = AllRows
  <1>1. Pages \in Seq(Seq(Nat))
    BY PagesAssumption
  <1>2. SubSeq(Pages, 1, Len(Pages)) = Pages
    BY <1>1
  <1>3. AllRows = FlatUpTo(Pages, Len(Pages))
    BY <1>2 DEF AllRows, FlatUpTo
  <1>4. Len(Pages) \in 0..Len(Pages)
    BY <1>1
  <1>5. AllRows \in Seq(Nat)
    BY <1>1, <1>3, <1>4, FlattenPages
  <1> QED BY <1>2, <1>5 DEF RowsFrom, AllRows, PageNumber

-----------------------------------------------------------------------------
(* The two properties follow from the invariant *)

LEMMA RowsFollow ==
    ASSUME IteratorInv
    PROVE  RowsInOrder /\ NoMoreMeansAll
  <1> USE DEF IteratorInv
  <1>1. CASE context = "default"
    <2> DEFINE s == PagesFrom(startedAt)
               k == PageNumber(continuation) - PageNumber(startedAt)
    <2>1. /\ startedAt \in 0..Len(Pages) /\ continuation \in 0..Undefined
          /\ PageNumber(startedAt) <= PageNumber(continuation)
          /\ taken \in Seq(Nat) /\ resources \in Seq(Nat) /\ currentIndex \in Nat
      BY DEF IteratorTypes, NextPageIsFetched
    <2>2. LeftOfPage \in Seq(Nat)
      BY <2>1 DEF LeftOfPage
    <2>3. s \in Seq(Seq(Nat)) /\ Len(s) = Len(Pages) - PageNumber(startedAt) + 1
      BY <2>1, PagesFromAre
    <2>4. k \in 0..Len(s) /\ (continuation = Undefined => k = Len(s))
      BY <2>1, <2>3, PagesFromAre, PagesAre DEF PageNumber
    <2>5. taken \o LeftOfPage = FlatUpTo(s, k)
      BY <1>1 DEF TakenUpToContinuation
    <2>6. RowsFrom(startedAt) = FlattenSeq(s)
      BY DEF RowsFrom, PagesFrom
    <2> HIDE DEF s, k
    <2>7. PICK rest \in Seq(Nat) : FlattenSeq(s) = FlatUpTo(s, k) \o rest
      BY <2>3, <2>4, FlattenGrows
    <2>8. FlattenSeq(s) = taken \o (LeftOfPage \o rest)
      <3> DEFINE left == LeftOfPage
      <3>1. FlatUpTo(s, k) = taken \o left
        BY <2>5
      <3>2. (taken \o left) \o rest = taken \o (left \o rest)
        <4>1. left \in Seq(Nat) /\ taken \in Seq(Nat)
          BY <2>1, <2>2
        <4> HIDE DEF left, IteratorInv
        <4> QED BY <4>1, Associative
      <3> QED BY <2>7, <3>1, <3>2 DEF left
    <2>9. RowsInOrder
      <3> DEFINE t == LeftOfPage \o rest
      <3>1. t \in Seq(Nat)
        BY <2>2
      <3> HIDE DEF t
      <3>2. /\ Len(taken) <= Len(taken \o t)
            /\ SubSeq(taken \o t, 1, Len(taken)) = taken
            /\ SubSeq(taken, 1, Len(taken)) = taken
        BY <2>1, <3>1
      <3>3. RowsFrom(startedAt) = taken \o t
        BY <2>6, <2>8 DEF t
      <3> QED BY <3>2, <3>3 DEF RowsInOrder, IsPrefix
    <2>10. ASSUME ~hasMoreResults PROVE taken = RowsFrom(startedAt)
      <3>1. continuation = Undefined /\ currentIndex >= Len(resources) - 1
        BY <1>1, <2>1, <2>10 DEF hasMoreResults
      <3>2. LeftOfPage = <<>>
        BY <2>1, <3>1 DEF LeftOfPage
      <3>3. FlatUpTo(s, k) = FlattenSeq(s)
        BY <2>3, <2>4, <3>1, FlattenPages
      <3>4. taken \o <<>> = taken
        BY <2>1
      <3> QED BY <2>5, <2>6, <3>2, <3>3, <3>4
    <2> QED BY <2>9, <2>10 DEF NoMoreMeansAll
  <1>2. CASE context = "pipelined"
    <2>1. /\ position \in Nat /\ position <= Len(AllRows)
          /\ taken = SubSeq(AllRows, 1, position)
          /\ state = "ended" => position = Len(AllRows)
          /\ startedAt = 0
      BY <1>2 DEF IteratorTypes, TakenUpToPosition, PipelinedFromTheStart
    <2>2. RowsFrom(startedAt) = AllRows /\ AllRows \in Seq(Nat)
      BY <2>1, AllRowsAre
    <2> HIDE DEF IteratorInv
    <2>3. RowsInOrder
      <3>1. Len(taken) = position
        BY <2>1, <2>2
      <3>2. SubSeq(taken, 1, position) = taken
        BY <2>1, <2>2
      <3> QED BY <2>1, <2>2, <3>1, <3>2 DEF RowsInOrder, IsPrefix
    <2>4. NoMoreMeansAll
      <3>1. ASSUME ~hasMoreResults PROVE state = "ended"
        BY <1>2, <3>1 DEF hasMoreResults
      <3>2. SubSeq(AllRows, 1, Len(AllRows)) = AllRows
        BY <2>2
      <3> QED BY <2>1, <2>2, <3>1, <3>2 DEF NoMoreMeansAll
    <2> QED BY <2>3, <2>4
  <1> QED BY <1>1, <1>2 DEF IteratorTypes

-----------------------------------------------------------------------------
(* Every step keeps the invariant *)

LEMMA ResetKeeps ==
    ASSUME IteratorInv, call = "none", Reset,
           call' \in {"none", "next", "all", "iterate"},
           UNCHANGED <<service, optionsContinuation, inFlight>>
    PROVE  IteratorInv'
  <1> USE DEF IteratorInv, Reset, service, inFlight
  <1>0. /\ fetching' = None /\ LeftOfPage' = <<>>
        /\ None \notin 1..Len(Pages) /\ Len(Pages) \in Nat \ {0}
    BY PagesAre DEF NextPageIsFetched, LeftOfPage, None
  <1>1. IteratorTypes'
    BY <1>0 DEF IteratorTypes, None, Undefined
  <1>2. NextPageIsFetched'
    <2>1. /\ startedAt' \in 0..Len(Pages) /\ continuation' = startedAt'
          /\ currentPartitionIndex' = 0 /\ nextFetchFunction' = None
      BY DEF IteratorTypes
    <2>2. PageNumber(startedAt)' = PageNumber(continuation)'
      BY <2>1 DEF PageNumber
    <2>3. PageNumber(startedAt)' \in Int
      BY <2>1 DEF PageNumber
    <2> QED BY <1>0, <2>1, <2>2, <2>3 DEF NextPageIsFetched, Undefined
  <1>3. TakenUpToContinuation'
    <2>1. startedAt' \in 0..Len(Pages) /\ continuation' = startedAt'
      BY DEF IteratorTypes
    <2>2. /\ context' = "default" /\ position' = 0
          /\ taken' = <<>> /\ <<>> \o <<>> = <<>>
      OBVIOUS
    <2>3. FlatUpTo(PagesFrom(startedAt'), PageNumber(startedAt') - PageNumber(startedAt'))
              = <<>>
      BY <2>1, NoPageYet
    <2> QED BY <1>0, <2>1, <2>2, <2>3 DEF TakenUpToContinuation, PageNumber, PagesFrom
  <1>4. PipelinedFromTheStart'
    BY DEF PipelinedFromTheStart
  <1>5. TakenUpToPosition'
    BY DEF TakenUpToPosition
  <1> QED BY <1>1, <1>2, <1>3, <1>4, <1>5

LEMMA IteratorStarts == Init => IteratorInv
  <1> SUFFICES ASSUME Init PROVE IteratorInv
    OBVIOUS
  <1> USE DEF Init
  <1>0. Len(Pages) \in Nat \ {0} /\ userContinuation \in 0..Len(Pages) /\ LeftOfPage = <<>>
    BY PagesAre DEF LeftOfPage
  <1>1. IteratorTypes
    BY <1>0 DEF IteratorTypes, None, Undefined
  <1>2. NextPageIsFetched
    <2>1. PageNumber(startedAt) = PageNumber(continuation) /\ PageNumber(startedAt) \in Int
      BY <1>0 DEF PageNumber
    <2> QED BY <1>0, <2>1 DEF NextPageIsFetched, Undefined
  <1>3. TakenUpToContinuation
    <2>1. startedAt \in 0..Len(Pages) /\ continuation = startedAt /\ <<>> \o <<>> = <<>>
      BY <1>0
    <2>2. FlatUpTo(PagesFrom(startedAt), PageNumber(startedAt) - PageNumber(startedAt))
              = <<>>
      BY <2>1, NoPageYet
    <2> QED BY <1>0, <2>1, <2>2 DEF TakenUpToContinuation
  <1>4. PipelinedFromTheStart
    BY DEF PipelinedFromTheStart
  <1>5. TakenUpToPosition
    BY DEF TakenUpToPosition
  <1> QED BY <1>1, <1>2, <1>3, <1>4, <1>5 DEF IteratorInv

\* A step after which the context, what it gave and where it is are as before.
LEMMA NothingGiven ==
    ASSUME IteratorInv, UNCHANGED <<service, context, position, startedAt, taken>>,
           continuation' = continuation,
           currentPartitionIndex' = currentPartitionIndex, resources' = resources,
           LeftOfPage' = LeftOfPage,
           optionsContinuation' = optionsContinuation \/ optionsContinuation' = continuation,
           optionsContinuation' # Undefined,
           original' = original \/ original' = optionsContinuation
    PROVE  TakenUpToContinuation' /\ PipelinedFromTheStart'
  <1> USE DEF IteratorInv, service
  <1>1. TakenUpToContinuation'
    BY DEF TakenUpToContinuation, PageNumber, PagesFrom
  <1>2. PipelinedFromTheStart'
    BY DEF PipelinedFromTheStart
  <1> QED BY <1>1, <1>2

LEMMA FetchPageKeeps == IteratorInv /\ FetchPage => IteratorInv'
  <1> SUFFICES ASSUME IteratorInv, FetchPage PROVE IteratorInv'
    OBVIOUS
  <1> USE DEF IteratorInv, FetchPage, Fetch, service
  <1>0. /\ Len(Pages) \in Nat \ {0} /\ Undefined = Len(Pages) + 1
        /\ continuation \in 0..Len(Pages) /\ PageNumber(continuation) \in 1..Len(Pages)
    BY PagesAre DEF IteratorTypes, NextPageIsFetched, PageNumber
  <1>1. fetching' = PageNumber(continuation) /\ nextFetchFunction' = None
    BY DEF NextPageIsFetched
  <1>2. LeftOfPage' = LeftOfPage /\ LeftOfPage = <<>>
    <2>1. resources \in Seq(Nat) /\ currentIndex \in Nat
      BY DEF IteratorTypes
    <2> QED BY <2>1 DEF LeftOfPage
  <1>3. IteratorTypes'
    BY <1>0, <1>1 DEF IteratorTypes
  <1>4. NextPageIsFetched'
    BY <1>1, <1>2 DEF NextPageIsFetched, PageNumber
  <1>5. TakenUpToContinuation' /\ PipelinedFromTheStart'
    <2>1. optionsContinuation' # Undefined
      BY <1>0
    <2> HIDE DEF IteratorInv
    <2> QED BY <1>2, <2>1, NothingGiven
  <1>6. TakenUpToPosition'
    BY DEF TakenUpToPosition
  <1> QED BY <1>3, <1>4, <1>5, <1>6

LEMMA NextItemKeeps == IteratorInv /\ NextItem => IteratorInv'
  <1> SUFFICES ASSUME IteratorInv, NextItem PROVE IteratorInv'
    OBVIOUS
  <1> USE DEF IteratorInv, NextItem, service, inFlight
  <1>0. resources \in Seq(Nat) /\ currentIndex \in Nat /\ taken \in Seq(Nat)
    BY DEF IteratorTypes
  <1>1. IteratorTypes'
    BY <1>0 DEF IteratorTypes
  <1>2. NextPageIsFetched'
    BY DEF NextPageIsFetched, PageNumber
  <1>3. taken' \o LeftOfPage' = taken \o LeftOfPage
    <2> DEFINE row == resources[currentIndex + 2]
    <2>1. row \in Nat
      BY <1>0
    <2>2. LeftOfPage = <<row>> \o LeftOfPage'
      BY <1>0 DEF LeftOfPage
    <2>3. LeftOfPage' \in Seq(Nat)
      BY <1>0 DEF LeftOfPage
    <2>4. taken' = taken \o <<row>>
      BY <1>0, <2>1
    <2> HIDE DEF row, NextItem, IteratorInv
    <2>5. <<row>> \in Seq(Nat)
      BY <2>1
    <2> DEFINE left == LeftOfPage'
    <2> HIDE DEF left
    <2>6. left \in Seq(Nat)
      BY <2>3 DEF left
    <2>7. (taken \o <<row>>) \o left = taken \o (<<row>> \o left)
      BY <1>0, <2>5, <2>6, Associative
    <2> QED BY <2>2, <2>4, <2>7 DEF left
  <1>4. TakenUpToContinuation'
    BY <1>3 DEF TakenUpToContinuation, PageNumber, PagesFrom
  <1>5. PipelinedFromTheStart'
    BY <1>0 DEF PipelinedFromTheStart
  <1>6. TakenUpToPosition'
    BY DEF TakenUpToPosition
  <1> QED BY <1>1, <1>2, <1>4, <1>5, <1>6

LEMMA PageKeeps == IteratorInv /\ Page => IteratorInv'
  <1> SUFFICES ASSUME IteratorInv, Page PROVE IteratorInv'
    OBVIOUS
  <1> USE DEF Page, PageArrives, ContinuationOf, service
  <1> DEFINE page == Pages[fetching]
  <1>0. /\ Len(Pages) \in Nat \ {0} /\ Undefined = Len(Pages) + 1
        /\ fetching \in 1..Len(Pages) /\ page \in Seq(Nat)
        /\ \A p \in 1..Len(Pages) : p # None
    BY PagesAre, PagesAssumption DEF None
  <1>1. /\ IteratorTypes /\ NextPageIsFetched /\ TakenUpToContinuation
        /\ PipelinedFromTheStart /\ TakenUpToPosition
    BY DEF IteratorInv
  <1>2. /\ fetching = PageNumber(continuation) /\ LeftOfPage = <<>> /\ call # "none"
        /\ startedAt \in 0..Len(Pages) /\ PageNumber(startedAt) <= fetching
        /\ taken \in Seq(Nat) /\ crossPartition = FALSE
    BY <1>0, <1>1 DEF IteratorTypes, NextPageIsFetched
  <1>3. /\ continuation' = fetching + 1 /\ PageNumber(continuation') = fetching + 1
        /\ fetching' = None /\ currentIndex' = 0
        /\ nextFetchFunction' \in {None} \cup 1..Len(Pages)
        /\ nextFetchFunction' # None => nextFetchFunction' = fetching + 1
    BY <1>0 DEF PageNumber, PageAhead
  <1>4. taken' \in Seq(Nat) /\ resources' \in Seq(Nat) /\ taken' \o LeftOfPage' = taken \o page
    <2>1. CASE call = "all"
      <3>1. call' = "all" /\ resources' = page
        BY <2>1
      <3>2. LeftOfPage' = SubSeq(page, 2, Len(page))
        BY <1>3, <3>1 DEF LeftOfPage
      <3>3. CASE page = <<>>
        <4>1. taken' = taken
          BY <2>1, <3>3
        <4>2. LeftOfPage' = <<>>
          BY <3>2, <3>3
        <4> QED BY <1>0, <1>2, <3>1, <3>3, <4>1, <4>2
      <3>4. CASE page # <<>>
        <4>1. /\ Head(page) \in Nat /\ SubSeq(page, 2, Len(page)) \in Seq(Nat)
              /\ page = <<Head(page)>> \o SubSeq(page, 2, Len(page))
          <5> HIDE DEF page
          <5> QED BY <1>0, <3>4
        <4>2. taken' = taken \o <<Head(page)>>
          <5>1. taken' = Append(taken, Head(page))
            BY <2>1, <3>4
          <5> HIDE DEF page
          <5> QED BY <1>2, <4>1, <5>1
        <4> DEFINE a == <<Head(page)>>
                   b == SubSeq(page, 2, Len(page))
        <4>3. a \in Seq(Nat) /\ b \in Seq(Nat) /\ page = a \o b
          BY <4>1
        <4>4. taken' = taken \o a /\ LeftOfPage' = b
          BY <3>2, <4>2
        <4> HIDE DEF a, b, page
        <4>5. (taken \o a) \o b = taken \o (a \o b)
          BY <1>2, <4>3, Associative
        <4>6. taken' \in Seq(Nat)
          BY <1>2, <4>3, <4>4
        <4> QED BY <1>0, <3>1, <4>3, <4>4, <4>5, <4>6
      <3> QED BY <3>3, <3>4
    <2>2. CASE call # "all"
      <3>1. taken' = taken \o page /\ resources' = resources /\ call' # "all"
        BY <1>1, <2>2 DEF IteratorTypes
      <3>2. LeftOfPage' = <<>>
        BY <3>1 DEF LeftOfPage
      <3>3. taken \o page \in Seq(Nat) /\ (taken \o page) \o <<>> = taken \o page
        <4> HIDE DEF page
        <4> QED BY <1>0, <1>2
      <3>4. resources \in Seq(Nat)
        BY <1>1 DEF IteratorTypes
      <3> QED BY <3>1, <3>2, <3>3, <3>4
    <2> QED BY <2>1, <2>2
  <1>5. IteratorTypes'
    <2>1. call' \in {"none", "next", "all", "iterate"}
      BY <1>1 DEF IteratorTypes
    <2>2. currentPartitionIndex' \in {0, 1} /\ currentIndex' \in Nat
      BY <1>3
    <2>3. continuation' \in 0..Undefined
      BY <1>0, <1>3
    <2> QED BY <1>1, <1>3, <1>4, <2>1, <2>2, <2>3 DEF IteratorTypes
  <1>6. NextPageIsFetched'
    <2>1. (PageNumber(startedAt))' = PageNumber(startedAt) /\ PageNumber(startedAt) \in Int
      BY <1>2 DEF PageNumber
    <2>2. (PageNumber(continuation))' = fetching + 1
      BY <1>3 DEF PageNumber
    <2>3. currentPartitionIndex' = 1 <=> continuation' = Undefined'
      BY DEF Undefined
    <2> QED BY <1>0, <1>2, <1>3, <2>1, <2>2, <2>3 DEF NextPageIsFetched
  <1>7. TakenUpToContinuation'
    <2>1. context = "default"
      BY <1>1, <1>2 DEF PipelinedFromTheStart, IteratorTypes
    <2>2. position = 0 /\ taken =
              FlatUpTo(PagesFrom(startedAt), fetching - PageNumber(startedAt))
      <3>1. taken \o <<>> = taken
        BY <1>2
      <3> QED BY <1>1, <1>2, <2>1, <3>1 DEF TakenUpToContinuation
    <2>3. fetching \in PageNumber(startedAt)..Len(Pages)
      <3>1. PageNumber(startedAt) \in 1..Len(Pages)
        BY <1>2, PagesFromAre
      <3> QED BY <1>0, <1>2, <3>1
    <2>4. FlatUpTo(PagesFrom(startedAt), (fetching + 1) - PageNumber(startedAt))
              = taken \o page
      BY <1>2, <2>2, <2>3, OnePageMore
    <2>5. (PageNumber(continuation))' = fetching + 1
          /\ (PageNumber(startedAt))' = PageNumber(startedAt)
          /\ (PagesFrom(startedAt))' = PagesFrom(startedAt)
      BY <1>3 DEF PageNumber, PagesFrom
    <2>6. position' = 0
      BY <2>2
    <2> QED BY <1>4, <2>4, <2>5, <2>6 DEF TakenUpToContinuation
  <1>8. PipelinedFromTheStart' /\ TakenUpToPosition'
    BY <1>1, <1>2, <1>3 DEF PipelinedFromTheStart, TakenUpToPosition
  <1> QED BY <1>5, <1>6, <1>7, <1>8 DEF IteratorInv

\* A fetch that fails changes neither what was given nor the page to ask for.
LEMMA ThrowKeeps ==
    ASSUME IteratorInv, fetching # None, FetchThrows, call' = "none",
           UNCHANGED <<service, context, position, startedAt, taken>>
    PROVE  IteratorInv'
  <1> USE DEF FetchThrows, service
  <1>1. /\ IteratorTypes /\ NextPageIsFetched /\ TakenUpToContinuation
        /\ PipelinedFromTheStart /\ TakenUpToPosition
    BY DEF IteratorInv
  <1>2. LeftOfPage = <<>> /\ LeftOfPage' = <<>> /\ context = "default"
    BY <1>1 DEF NextPageIsFetched, LeftOfPage, TakenUpToPosition, IteratorTypes
  <1>3. IteratorTypes'
    BY <1>1 DEF IteratorTypes
  <1>4. NextPageIsFetched'
    BY <1>1 DEF NextPageIsFetched, PageNumber
  <1>5. TakenUpToContinuation' /\ PipelinedFromTheStart'
    <2>1. optionsContinuation' # Undefined
      BY <1>1, PagesAre DEF IteratorTypes
    <2> QED BY <1>2, <2>1, NothingGiven
  <1>6. TakenUpToPosition'
    BY <1>2 DEF TakenUpToPosition
  <1> QED BY <1>3, <1>4, <1>5, <1>6 DEF IteratorInv

LEMMA CreatePipelinedKeeps ==
    IteratorInv /\ CreatePipelinedExecutionContext => IteratorInv'
  <1> SUFFICES ASSUME IteratorInv, CreatePipelinedExecutionContext PROVE IteratorInv'
    OBVIOUS
  <1> USE DEF CreatePipelinedExecutionContext, service
  <1>1. /\ IteratorTypes /\ NextPageIsFetched /\ TakenUpToContinuation
        /\ PipelinedFromTheStart /\ TakenUpToPosition
    BY DEF IteratorInv
  <1>2. context = "default" /\ position = 0 /\ taken = <<>>
    BY <1>1 DEF IteratorTypes, TakenUpToContinuation, PipelinedFromTheStart,
                TakenUpToPosition
  <1>3. IteratorTypes'
    BY <1>1 DEF IteratorTypes
  <1>4. NextPageIsFetched'
    BY <1>1 DEF NextPageIsFetched, PageNumber
  <1>5. TakenUpToContinuation' /\ PipelinedFromTheStart'
    BY <1>1 DEF TakenUpToContinuation, PipelinedFromTheStart
  <1>6. TakenUpToPosition'
    <2>1. AllRows \in Seq(Nat) /\ SubSeq(AllRows, 1, 0) = <<>> /\ 0 <= Len(AllRows)
      BY AllRowsAre
    <2> QED BY <1>2, <2>1 DEF TakenUpToPosition, AllRows
  <1> QED BY <1>3, <1>4, <1>5, <1>6 DEF IteratorInv

LEMMA PipelinedPageKeeps == IteratorInv /\ PipelinedPage => IteratorInv'
  <1> SUFFICES ASSUME IteratorInv, PipelinedPage PROVE IteratorInv'
    OBVIOUS
  <1> USE DEF PipelinedPage, service, inFlight
  <1> DEFINE size == IF call = "all" THEN 1 ELSE PageSize
             n == Len(AllRows)
             upTo == IF position + size < n THEN position + size ELSE n
             more == SubSeq(AllRows, position + 1, upTo)
  <1>1. /\ IteratorTypes /\ NextPageIsFetched /\ TakenUpToContinuation
        /\ PipelinedFromTheStart /\ TakenUpToPosition
    BY DEF IteratorInv
  <1>2. /\ AllRows \in Seq(Nat) /\ n \in Nat /\ size \in Nat \ {0}
        /\ position \in Nat /\ position <= n /\ taken = SubSeq(AllRows, 1, position)
        /\ fetching = None /\ AllRows' = AllRows
    <2>1. AllRows \in Seq(Nat)
      BY AllRowsAre
    <2>2. n \in Nat
      BY <2>1
    <2>3. size \in Nat \ {0}
      BY BoundAssumption
    <2>4. AllRows' = AllRows
      BY DEF AllRows
    <2> QED BY <1>1, <2>1, <2>2, <2>3, <2>4 DEF IteratorTypes, TakenUpToPosition
  <1>3. /\ position' = upTo /\ taken' = taken \o more
        /\ state' = IF upTo < position + size THEN "ended" ELSE "inProgress"
    OBVIOUS
  <1>4. /\ position <= upTo /\ upTo <= n /\ upTo \in Nat
        /\ upTo < position + size => upTo = n
    BY <1>2
  <1>5. taken' = SubSeq(AllRows, 1, upTo) /\ taken' \in Seq(Nat)
    <2> DEFINE all == AllRows
    <2>1. all \in Seq(Nat) /\ n = Len(all)
      BY <1>2
    <2> HIDE DEF upTo, all, n
    <2>2. SubSeq(all, 1, position) \o SubSeq(all, position + 1, upTo)
              = SubSeq(all, 1, upTo) /\ SubSeq(all, 1, upTo) \in Seq(Nat)
      <3>1. position \in 0..Len(all) /\ upTo \in position..Len(all)
        BY <1>2, <1>4, <2>1
      <3> QED BY <2>1, <3>1, Consecutive
    <2> QED BY <1>2, <1>3, <2>2 DEF all
  <1>6. call \in {"next", "all", "iterate"} /\ call' \in {"none", "all", "iterate"}
        /\ context' = context /\ context = "pipelined" /\ fetching' = None
    <2>1. call \in {"next", "all", "iterate"}
      BY <1>1 DEF IteratorTypes
    <2> QED BY <1>2, <2>1
  <1>7. /\ optionsContinuation' = optionsContinuation /\ original' = original
        /\ startedAt' = startedAt /\ continuation' = continuation
        /\ currentPartitionIndex' = currentPartitionIndex
        /\ nextFetchFunction' = nextFetchFunction /\ resources' = resources
        /\ currentIndex' = currentIndex /\ crossPartition' = crossPartition
        /\ bufferItems' = bufferItems
    OBVIOUS
  <1> HIDE DEF upTo, more, size, n, PipelinedPage
  <1>8. IteratorTypes'
    <2>1. state' \in {"inProgress", "ended"}
      BY <1>3
    <2> QED BY <1>1, <1>2, <1>3, <1>4, <1>5, <1>6, <1>7, <2>1 DEF IteratorTypes
  <1>9. NextPageIsFetched' /\ TakenUpToContinuation' /\ PipelinedFromTheStart'
    BY <1>1, <1>6, <1>7 DEF NextPageIsFetched, PageNumber, TakenUpToContinuation,
                            PipelinedFromTheStart
  <1>10. TakenUpToPosition'
    <2>1. state' = "ended" => upTo = n
      BY <1>3, <1>4
    <2> QED BY <1>2, <1>3, <1>4, <1>5, <1>6, <2>1 DEF TakenUpToPosition, n
  <1> QED BY <1>8, <1>9, <1>10 DEF IteratorInv

\* A call begins, or ends when nothing is left to take.
LEMMA CallKeeps ==
    ASSUME IteratorInv, fetching = None, LeftOfPage = <<>> \/ context = "pipelined",
           call' \in {"none", "next"},
           UNCHANGED <<service, optionsContinuation, context, default, inFlight,
                       position, startedAt, taken>>
    PROVE  IteratorInv'
  <1> USE DEF service, default, inFlight
  <1>1. /\ IteratorTypes /\ NextPageIsFetched /\ TakenUpToContinuation
        /\ PipelinedFromTheStart /\ TakenUpToPosition
    BY DEF IteratorInv
  <1>2. LeftOfPage' = <<>>
    BY DEF LeftOfPage
  <1>3. IteratorTypes'
    BY <1>1 DEF IteratorTypes
  <1>4. NextPageIsFetched'
    BY <1>1 DEF NextPageIsFetched, PageNumber
  <1>5. TakenUpToContinuation'
    BY <1>1, <1>2 DEF TakenUpToContinuation, PageNumber, PagesFrom
  <1>6. PipelinedFromTheStart' /\ TakenUpToPosition'
    BY <1>1 DEF PipelinedFromTheStart, TakenUpToPosition, AllRows
  <1> QED BY <1>3, <1>4, <1>5, <1>6 DEF IteratorInv

LEMMA IteratorSteps == IteratorInv /\ [Next]_vars => IteratorInv'
  <1> SUFFICES ASSUME IteratorInv, [Next]_vars PROVE IteratorInv'
    OBVIOUS
  <1>0. /\ call \in {"none", "next", "all", "iterate"}
        /\ fetching # None => call # "none"
        /\ resources \in Seq(Nat) /\ currentIndex \in Nat
    BY DEF IteratorInv, IteratorTypes, NextPageIsFetched
  <1>1. CASE reset
    BY <1>1, ResetKeeps DEF reset
  <1>2. CASE \E kind \in {"all", "iterate"} : StartOver(kind)
    BY <1>2, ResetKeeps DEF StartOver
  <1>3. CASE fetchNext
    <2>1. fetching = None /\ LeftOfPage = <<>>
      BY <1>0, <1>3 DEF fetchNext, LeftOfPage
    <2> QED BY <1>3, <2>1, CallKeeps DEF fetchNext
  <1>4. CASE FetchPage
    BY <1>4, FetchPageKeeps
  <1>5. CASE NextItem
    BY <1>5, NextItemKeeps
  <1>6. CASE Page
    BY <1>6, PageKeeps
  <1>7. CASE FetchFails
    BY <1>7, ThrowKeeps DEF FetchFails
  <1>8. CASE CreatePipelinedExecutionContext
    BY <1>8, CreatePipelinedKeeps
  <1>9. CASE QueryPlanFails
    BY <1>9, ThrowKeeps DEF QueryPlanFails
  <1>10. CASE PipelinedPage
    BY <1>10, PipelinedPageKeeps
  <1>11. CASE NothingLeft
    <2>1. LeftOfPage = <<>>
      BY <1>11 DEF NothingLeft, LeftOfPage
    <2> QED BY <1>11, <2>1, CallKeeps DEF NothingLeft
  <1>12. CASE Finish
    <2>1. LeftOfPage = <<>> \/ context = "pipelined"
      <3>1. CASE context # "pipelined"
        <4>1. currentIndex >= Len(resources) - 1
          BY <1>0, <1>12, <3>1 DEF Finish, hasMoreResults
        <4> QED BY <1>0, <4>1 DEF LeftOfPage
      <3> QED BY <3>1
    <2> QED BY <1>12, <2>1, CallKeeps DEF Finish
  <1>13. CASE UNCHANGED vars
    BY <1>13 DEF vars, service, default, inFlight, IteratorInv, IteratorTypes,
                 NextPageIsFetched, TakenUpToContinuation, PipelinedFromTheStart,
                 TakenUpToPosition, LeftOfPage, PageNumber, PagesFrom, AllRows
  <1> QED BY <1>1, <1>2, <1>3, <1>4, <1>5, <1>6, <1>7, <1>8, <1>9, <1>10, <1>11,
             <1>12, <1>13 DEF Next, Progress

-----------------------------------------------------------------------------

\* Where an iterator is, its continuation, the page at hand, what is fetched, says
\* what was taken from it.
THEOREM IteratorInvariant == Spec => []IteratorInv
  BY IteratorStarts, IteratorSteps, PTL DEF Spec

\* Whatever mix of fetchNext, fetchAll and iteration takes them, pages fetched ahead
\* and calls repeated after a failure included, the rows come in order, each once.
THEOREM RowsStayInOrder == Spec => []RowsInOrder
  <1>1. IteratorInv => RowsInOrder
    BY RowsFollow
  <1> QED BY <1>1, IteratorInvariant, PTL

\* hasMoreResults is false only after the last row: what fetchAll returns is all.
THEOREM EndMeansAll == Spec => []NoMoreMeansAll
  <1>1. IteratorInv => NoMoreMeansAll
    BY RowsFollow
  <1> QED BY <1>1, IteratorInvariant, PTL
=============================================================================

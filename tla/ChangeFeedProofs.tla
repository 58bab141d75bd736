--------------------------- MODULE ChangeFeedProofs ---------------------------
(***************************************************************************)
(* For any items, any log of changes, any size of pages, any number of     *)
(* overlapping calls and of failures: a change feed misses no change, and  *)
(* calls that do not overlap hand the changes over in order.               *)
(***************************************************************************)
EXTENDS ChangeFeed, WellFoundedInduction, TLAPS

-----------------------------------------------------------------------------
(* Induction, for a set in place of a predicate *)

LEMMA LeastNumber ==
    ASSUME NEW T \in SUBSET Nat, T # {}
    PROVE  \E n \in T : \A m \in T : n <= m
  <1>1. PICK n \in T : \A m \in T : ~(<<m, n>> \in OpToRel(<, Nat))
    BY NatLessThanWellFounded, WFMin
  <1>2. \A m \in T : ~(m < n)
    BY <1>1 DEF OpToRel
  <1> QED BY <1>2

LEMMA Induction ==
    ASSUME NEW n \in Nat, NEW Good,
           0 \in Good, \A i \in 0..(n - 1) : i \in Good => i + 1 \in Good
    PROVE  \A i \in 0..n : i \in Good
  <1> DEFINE Bad == (0..n) \ Good
  <1>1. Bad \in SUBSET Nat
    OBVIOUS
  <1>2. ASSUME Bad # {} PROVE FALSE
    <2>1. PICK k \in Bad : \A m \in Bad : k <= m
      <3> HIDE DEF Bad
      <3> QED BY <1>1, <1>2, LeastNumber
    <2>2. k \in 1..n /\ k - 1 \in 0..(n - 1)
      OBVIOUS
    <2>3. k - 1 \notin Bad
      <3> HIDE DEF Bad
      <3> QED BY <2>1, <2>2
    <2>4. k - 1 \in Good
      BY <2>2, <2>3
    <2>5. (k - 1) + 1 \in Good
      BY <2>2, <2>4
    <2> QED BY <2>2, <2>5
  <1> QED BY <1>2

-----------------------------------------------------------------------------
(* The changes the service lists *)

\* s lists the members of wanted among 1..n, in order, each once.
Lists(s, wanted, n) ==
    /\ s \in Seq(Nat)
    /\ \A a \in 1..Len(s) : s[a] \in 1..n /\ s[a] \in wanted
    /\ \A a, b \in 1..Len(s) : a < b => s[a] < s[b]
    /\ \A i \in 1..n : i \in wanted => \E a \in 1..Len(s) : s[a] = i

LEMMA ListsMore ==
    ASSUME NEW n \in Nat, NEW wanted, NEW s, Lists(s, wanted, n)
    PROVE  /\ n + 1 \in wanted => Lists(Append(s, n + 1), wanted, n + 1)
           /\ n + 1 \notin wanted => Lists(s, wanted, n + 1)
  <1>1. /\ s \in Seq(Nat) /\ Len(s) \in Nat
        /\ \A a \in 1..Len(s) : s[a] \in 1..n /\ s[a] \in wanted
        /\ \A a, b \in 1..Len(s) : a < b => s[a] < s[b]
        /\ \A i \in 1..n : i \in wanted => \E a \in 1..Len(s) : s[a] = i
    BY DEF Lists
  <1>2. ASSUME n + 1 \notin wanted PROVE Lists(s, wanted, n + 1)
    <2>1. \A a \in 1..Len(s) : s[a] \in 1..(n + 1)
      BY <1>1
    <2>2. ASSUME NEW i \in 1..(n + 1), i \in wanted PROVE \E a \in 1..Len(s) : s[a] = i
      <3>1. i # n + 1
        BY <1>2, <2>2
      <3>2. i \in 1..n
        BY <3>1
      <3> QED BY <1>1, <2>2, <3>2
    <2> QED BY <1>1, <2>1, <2>2 DEF Lists
  <1>3. ASSUME n + 1 \in wanted PROVE Lists(Append(s, n + 1), wanted, n + 1)
    <2> DEFINE t == Append(s, n + 1)
    <2>1. /\ t \in Seq(Nat) /\ Len(t) = Len(s) + 1 /\ t[Len(s) + 1] = n + 1
          /\ \A a \in 1..Len(s) : t[a] = s[a]
      BY <1>1
    <2> HIDE DEF t
    <2>2. ASSUME NEW a \in 1..Len(t) PROVE t[a] \in 1..(n + 1) /\ t[a] \in wanted
      <3>1. CASE a = Len(s) + 1
        BY <1>3, <2>1, <3>1
      <3>2. CASE a \in 1..Len(s)
        <4>1. t[a] = s[a] /\ s[a] \in 1..n /\ s[a] \in wanted
          BY <1>1, <2>1, <3>2
        <4> QED BY <4>1
      <3> QED BY <1>1, <2>1, <3>1, <3>2
    <2>3. ASSUME NEW a \in 1..Len(t), NEW b \in 1..Len(t), a < b PROVE t[a] < t[b]
      <3>1. a \in 1..Len(s) /\ t[a] = s[a]
        BY <1>1, <2>1, <2>3
      <3>2. CASE b = Len(s) + 1
        BY <1>1, <2>1, <3>1, <3>2
      <3>3. CASE b \in 1..Len(s)
        BY <1>1, <2>1, <2>3, <3>1, <3>3
      <3> QED BY <1>1, <2>1, <3>2, <3>3
    <2>4. ASSUME NEW i \in 1..(n + 1), i \in wanted PROVE \E a \in 1..Len(t) : t[a] = i
      <3>1. CASE i = n + 1
        BY <1>1, <2>1, <3>1
      <3>2. CASE i \in 1..n
        <4>1. PICK a \in 1..Len(s) : s[a] = i
          BY <1>1, <2>4, <3>2
        <4> QED BY <1>1, <2>1, <4>1
      <3> QED BY <3>1, <3>2
    <2>5. Lists(t, wanted, n + 1)
      BY <2>1, <2>2, <2>3, <2>4 DEF Lists
    <2> QED BY <2>5 DEF t
  <1> QED BY <1>2, <1>3

\* f[i] lists what is wanted of the first i changes.
Gathers(f, wanted, n) ==
    f = [i \in 0..n |-> IF i = 0 THEN <<>>
                        ELSE IF i \in wanted THEN Append(f[i - 1], i) ELSE f[i - 1]]

LEMMA GathersExists ==
    ASSUME NEW wanted, NEW n \in Nat
    PROVE  \E f : Gathers(f, wanted, n)
  <1> DEFINE Good == {k \in 0..n : \E f : Gathers(f, wanted, k)}
  <1>1. \E f : Gathers(f, wanted, 0)
    <2> DEFINE f == [i \in 0..0 |-> <<>>]
    <2>1. Gathers(f, wanted, 0)
      BY DEF Gathers
    <2> HIDE DEF f
    <2> QED BY <2>1
  <1>2. ASSUME NEW j \in 0..(n - 1), NEW f, Gathers(f, wanted, j)
        PROVE  \E g : Gathers(g, wanted, j + 1)
    <2> DEFINE k == j + 1
               last == IF k \in wanted THEN Append(f[j], k) ELSE f[j]
               g == [i \in 0..k |-> IF i < k THEN f[i] ELSE last]
    <2>0. j \in Nat /\ k \in Nat /\ k > 0 /\ k - 1 = j
      OBVIOUS
    <2>1. \A i \in 0..j : f[i] =
              IF i = 0 THEN <<>>
              ELSE IF i \in wanted THEN Append(f[i - 1], i) ELSE f[i - 1]
      BY <1>2 DEF Gathers
    <2>2. \A i \in 0..k : g[i] =
              IF i = 0 THEN <<>>
              ELSE IF i \in wanted THEN Append(g[i - 1], i) ELSE g[i - 1]
      <3> SUFFICES ASSUME NEW i \in 0..k
                   PROVE  g[i] =
                       IF i = 0 THEN <<>>
                       ELSE IF i \in wanted THEN Append(g[i - 1], i) ELSE g[i - 1]
        OBVIOUS
      <3>1. CASE i < k
        <4>1. i \in 0..j /\ g[i] = f[i] /\ (i > 0 => g[i - 1] = f[i - 1])
          BY <2>0, <3>1
        <4> QED BY <2>1, <4>1
      <3>2. CASE i = k
        <4>1. g[k] = last /\ g[k - 1] = f[j]
          BY <2>0
        <4> QED BY <2>0, <3>2, <4>1
      <3> QED BY <2>0, <3>1, <3>2
    <2>3. Gathers(g, wanted, k)
      BY <2>2 DEF Gathers
    <2> HIDE DEF g
    <2> QED BY <2>3
  <1>3. 0 \in Good
    BY <1>1
  <1>4. \A j \in 0..(n - 1) : j \in Good => j + 1 \in Good
    BY <1>2
  <1> HIDE DEF Good
  <1>5. \A i \in 0..n : i \in Good
    BY <1>3, <1>4, Induction
  <1> QED BY <1>5 DEF Good

LEMMA GathersLists ==
    ASSUME NEW wanted, NEW n \in Nat, NEW f, Gathers(f, wanted, n)
    PROVE  Lists(f[n], wanted, n)
  <1> DEFINE Good == {i \in 0..n : Lists(f[i], wanted, i)}
  <1>1. \A i \in 0..n : f[i] =
            IF i = 0 THEN <<>>
            ELSE IF i \in wanted THEN Append(f[i - 1], i) ELSE f[i - 1]
    BY DEF Gathers
  <1>2. 0 \in Good
    <2>1. f[0] = <<>>
      BY <1>1
    <2>2. Lists(<<>>, wanted, 0)
      BY DEF Lists
    <2> QED BY <2>1, <2>2
  <1>3. ASSUME NEW i \in 0..(n - 1), i \in Good PROVE i + 1 \in Good
    <2>1. i + 1 \in 0..n /\ i + 1 # 0 /\ (i + 1) - 1 = i /\ i \in Nat
      OBVIOUS
    <2>2. Lists(f[i], wanted, i)
      BY <1>3
    <2>3. f[i + 1] = IF i + 1 \in wanted THEN Append(f[i], i + 1) ELSE f[i]
      BY <1>1, <2>1
    <2>4. Lists(f[i + 1], wanted, i + 1)
      BY <2>1, <2>2, <2>3, ListsMore
    <2> QED BY <2>1, <2>4
  <1> HIDE DEF Good
  <1>4. \A i \in 0..n : i \in Good
    BY <1>2, <1>3, Induction
  <1> QED BY <1>4 DEF Good

LEMMA ChangesAfterLists ==
    ASSUME log \in Seq(Items), NEW place
    PROVE  Lists(ChangesAfter(place), {i \in DOMAIN log : i > place /\ Latest(i)}, Len(log))
  <1> DEFINE n == Len(log)
             wanted == {i \in DOMAIN log : i > place /\ Latest(i)}
             f == CHOOSE g : Gathers(g, wanted, n)
             h == CHOOSE g : g = [i \in 0..n |->
                                     IF i = 0 THEN <<>>
                                     ELSE IF i > place /\ Latest(i)
                                          THEN Append(g[i - 1], i) ELSE g[i - 1]]
  <1>1. n \in Nat /\ DOMAIN log = 1..n
    OBVIOUS
  <1>2. Gathers(f, wanted, n)
    <2> HIDE DEF wanted, n
    <2> QED BY <1>1, GathersExists
  <1>3. ChangesAfter(place) = h[n]
    BY Zenon DEF ChangesAfter
  <1>4. \A g : Gathers(g, wanted, n) <=>
            g = [i \in 0..n |->
                    IF i = 0 THEN <<>>
                    ELSE IF i > place /\ Latest(i) THEN Append(g[i - 1], i) ELSE g[i - 1]]
    <2> SUFFICES ASSUME NEW g
                 PROVE  [i \in 0..n |-> IF i = 0 THEN <<>>
                                        ELSE IF i \in wanted
                                             THEN Append(g[i - 1], i) ELSE g[i - 1]]
                        = [i \in 0..n |-> IF i = 0 THEN <<>>
                                          ELSE IF i > place /\ Latest(i)
                                               THEN Append(g[i - 1], i) ELSE g[i - 1]]
      BY Zenon DEF Gathers
    <2>1. ASSUME NEW i \in 0..n, i # 0 PROVE i \in wanted <=> (i > place /\ Latest(i))
      BY <1>1, <2>1
    <2> HIDE DEF wanted, n
    <2> QED BY <2>1
  <1>5. Gathers(h, wanted, n)
    <2> HIDE DEF wanted, n
    <2>1. \E g : g = [i \in 0..n |->
                    IF i = 0 THEN <<>>
                    ELSE IF i > place /\ Latest(i) THEN Append(g[i - 1], i) ELSE g[i - 1]]
      BY <1>2, <1>4
    <2>2. h = [i \in 0..n |->
                    IF i = 0 THEN <<>>
                    ELSE IF i > place /\ Latest(i) THEN Append(h[i - 1], i) ELSE h[i - 1]]
      BY <2>1, Zenon
    <2> HIDE DEF h
    <2> QED BY <1>4, <2>2
  <1> HIDE DEF h, wanted, n
  <1>6. Lists(h[n], wanted, n)
    BY <1>1, <1>5, GathersLists
  <1> QED BY <1>3, <1>6 DEF wanted, n

LEMMA SmallestOfTwo ==
    ASSUME NEW a \in Nat, NEW b \in Nat
    PROVE  Min({a, b}) \in Nat /\ Min({a, b}) <= a /\ Min({a, b}) <= b
           /\ Min({a, b}) \in {a, b}
  <1>1. \E x \in {a, b} : \A y \in {a, b} : x =< y
    <2>1. CASE a <= b
      BY <2>1
    <2>2. CASE b <= a
      BY <2>2
    <2> QED BY <2>1, <2>2
  <1>2. /\ Min({a, b}) \in {a, b}
        /\ \A y \in {a, b} : Min({a, b}) =< y
    BY <1>1, Zenon DEF Min
  <1> QED BY <1>2

LEMMA GreatestOfTwo ==
    ASSUME NEW a \in Int, NEW b \in Int
    PROVE  Max({a, b}) \in {a, b} /\ Max({a, b}) >= a /\ Max({a, b}) >= b
  <1>1. \E x \in {a, b} : \A y \in {a, b} : x >= y
    <2>1. CASE a >= b
      BY <2>1
    <2>2. CASE b >= a
      BY <2>2
    <2> QED BY <2>1, <2>2
  <1>2. /\ Max({a, b}) \in {a, b}
        /\ \A y \in {a, b} : Max({a, b}) >= y
    BY <1>1, Zenon DEF Max
  <1> QED BY <1>2

LEMMA ListedInOrder ==
    ASSUME NEW s \in Seq(Nat)
    PROVE  ToSet(s) = {s[a] : a \in 1..Len(s)}
  <1>1. DOMAIN s = 1..Len(s)
    OBVIOUS
  <1> QED BY <1>1 DEF ToSet

\* A page is complete up to its etag: the last change in it, or, if nothing is left
\* out, the end of the log.
LEMMA FirstPage ==
    ASSUME NEW n \in Nat, NEW wanted, NEW s, Lists(s, wanted, n),
           NEW page, NEW etag, page \in Seq(Nat), Len(page) \in 0..Len(s),
           Len(page) = 0 => Len(s) = 0,
           \A a \in 1..Len(page) : page[a] = s[a],
           etag = IF Len(page) = Len(s) THEN n ELSE s[Len(page)]
    PROVE  /\ etag \in 0..n
           /\ \A a \in 1..Len(page) : page[a] \in 1..etag
           /\ ToSet(page) \subseteq wanted
           /\ Len(page) = 0 => etag = n
           /\ \A i \in 1..n : i \in wanted /\ i <= etag => i \in ToSet(page)
  <1> DEFINE m == Len(page)
  <1>1. /\ s \in Seq(Nat) /\ Len(s) \in Nat
        /\ \A a \in 1..Len(s) : s[a] \in 1..n /\ s[a] \in wanted
        /\ \A a, b \in 1..Len(s) : a < b => s[a] < s[b]
        /\ \A i \in 1..n : i \in wanted => \E a \in 1..Len(s) : s[a] = i
    BY DEF Lists
  <1>2. m \in Nat /\ m <= Len(s)
    BY <1>1
  <1>3. ToSet(page) = {page[a] : a \in 1..m}
    BY ListedInOrder
  <1>4. ToSet(page) \subseteq wanted
    <2>1. ASSUME NEW a \in 1..m PROVE page[a] \in wanted
      <3>1. a \in 1..Len(s) /\ page[a] = s[a]
        BY <1>1, <1>2
      <3> QED BY <1>1, <3>1
    <2> QED BY <1>3, <2>1
  <1>5. CASE m = Len(s)
    <2>1. etag = n
      BY <1>5
    <2>2. ASSUME NEW i \in 1..n, i \in wanted PROVE i \in ToSet(page)
      <3>1. PICK a \in 1..Len(s) : s[a] = i
        BY <1>1, <2>2
      <3>2. a \in 1..m /\ page[a] = i
        BY <1>5, <3>1
      <3> QED BY <1>3, <3>2
    <2>3. \A a \in 1..m : page[a] \in 1..n
      BY <1>1, <1>5
    <2> QED BY <1>4, <2>1, <2>2, <2>3
  <1>6. CASE m # Len(s)
    <2>1. m \in 1..Len(s) /\ m < Len(s)
      BY <1>1, <1>2, <1>6
    <2>2. etag = s[m] /\ s[m] \in 1..n
      BY <1>1, <1>6, <2>1
    <2>3. ASSUME NEW a \in 1..m PROVE page[a] \in 1..etag
      <3>1. a \in 1..Len(s) /\ page[a] = s[a] /\ (a = m \/ a < m)
        BY <1>1, <2>1
      <3>2. s[a] \in 1..n /\ (a = m \/ s[a] < s[m])
        BY <1>1, <2>1, <3>1
      <3>3. s[a] <= s[m]
        BY <2>2, <3>2
      <3> QED BY <2>2, <3>1, <3>2, <3>3
    <2>4. ASSUME NEW i \in 1..n, i \in wanted, i <= etag PROVE i \in ToSet(page)
      <3>1. PICK a \in 1..Len(s) : s[a] = i
        BY <1>1, <2>4
      <3>2. m < a => s[m] < s[a]
        BY <1>1, <2>1
      <3>3. ~(m < a)
        BY <2>2, <2>4, <3>1, <3>2
      <3>4. a \in 1..m
        BY <2>1, <3>3
      <3>5. page[a] = i
        BY <3>1, <3>4
      <3> QED BY <1>3, <3>4, <3>5
    <2>5. etag \in 0..n /\ m # 0
      BY <2>1, <2>2
    <2> QED BY <1>4, <2>3, <2>4, <2>5
  <1> QED BY <1>5, <1>6

LEMMA PageOf ==
    ASSUME NEW s \in Seq(Nat), NEW m \in 0..Len(s)
    PROVE  /\ SubSeq(s, 1, m) \in Seq(Nat)
           /\ Len(SubSeq(s, 1, m)) = m
           /\ \A a \in 1..m : SubSeq(s, 1, m)[a] = s[a]
  OBVIOUS

Places == {None, All} \cup Nat

LEMMA WhatIsServed ==
    ASSUME log \in Seq(Items), NEW condition \in Places,
           ifModifiedSince \in {None} \cup Nat, NEW reply, reply = Served(condition)
    PROVE  /\ reply.etag \in 0..Len(log)
           /\ reply.page \in Seq(1..reply.etag)
           /\ \A i \in ToSet(reply.page) :
                  i \in DOMAIN log /\ i > From(condition) /\ i <= reply.etag
           /\ \A i \in DOMAIN log :
                  i > From(condition) /\ Latest(i) /\ i <= reply.etag
                  => i \in ToSet(reply.page)
           /\ condition = All => reply.page = <<>>
           /\ reply.page = <<>> => reply.etag = Len(log)
  <1> DEFINE place == From(condition)
             s == ChangesAfter(place)
             wanted == {i \in DOMAIN log : i > place /\ Latest(i)}
             n == Len(log)
  <1>0. n \in Nat /\ DOMAIN log = 1..n
    OBVIOUS
  <1>1. Lists(s, wanted, n)
    BY ChangesAfterLists
  <1> HIDE DEF s, place
  <1> DEFINE m == Min({MaxItemCount, Len(s)})
             page == SubSeq(s, 1, m)
             etag == IF Len(page) = Len(s) THEN n ELSE Last(page)
  <1>2. reply.page = page /\ reply.etag = etag
    BY DEF Served, s, place
  <1> HIDE DEF wanted, n
  <1>8. s \in Seq(Nat) /\ Len(s) \in Nat
    BY <1>1 DEF Lists
  <1>9. m \in 0..Len(s) /\ (m = 0 => Len(s) = 0)
    <2>1. MaxItemCount \in Nat /\ MaxItemCount > 0
      BY BoundAssumption
    <2>2. m \in Nat /\ m <= Len(s) /\ m \in {MaxItemCount, Len(s)}
      BY <1>8, <2>1, SmallestOfTwo
    <2> HIDE DEF m
    <2> QED BY <1>8, <2>1, <2>2
  <1> HIDE DEF m
  <1>10. page \in Seq(Nat) /\ Len(page) = m /\ \A a \in 1..m : page[a] = s[a]
    BY <1>8, <1>9, PageOf
  <1> HIDE DEF page
  <1>11. (m = Len(s) => etag = n) /\ (m # Len(s) => etag = s[m])
    <2>1. m # Len(s) => m \in 1..m
      BY <1>8, <1>9
    <2> QED BY <1>10, <2>1 DEF Last
  <1> HIDE DEF etag
  <1>12. /\ etag \in 0..n
         /\ \A a \in 1..m : page[a] \in 1..etag
         /\ ToSet(page) \subseteq wanted
         /\ m = 0 => etag = n
         /\ \A i \in 1..n : i \in wanted /\ i <= etag => i \in ToSet(page)
    <2>1. n \in Nat /\ Lists(s, wanted, n)
      BY <1>0, <1>1
    <2>2. Len(page) \in 0..Len(s) /\ (Len(page) = 0 => Len(s) = 0)
      BY <1>9, <1>10
    <2>3. page \in Seq(Nat) /\ \A a \in 1..Len(page) : page[a] = s[a]
      BY <1>10
    <2>4. etag = IF Len(page) = Len(s) THEN n ELSE s[Len(page)]
      BY <1>10, <1>11
    <2>5. /\ etag \in 0..n
          /\ \A a \in 1..Len(page) : page[a] \in 1..etag
          /\ ToSet(page) \subseteq wanted
          /\ Len(page) = 0 => etag = n
          /\ \A i \in 1..n : i \in wanted /\ i <= etag => i \in ToSet(page)
      BY <2>1, <2>2, <2>3, <2>4, FirstPage
    <2> QED BY <1>10, <2>5
  <1>13. page \in Seq(1..etag)
    <2>1. page = [a \in 1..m |-> page[a]] /\ m \in Nat
      BY <1>8, <1>9, <1>10
    <2> QED BY <1>12, <2>1
  <1>3. /\ etag \in 0..n
        /\ page \in Seq(1..etag)
        /\ ToSet(page) \subseteq wanted
        /\ page = <<>> => etag = n
        /\ \A i \in 1..n : i \in wanted /\ i <= etag => i \in ToSet(page)
    <2>1. page = <<>> => m = 0
      BY <1>10
    <2> QED BY <1>12, <1>13, <2>1
  <1>4. \A i \in ToSet(page) : i <= etag
    <2>1. ToSet(page) = {page[a] : a \in 1..m}
      BY <1>10, ListedInOrder
    <2>2. \A a \in 1..m : page[a] <= etag
      BY <1>0, <1>12
    <2> QED BY <2>1, <2>2
  <1>5. ASSUME condition = All PROVE page = <<>>
    <2>1. place = n
      BY <1>5 DEF From, place, n, All, None
    <2>2. wanted = {}
      BY <1>0, <2>1 DEF wanted
    <2>3. Len(page) = 0
      <3>1. page \in Seq(Nat) /\ Len(page) \in Nat
        BY <1>10
      <3>2. Len(page) > 0 => page[1] \in ToSet(page)
        BY <3>1, ListedInOrder
      <3> QED BY <1>3, <2>2, <3>1, <3>2
    <2> QED BY <1>3, <2>3
  <1>6. \A i \in wanted : i \in DOMAIN log /\ i > place
    BY DEF wanted
  <1>7. \A i \in DOMAIN log : i > place /\ Latest(i) => i \in wanted
    BY DEF wanted
  <1> QED BY <1>0, <1>2, <1>3, <1>4, <1>5, <1>6, <1>7 DEF place, n

-----------------------------------------------------------------------------
(* The invariant of a feed *)

\* A place the feed may go on from: it skips nothing that was not handed over, and
\* what comes later is still ahead of it.
NothingSkipped(place) ==
    /\ place <= Len(log) \/ place <= start
    /\ \A i \in DOMAIN log :
           i > start /\ Latest(i) /\ i <= place => i \in delivered

\* An answer on its way has what its etag skips.
PageComplete(condition, reply) ==
    /\ reply.etag \in 0..Len(log)
    /\ reply.page \in Seq(1..reply.etag)
    /\ condition = All => reply.page = <<>>
    /\ \A i \in DOMAIN log :
           i > start /\ Latest(i) /\ i <= reply.etag /\ condition # All
               => i \in delivered \/ i \in ToSet(reply.page)

FeedTypes ==
    /\ log \in Seq(Items)
    /\ nextIfNoneMatch \in Places
    /\ ifModifiedSince \in {None} \cup Nat
    /\ pc \in [Callers -> {"idle", "sent", "served"}]
    /\ asked \in [Callers -> Places]
    /\ DOMAIN answer = Callers
    /\ start \in Nat
    /\ overlapped \in BOOLEAN
    /\ delivered \subseteq Nat

CallSkipsNothing(c) ==
    /\ pc[c] # "served" => answer[c] = NoAnswer
    /\ pc[c] # "idle" /\ asked[c] \in Nat => NothingSkipped(asked[c])
    /\ pc[c] = "served" => PageComplete(asked[c], answer[c])

MissedInv ==
    /\ ifModifiedSince <= start
    /\ nextIfNoneMatch \in Nat => NothingSkipped(nextIfNoneMatch)
    /\ \A c \in Callers : CallSkipsNothing(c)

\* A call that is alone goes on from where the feed is, past all that was handed over.
CallIsAlone(c) ==
    /\ pc[c] # "idle" =>
           /\ asked[c] = nextIfNoneMatch
           /\ \A other \in Callers \ {c} : pc[other] = "idle"
    /\ pc[c] = "served" => \A j \in delivered :
           j <= answer[c].etag /\ \A i \in ToSet(answer[c].page) : j < i

AloneInv ==
    ~overlapped =>
        /\ delivered # {} => nextIfNoneMatch \in 0..Len(log)
        /\ \A j \in delivered : j <= nextIfNoneMatch
        /\ \A c \in Callers : CallIsAlone(c)

FeedInv == FeedTypes /\ MissedInv /\ AloneInv

-----------------------------------------------------------------------------
(* Growth *)

FeedGrows ==
    /\ log' = log \/ \E item \in Items : log' = Append(log, item)
    /\ delivered \subseteq delivered'
    /\ start <= start'

\* A change that is the last of its item was so before.
LEMMA LatestBefore ==
    ASSUME log \in Seq(Items), log' = log \/ \E item \in Items : log' = Append(log, item)
    PROVE  /\ log' \in Seq(Items)
           /\ Len(log) \in Nat /\ Len(log)' \in Nat /\ Len(log) <= Len(log)'
           /\ \A i \in DOMAIN log' :
                  i \in Nat /\ (i <= Len(log) => i \in DOMAIN log)
           /\ \A i \in DOMAIN log : i \in Nat /\ (Latest(i)' => Latest(i))
  <1>1. CASE log' = log
    BY <1>1 DEF Latest
  <1>2. CASE \E item \in Items : log' = Append(log, item)
    <2>1. PICK item \in Items : log' = Append(log, item)
      BY <1>2
    <2>2. /\ log' \in Seq(Items) /\ Len(log') = Len(log) + 1 /\ Len(log) \in Nat
          /\ DOMAIN log = 1..Len(log) /\ DOMAIN log' = 1..(Len(log) + 1)
          /\ \A i \in 1..Len(log) : log'[i] = log[i]
      BY <2>1
    <2>3. ASSUME NEW i \in DOMAIN log, Latest(i)' PROVE Latest(i)
      <3>1. \A j \in DOMAIN log' : j > i => log'[j] # log'[i]
        BY <2>3 DEF Latest
      <3>2. \A j \in DOMAIN log : j > i => log[j] # log[i]
        BY <2>2, <3>1
      <3> QED BY <3>2 DEF Latest
    <2> QED BY <2>2, <2>3
  <1> QED BY <1>1, <1>2

LEMMA SkippedStays ==
    ASSUME FeedTypes, FeedTypes', FeedGrows, NEW place \in Nat, NothingSkipped(place)
    PROVE  /\ place <= Len(log)' \/ place <= start'
           /\ \A i \in DOMAIN log' :
                  i > start' /\ Latest(i)' /\ i <= place => i \in delivered'
  <1>0. start \in Nat /\ start' \in Nat /\ start <= start' /\ delivered \subseteq delivered'
    BY DEF FeedTypes, FeedGrows
  <1>1. /\ Len(log) \in Nat /\ Len(log)' \in Nat /\ Len(log) <= Len(log)'
        /\ \A i \in DOMAIN log' : i \in Nat /\ (i <= Len(log) => i \in DOMAIN log)
        /\ \A i \in DOMAIN log : i \in Nat /\ (Latest(i)' => Latest(i))
    BY LatestBefore DEF FeedTypes, FeedGrows
  <1>2. /\ place <= Len(log) \/ place <= start
        /\ \A i \in DOMAIN log : i > start /\ Latest(i) /\ i <= place => i \in delivered
    BY DEF NothingSkipped
  <1>3. place <= Len(log)' \/ place <= start'
    BY <1>0, <1>1, <1>2
  <1>4. ASSUME NEW i \in DOMAIN log', i > start', Latest(i)', i <= place
        PROVE  i \in delivered'
    <2>1. i \in Nat /\ i > start
      BY <1>0, <1>1, <1>4
    <2>2. i <= Len(log)
      BY <1>0, <1>1, <1>2, <1>4, <2>1
    <2> QED BY <1>0, <1>1, <1>2, <1>4, <2>1, <2>2
  <1> QED BY <1>3, <1>4

LEMMA PageStays ==
    ASSUME FeedTypes, FeedTypes', FeedGrows, NEW condition, NEW reply,
           PageComplete(condition, reply)
    PROVE  /\ reply.etag \in 0..Len(log)'
           /\ reply.page \in Seq(1..reply.etag)
           /\ condition = All => reply.page = <<>>
           /\ \A i \in DOMAIN log' :
                  i > start' /\ Latest(i)' /\ i <= reply.etag /\ condition # All
                      => i \in delivered' \/ i \in ToSet(reply.page)
  <1>0. start \in Nat /\ start' \in Nat /\ start <= start' /\ delivered \subseteq delivered'
    BY DEF FeedTypes, FeedGrows
  <1>1. /\ Len(log) \in Nat /\ Len(log)' \in Nat /\ Len(log) <= Len(log)'
        /\ \A i \in DOMAIN log' : i \in Nat /\ (i <= Len(log) => i \in DOMAIN log)
        /\ \A i \in DOMAIN log : i \in Nat /\ (Latest(i)' => Latest(i))
    BY LatestBefore DEF FeedTypes, FeedGrows
  <1>2. /\ reply.etag \in 0..Len(log)
        /\ reply.page \in Seq(1..reply.etag)
        /\ condition = All => reply.page = <<>>
        /\ \A i \in DOMAIN log :
               i > start /\ Latest(i) /\ i <= reply.etag /\ condition # All
                   => i \in delivered \/ i \in ToSet(reply.page)
    BY DEF PageComplete
  <1>3. reply.etag \in 0..Len(log)'
    BY <1>1, <1>2
  <1>4. ASSUME NEW i \in DOMAIN log', i > start', Latest(i)', i <= reply.etag,
               condition # All
        PROVE  i \in delivered' \/ i \in ToSet(reply.page)
    <2>1. i \in Nat /\ i > start /\ i <= Len(log)
      BY <1>0, <1>1, <1>2, <1>4
    <2>2. i \in DOMAIN log /\ Latest(i)
      BY <1>1, <1>4, <2>1
    <2> QED BY <1>0, <1>2, <1>4, <2>1, <2>2
  <1> QED BY <1>2, <1>3, <1>4

\* What a step of another call, or a change, leaves as it was.
LEMMA CallStays ==
    ASSUME FeedTypes, FeedTypes', FeedGrows, NEW c \in Callers, CallSkipsNothing(c),
           pc'[c] = pc[c], asked'[c] = asked[c], answer'[c] = answer[c]
    PROVE  CallSkipsNothing(c)'
  <1>1. pc'[c] # "served" => answer'[c] = NoAnswer
    BY DEF CallSkipsNothing
  <1>2. ASSUME pc'[c] # "idle", asked'[c] \in Nat PROVE NothingSkipped(asked[c])'
    <2> DEFINE place == asked[c]
    <2>1. place \in Nat /\ NothingSkipped(place)
      BY <1>2 DEF CallSkipsNothing
    <2> HIDE DEF place
    <2>2. /\ place <= Len(log)' \/ place <= start'
          /\ \A i \in DOMAIN log' :
                 i > start' /\ Latest(i)' /\ i <= place => i \in delivered'
      BY <2>1, SkippedStays
    <2>3. asked'[c] = place
      BY DEF place
    <2> QED BY <2>2, <2>3 DEF NothingSkipped
  <1>3. ASSUME pc'[c] = "served" PROVE PageComplete(asked[c], answer[c])'
    <2> DEFINE condition == asked[c]
               reply == answer[c]
    <2>1. PageComplete(condition, reply)
      BY <1>3 DEF CallSkipsNothing
    <2> HIDE DEF condition, reply
    <2>2. /\ reply.etag \in 0..Len(log)'
          /\ reply.page \in Seq(1..reply.etag)
          /\ condition = All => reply.page = <<>>
          /\ \A i \in DOMAIN log' :
                 i > start' /\ Latest(i)' /\ i <= reply.etag /\ condition # All
                     => i \in delivered' \/ i \in ToSet(reply.page)
      BY <2>1, PageStays
    <2>3. asked'[c] = condition /\ answer'[c] = reply
      BY DEF condition, reply
    <2> QED BY <2>2, <2>3 DEF PageComplete
  <1> QED BY <1>1, <1>2, <1>3 DEF CallSkipsNothing

\* What an etag skips stays handed over, whoever holds it.
LEMMA NextStays ==
    ASSUME FeedTypes, FeedTypes', FeedGrows, nextIfNoneMatch' = nextIfNoneMatch,
           nextIfNoneMatch \in Nat => NothingSkipped(nextIfNoneMatch)
    PROVE  nextIfNoneMatch' \in Nat => NothingSkipped(nextIfNoneMatch)'
  <1> DEFINE place == nextIfNoneMatch
  <1> SUFFICES ASSUME nextIfNoneMatch' \in Nat PROVE NothingSkipped(nextIfNoneMatch)'
    OBVIOUS
  <1>1. place \in Nat /\ NothingSkipped(place) /\ nextIfNoneMatch' = place
    OBVIOUS
  <1> HIDE DEF place
  <1>2. /\ place <= Len(log)' \/ place <= start'
        /\ \A i \in DOMAIN log' :
               i > start' /\ Latest(i)' /\ i <= place => i \in delivered'
    BY <1>1, SkippedStays
  <1> QED BY <1>1, <1>2 DEF NothingSkipped

-----------------------------------------------------------------------------
(* The steps *)

\* A step that leaves the feed and its calls as they were.
LEMMA FeedUnchanged ==
    ASSUME FeedInv,
           UNCHANGED <<log, nextIfNoneMatch, ifModifiedSince, pc, asked, answer, history>>
    PROVE  FeedInv'
  <1> USE DEF history
  <1>1. FeedTypes'
    BY DEF FeedInv, FeedTypes
  <1>2. MissedInv'
    BY DEF FeedInv, MissedInv, CallSkipsNothing, NothingSkipped, PageComplete, Latest
  <1>3. AloneInv'
    BY DEF FeedInv, AloneInv, CallIsAlone
  <1> QED BY <1>1, <1>2, <1>3 DEF FeedInv

\* An item changes.
LEMMA ChangeStep ==
    ASSUME FeedInv, NEW item \in Items, Change(item)
    PROVE  FeedInv'
  <1> USE DEF iterator, calls, history
  <1>1. /\ log' = Append(log, item) /\ log \in Seq(Items)
        /\ UNCHANGED <<nextIfNoneMatch, ifModifiedSince, pc, asked, answer, history>>
    BY DEF Change, FeedInv, FeedTypes
  <1>2. Len(log) \in Nat /\ Len(log') = Len(log) + 1 /\ log' \in Seq(Items)
    BY <1>1
  <1>3. FeedTypes /\ FeedTypes'
    BY <1>1, <1>2 DEF FeedInv, FeedTypes
  <1>4. FeedGrows
    BY <1>1, <1>3 DEF FeedGrows, FeedTypes
  <1>5. MissedInv'
    <2>1. nextIfNoneMatch' \in Nat => NothingSkipped(nextIfNoneMatch)'
      BY <1>1, <1>3, <1>4, NextStays DEF FeedInv, MissedInv
    <2>2. ASSUME NEW c \in Callers PROVE CallSkipsNothing(c)'
      BY <1>1, <1>3, <1>4, CallStays DEF FeedInv, MissedInv
    <2> QED BY <1>1, <2>1, <2>2 DEF FeedInv, MissedInv
  <1>6. AloneInv'
    <2>1. nextIfNoneMatch \in 0..Len(log) => nextIfNoneMatch' \in 0..Len(log')
      BY <1>1, <1>2
    <2>2. \A c \in Callers : CallIsAlone(c) => CallIsAlone(c)'
      BY <1>1 DEF CallIsAlone
    <2> QED BY <1>1, <2>1, <2>2 DEF FeedInv, AloneInv
  <1> QED BY <1>3, <1>5, <1>6 DEF FeedInv

\* A call begins: it asks from where the feed is.
LEMMA SendStep ==
    ASSUME FeedInv, NEW c \in Callers, pc[c] = "idle", Send(c),
           UNCHANGED <<log, nextIfNoneMatch, ifModifiedSince, answer, delivered, start>>
    PROVE  FeedInv'
  <1>1. /\ pc \in [Callers -> {"idle", "sent", "served"}]
        /\ asked \in [Callers -> Places] /\ nextIfNoneMatch \in Places
        /\ overlapped \in BOOLEAN
    BY DEF FeedInv, FeedTypes
  <1>2. /\ pc' \in [Callers -> {"idle", "sent", "served"}] /\ pc'[c] = "sent"
        /\ asked' \in [Callers -> Places] /\ asked'[c] = nextIfNoneMatch
        /\ \A d \in Callers \ {c} : pc'[d] = pc[d] /\ asked'[d] = asked[d]
    BY <1>1 DEF Send
  <1>3. overlapped' = (overlapped \/ \E other \in Callers \ {c} : pc[other] # "idle")
    BY DEF Send
  <1>4. FeedTypes /\ FeedTypes'
    BY <1>1, <1>2, <1>3 DEF FeedInv, FeedTypes
  <1>5. FeedGrows
    BY <1>4 DEF FeedGrows, FeedTypes
  <1>6. MissedInv'
    <2>1. nextIfNoneMatch' \in Nat => NothingSkipped(nextIfNoneMatch)'
      BY <1>4, <1>5, NextStays DEF FeedInv, MissedInv
    <2>2. ASSUME NEW d \in Callers, d # c PROVE CallSkipsNothing(d)'
      <3>1. pc'[d] = pc[d] /\ asked'[d] = asked[d] /\ answer'[d] = answer[d]
        BY <1>2, <2>2
      <3> QED BY <1>4, <1>5, <3>1, CallStays DEF FeedInv, MissedInv
    <2>3. CallSkipsNothing(c)'
      <3>1. answer'[c] = NoAnswer
        BY DEF FeedInv, MissedInv, CallSkipsNothing
      <3>2. asked'[c] \in Nat => NothingSkipped(asked[c])'
        BY <1>2, <2>1 DEF NothingSkipped
      <3> QED BY <1>2, <3>1, <3>2 DEF CallSkipsNothing
    <2> QED BY <2>1, <2>2, <2>3 DEF FeedInv, MissedInv
  <1>7. AloneInv'
    <2> SUFFICES ASSUME ~overlapped' PROVE AloneInv'
      BY Zenon DEF AloneInv
    <2>1. ~overlapped /\ \A d \in Callers \ {c} : pc[d] = "idle"
      BY <1>3
    <2>2. \A d \in Callers \ {c} : pc'[d] = "idle"
      BY <1>2, <2>1
    <2>3. \A d \in Callers : CallIsAlone(d)'
      BY <1>2, <2>2 DEF CallIsAlone
    <2> QED BY <2>1, <2>3 DEF FeedInv, AloneInv
  <1> QED BY <1>4, <1>6, <1>7 DEF FeedInv

\* The service answers: what the request skips was handed over, what the etag
\* skips after it is in the page.
LEMMA ServeStep ==
    ASSUME FeedInv, NEW c \in Callers, Serve(c)
    PROVE  FeedInv'
  <1> DEFINE condition == asked[c]
             reply == Served(condition)
  <1>1. /\ log \in Seq(Items) /\ Len(log) \in Nat
        /\ \A i \in DOMAIN log : i \in Nat
        /\ ifModifiedSince \in {None} \cup Nat
        /\ pc \in [Callers -> {"idle", "sent", "served"}]
        /\ condition \in Places /\ start \in Nat /\ DOMAIN answer = Callers
        /\ delivered \subseteq Nat
    BY DEF FeedInv, FeedTypes
  <1>2. /\ pc[c] = "sent" /\ pc'[c] = "served"
        /\ pc' \in [Callers -> {"idle", "sent", "served"}]
        /\ DOMAIN answer' = Callers /\ answer'[c] = reply
        /\ \A d \in Callers \ {c} : pc'[d] = pc[d] /\ answer'[d] = answer[d]
        /\ UNCHANGED <<log, nextIfNoneMatch, ifModifiedSince, asked, delivered, start,
                       overlapped>>
    BY <1>1 DEF Serve, iterator, history
  <1>3. /\ reply.etag \in 0..Len(log)
        /\ reply.page \in Seq(1..reply.etag)
        /\ \A i \in ToSet(reply.page) :
               i \in DOMAIN log /\ i > From(condition) /\ i <= reply.etag
        /\ \A i \in DOMAIN log :
               i > From(condition) /\ Latest(i) /\ i <= reply.etag
               => i \in ToSet(reply.page)
        /\ condition = All => reply.page = <<>>
        /\ reply.page = <<>> => reply.etag = Len(log)
    <2> HIDE DEF condition
    <2>1. reply = Served(condition)
      OBVIOUS
    <2> HIDE DEF reply
    <2> QED BY <1>1, <2>1, WhatIsServed
  <1>4. condition \in Nat => From(condition) = condition /\ NothingSkipped(condition)
    BY <1>2 DEF FeedInv, MissedInv, CallSkipsNothing, From, All, None
  <1>5. condition = None => From(condition) \in Int /\ From(condition) <= start
    <2> SUFFICES ASSUME condition = None
                 PROVE  From(condition) \in Int /\ From(condition) <= start
      OBVIOUS
    <2>1. From(condition) = Max({0, ifModifiedSince})
      BY DEF From, All, None
    <2>2. Max({0, ifModifiedSince}) \in {0, ifModifiedSince}
      <3>1. 0 \in Int /\ ifModifiedSince \in Int
        BY <1>1 DEF None
      <3> QED BY <3>1, GreatestOfTwo, Zenon
    <2> QED BY <1>1, <2>1, <2>2 DEF FeedInv, MissedInv, None
  <1>6. asked'[c] = condition
    BY <1>2
  <1> HIDE DEF condition, reply
  <1>7. FeedTypes /\ FeedTypes'
    BY <1>2 DEF FeedInv, FeedTypes
  <1>8. FeedGrows
    BY <1>2, <1>1 DEF FeedGrows
  <1>9. PageComplete(condition, reply)
    <2>1. ASSUME NEW i \in DOMAIN log, i > start, Latest(i), i <= reply.etag,
                 condition # All
          PROVE  i \in delivered \/ i \in ToSet(reply.page)
      <3>1. CASE condition \in Nat
        <4>1. i <= condition => i \in delivered
          BY <1>4, <2>1, <3>1 DEF NothingSkipped
        <4>2. i > condition => i \in ToSet(reply.page)
          BY <1>3, <1>4, <2>1, <3>1
        <4> QED BY <1>1, <3>1, <4>1, <4>2
      <3>2. CASE condition = None
        <4>1. i > From(condition)
          BY <1>1, <1>5, <2>1, <3>2
        <4> QED BY <1>3, <2>1, <4>1
      <3> QED BY <1>1, <2>1, <3>1, <3>2 DEF Places
    <2> QED BY <1>3, <2>1 DEF PageComplete
  <1>10. MissedInv'
    <2>1. nextIfNoneMatch' \in Nat => NothingSkipped(nextIfNoneMatch)'
      BY <1>2, <1>7, <1>8, NextStays DEF FeedInv, MissedInv
    <2>2. ASSUME NEW d \in Callers, d # c PROVE CallSkipsNothing(d)'
      <3>1. pc'[d] = pc[d] /\ asked'[d] = asked[d] /\ answer'[d] = answer[d]
        BY <1>2, <2>2
      <3> QED BY <1>7, <1>8, <3>1, CallStays DEF FeedInv, MissedInv
    <2>3. CallSkipsNothing(c)'
      <3>1. asked'[c] \in Nat => NothingSkipped(asked[c])'
        BY <1>2, <1>4, <1>6 DEF NothingSkipped, Latest
      <3>2. PageComplete(asked[c], answer[c])'
        BY <1>2, <1>6, <1>9 DEF PageComplete, Latest
      <3> QED BY <1>2, <3>1, <3>2 DEF CallSkipsNothing
    <2> QED BY <1>2, <2>1, <2>2, <2>3 DEF FeedInv, MissedInv
  <1>11. AloneInv'
    <2> SUFFICES ASSUME ~overlapped' PROVE AloneInv'
      BY Zenon DEF AloneInv
    <2>1. /\ delivered # {} => nextIfNoneMatch \in 0..Len(log)
          /\ \A j \in delivered : j <= nextIfNoneMatch
          /\ condition = nextIfNoneMatch
          /\ \A d \in Callers \ {c} : pc[d] = "idle"
      BY <1>2 DEF FeedInv, AloneInv, CallIsAlone, condition
    <2>2. ASSUME NEW j \in delivered
          PROVE  j <= reply.etag /\ \A i \in ToSet(reply.page) : j < i
      <3>1. condition \in 0..Len(log) /\ j <= condition /\ j \in Nat
        BY <1>1, <2>1
      <3>2. \A i \in ToSet(reply.page) : i \in Nat /\ i > condition /\ i <= reply.etag
        BY <1>1, <1>3, <1>4, <3>1
      <3>3. CASE reply.page = <<>>
        BY <1>1, <1>3, <3>1, <3>2, <3>3
      <3>4. CASE reply.page # <<>>
        <4>1. reply.page \in Seq(Nat) /\ 1 \in 1..Len(reply.page)
          BY <1>1, <1>3, <3>4
        <4>2. reply.page[1] \in ToSet(reply.page)
          BY <4>1, ListedInOrder
        <4> QED BY <1>1, <1>3, <3>1, <3>2, <4>2
      <3> QED BY <3>3, <3>4
    <2>3. CallIsAlone(c)'
      BY <1>2, <1>6, <2>1, <2>2 DEF CallIsAlone
    <2>4. ASSUME NEW d \in Callers, d # c PROVE CallIsAlone(d)'
      <3>1. pc'[d] = "idle"
        BY <1>2, <2>1, <2>4
      <3> QED BY <3>1 DEF CallIsAlone
    <2> QED BY <1>2, <2>1, <2>3, <2>4 DEF AloneInv
  <1> QED BY <1>7, <1>10, <1>11 DEF FeedInv

\* An answer arrives: the feed goes on from its etag, and has what it skips.
LEMMA ReceiveStep ==
    ASSUME FeedInv, NEW c \in Callers, Receive(c)
    PROVE  FeedInv'
  <1> DEFINE condition == asked[c]
             reply == answer[c]
  <1>1. /\ log \in Seq(Items) /\ Len(log) \in Nat
        /\ \A i \in DOMAIN log : i \in Nat
        /\ pc \in [Callers -> {"idle", "sent", "served"}]
        /\ asked \in [Callers -> Places] /\ start \in Nat /\ DOMAIN answer = Callers
        /\ delivered \subseteq Nat
    BY DEF FeedInv, FeedTypes
  <1>2. /\ pc[c] = "served" /\ pc'[c] = "idle"
        /\ pc' \in [Callers -> {"idle", "sent", "served"}]
        /\ asked' \in [Callers -> Places]
        /\ DOMAIN answer' = Callers /\ answer'[c] = NoAnswer
        /\ \A d \in Callers \ {c} :
               pc'[d] = pc[d] /\ asked'[d] = asked[d] /\ answer'[d] = answer[d]
        /\ UNCHANGED <<log, ifModifiedSince, overlapped>>
    BY <1>1 DEF Receive, Forget, Places
  <1>3. /\ nextIfNoneMatch' = reply.etag
        /\ delivered' = delivered \cup ToSet(reply.page)
        /\ start' = IF condition = All THEN Max({start, reply.etag}) ELSE start
    BY DEF Receive, EtagOf
  <1>4. /\ reply.etag \in 0..Len(log)
        /\ reply.page \in Seq(1..reply.etag)
        /\ \A i \in DOMAIN log :
               i > start /\ Latest(i) /\ i <= reply.etag /\ condition # All
                   => i \in delivered \/ i \in ToSet(reply.page)
    BY <1>2 DEF FeedInv, MissedInv, CallSkipsNothing, PageComplete
  <1>5. ~overlapped =>
            /\ \A d \in Callers \ {c} : pc[d] = "idle"
            /\ \A j \in delivered : j <= reply.etag
    BY <1>2 DEF FeedInv, AloneInv, CallIsAlone
  <1> HIDE DEF condition, reply
  <1>6. reply.etag \in Nat /\ ToSet(reply.page) \subseteq 1..reply.etag
    <2>1. reply.page \in Seq(Nat)
      BY <1>1, <1>4
    <2> QED BY <1>1, <1>4, <2>1, ListedInOrder
  <1>7. start' \in Nat /\ start <= start' /\ (condition = All => reply.etag <= start')
    <2> DEFINE etag == reply.etag
    <2>1. etag \in Int /\ start \in Int
      BY <1>1, <1>6
    <2> HIDE DEF etag
    <2>2. /\ Max({start, etag}) \in {start, etag}
          /\ Max({start, etag}) >= start /\ Max({start, etag}) >= etag
      BY <2>1, GreatestOfTwo, Zenon
    <2>3. start' = IF condition = All THEN Max({start, etag}) ELSE start
      BY <1>3 DEF etag
    <2>4. etag \in Nat
      BY <1>6 DEF etag
    <2>5. start' \in Nat /\ start <= start' /\ (condition = All => etag <= start')
      BY <1>1, <2>2, <2>3, <2>4
    <2> QED BY <2>5 DEF etag
  <1>8. FeedTypes /\ FeedTypes'
    <2>1. delivered' \subseteq Nat
      <3>1. ToSet(reply.page) \subseteq Nat
        BY <1>6
      <3> QED BY <1>1, <1>3, <3>1
    <2>2. nextIfNoneMatch' \in Places
      BY <1>3, <1>6 DEF Places
    <2> QED BY <1>2, <1>7, <2>1, <2>2 DEF FeedInv, FeedTypes
  <1>9. FeedGrows
    BY <1>2, <1>3, <1>7 DEF FeedGrows
  <1>10. MissedInv'
    <2>1. NothingSkipped(nextIfNoneMatch)'
      <3>1. nextIfNoneMatch' <= Len(log)'
        BY <1>1, <1>2, <1>3, <1>4
      <3>2. ASSUME NEW i \in DOMAIN log, i > start', Latest(i), i <= reply.etag
            PROVE  i \in delivered'
        BY <1>1, <1>3, <1>4, <1>6, <1>7, <3>2
      <3> QED BY <1>2, <1>3, <3>1, <3>2 DEF NothingSkipped, Latest
    <2>2. ASSUME NEW d \in Callers, d # c PROVE CallSkipsNothing(d)'
      <3>1. pc'[d] = pc[d] /\ asked'[d] = asked[d] /\ answer'[d] = answer[d]
        BY <1>2, <2>2
      <3> QED BY <1>8, <1>9, <3>1, CallStays DEF FeedInv, MissedInv
    <2>3. CallSkipsNothing(c)'
      BY <1>2 DEF CallSkipsNothing
    <2>4. ifModifiedSince' <= start'
      BY <1>1, <1>2, <1>7, <1>8 DEF FeedInv, MissedInv, FeedTypes, None
    <2> QED BY <2>1, <2>2, <2>3, <2>4 DEF MissedInv
  <1>11. AloneInv'
    <2> SUFFICES ASSUME ~overlapped' PROVE AloneInv'
      BY Zenon DEF AloneInv
    <2>1. \A d \in Callers : pc'[d] = "idle"
      BY <1>2, <1>5
    <2>2. \A j \in delivered' : j <= nextIfNoneMatch'
      BY <1>1, <1>2, <1>3, <1>5, <1>6
    <2>3. nextIfNoneMatch' \in 0..Len(log)'
      BY <1>2, <1>3, <1>4
    <2> QED BY <2>1, <2>2, <2>3 DEF AloneInv, CallIsAlone
  <1> QED BY <1>8, <1>10, <1>11 DEF FeedInv

\* A call fails: the feed stays where it was.
LEMMA FailStep ==
    ASSUME FeedInv, NEW c \in Callers, Fail(c)
    PROVE  FeedInv'
  <1>1. /\ pc \in [Callers -> {"idle", "sent", "served"}]
        /\ asked \in [Callers -> Places] /\ DOMAIN answer = Callers
    BY DEF FeedInv, FeedTypes
  <1>2. /\ pc'[c] = "idle"
        /\ pc' \in [Callers -> {"idle", "sent", "served"}]
        /\ asked' \in [Callers -> Places]
        /\ DOMAIN answer' = Callers /\ answer'[c] = NoAnswer
        /\ \A d \in Callers \ {c} :
               pc'[d] = pc[d] /\ asked'[d] = asked[d] /\ answer'[d] = answer[d]
        /\ UNCHANGED <<log, nextIfNoneMatch, ifModifiedSince, delivered, start, overlapped>>
    BY <1>1 DEF Fail, Forget, Places, iterator, history
  <1>3. FeedTypes /\ FeedTypes'
    BY <1>2 DEF FeedInv, FeedTypes
  <1>4. FeedGrows
    BY <1>2, <1>3 DEF FeedGrows, FeedTypes
  <1>5. MissedInv'
    <2>1. nextIfNoneMatch' \in Nat => NothingSkipped(nextIfNoneMatch)'
      BY <1>2, <1>3, <1>4, NextStays DEF FeedInv, MissedInv
    <2>2. ASSUME NEW d \in Callers, d # c PROVE CallSkipsNothing(d)'
      <3>1. pc'[d] = pc[d] /\ asked'[d] = asked[d] /\ answer'[d] = answer[d]
        BY <1>2, <2>2
      <3> QED BY <1>3, <1>4, <3>1, CallStays DEF FeedInv, MissedInv
    <2>3. CallSkipsNothing(c)'
      BY <1>2 DEF CallSkipsNothing
    <2> QED BY <1>2, <2>1, <2>2, <2>3 DEF FeedInv, MissedInv
  <1>6. AloneInv'
    <2> SUFFICES ASSUME ~overlapped' PROVE AloneInv'
      BY Zenon DEF AloneInv
    <2>1. /\ delivered # {} => nextIfNoneMatch \in 0..Len(log)
          /\ \A j \in delivered : j <= nextIfNoneMatch
          /\ \A d \in Callers : CallIsAlone(d)
      BY <1>2 DEF FeedInv, AloneInv
    <2>2. CallIsAlone(c)'
      BY <1>2 DEF CallIsAlone
    <2>3. ASSUME NEW d \in Callers, d # c PROVE CallIsAlone(d)'
      <3>1. /\ pc'[d] = pc[d] /\ asked'[d] = asked[d] /\ answer'[d] = answer[d]
            /\ UNCHANGED <<nextIfNoneMatch, delivered>>
        BY <1>2, <2>3
      <3>2. \A other \in Callers : pc[other] = "idle" => pc'[other] = "idle"
        BY <1>2
      <3> QED BY <2>1, <3>1, <3>2 DEF CallIsAlone
    <2> QED BY <1>2, <2>1, <2>2, <2>3 DEF AloneInv
  <1> QED BY <1>3, <1>5, <1>6 DEF FeedInv

-----------------------------------------------------------------------------
(* The theorems *)

LEMMA GreatestOfThree ==
    ASSUME NEW a \in Int, NEW b \in Int, NEW c \in Int
    PROVE  Max({a, b, c}) \in {a, b, c}
           /\ Max({a, b, c}) >= a /\ Max({a, b, c}) >= b /\ Max({a, b, c}) >= c
  <1>1. \E x \in {a, b, c} : \A y \in {a, b, c} : x >= y
    <2>1. CASE a >= b /\ a >= c
      BY <2>1
    <2>2. CASE b >= a /\ b >= c
      BY <2>2
    <2>3. CASE c >= a /\ c >= b
      BY <2>3
    <2> QED BY <2>1, <2>2, <2>3
  <1>2. /\ Max({a, b, c}) \in {a, b, c}
        /\ \A y \in {a, b, c} : Max({a, b, c}) >= y
    BY <1>1, Zenon DEF Max
  <1> QED BY <1>2

\* A feed starts no later than where its first request does.
LEMMA FeedStarts == Init => FeedInv
  <1> SUFFICES ASSUME Init PROVE FeedInv
    OBVIOUS
  <1>1. PICK options \in Options :
            /\ nextIfNoneMatch = FirstIfNoneMatch(options)
            /\ ifModifiedSince = options.startTime
            /\ start = Max({0, options.startTime, options.continuation})
    BY DEF Init
  <1> DEFINE time == options.startTime
             etag == options.continuation
  <1>2. time \in {None} \cup Nat /\ etag \in {None} \cup Nat
    BY OptionsAssumption
  <1>3. ifModifiedSince = time /\ start = Max({0, time, etag})
        /\ nextIfNoneMatch \in {None, All, etag}
    BY <1>1 DEF FirstIfNoneMatch
  <1> HIDE DEF time, etag
  <1>4. 0 \in Int /\ time \in Int /\ etag \in Int
    BY <1>2 DEF None
  <1> DEFINE top == Max({0, time, etag})
  <1>5. top \in {0, time, etag} /\ top >= 0 /\ top >= time /\ top >= etag
    BY <1>4, GreatestOfThree, Zenon
  <1> HIDE DEF top
  <1>6. start = top
    BY <1>3 DEF top
  <1>7. /\ log = <<>> /\ pc = [c \in Callers |-> "idle"]
        /\ asked = [c \in Callers |-> None] /\ answer = [c \in Callers |-> NoAnswer]
        /\ delivered = {} /\ overlapped = FALSE
    BY DEF Init
  <1>8. FeedTypes
    <2>1. start \in Nat
      BY <1>2, <1>5, <1>6 DEF None
    <2>2. nextIfNoneMatch \in Places /\ None \in Places
      BY <1>2, <1>3 DEF Places
    <2>3. log \in Seq(Items)
      BY <1>7
    <2> QED BY <1>2, <1>3, <1>7, <2>1, <2>2, <2>3 DEF FeedTypes
  <1>9. nextIfNoneMatch \in Nat => nextIfNoneMatch <= start
    BY <1>2, <1>3, <1>4, <1>5, <1>6 DEF None, All
  <1>10. MissedInv
    BY <1>3, <1>5, <1>6, <1>7, <1>9 DEF MissedInv, CallSkipsNothing, NothingSkipped
  <1>11. AloneInv
    BY <1>7 DEF AloneInv, CallIsAlone
  <1> QED BY <1>8, <1>10, <1>11 DEF FeedInv

\* The invariant of a change feed: what the etag it goes on from skips was handed
\* over, what the etag of an answer on its way skips is in its page or was, and a
\* call that is alone goes on from where the feed is.
THEOREM FeedInvariant == Spec => []FeedInv
  <1>1. Init => FeedInv
    BY FeedStarts
  <1>2. FeedInv /\ [Next]_vars => FeedInv'
    <2> SUFFICES ASSUME FeedInv, [Next]_vars PROVE FeedInv'
      OBVIOUS
    <2> USE DEF iterator, calls, history
    <2>1. ASSUME NEW item \in Items, Change(item) PROVE FeedInv'
      BY <2>1, ChangeStep
    <2>2. ASSUME NEW c \in Callers, fetchNext(c) \/ StartLoop(c) \/ LoopAgain(c)
          PROVE  FeedInv'
      <3>1. /\ pc[c] = "idle" /\ Send(c)
            /\ UNCHANGED <<log, nextIfNoneMatch, ifModifiedSince, answer, delivered, start>>
        BY <2>2 DEF fetchNext, StartLoop, LoopAgain
      <3> QED BY <3>1, SendStep
    <2>3. ASSUME NEW c \in Callers, EndLoop(c) PROVE FeedInv'
      BY <2>3, FeedUnchanged DEF EndLoop
    <2>4. ASSUME NEW c \in Callers, Serve(c) PROVE FeedInv'
      BY <2>4, ServeStep
    <2>5. ASSUME NEW c \in Callers, Receive(c) PROVE FeedInv'
      BY <2>5, ReceiveStep
    <2>6. ASSUME NEW c \in Callers, Fail(c) PROVE FeedInv'
      BY <2>6, FailStep
    <2>7. ASSUME UNCHANGED vars PROVE FeedInv'
      BY <2>7, FeedUnchanged DEF vars
    <2> QED BY <2>1, <2>2, <2>3, <2>4, <2>5, <2>6, <2>7 DEF Next
  <1> QED BY <1>1, <1>2, PTL DEF Spec

\* No change is missed, whatever fails and however calls overlap: the last change
\* of each item since the start was handed over or is still to be asked for.
THEOREM NoChangeMissed == Spec => []NothingMissed
  <1>1. FeedInv => NothingMissed
    <2> SUFFICES ASSUME FeedInv, NEW i \in DOMAIN log, i > start, Latest(i)
                 PROVE  Ahead(i) \/ i \in delivered
      BY DEF NothingMissed
    <2>1. nextIfNoneMatch \in Places /\ i \in Nat
      BY DEF FeedInv, FeedTypes
    <2>2. CASE nextIfNoneMatch \in Nat
      <3>1. i <= nextIfNoneMatch => i \in delivered
        BY <2>2 DEF FeedInv, MissedInv, NothingSkipped
      <3>2. i > nextIfNoneMatch => Ahead(i)
        BY <2>2 DEF Ahead, All, None
      <3> QED BY <2>1, <2>2, <3>1, <3>2
    <2>3. CASE nextIfNoneMatch = All
      BY <2>3 DEF Ahead, All, None
    <2>4. CASE nextIfNoneMatch = None
      BY <2>4 DEF Ahead, All, None
    <2> QED BY <2>1, <2>2, <2>3, <2>4 DEF Places
  <1> QED BY <1>1, FeedInvariant, PTL

\* Calls that do not overlap hand the changes over in order, each once, wherever
\* pages are cut and whichever calls fail.
THEOREM ChangesStayInOrder == Spec => []ChangesInOrder
  <1>1. FeedInv => ChangesInOrder
    <2> SUFFICES ASSUME FeedInv, ~overlapped, NEW c \in Callers,
                        NEW i \in ToSet(answer[c].page), NEW j \in delivered
                 PROVE  j < i
      BY DEF ChangesInOrder
    <2>1. pc[c] = "served"
      <3> SUFFICES ASSUME pc[c] # "served" PROVE FALSE
        OBVIOUS
      <3>1. answer[c].page = <<>>
        BY DEF FeedInv, MissedInv, CallSkipsNothing, NoAnswer
      <3> QED BY <3>1 DEF ToSet
    <2> QED BY <2>1 DEF FeedInv, AloneInv, CallIsAlone
  <1> QED BY <1>1, FeedInvariant, PTL
=============================================================================

------------------------- MODULE QueryPipelineProofs -------------------------
(***************************************************************************)
(* For any rows, plans and pages and any way to walk them: the rows the    *)
(* caller is given are a beginning of the answer the query means, all of   *)
(* it when hasMoreResults turns false, and no charge is lost or told       *)
(* twice.                                                                  *)
(***************************************************************************)
EXTENDS QueryPipeline, FiniteSetTheorems, WellFoundedInduction, TLAPS

-----------------------------------------------------------------------------
(* Induction, for a set in place of a predicate *)

LEMMA LeastNumber ==
    ASSUME NEW T \in SUBSET Nat, T # {}
    PROVE  \E n \in T : \A m \in T : n <= m
  <1>1. PICK n \in T : \A m \in T : ~(<<m, n>> \in OpToRel(<, Nat))
    BY NatLessThanWellFounded, WFMin
  <1>2. \A m \in T : ~(m < n)
    BY <1>1 DEF OpToRel
  <1> QED BY <1>2

LEMMA Induction ==
    ASSUME NEW n \in Nat, NEW Good,
           0 \in Good, \A i \in 0..(n - 1) : i \in Good => i + 1 \in Good
    PROVE  \A i \in 0..n : i \in Good
  <1> DEFINE Bad == (0..n) \ Good
  <1>1. Bad \in SUBSET Nat
    OBVIOUS
  <1>2. ASSUME Bad # {} PROVE FALSE
    <2>1. PICK k \in Bad : \A m \in Bad : k <= m
      <3> HIDE DEF Bad
      <3> QED BY <1>1, <1>2, LeastNumber
    <2>2. k \in 1..n /\ k - 1 \in 0..(n - 1)
      OBVIOUS
    <2>3. k - 1 \notin Bad
      <3> HIDE DEF Bad
      <3> QED BY <2>1, <2>2
    <2>4. k - 1 \in Good
      BY <2>2, <2>3
    <2>5. (k - 1) + 1 \in Good
      BY <2>2, <2>4
    <2> QED BY <2>2, <2>5
  <1> QED BY <1>2
\* Functions that take the same steps from the same start are the same.
InStep(n, g, h) ==
    g[0] = h[0] /\ \A i \in 1..n : g[i - 1] = h[i - 1] => g[i] = h[i]

LEMMA SameSteps ==
    ASSUME NEW n \in Nat, NEW g, NEW h, InStep(n, g, h)
    PROVE  \A i \in 0..n : g[i] = h[i]
  <1> DEFINE Good == {i \in 0..n : g[i] = h[i]}
  <1>1. 0 \in Good
    BY DEF InStep
  <1>2. ASSUME NEW i \in 0..(n - 1), i \in Good PROVE i + 1 \in Good
    <2>1. i + 1 \in 1..n /\ i + 1 \in 0..n /\ (i + 1) - 1 = i
      OBVIOUS
    <2>2. g[(i + 1) - 1] = h[(i + 1) - 1]
      BY <1>2, <2>1
    <2>3. g[i + 1] = h[i + 1]
      BY <2>1, <2>2 DEF InStep
    <2> QED BY <2>1, <2>3
  <1> HIDE DEF Good
  <1>3. \A i \in 0..n : i \in Good
    BY <1>1, <1>2, Induction
  <1> QED BY <1>3 DEF Good

\* There is a function that starts with base and takes n steps in T.
Walks(g, n, T, base, step) ==
    /\ g \in [0..n -> T]
    /\ g[0] = base
    /\ \A i \in 1..n : g[i] = step[i][g[i - 1]]

LEMMA Recursion ==
    ASSUME NEW n \in Nat, NEW T, NEW base \in T, NEW step \in [1..n -> [T -> T]]
    PROVE  \E g : Walks(g, n, T, base, step)
  <1> DEFINE Good == {k \in 0..n : \E g : Walks(g, k, T, base, step)}
  <1>1. 0 \in Good
    <2> DEFINE g == [i \in 0..0 |-> base]
    <2>1. Walks(g, 0, T, base, step)
      BY DEF Walks
    <2> HIDE DEF g
    <2> QED BY <2>1
  <1>2. ASSUME NEW j \in 0..(n - 1), j \in Good PROVE j + 1 \in Good
    <2>1. PICK f : Walks(f, j, T, base, step)
      BY <1>2
    <2> DEFINE k == j + 1
               last == step[k][f[j]]
               g == [i \in 0..k |-> IF i < k THEN f[i] ELSE last]
    <2>2. j \in Nat /\ k \in 1..n /\ k - 1 = j /\ k \in 0..n
      OBVIOUS
    <2>3. /\ f \in [0..j -> T] /\ f[0] = base
          /\ \A i \in 1..j : f[i] = step[i][f[i - 1]]
      BY <2>1 DEF Walks
    <2>4. f[j] \in T /\ last \in T
      BY <2>2, <2>3
    <2> HIDE DEF last
    <2>5. g \in [0..k -> T] /\ g[0] = base
      BY <2>2, <2>3, <2>4
    <2>6. ASSUME NEW i \in 1..k PROVE g[i] = step[i][g[i - 1]]
      <3>1. CASE i < k
        <4>1. i \in 1..j /\ i \in 0..k /\ i - 1 \in 0..k /\ i - 1 < k
          BY <2>2, <3>1
        <4>2. g[i] = f[i] /\ g[i - 1] = f[i - 1]
          BY <3>1, <4>1
        <4> QED BY <2>3, <4>1, <4>2
      <3>2. CASE i = k
        <4>1. k \in 0..k /\ j \in 0..k /\ j < k
          BY <2>2
        <4>2. g[k] = last /\ g[j] = f[j]
          BY <4>1
        <4> HIDE DEF g
        <4> QED BY <2>2, <3>2, <4>2 DEF last
      <3> QED BY <2>2, <3>1, <3>2
    <2> HIDE DEF g
    <2>7. Walks(g, k, T, base, step)
      BY <2>5, <2>6 DEF Walks
    <2> QED BY <2>2, <2>7
  <1> HIDE DEF Good
  <1>3. \A i \in 0..n : i \in Good
    BY <1>1, <1>2, Induction
  <1> QED BY <1>3 DEF Good

-----------------------------------------------------------------------------
(* Sequences *)

LEMMA SameSeq ==
    ASSUME NEW S, NEW s \in Seq(S), NEW t \in Seq(S), Len(s) = Len(t),
           \A i \in 1..Len(s) : s[i] = t[i]
    PROVE  s = t
  OBVIOUS

LEMMA PartIs ==
    ASSUME NEW S, NEW s \in Seq(S), NEW m \in Nat, NEW n \in Nat,
           n <= Len(s)
    PROVE  /\ SubSeq(s, m + 1, n) \in Seq(S)
           /\ Len(SubSeq(s, m + 1, n)) = IF m < n THEN n - m ELSE 0
           /\ \A i \in 1..Len(SubSeq(s, m + 1, n)) : SubSeq(s, m + 1, n)[i] = s[m + i]
  <1> DEFINE a == m + 1
             t == SubSeq(s, a, n)
  <1>1. a \in Nat /\ a >= 1 /\ Len(s) \in Nat
    OBVIOUS
  <1> HIDE DEF a
  <1>2. CASE a <= n
    <2>1. Len(t) = n - a + 1 /\ t \in Seq(S)
      BY <1>1, <1>2
    <2>2. \A i \in 1..(n - a + 1) : t[i] = s[a + i - 1]
      BY <1>1, <1>2
    <2> HIDE DEF t
    <2>3. \A i \in 1..Len(t) : t[i] = s[m + i]
      <3> TAKE i \in 1..Len(t)
      <3>1. i \in 1..(n - a + 1) /\ a + i - 1 = m + i
        BY <2>1 DEF a
      <3> QED BY <2>2, <3>1
    <2>4. Len(t) = IF m < n THEN n - m ELSE 0
      BY <1>2, <2>1 DEF a
    <2> QED BY <2>1, <2>3, <2>4 DEF t, a
  <1>3. CASE n < a
    <2>1. t = <<>>
      BY <1>1, <1>3
    <2>2. Len(t) = 0 /\ t \in Seq(S)
      BY <2>1
    <2>3. ~(m < n)
      BY <1>3 DEF a
    <2> HIDE DEF t
    <2> QED BY <2>2, <2>3 DEF t, a
  <1> QED BY <1>1, <1>2, <1>3

LEMMA PrefixIs ==
    ASSUME NEW S, NEW s \in Seq(S), NEW t \in Seq(S)
    PROVE  IsPrefix(s, t) <=>
                Len(s) <= Len(t) /\ \A i \in 1..Len(s) : s[i] = t[i]
  BY DEF IsPrefix

-----------------------------------------------------------------------------
(* What TOP, OFFSET and LIMIT let through *)

Numeric == Nat \union {NoLimit}

End(p, n) ==
    LET m == IF p.top # NoLimit /\ p.top < n THEN p.top ELSE n
    IN  IF p.limit # NoLimit /\ p.offset + p.limit < m THEN p.offset + p.limit ELSE m

Window(p, s) == SubSeq(s, p.offset + 1, End(p, Len(s)))

\* Is the item after n others let through?
Lets(p, n) ==
    /\ p.top = NoLimit \/ n < p.top
    /\ p.offset <= n
    /\ p.limit = NoLimit \/ n < p.offset + p.limit

LEMMA PlanTyped ==
    ASSUME NEW p \in Plans
    PROVE  p.top \in Numeric /\ p.offset \in Nat /\ p.limit \in Numeric
  BY PlanAssumption DEF Numeric

LEMMA EndIs ==
    ASSUME NEW p \in Plans, NEW n \in Nat
    PROVE  /\ End(p, n) \in 0..n
           /\ Lets(p, n) => End(p, n) = n /\ End(p, n + 1) = n + 1 /\ p.offset <= n
           /\ ~Lets(p, n) => End(p, n + 1) = End(p, n) \/ n + 1 <= p.offset
           /\ \A k \in Nat : n <= k => End(p, n) <= End(p, k)
           /\ \A k \in Nat :
                    /\ n <= k
                    /\ \/ p.top # NoLimit /\ p.top <= n
                       \/ p.limit # NoLimit /\ p.offset + p.limit <= n
                    => End(p, n) = End(p, k)
  BY PlanTyped DEF End, Lets, Numeric, NoLimit

\* The elements of the window.
LEMMA WindowIs ==
    ASSUME NEW p \in Plans, NEW S, NEW s \in Seq(S)
    PROVE  /\ Window(p, s) \in Seq(S)
           /\ Len(Window(p, s)) =
                IF p.offset < End(p, Len(s)) THEN End(p, Len(s)) - p.offset ELSE 0
           /\ \A i \in 1..Len(Window(p, s)) : Window(p, s)[i] = s[p.offset + i]
  <1> DEFINE o == p.offset
             e == End(p, Len(s))
  <1>1. o \in Nat /\ e \in Nat /\ e <= Len(s)
    BY PlanTyped, EndIs
  <1>2. Window(p, s) = SubSeq(s, o + 1, e)
    BY DEF Window
  <1> HIDE DEF o, e
  <1>3. /\ Window(p, s) \in Seq(S)
        /\ Len(Window(p, s)) = IF o < e THEN e - o ELSE 0
        /\ \A i \in 1..Len(Window(p, s)) : Window(p, s)[i] = s[o + i]
    BY <1>1, <1>2, PartIs
  <1> QED BY <1>3 DEF o, e

LEMMA WindowGrows ==
    ASSUME NEW p \in Plans, NEW S, NEW s \in Seq(S), NEW v \in S
    PROVE  Window(p, Append(s, v)) =
                IF Lets(p, Len(s)) THEN Append(Window(p, s), v) ELSE Window(p, s)
  <1> DEFINE t == Append(s, v)
             n == Len(s)
             o == p.offset
             e == End(p, n)
             f == End(p, n + 1)
             w == Window(p, s)
             x == Window(p, t)
  <1>1. t \in Seq(S) /\ n \in Nat /\ o \in Nat /\ n + 1 \in Nat
        /\ Len(t) = n + 1 /\ t[n + 1] = v /\ \A i \in 1..n : t[i] = s[i]
    BY PlanTyped
  <1>2. e \in 0..n /\ f \in 0..(n + 1)
    BY <1>1, EndIs
  <1>3. /\ w \in Seq(S) /\ Len(w) = IF o < e THEN e - o ELSE 0
        /\ \A i \in 1..Len(w) : w[i] = s[o + i]
    BY WindowIs
  <1>4. /\ x \in Seq(S) /\ Len(x) = IF o < f THEN f - o ELSE 0
        /\ \A i \in 1..Len(x) : x[i] = t[o + i]
    <2> HIDE DEF t, n
    <2>1. /\ x \in Seq(S)
          /\ Len(x) = IF p.offset < End(p, Len(t)) THEN End(p, Len(t)) - p.offset ELSE 0
          /\ \A i \in 1..Len(x) : x[i] = t[p.offset + i]
      BY <1>1, WindowIs
    <2> QED BY <1>1, <2>1
  <1>5. CASE Lets(p, n)
    <2>1. e = n /\ f = n + 1 /\ o <= n
      BY <1>1, <1>5, EndIs
    <2> HIDE DEF t, n, o, e, f, w, x
    <2>2. Len(w) = n - o /\ Len(x) = n - o + 1 /\ Len(w) \in Nat
      BY <1>1, <1>3, <1>4, <2>1
    <2>3. /\ Append(w, v) \in Seq(S) /\ Len(Append(w, v)) = Len(w) + 1
          /\ Append(w, v)[Len(w) + 1] = v
          /\ \A i \in 1..Len(w) : Append(w, v)[i] = w[i]
      BY <1>3
    <2>4. ASSUME NEW i \in 1..Len(x) PROVE x[i] = Append(w, v)[i]
      <3>1. x[i] = t[o + i]
        BY <1>4
      <3>2. CASE i <= Len(w)
        <4>1. i \in 1..Len(w) /\ o + i \in 1..n
          BY <1>1, <2>1, <2>2, <3>2
        <4> QED BY <1>1, <1>3, <2>3, <3>1, <4>1
      <3>3. CASE i = Len(w) + 1
        <4>1. o + i = n + 1
          BY <1>1, <2>1, <2>2, <3>3
        <4> QED BY <1>1, <2>3, <3>1, <3>3, <4>1
      <3> QED BY <2>2, <3>2, <3>3
    <2>5. Len(x) = Len(Append(w, v))
      BY <2>2, <2>3
    <2>6. x = Append(w, v)
      BY <1>4, <2>3, <2>4, <2>5, SameSeq
    <2> QED BY <1>5, <2>6 DEF t, n, x, w
  <1>6. CASE ~Lets(p, n)
    <2>1. f = e \/ n + 1 <= o
      BY <1>1, <1>6, EndIs
    <2> HIDE DEF t, n, o, e, f, w, x
    <2>2. Len(x) = Len(w)
      BY <1>1, <1>2, <1>3, <1>4, <2>1
    <2>3. ASSUME NEW i \in 1..Len(x) PROVE x[i] = w[i]
      <3>1. o + i \in 1..n /\ i \in 1..Len(w)
        BY <1>1, <1>2, <1>3, <2>2
      <3> QED BY <1>1, <1>3, <1>4, <3>1
    <2>4. x = w
      BY <1>3, <1>4, <2>2, <2>3, SameSeq
    <2> QED BY <1>6, <2>4 DEF t, n, x, w
  <1> QED BY <1>5, <1>6

\* What is let through of a beginning is a beginning of what is let through, and
\* all of it once a limit is reached.
LEMMA WindowPrefix ==
    ASSUME NEW p \in Plans, NEW S, NEW s \in Seq(S), NEW t \in Seq(S), IsPrefix(s, t)
    PROVE  /\ IsPrefix(Window(p, s), Window(p, t))
           /\ \/ p.top # NoLimit /\ p.top <= Len(s)
              \/ p.limit # NoLimit /\ p.offset + p.limit <= Len(s)
              => Window(p, s) = Window(p, t)
  <1> DEFINE m == Len(s)
             n == Len(t)
             o == p.offset
             e == End(p, m)
             f == End(p, n)
             w == Window(p, s)
             x == Window(p, t)
  <1>1. m \in Nat /\ n \in Nat /\ o \in Nat /\ m <= n /\ \A i \in 1..m : s[i] = t[i]
    BY PlanTyped, PrefixIs
  <1>2. e \in 0..m /\ f \in 0..n /\ e <= f
    <2> HIDE DEF m, n
    <2> QED BY <1>1, EndIs
  <1>3. /\ w \in Seq(S) /\ Len(w) = IF o < e THEN e - o ELSE 0
        /\ \A i \in 1..Len(w) : w[i] = s[o + i]
    BY WindowIs
  <1>4. /\ x \in Seq(S) /\ Len(x) = IF o < f THEN f - o ELSE 0
        /\ \A i \in 1..Len(x) : x[i] = t[o + i]
    BY WindowIs
  <1>5. ASSUME \/ p.top # NoLimit /\ p.top <= m
               \/ p.limit # NoLimit /\ p.offset + p.limit <= m
        PROVE  e = f
    <2> HIDE DEF m, n
    <2> QED BY <1>1, <1>5, EndIs
  <1> HIDE DEF m, n, o, e, f, w, x
  <1>6. Len(w) <= Len(x) /\ Len(w) \in Nat
    BY <1>1, <1>2, <1>3, <1>4
  <1>7. ASSUME NEW i \in 1..Len(w) PROVE w[i] = x[i]
    <2>1. o + i \in 1..m /\ i \in 1..Len(x)
      BY <1>1, <1>2, <1>3, <1>4, <1>6
    <2> QED BY <1>1, <1>3, <1>4, <2>1
  <1>8. IsPrefix(w, x)
    BY <1>3, <1>4, <1>6, <1>7, PrefixIs
  <1>9. ASSUME e = f PROVE w = x
    <2>1. Len(w) = Len(x)
      BY <1>3, <1>4, <1>9
    <2> QED BY <1>3, <1>4, <1>7, <2>1, SameSeq
  <1> QED BY <1>5, <1>8, <1>9 DEF w, x, m

LEMMA FirstIs ==
    ASSUME NEW S, NEW s \in Seq(S), NEW n \in Numeric
    PROVE  /\ FirstOf(n, s) \in Seq(S)
           /\ Len(FirstOf(n, s)) = IF n # NoLimit /\ n < Len(s) THEN n ELSE Len(s)
           /\ \A i \in 1..Len(FirstOf(n, s)) : FirstOf(n, s)[i] = s[i]
  <1>1. CASE n = NoLimit
    BY <1>1 DEF FirstOf
  <1>2. CASE n # NoLimit
    <2> DEFINE m == Len(s)
               k == IF n < m THEN n ELSE m
    <2>1. n \in Nat /\ m \in Nat
      BY <1>2 DEF Numeric
    <2>2. Min({n, m}) = k
      <3> HIDE DEF m
      <3>1. k \in {n, m} /\ \A y \in {n, m} : k <= y
        BY <2>1
      <3>2. \A x \in {n, m} : (\A y \in {n, m} : x <= y) => x = k
        BY <2>1
      <3> HIDE DEF k
      <3> QED BY <3>1, <3>2 DEF Min
    <2>3. FirstOf(n, s) = SubSeq(s, 0 + 1, k)
      <3>1. FirstOf(n, s) = SubSeq(s, 1, Min({n, m}))
        BY <1>2, Zenon DEF FirstOf
      <3>2. 0 + 1 = 1
        OBVIOUS
      <3> HIDE DEF k, m
      <3> QED BY <2>2, <3>1, <3>2, Zenon
    <2>4. k \in Nat /\ k <= Len(s) /\ k = IF n < Len(s) THEN n ELSE Len(s)
      BY <2>1
    <2> HIDE DEF k, m
    <2>5. /\ FirstOf(n, s) \in Seq(S)
          /\ Len(FirstOf(n, s)) = IF 0 < k THEN k - 0 ELSE 0
          /\ \A i \in 1..Len(FirstOf(n, s)) : FirstOf(n, s)[i] = s[0 + i]
      BY <2>3, <2>4, PartIs
    <2> QED BY <1>2, <2>4, <2>5
  <1> QED BY <1>1, <1>2

LEMMA LimitedIs ==
    ASSUME plan \in Plans, NEW S, NEW s \in Seq(S)
    PROVE  Limited(s) = Window(plan, s)
  <1> DEFINE n == Len(s)
             o == plan.offset
             t == plan.top
             l == plan.limit
             a == FirstOf(t, s)
             m == Len(a)
             b == SubSeq(a, o + 1, m)
             c == FirstOf(l, b)
             w == Window(plan, s)
             e == End(plan, n)
  <1>1. n \in Nat /\ o \in Nat /\ t \in Numeric /\ l \in Numeric
    BY PlanTyped
  <1>2. e = LET k == IF t # NoLimit /\ t < n THEN t ELSE n
            IN  IF l # NoLimit /\ o + l < k THEN o + l ELSE k
    BY DEF End
  <1>3. /\ w \in Seq(S) /\ Len(w) = IF o < e THEN e - o ELSE 0
        /\ \A i \in 1..Len(w) : w[i] = s[o + i]
    BY WindowIs
  <1>4. Limited(s) = c
    BY DEF Limited
  <1> HIDE DEF e, w, n, o, t, l
  <1>5. a \in Seq(S) /\ m = (IF t # NoLimit /\ t < n THEN t ELSE n)
        /\ \A i \in 1..m : a[i] = s[i]
    BY <1>1, FirstIs DEF n
  <1> HIDE DEF a
  <1>6. m \in Nat
    BY <1>5
  <1> HIDE DEF m
  <1>7. b \in Seq(S) /\ Len(b) = (IF o < m THEN m - o ELSE 0)
        /\ \A i \in 1..Len(b) : b[i] = a[o + i]
    BY <1>1, <1>5, <1>6, PartIs DEF m
  <1> HIDE DEF b
  <1>8. c \in Seq(S) /\ Len(c) = (IF l # NoLimit /\ l < Len(b) THEN l ELSE Len(b))
        /\ \A i \in 1..Len(c) : c[i] = b[i]
    BY <1>1, <1>7, FirstIs
  <1> HIDE DEF c
  <1>9. Len(c) = Len(w)
    BY <1>1, <1>2, <1>3, <1>5, <1>6, <1>7, <1>8 DEF Numeric, NoLimit
  <1>10. Len(c) <= Len(b) /\ Len(b) \in Nat /\ Len(c) \in Nat
    BY <1>1, <1>7, <1>8 DEF Numeric
  <1>11. ASSUME NEW i \in 1..Len(c) PROVE c[i] = w[i]
    <2>1. i \in 1..Len(b) /\ o + i \in 1..m /\ i \in 1..Len(w)
      BY <1>1, <1>6, <1>7, <1>9, <1>10
    <2> QED BY <1>3, <1>5, <1>7, <1>8, <2>1
  <1>12. c = w
    BY <1>3, <1>8, <1>9, <1>11, SameSeq
  <1> QED BY <1>4, <1>12 DEF w

-----------------------------------------------------------------------------
(* What DISTINCT means *)

\* once[i] is what is left of the first i of the items.
Dedups(once, items, S) ==
    /\ once \in [0..Len(items) -> Seq(S)]
    /\ once[0] = <<>>
    /\ \A i \in 1..Len(items) :
            once[i] = IF Repeats(items, i) THEN once[i - 1]
                                           ELSE Append(once[i - 1], items[i])
    /\ Once(items) = once[Len(items)]

LEMMA OnceIs ==
    ASSUME NEW S, NEW s \in Seq(S)
    PROVE  \E once : Dedups(once, s, S)
  <1> DEFINE n == Len(s)
             step == [i \in 1..n |-> [v \in Seq(S) |->
                        IF Repeats(s, i) THEN v ELSE Append(v, s[i])]]
             h == CHOOSE once : once =
                    [i \in 0..Len(s) |->
                        IF i = 0 THEN <<>>
                        ELSE IF Repeats(s, i) THEN once[i - 1]
                                              ELSE Append(once[i - 1], s[i])]
  <1>1. n \in Nat /\ \A i \in 1..n : s[i] \in S
    OBVIOUS
  <1>2. Once(s) = h[Len(s)]
    BY Zenon DEF Once
  <1>3. <<>> \in Seq(S)
    OBVIOUS
  <1>4. step \in [1..n -> [Seq(S) -> Seq(S)]]
    <2> SUFFICES ASSUME NEW i \in 1..n, NEW v \in Seq(S)
                 PROVE  (IF Repeats(s, i) THEN v ELSE Append(v, s[i])) \in Seq(S)
      BY Zenon
    <2> HIDE DEF n
    <2> QED BY <1>1
  <1>5. PICK g : Walks(g, n, Seq(S), <<>>, step)
    <2> HIDE DEF step, n
    <2> QED BY <1>1, <1>3, <1>4, Recursion
  <1>6. g \in [0..n -> Seq(S)] /\ g[0] = <<>>
    BY <1>5 DEF Walks
  <1>7. ASSUME NEW i \in 1..n
        PROVE  g[i] = IF Repeats(s, i) THEN g[i - 1] ELSE Append(g[i - 1], s[i])
    <2>1. i - 1 \in 0..n
      BY <1>1
    <2>2. g[i] = step[i][g[i - 1]] /\ g[i - 1] \in Seq(S)
      BY <1>5, <2>1 DEF Walks
    <2> HIDE DEF n
    <2> QED BY <2>2, Zenon
  <1>8. g = [i \in 0..n |-> IF i = 0 THEN <<>>
                            ELSE IF Repeats(s, i) THEN g[i - 1]
                                                  ELSE Append(g[i - 1], s[i])]
    <2>1. \A i \in 0..n : i = 0 \/ i \in 1..n
      BY <1>1
    <2> HIDE DEF n, step
    <2> QED BY <1>6, <1>7, <2>1
  <1>9. h = [i \in 0..Len(s) |-> IF i = 0 THEN <<>>
                            ELSE IF Repeats(s, i) THEN h[i - 1]
                                                  ELSE Append(h[i - 1], s[i])]
    <2> HIDE DEF h, step
    <2> QED BY <1>8, Zenon DEF h
  <1>10. h[0] = <<>>
    <2> HIDE DEF h
    <2>1. 0 \in 0..Len(s)
      BY <1>1
    <2> QED BY <1>9, <2>1, Zenon
  <1>11. ASSUME NEW i \in 1..n
         PROVE  h[i] = IF Repeats(s, i) THEN h[i - 1] ELSE Append(h[i - 1], s[i])
    <2> HIDE DEF h
    <2>1. i \in 0..Len(s) /\ i # 0
      BY <1>1
    <2> QED BY <1>9, <2>1, Zenon
  <1>12. \A i \in 0..n : h[i] = g[i]
    <2> HIDE DEF h, step
    <2>1. \A i \in 1..n : h[i - 1] = g[i - 1] => h[i] = g[i]
      BY <1>7, <1>11
    <2>2. InStep(n, h, g)
      BY <1>6, <1>10, <2>1 DEF InStep
    <2> HIDE DEF n
    <2> QED BY <1>1, <2>2, SameSteps, Zenon
  <1>13. Once(s) = g[n]
    <2> HIDE DEF h
    <2>1. n \in 0..n
      BY <1>1
    <2> QED BY <1>2, <1>12, <2>1
  <1> HIDE DEF step
  <1>14. Dedups(g, s, S)
    BY <1>6, <1>7, <1>13 DEF Dedups
  <1> QED BY <1>14

\* Has v been met among the items, so that it is dropped?
Repeated(v, items) == v \notin Falsy /\ \E j \in DOMAIN items : items[j] = v

LEMMA OnceAppend ==
    ASSUME NEW S, NEW s \in Seq(S), NEW v \in S
    PROVE  Once(Append(s, v)) = IF Repeated(v, s) THEN Once(s) ELSE Append(Once(s), v)
  <1> DEFINE t == Append(s, v)
             n == Len(s)
  <1>1. /\ t \in Seq(S) /\ n \in Nat /\ Len(t) = n + 1 /\ t[n + 1] = v
        /\ \A i \in 1..n : t[i] = s[i]
        /\ DOMAIN s = 1..n
    OBVIOUS
  <1> HIDE DEF t
  <1>2. PICK g : Dedups(g, s, S)
    BY OnceIs
  <1>3. PICK h : Dedups(h, t, S)
    BY <1>1, OnceIs
  <1>4. /\ g \in [0..n -> Seq(S)] /\ g[0] = <<>> /\ Once(s) = g[n]
        /\ \A i \in 1..n :
                g[i] = IF Repeats(s, i) THEN g[i - 1] ELSE Append(g[i - 1], s[i])
    BY <1>2 DEF Dedups
  <1>5. /\ h \in [0..Len(t) -> Seq(S)] /\ h[0] = <<>> /\ Once(t) = h[Len(t)]
        /\ \A i \in 1..Len(t) :
                h[i] = IF Repeats(t, i) THEN h[i - 1] ELSE Append(h[i - 1], t[i])
    BY <1>3 DEF Dedups
  <1> HIDE DEF n
  <1>6. \A i \in 1..n : h[i - 1] = g[i - 1] => h[i] = g[i]
    <2> SUFFICES ASSUME NEW i \in 1..n, h[i - 1] = g[i - 1]
                 PROVE  h[i] = g[i]
      OBVIOUS
    <2>1. i \in 1..Len(t) /\ t[i] = s[i]
      BY <1>1
    <2>2. \A j \in 1..(i - 1) : t[j] = s[j]
      BY <1>1
    <2>3. Repeats(t, i) <=> Repeats(s, i)
      BY <2>1, <2>2 DEF Repeats
    <2> QED BY <1>4, <1>5, <2>1, <2>3
  <1>7. h[n] = g[n]
    <2>1. n \in Nat /\ n \in 0..n
      BY <1>1
    <2>2. InStep(n, h, g)
      BY <1>4, <1>5, <1>6 DEF InStep
    <2>3. \A i \in 0..n : h[i] = g[i]
      BY <2>1, <2>2, SameSteps, Zenon
    <2> QED BY <2>1, <2>3
  <1>8. Repeats(t, n + 1) <=> Repeated(v, s)
    <2>1. (n + 1) - 1 = n
      BY <1>1
    <2>2. \A j \in 1..n : t[j] = v <=> s[j] = v
      BY <1>1
    <2> QED BY <1>1, <2>1, <2>2 DEF Repeats, Repeated
  <1>9. h[n + 1] = IF Repeats(t, n + 1) THEN h[n] ELSE Append(h[n], t[n + 1])
    <2>1. n + 1 \in 1..Len(t) /\ (n + 1) - 1 = n
      BY <1>1
    <2> QED BY <1>5, <2>1
  <1>10. Once(t) = h[n + 1]
    BY <1>1, <1>5
  <1> QED BY <1>1, <1>4, <1>7, <1>8, <1>9, <1>10 DEF t

LEMMA OncePrefix ==
    ASSUME NEW S, NEW s \in Seq(S), NEW t \in Seq(S), IsPrefix(s, t)
    PROVE  /\ IsPrefix(Once(s), Once(t))
           /\ Once(s) \in Seq(S) /\ Once(t) \in Seq(S)
  <1> DEFINE m == Len(s)
             n == Len(t)
  <1>1. m \in Nat /\ n \in Nat /\ m <= n /\ \A i \in 1..m : s[i] = t[i]
    BY PrefixIs
  <1>2. PICK g : Dedups(g, s, S)
    BY OnceIs
  <1>3. PICK h : Dedups(h, t, S)
    BY OnceIs
  <1>6. \A i \in 1..n : t[i] \in S
    OBVIOUS
  <1>4. /\ g \in [0..m -> Seq(S)] /\ g[0] = <<>> /\ Once(s) = g[m]
        /\ \A i \in 1..m :
                g[i] = IF Repeats(s, i) THEN g[i - 1] ELSE Append(g[i - 1], s[i])
    BY <1>2 DEF Dedups
  <1>5. /\ h \in [0..n -> Seq(S)] /\ h[0] = <<>> /\ Once(t) = h[n]
        /\ \A i \in 1..n :
                h[i] = IF Repeats(t, i) THEN h[i - 1] ELSE Append(h[i - 1], t[i])
    BY <1>3 DEF Dedups
  <1> HIDE DEF m, n
  <1>7. \A i \in 1..m : h[i - 1] = g[i - 1] => h[i] = g[i]
    <2> SUFFICES ASSUME NEW i \in 1..m, h[i - 1] = g[i - 1]
                 PROVE  h[i] = g[i]
      OBVIOUS
    <2>1. i \in 1..n /\ t[i] = s[i]
      BY <1>1
    <2>2. \A j \in 1..(i - 1) : t[j] = s[j]
      BY <1>1
    <2>3. Repeats(t, i) <=> Repeats(s, i)
      BY <2>1, <2>2 DEF Repeats
    <2> QED BY <1>4, <1>5, <2>1, <2>3
  <1>8. h[m] = g[m]
    <2>1. m \in Nat /\ m \in 0..m
      BY <1>1
    <2>2. InStep(m, h, g)
      BY <1>4, <1>5, <1>7 DEF InStep
    <2>3. \A i \in 0..m : h[i] = g[i]
      BY <2>1, <2>2, SameSteps, Zenon
    <2> QED BY <2>1, <2>3
  <1> DEFINE Good == {k \in 0..n : m <= k => IsPrefix(h[m], h[k])}
  <1>9. 0 \in Good
    <2>1. m <= 0 => m = 0
      BY <1>1
    <2>2. h[0] \in Seq(S) /\ IsPrefix(h[0], h[0])
      BY <1>1, <1>5, PrefixIs
    <2> QED BY <1>1, <2>1, <2>2
  <1>10. ASSUME NEW i \in 0..(n - 1), i \in Good PROVE i + 1 \in Good
    <2>1. i \in 0..n /\ i + 1 \in 0..n /\ i + 1 \in 1..n /\ (i + 1) - 1 = i
      BY <1>1
    <2>2. h[i] \in Seq(S) /\ h[i + 1] \in Seq(S) /\ h[m] \in Seq(S)
      BY <1>1, <1>5, <2>1
    <2>3. h[i + 1] = h[i] \/ h[i + 1] = Append(h[i], t[i + 1])
      BY <1>5, <2>1
    <2>4. IsPrefix(h[i], h[i + 1])
      <3>1. CASE h[i + 1] = h[i]
        BY <2>2, <3>1, PrefixIs
      <3>2. CASE h[i + 1] = Append(h[i], t[i + 1])
        <4>1. t[i + 1] \in S
          BY <1>6, <2>1
        <4>2. /\ Len(Append(h[i], t[i + 1])) = Len(h[i]) + 1 /\ Len(h[i]) \in Nat
              /\ \A j \in 1..Len(h[i]) : Append(h[i], t[i + 1])[j] = h[i][j]
          BY <2>2, <4>1
        <4> DEFINE a == h[i]
                   b == h[i + 1]
        <4>3. /\ a \in Seq(S) /\ b \in Seq(S) /\ Len(a) <= Len(b)
              /\ \A j \in 1..Len(a) : a[j] = b[j]
          BY <2>2, <3>2, <4>2
        <4> HIDE DEF a, b
        <4>4. IsPrefix(a, b)
          BY <4>3, PrefixIs
        <4> QED BY <4>4 DEF a, b
      <3> QED BY <2>3, <3>1, <3>2
    <2>5. CASE m <= i
      <3>1. IsPrefix(h[m], h[i])
        BY <1>10, <2>5
      <3>2. IsPrefix(h[m], h[i + 1])
        <4> DEFINE a == h[m]
                   b == h[i]
                   c == h[i + 1]
        <4>1. a \in Seq(S) /\ b \in Seq(S) /\ c \in Seq(S)
              /\ IsPrefix(a, b) /\ IsPrefix(b, c)
          BY <2>2, <2>4, <3>1
        <4> HIDE DEF a, b, c
        <4>2. /\ Len(a) <= Len(b) /\ Len(b) <= Len(c)
              /\ \A j \in 1..Len(a) : a[j] = b[j]
              /\ \A j \in 1..Len(b) : b[j] = c[j]
              /\ Len(a) \in Nat /\ Len(b) \in Nat /\ Len(c) \in Nat
          BY <4>1, PrefixIs
        <4>3. Len(a) <= Len(c) /\ \A j \in 1..Len(a) : a[j] = c[j]
          BY <4>2
        <4>4. IsPrefix(a, c)
          BY <4>1, <4>3, PrefixIs
        <4> QED BY <4>4 DEF a, c
      <3> QED BY <2>1, <3>2
    <2>6. CASE ~(m <= i)
      <3>1. m <= i + 1 => m = i + 1
        BY <1>1, <2>1, <2>6
      <3>2. IsPrefix(h[i + 1], h[i + 1])
        BY <2>2, PrefixIs
      <3> QED BY <2>1, <3>1, <3>2
    <2> QED BY <2>5, <2>6
  <1> HIDE DEF Good
  <1>11. n \in Good
    <2>1. \A i \in 0..n : i \in Good
      BY <1>1, <1>9, <1>10, Induction
    <2> QED BY <1>1, <2>1
  <1>12. m \in 0..m /\ n \in 0..n
    BY <1>1
  <1> QED BY <1>1, <1>4, <1>5, <1>8, <1>11, <1>12 DEF Good

LEMMA OnceOfNothing == Once(<<>>) = <<>>
  <1> DEFINE s == <<>>
             S == {}
  <1>1. s \in Seq(S) /\ Len(s) = 0
    OBVIOUS
  <1> HIDE DEF s, S
  <1>2. PICK once : Dedups(once, s, S)
    BY <1>1, OnceIs
  <1> QED BY <1>1, <1>2 DEF Dedups, s

-----------------------------------------------------------------------------
(* What the aggregators compute *)

\* The partial results there may be, and what they add up to.
Partials(op) ==
    CASE op \in {"Count", "Min"} -> Int
      [] op \in {"Sum", "Max"} -> Int \union {Undefined}
      [] op = "Average" -> [sum : Int, count : Int] \union {Undefined}

Totals(op) == IF op = "Count" THEN Int ELSE Partials(op) \union {Undefined}

LEMMA CombineTyped ==
    ASSUME NEW op \in Operators, NEW v \in Totals(op), NEW w \in Partials(op)
    PROVE  Begin(op) \in Totals(op) /\ Combine(op, v, w) \in Totals(op)
  <1>1. CASE op = "Count"
    BY <1>1 DEF Totals, Partials, Begin, Combine, Count
  <1>2. CASE op = "Sum"
    BY <1>2 DEF Totals, Partials, Begin, Combine, Add
  <1>3. CASE op = "Max"
    BY <1>3 DEF Totals, Partials, Begin, Combine, Maximum
  <1>4. CASE op = "Min"
    BY <1>4 DEF Totals, Partials, Begin, Combine, Minimum
  <1>5. CASE op = "Average"
    <2>1. Begin(op) = Undefined /\ Combine(op, v, w) = AddAverages(v, w)
      BY <1>5 DEF Begin, Combine
    <2>2. /\ Totals(op) = [sum : Int, count : Int] \union {Undefined}
          /\ Partials(op) = [sum : Int, count : Int] \union {Undefined}
      BY <1>5 DEF Totals, Partials
    <2> QED BY <2>1, <2>2 DEF AddAverages
  <1> QED BY <1>1, <1>2, <1>3, <1>4, <1>5 DEF Operators

\* value[i] is what the first i of the items come to.
Adds(value, op, items) ==
    /\ value \in [0..Len(items) -> Totals(op)]
    /\ value[0] = Begin(op)
    /\ \A i \in 1..Len(items) : value[i] = Combine(op, value[i - 1], items[i])
    /\ Aggregate(op, items) = value[Len(items)]

LEMMA AggregateIs ==
    ASSUME NEW op \in Operators, NEW s \in Seq(Partials(op))
    PROVE  \E value : Adds(value, op, s)
  <1> DEFINE n == Len(s)
             T == Totals(op)
             step == [i \in 1..n |-> [v \in T |-> Combine(op, v, s[i])]]
             h == CHOOSE value : value =
                    [i \in 0..Len(s) |->
                        IF i = 0 THEN Begin(op) ELSE Combine(op, value[i - 1], s[i])]
  <1>1. n \in Nat /\ \A i \in 1..n : s[i] \in Partials(op)
    OBVIOUS
  <1>2. Aggregate(op, s) = h[Len(s)]
    BY Zenon DEF Aggregate
  <1>3. Begin(op) \in T
    BY DEF Begin, Totals, Partials, Operators
  <1>4. step \in [1..n -> [T -> T]]
    <2> SUFFICES ASSUME NEW i \in 1..n, NEW v \in T
                 PROVE  Combine(op, v, s[i]) \in T
      BY Zenon
    <2> HIDE DEF n
    <2> QED BY <1>1, CombineTyped
  <1>5. PICK g : Walks(g, n, T, Begin(op), step)
    <2> HIDE DEF step, n, T
    <2> QED BY <1>1, <1>3, <1>4, Recursion
  <1>6. g \in [0..n -> T] /\ g[0] = Begin(op)
    BY <1>5 DEF Walks
  <1>7. ASSUME NEW i \in 1..n PROVE g[i] = Combine(op, g[i - 1], s[i])
    <2>1. i - 1 \in 0..n
      BY <1>1
    <2>2. g[i] = step[i][g[i - 1]] /\ g[i - 1] \in T
      BY <1>5, <2>1 DEF Walks
    <2> HIDE DEF n, T
    <2> QED BY <2>2, Zenon
  <1>8. g = [i \in 0..n |-> IF i = 0 THEN Begin(op) ELSE Combine(op, g[i - 1], s[i])]
    <2>1. \A i \in 0..n : i = 0 \/ i \in 1..n
      BY <1>1
    <2> HIDE DEF n, step, T
    <2> QED BY <1>6, <1>7, <2>1
  <1>9. h = [i \in 0..Len(s) |-> IF i = 0 THEN Begin(op)
                                 ELSE Combine(op, h[i - 1], s[i])]
    <2> HIDE DEF h, step, T
    <2> QED BY <1>8, Zenon DEF h
  <1>10. h[0] = Begin(op)
    <2> HIDE DEF h
    <2>1. 0 \in 0..Len(s)
      BY <1>1
    <2> QED BY <1>9, <2>1, Zenon
  <1>11. ASSUME NEW i \in 1..n PROVE h[i] = Combine(op, h[i - 1], s[i])
    <2> HIDE DEF h
    <2>1. i \in 0..Len(s) /\ i # 0
      BY <1>1
    <2> QED BY <1>9, <2>1, Zenon
  <1>12. \A i \in 0..n : h[i] = g[i]
    <2> HIDE DEF h, step, T
    <2>1. \A i \in 1..n : h[i - 1] = g[i - 1] => h[i] = g[i]
      BY <1>7, <1>11
    <2>2. InStep(n, h, g)
      BY <1>6, <1>10, <2>1 DEF InStep
    <2> HIDE DEF n
    <2> QED BY <1>1, <2>2, SameSteps, Zenon
  <1>13. Aggregate(op, s) = g[n]
    <2> HIDE DEF h
    <2>1. n \in 0..n
      BY <1>1
    <2> QED BY <1>2, <1>12, <2>1
  <1> HIDE DEF step
  <1>14. Adds(g, op, s)
    BY <1>6, <1>7, <1>13 DEF Adds
  <1> QED BY <1>14

LEMMA AggregateAppend ==
    ASSUME NEW op \in Operators, NEW s \in Seq(Partials(op)), NEW w \in Partials(op)
    PROVE  Aggregate(op, Append(s, w)) = Combine(op, Aggregate(op, s), w)
  <1> DEFINE t == Append(s, w)
             n == Len(s)
  <1>1. /\ t \in Seq(Partials(op)) /\ n \in Nat /\ Len(t) = n + 1 /\ t[n + 1] = w
        /\ \A i \in 1..n : t[i] = s[i]
    OBVIOUS
  <1> HIDE DEF t
  <1>2. PICK g : Adds(g, op, s)
    BY AggregateIs
  <1>3. PICK h : Adds(h, op, t)
    BY <1>1, AggregateIs
  <1>4. /\ g[0] = Begin(op) /\ Aggregate(op, s) = g[n]
        /\ \A i \in 1..n : g[i] = Combine(op, g[i - 1], s[i])
    BY <1>2 DEF Adds
  <1>5. /\ h[0] = Begin(op) /\ Aggregate(op, t) = h[n + 1]
        /\ \A i \in 1..(n + 1) : h[i] = Combine(op, h[i - 1], t[i])
    BY <1>1, <1>3 DEF Adds
  <1> HIDE DEF n
  <1>6. \A i \in 1..n : h[i - 1] = g[i - 1] => h[i] = g[i]
    <2> SUFFICES ASSUME NEW i \in 1..n, h[i - 1] = g[i - 1]
                 PROVE  h[i] = g[i]
      OBVIOUS
    <2>1. i \in 1..(n + 1) /\ t[i] = s[i]
      BY <1>1
    <2> QED BY <1>4, <1>5, <2>1
  <1>7. h[n] = g[n]
    <2>1. n \in Nat /\ n \in 0..n
      BY <1>1
    <2>2. InStep(n, h, g)
      BY <1>4, <1>5, <1>6 DEF InStep
    <2>3. \A i \in 0..n : h[i] = g[i]
      BY <2>1, <2>2, SameSteps, Zenon
    <2> QED BY <2>1, <2>3
  <1>8. n + 1 \in 1..(n + 1) /\ (n + 1) - 1 = n
    BY <1>1
  <1> QED BY <1>1, <1>4, <1>5, <1>7, <1>8 DEF t

LEMMA AggregateOfNothing ==
    ASSUME NEW op \in Operators
    PROVE  Aggregate(op, <<>>) = Begin(op)
  <1> DEFINE s == <<>>
             S == Partials(op)
  <1>1. s \in Seq(S) /\ Len(s) = 0
    OBVIOUS
  <1>2. \E value : Adds(value, op, s)
    <2> HIDE DEF s
    <2> QED BY <1>1, AggregateIs
  <1> HIDE DEF s
  <1> QED BY <1>1, <1>2 DEF Adds, s

LEMMA RowsAre == Cardinality(Rows) \in Nat /\ Rows = 1..Cardinality(Rows)
  BY RowsAssumption, FS_CardinalityType

\* sum[r] is what those of rows up to r come to.
AddsUp(sum, f, rows) ==
    /\ sum \in [0..Cardinality(Rows) -> Int]
    /\ sum[0] = 0
    /\ \A r \in 1..Cardinality(Rows) :
            sum[r] = sum[r - 1] + IF r \in rows THEN f[r] ELSE 0
    /\ Sum(f, rows) = sum[Cardinality(Rows)]

LEMMA SumIs ==
    ASSUME NEW f, NEW rows, \A r \in rows : f[r] \in Int
    PROVE  \E sum : AddsUp(sum, f, rows)
  <1> DEFINE n == Cardinality(Rows)
             step == [r \in 1..n |-> [v \in Int |-> v + IF r \in rows THEN f[r] ELSE 0]]
             h == CHOOSE sum : sum =
                    [r \in 0..Cardinality(Rows) |->
                        IF r = 0 THEN 0 ELSE sum[r - 1] + IF r \in rows THEN f[r] ELSE 0]
  <1>1. n \in Nat
    BY RowsAre
  <1>2. Sum(f, rows) = h[Cardinality(Rows)]
    BY Zenon DEF Sum
  <1> HIDE DEF n
  <1>3. step \in [1..n -> [Int -> Int]]
    <2> SUFFICES ASSUME NEW r \in 1..n, NEW v \in Int
                 PROVE  (v + IF r \in rows THEN f[r] ELSE 0) \in Int
      BY Zenon
    <2> QED OBVIOUS
  <1>4. PICK g : Walks(g, n, Int, 0, step)
    <2>1. 0 \in Int
      OBVIOUS
    <2> HIDE DEF step
    <2> QED BY <1>1, <1>3, <2>1, Recursion
  <1>5. g \in [0..n -> Int] /\ g[0] = 0
    BY <1>4 DEF Walks
  <1>6. ASSUME NEW r \in 1..n
        PROVE  g[r] = g[r - 1] + IF r \in rows THEN f[r] ELSE 0
    <2>1. r - 1 \in 0..n
      BY <1>1
    <2>2. g[r] = step[r][g[r - 1]] /\ g[r - 1] \in Int
      BY <1>4, <2>1 DEF Walks
    <2> QED BY <2>2, Zenon
  <1>7. g = [r \in 0..n |->
                IF r = 0 THEN 0 ELSE g[r - 1] + IF r \in rows THEN f[r] ELSE 0]
    <2>1. \A r \in 0..n : r = 0 \/ r \in 1..n
      BY <1>1
    <2> HIDE DEF step
    <2> QED BY <1>5, <1>6, <2>1
  <1>8. h = [r \in 0..n |->
                IF r = 0 THEN 0 ELSE h[r - 1] + IF r \in rows THEN f[r] ELSE 0]
    <2> HIDE DEF h, step
    <2> QED BY <1>7, Zenon DEF h, n
  <1> HIDE DEF h, step
  <1>9. h[0] = 0
    <2>1. 0 \in 0..n
      BY <1>1
    <2> QED BY <1>8, <2>1, Zenon
  <1>10. ASSUME NEW r \in 1..n
         PROVE  h[r] = h[r - 1] + IF r \in rows THEN f[r] ELSE 0
    <2>1. r \in 0..n /\ r # 0
      BY <1>1
    <2> QED BY <1>8, <2>1, Zenon
  <1>11. \A r \in 0..n : h[r] = g[r]
    <2>1. \A r \in 1..n : h[r - 1] = g[r - 1] => h[r] = g[r]
      <3> SUFFICES ASSUME NEW r \in 1..n, h[r - 1] = g[r - 1] PROVE h[r] = g[r]
        OBVIOUS
      <3> QED BY <1>6, <1>10, Zenon
    <2>2. InStep(n, h, g)
      BY <1>5, <1>9, <2>1 DEF InStep
    <2> QED BY <1>1, <2>2, SameSteps, Zenon
  <1>12. Sum(f, rows) = g[n]
    <2>1. n \in 0..n
      BY <1>1
    <2> QED BY <1>2, <1>11, <2>1 DEF n
  <1>13. AddsUp(g, f, rows)
    BY <1>5, <1>6, <1>12 DEF AddsUp, n
  <1> QED BY <1>13

LEMMA SumOfNone ==
    ASSUME NEW f
    PROVE  Sum(f, {}) = 0
  <1> DEFINE n == Cardinality(Rows)
             h == [r \in 0..n |-> 0]
  <1>1. n \in Nat /\ n \in 0..n
    BY RowsAre
  <1>2. PICK g : AddsUp(g, f, {})
    BY SumIs
  <1>3. g[0] = 0 /\ Sum(f, {}) = g[n] /\ \A r \in 1..n : g[r] = g[r - 1] + 0
    BY <1>2 DEF AddsUp
  <1> HIDE DEF n
  <1>4. h[0] = 0 /\ h[n] = 0 /\ \A r \in 1..n : h[r] = 0 /\ h[r - 1] = 0
    BY <1>1
  <1> HIDE DEF h
  <1>5. InStep(n, g, h)
    BY <1>3, <1>4 DEF InStep
  <1>6. \A r \in 0..n : g[r] = h[r]
    BY <1>1, <1>5, SameSteps, Zenon
  <1> QED BY <1>1, <1>3, <1>4, <1>6

LEMMA SumAdds ==
    ASSUME NEW f, NEW rows, NEW r \in Rows \ rows,
           \A q \in rows \union {r} : f[q] \in Int
    PROVE  /\ Sum(f, rows) \in Int
           /\ Sum(f, rows \union {r}) = Sum(f, rows) + f[r]
  <1> DEFINE n == Cardinality(Rows)
             more == rows \union {r}
             v == f[r]
  <1>1. n \in Nat /\ n \in 0..n /\ r \in 1..n /\ v \in Int /\ r \notin rows
    BY RowsAre
  <1>2. PICK g : AddsUp(g, f, rows)
    BY SumIs
  <1>3. PICK h : AddsUp(h, f, more)
    BY SumIs
  <1>4. /\ g \in [0..n -> Int] /\ g[0] = 0 /\ Sum(f, rows) = g[n]
        /\ \A q \in 1..n : g[q] = g[q - 1] + IF q \in rows THEN f[q] ELSE 0
    BY <1>2 DEF AddsUp
  <1>5. /\ h[0] = 0 /\ Sum(f, more) = h[n]
        /\ \A q \in 1..n : h[q] = h[q - 1] + IF q \in more THEN f[q] ELSE 0
    BY <1>3 DEF AddsUp
  <1> DEFINE k == [q \in 0..n |-> g[q] + IF r <= q THEN v ELSE 0]
  <1> HIDE DEF n
  <1>6. k[0] = 0 /\ k[n] = g[n] + v
    BY <1>1, <1>4
  <1>7. ASSUME NEW q \in 1..n, h[q - 1] = k[q - 1] PROVE h[q] = k[q]
    <2>1. q - 1 \in 0..n /\ q \in 0..n
      BY <1>1
    <2>2. /\ k[q - 1] = g[q - 1] + IF r <= q - 1 THEN v ELSE 0
          /\ k[q] = g[q] + IF r <= q THEN v ELSE 0
      BY <2>1
    <2>3. /\ h[q] = h[q - 1] + IF q \in more THEN f[q] ELSE 0
          /\ g[q] = g[q - 1] + IF q \in rows THEN f[q] ELSE 0
      BY <1>4, <1>5
    <2>4. g[q - 1] \in Int /\ g[q] \in Int /\ (q \in rows => f[q] \in Int)
      BY <1>4, <2>1
    <2> HIDE DEF k, v
    <2>5. CASE q = r
      <3>1. q \in more /\ q \notin rows /\ f[q] = v
        BY <1>1, <2>5 DEF v
      <3> HIDE DEF more
      <3>2. ~(r <= q - 1) /\ r <= q
        BY <2>5
      <3> QED BY <1>1, <1>7, <2>2, <2>3, <2>4, <3>1, <3>2
    <2>6. CASE q # r
      <3>1. q \in more <=> q \in rows
        BY <2>6
      <3>2. (r <= q - 1) <=> (r <= q)
        BY <1>1, <2>6
      <3> HIDE DEF more
      <3> QED BY <1>1, <1>7, <2>2, <2>3, <2>4, <3>1, <3>2
    <2> QED BY <2>5, <2>6
  <1> HIDE DEF k
  <1>8. InStep(n, h, k)
    BY <1>5, <1>6, <1>7 DEF InStep
  <1>9. \A q \in 0..n : h[q] = k[q]
    <2>1. n \in Nat
      BY <1>1
    <2> QED BY <1>8, <2>1, SameSteps
  <1>10. h[n] = k[n] /\ g[n] \in Int
    BY <1>1, <1>4, <1>9
  <1> QED BY <1>4, <1>5, <1>6, <1>10

\* Among some rows there is a greatest value and a least.
LEMMA Extremes ==
    ASSUME NEW f, NEW rows \in SUBSET Rows, rows # {}, \A r \in rows : f[r] \in Int
    PROVE  /\ \E m \in rows : \A r \in rows : f[r] <= f[m]
           /\ \E m \in rows : \A r \in rows : f[m] <= f[r]
  <1> DEFINE n == Cardinality(Rows)
             Bounded(some) == /\ \E m \in some : \A r \in some : f[r] <= f[m]
                              /\ \E m \in some : \A r \in some : f[m] <= f[r]
             Good == {k \in 0..n : \A some \in SUBSET rows :
                        some \subseteq 1..k /\ some # {} => Bounded(some)}
  <1>1. n \in Nat /\ n \in 0..n /\ Rows = 1..n
    BY RowsAre
  <1> HIDE DEF n
  <1>2. 0 \in Good
    <2>1. 1..0 = {}
      OBVIOUS
    <2>2. \A some \in SUBSET rows : ~(some \subseteq 1..0 /\ some # {})
      BY <2>1
    <2> HIDE DEF Bounded
    <2> QED BY <1>1, <2>2
  <1>3. ASSUME NEW k \in 0..(n - 1), k \in Good PROVE k + 1 \in Good
    <2>1. k + 1 \in 0..n /\ k \in Nat
      BY <1>1
    <2>2. ASSUME NEW some \in SUBSET rows, some \subseteq 1..(k + 1), some # {}
          PROVE  Bounded(some)
      <3> DEFINE j == k + 1
                 less == some \ {j}
      <3>1. less \in SUBSET rows /\ less \subseteq 1..k
        BY <2>1, <2>2
      <3>2. CASE j \notin some
        <4>1. less = some
          BY <3>2
        <4> HIDE DEF less, Bounded
        <4> QED BY <1>3, <2>2, <3>1, <4>1
      <3>3. CASE j \in some /\ less = {}
        <4>1. some = {j} /\ f[j] \in Int
          BY <3>3
        <4> HIDE DEF j, less
        <4>2. f[j] <= f[j]
          BY <4>1
        <4> QED BY <4>1, <4>2
      <3>4. CASE j \in some /\ less # {}
        <4>1. Bounded(less)
          <5> HIDE DEF less, Bounded
          <5> QED BY <1>3, <3>1, <3>4
        <4>2. some = less \union {j} /\ f[j] \in Int /\ \A r \in less : f[r] \in Int
          BY <3>4
        <4> HIDE DEF j, less
        <4>3. \E m \in some : \A r \in some : f[r] <= f[m]
          <5>1. PICK m \in less : \A r \in less : f[r] <= f[m]
            BY <4>1
          <5>2. CASE f[j] <= f[m]
            BY <4>2, <5>1, <5>2
          <5>3. CASE f[m] <= f[j]
            <6>1. \A r \in some : f[r] <= f[j]
              BY <4>2, <5>1, <5>3
            <6> QED BY <4>2, <6>1
          <5> QED BY <4>2, <5>1, <5>2, <5>3
        <4>4. \E m \in some : \A r \in some : f[m] <= f[r]
          <5>1. PICK m \in less : \A r \in less : f[m] <= f[r]
            BY <4>1
          <5>2. CASE f[m] <= f[j]
            BY <4>2, <5>1, <5>2
          <5>3. CASE f[j] <= f[m]
            <6>1. \A r \in some : f[j] <= f[r]
              BY <4>2, <5>1, <5>3
            <6> QED BY <4>2, <6>1
          <5> QED BY <4>2, <5>1, <5>2, <5>3
        <4> QED BY <4>3, <4>4
      <3> QED BY <3>2, <3>3, <3>4
    <2> QED BY <2>1, <2>2
  <1>4. n \in Good
    <2> HIDE DEF Good
    <2> QED BY <1>1, <1>2, <1>3, Induction
  <1> QED BY <1>1, <1>4

LEMMA GreatestIs ==
    ASSUME NEW S \in SUBSET Int, NEW m \in S, \A v \in S : v <= m
    PROVE  Max(S) = m
  <1>1. \A x \in S : (\A y \in S : x >= y) => x = m
    OBVIOUS
  <1>2. m \in S /\ \A y \in S : m >= y
    OBVIOUS
  <1> QED BY <1>1, <1>2 DEF Max

LEMMA LeastIs ==
    ASSUME NEW S \in SUBSET Int, NEW m \in S, \A v \in S : m <= v
    PROVE  Min(S) = m
  <1>1. \A x \in S : (\A y \in S : x <= y) => x = m
    OBVIOUS
  <1>2. m \in S /\ \A y \in S : m <= y
    OBVIOUS
  <1> QED BY <1>1, <1>2 DEF Min

\* The data: values of the rows are such as the plan may give.
DataTyped == plan \in Plans /\ values \in [Rows -> ValuesFor(plan)]

LEMMA PartialTyped ==
    ASSUME DataTyped, plan.aggregate # "None", NEW r \in Rows
    PROVE  /\ plan.aggregate \in Operators
           /\ values[r] \in Partials(plan.aggregate)
           /\ r \in Valued => values[r] \in Partials(plan.aggregate) \ {Undefined}
  <1> DEFINE op == plan.aggregate
             v == values[r]
  <1>1. op \in Operators
    BY PlanAssumption DEF DataTyped
  <1>2. /\ op \in {"Count", "Min"} => v \in Int
        /\ op \in {"Sum", "Max"} => v = Undefined \/ v \in Int
        /\ op = "Average" => v = Undefined \/ v \in [sum : Int, count : Nat \ {0}]
    <2>1. plan \in Plans /\ v \in ValuesFor(plan)
      BY DEF DataTyped
    <2>2. CASE op \in {"Count", "Min"}
      BY <2>1, <2>2, ValuesAssumption
    <2>3. CASE op \in {"Sum", "Max"}
      BY <2>1, <2>3, ValuesAssumption
    <2>4. CASE op = "Average"
      BY <2>1, <2>4, ValuesAssumption
    <2> QED BY <1>1, <2>2, <2>3, <2>4 DEF Operators
  <1>3. r \in Valued => v # Undefined
    BY DEF Valued
  <1>4. v \in [sum : Int, count : Nat \ {0}] => v \in [sum : Int, count : Int]
    OBVIOUS
  <1> HIDE DEF op, v
  <1>5. v \in Partials(op)
    BY <1>1, <1>2, <1>4 DEF Partials, Operators
  <1> QED BY <1>1, <1>3, <1>5 DEF op, v

LEMMA TotalOfNone ==
    ASSUME NEW op \in Operators
    PROVE  TotalOf(op, {}) = Begin(op)
  BY SumOfNone DEF TotalOf, Begin

\* A row more is one partial result more.
LEMMA TotalOfMore ==
    ASSUME DataTyped, plan.aggregate # "None",
           NEW rows \in SUBSET Valued, NEW r \in Valued \ rows
    PROVE  TotalOf(plan.aggregate, rows \union {r})
               = Combine(plan.aggregate, TotalOf(plan.aggregate, rows), values[r])
  <1> DEFINE op == plan.aggregate
             more == rows \union {r}
             v == values[r]
  <1>1. /\ op \in Operators /\ r \in Rows \ rows /\ rows \subseteq Rows
        /\ \A q \in Valued : values[q] \in Partials(op) \ {Undefined}
        /\ \A q \in more : q \in Valued
        /\ more # {} /\ rows \subseteq more /\ r \in more
    <2>1. Valued \subseteq Rows
      BY DEF Valued
    <2> QED BY <2>1, PartialTyped
  <1>2. \A q \in more : Numbers[q] = values[q]
    BY <1>1 DEF Numbers
  <1> HIDE DEF op
  <1>3. CASE op \in {"Count", "Sum"}
    <2>1. \A q \in more : Numbers[q] \in Int
      BY <1>1, <1>2, <1>3 DEF Partials
    <2>2. /\ Sum(Numbers, rows) \in Int
          /\ Sum(Numbers, more) = Sum(Numbers, rows) + v
      <3> HIDE DEF v
      <3>1. Numbers[r] = v
        BY <1>1, <1>2 DEF v
      <3>2. /\ Sum(Numbers, rows) \in Int
            /\ Sum(Numbers, rows \union {r}) = Sum(Numbers, rows) + Numbers[r]
        BY <1>1, <2>1, SumAdds
      <3> QED BY <3>1, <3>2
    <2>3. v \in Int /\ v # Undefined
      BY <1>1, <1>3 DEF Partials
    <2> HIDE DEF more, v
    <2>4. ASSUME op = "Count" PROVE TotalOf(op, more) = Combine(op, TotalOf(op, rows), v)
      BY <2>2, <2>4 DEF TotalOf, Combine, Count
    <2>5. ASSUME op = "Sum", rows # {}
          PROVE  TotalOf(op, more) = Combine(op, TotalOf(op, rows), v)
      BY <1>1, <2>2, <2>3, <2>5, ValuesAssumption DEF TotalOf, Combine, Add
    <2>6. ASSUME op = "Sum", rows = {}
          PROVE  TotalOf(op, more) = Combine(op, TotalOf(op, rows), v)
      <3>1. Sum(Numbers, rows) = 0
        BY <2>6, SumOfNone
      <3>2. TotalOf(op, more) = v
        BY <1>1, <2>2, <2>3, <2>6, <3>1 DEF TotalOf
      <3> QED BY <2>3, <2>6, <3>2 DEF TotalOf, Combine, Add
    <2> QED BY <1>3, <2>4, <2>5, <2>6 DEF op, v, more
  <1>4. CASE op \in {"Max", "Min"}
    <2> DEFINE all == {values[q] : q \in more}
               old == {values[q] : q \in rows}
    <2>1. \A q \in more : values[q] \in Int
      BY <1>1, <1>4 DEF Partials
    <2>2. /\ all = old \union {v} /\ v \in Int /\ all \subseteq Int /\ old \subseteq Int
          /\ v # Undefined
      BY <1>1, <2>1
    <2>3. CASE rows = {}
      <3>1. all = {v} /\ v \in all /\ v <= v
        BY <2>2, <2>3
      <3> HIDE DEF all, v, more
      <3>2. Max(all) = v /\ Min(all) = v
        BY <2>2, <3>1, GreatestIs, LeastIs
      <3> USE DEF all
      <3>3. TotalOf(op, more) = v /\ TotalOf(op, rows) = Undefined
        BY <1>1, <1>4, <2>3, <3>2 DEF TotalOf
      <3>4. Combine(op, Undefined, v) = v
        BY <1>4 DEF Combine, Maximum, Minimum
      <3> QED BY <3>3, <3>4 DEF op, v, more
    <2>4. CASE rows # {} /\ op = "Max"
      <3>1. PICK m \in rows : \A q \in rows : values[q] <= values[m]
        BY <1>1, <2>1, <2>4, Extremes
      <3> DEFINE a == values[m]
      <3>2. a \in old /\ (\A x \in old : x <= a) /\ a \in Int /\ a # Undefined
        BY <1>1, <2>1, <3>1
      <3>3. TotalOf(op, rows) = Max(old) /\ TotalOf(op, more) = Max(all)
        BY <1>1, <2>4 DEF TotalOf
      <3> HIDE DEF all, old, a, v, more
      <3>4. Max(old) = a
        BY <2>2, <3>2, GreatestIs
      <3>5. Combine(op, a, v) = IF v > a THEN v ELSE a
        BY <2>2, <2>4, <3>2 DEF Combine, Maximum, Above
      <3>6. Max(all) = IF v > a THEN v ELSE a
        <4>1. CASE v > a
          <5>1. v \in all /\ \A x \in all : x <= v
            BY <2>2, <3>2, <4>1
          <5>2. Max(all) = v
            BY <2>2, <5>1, GreatestIs
          <5> QED BY <4>1, <5>2
        <4>2. CASE ~(v > a)
          <5>1. a \in all /\ \A x \in all : x <= a
            BY <2>2, <3>2, <4>2
          <5>2. Max(all) = a
            BY <2>2, <5>1, GreatestIs
          <5> QED BY <4>2, <5>2
        <4> QED BY <4>1, <4>2
      <3>7. TotalOf(op, more) = Combine(op, TotalOf(op, rows), v)
        BY <3>3, <3>4, <3>5, <3>6
      <3> QED BY <3>7 DEF op, v, more
    <2>5. CASE rows # {} /\ op = "Min"
      <3>1. PICK m \in rows : \A q \in rows : values[m] <= values[q]
        BY <1>1, <2>1, <2>5, Extremes
      <3> DEFINE a == values[m]
      <3>2. a \in old /\ (\A x \in old : a <= x) /\ a \in Int /\ a # Undefined
        BY <1>1, <2>1, <3>1
      <3>3. TotalOf(op, rows) = Min(old) /\ TotalOf(op, more) = Min(all)
        BY <1>1, <2>5 DEF TotalOf
      <3> HIDE DEF all, old, a, v, more
      <3>4. Min(old) = a
        BY <2>2, <3>2, LeastIs
      <3>5. Combine(op, a, v) = IF a > v THEN v ELSE a
        BY <2>2, <2>5, <3>2 DEF Combine, Minimum, Above
      <3>6. Min(all) = IF a > v THEN v ELSE a
        <4>1. CASE a > v
          <5>1. v \in all /\ \A x \in all : v <= x
            BY <2>2, <3>2, <4>1
          <5>2. Min(all) = v
            BY <2>2, <5>1, LeastIs
          <5> QED BY <4>1, <5>2
        <4>2. CASE ~(a > v)
          <5>1. a \in all /\ \A x \in all : a <= x
            BY <2>2, <3>2, <4>2
          <5>2. Min(all) = a
            BY <2>2, <5>1, LeastIs
          <5> QED BY <4>2, <5>2
        <4> QED BY <4>1, <4>2
      <3>7. TotalOf(op, more) = Combine(op, TotalOf(op, rows), v)
        BY <3>3, <3>4, <3>5, <3>6
      <3> QED BY <3>7 DEF op, v, more
    <2> QED BY <1>4, <2>3, <2>4, <2>5
  <1>5. CASE op = "Average"
    <2>1. \A q \in more : values[q] \in [sum : Int, count : Int]
      BY <1>1, <1>5 DEF Partials
    <2>2. \A q \in more : /\ Sums[q] = values[q].sum /\ Counts[q] = values[q].count
                          /\ Sums[q] \in Int /\ Counts[q] \in Int
      BY <1>1, <2>1 DEF Sums, Counts
    <2>3. /\ Sum(Sums, rows) \in Int /\ Sum(Counts, rows) \in Int
          /\ Sum(Sums, more) = Sum(Sums, rows) + v.sum
          /\ Sum(Counts, more) = Sum(Counts, rows) + v.count
      <3> HIDE DEF v
      <3>1. Sums[r] = v.sum /\ Counts[r] = v.count
        BY <1>1, <2>2 DEF v
      <3>2. /\ Sum(Sums, rows) \in Int
            /\ Sum(Sums, rows \union {r}) = Sum(Sums, rows) + Sums[r]
        BY <1>1, <2>2, SumAdds
      <3>3. /\ Sum(Counts, rows) \in Int
            /\ Sum(Counts, rows \union {r}) = Sum(Counts, rows) + Counts[r]
        BY <1>1, <2>2, SumAdds
      <3> QED BY <3>1, <3>2, <3>3
    <2>4. v \in [sum : Int, count : Int] /\ v # Undefined
      BY <1>1, <2>1
    <2> HIDE DEF more, v
    <2>5. TotalOf(op, more) = [sum |-> Sum(Sums, more), count |-> Sum(Counts, more)]
      BY <1>1, <1>5 DEF TotalOf
    <2>6. CASE rows # {}
      <3> DEFINE t == [sum |-> Sum(Sums, rows), count |-> Sum(Counts, rows)]
      <3>1. TotalOf(op, rows) = t
        BY <1>5, <2>6 DEF TotalOf
      <3>2. t \in [sum : Int, count : Int] /\ t # Undefined
        BY <2>3, ValuesAssumption
      <3>3. Combine(op, t, v) = [sum |-> t.sum + v.sum, count |-> t.count + v.count]
        <4> HIDE DEF t
        <4> QED BY <1>5, <2>4, <3>2 DEF Combine, AddAverages
      <3>4. TotalOf(op, more) = Combine(op, t, v)
        BY <2>3, <2>5, <3>3
      <3> QED BY <3>1, <3>4 DEF op, v, more
    <2>7. CASE rows = {}
      <3>1. Sum(Sums, rows) = 0 /\ Sum(Counts, rows) = 0
        BY <2>7, SumOfNone
      <3>2. TotalOf(op, rows) = Undefined
        BY <1>5, <2>7 DEF TotalOf
      <3>3. TotalOf(op, more) = [sum |-> v.sum, count |-> v.count]
        BY <2>3, <2>4, <2>5, <3>1
      <3>4. v = [sum |-> v.sum, count |-> v.count]
        BY <2>4
      <3>5. Combine(op, Undefined, v) = v
        BY <1>5 DEF Combine, AddAverages
      <3> QED BY <3>2, <3>3, <3>4, <3>5 DEF op, v, more
    <2> QED BY <2>6, <2>7
  <1> QED BY <1>1, <1>3, <1>4, <1>5 DEF Operators

\* A partial result that is missing changes nothing.
LEMMA CombineNothing ==
    ASSUME DataTyped, plan.aggregate # "None", NEW r \in Rows \ Valued, NEW v
    PROVE  Combine(plan.aggregate, v, values[r]) = v
  <1> DEFINE op == plan.aggregate
  <1>1. values[r] = Undefined
    BY DEF Valued
  <1>2. op \in Operators /\ Undefined \in Partials(op)
    BY <1>1, PartialTyped
  <1> HIDE DEF op
  <1>3. op \in {"Sum", "Max", "Average"}
    BY <1>2, ValuesAssumption DEF Partials, Operators
  <1>4. Combine(op, v, Undefined) = v
    BY <1>3 DEF Combine, Add, Maximum, AddAverages, Above
  <1> QED BY <1>1, <1>4 DEF op

-----------------------------------------------------------------------------
(* The invariant *)

AllValues ==
    (UNION {ValuesFor(p) : p \in Plans}) \union Int \union [sum : Int, count : Int]

\* What the caller has, or will have when the page ends.
Given == output \o fetchBuffer

ValuesOf(rows) == [i \in DOMAIN rows |-> values[rows[i]]]

Shown(p, s) == IF p.distinct = "None" THEN s ELSE Once(s)

DataInv ==
    /\ DataTyped
    /\ plan.distinct = "Ordered" =>
            ordered /\ \A r, s \in Rows : r < s => values[r] <= values[s]

SourceInv ==
    /\ delivered \in Seq(Rows) /\ outstanding \in SUBSET Rows
    /\ outcome \in {"running", "ended"}
    /\ outcome = "ended" => outstanding = {}
    /\ ordered => \A i \in DOMAIN delivered, r \in outstanding : delivered[i] <= r

CallerInv ==
    /\ output \in Seq(AllValues) /\ fetchBuffer \in Seq(AllValues)
    /\ phase \in {"idle", "item", "gather", "over"}
    /\ phase \in {"idle", "over"} => fetchBuffer = <<>>

LimitsInv == top \in Numeric /\ offset \in Nat /\ limit \in Numeric

\* How far the rows delivered have used the limits up, until one of them is
\* reached or the source has ended.
Spent(p, n, t, o, l) ==
    /\ t = IF p.top = NoLimit THEN NoLimit ELSE p.top - n
    /\ p.top # NoLimit => n <= p.top
    /\ t # 0 =>
        /\ o = IF n < p.offset THEN p.offset - n ELSE 0
        /\ l = IF p.limit = NoLimit THEN NoLimit
               ELSE IF n < p.offset THEN p.limit ELSE p.limit - (n - p.offset)
        /\ p.limit # NoLimit => n <= p.offset + p.limit

\* DISTINCT remembers, of the values it let through, those that can come again.
Remembers(p, hashed, s) ==
    /\ \A h \in hashed : h \notin Falsy /\ \E i \in DOMAIN s : s[i] = h
    /\ \A i \in DOMAIN s : s[i] \notin Falsy =>
            IF p.distinct = "Ordered" THEN \E h \in hashed : s[i] <= h
                                      ELSE s[i] \in hashed

RowInv ==
    /\ phase # "gather"
    /\ outcome = "running" => Spent(plan, Len(delivered), top, offset, limit)
    /\ Given = Shown(plan, Window(plan, ValuesOf(delivered)))
    /\ plan.distinct # "None" =>
            Remembers(plan, hashedResults, Window(plan, ValuesOf(delivered)))

\* Nothing has been given, and no limit used.
Untouched ==
    /\ Given = <<>> /\ hashedResults = {} /\ aggregateValuesIndex = -1
    /\ top = plan.top
    /\ top # 0 => offset = plan.offset /\ limit = plan.limit

LimitsAllow == top # 0 /\ (offset > 0 \/ limit # 0)

Total == TotalOf(plan.aggregate, Valued)

NotStarted ==
    /\ Untouched /\ phase # "gather" /\ outcome = "running"
    /\ partials = <<>> /\ aggregateValues = <<>> /\ outstanding = Rows

Gathering ==
    /\ Untouched /\ LimitsAllow /\ started /\ aggregateValues = <<>>
    /\ partials \in Seq(Partials(plan.aggregate))
    /\ Aggregate(plan.aggregate, partials)
            = TotalOf(plan.aggregate, Valued \ outstanding)

Gathered ==
    /\ outcome = "ended"
    /\ aggregateValues = <<Total>> /\ Total \in Totals(plan.aggregate)
    /\ aggregateValuesIndex \in {-1, 0, 1}
    /\ IF aggregateValuesIndex = -1
       THEN Untouched /\ LimitsAllow /\ phase = "item"
       ELSE Given = Window(plan, ItemsOf(Total))

AggregateInv ==
    /\ ~started => NotStarted
    /\ phase = "gather" => Gathering
    /\ started /\ phase # "gather" => Gathered

\* What is settled: the charges the caller was told, and those of pages that he was
\* not given.
Settled == requestCharge + unyielded
SettledTyped == requestCharge \in Nat /\ unyielded \in Nat /\ Settled \in Nat

ChargeTyped ==
    /\ SettledTyped /\ fetchMoreRespHeaders \in Nat
    /\ aggregateHeaders \in Nat /\ respHeaders \in Nat

\* Charges of rows that are skipped wait only while no row was let through.
ChargeInv ==
    /\ ChargeTyped
    /\ offset > 0 => limit = plan.limit
    /\ limit # plan.limit => aggregateHeaders = 0
    /\ ChargesAddUp

Intact ==
    /\ DataInv /\ SourceInv /\ CallerInv /\ LimitsInv /\ ChargeInv
    /\ plan.aggregate = "None" => RowInv
    /\ plan.aggregate # "None" => AggregateInv

PipelineInv == ~failed => Intact

-----------------------------------------------------------------------------
(* What an item does on its way to the caller *)

\* An item, or none.
Offered(item) == item = Undefined \/ item \in AllValues

\* Does DISTINCT let it through?
Takes(item) ==
    /\ item # Undefined
    /\ plan.distinct = "None" \/ item \in Falsy \/ item \notin hashedResults

Hashed(item) ==
    IF plan.distinct = "None" \/ item = Undefined \/ item \in Falsy
       \/ item \in hashedResults
    THEN hashedResults
    ELSE IF plan.distinct = "Ordered" THEN {item} ELSE hashedResults \union {item}

\* The page, or what was made of it, and what the caller pays.
Resolved(result, charge) ==
    /\ CallerInv' /\ phase' # "gather" /\ failed' = failed
    /\ Given' = IF result = Undefined THEN Given ELSE Append(Given, result)
    /\ SettledTyped' /\ fetchMoreRespHeaders' \in Nat
    /\ Settled' + fetchMoreRespHeaders'
            = Settled + fetchMoreRespHeaders + charge

Handed(item, charge) ==
    /\ CallerInv' /\ phase' # "gather" /\ failed' = failed
    /\ Given' = IF Takes(item) THEN Append(Given, item) ELSE Given
    /\ hashedResults' = Hashed(item)
    /\ SettledTyped' /\ fetchMoreRespHeaders' \in Nat
    /\ Settled' + fetchMoreRespHeaders'
            = Settled + fetchMoreRespHeaders + charge

LEMMA GivenSplits ==
    ASSUME CallerInv, NEW v \in AllValues
    PROVE  /\ Given \in Seq(AllValues)
           /\ output \o Append(fetchBuffer, v) = Append(Given, v)
           /\ Given \o <<>> = Given
           /\ Append(Given, v) \o <<>> = Append(Given, v)
  BY DEF CallerInv, Given

LEMMA ResolveDoes ==
    ASSUME CallerInv, ChargeTyped, NEW result, Offered(result), NEW charge \in Nat,
           Resolve(result, charge)
    PROVE  Resolved(result, charge)
  <1> DEFINE page == IF result = Undefined THEN fetchBuffer
                                           ELSE Append(fetchBuffer, result)
             ends == mode = "all" \/ result = Undefined \/ Len(page) >= PageSize
             given == IF result = Undefined THEN Given ELSE Append(Given, result)
  <1>1. /\ output' = IF ends THEN output \o page ELSE output
        /\ fetchBuffer' = IF ends THEN <<>> ELSE page
        /\ phase' = IF ends THEN "idle" ELSE "item"
        /\ failed' = failed
        /\ ends => /\ Settle(page, fetchMoreRespHeaders + charge)
                   /\ fetchMoreRespHeaders' = 0
        /\ ~ends => /\ fetchMoreRespHeaders' = fetchMoreRespHeaders + charge
                    /\ requestCharge' = requestCharge /\ unyielded' = unyielded
    BY DEF Resolve, MergeHeaders
  <1>2. output \in Seq(AllValues) /\ fetchBuffer \in Seq(AllValues)
    BY DEF CallerInv
  <1>3. page \in Seq(AllValues)
    BY <1>2 DEF Offered
  <1>4. output \o page = given /\ (output \o page) \o <<>> = given
        /\ output \o page \in Seq(AllValues)
    <2>1. CASE result = Undefined
      BY <1>2, <2>1 DEF Given
    <2>2. CASE result # Undefined
      <3>1. result \in AllValues
        BY <2>2 DEF Offered
      <3>2. output \o Append(fetchBuffer, result) = Append(Given, result)
            /\ Append(Given, result) \o <<>> = Append(Given, result)
        BY <3>1, GivenSplits
      <3>3. page = Append(fetchBuffer, result) /\ given = Append(Given, result)
        BY <2>2
      <3>4. output \o page \in Seq(AllValues)
        <4> HIDE DEF page
        <4> QED BY <1>2, <1>3
      <3> HIDE DEF page, given
      <3>5. output \o page = given
        BY <3>2, <3>3, Zenon
      <3>6. given \o <<>> = given
        BY <3>2, <3>3, Zenon
      <3> QED BY <3>4, <3>5, <3>6
    <2> QED BY <2>1, <2>2
  <1> HIDE DEF page, ends, given
  <1>5. Given' = given
    BY <1>1, <1>4 DEF Given
  <1>6. <<>> \in Seq(AllValues)
    OBVIOUS
  <1>7. output' \in Seq(AllValues) /\ fetchBuffer' \in Seq(AllValues)
    BY <1>1, <1>2, <1>3, <1>4, <1>6
  <1>8. CallerInv' /\ phase' # "gather"
    BY <1>1, <1>7 DEF CallerInv
  <1>9. /\ SettledTyped' /\ fetchMoreRespHeaders' \in Nat
        /\ Settled' + fetchMoreRespHeaders'
                = Settled + fetchMoreRespHeaders + charge
    <2>1. /\ requestCharge \in Nat /\ unyielded \in Nat /\ fetchMoreRespHeaders \in Nat
      BY DEF ChargeTyped, SettledTyped
    <2>2. CASE ends
      <3>1. \/ /\ unyielded' = unyielded + (fetchMoreRespHeaders + charge)
               /\ requestCharge' = requestCharge
            \/ /\ requestCharge' = requestCharge + (fetchMoreRespHeaders + charge)
               /\ unyielded' = unyielded
        BY <1>1, <2>2 DEF Settle, MergeHeaders
      <3> QED BY <1>1, <2>1, <2>2, <3>1 DEF SettledTyped, Settled
    <2>3. CASE ~ends
      BY <1>1, <2>1, <2>3 DEF SettledTyped, Settled
    <2> QED BY <2>2, <2>3
  <1> QED BY <1>1, <1>5, <1>8, <1>9 DEF Resolved, given

LEMMA DistinctDoes ==
    ASSUME CallerInv, ChargeTyped, NEW item, Offered(item), NEW charge \in Nat,
           Distinct(item, charge)
    PROVE  Handed(item, charge)
  <1>1. CASE plan.distinct = "None" \/ item \in {Undefined} \union Falsy
    <2>1. Resolve(item, charge) /\ hashedResults' = hashedResults
      BY <1>1 DEF Distinct
    <2>2. Resolved(item, charge)
      BY <2>1, ResolveDoes
    <2>3. Takes(item) <=> item # Undefined
      BY <1>1 DEF Takes
    <2>4. Hashed(item) = hashedResults
      BY <1>1 DEF Hashed
    <2> QED BY <2>1, <2>2, <2>3, <2>4 DEF Resolved, Handed
  <1>2. CASE ~(plan.distinct = "None" \/ item \in {Undefined} \union Falsy)
             /\ item \in hashedResults
    <2>1. Resolve(Undefined, charge) /\ hashedResults' = hashedResults
      BY <1>2 DEF Distinct, Seen
    <2>2. Resolved(Undefined, charge)
      BY <2>1, ResolveDoes DEF Offered
    <2>3. ~Takes(item) /\ Hashed(item) = hashedResults
      BY <1>2 DEF Takes, Hashed
    <2> QED BY <2>1, <2>2, <2>3 DEF Resolved, Handed
  <1>3. CASE ~(plan.distinct = "None" \/ item \in {Undefined} \union Falsy)
             /\ item \notin hashedResults
    <2>1. /\ Resolve(item, charge)
          /\ hashedResults' = IF plan.distinct = "Ordered" THEN {item}
                              ELSE hashedResults \union {item}
      BY <1>3 DEF Distinct, Seen
    <2>2. Resolved(item, charge)
      BY <2>1, ResolveDoes
    <2>3. Takes(item) /\ item # Undefined
      BY <1>3 DEF Takes
    <2>4. hashedResults' = Hashed(item)
      BY <1>3, <2>1 DEF Hashed
    <2> QED BY <2>2, <2>3, <2>4 DEF Resolved, Handed
  <1> QED BY <1>1, <1>2, <1>3

\* OFFSET and LIMIT have dealt with an item that cost charge.
Offsets(item, charge) ==
    /\ CallerInv' /\ phase' # "gather" /\ failed' = failed
    /\ offset' \in Nat /\ limit' \in Numeric
    /\ offset' = Less(offset)
    /\ limit' = IF offset > 0 THEN limit ELSE Less(limit)
    /\ Given' = IF offset = 0 /\ Takes(item) THEN Append(Given, item) ELSE Given
    /\ hashedResults' = IF offset = 0 THEN Hashed(item) ELSE hashedResults
    /\ SettledTyped' /\ fetchMoreRespHeaders' \in Nat
    /\ aggregateHeaders' \in Nat
    /\ Settled' + fetchMoreRespHeaders' + aggregateHeaders'
            = Settled + fetchMoreRespHeaders + aggregateHeaders + charge
    /\ offset = 0 => aggregateHeaders' = 0

LEMMA OffsetLimitDoes ==
    ASSUME CallerInv, LimitsInv, ChargeTyped, phase = "item",
           NEW item, Offered(item), NEW charge \in Nat, OffsetLimit(item, charge)
    PROVE  Offsets(item, charge)
  <1>1. offset \in Nat /\ limit \in Numeric /\ Less(limit) \in Numeric
    BY DEF LimitsInv, Less, Numeric, NoLimit
  <1>2. /\ SettledTyped /\ fetchMoreRespHeaders \in Nat
        /\ aggregateHeaders \in Nat
    BY DEF ChargeTyped
  <1>3. CASE offset > 0
    <2>1. /\ offset' = offset - 1 /\ limit' = limit
          /\ aggregateHeaders' = aggregateHeaders + charge
          /\ UNCHANGED <<hashedResults, caller, pageCharges>>
      BY <1>3 DEF OffsetLimit, MergeHeaders
    <2>2. CallerInv' /\ Given' = Given /\ failed' = failed /\ phase' # "gather"
      BY <2>1 DEF CallerInv, Given, caller
    <2>3. /\ requestCharge' = requestCharge /\ unyielded' = unyielded
          /\ fetchMoreRespHeaders' = fetchMoreRespHeaders
      BY <2>1 DEF pageCharges
    <2>4. offset' \in Nat /\ offset' = Less(offset) /\ offset # 0
      BY <1>1, <1>3, <2>1 DEF Less
    <2> QED BY <1>1, <1>2, <1>3, <2>1, <2>2, <2>3, <2>4 DEF Offsets, SettledTyped, Settled
  <1>4. CASE ~(offset > 0)
    <2>1. offset = 0
      BY <1>1, <1>4
    <2> DEFINE all == aggregateHeaders + charge
    <2>2. /\ limit' = Less(limit) /\ offset' = offset /\ aggregateHeaders' = 0
          /\ Distinct(item, all)
      BY <1>4 DEF OffsetLimit, MergeHeaders
    <2>3. all \in Nat
      BY <1>2
    <2>4. Handed(item, all)
      <3> HIDE DEF all
      <3> QED BY <2>2, <2>3, DistinctDoes
    <2>5. Less(offset) = offset
      BY <2>1 DEF Less
    <2>6. /\ CallerInv' /\ phase' # "gather" /\ failed' = failed
          /\ Given' = IF Takes(item) THEN Append(Given, item) ELSE Given
          /\ hashedResults' = Hashed(item)
          /\ SettledTyped' /\ fetchMoreRespHeaders' \in Nat
          /\ Settled' + fetchMoreRespHeaders'
                = Settled + fetchMoreRespHeaders + all
      BY <2>4 DEF Handed
    <2>7. Settled' + fetchMoreRespHeaders' + aggregateHeaders'
            = Settled + fetchMoreRespHeaders + aggregateHeaders + charge
      <3>1. aggregateHeaders' = 0 /\ all = aggregateHeaders + charge
        BY <2>2
      <3> DEFINE p == Settled'
                 f == fetchMoreRespHeaders'
      <3>2. p \in Nat /\ f \in Nat /\ p + f = Settled + fetchMoreRespHeaders + all
        BY <2>6 DEF SettledTyped
      <3> HIDE DEF all, p, f
      <3>3. p + f + 0
                = Settled + fetchMoreRespHeaders + aggregateHeaders + charge
        BY <1>2, <2>3, <3>1, <3>2 DEF SettledTyped
      <3> QED BY <3>1, <3>3 DEF p, f
    <2>8. /\ offset' \in Nat /\ limit' \in Numeric /\ offset' = Less(offset)
          /\ limit' = IF offset > 0 THEN limit ELSE Less(limit)
          /\ aggregateHeaders' \in Nat /\ aggregateHeaders' = 0
      BY <1>1, <1>4, <2>1, <2>2, <2>5
    <2>9. /\ Given' = IF offset = 0 /\ Takes(item) THEN Append(Given, item) ELSE Given
          /\ hashedResults' = IF offset = 0 THEN Hashed(item) ELSE hashedResults
      BY <2>1, <2>6, Zenon
    <2> QED BY <2>6, <2>7, <2>8, <2>9, Zenon DEF Offsets
  <1> QED BY <1>3, <1>4

\* What the caller must have paid by now.
Due == Len(delivered) + IF outcome = "ended" /\ plan.aggregate = "None" THEN 1 ELSE 0

LEMMA DueTyped == SourceInv => Due \in Nat
  BY DEF SourceInv, Due

LEMMA ChargesAre ==
    ChargesAddUp <=> (~failed /\ plan.limit # 0 =>
        Settled + fetchMoreRespHeaders + aggregateHeaders + respHeaders = Due)
  BY DEF ChargesAddUp, Due, Settled

\* An item that passes OFFSET and LIMIT, whatever is above and below.
LEMMA ItemPasses ==
    ASSUME CallerInv, LimitsInv, ChargeInv, SourceInv, phase = "item", ~failed,
           NEW item, Offered(item), NEW charge \in Nat, OffsetLimit(item, charge),
           plan' = plan, top' \in Numeric, respHeaders' \in Nat, Due' \in Nat,
           Due' + respHeaders = Due + charge + respHeaders'
    PROVE  CallerInv' /\ LimitsInv' /\ ChargeInv' /\ Offsets(item, charge)
  <1>1. ChargeTyped
    BY DEF ChargeInv
  <1>2. Offsets(item, charge)
    BY <1>1, OffsetLimitDoes
  <1>3. /\ CallerInv' /\ failed' = failed
        /\ offset' \in Nat /\ limit' \in Numeric
        /\ offset' = Less(offset)
        /\ limit' = IF offset > 0 THEN limit ELSE Less(limit)
        /\ SettledTyped' /\ fetchMoreRespHeaders' \in Nat
        /\ aggregateHeaders' \in Nat
        /\ Settled' + fetchMoreRespHeaders' + aggregateHeaders'
                = Settled + fetchMoreRespHeaders + aggregateHeaders + charge
        /\ offset = 0 => aggregateHeaders' = 0
    BY <1>2 DEF Offsets
  <1>4. LimitsInv'
    BY <1>3 DEF LimitsInv
  <1>5. ChargeTyped'
    BY <1>3 DEF ChargeTyped
  <1>6. offset \in Nat /\ (offset > 0 => limit = plan.limit)
        /\ (limit # plan.limit => aggregateHeaders = 0)
    BY DEF LimitsInv, ChargeInv
  <1>7. offset' > 0 => limit' = plan'.limit
    BY <1>3, <1>6 DEF Less
  <1>8. limit' # plan'.limit => aggregateHeaders' = 0
    BY <1>3, <1>6
  <1>9. plan.limit # 0 =>
            Settled + fetchMoreRespHeaders + aggregateHeaders + respHeaders = Due
    BY ChargesAre DEF ChargeInv
  <1>10. plan.limit # 0 =>
            Settled' + fetchMoreRespHeaders' + aggregateHeaders' + respHeaders'
                = Due'
    <2> DEFINE all == Settled + fetchMoreRespHeaders + aggregateHeaders
               now == Settled' + fetchMoreRespHeaders' + aggregateHeaders'
               resp == respHeaders'
               due == Due'
    <2>1. all \in Nat /\ respHeaders \in Nat /\ Due \in Nat
      BY <1>1, DueTyped DEF ChargeTyped, SettledTyped
    <2>2. now = all + charge
      BY <1>3
    <2>3. plan.limit # 0 => all + respHeaders = Due
      BY <1>9
    <2>4. resp \in Nat /\ due \in Nat /\ due + respHeaders = Due + charge + resp
      OBVIOUS
    <2> HIDE DEF all, now, resp, due
    <2>5. plan.limit # 0 => now + resp = due
      BY <2>1, <2>2, <2>3, <2>4
    <2> QED BY <2>5 DEF now, resp, due
  <1>11. ChargesAddUp'
    <2>1. ChargesAddUp' <=> (~failed' /\ plan'.limit # 0 =>
            Settled' + fetchMoreRespHeaders' + aggregateHeaders' + respHeaders'
                = Due')
      BY DEF ChargesAddUp, Due, Settled
    <2> QED BY <1>10, <2>1
  <1> QED BY <1>2, <1>3, <1>4, <1>5, <1>7, <1>8, <1>11 DEF ChargeInv

LEMMA NothingPasses ==
    ASSUME NEW charge, Offsets(Undefined, charge)
    PROVE  Given' = Given /\ hashedResults' = hashedResults /\ phase' # "gather"
  BY DEF Offsets, Takes, Hashed

-----------------------------------------------------------------------------
(* Steps with a limit that is reached *)

\* The rows the limits let through, and what was given of them, stay.
LEMMA RowsStay ==
    ASSUME RowInv, plan' = plan, values' = values, delivered' = delivered,
           Given' = Given, hashedResults' = hashedResults, phase' # "gather",
           outcome' = "running" =>
                Spent(plan, Len(delivered), top', offset', limit')
    PROVE  RowInv'
  <1>1. ValuesOf(delivered)' = ValuesOf(delivered)
    BY DEF ValuesOf
  <1>2. Window(plan, ValuesOf(delivered))' = Window(plan, ValuesOf(delivered))
    BY <1>1 DEF Window, End
  <1> DEFINE w == Window(plan, ValuesOf(delivered))
  <1>3. Shown(plan, w)' = Shown(plan, w)
    BY <1>2 DEF Shown
  <1>4. Given = Shown(plan, w) /\ (plan.distinct # "None" => Remembers(plan, hashedResults, w))
    BY DEF RowInv
  <1>5. Remembers(plan, hashedResults, w)' <=> Remembers(plan, hashedResults, w)
    BY <1>2 DEF Remembers
  <1>6. Spent(plan, Len(delivered), top, offset, limit)'
            <=> Spent(plan, Len(delivered), top', offset', limit')
    BY DEF Spent
  <1> HIDE DEF w
  <1> QED BY <1>3, <1>4, <1>5, <1>6, Zenon DEF RowInv, w

LEMMA TotalStays ==
    ASSUME plan' = plan, values' = values
    PROVE  /\ \A rows : TotalOf(plan.aggregate, rows)' = TotalOf(plan.aggregate, rows)
           /\ Valued' = Valued /\ Total' = Total
           /\ Window(plan, ItemsOf(Total))' = Window(plan, ItemsOf(Total))
  <1>1. Valued' = Valued
    BY DEF Valued
  <1>2. Numbers' = Numbers /\ Sums' = Sums /\ Counts' = Counts
    BY <1>1 DEF Numbers, Sums, Counts
  <1>3. ASSUME NEW rows
        PROVE  TotalOf(plan.aggregate, rows)' = TotalOf(plan.aggregate, rows)
    BY <1>2 DEF TotalOf
  <1>4. Total' = Total
    BY <1>1, <1>2 DEF Total, TotalOf
  <1>5. ItemsOf(Total)' = ItemsOf(Total)
    BY <1>4 DEF ItemsOf
  <1>6. Window(plan, ItemsOf(Total))' = Window(plan, ItemsOf(Total))
    BY <1>5 DEF Window, End
  <1> QED BY <1>1, <1>3, <1>4, <1>6

LEMMA AggregateStays ==
    ASSUME AggregateInv, phase = "item", ~LimitsAllow,
           UNCHANGED <<query, source, aggregate, top>>,
           Given' = Given, hashedResults' = hashedResults, phase' # "gather",
           top # 0 => offset' = offset /\ limit' = limit
    PROVE  AggregateInv'
  <1>1. /\ plan' = plan /\ values' = values /\ outcome' = outcome
        /\ outstanding' = outstanding /\ started' = started /\ partials' = partials
        /\ aggregateValues' = aggregateValues
        /\ aggregateValuesIndex' = aggregateValuesIndex
        /\ top' = top
    BY DEF query, source, aggregate
  <1>2. CASE ~started
    <2>1. NotStarted
      BY <1>2 DEF AggregateInv
    <2>2. Untouched'
      BY <1>1, <2>1 DEF NotStarted, Untouched
    <2> QED BY <1>1, <1>2, <2>1, <2>2 DEF AggregateInv, NotStarted
  <1>3. CASE started
    <2>1. Gathered
      BY <1>3 DEF AggregateInv
    <2>2. /\ Total' = Total
          /\ Window(plan, ItemsOf(Total))' = Window(plan, ItemsOf(Total))
      BY <1>1, TotalStays
    <2>3. Totals(plan.aggregate)' = Totals(plan.aggregate)
      BY <1>1 DEF Totals, Partials
    <2>4. aggregateValuesIndex # -1
      BY <2>1 DEF Gathered
    <2>5. Gathered'
      BY <1>1, <2>1, <2>2, <2>3, <2>4 DEF Gathered
    <2> QED BY <1>1, <1>3, <2>5 DEF AggregateInv
  <1> QED BY <1>2, <1>3

LEMMA DataStays == DataInv /\ UNCHANGED <<query, ordered>> => DataInv'
  BY DEF DataInv, DataTyped, query

LEMMA SourceStays == SourceInv /\ UNCHANGED source => SourceInv'
  BY DEF SourceInv, source

LEMMA LimitReachedKeeps == Intact /\ ~failed /\ LimitReached => Intact'
  <1> SUFFICES ASSUME Intact, ~failed, LimitReached PROVE Intact'
    OBVIOUS
  <1>1. /\ phase = "item" /\ offset = 0 /\ limit = 0 /\ aggregateHeaders' = 0
        /\ UNCHANGED <<query, source, aggregate, limits, respHeaders>>
        /\ Distinct(Undefined, 0)
    BY DEF LimitReached
  <1>2. /\ DataInv /\ SourceInv /\ CallerInv /\ LimitsInv /\ ChargeInv
        /\ plan.aggregate = "None" => RowInv
        /\ plan.aggregate # "None" => AggregateInv
    BY DEF Intact
  <1>3. Handed(Undefined, 0)
    <2>1. 0 \in Nat /\ Offered(Undefined) /\ ChargeTyped
      BY <1>2 DEF Offered, ChargeInv
    <2> QED BY <1>1, <1>2, <2>1, DistinctDoes
  <1>4. /\ CallerInv' /\ phase' # "gather" /\ failed' = failed /\ Given' = Given
        /\ hashedResults' = hashedResults
        /\ SettledTyped' /\ fetchMoreRespHeaders' \in Nat
        /\ Settled' + fetchMoreRespHeaders'
                = Settled + fetchMoreRespHeaders + 0
    BY <1>3 DEF Handed, Takes, Hashed
  <1>5. /\ plan' = plan /\ values' = values /\ delivered' = delivered
        /\ outcome' = outcome /\ ordered' = ordered /\ respHeaders' = respHeaders
        /\ top' = top /\ offset' = offset /\ limit' = limit
    BY <1>1 DEF query, source, limits
  <1>6. DataInv' /\ SourceInv' /\ LimitsInv'
    BY <1>1, <1>2, <1>5, DataStays, SourceStays DEF LimitsInv
  <1>7. ChargeInv'
    <2>1. /\ SettledTyped /\ fetchMoreRespHeaders \in Nat
          /\ respHeaders \in Nat /\ aggregateHeaders \in Nat
          /\ plan.limit # 0 => aggregateHeaders = 0
      BY <1>1, <1>2 DEF ChargeInv, ChargeTyped
    <2>2. ChargeTyped'
      BY <1>1, <1>4, <1>5, <2>1 DEF ChargeTyped
    <2>3. plan.limit # 0 =>
            Settled + fetchMoreRespHeaders + aggregateHeaders + respHeaders = Due
      BY <1>2, ChargesAre DEF ChargeInv
    <2>4. Due' = Due
      BY <1>5 DEF Due
    <2>5. plan.limit # 0 =>
            Settled' + fetchMoreRespHeaders' + aggregateHeaders' + respHeaders'
                = Due'
      <3> DEFINE p == Settled'
                 f == fetchMoreRespHeaders'
      <3>1. p \in Nat /\ f \in Nat /\ p + f = Settled + fetchMoreRespHeaders + 0
        BY <1>4 DEF SettledTyped
      <3> HIDE DEF p, f
      <3>2. plan.limit # 0 => p + f + 0 + respHeaders = Due
        BY <2>1, <2>3, <3>1 DEF SettledTyped
      <3> QED BY <1>1, <1>5, <2>4, <3>2 DEF p, f
    <2>6. ChargesAddUp'
      BY <1>4, <1>5, <2>5 DEF ChargesAddUp, Due, Settled
    <2> QED BY <1>1, <1>5, <2>2, <2>6 DEF ChargeInv
  <1>8. plan.aggregate = "None" => RowInv'
    BY <1>2, <1>4, <1>5, RowsStay DEF RowInv
  <1>9. plan.aggregate # "None" => AggregateInv'
    <2>1. ~LimitsAllow /\ UNCHANGED <<query, source, aggregate, top>>
      BY <1>1, <1>5 DEF LimitsAllow
    <2> QED BY <1>1, <1>2, <1>4, <1>5, <2>1, AggregateStays
  <1> QED BY <1>4, <1>5, <1>6, <1>7, <1>8, <1>9 DEF Intact

LEMMA TopReachedKeeps == Intact /\ ~failed /\ TopReached => Intact'
  <1> SUFFICES ASSUME Intact, ~failed, TopReached PROVE Intact'
    OBVIOUS
  <1>1. /\ phase = "item" /\ top = 0 /\ OffsetLimit(Undefined, 0)
        /\ UNCHANGED <<query, source, aggregate, top, respHeaders>>
    BY DEF TopReached
  <1>2. /\ DataInv /\ SourceInv /\ CallerInv /\ LimitsInv /\ ChargeInv
        /\ plan.aggregate = "None" => RowInv
        /\ plan.aggregate # "None" => AggregateInv
    BY DEF Intact
  <1>3. /\ plan' = plan /\ values' = values /\ delivered' = delivered
        /\ outcome' = outcome /\ ordered' = ordered /\ respHeaders' = respHeaders
        /\ top' = top
    BY <1>1 DEF query, source
  <1>4. CallerInv' /\ LimitsInv' /\ ChargeInv' /\ Offsets(Undefined, 0)
    <2>1. Due' = Due
      BY <1>3 DEF Due
    <2>2. 0 \in Nat /\ Offered(Undefined) /\ respHeaders \in Nat /\ Due \in Nat
          /\ top \in Numeric
      BY <1>2, DueTyped DEF Offered, ChargeInv, ChargeTyped, LimitsInv
    <2>3. /\ respHeaders' \in Nat /\ Due' \in Nat /\ top' \in Numeric
          /\ Due' + respHeaders = Due + 0 + respHeaders'
      BY <1>3, <2>1, <2>2
    <2> QED BY <1>1, <1>2, <1>3, <2>2, <2>3, ItemPasses
  <1>5. Given' = Given /\ hashedResults' = hashedResults /\ phase' # "gather"
    BY <1>4, NothingPasses
  <1>6. DataInv' /\ SourceInv'
    BY <1>1, <1>2, <1>3, DataStays, SourceStays
  <1>7. plan.aggregate = "None" => RowInv'
    <2> SUFFICES ASSUME plan.aggregate = "None" PROVE RowInv'
      OBVIOUS
    <2>1. RowInv
      BY <1>2
    <2>2. outcome' = "running" => Spent(plan, Len(delivered), top', offset', limit')
      BY <1>1, <1>3, <2>1 DEF RowInv, Spent
    <2> QED BY <1>3, <1>5, <2>1, <2>2, RowsStay
  <1>8. plan.aggregate # "None" => AggregateInv'
    <2>1. ~LimitsAllow
      BY <1>1 DEF LimitsAllow
    <2> QED BY <1>1, <1>2, <1>5, <2>1, AggregateStays
  <1> QED BY <1>3, <1>4, <1>6, <1>7, <1>8 DEF Intact

-----------------------------------------------------------------------------
(* Rows *)

LEMMA ValuesAre ==
    ASSUME DataTyped, NEW rows \in Seq(Rows)
    PROVE  /\ ValuesOf(rows) \in Seq(AllValues)
           /\ Len(ValuesOf(rows)) = Len(rows)
           /\ \A i \in 1..Len(rows) : ValuesOf(rows)[i] = values[rows[i]]
           /\ \A r \in Rows : values[r] \in AllValues
           /\ \A r \in Rows : ValuesOf(Append(rows, r)) = Append(ValuesOf(rows), values[r])
  <1>1. \A r \in Rows : values[r] \in AllValues
    BY DEF DataTyped, AllValues
  <1>2. DOMAIN rows = 1..Len(rows) /\ Len(rows) \in Nat
        /\ \A i \in 1..Len(rows) : rows[i] \in Rows
    OBVIOUS
  <1>3. /\ ValuesOf(rows) \in Seq(AllValues)
        /\ Len(ValuesOf(rows)) = Len(rows)
        /\ \A i \in 1..Len(rows) : ValuesOf(rows)[i] = values[rows[i]]
    BY <1>1, <1>2 DEF ValuesOf
  <1>4. ASSUME NEW r \in Rows
        PROVE  ValuesOf(Append(rows, r)) = Append(ValuesOf(rows), values[r])
    <2> DEFINE s == Append(rows, r)
               n == Len(rows)
               t == ValuesOf(rows)
               v == values[r]
    <2>1. s \in Seq(Rows) /\ Len(s) = n + 1 /\ s[n + 1] = r /\ n \in Nat
          /\ \A i \in 1..n : s[i] = rows[i]
      OBVIOUS
    <2>2. DOMAIN s = 1..(n + 1) /\ \A i \in 1..(n + 1) : s[i] \in Rows
      BY <2>1
    <2> HIDE DEF s
    <2>3. /\ ValuesOf(s) \in Seq(AllValues) /\ Len(ValuesOf(s)) = n + 1
          /\ \A i \in 1..(n + 1) : ValuesOf(s)[i] = values[s[i]]
      BY <1>1, <2>1, <2>2 DEF ValuesOf
    <2>4. t \in Seq(AllValues) /\ Len(t) = n /\ (\A i \in 1..n : t[i] = values[rows[i]])
          /\ v \in AllValues
      BY <1>1, <1>3
    <2> HIDE DEF t, v, n
    <2>5. /\ Append(t, v) \in Seq(AllValues) /\ Len(Append(t, v)) = n + 1
          /\ Append(t, v)[n + 1] = v /\ \A i \in 1..n : Append(t, v)[i] = t[i]
      BY <2>4
    <2>6. ASSUME NEW i \in 1..(n + 1) PROVE ValuesOf(s)[i] = Append(t, v)[i]
      <3>1. CASE i \in 1..n
        <4>1. ValuesOf(s)[i] = values[rows[i]]
          BY <2>1, <2>3, <3>1
        <4> QED BY <2>4, <2>5, <3>1, <4>1
      <3>2. CASE i = n + 1
        BY <2>1, <2>3, <2>5, <3>2 DEF v
      <3>3. i \in 1..n \/ i = n + 1
        BY <2>1
      <3> QED BY <3>1, <3>2, <3>3, Zenon
    <2>7. ValuesOf(s) = Append(t, v)
      BY <2>3, <2>5, <2>6, SameSeq
    <2> QED BY <2>7 DEF s, t, v
  <1> QED BY <1>1, <1>3, <1>4

\* DISTINCT has met a value before if it remembers it, and remembers what it must.
LEMMA RemembersMore ==
    ASSUME NEW p, p.distinct # "None", NEW S, NEW s \in Seq(S), NEW v \in S,
           NEW hashed, Remembers(p, hashed, s),
           p.distinct = "Ordered" =>
                v \in Int /\ \A i \in DOMAIN s : s[i] \in Int /\ s[i] <= v
    PROVE  /\ Repeated(v, s) <=> v \notin Falsy /\ v \in hashed
           /\ Remembers(p, IF v \in Falsy \/ v \in hashed THEN hashed
                           ELSE IF p.distinct = "Ordered" THEN {v}
                                ELSE hashed \union {v}, Append(s, v))
  <1> DEFINE n == Len(s)
             t == Append(s, v)
             more == IF v \in Falsy \/ v \in hashed THEN hashed
                     ELSE IF p.distinct = "Ordered" THEN {v} ELSE hashed \union {v}
  <1>1. /\ n \in Nat /\ DOMAIN s = 1..n /\ DOMAIN t = 1..(n + 1)
        /\ t[n + 1] = v /\ \A i \in 1..n : t[i] = s[i]
    OBVIOUS
  <1>2. /\ \A h \in hashed : h \notin Falsy /\ \E i \in 1..n : s[i] = h
        /\ \A i \in 1..n : s[i] \notin Falsy =>
                IF p.distinct = "Ordered" THEN \E h \in hashed : s[i] <= h
                                          ELSE s[i] \in hashed
    BY <1>1 DEF Remembers
  <1>3. p.distinct = "Ordered" => v \in Int /\ \A i \in 1..n : s[i] \in Int /\ s[i] <= v
    BY <1>1
  <1>4. \A i \in 1..(n + 1) : i \in 1..n \/ i = n + 1
    BY <1>1
  <1>5. 1..n \subseteq 1..(n + 1) /\ n + 1 \in 1..(n + 1)
    BY <1>1
  <1> HIDE DEF n, t
  <1>6. ASSUME v \notin Falsy, NEW j \in 1..n, s[j] = v PROVE v \in hashed
    <2>1. CASE p.distinct = "Ordered"
      <3>1. PICK h \in hashed : s[j] <= h
        BY <1>2, <1>6, <2>1
      <3>2. PICK i \in 1..n : s[i] = h
        BY <1>2
      <3>3. s[i] \in Int /\ s[i] <= v /\ v \in Int /\ v <= s[i]
        BY <1>3, <1>6, <2>1, <3>1, <3>2
      <3>4. s[i] = v
        BY <3>3
      <3> QED BY <3>2, <3>4
    <2>2. CASE p.distinct # "Ordered"
      BY <1>2, <1>6, <2>2
    <2> QED BY <2>1, <2>2
  <1>7. Repeated(v, s) <=> v \notin Falsy /\ v \in hashed
    BY <1>1, <1>2, <1>6 DEF Repeated
  <1>8. \A h \in more : h \notin Falsy /\ \E i \in 1..(n + 1) : t[i] = h
    <2> SUFFICES ASSUME NEW h \in more
                 PROVE  h \notin Falsy /\ \E i \in 1..(n + 1) : t[i] = h
      OBVIOUS
    <2>1. CASE h \in hashed
      BY <1>1, <1>2, <1>5, <2>1
    <2>2. CASE h \notin hashed
      <3>1. h = v /\ v \notin Falsy
        BY <2>2
      <3> QED BY <1>1, <1>5, <3>1
    <2> QED BY <2>1, <2>2
  <1>9. ASSUME NEW i \in 1..(n + 1), t[i] \notin Falsy
        PROVE  IF p.distinct = "Ordered" THEN \E h \in more : t[i] <= h
                                         ELSE t[i] \in more
    <2>1. CASE p.distinct = "Ordered"
      <3>1. v \in Int /\ v <= v /\ t[i] <= v
        BY <1>1, <1>3, <1>4, <2>1
      <3>2. CASE v \in more
        BY <2>1, <3>1, <3>2
      <3>3. CASE v \notin more
        <4>1. more = hashed /\ v \in Falsy
          BY <2>1, <3>3
        <4>2. i \in 1..n /\ t[i] = s[i]
          BY <1>1, <1>4, <1>9, <4>1
        <4>3. \E h \in hashed : s[i] <= h
          BY <1>2, <1>9, <2>1, <4>2
        <4> HIDE DEF more
        <4> QED BY <2>1, <4>1, <4>2, <4>3
      <3> QED BY <3>2, <3>3
    <2>2. CASE p.distinct # "Ordered"
      <3>1. CASE i \in 1..n
        <4>1. t[i] \in hashed
          BY <1>1, <1>2, <1>9, <2>2, <3>1
        <4> QED BY <2>2, <4>1
      <3>2. CASE i = n + 1
        <4>1. t[i] = v /\ v \notin Falsy
          BY <1>1, <1>9, <3>2
        <4> QED BY <2>2, <4>1
      <3> QED BY <1>4, <3>1, <3>2
    <2> QED BY <2>1, <2>2
  <1> HIDE DEF more
  <1>10. Remembers(p, more, t)
    BY <1>1, <1>8, <1>9 DEF Remembers
  <1> QED BY <1>7, <1>10 DEF more, t

\* As long as no limit is reached, OFFSET skips the rows the limits do not let
\* through.
LEMMA LimitsFollow ==
    ASSUME NEW p \in Plans, NEW n \in Nat, top \in Numeric, offset \in Nat,
           limit \in Numeric, Spent(p, n, top, offset, limit), LimitsAllow
    PROVE  /\ Lets(p, n) <=> offset = 0
           /\ \A t, o, l :
                /\ t = Less(top) /\ o = Less(offset)
                /\ l = IF offset > 0 THEN limit ELSE Less(limit)
                => Spent(p, n + 1, t, o, l)
  <1>1. p.top \in Numeric /\ p.offset \in Nat /\ p.limit \in Numeric
    BY PlanTyped
  <1>2. /\ top # 0 /\ (offset > 0 \/ limit # 0)
        /\ top = IF p.top = NoLimit THEN NoLimit ELSE p.top - n
        /\ p.top # NoLimit => n <= p.top
        /\ offset = IF n < p.offset THEN p.offset - n ELSE 0
        /\ limit = IF p.limit = NoLimit THEN NoLimit
                   ELSE IF n < p.offset THEN p.limit ELSE p.limit - (n - p.offset)
        /\ p.limit # NoLimit => n <= p.offset + p.limit
    BY DEF LimitsAllow, Spent
  <1>3. Lets(p, n) <=> offset = 0
    BY <1>1, <1>2 DEF Lets, Numeric, NoLimit
  <1>4. ASSUME NEW t, NEW o, NEW l, t = Less(top), o = Less(offset),
               l = IF offset > 0 THEN limit ELSE Less(limit)
        PROVE  Spent(p, n + 1, t, o, l)
    BY <1>1, <1>2, <1>4 DEF Spent, Less, Numeric, NoLimit
  <1> QED BY <1>3, <1>4


\* A row of the source, offered to the limits and to DISTINCT.
LEMMA RowMore ==
    ASSUME Intact, plan.aggregate = "None", LimitsAllow, outcome = "running",
           NEW row \in outstanding, NEW v, v = values[row],
           ordered => \A other \in outstanding : row <= other,
           delivered' = Append(delivered, row),
           outcome' = outcome, plan' = plan, values' = values,
           top' = Less(top), Offsets(v, 1)
    PROVE  RowInv'
  <1> DEFINE n == Len(delivered)
             s == ValuesOf(delivered)
             w == Window(plan, s)
             x == Window(plan, Append(s, v))
  <1>1. /\ DataInv /\ SourceInv /\ CallerInv /\ LimitsInv /\ ChargeInv /\ RowInv
        /\ DataTyped /\ plan \in Plans
        /\ delivered \in Seq(Rows) /\ row \in Rows /\ n \in Nat
    BY DEF Intact, DataInv, DataTyped, SourceInv
  <1>2. /\ s \in Seq(AllValues) /\ v \in AllValues /\ Len(s) = n
        /\ \A i \in 1..n : s[i] = values[delivered[i]]
        /\ ValuesOf(Append(delivered, row)) = Append(s, v)
    BY <1>1, ValuesAre
  <1>3. ValuesOf(delivered)' = Append(s, v)
    BY <1>2 DEF ValuesOf
  <1>4. /\ Spent(plan, n, top, offset, limit)
        /\ Given = Shown(plan, w)
        /\ plan.distinct # "None" => Remembers(plan, hashedResults, w)
    BY <1>1 DEF RowInv
  <1> HIDE DEF s, w, x
  <1>5. /\ phase' # "gather" /\ offset' = Less(offset)
        /\ limit' = IF offset > 0 THEN limit ELSE Less(limit)
        /\ Given' = IF offset = 0 /\ Takes(v) THEN Append(Given, v) ELSE Given
        /\ hashedResults' = IF offset = 0 THEN Hashed(v) ELSE hashedResults
    BY DEF Offsets
  <1>6. /\ Lets(plan, n) <=> offset = 0
        /\ Spent(plan, n + 1, top', offset', limit')
    <2> DEFINE t == top'
               o == offset'
               l == limit'
    <2>1. /\ t = Less(top) /\ o = Less(offset)
          /\ l = IF offset > 0 THEN limit ELSE Less(limit)
      BY <1>5
    <2>2. top \in Numeric /\ offset \in Nat /\ limit \in Numeric
      BY <1>1 DEF LimitsInv
    <2> HIDE DEF t, o, l, n
    <2>3. (Lets(plan, n) <=> offset = 0) /\ Spent(plan, n + 1, t, o, l)
      BY <1>1, <1>4, <2>1, <2>2, LimitsFollow
    <2> QED BY <2>3 DEF t, o, l
  <1>7. x = IF offset = 0 THEN Append(w, v) ELSE w
    <2> HIDE DEF n
    <2>1. x = IF Lets(plan, Len(s)) THEN Append(w, v) ELSE w
      BY <1>1, <1>2, WindowGrows DEF w, x
    <2> QED BY <1>2, <1>6, <2>1
  <1>8. v # Undefined
    <2>1. v \in ValuesFor(plan)
      BY <1>1 DEF DataTyped
    <2> QED BY <1>1, <2>1, ValuesAssumption
  <1>9. w \in Seq(AllValues)
    BY <1>1, <1>2, WindowIs DEF w
  <1>10. plan.distinct = "Ordered" =>
            v \in Int /\ \A i \in DOMAIN w : w[i] \in Int /\ w[i] <= v
    <2> SUFFICES ASSUME plan.distinct = "Ordered"
                 PROVE  v \in Int /\ \A i \in DOMAIN w : w[i] \in Int /\ w[i] <= v
      OBVIOUS
    <2>1. \A r \in Rows : values[r] \in Int
      <3> SUFFICES ASSUME NEW r \in Rows PROVE values[r] \in Int
        OBVIOUS
      <3>1. values[r] \in ValuesFor(plan)
        BY <1>1 DEF DataTyped
      <3> QED BY <1>1, <3>1, ValuesAssumption
    <2>2. \A i \in 1..n : delivered[i] \in Rows /\ delivered[i] <= row
      BY <1>1 DEF DataInv, SourceInv
    <2>3. \A i \in 1..n : values[delivered[i]] <= v
      <3> SUFFICES ASSUME NEW i \in 1..n PROVE values[delivered[i]] <= v
        OBVIOUS
      <3>1. delivered[i] \in Rows /\ delivered[i] <= row
        BY <2>2
      <3>2. delivered[i] \in Int /\ row \in Int
        BY <1>1, <3>1, RowsAre
      <3>3. CASE delivered[i] = row
        BY <1>1, <2>1, <3>3
      <3>4. CASE delivered[i] < row
        BY <1>1, <3>1, <3>4 DEF DataInv
      <3> QED BY <3>1, <3>2, <3>3, <3>4
    <2>4. \A i \in DOMAIN w : \E j \in 1..n : w[i] = s[j]
      <3> SUFFICES ASSUME NEW i \in DOMAIN w PROVE \E j \in 1..n : w[i] = s[j]
        OBVIOUS
      <3> HIDE DEF n
      <3>1. DOMAIN w = 1..Len(w)
        BY <1>9
      <3>2. /\ Len(w) = IF plan.offset < End(plan, n) THEN End(plan, n) - plan.offset
                                                     ELSE 0
            /\ \A k \in 1..Len(w) : w[k] = s[plan.offset + k]
        BY <1>1, <1>2, WindowIs DEF w
      <3>3. End(plan, n) \in 0..n /\ plan.offset \in Nat
        BY <1>1, EndIs, PlanTyped
      <3>4. plan.offset + i \in 1..n
        BY <1>1, <3>1, <3>2, <3>3
      <3> QED BY <3>1, <3>2, <3>4
    <2>5. \A j \in 1..n : s[j] \in Int /\ s[j] <= v
      BY <1>2, <2>1, <2>2, <2>3
    <2>6. v \in Int
      BY <1>1, <2>1
    <2> QED BY <2>4, <2>5, <2>6
  <1>11. Given' = Shown(plan, x) /\ (plan.distinct # "None" =>
                                        Remembers(plan, hashedResults', x))
    <2>1. CASE offset # 0
      <3>1. x = w /\ Given' = Given /\ hashedResults' = hashedResults
        BY <1>5, <1>7, <2>1
      <3> QED BY <1>4, <3>1
    <2>2. CASE offset = 0 /\ plan.distinct = "None"
      <3>1. Takes(v)
        BY <1>8, <2>2 DEF Takes
      <3>2. x = Append(w, v) /\ Given' = Append(Given, v)
        BY <1>5, <1>7, <2>2, <3>1
      <3> QED BY <1>4, <2>2, <3>2 DEF Shown
    <2>3. CASE offset = 0 /\ plan.distinct # "None"
      <3> DEFINE more == IF v \in Falsy \/ v \in hashedResults THEN hashedResults
                         ELSE IF plan.distinct = "Ordered" THEN {v}
                              ELSE hashedResults \union {v}
      <3>1. x = Append(w, v) /\ hashedResults' = Hashed(v)
            /\ Given' = IF Takes(v) THEN Append(Given, v) ELSE Given
        BY <1>5, <1>7, <2>3
      <3>2. Hashed(v) = more
        BY <1>8, <2>3 DEF Hashed
      <3>3. /\ Repeated(v, w) <=> v \notin Falsy /\ v \in hashedResults
            /\ Remembers(plan, more, Append(w, v))
        <4>1. Remembers(plan, hashedResults, w)
          BY <1>4, <2>3
        <4> QED BY <1>2, <1>9, <1>10, <2>3, <4>1, RemembersMore
      <3>4. Takes(v) <=> ~Repeated(v, w)
        BY <1>8, <2>3, <3>3 DEF Takes
      <3>5. Once(x) = IF Repeated(v, w) THEN Once(w) ELSE Append(Once(w), v)
        BY <1>2, <1>9, <3>1, OnceAppend
      <3>6. Given = Once(w) /\ Shown(plan, x) = Once(x)
        BY <1>4, <2>3 DEF Shown
      <3> HIDE DEF more
      <3>7. Given' = Shown(plan, x)
        BY <3>1, <3>4, <3>5, <3>6
      <3>8. Remembers(plan, hashedResults', x)
        BY <3>1, <3>2, <3>3
      <3> QED BY <3>7, <3>8
    <2> QED BY <2>1, <2>2, <2>3
  <1>12. Window(plan, ValuesOf(delivered))' = x
    BY <1>3 DEF Window, End, x
  <1>13. Shown(plan, Window(plan, ValuesOf(delivered)))' = Shown(plan, x)
    BY <1>12 DEF Shown
  <1>14. Remembers(plan, hashedResults, Window(plan, ValuesOf(delivered)))'
            <=> Remembers(plan, hashedResults', x)
    BY <1>12 DEF Remembers
  <1>15. Spent(plan, Len(delivered), top, offset, limit)'
    <2>1. Len(delivered') = n + 1
      BY <1>1
    <2> HIDE DEF n
    <2>2. Spent(plan, Len(delivered'), top', offset', limit')
      BY <1>6, <2>1
    <2> QED BY <2>2 DEF Spent
  <1> HIDE DEF n
  <1> QED BY <1>5, <1>11, <1>13, <1>14, <1>15, Zenon DEF RowInv

LEMMA RunningDue ==
    ASSUME delivered \in Seq(Rows), NEW row \in Rows,
           delivered' = Append(delivered, row), outcome = "running",
           outcome' = outcome
    PROVE  Due' = Due + 1 /\ Due \in Nat
  <1>1. Len(delivered) \in Nat /\ Len(delivered') = Len(delivered) + 1
    OBVIOUS
  <1> QED BY <1>1 DEF Due

LEMMA DeliverKeeps ==
    ASSUME SourceInv, Source!Deliver
    PROVE  /\ SourceInv' /\ outcome = "running" /\ outcome' = outcome
           /\ ordered' = ordered
           /\ \E row \in outstanding :
                /\ row \in Rows
                /\ delivered' = Append(delivered, row)
                /\ outstanding' = outstanding \ {row}
                /\ Last(delivered') = row
                /\ ordered => \A other \in outstanding : row <= other
  <1>1. /\ delivered \in Seq(Rows) /\ outstanding \in SUBSET Rows
        /\ ordered => \A i \in DOMAIN delivered, r \in outstanding : delivered[i] <= r
    BY DEF SourceInv
  <1>2. outcome = "running" /\ outcome' = outcome /\ ordered' = ordered
    BY DEF Source!Deliver
  <1>3. PICK row \in outstanding :
            /\ ordered => \A other \in outstanding : row <= other
            /\ outstanding' = outstanding \ {row}
            /\ delivered' = Append(delivered, row)
    BY DEF Source!Deliver
  <1> DEFINE n == Len(delivered)
  <1>4. /\ delivered' \in Seq(Rows) /\ Len(delivered') = n + 1 /\ n \in Nat
        /\ delivered'[n + 1] = row /\ \A i \in 1..n : delivered'[i] = delivered[i]
        /\ DOMAIN delivered = 1..n /\ DOMAIN (delivered') = 1..(n + 1)
    BY <1>1, <1>3
  <1> HIDE DEF n
  <1>5. ordered => \A i \in DOMAIN (delivered'), r \in outstanding' : delivered'[i] <= r
    <2> SUFFICES ASSUME ordered, NEW i \in 1..(n + 1), NEW r \in outstanding \ {row}
                 PROVE  delivered'[i] <= r
      BY <1>3, <1>4
    <2>1. CASE i \in 1..n
      BY <1>1, <1>4, <2>1
    <2>2. CASE i = n + 1
      BY <1>3, <1>4, <2>2
    <2>3. n \in Nat
      BY <1>4
    <2> QED BY <2>1, <2>2, <2>3
  <1>6. SourceInv'
    BY <1>1, <1>2, <1>3, <1>4, <1>5 DEF SourceInv
  <1>7. Last(delivered') = row
    BY <1>4 DEF Last
  <1> QED BY <1>1, <1>2, <1>3, <1>6, <1>7

LEMMA SourceItemKeeps == Intact /\ ~failed /\ SourceItem => Intact'
  <1> SUFFICES ASSUME Intact, ~failed, SourceItem PROVE Intact'
    OBVIOUS
  <1>1. /\ phase = "item" /\ LimitsAllow /\ plan.aggregate = "None"
        /\ Source!Deliver
        /\ Top(values[Last(delivered')], 1)
        /\ UNCHANGED <<query, aggregate, respHeaders>>
    BY DEF SourceItem, AsksSource, LimitsAllow
  <1>2. /\ DataInv /\ SourceInv /\ CallerInv /\ LimitsInv /\ ChargeInv
        /\ plan.aggregate = "None" => RowInv
    BY DEF Intact
  <1>3. PICK row \in outstanding :
            /\ row \in Rows
            /\ delivered' = Append(delivered, row)
            /\ outstanding' = outstanding \ {row}
            /\ Last(delivered') = row
            /\ ordered => \A other \in outstanding : row <= other
    BY <1>1, <1>2, DeliverKeeps
  <1>4. SourceInv' /\ outcome = "running" /\ outcome' = outcome /\ ordered' = ordered
    BY <1>1, <1>2, DeliverKeeps
  <1>5. PICK v : v = values[row]
    OBVIOUS
  <1>6. top' = Less(top) /\ OffsetLimit(v, 1)
    BY <1>1, <1>3, <1>5 DEF Top
  <1>7. /\ plan' = plan /\ values' = values /\ respHeaders' = respHeaders
        /\ UNCHANGED <<query, ordered>>
    BY <1>1, <1>4 DEF query
  <1>8. CallerInv' /\ LimitsInv' /\ ChargeInv' /\ Offsets(v, 1)
    <2>1. Due' = Due + 1 /\ Due \in Nat
      BY <1>2, <1>3, <1>4, RunningDue DEF SourceInv
    <2>2. 1 \in Nat /\ Offered(v) /\ respHeaders \in Nat /\ top' \in Numeric
      <3>1. v \in AllValues
        BY <1>2, <1>3, <1>5 DEF DataInv, DataTyped, AllValues
      <3> QED BY <1>2, <1>6, <3>1
              DEF Offered, ChargeInv, ChargeTyped, LimitsInv, Less, Numeric, NoLimit
    <2>3. /\ respHeaders' \in Nat /\ Due' \in Nat
          /\ Due' + respHeaders = Due + 1 + respHeaders'
      BY <1>7, <2>1, <2>2
    <2> QED BY <1>1, <1>2, <1>6, <1>7, <2>2, <2>3, ItemPasses
  <1>9. DataInv'
    BY <1>2, <1>7, DataStays
  <1>10. RowInv'
    BY <1>1, <1>3, <1>4, <1>5, <1>6, <1>7, <1>8, RowMore
  <1> QED BY <1>1, <1>4, <1>7, <1>8, <1>9, <1>10 DEF Intact

LEMMA SourceEndsKeeps == Intact /\ ~failed /\ SourceEnds => Intact'
  <1> SUFFICES ASSUME Intact, ~failed, SourceEnds PROVE Intact'
    OBVIOUS
  <1>1. /\ phase = "item" /\ LimitsAllow /\ plan.aggregate = "None"
        /\ \/ Source!End /\ Top(Undefined, 1)
           \/ outcome = "ended" /\ Top(Undefined, 0) /\ UNCHANGED source
        /\ UNCHANGED <<query, aggregate, respHeaders>>
    BY DEF SourceEnds, AsksSource, LimitsAllow
  <1>2. /\ DataInv /\ SourceInv /\ CallerInv /\ LimitsInv /\ ChargeInv
        /\ plan.aggregate = "None" => RowInv
    BY DEF Intact
  <1>3. PICK charge \in {0, 1} :
            /\ Top(Undefined, charge)
            /\ outcome' = "ended" /\ delivered' = delivered /\ outstanding' = outstanding
            /\ ordered' = ordered /\ outstanding = {}
            /\ charge = IF outcome = "ended" THEN 0 ELSE 1
    <2>1. CASE Source!End /\ Top(Undefined, 1)
      BY <2>1 DEF Source!End
    <2>2. CASE outcome = "ended" /\ Top(Undefined, 0) /\ UNCHANGED source
      BY <1>2, <2>2 DEF source, SourceInv
    <2> QED BY <1>1, <2>1, <2>2
  <1>4. top' = Less(top) /\ OffsetLimit(Undefined, charge)
    BY <1>3 DEF Top
  <1>5. /\ plan' = plan /\ values' = values /\ respHeaders' = respHeaders
        /\ UNCHANGED <<query, ordered>>
    BY <1>1, <1>3 DEF query
  <1>6. SourceInv'
    BY <1>2, <1>3 DEF SourceInv
  <1>7. CallerInv' /\ LimitsInv' /\ ChargeInv' /\ Offsets(Undefined, charge)
    <2>1. Due' = Due + charge /\ Due \in Nat
      BY <1>1, <1>2, <1>3, <1>5 DEF Due, SourceInv
    <2>2. charge \in Nat /\ Offered(Undefined) /\ respHeaders \in Nat /\ top' \in Numeric
      BY <1>2, <1>3, <1>4
         DEF Offered, ChargeInv, ChargeTyped, LimitsInv, Less, Numeric, NoLimit
    <2>3. /\ respHeaders' \in Nat /\ Due' \in Nat
          /\ Due' + respHeaders = Due + charge + respHeaders'
      BY <1>5, <2>1, <2>2
    <2> QED BY <1>1, <1>2, <1>4, <1>5, <2>2, <2>3, ItemPasses
  <1>8. DataInv'
    BY <1>2, <1>5, DataStays
  <1>9. Given' = Given /\ hashedResults' = hashedResults /\ phase' # "gather"
    BY <1>7, NothingPasses
  <1>10. RowInv'
    BY <1>1, <1>2, <1>3, <1>5, <1>9, RowsStay
  <1> QED BY <1>1, <1>5, <1>6, <1>7, <1>8, <1>10 DEF Intact

-----------------------------------------------------------------------------
(* Aggregates *)

LEMMA StartGatheringKeeps == Intact /\ ~failed /\ StartGathering => Intact'
  <1> SUFFICES ASSUME Intact, ~failed, StartGathering PROVE Intact'
    OBVIOUS
  <1>1. /\ phase = "item" /\ LimitsAllow /\ plan.aggregate # "None" /\ ~started
        /\ started' = TRUE /\ phase' = "gather"
        /\ UNCHANGED <<query, source, partials, aggregateValues, aggregateValuesIndex,
                       limits, hashedResults, fetchBuffer, output, failed, charges>>
    BY DEF StartGathering, AsksSource, LimitsAllow
  <1>2. /\ plan' = plan /\ values' = values /\ partials' = partials
        /\ aggregateValues' = aggregateValues
        /\ aggregateValuesIndex' = aggregateValuesIndex
        /\ top' = top /\ offset' = offset /\ limit' = limit
        /\ hashedResults' = hashedResults /\ fetchBuffer' = fetchBuffer
        /\ output' = output /\ failed' = failed /\ ordered' = ordered
        /\ outstanding' = outstanding /\ delivered' = delivered /\ outcome' = outcome
        /\ requestCharge' = requestCharge /\ unyielded' = unyielded
        /\ aggregateHeaders' = aggregateHeaders
        /\ fetchMoreRespHeaders' = fetchMoreRespHeaders /\ respHeaders' = respHeaders
        /\ UNCHANGED <<query, ordered>> /\ UNCHANGED source
    BY <1>1 DEF query, source, limits, charges, pageCharges
  <1>3. /\ DataInv /\ SourceInv /\ CallerInv /\ LimitsInv /\ ChargeInv
        /\ plan.aggregate # "None" => AggregateInv
    BY DEF Intact
  <1>4. /\ DataInv' /\ SourceInv'
    BY <1>2, <1>3, DataStays, SourceStays
  <1>5. CallerInv' /\ LimitsInv' /\ ChargeInv'
    BY <1>1, <1>2, <1>3 DEF CallerInv, LimitsInv, ChargeInv, ChargeTyped, SettledTyped,
            Settled, ChargesAddUp
  <1>6. NotStarted
    BY <1>1, <1>3 DEF AggregateInv
  <1>7. plan.aggregate \in Operators
    BY <1>1, <1>3, PlanAssumption DEF DataInv, DataTyped
  <1>8. Aggregate(plan.aggregate, <<>>) = TotalOf(plan.aggregate, Valued \ Rows)
    <2>1. Valued \ Rows = {}
      BY DEF Valued
    <2> QED BY <1>7, <2>1, AggregateOfNothing, TotalOfNone
  <1>9. /\ Untouched' /\ LimitsAllow' /\ aggregateValues' = <<>>
        /\ (plan.aggregate)' = plan.aggregate
    BY <1>1, <1>2, <1>6 DEF NotStarted, Untouched, LimitsAllow, Given
  <1>10. partials' = <<>> /\ partials' \in Seq(Partials(plan'.aggregate))
    BY <1>2, <1>6 DEF NotStarted
  <1>11. Aggregate(plan.aggregate, partials)'
            = TotalOf(plan.aggregate, Valued \ outstanding)'
    <2>1. Aggregate(plan.aggregate, partials)' = Aggregate(plan.aggregate, <<>>)
      BY <1>2, <1>10
    <2>2. (Valued \ outstanding)' = Valued \ Rows
      BY <1>2, <1>6 DEF NotStarted, Valued
    <2>3. TotalOf(plan.aggregate, Valued \ Rows)' = TotalOf(plan.aggregate, Valued \ Rows)
      BY <1>2, TotalStays DEF Valued
    <2>4. TotalOf(plan.aggregate, Valued \ outstanding)'
            = TotalOf(plan.aggregate, Valued \ Rows)
      BY <1>2, <1>6, <2>2, <2>3 DEF NotStarted, Valued
    <2> QED BY <1>8, <2>1, <2>4
  <1>12. Gathering'
    BY <1>1, <1>9, <1>10, <1>11 DEF Gathering
  <1>13. AggregateInv'
    BY <1>1, <1>12 DEF AggregateInv
  <1> QED BY <1>1, <1>2, <1>4, <1>5, <1>13 DEF Intact

LEMMA GatherKeeps == Intact /\ ~failed /\ Gather => Intact'
  <1> SUFFICES ASSUME Intact, ~failed, Gather PROVE Intact'
    OBVIOUS
  <1>1. /\ phase = "gather" /\ Source!Deliver
        /\ partials' = Append(partials, values[Last(delivered')])
        /\ respHeaders' = respHeaders + 1
        /\ UNCHANGED <<query, started, aggregateValues, aggregateValuesIndex, limits,
                       hashedResults, caller, aggregateHeaders, pageCharges>>
    BY DEF Gather, MergeHeaders
  <1>2. /\ DataInv /\ SourceInv /\ CallerInv /\ LimitsInv /\ ChargeInv
        /\ plan.aggregate # "None" /\ AggregateInv
    BY <1>1 DEF Intact, RowInv
  <1>3. PICK row \in outstanding :
            /\ row \in Rows
            /\ delivered' = Append(delivered, row)
            /\ outstanding' = outstanding \ {row}
            /\ Last(delivered') = row
            /\ ordered => \A other \in outstanding : row <= other
    BY <1>1, <1>2, DeliverKeeps
  <1>4. SourceInv' /\ outcome = "running" /\ outcome' = outcome /\ ordered' = ordered
    BY <1>1, <1>2, DeliverKeeps
  <1>5. PICK v : v = values[row]
    OBVIOUS
  <1>6. /\ plan' = plan /\ values' = values /\ started' = started
        /\ aggregateValues' = aggregateValues
        /\ aggregateValuesIndex' = aggregateValuesIndex
        /\ top' = top /\ offset' = offset /\ limit' = limit
        /\ hashedResults' = hashedResults /\ fetchBuffer' = fetchBuffer
        /\ output' = output /\ failed' = failed /\ phase' = phase
        /\ requestCharge' = requestCharge /\ unyielded' = unyielded
        /\ aggregateHeaders' = aggregateHeaders
        /\ fetchMoreRespHeaders' = fetchMoreRespHeaders
        /\ UNCHANGED <<query, ordered>>
    BY <1>1, <1>4 DEF query, limits, caller, pageCharges
  <1>7. DataInv' /\ CallerInv' /\ LimitsInv'
    BY <1>2, <1>6, DataStays DEF CallerInv, LimitsInv
  <1>8. ChargeInv'
    <2>1. Due' = Due + 1 /\ Due \in Nat
      BY <1>2, <1>3, <1>4, RunningDue DEF SourceInv
    <2>2. /\ SettledTyped /\ fetchMoreRespHeaders \in Nat
          /\ aggregateHeaders \in Nat /\ respHeaders \in Nat
      BY <1>2 DEF ChargeInv, ChargeTyped
    <2>3. plan.limit # 0 =>
            Settled + fetchMoreRespHeaders + aggregateHeaders + respHeaders = Due
      BY <1>2, ChargesAre DEF ChargeInv
    <2>4. plan.limit # 0 =>
            Settled + fetchMoreRespHeaders + aggregateHeaders + (respHeaders + 1)
                = Due + 1
      BY <2>1, <2>2, <2>3 DEF SettledTyped
    <2>5. ChargesAddUp'
      BY <1>1, <1>6, <2>1, <2>4 DEF ChargesAddUp, Due, Settled
    <2>6. ChargeTyped'
      BY <1>1, <1>6, <2>2 DEF ChargeTyped, SettledTyped, Settled
    <2> QED BY <1>2, <1>6, <2>5, <2>6 DEF ChargeInv
  <1>9. Gathering
    BY <1>1, <1>2 DEF AggregateInv
  <1> DEFINE op == plan.aggregate
             some == Valued \ outstanding
  <1>10. /\ partials \in Seq(Partials(op)) /\ Aggregate(op, partials) = TotalOf(op, some)
         /\ op \in Operators /\ v \in Partials(op)
    <2>1. DataTyped
      BY <1>2 DEF DataInv
    <2> QED BY <1>2, <1>3, <1>5, <1>9, <2>1, PartialTyped DEF Gathering
  <1>11. partials' = Append(partials, v)
    BY <1>1, <1>3, <1>5
  <1>12. partials' \in Seq(Partials(op))
    <2> HIDE DEF op
    <2> QED BY <1>10, <1>11
  <1>13. Aggregate(op, Append(partials, v)) = Combine(op, TotalOf(op, some), v)
    <2> HIDE DEF op, some
    <2> QED BY <1>10, AggregateAppend
  <1>14. TotalOf(op, Valued \ (outstanding \ {row})) = Combine(op, TotalOf(op, some), v)
    <2>1. DataTyped
      BY <1>2 DEF DataInv
    <2>2. CASE row \in Valued
      <3>1. Valued \ (outstanding \ {row}) = some \union {row}
        BY <1>3, <2>2
      <3>2. some \in SUBSET Valued /\ row \in Valued \ some
        BY <1>3, <2>2
      <3>3. TotalOf(plan.aggregate, some \union {row})
                = Combine(plan.aggregate, TotalOf(plan.aggregate, some), values[row])
        <4> HIDE DEF some
        <4> QED BY <1>2, <2>1, <3>2, TotalOfMore
      <3> QED BY <1>5, <3>1, <3>3
    <2>3. CASE row \notin Valued
      <3>1. Valued \ (outstanding \ {row}) = some
        BY <2>3
      <3>2. row \in Rows \ Valued
        BY <1>3, <2>3
      <3> DEFINE t == TotalOf(op, some)
      <3> HIDE DEF t
      <3>3. Combine(plan.aggregate, t, values[row]) = t
        BY <1>2, <2>1, <3>2, CombineNothing
      <3> QED BY <1>5, <3>1, <3>3 DEF t
    <2> QED BY <2>2, <2>3
  <1>15. Aggregate(plan.aggregate, partials)'
            = TotalOf(plan.aggregate, Valued \ outstanding)'
    <2>1. Aggregate(plan.aggregate, partials)' = Aggregate(plan.aggregate, Append(partials, v))
      BY <1>6, <1>11
    <2>2. /\ Valued' = Valued /\ Numbers' = Numbers
          /\ Sums' = Sums /\ Counts' = Counts
      BY <1>6 DEF Valued, Numbers, Sums, Counts
    <2>3. TotalOf(plan.aggregate, Valued \ outstanding)'
            = TotalOf(plan.aggregate, Valued \ (outstanding \ {row}))
      BY <1>3, <1>6, <2>2 DEF TotalOf
    <2> QED BY <1>13, <1>14, <2>1, <2>3
  <1>16. /\ Untouched' /\ LimitsAllow' /\ started' /\ aggregateValues' = <<>>
    BY <1>6, <1>9 DEF Gathering, Untouched, LimitsAllow, Given
  <1>17. partials' \in Seq(Partials(plan.aggregate))'
    BY <1>6, <1>12 DEF Partials
  <1>18. Gathering'
    BY <1>15, <1>16, <1>17 DEF Gathering
  <1>19. AggregateInv'
    BY <1>1, <1>6, <1>16, <1>18 DEF AggregateInv
  <1> QED BY <1>2, <1>4, <1>6, <1>7, <1>8, <1>19 DEF Intact

LEMMA AllGatheredKeeps == Intact /\ ~failed /\ AllGathered => Intact'
  <1> SUFFICES ASSUME Intact, ~failed, AllGathered PROVE Intact'
    OBVIOUS
  <1>1. /\ phase = "gather" /\ Source!End
        /\ aggregateValues' = <<Aggregate(plan.aggregate, partials)>>
        /\ phase' = "item"
        /\ UNCHANGED <<query, started, partials, aggregateValuesIndex, limits,
                       hashedResults, fetchBuffer, output, failed, charges>>
    BY DEF AllGathered
  <1>2. /\ DataInv /\ SourceInv /\ CallerInv /\ LimitsInv /\ ChargeInv
        /\ plan.aggregate # "None" /\ AggregateInv
    BY <1>1 DEF Intact, RowInv
  <1>3. /\ outstanding = {} /\ outcome' = "ended" /\ ordered' = ordered
        /\ outstanding' = outstanding /\ delivered' = delivered
    BY <1>1 DEF Source!End
  <1>4. /\ plan' = plan /\ values' = values /\ started' = started
        /\ aggregateValuesIndex' = aggregateValuesIndex
        /\ top' = top /\ offset' = offset /\ limit' = limit
        /\ hashedResults' = hashedResults /\ fetchBuffer' = fetchBuffer
        /\ output' = output /\ failed' = failed
        /\ requestCharge' = requestCharge /\ unyielded' = unyielded
        /\ aggregateHeaders' = aggregateHeaders
        /\ fetchMoreRespHeaders' = fetchMoreRespHeaders /\ respHeaders' = respHeaders
        /\ UNCHANGED <<query, ordered>>
    BY <1>1, <1>3 DEF query, limits, charges, pageCharges
  <1>5. DataInv' /\ CallerInv' /\ LimitsInv' /\ SourceInv'
    BY <1>1, <1>2, <1>3, <1>4, DataStays DEF CallerInv, LimitsInv, SourceInv
  <1>6. ChargeInv'
    BY <1>2, <1>3, <1>4 DEF ChargeInv, ChargeTyped, SettledTyped,
            Settled, ChargesAddUp
  <1>7. Gathering
    BY <1>1, <1>2 DEF AggregateInv
  <1>8. Aggregate(plan.aggregate, partials) = Total
    <2>1. Valued \ outstanding = Valued
      BY <1>3
    <2> QED BY <1>7, <2>1 DEF Gathering, Total
  <1>9. Total \in Totals(plan.aggregate)
    <2> DEFINE op == plan.aggregate
               n == Len(partials)
    <2>1. op \in Operators /\ partials \in Seq(Partials(op)) /\ n \in Nat /\ n \in 0..n
      BY <1>2, <1>7, PlanAssumption DEF DataInv, DataTyped, Gathering
    <2> HIDE DEF op
    <2>2. PICK value : Adds(value, op, partials)
      BY <2>1, AggregateIs
    <2>3. Aggregate(op, partials) \in Totals(op)
      BY <2>1, <2>2 DEF Adds
    <2> QED BY <1>8, <2>3 DEF op
  <1>10. Total' = Total
    BY <1>4, TotalStays
  <1>11. Totals(plan.aggregate)' = Totals(plan.aggregate)
    BY <1>4 DEF Totals, Partials
  <1>12. Untouched' /\ LimitsAllow' /\ aggregateValuesIndex' = -1
    BY <1>4, <1>7 DEF Gathering, Untouched, LimitsAllow, Given
  <1>13. Gathered'
    BY <1>1, <1>3, <1>8, <1>9, <1>10, <1>11, <1>12 DEF Gathered
  <1>14. AggregateInv'
    BY <1>1, <1>4, <1>7, <1>13 DEF AggregateInv, Gathering
  <1> QED BY <1>2, <1>4, <1>5, <1>6, <1>14 DEF Intact

\* The window of one value.
LEMMA WindowOfOne ==
    ASSUME NEW p \in Plans, NEW v
    PROVE  /\ Window(p, <<>>) = <<>>
           /\ Window(p, <<v>>) = IF Lets(p, 0) THEN <<v>> ELSE <<>>
  <1> DEFINE s == <<>>
             S == {v}
  <1>1. s \in Seq(S) /\ v \in S /\ Len(s) = 0 /\ Append(s, v) = <<v>>
    OBVIOUS
  <1>2. Window(p, s) = s
    <2> HIDE DEF s, S
    <2>1. 0 \in Nat /\ p.offset \in Nat
      BY PlanTyped
    <2>2. End(p, 0) \in 0..0
      BY <2>1, EndIs
    <2> DEFINE w == Window(p, s)
    <2>3. /\ w \in Seq(S)
          /\ Len(w) = IF p.offset < End(p, Len(s)) THEN End(p, Len(s)) - p.offset ELSE 0
      BY <1>1, WindowIs
    <2> HIDE DEF w
    <2>4. End(p, Len(s)) = 0
      BY <1>1, <2>2
    <2>5. Len(w) = 0
      BY <2>1, <2>3, <2>4
    <2>6. w = s
      BY <1>1, <2>3, <2>5, SameSeq
    <2> QED BY <2>6 DEF w
  <1>3. Window(p, Append(s, v)) = IF Lets(p, Len(s)) THEN Append(Window(p, s), v)
                                                     ELSE Window(p, s)
    <2> HIDE DEF s, S
    <2> QED BY <1>1, WindowGrows
  <1> HIDE DEF S
  <1>4. Window(p, <<v>>) = IF Lets(p, 0) THEN <<v>> ELSE <<>>
    <2> HIDE DEF s
    <2>1. Window(p, <<v>>) = IF Lets(p, 0) THEN <<v>> ELSE s
      BY <1>1, <1>2, <1>3
    <2> QED BY <2>1 DEF s
  <1> QED BY <1>2, <1>4

LEMMA NextAggregateKeeps == Intact /\ ~failed /\ NextAggregate => Intact'
  <1> SUFFICES ASSUME Intact, ~failed, NextAggregate PROVE Intact'
    OBVIOUS
  <1>1. /\ phase = "item" /\ LimitsAllow /\ plan.aggregate # "None" /\ started
        /\ UNCHANGED <<query, source, started, partials, aggregateValues>>
    BY DEF NextAggregate, AsksSource, LimitsAllow
  <1>2. /\ DataInv /\ SourceInv /\ CallerInv /\ LimitsInv /\ ChargeInv /\ AggregateInv
        /\ DataTyped /\ plan \in Plans
    BY <1>1 DEF Intact, DataInv, DataTyped
  <1>3. Gathered
    BY <1>1, <1>2 DEF AggregateInv
  <1> DEFINE w == Window(plan, ItemsOf(Total))
  <1>4. /\ outcome = "ended"
        /\ aggregateValues = <<Total>> /\ Total \in Totals(plan.aggregate)
        /\ aggregateValuesIndex \in {-1, 0, 1}
        /\ aggregateValuesIndex = -1 => Untouched
        /\ aggregateValuesIndex # -1 => Given = w
    BY <1>3 DEF Gathered
  <1>5. PICK item :
            /\ item = IF aggregateValuesIndex = -1 THEN Total ELSE Undefined
            /\ Top(item, respHeaders) /\ respHeaders' = 0
            /\ aggregateValuesIndex' = IF aggregateValuesIndex = -1 THEN 0 ELSE 1
    <2>1. Len(aggregateValues) = 1 /\ aggregateValues[1] = Total
      BY <1>4
    <2>2. /\ aggregateValuesIndex' =
                IF aggregateValuesIndex < 1 THEN aggregateValuesIndex + 1
                                            ELSE aggregateValuesIndex
          /\ Top(IF aggregateValuesIndex' < 1
                 THEN aggregateValues[aggregateValuesIndex' + 1] ELSE Undefined,
                 respHeaders)
          /\ respHeaders' = 0
      BY <1>4, <2>1 DEF NextAggregate
    <2>3. CASE aggregateValuesIndex = -1
      BY <2>1, <2>2, <2>3
    <2>4. CASE aggregateValuesIndex # -1
      BY <1>4, <2>2, <2>4
    <2> QED BY <2>3, <2>4
  <1>6. top' = Less(top) /\ OffsetLimit(item, respHeaders)
    BY <1>5 DEF Top
  <1>7. /\ plan' = plan /\ values' = values /\ started' = started
        /\ outcome' = outcome /\ delivered' = delivered
        /\ aggregateValues' = aggregateValues
        /\ UNCHANGED <<query, ordered>> /\ UNCHANGED source
    BY <1>1 DEF query, source
  <1>8. DataInv' /\ SourceInv'
    BY <1>2, <1>7, DataStays, SourceStays
  <1>9. Offered(item)
    <2>1. plan.aggregate \in Operators
      BY <1>1, <1>2, PlanAssumption
    <2>2. \A v \in Totals(plan.aggregate) :
            v = Undefined \/ v \in Int \/ v \in [sum : Int, count : Int]
      BY <2>1 DEF Totals, Partials, Operators
    <2>3. item = Undefined \/ item \in Totals(plan.aggregate)
      BY <1>4, <1>5
    <2>4. Int \subseteq AllValues /\ [sum : Int, count : Int] \subseteq AllValues
      BY DEF AllValues
    <2> QED BY <2>2, <2>3, <2>4 DEF Offered
  <1>10. CallerInv' /\ LimitsInv' /\ ChargeInv' /\ Offsets(item, respHeaders)
    <2>1. Due' = Due /\ Due \in Nat
      BY <1>2, <1>7, DueTyped DEF Due
    <2>2. respHeaders \in Nat /\ top' \in Numeric
      BY <1>2, <1>6 DEF ChargeInv, ChargeTyped, LimitsInv, Less, Numeric, NoLimit
    <2>3. /\ respHeaders' \in Nat /\ Due' \in Nat
          /\ Due' + respHeaders = Due + respHeaders + respHeaders'
      BY <1>5, <2>1, <2>2
    <2> QED BY <1>1, <1>2, <1>6, <1>7, <1>9, <2>2, <2>3, ItemPasses
  <1>11. /\ phase' # "gather"
         /\ Given' = IF offset = 0 /\ Takes(item) THEN Append(Given, item) ELSE Given
    BY <1>10 DEF Offsets
  <1>12. Given' = w
    <2>1. CASE aggregateValuesIndex # -1
      <3>1. ~Takes(item)
        BY <1>5, <2>1 DEF Takes
      <3> QED BY <1>4, <1>11, <2>1, <3>1
    <2>2. CASE aggregateValuesIndex = -1
      <3>1. /\ Given = <<>> /\ hashedResults = {} /\ top = plan.top
            /\ offset = plan.offset /\ limit = plan.limit /\ item = Total
        BY <1>1, <1>4, <1>5, <2>2 DEF Untouched, LimitsAllow
      <3>2. Takes(item) <=> item # Undefined
        BY <3>1 DEF Takes
      <3>3. Lets(plan, 0) <=> offset = 0
        BY <1>1, <1>2, <3>1, PlanTyped DEF Lets, LimitsAllow, Numeric, NoLimit
      <3>4. CASE item = Undefined
        <4>1. ItemsOf(Total) = <<>>
          BY <3>1, <3>4 DEF ItemsOf
        <4>2. w = <<>>
          BY <1>2, <4>1, WindowOfOne
        <4> QED BY <1>11, <3>1, <3>2, <3>4, <4>2
      <3>5. CASE item # Undefined
        <4>1. ItemsOf(Total) = <<item>>
          BY <3>1, <3>5 DEF ItemsOf
        <4>2. w = IF offset = 0 THEN <<item>> ELSE <<>>
          BY <1>2, <3>3, <4>1, WindowOfOne
        <4>3. Append(<<>>, item) = <<item>>
          OBVIOUS
        <4> HIDE DEF w
        <4> QED BY <1>11, <3>1, <3>2, <3>5, <4>2, <4>3
      <3> QED BY <3>4, <3>5
    <2> QED BY <2>1, <2>2
  <1>13. Total' = Total /\ Window(plan, ItemsOf(Total))' = w
    BY <1>7, TotalStays
  <1>14. Totals(plan.aggregate)' = Totals(plan.aggregate)
    BY <1>7 DEF Totals, Partials
  <1>15. aggregateValuesIndex' \in {-1, 0, 1} /\ aggregateValuesIndex' # -1
    BY <1>5
  <1> HIDE DEF w
  <1>16. Gathered'
    BY <1>4, <1>7, <1>12, <1>13, <1>14, <1>15 DEF Gathered
  <1>17. AggregateInv'
    BY <1>1, <1>7, <1>11, <1>16 DEF AggregateInv
  <1> QED BY <1>1, <1>7, <1>8, <1>10, <1>17 DEF Intact

-----------------------------------------------------------------------------
(* The caller, failures, and all steps together *)

LEMMA CallFinishKeeps == Intact /\ ~failed /\ (Call \/ Finish) => Intact'
  <1> SUFFICES ASSUME Intact, ~failed, Call \/ Finish PROVE Intact'
    OBVIOUS
  <1>1. /\ phase = "idle" /\ phase' \in {"item", "over"}
        /\ UNCHANGED <<query, source, aggregate, limits, hashedResults, fetchBuffer,
                       output, failed, charges>>
    BY DEF Call, Finish
  <1>2. /\ plan' = plan /\ values' = values /\ partials' = partials
        /\ aggregateValues' = aggregateValues /\ started' = started
        /\ aggregateValuesIndex' = aggregateValuesIndex
        /\ top' = top /\ offset' = offset /\ limit' = limit
        /\ hashedResults' = hashedResults /\ fetchBuffer' = fetchBuffer
        /\ output' = output /\ failed' = failed /\ ordered' = ordered
        /\ outstanding' = outstanding /\ delivered' = delivered /\ outcome' = outcome
        /\ requestCharge' = requestCharge /\ unyielded' = unyielded
        /\ aggregateHeaders' = aggregateHeaders
        /\ fetchMoreRespHeaders' = fetchMoreRespHeaders /\ respHeaders' = respHeaders
        /\ UNCHANGED <<query, ordered>> /\ UNCHANGED source
    BY <1>1 DEF query, source, limits, charges, pageCharges, aggregate
  <1>3. /\ DataInv /\ SourceInv /\ CallerInv /\ LimitsInv /\ ChargeInv
        /\ plan.aggregate = "None" => RowInv
        /\ plan.aggregate # "None" => AggregateInv
    BY DEF Intact
  <1>4. DataInv' /\ SourceInv'
    BY <1>2, <1>3, DataStays, SourceStays
  <1>5. CallerInv' /\ LimitsInv' /\ ChargeInv'
    BY <1>1, <1>2, <1>3 DEF CallerInv, LimitsInv, ChargeInv, ChargeTyped, SettledTyped,
            Settled, ChargesAddUp
  <1>6. Given' = Given /\ phase' # "gather"
    BY <1>1, <1>2 DEF Given
  <1>7. plan.aggregate = "None" => RowInv'
    <2> SUFFICES ASSUME plan.aggregate = "None" PROVE RowInv'
      OBVIOUS
    <2>1. RowInv
      BY <1>3
    <2>2. outcome' = "running" => Spent(plan, Len(delivered), top', offset', limit')
      BY <1>2, <2>1 DEF RowInv
    <2> QED BY <1>2, <1>6, <2>1, <2>2, RowsStay
  <1>8. plan.aggregate # "None" => AggregateInv'
    <2> SUFFICES ASSUME AggregateInv PROVE AggregateInv'
      BY <1>3
    <2>1. CASE ~started
      <3>1. NotStarted
        BY <2>1 DEF AggregateInv
      <3>2. Untouched'
        BY <1>2, <1>6, <3>1 DEF NotStarted, Untouched
      <3> QED BY <1>2, <1>6, <2>1, <3>1, <3>2 DEF AggregateInv, NotStarted
    <2>2. CASE started
      <3>1. Gathered
        BY <1>1, <2>2 DEF AggregateInv
      <3>2. aggregateValuesIndex # -1
        BY <1>1, <3>1 DEF Gathered
      <3>3. Total' = Total /\ Window(plan, ItemsOf(Total))' = Window(plan, ItemsOf(Total))
        BY <1>2, TotalStays
      <3>4. Totals(plan.aggregate)' = Totals(plan.aggregate)
        BY <1>2 DEF Totals, Partials
      <3>5. Gathered'
        BY <1>2, <1>6, <3>1, <3>2, <3>3, <3>4 DEF Gathered
      <3> QED BY <1>2, <1>6, <2>2, <3>5 DEF AggregateInv
    <2> QED BY <2>1, <2>2
  <1> QED BY <1>2, <1>4, <1>5, <1>7, <1>8 DEF Intact

LEMMA NothingChanges == Intact /\ ~failed /\ UNCHANGED vars => Intact'
  <1> SUFFICES ASSUME Intact, ~failed, UNCHANGED vars PROVE Intact'
    OBVIOUS
  <1>1. /\ plan' = plan /\ values' = values /\ partials' = partials /\ phase' = phase
        /\ aggregateValues' = aggregateValues /\ started' = started
        /\ aggregateValuesIndex' = aggregateValuesIndex
        /\ top' = top /\ offset' = offset /\ limit' = limit
        /\ hashedResults' = hashedResults /\ fetchBuffer' = fetchBuffer
        /\ output' = output /\ failed' = failed /\ ordered' = ordered
        /\ outstanding' = outstanding /\ delivered' = delivered /\ outcome' = outcome
        /\ requestCharge' = requestCharge /\ unyielded' = unyielded
        /\ aggregateHeaders' = aggregateHeaders
        /\ fetchMoreRespHeaders' = fetchMoreRespHeaders /\ respHeaders' = respHeaders
        /\ UNCHANGED <<query, ordered>> /\ UNCHANGED source
    BY DEF vars, query, source, limits, charges, pageCharges, aggregate, caller
  <1>2. /\ DataInv /\ SourceInv /\ CallerInv /\ LimitsInv /\ ChargeInv
        /\ plan.aggregate = "None" => RowInv
        /\ plan.aggregate # "None" => AggregateInv
    BY DEF Intact
  <1>3. DataInv' /\ SourceInv'
    BY <1>1, <1>2, DataStays, SourceStays
  <1>4. CallerInv' /\ LimitsInv' /\ ChargeInv'
    BY <1>1, <1>2 DEF CallerInv, LimitsInv, ChargeInv, ChargeTyped, SettledTyped,
            Settled, ChargesAddUp
  <1>5. Given' = Given
    BY <1>1 DEF Given
  <1>6. plan.aggregate = "None" => RowInv'
    <2> SUFFICES ASSUME plan.aggregate = "None" PROVE RowInv'
      OBVIOUS
    <2>1. RowInv
      BY <1>2
    <2>2. outcome' = "running" => Spent(plan, Len(delivered), top', offset', limit')
      BY <1>1, <2>1 DEF RowInv
    <2>3. phase' # "gather"
      BY <1>1, <2>1 DEF RowInv
    <2> QED BY <1>1, <1>5, <2>1, <2>2, <2>3, RowsStay
  <1>7. plan.aggregate # "None" => AggregateInv'
    <2> SUFFICES ASSUME AggregateInv PROVE AggregateInv'
      BY <1>2
    <2>1. /\ \A rows : TotalOf(plan.aggregate, rows)' = TotalOf(plan.aggregate, rows)
          /\ Valued' = Valued /\ Total' = Total
          /\ Window(plan, ItemsOf(Total))' = Window(plan, ItemsOf(Total))
      BY <1>1, TotalStays
    <2>2. Totals(plan.aggregate)' = Totals(plan.aggregate)
          /\ Partials(plan.aggregate)' = Partials(plan.aggregate)
      BY <1>1 DEF Totals, Partials
    <2>3. (Untouched' <=> Untouched) /\ (LimitsAllow' <=> LimitsAllow)
      BY <1>1, <1>5 DEF Untouched, LimitsAllow
    <2>4. NotStarted' <=> NotStarted
      BY <1>1, <2>3 DEF NotStarted
    <2>5. Gathered' <=> Gathered
      BY <1>1, <1>5, <2>1, <2>2, <2>3 DEF Gathered
    <2>6. Gathering => Gathering'
      <3>1. Aggregate(plan.aggregate, partials)' = Aggregate(plan.aggregate, partials)
        BY <1>1
      <3>2. TotalOf(plan.aggregate, Valued \ outstanding)'
                = TotalOf(plan.aggregate, Valued \ outstanding)
        <4>1. Numbers' = Numbers /\ Sums' = Sums /\ Counts' = Counts
          BY <1>1, <2>1 DEF Numbers, Sums, Counts
        <4> QED BY <1>1, <2>1, <4>1 DEF TotalOf
      <3> QED BY <1>1, <2>2, <2>3, <3>1, <3>2 DEF Gathering
    <2> QED BY <1>1, <2>4, <2>5, <2>6 DEF AggregateInv
  <1> QED BY <1>1, <1>3, <1>4, <1>6, <1>7 DEF Intact

LEMMA OnceFailed == failed /\ [Next]_vars => failed'
  <1> SUFFICES ASSUME failed, [Next]_vars PROVE failed'
    OBVIOUS
  <1>1. ASSUME NEW item, NEW charge, Resolve(item, charge) PROVE failed'
    BY <1>1 DEF Resolve
  <1>2. ASSUME NEW item, NEW charge, Distinct(item, charge) PROVE failed'
    BY <1>1, <1>2, Zenon DEF Distinct
  <1>3. ASSUME NEW item, NEW charge, OffsetLimit(item, charge) PROVE failed'
    BY <1>2, <1>3, Zenon DEF OffsetLimit, caller
  <1>4. CASE Call \/ Finish \/ StartGathering \/ Gather \/ AllGathered \/ UNCHANGED vars
    BY <1>4 DEF Call, Finish, StartGathering, Gather, AllGathered, vars, caller
  <1>5. CASE LimitReached
    BY <1>2, <1>5, Zenon DEF LimitReached
  <1>6. CASE TopReached
    BY <1>3, <1>6, Zenon DEF TopReached
  <1>7. CASE SourceItem
    <2>1. PICK v : OffsetLimit(v, 1)
      BY <1>7, Zenon DEF SourceItem, Top
    <2> QED BY <1>3, <2>1
  <1>8. CASE SourceEnds
    BY <1>3, <1>8, Zenon DEF SourceEnds, Top
  <1>9. CASE SourceFails
    BY <1>9 DEF SourceFails, Reject
  <1>10. CASE NextAggregate
    <2>1. PICK v, charge : OffsetLimit(v, charge)
      BY <1>10, Zenon DEF NextAggregate, Top
    <2> QED BY <1>3, <2>1
  <1> QED BY <1>4, <1>5, <1>6, <1>7, <1>8, <1>9, <1>10 DEF Next, Item

LEMMA PipelineSteps == PipelineInv /\ [Next]_vars => PipelineInv'
  <1> SUFFICES ASSUME PipelineInv, [Next]_vars, ~failed' PROVE Intact'
    BY DEF PipelineInv
  <1>1. ~failed
    BY OnceFailed
  <1>2. Intact
    BY <1>1 DEF PipelineInv
  <1>3. CASE SourceFails
    BY <1>3 DEF SourceFails, Reject
  <1>4. CASE Call \/ Finish
    BY <1>1, <1>2, <1>4, CallFinishKeeps
  <1>5. CASE LimitReached \/ TopReached
    BY <1>1, <1>2, <1>5, LimitReachedKeeps, TopReachedKeeps
  <1>6. CASE SourceItem \/ SourceEnds
    BY <1>1, <1>2, <1>6, SourceItemKeeps, SourceEndsKeeps
  <1>7. CASE StartGathering \/ Gather \/ AllGathered \/ NextAggregate
    BY <1>1, <1>2, <1>7, StartGatheringKeeps, GatherKeeps, AllGatheredKeeps,
       NextAggregateKeeps
  <1>8. CASE UNCHANGED vars
    BY <1>1, <1>2, <1>8, NothingChanges
  <1> QED BY <1>3, <1>4, <1>5, <1>6, <1>7, <1>8 DEF Next, Item

LEMMA PipelineStarts == Init => PipelineInv
  <1> SUFFICES ASSUME Init PROVE Intact
    BY DEF PipelineInv
  <1>1. /\ plan \in Plans /\ values \in [Rows -> ValuesFor(plan)]
        /\ outstanding = Rows /\ delivered = <<>> /\ outcome = "running"
        /\ plan.distinct = "Ordered" =>
                ordered /\ \A r, s \in Rows : r < s => values[r] <= values[s]
        /\ started = FALSE /\ partials = <<>>
        /\ aggregateValues = <<>> /\ aggregateValuesIndex = -1
        /\ top = plan.top /\ offset = plan.offset /\ limit = plan.limit
        /\ hashedResults = {}
        /\ phase = "idle" /\ fetchBuffer = <<>> /\ output = <<>> /\ failed = FALSE
        /\ respHeaders = 0 /\ aggregateHeaders = 0
        /\ fetchMoreRespHeaders = 0 /\ requestCharge = 0 /\ unyielded = 0
    BY DEF Init, Source!Init
  <1>2. top \in Numeric /\ offset \in Nat /\ limit \in Numeric
    BY <1>1, PlanTyped
  <1>3. DataInv
    BY <1>1 DEF DataInv, DataTyped
  <1>4. SourceInv /\ CallerInv /\ LimitsInv
    BY <1>1, <1>2 DEF SourceInv, CallerInv, LimitsInv
  <1>5. Len(delivered) = 0
    BY <1>1
  <1>6. ChargeInv
    BY <1>1, <1>5 DEF ChargeInv, ChargeTyped, SettledTyped,
            Settled, ChargesAddUp
  <1>7. Given = <<>>
    BY <1>1 DEF Given
  <1>8. RowInv
    <2>1. Spent(plan, 0, top, offset, limit)
      BY <1>1, <1>2 DEF Spent, Numeric, NoLimit
    <2>2. ValuesOf(delivered) = <<>>
      BY <1>1 DEF ValuesOf
    <2>3. Window(plan, ValuesOf(delivered)) = <<>>
      BY <1>1, <2>2, WindowOfOne
    <2>4. Shown(plan, <<>>) = <<>>
      BY OnceOfNothing DEF Shown
    <2>5. Remembers(plan, hashedResults, <<>>)
      BY <1>1 DEF Remembers
    <2>6. Given = Shown(plan, Window(plan, ValuesOf(delivered)))
      BY <1>7, <2>3, <2>4
    <2>7. Remembers(plan, hashedResults, Window(plan, ValuesOf(delivered)))
      BY <2>3, <2>5
    <2>8. Spent(plan, Len(delivered), top, offset, limit)
      BY <1>5, <2>1
    <2> QED BY <1>1, <2>6, <2>7, <2>8 DEF RowInv
  <1>9. AggregateInv
    BY <1>1, <1>7 DEF AggregateInv, NotStarted, Untouched
  <1> QED BY <1>3, <1>4, <1>6, <1>8, <1>9 DEF Intact

-----------------------------------------------------------------------------
(* The answer *)

LEMMA PrefixTransitive ==
    ASSUME NEW S, NEW T, NEW a \in Seq(S), NEW b \in Seq(S), b \in Seq(T),
           NEW c \in Seq(T), IsPrefix(a, b), IsPrefix(b, c)
    PROVE  IsPrefix(a, c)
  <1> DEFINE U == S \union T
  <1>1. /\ Len(a) <= Len(b) /\ \A i \in 1..Len(a) : a[i] = b[i]
        /\ Len(b) <= Len(c) /\ \A i \in 1..Len(b) : b[i] = c[i]
        /\ Len(a) \in Nat /\ Len(b) \in Nat /\ Len(c) \in Nat
    <2>1. Len(a) <= Len(b) /\ \A i \in 1..Len(a) : a[i] = b[i]
      BY PrefixIs
    <2>2. Len(b) <= Len(c) /\ \A i \in 1..Len(b) : b[i] = c[i]
      BY PrefixIs
    <2> QED BY <2>1, <2>2
  <1>2. Len(a) <= Len(c) /\ \A i \in 1..Len(a) : a[i] = c[i]
    BY <1>1
  <1>3. a \in Seq(U)
    <2>1. \A i \in 1..Len(a) : a[i] \in U
      OBVIOUS
    <2> HIDE DEF U
    <2> QED BY <2>1
  <1>4. c \in Seq(U)
    <2>1. \A i \in 1..Len(c) : c[i] \in U
      OBVIOUS
    <2> HIDE DEF U
    <2> QED BY <2>1
  <1> HIDE DEF U
  <1> QED BY <1>2, <1>3, <1>4, PrefixIs

\* The rows in turn begin with those that were delivered, and are those once none
\* is outstanding.
LEMMA InTurn ==
    ASSUME DataTyped, SourceInv
    PROVE  \E S : /\ ValuesOf(delivered) \in Seq(S) /\ ValuesOf(RowsInTurn) \in Seq(S)
                  /\ IsPrefix(ValuesOf(delivered), ValuesOf(RowsInTurn))
                  /\ outstanding = {} => ValuesOf(RowsInTurn) = ValuesOf(delivered)
  <1> DEFINE m == Len(delivered)
             k == Cardinality(outstanding)
             u == InOrder(outstanding)
             T == Rows \union {u[i] : i \in 1..k}
             r == delivered \o u
             S == AllValues \union {values[q] : q \in T}
             s == ValuesOf(delivered)
             t == ValuesOf(r)
  <1>1. k \in Nat
    <2>1. IsFiniteSet(outstanding)
      BY RowsAssumption, FS_Subset DEF SourceInv
    <2> QED BY <2>1, FS_CardinalityType
  <1>2. delivered \in Seq(Rows) /\ m \in Nat
    BY DEF SourceInv
  <1> HIDE DEF k
  <1>3. u \in Seq(T) /\ Len(u) = k
    <2> DEFINE f(i) == CHOOSE x \in outstanding :
                            Cardinality({q \in outstanding : q < x}) = i - 1
    <2>1. u = [i \in 1..k |-> u[i]]
      <3>1. u = [i \in 1..k |-> f(i)]
        BY DEF InOrder, k
      <3> HIDE DEF f, u
      <3> QED BY <3>1
    <2> HIDE DEF u
    <2>2. \A i \in 1..k : u[i] \in T
      OBVIOUS
    <2> HIDE DEF T
    <2>3. u \in [1..k -> T]
      BY <2>1, <2>2
    <2> QED BY <1>1, <2>3
  <1> HIDE DEF u
  <1>4. delivered \in Seq(T)
    BY <1>2
  <1> HIDE DEF T
  <1>5. /\ r \in Seq(T) /\ Len(r) = m + k
        /\ \A i \in 1..m : r[i] = delivered[i]
    BY <1>3, <1>4
  <1>6. r = RowsInTurn
    BY DEF RowsInTurn, u
  <1>7. s \in Seq(AllValues) /\ Len(s) = m /\ \A i \in 1..m : s[i] = values[delivered[i]]
    BY <1>2, ValuesAre
  <1> HIDE DEF r, s
  <1>8. t \in Seq(S) /\ Len(t) = m + k /\ \A i \in 1..(m + k) : t[i] = values[r[i]]
    <2>1. DOMAIN r = 1..(m + k) /\ m + k \in Nat /\ \A i \in 1..(m + k) : r[i] \in T
      BY <1>1, <1>2, <1>5
    <2>2. t = [i \in 1..(m + k) |-> values[r[i]]]
      BY <2>1 DEF ValuesOf
    <2>3. \A i \in 1..(m + k) : values[r[i]] \in S
      BY <2>1
    <2> HIDE DEF S, t, m
    <2>4. t \in [1..(m + k) -> S]
      BY <2>2, <2>3
    <2> QED BY <2>1, <2>2, <2>4
  <1>9. s \in Seq(S)
    BY <1>7
  <1> HIDE DEF S, t, m
  <1>10. IsPrefix(s, t)
    <2>1. Len(s) <= Len(t)
      BY <1>1, <1>2, <1>7, <1>8
    <2>2. \A i \in 1..Len(s) : s[i] = t[i]
      BY <1>1, <1>2, <1>5, <1>7, <1>8
    <2> QED BY <1>8, <1>9, <2>1, <2>2, PrefixIs
  <1>11. ASSUME outstanding = {} PROVE t = s
    <2>1. k = 0
      BY <1>11, FS_EmptySet DEF k
    <2>2. Len(t) = Len(s)
      BY <1>2, <1>7, <1>8, <2>1
    <2>3. \A i \in 1..Len(s) : s[i] = t[i]
      BY <1>1, <1>2, <1>5, <1>7, <1>8
    <2> QED BY <1>8, <1>9, <2>2, <2>3, SameSeq
  <1> QED BY <1>6, <1>8, <1>9, <1>10, <1>11 DEF s, t

\* What was given is a beginning of the answer.
LEMMA GivenBegins ==
    ASSUME Intact
    PROVE  /\ IsPrefix(Given, Answer)
           /\ \E S : Given \in Seq(S) /\ Answer \in Seq(S)
           /\ phase \in {"idle", "over"} /\ ~hasMoreResults => Given = Answer
  <1>1. DataInv /\ SourceInv /\ DataTyped /\ plan \in Plans /\ LimitsInv
    BY DEF Intact, DataInv, DataTyped
  <1>2. plan.top \in Numeric /\ plan.offset \in Nat /\ plan.limit \in Numeric
    BY <1>1, PlanTyped
  <1>3. CASE plan.aggregate = "None"
    <2> DEFINE s == ValuesOf(delivered)
               t == ValuesOf(RowsInTurn)
               w == Window(plan, s)
               x == Window(plan, t)
               n == Len(delivered)
    <2>1. RowInv
      BY <1>3 DEF Intact
    <2>2. Given = Shown(plan, w)
      BY <2>1 DEF RowInv
    <2>3. PICK S : /\ s \in Seq(S) /\ t \in Seq(S) /\ IsPrefix(s, t)
                   /\ outstanding = {} => t = s
      BY <1>1, InTurn
    <2>4. t = [i \in DOMAIN RowsInTurn |-> values[RowsInTurn[i]]]
      BY DEF ValuesOf
    <2>5. Len(s) = n
      BY <1>1, ValuesAre DEF SourceInv
    <2> HIDE DEF s, t
    <2>6. Limited(t) = x
      BY <1>1, <2>3, LimitedIs
    <2>7. Answer = Shown(plan, x)
      BY <1>3, <2>4, <2>6 DEF Answer, Shown
    <2>8. /\ IsPrefix(w, x)
          /\ \/ plan.top # NoLimit /\ plan.top <= n
             \/ plan.limit # NoLimit /\ plan.offset + plan.limit <= n
             => w = x
      BY <1>1, <2>3, <2>5, WindowPrefix
    <2>9. w \in Seq(S) /\ x \in Seq(S)
      BY <1>1, <2>3, WindowIs
    <2> HIDE DEF w, x
    <2>10. /\ IsPrefix(Shown(plan, w), Shown(plan, x))
           /\ Shown(plan, w) \in Seq(S) /\ Shown(plan, x) \in Seq(S)
      BY <2>8, <2>9, OncePrefix DEF Shown
    <2>11. ASSUME phase \in {"idle", "over"}, ~hasMoreResults PROVE w = x
      <3>1. CASE outcome = "ended"
        <4>1. t = s
          BY <1>1, <2>3, <3>1 DEF SourceInv
        <4> QED BY <4>1 DEF w, x
      <3>2. CASE outcome = "running"
        <4>1. ~LimitsAllow
          BY <1>3, <2>11, <3>2 DEF hasMoreResults, LimitsAllow
        <4>2. Spent(plan, n, top, offset, limit)
          BY <2>1, <3>2 DEF RowInv
        <4>3. top \in Numeric /\ offset \in Nat /\ limit \in Numeric /\ n \in Nat
          BY <1>1 DEF LimitsInv, SourceInv
        <4> HIDE DEF n
        <4>4. \/ plan.top # NoLimit /\ plan.top <= n
              \/ plan.limit # NoLimit /\ plan.offset + plan.limit <= n
          <5>1. CASE top = 0
            BY <1>2, <4>2, <4>3, <5>1 DEF Spent, Numeric, NoLimit
          <5>2. CASE top # 0 /\ offset = 0 /\ limit = 0
            BY <1>2, <4>2, <4>3, <5>2 DEF Spent, Numeric, NoLimit
          <5> QED BY <4>1, <4>3, <5>1, <5>2 DEF LimitsAllow
        <4> QED BY <2>8, <4>4
      <3> QED BY <1>1, <3>1, <3>2 DEF SourceInv
    <2> QED BY <2>2, <2>7, <2>10, <2>11
  <1>4. CASE plan.aggregate # "None"
    <2> DEFINE u == ItemsOf(Total)
               S == {Total}
               w == Window(plan, u)
    <2>1. u \in Seq(S)
      <3>1. CASE Total = Undefined
        BY <3>1 DEF ItemsOf
      <3>2. CASE Total # Undefined
        <4>1. Total \in S
          OBVIOUS
        <4> HIDE DEF S
        <4> QED BY <3>2, <4>1 DEF ItemsOf
      <3> QED BY <3>1, <3>2
    <2> HIDE DEF u, S
    <2>2. Answer = w
      <3>1. Limited(u) = w
        BY <1>1, <2>1, LimitedIs
      <3> QED BY <1>4, <3>1 DEF Answer, u, Total
    <2>3. w \in Seq(S)
      BY <1>1, <2>1, WindowIs
    <2>4. w = <<>> \/ Lets(plan, 0)
      <3>1. CASE Total = Undefined
        BY <1>1, <3>1, WindowOfOne DEF ItemsOf, u
      <3>2. CASE Total # Undefined
        BY <1>1, <3>2, WindowOfOne DEF ItemsOf, u
      <3> QED BY <3>1, <3>2
    <2> HIDE DEF w
    <2>5. IsPrefix(<<>>, w) /\ IsPrefix(w, w)
      <3>1. <<>> \in Seq(S) /\ Len(w) \in Nat
        BY <2>3
      <3>2. IsPrefix(<<>>, w)
        <4> DEFINE z == <<>>
        <4>1. z \in Seq(S) /\ Len(z) = 0 /\ Len(w) \in Nat
          BY <3>1
        <4>2. \A i \in 1..0 : z[i] = w[i]
          OBVIOUS
        <4>3. Len(z) <= Len(w)
          BY <4>1
        <4> HIDE DEF z
        <4>4. IsPrefix(z, w)
          BY <2>3, <4>1, <4>2, <4>3, PrefixIs
        <4> QED BY <4>4 DEF z
      <3>3. IsPrefix(w, w)
        <4>1. Len(w) <= Len(w)
          BY <3>1
        <4> QED BY <2>3, <4>1, PrefixIs
      <3> QED BY <3>2, <3>3
    <2>6. AggregateInv
      BY <1>4 DEF Intact
    <2>7. Untouched \/ Given = w
      BY <2>6 DEF AggregateInv, NotStarted, Gathering, Gathered, w, u
    <2>8. Untouched => Given = <<>>
      BY DEF Untouched
    <2>a. <<>> \in Seq(S)
      OBVIOUS
    <2>9. ASSUME phase \in {"idle", "over"}, ~hasMoreResults, Untouched
          PROVE  w = <<>>
      <3>1. ~LimitsAllow
        <4>1. started => aggregateValuesIndex # -1
          BY <2>6, <2>9 DEF AggregateInv, Gathered
        <4>2. ~started
          BY <2>9, <4>1 DEF Untouched
        <4> QED BY <1>4, <2>9, <4>2 DEF hasMoreResults, LimitsAllow
      <3>2. ~Lets(plan, 0)
        BY <1>1, <1>2, <2>9, <3>1
           DEF Untouched, Lets, LimitsAllow, LimitsInv, Numeric, NoLimit
      <3> QED BY <2>4, <3>2
    <2> QED BY <2>2, <2>3, <2>5, <2>7, <2>8, <2>9, <2>a
  <1> QED BY <1>3, <1>4

LEMMA PipelineIsRight == PipelineInv => OutputIsTheAnswer /\ NoMoreMeansAllGiven
  <1> SUFFICES ASSUME Intact, ~failed
               PROVE  /\ IsPrefix(output, Answer)
                      /\ phase \in {"idle", "over"} /\ ~hasMoreResults => output = Answer
    BY DEF PipelineInv, OutputIsTheAnswer, NoMoreMeansAllGiven
  <1>1. /\ output \in Seq(AllValues) /\ fetchBuffer \in Seq(AllValues)
        /\ phase \in {"idle", "over"} => fetchBuffer = <<>>
    BY DEF Intact, CallerInv
  <1>2. Given \in Seq(AllValues) /\ IsPrefix(output, Given)
    <2>1. /\ Given \in Seq(AllValues) /\ Len(output) <= Len(Given)
          /\ \A i \in 1..Len(output) : output[i] = Given[i]
      BY <1>1 DEF Given
    <2> QED BY <1>1, <2>1, PrefixIs
  <1>3. phase \in {"idle", "over"} => output = Given
    BY <1>1 DEF Given
  <1>4. IsPrefix(Given, Answer) /\ \E S : Given \in Seq(S) /\ Answer \in Seq(S)
    BY GivenBegins
  <1>5. PICK S : Given \in Seq(S) /\ Answer \in Seq(S)
    BY <1>4
  <1>6. IsPrefix(output, Answer)
    BY <1>1, <1>2, <1>4, <1>5, PrefixTransitive
  <1> QED BY <1>3, <1>6, GivenBegins

-----------------------------------------------------------------------------
(* Theorems *)

\* The invariant: what was given is what the clauses let through of the rows that
\* were delivered, TOP, OFFSET and LIMIT count those rows, DISTINCT remembers what
\* can come again, and the aggregator holds the total of the rows delivered.
THEOREM PipelineInvariant == Spec => []PipelineInv
  <1>1. Init => PipelineInv
    BY PipelineStarts
  <1>2. PipelineInv /\ [Next]_vars => PipelineInv'
    BY PipelineSteps
  <1> QED BY <1>1, <1>2, PTL DEF Spec

\* Whatever the rows, the plan, the order the source delivers in, the page size and
\* the way the caller walks, he is given a beginning of the answer.
THEOREM OutputIsRight == Spec => []OutputIsTheAnswer
  <1>1. PipelineInv => OutputIsTheAnswer
    BY PipelineIsRight
  <1> QED BY <1>1, PipelineInvariant, PTL

\* hasMoreResults turns false only when the whole answer was handed over.
THEOREM EndIsComplete == Spec => []NoMoreMeansAllGiven
  <1>1. PipelineInv => NoMoreMeansAllGiven
    BY PipelineIsRight
  <1> QED BY <1>1, PipelineInvariant, PTL

\* No charge of the source is lost between the components, or told twice.
THEOREM ChargesReachTheCaller == Spec => []ChargesAddUp
  <1>1. PipelineInv => ChargesAddUp
    BY DEF PipelineInv, Intact, ChargeInv, ChargesAddUp
  <1> QED BY <1>1, PipelineInvariant, PTL

=============================================================================

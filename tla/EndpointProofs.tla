--------------------------- MODULE EndpointProofs ---------------------------
(***************************************************************************)
(* The location cache, specified by CacheSpec, and the two machines that   *)
(* use it, each proved by itself: the endpoint manager (GemSpec) and the   *)
(* requests with their retries (RequestSpec).  Both rest on the invariant  *)
(* of the cache.                                                           *)
(*                                                                         *)
(* For any regions, accounts, policy and expiry: a mark stands until it    *)
(* runs out, no marked endpoint is offered, and every request is routed to *)
(* a listed endpoint.                                                      *)
(*                                                                         *)
(* For any regions, accounts, policy and expiry, and any set of concurrent *)
(* requests: at most one refresh of the endpoint list is ever under way,   *)
(* isRefreshing is raised exactly while one is, nobody waits for one that  *)
(* is not, and degraded routing is refreshed.                              *)
(*                                                                         *)
(* For any number of requests, any budgets, regions and account reads: a   *)
(* write is carried out at most once, a request is sent at most once more  *)
(* for every retry a policy granted, and no policy grants more than its    *)
(* budget, nor waits longer.                                               *)
(***************************************************************************)
EXTENDS GlobalEndpointManager, RequestExecution, WellFoundedInduction, TLAPS

-----------------------------------------------------------------------------
(* Induction, for a set in place of a predicate *)

LEMMA LeastNumber ==
    ASSUME NEW T \in SUBSET Nat, T # {}
    PROVE  \E n \in T : \A m \in T : n <= m
  <1>1. PICK n \in T : \A m \in T : ~(<<m, n>> \in OpToRel(<, Nat))
    BY NatLessThanWellFounded, WFMin
  <1>2. \A m \in T : ~(m < n)
    BY <1>1 DEF OpToRel
  <1> QED BY <1>2

LEMMA Induction ==
    ASSUME NEW n \in Nat, NEW Good,
           0 \in Good, \A i \in 0..(n - 1) : i \in Good => i + 1 \in Good
    PROVE  \A i \in 0..n : i \in Good
  <1> DEFINE Bad == (0..n) \ Good
  <1>1. Bad \in SUBSET Nat
    OBVIOUS
  <1>2. ASSUME Bad # {} PROVE FALSE
    <2>1. PICK k \in Bad : \A m \in Bad : k <= m
      <3> HIDE DEF Bad
      <3> QED BY <1>1, <1>2, LeastNumber
    <2>2. k \in 1..n /\ k - 1 \in 0..(n - 1)
      OBVIOUS
    <2>3. k - 1 \notin Bad
      <3> HIDE DEF Bad
      <3> QED BY <2>1, <2>2
    <2>4. k - 1 \in Good
      BY <2>2, <2>3
    <2>5. (k - 1) + 1 \in Good
      BY <2>2, <2>4
    <2> QED BY <2>2, <2>5
  <1> QED BY <1>2

-----------------------------------------------------------------------------
(* The marks of the location cache *)

MarksTypeOK ==
    unavailability \in [Endpoints -> [age: Age, ops: SUBSET Operations]]

MarksType == [Endpoints -> [age: Age, ops: SUBSET Operations]]

LEMMA AgeFacts ==
    /\ Expired \in Age /\ 0 \in Age
    /\ CanUpdateCache(Expired) /\ ~CanUpdateCache(0)
    /\ \A a \in Age : Older(a) \in Age
  BY ExpiryAssumption DEF Age, Expired, CanUpdateCache, Older

LEMMA NoMarkType == NoMark \in [age: Age, ops: SUBSET Operations]
  BY AgeFacts DEF NoMark

\* Marking keeps the type, and whatever was marked before.
LEMMA MarkingKeepsMarks ==
    ASSUME MarksTypeOK, NEW e \in Endpoints, NEW op \in Operations,
           NEW marks,
           marks = [unavailability EXCEPT
                       ![e] = [age |-> 0, ops |-> @.ops \cup {op}]]
    PROVE  /\ marks \in MarksType
           /\ \A f \in Endpoints, o \in Operations :
                  IsEndpointUnavailable(f, o)
                      => /\ o \in marks[f].ops
                         /\ ~CanUpdateCache(marks[f].age)
  <1>1. marks \in MarksType
    BY AgeFacts DEF MarksTypeOK, MarksType
  <1>2. \A f \in Endpoints : f # e => marks[f] = unavailability[f]
    BY DEF MarksTypeOK
  <1>3. /\ marks[e].age = 0
        /\ unavailability[e].ops \subseteq marks[e].ops
    BY DEF MarksTypeOK
  <1> QED
    BY <1>1, <1>2, <1>3, AgeFacts DEF IsEndpointUnavailable

\* updateLocationCache drops what ran out and nothing else.
LEMMA UpdateKeepsMarks ==
    ASSUME NEW marks \in MarksType, NEW acc, UpdateLocationCache(marks, acc)
    PROVE  /\ MarksTypeOK'
           /\ \A f \in Endpoints, o \in Operations :
                  o \in marks[f].ops /\ ~CanUpdateCache(marks[f].age)
                      => IsEndpointUnavailable(f, o)'
  <1>1. unavailability' = [f \in Endpoints |->
            IF CanUpdateCache(marks[f].age) THEN NoMark ELSE marks[f]]
    BY DEF UpdateLocationCache, ClearStaleEndpointUnavailabilityInfo
  <1>2. MarksTypeOK'
    BY <1>1, NoMarkType DEF MarksTypeOK, MarksType
  <1>3. \A f \in Endpoints : ~CanUpdateCache(marks[f].age)
            => unavailability'[f] = marks[f]
    BY <1>1
  <1> QED
    BY <1>2, <1>3 DEF IsEndpointUnavailable, CanUpdateCache

MarksKept ==
    \A f \in Endpoints, o \in Operations :
        IsEndpointUnavailable(f, o) => IsEndpointUnavailable(f, o)'

\* Every step but the clock's keeps the type of the marks and the marks.
LEMMA StepKeepsMarks ==
    ASSUME MarksTypeOK, [CacheNext]_cacheVars
    PROVE  MarksTypeOK' /\ (Tick \/ MarksKept)
  <1>1. CASE \E e \in Endpoints, op \in Operations :
                 MarkEndpointUnavailable(e, op)
    <2>1. PICK e \in Endpoints, op \in Operations :
              MarkEndpointUnavailable(e, op)
      BY <1>1
    <2> DEFINE marks == Marked(e, op)
    <2>2. UpdateLocationCache(marks, CachedAccount)
      BY <2>1 DEF MarkEndpointUnavailable
    <2> HIDE DEF marks
    <2>3. /\ marks \in MarksType
          /\ \A f \in Endpoints, o \in Operations :
                 IsEndpointUnavailable(f, o)
                     => /\ o \in marks[f].ops
                        /\ ~CanUpdateCache(marks[f].age)
      BY MarkingKeepsMarks DEF marks, Marked
    <2> QED BY <2>2, <2>3, UpdateKeepsMarks DEF MarksKept
  <1>2. ASSUME NEW acc, UpdateLocationCache(unavailability, acc)
        PROVE  MarksTypeOK' /\ MarksKept
    <2>1. unavailability \in MarksType
      BY DEF MarksTypeOK, MarksType
    <2> QED
      BY <1>2, <2>1, UpdateKeepsMarks DEF MarksKept, IsEndpointUnavailable
  <1>3. ASSUME UNCHANGED unavailability
        PROVE  MarksTypeOK' /\ MarksKept
    BY <1>3 DEF MarksTypeOK, MarksKept, IsEndpointUnavailable
  <1>4. CASE \E acc \in Accounts : OnDatabaseAccountRead(acc)
    BY <1>4, <1>2 DEF OnDatabaseAccountRead
  <1>5. CASE GetEndpoints
    BY <1>5, <1>2, <1>3 DEF GetEndpoints
  <1>6. CASE Tick
    <2>1. unavailability' = [e \in Endpoints |->
              [unavailability[e] EXCEPT !.age = Older(@)]]
      BY <1>6 DEF Tick
    <2>2. MarksTypeOK'
      BY <2>1, AgeFacts DEF MarksTypeOK
    <2> QED BY <1>6, <2>2
  <1>7. CASE UNCHANGED cacheVars
    BY <1>7, <1>3 DEF cacheVars
  <1> QED BY <1>1, <1>4, <1>5, <1>6, <1>7 DEF CacheNext

\* The type of the marks is an invariant.
THEOREM MarksTyped == CacheSpec => []MarksTypeOK
  <1>1. CacheInit => MarksTypeOK
    BY NoMarkType DEF CacheInit, MarksTypeOK
  <1>2. MarksTypeOK /\ [CacheNext]_cacheVars => MarksTypeOK'
    BY StepKeepsMarks
  <1> QED BY <1>1, <1>2, PTL DEF CacheSpec

\* An endpoint that was found unavailable for an operation stays so until its
\* mark runs out: no failure of another operation, no account read and no
\* recomputation of the lists brings it back early.
THEOREM OnlyTimeClearsMarks == CacheSpec => MarksOutliveUpdates
  <1>1. MarksTypeOK /\ [CacheNext]_cacheVars =>
            [\A e \in Endpoints, op \in Operations :
                 IsEndpointUnavailable(e, op) /\ ~Tick
                     => IsEndpointUnavailable(e, op)']_cacheVars
    BY StepKeepsMarks DEF MarksKept
  <1> QED BY <1>1, MarksTyped, PTL DEF CacheSpec, MarksOutliveUpdates

-----------------------------------------------------------------------------
(* The preferred locations that are offered *)

\* f[i] is what PreferredAmong chooses of the first i preferred locations.
Chooses(f, usable) ==
    f = [i \in 0..Len(Preferred) |->
            IF i = 0 THEN <<>>
            ELSE IF Preferred[i] \in usable THEN Append(f[i - 1], Preferred[i])
                                            ELSE f[i - 1]]

LEMMA ChosenExists ==
    ASSUME NEW usable
    PROVE  \E f : Chooses(f, usable)
  <1> DEFINE n == Len(Preferred)
             Upto(k, f) ==
                 f = [i \in 0..k |->
                        IF i = 0 THEN <<>>
                        ELSE IF Preferred[i] \in usable THEN Append(f[i - 1], Preferred[i])
                                                        ELSE f[i - 1]]
             Good == {k \in 0..n : \E f : Upto(k, f)}
  <1>0. n \in Nat
    BY PolicyAssumption
  <1> HIDE DEF n
  <1>1. \E f : Upto(0, f)
    <2> DEFINE f == [i \in 0..0 |-> <<>>]
    <2>1. Upto(0, f)
      OBVIOUS
    <2> HIDE DEF Upto, f
    <2> QED BY <2>1
  <1>2. ASSUME NEW j \in 0..(n - 1), NEW f, Upto(j, f)
        PROVE  \E g : Upto(j + 1, g)
    <2> DEFINE k == j + 1
               last == IF Preferred[k] \in usable THEN Append(f[j], Preferred[k])
                                                  ELSE f[j]
               g == [i \in 0..k |-> IF i < k THEN f[i] ELSE last]
    <2>0. j \in Nat /\ k \in Nat /\ k > 0 /\ k - 1 = j
      BY <1>0
    <2>1. \A i \in 0..j : f[i] =
              IF i = 0 THEN <<>>
              ELSE IF Preferred[i] \in usable THEN Append(f[i - 1], Preferred[i])
                                              ELSE f[i - 1]
      BY <1>2
    <2>2. \A i \in 0..k : g[i] =
              IF i = 0 THEN <<>>
              ELSE IF Preferred[i] \in usable THEN Append(g[i - 1], Preferred[i])
                                              ELSE g[i - 1]
      <3> SUFFICES ASSUME NEW i \in 0..k
                   PROVE  g[i] =
                       IF i = 0 THEN <<>>
                       ELSE IF Preferred[i] \in usable THEN Append(g[i - 1], Preferred[i])
                                                       ELSE g[i - 1]
        OBVIOUS
      <3>1. CASE i < k
        <4>1. i \in 0..j /\ g[i] = f[i] /\ (i > 0 => g[i - 1] = f[i - 1])
          BY <2>0, <3>1
        <4> QED BY <2>1, <4>1
      <3>2. CASE i = k
        <4>1. g[k] = last /\ g[k - 1] = f[j]
          BY <2>0
        <4> QED BY <2>0, <3>2, <4>1
      <3> QED BY <2>0, <3>1, <3>2
    <2>3. Upto(k, g)
      BY <2>2
    <2> HIDE DEF Upto, g
    <2> QED BY <2>3
  <1> HIDE DEF Upto
  <1>3. 0 \in Good
    BY <1>0, <1>1
  <1>4. \A j \in 0..(n - 1) : j \in Good => j + 1 \in Good
    BY <1>0, <1>2
  <1>5. n \in Good
    <2> HIDE DEF Good
    <2>1. \A i \in 0..n : i \in Good
      BY <1>0, <1>3, <1>4, Induction
    <2> QED BY <1>0, <2>1
  <1>6. PICK f : Upto(n, f)
    BY <1>5
  <1>7. Chooses(f, usable)
    BY <1>6 DEF Upto, Chooses, n
  <1> QED BY <1>7

\* What is offered is usable, and if the most preferred location is usable it comes
\* first.
LEMMA PreferredAmongFacts ==
    ASSUME NEW usable \in SUBSET Locations
    PROVE  /\ PreferredAmong(usable) \in Seq(Locations)
           /\ Len(PreferredAmong(usable)) <= Len(Preferred)
           /\ \A k \in 1..Len(PreferredAmong(usable)) :
                  PreferredAmong(usable)[k] \in usable
           /\ Preferred # <<>> /\ Preferred[1] \in usable =>
                  /\ PreferredAmong(usable) # <<>>
                  /\ PreferredAmong(usable)[1] = Preferred[1]
  <1> DEFINE n == Len(Preferred)
             f == CHOOSE g : Chooses(g, usable)
             first == n # 0 /\ Preferred[1] \in usable
             Chosen(s) == s \in Seq(Locations) /\ \A k \in 1..Len(s) : s[k] \in usable
             Good == {i \in 0..n :
                         /\ Chosen(f[i]) /\ Len(f[i]) <= i
                         /\ i # 0 /\ first => Len(f[i]) > 0 /\ f[i][1] = Preferred[1]}
  <1>0. n \in Nat /\ \A i \in 1..n : Preferred[i] \in Locations
    BY PolicyAssumption
  <1>1. Chooses(f, usable)
    BY ChosenExists
  <1>2. PreferredAmong(usable) = f[n]
    BY Zenon DEF PreferredAmong, Chooses
  <1> HIDE DEF f
  <1>3. \A i \in 0..n : f[i] =
            IF i = 0 THEN <<>>
            ELSE IF Preferred[i] \in usable THEN Append(f[i - 1], Preferred[i])
                                            ELSE f[i - 1]
    BY <1>1 DEF Chooses
  <1> HIDE DEF n
  <1>4. f[0] = <<>>
    BY <1>0, <1>3
  <1>5. 0 \in Good
    <2>1. Chosen(f[0])
      BY <1>4
    <2>2. Len(f[0]) <= 0
      BY <1>4
    <2> QED BY <1>0, <2>1, <2>2
  <1>6. ASSUME NEW i \in 0..(n - 1), i \in Good
        PROVE  i + 1 \in Good
    <2>1. i + 1 \in 1..n /\ i + 1 > 0 /\ (i + 1) - 1 = i
      BY <1>0
    <2>2. /\ Preferred[i + 1] \in usable => f[i + 1] = Append(f[i], Preferred[i + 1])
          /\ Preferred[i + 1] \notin usable => f[i + 1] = f[i]
      <3>1. i + 1 \in 0..n /\ i + 1 # 0
        BY <1>0
      <3> QED BY <1>3, <2>1, <3>1
    <2>3. Chosen(f[i]) /\ (i # 0 /\ first => Len(f[i]) > 0 /\ f[i][1] = Preferred[1])
      BY <1>6
    <2> DEFINE s == f[i]
               l == Preferred[i + 1]
    <2>4. l \in Locations
      BY <1>0, <2>1
    <2>5. Chosen(Append(s, l)) \/ l \notin usable
      <3>1. s \in Seq(Locations) /\ \A k \in 1..Len(s) : s[k] \in usable
        BY <2>3
      <3> HIDE DEF s, l
      <3>2. Append(s, l) \in Seq(Locations) /\ Len(Append(s, l)) = Len(s) + 1
        BY <2>4, <3>1
      <3>3. \A k \in 1..Len(s) : Append(s, l)[k] = s[k]
        BY <2>4, <3>1
      <3>4. Append(s, l)[Len(s) + 1] = l /\ Len(s) \in Nat
        BY <2>4, <3>1
      <3> QED BY <3>1, <3>2, <3>3, <3>4
    <2>6. Chosen(f[i + 1])
      <3> HIDE DEF Chosen
      <3> QED BY <2>2, <2>3, <2>5
    <2>7. ASSUME first PROVE Len(f[i + 1]) > 0 /\ f[i + 1][1] = Preferred[1]
      <3>1. s \in Seq(Locations)
        BY <2>3
      <3>2. CASE i = 0
        <4>1. f[i + 1] = Append(<<>>, Preferred[1])
          BY <1>4, <2>2, <2>7, <3>2
        <4> QED BY <4>1
      <3>3. CASE i # 0
        <4>1. Len(s) > 0 /\ s[1] = Preferred[1]
          BY <2>3, <2>7, <3>3
        <4>2. f[i + 1] = Append(s, l) \/ f[i + 1] = s
          BY <2>2
        <4> HIDE DEF s, l
        <4>3. Len(Append(s, l)) > 0 /\ Append(s, l)[1] = s[1]
          BY <2>4, <3>1, <4>1
        <4> QED BY <4>1, <4>2, <4>3
      <3> QED BY <3>2, <3>3
    <2>8. i + 1 \in 0..n
      BY <1>0
    <2>9. Len(f[i + 1]) <= i + 1
      <3>1. s \in Seq(Locations) /\ Len(s) <= i
        BY <1>6, <2>3
      <3>2. f[i + 1] = Append(s, l) \/ f[i + 1] = s
        BY <2>2
      <3> HIDE DEF s, l
      <3>3. Len(Append(s, l)) = Len(s) + 1 /\ Len(s) \in Nat
        BY <2>4, <3>1
      <3> QED BY <2>1, <3>1, <3>2, <3>3
    <2> HIDE DEF Chosen
    <2> QED BY <2>6, <2>7, <2>8, <2>9
  <1>7. n \in Good
    <2>1. \A i \in 0..(n - 1) : i \in Good => i + 1 \in Good
      BY <1>6
    <2> HIDE DEF Good
    <2>2. \A i \in 0..n : i \in Good
      BY <1>0, <1>5, <2>1, Induction
    <2> QED BY <1>0, <2>2
  <1>8. /\ f[n] \in Seq(Locations) /\ Len(f[n]) <= n
        /\ \A k \in 1..Len(f[n]) : f[n][k] \in usable
        /\ n # 0 /\ first => Len(f[n]) > 0 /\ f[n][1] = Preferred[1]
    BY <1>7
  <1>9. Preferred # <<>> => n # 0
    BY PolicyAssumption DEF n
  <1>10. f[n] = <<>> => Len(f[n]) = 0
    OBVIOUS
  <1> QED BY <1>2, <1>8, <1>9, <1>10 DEF n

-----------------------------------------------------------------------------
(* The invariant of the location cache *)

\* The default endpoint, or that of a location of the list.
OfLocations(ordered) == {DefaultEndpoint} \cup {EndpointAt[l] : l \in Range(ordered)}

\* A list of endpoints that is never empty and made of those.
EndpointsOf(list, ordered) ==
    /\ list \in Seq(Endpoints) \ {<<>>}
    /\ \A i \in 1..Len(list) : list[i] \in OfLocations(ordered)

LEMMA EndpointsOfFacts ==
    ASSUME NEW list, NEW ordered, EndpointsOf(list, ordered)
    PROVE  /\ Len(list) \in Nat \ {0}
           /\ Range(list) = {list[i] : i \in 1..Len(list)}
  BY DEF EndpointsOf, Range

CacheTypes ==
    /\ MarksTypeOK
    /\ sinceUpdate \in Age
    /\ enableMultipleWritableLocations \in BOOLEAN
    /\ orderedWriteLocations \in Seq(Locations)
    /\ orderedReadLocations \in Seq(Locations)

\* The cache knows the locations of the last account read.
ListsAreOfAccount ==
    EnableEndpointDiscovery =>
        /\ orderedWriteLocations = account.writable
        /\ orderedReadLocations = account.readable

\* No mark is younger than the lists: the lists of an old cache hide nothing.
MarksAreOlder == \A e \in Endpoints : sinceUpdate <= unavailability[e].age

\* The write list of an account with one write region starts with it.
WriterComesFirst ==
    EnableEndpointDiscovery /\ ~CanUseMultipleWriteLocations =>
        writeEndpoints[1] =
            IF orderedWriteLocations = <<>> THEN DefaultEndpoint
            ELSE EndpointAt[orderedWriteLocations[1]]

CacheInv ==
    /\ CacheTypes
    /\ ListsAreOfAccount
    /\ MarksAreOlder
    /\ EndpointsOf(readEndpoints, orderedReadLocations)
    /\ EndpointsOf(writeEndpoints, orderedWriteLocations)
    /\ WriterComesFirst
    /\ MarkedEndpointNotOffered

LEMMA EndpointsOrDefaultFacts ==
    ASSUME NEW chosen \in Seq(Locations)
    PROVE  /\ EndpointsOrDefault(chosen) \in Seq(Endpoints) \ {<<>>}
           /\ Len(EndpointsOrDefault(chosen)) \in Nat \ {0}
           /\ \A i \in 1..Len(EndpointsOrDefault(chosen)) :
                  EndpointsOrDefault(chosen)[i] =
                      IF chosen = <<>> THEN DefaultEndpoint ELSE EndpointAt[chosen[i]]
           /\ chosen # <<>> => Len(EndpointsOrDefault(chosen)) = Len(chosen)
  <1>1. CASE chosen = <<>>
    BY <1>1, EndpointAssumption DEF EndpointsOrDefault
  <1>2. CASE chosen # <<>>
    <2>1. Len(chosen) \in Nat \ {0}
      BY <1>2
    <2>2. EndpointsOrDefault(chosen) = [i \in 1..Len(chosen) |-> EndpointAt[chosen[i]]]
      BY <1>2 DEF EndpointsOrDefault
    <2>3. Len(EndpointsOrDefault(chosen)) = Len(chosen)
      BY <2>1, <2>2
    <2>4. \A i \in 1..Len(chosen) : EndpointAt[chosen[i]] \in Endpoints
      BY EndpointAssumption
    <2>5. EndpointsOrDefault(chosen) \in Seq(Endpoints)
      BY <2>1, <2>2, <2>4
    <2> QED BY <1>2, <2>1, <2>2, <2>3, <2>5
  <1> QED BY <1>1, <1>2

LEMMA ListedLocations ==
    ASSUME NEW s \in Seq(Locations)
    PROVE  /\ \A i \in 1..Len(s) : s[i] \in Range(s)
           /\ Range(s) \subseteq Locations
  <1>1. DOMAIN s = 1..Len(s) /\ \A i \in 1..Len(s) : s[i] \in Locations
    OBVIOUS
  <1>2. Range(s) = {s[i] : i \in 1..Len(s)}
    BY <1>1 DEF Range
  <1>3. ASSUME NEW i \in 1..Len(s) PROVE s[i] \in Range(s)
    BY <1>2
  <1>4. ASSUME NEW l \in Range(s) PROVE l \in Locations
    BY <1>1, <1>2
  <1>5. \A i \in 1..Len(s) : s[i] \in Range(s)
    BY <1>3
  <1>6. Range(s) \subseteq Locations
    BY <1>4
  <1> QED BY <1>5, <1>6

\* The default endpoint alone, and what the preferred locations give of a list.
LEMMA DefaultFacts ==
    ASSUME NEW ordered
    PROVE  /\ EndpointsOf(<<DefaultEndpoint>>, ordered)
           /\ \A i \in 1..Len(<<DefaultEndpoint>>) : <<DefaultEndpoint>>[i] = DefaultEndpoint
  BY EndpointAssumption DEF EndpointsOf, OfLocations

LEMMA ChosenOfLocations ==
    ASSUME NEW ordered \in Seq(Locations), NEW chosen \in Seq(Locations),
           \A k \in 1..Len(chosen) : chosen[k] \in Range(ordered)
    PROVE  EndpointsOf(EndpointsOrDefault(chosen), ordered)
  <1> DEFINE list == EndpointsOrDefault(chosen)
  <1>1. /\ list \in Seq(Endpoints) \ {<<>>}
        /\ \A i \in 1..Len(list) :
               list[i] = IF chosen = <<>> THEN DefaultEndpoint ELSE EndpointAt[chosen[i]]
        /\ chosen # <<>> => Len(list) = Len(chosen)
    BY EndpointsOrDefaultFacts
  <1> HIDE DEF list
  <1>2. ASSUME NEW i \in 1..Len(list) PROVE list[i] \in OfLocations(ordered)
    <2>1. CASE chosen = <<>>
      BY <1>1, <2>1 DEF OfLocations
    <2>2. CASE chosen # <<>>
      <3>1. chosen[i] \in Range(ordered) /\ list[i] = EndpointAt[chosen[i]]
        BY <1>1, <2>2
      <3> QED BY <3>1 DEF OfLocations
    <2> QED BY <2>1, <2>2
  <1> QED BY <1>1, <1>2 DEF EndpointsOf, list

LEMMA ChosenOffersOnly ==
    ASSUME NEW chosen \in Seq(Locations), NEW usable,
           \A k \in 1..Len(chosen) : chosen[k] \in usable,
           NEW e \in Range(EndpointsOrDefault(chosen))
    PROVE  e = DefaultEndpoint \/ \E l \in usable : e = EndpointAt[l]
  <1>1. CASE chosen = <<>>
    <2>1. EndpointsOrDefault(chosen) = <<DefaultEndpoint>>
      BY <1>1 DEF EndpointsOrDefault
    <2> QED BY <2>1 DEF Range
  <1>2. CASE chosen # <<>>
    <2>1. EndpointsOrDefault(chosen) = [i \in 1..Len(chosen) |-> EndpointAt[chosen[i]]]
      BY <1>2 DEF EndpointsOrDefault
    <2>2. PICK i \in 1..Len(chosen) : e = EndpointAt[chosen[i]]
      BY <2>1 DEF Range
    <2> QED BY <2>2
  <1> QED BY <1>1, <1>2

\* What the cache has after updateLocationCache: lists of the locations it knows,
\* without what is marked; and, if nothing is marked, the most preferred location
\* first, if it is one of them.
LEMMA UpdateGives ==
    ASSUME CacheTypes, NEW marks \in MarksType, NEW acc,
           acc.writable \in Seq(Locations), acc.readable \in Seq(Locations),
           acc.multi \in BOOLEAN,
           UpdateLocationCache(marks, acc)
    PROVE  /\ CacheTypes' /\ MarksAreOlder'
           /\ EndpointsOf(readEndpoints', orderedReadLocations')
           /\ EndpointsOf(writeEndpoints', orderedWriteLocations')
           /\ WriterComesFirst' /\ MarkedEndpointNotOffered'
           /\ EnableEndpointDiscovery =>
                  orderedReadLocations' = acc.readable
                      /\ orderedWriteLocations' = acc.writable
           /\ /\ EnableEndpointDiscovery /\ Preferred # <<>>
              /\ Preferred[1] \in Range(orderedReadLocations')
              /\ ~IsEndpointUnavailable(EndpointAt[Preferred[1]], "Read")'
              => readEndpoints'[1] = EndpointAt[Preferred[1]]
  <1> DEFINE reads == {l \in Locations : Usable(l, orderedReadLocations, "Read")'}
             writes == {l \in Locations : Usable(l, orderedWriteLocations, "Write")'}
             chosenReads == PreferredAmong(reads)
             chosenWrites == PreferredAmong(writes)
  <1>1. MarksTypeOK' /\ CacheTypes'
    <2>1. MarksTypeOK'
      BY UpdateKeepsMarks
    <2>2. sinceUpdate' \in Age
      BY AgeFacts DEF UpdateLocationCache
    <2> QED BY <2>1, <2>2 DEF UpdateLocationCache, CacheTypes
  <1>2. orderedReadLocations' \in Seq(Locations) /\ orderedWriteLocations' \in Seq(Locations)
    BY <1>1 DEF CacheTypes
  <1>3. MarksAreOlder'
    <2>1. sinceUpdate' = 0 /\ \A e \in Endpoints : unavailability'[e].age \in Age
      BY <1>1 DEF UpdateLocationCache, MarksTypeOK
    <2> QED BY <2>1, ExpiryAssumption DEF MarksAreOlder, Age, Expired
  <1>4. /\ chosenReads \in Seq(Locations)
        /\ \A k \in 1..Len(chosenReads) : chosenReads[k] \in reads
        /\ Preferred # <<>> /\ Preferred[1] \in reads =>
               chosenReads # <<>> /\ chosenReads[1] = Preferred[1]
    <2> HIDE DEF reads
    <2>1. reads \in SUBSET Locations
      BY DEF reads
    <2> QED BY <2>1, PreferredAmongFacts
  <1>5. /\ chosenWrites \in Seq(Locations)
        /\ \A k \in 1..Len(chosenWrites) : chosenWrites[k] \in writes
    <2> HIDE DEF writes
    <2>1. writes \in SUBSET Locations
      BY DEF writes
    <2> QED BY <2>1, PreferredAmongFacts
  <1>6. readEndpoints' = IF EnableEndpointDiscovery /\ orderedReadLocations' # <<>>
                         THEN EndpointsOrDefault(chosenReads) ELSE <<DefaultEndpoint>>
    BY DEF UpdateLocationCache, GetPreferredAvailableEndpoints
  <1>7. writeEndpoints' =
            IF EnableEndpointDiscovery /\ orderedWriteLocations' # <<>>
            THEN EndpointsOrDefault(IF CanUseMultipleWriteLocations' THEN chosenWrites
                                    ELSE orderedWriteLocations')
            ELSE <<DefaultEndpoint>>
    BY DEF UpdateLocationCache, GetPreferredAvailableEndpoints
  <1>8. \A l \in reads : /\ l \in Range(orderedReadLocations') /\ l \in Locations
                         /\ ~IsEndpointUnavailable(EndpointAt[l], "Read")'
    BY DEF Usable
  <1>9. \A l \in writes : /\ l \in Range(orderedWriteLocations') /\ l \in Locations
                          /\ ~IsEndpointUnavailable(EndpointAt[l], "Write")'
    BY DEF Usable
  <1>10. EnableEndpointDiscovery =>
             orderedReadLocations' = acc.readable /\ orderedWriteLocations' = acc.writable
    BY DEF UpdateLocationCache
  <1>11. Preferred # <<>> => Preferred[1] \in Locations
    BY PolicyAssumption
  <1>12. /\ Preferred # <<>> /\ Preferred[1] \in Range(orderedReadLocations')
         /\ ~IsEndpointUnavailable(EndpointAt[Preferred[1]], "Read")'
         => Preferred[1] \in reads
    BY <1>11 DEF Usable
  <1> HIDE DEF reads, writes, chosenReads, chosenWrites
  <1>13. EndpointsOf(readEndpoints', orderedReadLocations')
    <2>1. EndpointsOf(EndpointsOrDefault(chosenReads), orderedReadLocations')
      BY <1>2, <1>4, <1>8, ChosenOfLocations
    <2> QED BY <1>6, <2>1, DefaultFacts
  <1>14. EndpointsOf(writeEndpoints', orderedWriteLocations')
    <2>1. EndpointsOf(EndpointsOrDefault(chosenWrites), orderedWriteLocations')
      BY <1>2, <1>5, <1>9, ChosenOfLocations
    <2>2. EndpointsOf(EndpointsOrDefault(orderedWriteLocations'), orderedWriteLocations')
      <3> DEFINE ordered == orderedWriteLocations'
      <3>1. ordered \in Seq(Locations)
        BY <1>2
      <3> HIDE DEF ordered
      <3>2. \A k \in 1..Len(ordered) : ordered[k] \in Range(ordered)
        BY <3>1, ListedLocations
      <3>3. EndpointsOf(EndpointsOrDefault(ordered), ordered)
        BY <3>1, <3>2, ChosenOfLocations
      <3> QED BY <3>3 DEF ordered
    <2> QED BY <1>7, <2>1, <2>2, DefaultFacts
  <1>15. WriterComesFirst'
    <2> SUFFICES ASSUME EnableEndpointDiscovery, ~CanUseMultipleWriteLocations'
                 PROVE  writeEndpoints'[1] =
                            IF orderedWriteLocations' = <<>> THEN DefaultEndpoint
                            ELSE EndpointAt[orderedWriteLocations'[1]]
      BY DEF WriterComesFirst
    <2>1. CASE orderedWriteLocations' = <<>>
      BY <1>7, <2>1
    <2>2. CASE orderedWriteLocations' # <<>>
      <3> DEFINE ordered == orderedWriteLocations'
                 list == EndpointsOrDefault(ordered)
      <3>1. writeEndpoints' = list /\ ordered \in Seq(Locations) /\ ordered # <<>>
        BY <1>2, <1>7, <2>2
      <3> HIDE DEF ordered
      <3>2. list[1] = EndpointAt[ordered[1]]
        BY <3>1, EndpointsOrDefaultFacts
      <3> QED BY <2>2, <3>1, <3>2 DEF ordered
    <2> QED BY <2>1, <2>2
  <1>16. MarkedEndpointNotOffered'
    <2> SUFFICES ASSUME NEW e \in Endpoints \ {DefaultEndpoint}
                 PROVE  /\ IsEndpointUnavailable(e, "Read")' => e \notin Range(readEndpoints')
                        /\ /\ IsEndpointUnavailable(e, "Write")'
                           /\ CanUseMultipleWriteLocations'
                           => e \notin Range(writeEndpoints')
      BY DEF MarkedEndpointNotOffered
    <2>0. Range(<<DefaultEndpoint>>) = {DefaultEndpoint}
      BY DEF Range
    <2>1. ASSUME IsEndpointUnavailable(e, "Read")', e \in Range(readEndpoints')
          PROVE  FALSE
      <3>1. readEndpoints' = EndpointsOrDefault(chosenReads)
        BY <1>6, <2>0, <2>1
      <3>2. \A x \in Range(EndpointsOrDefault(chosenReads)) :
                x = DefaultEndpoint \/ \E l \in reads : x = EndpointAt[l]
        BY <1>4, ChosenOffersOnly
      <3>3. PICK l \in reads : e = EndpointAt[l]
        BY <2>1, <3>1, <3>2
      <3> QED BY <1>8, <2>1, <3>3
    <2>2. ASSUME IsEndpointUnavailable(e, "Write")', CanUseMultipleWriteLocations',
                 e \in Range(writeEndpoints')
          PROVE  FALSE
      <3>1. writeEndpoints' = EndpointsOrDefault(chosenWrites)
        BY <1>7, <2>0, <2>2
      <3>2. \A x \in Range(EndpointsOrDefault(chosenWrites)) :
                x = DefaultEndpoint \/ \E l \in writes : x = EndpointAt[l]
        BY <1>5, ChosenOffersOnly
      <3>3. PICK l \in writes : e = EndpointAt[l]
        BY <2>2, <3>1, <3>2
      <3> QED BY <1>9, <2>2, <3>3
    <2> QED BY <2>1, <2>2
  <1>17. ASSUME EnableEndpointDiscovery, Preferred # <<>>,
                Preferred[1] \in Range(orderedReadLocations'),
                ~IsEndpointUnavailable(EndpointAt[Preferred[1]], "Read")'
         PROVE  readEndpoints'[1] = EndpointAt[Preferred[1]]
    <2>1. chosenReads # <<>> /\ chosenReads[1] = Preferred[1]
      BY <1>4, <1>12, <1>17
    <2>2. orderedReadLocations' # <<>>
      <3>1. Range(<<>>) = {}
        BY DEF Range
      <3> QED BY <1>17, <3>1
    <2>3. readEndpoints' = EndpointsOrDefault(chosenReads)
      BY <1>6, <1>17, <2>2
    <2>4. EndpointsOrDefault(chosenReads)[1] = EndpointAt[chosenReads[1]]
      BY <1>4, <2>1, EndpointsOrDefaultFacts
    <2> QED BY <2>1, <2>3, <2>4
  <1> QED BY <1>1, <1>3, <1>10, <1>13, <1>14, <1>15, <1>16, <1>17

LEMMA CacheStarts == CacheInit => CacheInv
  <1> SUFFICES ASSUME CacheInit PROVE CacheInv
    OBVIOUS
  <1> USE DEF CacheInit
  <1>1. CacheTypes
    <2>1. unavailability \in [Endpoints -> [age: Age, ops: SUBSET Operations]]
      BY NoMarkType
    <2>2. <<>> \in Seq(Locations)
      OBVIOUS
    <2> QED BY <2>1, <2>2, AgeFacts DEF CacheTypes, MarksTypeOK
  <1>2. ListsAreOfAccount
    BY DEF ListsAreOfAccount, NoAccount
  <1>3. \A e \in Endpoints : unavailability[e].age = Expired /\ unavailability[e].ops = {}
    BY DEF NoMark
  <1>4. MarksAreOlder
    BY <1>3, ExpiryAssumption DEF MarksAreOlder, Expired
  <1>5. /\ EndpointsOf(readEndpoints, orderedReadLocations)
        /\ EndpointsOf(writeEndpoints, orderedWriteLocations)
    BY DefaultFacts
  <1>6. WriterComesFirst
    BY DEF WriterComesFirst
  <1>7. MarkedEndpointNotOffered
    BY <1>3 DEF MarkedEndpointNotOffered, IsEndpointUnavailable
  <1> QED BY <1>1, <1>2, <1>4, <1>5, <1>6, <1>7 DEF CacheInv

LEMMA CachedAccountTypes ==
    ASSUME CacheTypes
    PROVE  /\ CachedAccount.writable = orderedWriteLocations
           /\ CachedAccount.readable = orderedReadLocations
           /\ CachedAccount.writable \in Seq(Locations)
           /\ CachedAccount.readable \in Seq(Locations)
           /\ CachedAccount.multi \in BOOLEAN
  BY DEF CacheTypes, CachedAccount

\* The lists are computed again for the account the cache knows.
LEMMA RecomputeKeepsInv ==
    ASSUME CacheInv, NEW marks \in MarksType,
           UpdateLocationCache(marks, CachedAccount), UNCHANGED account
    PROVE  CacheInv'
  <1>1. CacheTypes /\ ListsAreOfAccount
    BY DEF CacheInv
  <1>2. /\ CachedAccount.writable = orderedWriteLocations
        /\ CachedAccount.readable = orderedReadLocations
        /\ CachedAccount.writable \in Seq(Locations)
        /\ CachedAccount.readable \in Seq(Locations)
        /\ CachedAccount.multi \in BOOLEAN
    BY <1>1, CachedAccountTypes
  <1> DEFINE acc == CachedAccount
  <1> HIDE DEF acc
  <1>3. /\ UpdateLocationCache(marks, acc)
        /\ acc.writable \in Seq(Locations) /\ acc.readable \in Seq(Locations)
        /\ acc.multi \in BOOLEAN
    BY <1>2 DEF acc
  <1>4. /\ CacheTypes' /\ MarksAreOlder'
        /\ EndpointsOf(readEndpoints', orderedReadLocations')
        /\ EndpointsOf(writeEndpoints', orderedWriteLocations')
        /\ WriterComesFirst' /\ MarkedEndpointNotOffered'
        /\ EnableEndpointDiscovery =>
               orderedReadLocations' = acc.readable /\ orderedWriteLocations' = acc.writable
    BY <1>1, <1>3, UpdateGives
  <1>5. ListsAreOfAccount'
    BY <1>1, <1>2, <1>4 DEF ListsAreOfAccount, acc
  <1> QED BY <1>4, <1>5 DEF CacheInv, EndpointsOf, OfLocations

LEMMA AccountReadKeepsInv ==
    ASSUME CacheInv, NEW acc \in Accounts, OnDatabaseAccountRead(acc)
    PROVE  CacheInv'
  <1>1. CacheTypes /\ unavailability \in MarksType
    BY DEF CacheInv, CacheTypes, MarksTypeOK, MarksType
  <1>2. /\ acc.writable \in Seq(Locations) /\ acc.readable \in Seq(Locations)
        /\ acc.multi \in BOOLEAN
    BY AccountAssumption
  <1>3. UpdateLocationCache(unavailability, acc) /\ account' = acc
    BY DEF OnDatabaseAccountRead
  <1>4. /\ CacheTypes' /\ MarksAreOlder'
        /\ EndpointsOf(readEndpoints', orderedReadLocations')
        /\ EndpointsOf(writeEndpoints', orderedWriteLocations')
        /\ WriterComesFirst' /\ MarkedEndpointNotOffered'
        /\ EnableEndpointDiscovery =>
               orderedReadLocations' = acc.readable /\ orderedWriteLocations' = acc.writable
    BY <1>1, <1>2, <1>3, UpdateGives
  <1>5. ListsAreOfAccount'
    BY <1>3, <1>4 DEF ListsAreOfAccount
  <1> QED BY <1>4, <1>5 DEF CacheInv, EndpointsOf, OfLocations

\* Of the marks at most some run out.
LEMMA TickKeepsInv == CacheInv /\ Tick => CacheInv'
  <1> SUFFICES ASSUME CacheInv, Tick PROVE CacheInv'
    OBVIOUS
  <1>1. /\ UNCHANGED <<enableMultipleWritableLocations, orderedWriteLocations,
                       orderedReadLocations, writeEndpoints, readEndpoints, account>>
        /\ sinceUpdate' = Older(sinceUpdate) /\ sinceUpdate \in Age
        /\ MarksTypeOK
    BY DEF Tick, CacheInv, CacheTypes
  <1>2. \A e \in Endpoints : /\ unavailability'[e].age = Older(unavailability[e].age)
                             /\ unavailability'[e].ops = unavailability[e].ops
                             /\ unavailability[e].age \in Age
    BY <1>1 DEF Tick, MarksTypeOK
  <1>3. MarksTypeOK' /\ CacheTypes'
    <2>1. MarksTypeOK'
      BY <1>1, AgeFacts DEF Tick, MarksTypeOK
    <2>2. sinceUpdate' \in Age
      BY <1>1, AgeFacts
    <2> QED BY <1>1, <2>1, <2>2 DEF CacheInv, CacheTypes
  <1>4. MarksAreOlder'
    <2>1. \A a, b \in Age : a <= b => Older(a) <= Older(b)
      BY ExpiryAssumption DEF Age, Expired, Older
    <2> QED BY <1>1, <1>2, <2>1 DEF MarksAreOlder, CacheInv
  <1>5. \A e \in Endpoints, op \in Operations :
            IsEndpointUnavailable(e, op)' => IsEndpointUnavailable(e, op)
    <2>1. \A a \in Age : CanUpdateCache(a) => CanUpdateCache(Older(a))
      BY ExpiryAssumption DEF Age, Expired, Older, CanUpdateCache
    <2> QED BY <1>2, <2>1 DEF IsEndpointUnavailable, CanUpdateCache
  <1>6. MarkedEndpointNotOffered'
    BY <1>1, <1>5
    DEF MarkedEndpointNotOffered, CacheInv, Operations, CanUseMultipleWriteLocations
  <1>7. /\ ListsAreOfAccount' /\ WriterComesFirst'
        /\ EndpointsOf(readEndpoints', orderedReadLocations')
        /\ EndpointsOf(writeEndpoints', orderedWriteLocations')
    BY <1>1 DEF ListsAreOfAccount, WriterComesFirst, CacheInv, CanUseMultipleWriteLocations
  <1> QED BY <1>3, <1>4, <1>6, <1>7 DEF CacheInv, EndpointsOf, OfLocations

LEMMA NoStepKeepsInv == CacheInv /\ UNCHANGED cacheVars => CacheInv'
  BY DEF cacheVars, CacheInv, CacheTypes, MarksTypeOK, ListsAreOfAccount, MarksAreOlder,
         EndpointsOf, OfLocations, WriterComesFirst, MarkedEndpointNotOffered,
         IsEndpointUnavailable, CanUseMultipleWriteLocations

LEMMA CacheSteps == CacheInv /\ [CacheNext]_cacheVars => CacheInv'
  <1> SUFFICES ASSUME CacheInv, [CacheNext]_cacheVars PROVE CacheInv'
    OBVIOUS
  <1>0. MarksTypeOK /\ unavailability \in MarksType
    BY DEF CacheInv, CacheTypes, MarksTypeOK, MarksType
  <1>1. ASSUME NEW e \in Endpoints, NEW op \in Operations, MarkEndpointUnavailable(e, op)
        PROVE  CacheInv'
    <2> DEFINE marks == Marked(e, op)
    <2>1. UpdateLocationCache(marks, CachedAccount) /\ UNCHANGED account
      BY <1>1 DEF MarkEndpointUnavailable
    <2>2. marks \in MarksType
      BY <1>0, MarkingKeepsMarks DEF Marked
    <2> HIDE DEF marks
    <2> QED BY <2>1, <2>2, RecomputeKeepsInv
  <1>2. CASE \E acc \in Accounts : OnDatabaseAccountRead(acc)
    BY <1>2, AccountReadKeepsInv
  <1>3. CASE GetEndpoints
    <2>1. CASE /\ \E e \in Endpoints : unavailability[e].ops # {}
               /\ CanUpdateCache(sinceUpdate)
      BY <1>0, <1>3, <2>1, RecomputeKeepsInv DEF GetEndpoints
    <2>2. CASE ~(/\ \E e \in Endpoints : unavailability[e].ops # {}
                 /\ CanUpdateCache(sinceUpdate))
      <3>1. UNCHANGED cacheVars
        BY <1>3, <2>2 DEF GetEndpoints, cacheVars
      <3> QED BY <3>1, NoStepKeepsInv
    <2> QED BY <2>1, <2>2
  <1>4. CASE Tick
    BY <1>4, TickKeepsInv
  <1>5. CASE UNCHANGED cacheVars
    BY <1>5, NoStepKeepsInv
  <1> QED BY <1>1, <1>2, <1>3, <1>4, <1>5 DEF CacheNext

\* Whatever the endpoint of a request is, it is listed for its use.
LEMMA ResolvesToListed ==
    ASSUME CacheInv, NEW kind, NEW route, kind.read \in BOOLEAN,
           route.ignorePreferredLocation \in BOOLEAN, route.index \in Nat
    PROVE  ResolveServiceEndpoint(kind, route) \in
               {DefaultEndpoint} \cup
               {EndpointAt[l] : l \in
                   Range(IF kind.read /\ ~route.ignorePreferredLocation
                         THEN account.readable ELSE account.writable)}
  <1> DEFINE toPrimary == \/ route.ignorePreferredLocation
                          \/ /\ ~kind.read
                             /\ ~CanUseMultipleWriteLocationsFor(kind.multiWritable)
             list == IF kind.read THEN readEndpoints ELSE writeEndpoints
             writers == Len(orderedWriteLocations)
             primary == IF route.index % 2 < writers - 1
                        THEN route.index % 2 ELSE writers - 1
  <1>1. /\ kind.read \in BOOLEAN /\ route.ignorePreferredLocation \in BOOLEAN
        /\ route.index \in Nat
    OBVIOUS
  <1>2. orderedWriteLocations \in Seq(Locations) /\ writers \in Nat
    BY DEF CacheInv, CacheTypes
  <1>3. CASE ~EnableEndpointDiscovery
    BY <1>3 DEF ResolveServiceEndpoint
  <1>4. CASE EnableEndpointDiscovery /\ toPrimary /\ writers = 0
    BY <1>4 DEF ResolveServiceEndpoint
  <1>5. CASE EnableEndpointDiscovery /\ toPrimary /\ writers > 0
    <2>1. ResolveServiceEndpoint(kind, route) =
              EndpointAt[orderedWriteLocations[primary + 1]]
      BY <1>5 DEF ResolveServiceEndpoint
    <2>2. primary + 1 \in 1..writers
      <3> DEFINE half == route.index % 2
      <3>1. half \in 0..1
        BY <1>1
      <3> HIDE DEF half
      <3>2. primary = IF half < writers - 1 THEN half ELSE writers - 1
        BY DEF half
      <3> HIDE DEF primary
      <3> QED BY <1>2, <1>5, <3>1, <3>2
    <2>3. orderedWriteLocations = account.writable
      BY <1>5 DEF CacheInv, ListsAreOfAccount
    <2> HIDE DEF primary
    <2>4. orderedWriteLocations[primary + 1] \in Range(orderedWriteLocations)
      BY <1>2, <2>2, ListedLocations
    <2>5. ~(kind.read /\ ~route.ignorePreferredLocation)
      BY <1>5
    <2> QED BY <2>1, <2>3, <2>4, <2>5
  <1>6. CASE EnableEndpointDiscovery /\ ~toPrimary
    <2>1. ResolveServiceEndpoint(kind, route) = list[(route.index % Len(list)) + 1]
      BY <1>6 DEF ResolveServiceEndpoint
    <2>2. /\ EndpointsOf(list, IF kind.read THEN account.readable ELSE account.writable)
          /\ Len(list) \in Nat \ {0}
      BY <1>6, EndpointsOfFacts DEF CacheInv, ListsAreOfAccount
    <2> HIDE DEF list
    <2>3. (route.index % Len(list)) + 1 \in 1..Len(list)
      BY <1>1, <2>2
    <2>4. ~route.ignorePreferredLocation
      BY <1>6
    <2> QED BY <2>1, <2>2, <2>3, <2>4 DEF EndpointsOf, OfLocations
  <1> QED BY <1>2, <1>3, <1>4, <1>5, <1>6

LEMMA ResolvesToEndpoint ==
    ASSUME CacheInv, NEW kind, NEW route, kind.read \in BOOLEAN,
           route.ignorePreferredLocation \in BOOLEAN, route.index \in Nat
    PROVE  ResolveServiceEndpoint(kind, route) \in Endpoints
  <1>1. CASE ~EnableEndpointDiscovery
    BY <1>1, EndpointAssumption DEF ResolveServiceEndpoint
  <1>2. CASE EnableEndpointDiscovery
    <2>1. account.readable \in Seq(Locations) /\ account.writable \in Seq(Locations)
      BY <1>2 DEF CacheInv, CacheTypes, ListsAreOfAccount
    <2>2. Range(account.readable) \subseteq Locations
          /\ Range(account.writable) \subseteq Locations
      BY <2>1, ListedLocations
    <2> QED BY <2>2, ResolvesToListed, EndpointAssumption
  <1> QED BY <1>1, <1>2

\* Whatever fails, is read or grows old in whatever order: the lists are made of
\* what the account lists, and the marked endpoints are not among them.
THEOREM CacheInvariant == CacheSpec => []CacheInv
  BY CacheStarts, CacheSteps, PTL DEF CacheSpec

\* resolveServiceEndpoint never answers undefined, nor an endpoint that the last
\* account read did not list for its use, for any lists and any preferences.
THEOREM RoutesStayListed == CacheSpec => []RoutesToListedEndpoint
  <1>1. CacheInv => RoutesToListedEndpoint
    <2>1. /\ \A kind \in Kinds : kind.read \in BOOLEAN
          /\ \A route \in Routes(3) :
                 route.ignorePreferredLocation \in BOOLEAN /\ route.index \in Nat
      BY DEF Kinds, Routes
    <2> QED BY <2>1, ResolvesToListed DEF RoutesToListedEndpoint
  <1> QED BY <1>1, CacheInvariant, PTL

\* No list offers an endpoint that is marked for its operation, whatever the order
\* of marks, account reads and recomputations.
THEOREM MarkedStaysOut == CacheSpec => []MarkedEndpointNotOffered
  <1>1. CacheInv => MarkedEndpointNotOffered
    BY DEF CacheInv
  <1> QED BY <1>1, CacheInvariant, PTL

-----------------------------------------------------------------------------
(* The refreshes of the endpoint manager *)

\* The inductive invariant: the two properties, the types they need, and that
\* the background refresh reads the account only while it is awake.
RefreshInv ==
    /\ isRefreshing \in BOOLEAN
    /\ attempt \in [Refreshers -> Nat]
    /\ background \in {"idle", "queued", "reading", "asleep"}
    /\ attempt["background"] > 0 => background = "reading"
    /\ AtMostOneRefresh
    /\ RefreshFlagHeld

LEMMA RefreshersFacts ==
    /\ "background" \in Refreshers
    /\ "init" \in Refreshers
    /\ Callers \subseteq Refreshers
    /\ \A c \in Callers : c # "background" /\ c # "init"
  BY CallerAssumption DEF Refreshers

\* With isRefreshing down nothing refreshes, and nothing is promised.
LEMMA NothingRefreshing ==
    ASSUME RefreshInv, ~isRefreshing
    PROVE  /\ background = "idle"
           /\ \A r \in Refreshers : attempt[r] = 0
  BY DEF RefreshInv, RefreshFlagHeld

LEMMA InitRefreshInv == GemInit => RefreshInv
  <1> SUFFICES ASSUME GemInit
               PROVE  RefreshInv
    OBVIOUS
  <1>1. /\ attempt \in [Refreshers -> Nat]
        /\ \A r \in Refreshers : attempt[r] = 0
    BY DEF GemInit, ManagerInit
  <1>2. isRefreshing = FALSE /\ background = "idle"
    BY DEF GemInit, ManagerInit
  <1>3. \A r \in Refreshers : ~(attempt[r] > 0)
    BY <1>1
  <1>4. RefreshFlagHeld
    BY <1>2, <1>3 DEF RefreshFlagHeld
  <1>5. AtMostOneRefresh
    BY <1>3 DEF AtMostOneRefresh
  <1>6. isRefreshing \in BOOLEAN
    BY <1>2
  <1> QED
    BY <1>1, <1>2, <1>3, <1>4, <1>5, <1>6, RefreshersFacts DEF RefreshInv

\* A step that leaves the refreshes alone.
LEMMA FrameKeepsInv ==
    ASSUME RefreshInv, UNCHANGED <<isRefreshing, attempt, background>>
    PROVE  RefreshInv'
  BY DEF RefreshInv, AtMostOneRefresh, RefreshFlagHeld

\* A refresher that is not the background one may start when CanRefresh.
LEMMA StartKeepsInv ==
    ASSUME RefreshInv, NEW r \in Refreshers, r # "background",
           RefreshEndpointList(r), UNCHANGED background
    PROVE  RefreshInv'
  <1>1. CASE CanRefresh
    <2>1. /\ background = "idle"
          /\ \A s \in Refreshers : attempt[s] = 0
      BY <1>1, NothingRefreshing DEF CanRefresh
    <2>2. isRefreshing' = TRUE /\ attempt' = [attempt EXCEPT ![r] = 1]
      BY <1>1 DEF RefreshEndpointList
    <2>3. attempt' \in [Refreshers -> Nat]
      BY <2>2 DEF RefreshInv
    <2>4. \A s \in Refreshers : attempt'[s] = IF s = r THEN 1 ELSE 0
      BY <2>1, <2>2 DEF RefreshInv
    <2> QED
      BY <2>1, <2>2, <2>3, <2>4, RefreshersFacts
      DEF RefreshInv, AtMostOneRefresh, RefreshFlagHeld
  <1>2. CASE ~CanRefresh
    BY <1>2, FrameKeepsInv DEF RefreshEndpointList
  <1> QED BY <1>1, <1>2

\* A refresher that is reading the account is alone; what it decides leaves at
\* most the promise of a background refresh.
LEMMA FinishKeepsInv ==
    ASSUME RefreshInv, NEW r \in Refreshers, attempt[r] > 0,
           NEW should \in BOOLEAN, FinishRefresh(r, should)
    PROVE  RefreshInv'
  <1>1. \A s \in Refreshers : s # r => attempt[s] = 0
    BY DEF RefreshInv, AtMostOneRefresh
  <1>2. attempt' \in [Refreshers -> Nat]
    BY DEF FinishRefresh, RefreshInv
  <1>3. \A s \in Refreshers : attempt'[s] = 0
    BY <1>1 DEF FinishRefresh, RefreshInv
  <1>4. r # "background" => background = "idle"
    BY DEF RefreshInv, AtMostOneRefresh
  <1>5. background' = IF should THEN IF r = "background" THEN "asleep"
                                                         ELSE "queued"
                                ELSE "idle"
    BY <1>4 DEF FinishRefresh
  <1>6. isRefreshing' = should
    BY DEF FinishRefresh, StillRefreshing
  <1> QED
    BY <1>2, <1>3, <1>5, <1>6, RefreshersFacts
    DEF RefreshInv, AtMostOneRefresh, RefreshFlagHeld

\* The cache's answer is a truth value, before and after a step.
LEMMA ShouldRefreshIsBoolean ==
    /\ ShouldRefreshEndpoints \in BOOLEAN
    /\ ShouldRefreshEndpoints' \in BOOLEAN
  BY DEF ShouldRefreshEndpoints

LEMMA RefresherKeepsInv ==
    ASSUME RefreshInv, NEW r \in Refreshers, RefresherNext(r)
    PROVE  RefreshInv'
  <1>1. CASE \E acc \in Accounts : AccountRead(r, acc)
    BY <1>1, FinishKeepsInv, ShouldRefreshIsBoolean DEF AccountRead
  <1>2. CASE AccountReadFails(r)
    <2>1. CASE attempt[r] <= Len(Preferred)
      <3>1. /\ attempt' = [attempt EXCEPT ![r] = @ + 1]
            /\ UNCHANGED <<isRefreshing, background>>
        BY <1>2, <2>1 DEF AccountReadFails
      <3>2. attempt[r] \in Nat /\ attempt[r] > 0
        BY <1>2 DEF AccountReadFails, RefreshInv
      <3>3. attempt' \in [Refreshers -> Nat]
        BY <3>1, <3>2 DEF RefreshInv
      <3>4. \A s \in Refreshers : attempt'[s] > 0 <=> attempt[s] > 0
        BY <3>1, <3>2 DEF RefreshInv
      <3> QED
        BY <3>1, <3>3, <3>4, RefreshersFacts
        DEF RefreshInv, AtMostOneRefresh, RefreshFlagHeld
    <2>2. CASE ~(attempt[r] <= Len(Preferred))
      BY <1>2, <2>2, FinishKeepsInv, ShouldRefreshIsBoolean
      DEF AccountReadFails
    <2> QED BY <2>1, <2>2
  <1> QED BY <1>1, <1>2 DEF RefresherNext

\* The background refresh wakes up or starts only after the promise of it, when
\* nothing is reading the account.
LEMMA BackgroundKeepsInv ==
    ASSUME RefreshInv, BackgroundRefresh
    PROVE  RefreshInv'
  <1>1. background \in {"queued", "asleep"}
    BY DEF BackgroundRefresh, BackgroundDue
  <1>2. \A r \in Refreshers : attempt[r] = 0
    BY <1>1, RefreshersFacts DEF RefreshInv, AtMostOneRefresh
  <1>3. attempt' = [attempt EXCEPT !["background"] = 1]
    BY DEF BackgroundRefresh
  <1>4. attempt' \in [Refreshers -> Nat]
    BY <1>3 DEF RefreshInv
  <1>5. \A r \in Refreshers :
            attempt'[r] = IF r = "background" THEN 1 ELSE 0
    BY <1>2, <1>3 DEF RefreshInv
  <1>6. background' = "reading" /\ isRefreshing' = TRUE
    BY DEF BackgroundRefresh
  <1> QED
    BY <1>4, <1>5, <1>6, RefreshersFacts
    DEF RefreshInv, AtMostOneRefresh, RefreshFlagHeld

LEMMA CallerKeepsInv ==
    ASSUME RefreshInv, NEW c \in Callers, CallerNext(c)
    PROVE  RefreshInv'
  <1>1. CASE Resolve(c) \/ ResolveAfterInit(c) \/ Answered(c)
    BY <1>1, FrameKeepsInv
    DEF Resolve, ResolveAfterInit, Route, Answered, managerVars
  <1>2. CASE AwaitInit(c)
    <2>1. CASE initPromise = "undefined"
      BY <1>2, <2>1, RefreshersFacts, StartKeepsInv DEF AwaitInit
    <2>2. CASE initPromise # "undefined"
      BY <1>2, <2>2, FrameKeepsInv DEF AwaitInit
    <2> QED BY <2>1, <2>2
  <1>3. CASE \E op \in Operations : Forbidden(c, op)
    BY <1>3, RefreshersFacts, StartKeepsInv DEF Forbidden
  <1> QED BY <1>1, <1>2, <1>3 DEF CallerNext

LEMMA StepKeepsInv == RefreshInv /\ [GemNext]_gemVars => RefreshInv'
  <1> SUFFICES ASSUME RefreshInv, [GemNext]_gemVars
               PROVE  RefreshInv'
    OBVIOUS
  <1>1. CASE \E c \in Callers : CallerNext(c)
    BY <1>1, CallerKeepsInv
  <1>2. CASE \E r \in Refreshers : RefresherNext(r)
    BY <1>2, RefresherKeepsInv
  <1>3. CASE BackgroundRefresh
    BY <1>3, BackgroundKeepsInv
  <1>4. CASE ReadEndpointLists \/ ClockTick \/ UNCHANGED gemVars
    BY <1>4, FrameKeepsInv
    DEF ReadEndpointLists, ClockTick, gemVars, managerVars
  <1> QED BY <1>1, <1>2, <1>3, <1>4 DEF GemNext

\* RefreshInv holds in every reachable state.
THEOREM RefreshInvariant == GemSpec => []RefreshInv
  <1>1. GemInit => RefreshInv
    BY InitRefreshInv
  <1>2. RefreshInv /\ [GemNext]_gemVars => RefreshInv'
    BY StepKeepsInv
  <1> QED BY <1>1, <1>2, PTL DEF GemSpec

\* refreshEndpointList and backgroundRefresh exclude each other: at most one
\* account read of a refresh is in flight, for any number of requests.
THEOREM OneRefreshAtATime == GemSpec => []AtMostOneRefresh
  <1>1. RefreshInv => AtMostOneRefresh
    BY DEF RefreshInv
  <1> QED BY <1>1, RefreshInvariant, PTL

\* isRefreshing is never left raised without a refresh that will lower it, and
\* never lowered under one.
THEOREM RefreshFlagIsExact == GemSpec => []RefreshFlagHeld
  <1>1. RefreshInv => RefreshFlagHeld
    BY DEF RefreshInv
  <1> QED BY <1>1, RefreshInvariant, PTL

-----------------------------------------------------------------------------
(* Waiting *)

WaitInv ==
    /\ at \in [Callers -> {"idle", "initializing", "sent", "refreshing"}]
    /\ initPromise \in {"undefined", "pending", "resolved"}
    /\ NobodyWaitsInVain

LEMMA InitWaitInv == GemInit => WaitInv
  BY RefreshersFacts
  DEF GemInit, ManagerInit, WaitInv, NobodyWaitsInVain

\* The end of a refresh releases who waits for it, and nobody waits for another.
LEMMA FinishKeepsWaitInv ==
    ASSUME RefreshInv, WaitInv, NEW r \in Refreshers, attempt[r] > 0,
           NEW should \in BOOLEAN, FinishRefresh(r, should)
    PROVE  WaitInv'
  <1>1. \A s \in Refreshers : attempt'[s] = 0
    BY DEF FinishRefresh, RefreshInv, AtMostOneRefresh
  <1>2. \A s \in Refreshers : s # r => ~(attempt[s] > 0)
    BY DEF RefreshInv, AtMostOneRefresh
  <1>3. /\ at' \in [Callers -> {"idle", "initializing", "sent", "refreshing"}]
        /\ \A c \in Callers :
               at'[c] = IF c = r THEN "idle" ELSE at[c]
    BY DEF FinishRefresh, Returns, WaitInv
  <1>4. initPromise' = IF r = "init" THEN "resolved" ELSE initPromise
    BY DEF FinishRefresh
  <1>5. \A c \in Callers : at'[c] # "refreshing"
    BY <1>2, <1>3, RefreshersFacts DEF WaitInv, NobodyWaitsInVain
  <1>6. initPromise' # "pending"
    BY <1>2, <1>4, RefreshersFacts DEF WaitInv, NobodyWaitsInVain
  <1>7. \A c \in Callers : at'[c] = "initializing" => initPromise' # "undefined"
    BY <1>3, <1>4 DEF WaitInv, NobodyWaitsInVain
  <1> QED
    BY <1>1, <1>3, <1>4, <1>5, <1>6, <1>7, RefreshersFacts
    DEF WaitInv, NobodyWaitsInVain

LEMMA RefresherKeepsWaitInv ==
    ASSUME RefreshInv, WaitInv, NEW r \in Refreshers, RefresherNext(r)
    PROVE  WaitInv'
  <1>1. CASE \E acc \in Accounts : AccountRead(r, acc)
    BY <1>1, FinishKeepsWaitInv, ShouldRefreshIsBoolean DEF AccountRead
  <1>2. CASE AccountReadFails(r) /\ attempt[r] <= Len(Preferred)
    <2>1. /\ attempt' = [attempt EXCEPT ![r] = @ + 1]
          /\ UNCHANGED <<initPromise, at>>
      BY <1>2 DEF AccountReadFails, callerVars
    <2>2. attempt[r] \in Nat /\ attempt[r] > 0
      BY <1>2 DEF AccountReadFails, RefreshInv
    <2>3. \A s \in Refreshers : attempt'[s] > 0 <=> attempt[s] > 0
      BY <2>1, <2>2 DEF RefreshInv
    <2> QED
      BY <2>1, <2>3, RefreshersFacts DEF WaitInv, NobodyWaitsInVain
  <1>3. CASE AccountReadFails(r) /\ ~(attempt[r] <= Len(Preferred))
    BY <1>3, FinishKeepsWaitInv, ShouldRefreshIsBoolean DEF AccountReadFails
  <1> QED BY <1>1, <1>2, <1>3 DEF RefresherNext

LEMMA CallerKeepsWaitInv ==
    ASSUME RefreshInv, WaitInv, NEW c \in Callers, CallerNext(c)
    PROVE  WaitInv'
  <1>1. CASE \/ Resolve(c) \/ ResolveAfterInit(c) \/ Answered(c)
    <2>1. /\ UNCHANGED <<attempt, initPromise>>
          /\ at[c] # "refreshing"
          /\ \/ at' = [at EXCEPT ![c] = "sent"]
             \/ at' = [at EXCEPT ![c] = "idle"]
      BY <1>1 DEF Resolve, ResolveAfterInit, Route, Answered, managerVars
    <2> QED
      BY <2>1, RefreshersFacts DEF WaitInv, NobodyWaitsInVain
  <1>2. CASE AwaitInit(c)
    <2>1. /\ at[c] = "idle"
          /\ at' = [at EXCEPT ![c] = "initializing"]
      BY <1>2 DEF AwaitInit
    <2>2. CASE initPromise = "undefined" /\ CanRefresh
      <3>1. /\ attempt' = [attempt EXCEPT !["init"] = 1]
            /\ initPromise' = "pending"
        BY <1>2, <2>2 DEF AwaitInit, RefreshEndpointList
      <3>2. \A s \in Refreshers :
                attempt'[s] = IF s = "init" THEN 1 ELSE attempt[s]
        BY <3>1 DEF RefreshInv
      <3> QED
        BY <2>1, <3>1, <3>2, RefreshersFacts
        DEF WaitInv, NobodyWaitsInVain
    <2>3. CASE ~(initPromise = "undefined" /\ CanRefresh)
      <3>1. /\ attempt' = attempt
            /\ initPromise' = IF initPromise = "undefined" THEN "resolved"
                                                           ELSE initPromise
        BY <1>2, <2>3 DEF AwaitInit, RefreshEndpointList
      <3> QED
        BY <2>1, <3>1, RefreshersFacts DEF WaitInv, NobodyWaitsInVain
    <2> QED BY <2>2, <2>3
  <1>3. CASE \E op \in Operations : Forbidden(c, op)
    <2>1. /\ at[c] = "sent"
          /\ initPromise' = initPromise
          /\ RefreshEndpointList(c)
          /\ at' = [at EXCEPT ![c] = IF CanRefresh THEN "refreshing"
                                                   ELSE "idle"]
      BY <1>3 DEF Forbidden
    <2>2. CASE CanRefresh
      <3>1. \A s \in Refreshers :
                attempt'[s] = IF s = c THEN 1 ELSE attempt[s]
        BY <2>1, <2>2 DEF RefreshEndpointList, RefreshInv
      <3> QED
        BY <2>1, <2>2, <3>1, RefreshersFacts DEF WaitInv, NobodyWaitsInVain
    <2>3. CASE ~CanRefresh
      BY <2>1, <2>3, RefreshersFacts
      DEF RefreshEndpointList, WaitInv, NobodyWaitsInVain
    <2> QED BY <2>2, <2>3
  <1> QED BY <1>1, <1>2, <1>3 DEF CallerNext

LEMMA BackgroundKeepsWaitInv ==
    ASSUME RefreshInv, WaitInv, BackgroundRefresh
    PROVE  WaitInv'
  <1>1. /\ attempt' = [attempt EXCEPT !["background"] = 1]
        /\ UNCHANGED <<initPromise, at>>
    BY DEF BackgroundRefresh, callerVars
  <1>2. \A s \in Refreshers : s # "background" => attempt'[s] = attempt[s]
    BY <1>1 DEF RefreshInv
  <1> QED
    BY <1>1, <1>2, RefreshersFacts DEF WaitInv, NobodyWaitsInVain

LEMMA StepKeepsWaitInv ==
    RefreshInv /\ WaitInv /\ [GemNext]_gemVars => WaitInv'
  <1> SUFFICES ASSUME RefreshInv, WaitInv, [GemNext]_gemVars
               PROVE  WaitInv'
    OBVIOUS
  <1>1. CASE \E c \in Callers : CallerNext(c)
    BY <1>1, CallerKeepsWaitInv
  <1>2. CASE \E r \in Refreshers : RefresherNext(r)
    BY <1>2, RefresherKeepsWaitInv
  <1>3. CASE BackgroundRefresh
    BY <1>3, BackgroundKeepsWaitInv
  <1>4. CASE ReadEndpointLists \/ ClockTick \/ UNCHANGED gemVars
    <2>1. UNCHANGED <<attempt, initPromise, at>>
      BY <1>4 DEF ReadEndpointLists, ClockTick, gemVars, managerVars,
         callerVars
    <2> QED
      BY <2>1 DEF WaitInv, NobodyWaitsInVain
  <1> QED BY <1>1, <1>2, <1>3, <1>4 DEF GemNext

\* A request that awaits init or its own refresh has a refresh in flight to wait
\* for: handing over to the background never leaves a waiter behind.
THEOREM NoLostWaiter == GemSpec => []NobodyWaitsInVain
  <1>1. GemInit => WaitInv
    BY InitWaitInv
  <1>2. RefreshInv /\ WaitInv /\ [GemNext]_gemVars => WaitInv'
    BY StepKeepsWaitInv
  <1>3. WaitInv => NobodyWaitsInVain
    BY DEF WaitInv
  <1> QED BY <1>1, <1>2, <1>3, RefreshInvariant, PTL DEF GemSpec

-----------------------------------------------------------------------------
(* Degraded routing is refreshed *)

\* While no refresh is under way or promised, reads go to the most preferred
\* region, and the only writer is not marked.
Quiet ==
    ~isRefreshing /\ EnableEndpointDiscovery /\ Preferred # <<>> =>
        /\ orderedReadLocations # <<>> =>
               /\ Preferred[1] \in Range(orderedReadLocations)
               /\ readEndpoints[1] = EndpointAt[Preferred[1]]
        /\ ~CanUseMultipleWriteLocations =>
               ~IsEndpointUnavailable(writeEndpoints[1], "Write")

RoutingInv ==
    /\ CacheInv
    /\ endpoint \in [Callers -> Endpoints]
    /\ Quiet

\* A step of the manager takes at most a step of the cache.
LEMMA GemStepIsCacheStep ==
    ASSUME CacheInv, endpoint \in [Callers -> Endpoints], [GemNext]_gemVars
    PROVE  [CacheNext]_cacheVars
  <1>1. ASSUME NEW c \in Callers, CallerNext(c) PROVE [CacheNext]_cacheVars
    <2>1. CASE Resolve(c) \/ ResolveAfterInit(c) \/ AwaitInit(c) \/ Answered(c)
      BY <2>1 DEF Resolve, ResolveAfterInit, Route, AwaitInit, Answered
    <2>2. ASSUME NEW op \in Operations, Forbidden(c, op) PROVE [CacheNext]_cacheVars
      <3>1. MarkEndpointUnavailable(endpoint[c], op) /\ endpoint[c] \in Endpoints
        BY <2>2 DEF Forbidden
      <3> QED BY <3>1 DEF CacheNext
    <2> QED BY <1>1, <2>1, <2>2 DEF CallerNext
  <1>2. ASSUME NEW r \in Refreshers, RefresherNext(r) PROVE [CacheNext]_cacheVars
    BY <1>2 DEF RefresherNext, AccountRead, AccountReadFails, CacheNext
  <1>3. CASE BackgroundRefresh \/ ReadEndpointLists \/ ClockTick \/ UNCHANGED gemVars
    BY <1>3 DEF BackgroundRefresh, ReadEndpointLists, ClockTick, gemVars, CacheNext
  <1> QED BY <1>1, <1>2, <1>3 DEF GemNext

LEMMA EndpointsStayTyped ==
    ASSUME CacheInv, endpoint \in [Callers -> Endpoints], [GemNext]_gemVars
    PROVE  endpoint' \in [Callers -> Endpoints]
  <1>1. ASSUME NEW c \in Callers, Route(c) PROVE endpoint' \in [Callers -> Endpoints]
    <2>1. PICK kind \in Kinds, route \in Routes(1) :
              endpoint' = [endpoint EXCEPT ![c] = ResolveServiceEndpoint(kind, route)]
      BY <1>1 DEF Route
    <2>2. /\ kind.read \in BOOLEAN /\ route.ignorePreferredLocation \in BOOLEAN
          /\ route.index \in Nat
      BY DEF Kinds, Routes
    <2>3. ResolveServiceEndpoint(kind, route) \in Endpoints
      BY <2>2, ResolvesToEndpoint
    <2> QED BY <2>1, <2>3
  <1>2. ASSUME NEW c \in Callers, CallerNext(c)
        PROVE  endpoint' \in [Callers -> Endpoints]
    <2>1. DefaultEndpoint \in Endpoints
      BY EndpointAssumption
    <2> QED BY <1>1, <1>2, <2>1
            DEF CallerNext, Resolve, ResolveAfterInit, AwaitInit, Answered, Forbidden
  <1>3. ASSUME NEW r \in Refreshers, RefresherNext(r) PROVE endpoint' = endpoint
    BY <1>3 DEF RefresherNext, AccountRead, AccountReadFails, FinishRefresh, callerVars
  <1>4. CASE BackgroundRefresh \/ ReadEndpointLists \/ ClockTick \/ UNCHANGED gemVars
    BY <1>4 DEF BackgroundRefresh, ReadEndpointLists, ClockTick, gemVars, callerVars
  <1> QED BY <1>2, <1>3, <1>4 DEF GemNext

\* With the cache as it is, and no refresh given up.
LEMMA FrameKeepsQuiet ==
    ASSUME Quiet, UNCHANGED cacheVars, isRefreshing' = isRefreshing \/ isRefreshing' = TRUE
    PROVE  Quiet'
  BY DEF Quiet, cacheVars, CanUseMultipleWriteLocations, IsEndpointUnavailable

\* A refresh ends only when the cache asks for none.
LEMMA FinishGivesQuiet ==
    ASSUME NEW r \in Refreshers, FinishRefresh(r, ShouldRefreshEndpoints')
    PROVE  Quiet'
  <1> SUFFICES ASSUME ~isRefreshing', EnableEndpointDiscovery, Preferred # <<>>
               PROVE  /\ orderedReadLocations' # <<>> =>
                             /\ Preferred[1] \in Range(orderedReadLocations')
                             /\ readEndpoints'[1] = EndpointAt[Preferred[1]]
                      /\ ~CanUseMultipleWriteLocations' =>
                             ~IsEndpointUnavailable(writeEndpoints[1], "Write")'
    BY DEF Quiet
  <1>1. ~ShouldRefreshEndpoints'
    BY DEF FinishRefresh, StillRefreshing
  <1> QED BY <1>1 DEF ShouldRefreshEndpoints

\* When the lists of an old cache are computed again, nothing is marked any more.
LEMMA RecomputeKeepsQuiet ==
    ASSUME CacheInv, Quiet, GetEndpoints, isRefreshing' = isRefreshing
    PROVE  Quiet'
  <1>1. CASE ~CanUpdateCache(sinceUpdate)
             \/ ~\E e \in Endpoints : unavailability[e].ops # {}
    <2>1. UNCHANGED cacheVars
      BY <1>1 DEF GetEndpoints, cacheVars
    <2> QED BY <2>1, FrameKeepsQuiet
  <1>2. CASE CanUpdateCache(sinceUpdate) /\ \E e \in Endpoints : unavailability[e].ops # {}
    <2> SUFFICES ASSUME ~isRefreshing, EnableEndpointDiscovery, Preferred # <<>>
                 PROVE  /\ orderedReadLocations' # <<>> =>
                               /\ Preferred[1] \in Range(orderedReadLocations')
                               /\ readEndpoints'[1] = EndpointAt[Preferred[1]]
                        /\ ~IsEndpointUnavailable(writeEndpoints[1], "Write")'
      BY DEF Quiet
    <2>1. CacheTypes /\ MarksTypeOK /\ unavailability \in MarksType
      BY DEF CacheInv, CacheTypes, MarksTypeOK, MarksType
    <2>2. UpdateLocationCache(unavailability, CachedAccount)
      BY <1>2 DEF GetEndpoints
    <2> DEFINE acc == CachedAccount
    <2>3. /\ acc.readable = orderedReadLocations /\ acc.writable \in Seq(Locations)
          /\ acc.readable \in Seq(Locations) /\ acc.multi \in BOOLEAN
      BY <2>1, CachedAccountTypes
    <2> HIDE DEF acc
    <2>4. UpdateLocationCache(unavailability, acc)
      BY <2>2 DEF acc
    <2>5. /\ EndpointsOf(writeEndpoints', orderedWriteLocations') /\ CacheTypes'
          /\ orderedReadLocations' = acc.readable
          /\ /\ Preferred[1] \in Range(orderedReadLocations')
             /\ ~IsEndpointUnavailable(EndpointAt[Preferred[1]], "Read")'
             => readEndpoints'[1] = EndpointAt[Preferred[1]]
      BY <2>1, <2>3, <2>4, UpdateGives
    <2>6. \A e \in Endpoints : CanUpdateCache(unavailability[e].age)
      <3>1. \A e \in Endpoints : unavailability[e].age \in Age
        BY <2>1 DEF MarksTypeOK
      <3> QED BY <1>2, <2>1, <3>1, ExpiryAssumption
              DEF CacheInv, MarksAreOlder, CanUpdateCache, CacheTypes, Age, Expired
    <2>7. \A e \in Endpoints : unavailability'[e].ops = {}
      BY <2>2, <2>6
      DEF UpdateLocationCache, ClearStaleEndpointUnavailabilityInfo, NoMark
    <2>8. \A e \in Endpoints, op \in Operations : ~IsEndpointUnavailable(e, op)'
      BY <2>7 DEF IsEndpointUnavailable
    <2>9. ~IsEndpointUnavailable(writeEndpoints[1], "Write")'
      <3>1. writeEndpoints'[1] \in OfLocations(orderedWriteLocations')
        BY <2>5 DEF EndpointsOf
      <3>2. orderedWriteLocations' \in Seq(Locations)
        BY <2>5 DEF CacheTypes
      <3> DEFINE ordered == orderedWriteLocations'
      <3> HIDE DEF ordered
      <3>3. Range(ordered) \subseteq Locations
        BY <3>2, ListedLocations DEF ordered
      <3>4. writeEndpoints'[1] \in Endpoints
        BY <3>1, <3>3, EndpointAssumption DEF OfLocations, ordered
      <3> QED BY <2>7, <3>4 DEF IsEndpointUnavailable
    <2>10. ASSUME orderedReadLocations' # <<>>
           PROVE  /\ Preferred[1] \in Range(orderedReadLocations')
                  /\ readEndpoints'[1] = EndpointAt[Preferred[1]]
      <3>1. Preferred[1] \in Range(orderedReadLocations)
        BY <2>3, <2>5, <2>10 DEF Quiet
      <3>2. Preferred[1] \in Locations /\ EndpointAt[Preferred[1]] \in Endpoints
        BY PolicyAssumption, EndpointAssumption
      <3> QED BY <2>3, <2>5, <2>8, <3>1, <3>2 DEF Operations
    <2> QED BY <2>9, <2>10
  <1> QED BY <1>1, <1>2

LEMMA ClockKeepsQuiet ==
    ASSUME CacheInv, Quiet, Tick, isRefreshing' = isRefreshing
    PROVE  Quiet'
  <1>1. UNCHANGED <<enableMultipleWritableLocations, orderedWriteLocations,
                    orderedReadLocations, writeEndpoints, readEndpoints>>
    BY DEF Tick
  <1>2. /\ Len(writeEndpoints) \in Nat \ {0}
        /\ writeEndpoints[1] \in OfLocations(orderedWriteLocations)
        /\ orderedWriteLocations \in Seq(Locations)
    BY DEF CacheInv, EndpointsOf, CacheTypes
  <1>3. writeEndpoints[1] \in Endpoints
    <2>1. Range(orderedWriteLocations) \subseteq Locations
      BY <1>2, ListedLocations
    <2> QED BY <1>2, <2>1, EndpointAssumption DEF OfLocations
  <1>4. IsEndpointUnavailable(writeEndpoints[1], "Write")'
            => IsEndpointUnavailable(writeEndpoints[1], "Write")
    <2> DEFINE e == writeEndpoints[1]
    <2>1. /\ unavailability'[e].age = Older(unavailability[e].age)
          /\ unavailability'[e].ops = unavailability[e].ops
          /\ unavailability[e].age \in Age
      BY <1>3 DEF Tick, CacheInv, CacheTypes, MarksTypeOK
    <2>2. CanUpdateCache(unavailability[e].age)
              => CanUpdateCache(Older(unavailability[e].age))
      BY <2>1, ExpiryAssumption DEF Age, Expired, Older, CanUpdateCache
    <2> QED BY <1>1, <2>1, <2>2 DEF IsEndpointUnavailable, CanUpdateCache
  <1> QED BY <1>1, <1>4 DEF Quiet, CanUseMultipleWriteLocations

LEMMA StepKeepsQuiet ==
    ASSUME CacheInv, Quiet, isRefreshing \in BOOLEAN, [GemNext]_gemVars
    PROVE  Quiet'
  <1>1. ASSUME NEW c \in Callers, CallerNext(c) PROVE Quiet'
    <2>1. CASE Resolve(c) \/ ResolveAfterInit(c) \/ AwaitInit(c) \/ Answered(c)
      <3>1. UNCHANGED cacheVars /\ (isRefreshing' = isRefreshing \/ isRefreshing' = TRUE)
        BY <2>1 DEF Resolve, ResolveAfterInit, Route, AwaitInit, Answered, managerVars,
                    RefreshEndpointList
      <3> QED BY <3>1, FrameKeepsQuiet
    <2>2. CASE \E op \in Operations : Forbidden(c, op)
      <3>1. isRefreshing' = TRUE
        BY <2>2 DEF Forbidden, RefreshEndpointList, CanRefresh
      <3> QED BY <3>1 DEF Quiet
    <2> QED BY <1>1, <2>1, <2>2 DEF CallerNext
  <1>2. ASSUME NEW r \in Refreshers, RefresherNext(r) PROVE Quiet'
    <2>1. CASE \E acc \in Accounts : AccountRead(r, acc)
      BY <2>1, FinishGivesQuiet DEF AccountRead
    <2>2. CASE AccountReadFails(r) /\ attempt[r] <= Len(Preferred)
      BY <2>2, FrameKeepsQuiet DEF AccountReadFails
    <2>3. CASE AccountReadFails(r) /\ ~(attempt[r] <= Len(Preferred))
      <3>1. UNCHANGED cacheVars /\ FinishRefresh(r, ShouldRefreshEndpoints)
        BY <2>3 DEF AccountReadFails
      <3>2. ShouldRefreshEndpoints' = ShouldRefreshEndpoints
        BY <3>1 DEF cacheVars, ShouldRefreshEndpoints, CanUseMultipleWriteLocations,
                    IsEndpointUnavailable
      <3>3. FinishRefresh(r, ShouldRefreshEndpoints')
        BY <3>1, <3>2
      <3> QED BY <3>3, FinishGivesQuiet
    <2> QED BY <1>2, <2>1, <2>2, <2>3 DEF RefresherNext
  <1>3. CASE BackgroundRefresh
    BY <1>3, FrameKeepsQuiet DEF BackgroundRefresh
  <1>4. CASE ReadEndpointLists
    BY <1>4, RecomputeKeepsQuiet DEF ReadEndpointLists, managerVars
  <1>5. CASE ClockTick
    BY <1>5, ClockKeepsQuiet DEF ClockTick
  <1>6. CASE UNCHANGED gemVars
    BY <1>6, FrameKeepsQuiet DEF gemVars, managerVars
  <1> QED BY <1>1, <1>2, <1>3, <1>4, <1>5, <1>6 DEF GemNext

LEMMA RoutingStarts == GemInit => RoutingInv
  <1> SUFFICES ASSUME GemInit PROVE RoutingInv
    OBVIOUS
  <1>1. CacheInv
    BY CacheStarts DEF GemInit
  <1>2. endpoint \in [Callers -> Endpoints]
    BY EndpointAssumption DEF GemInit
  <1>3. Quiet
    <2>1. /\ orderedReadLocations = <<>> /\ writeEndpoints[1] = DefaultEndpoint
          /\ unavailability[DefaultEndpoint].ops = {}
      BY EndpointAssumption DEF GemInit, CacheInit, NoMark
    <2> QED BY <2>1 DEF Quiet, IsEndpointUnavailable
  <1> QED BY <1>1, <1>2, <1>3 DEF RoutingInv

\* The cache of a manager keeps the invariant of the cache, and its lists need a
\* refresh only while there is one.
THEOREM RoutingInvariant == GemSpec => []RoutingInv
  <1>1. RefreshInv /\ RoutingInv /\ [GemNext]_gemVars => RoutingInv'
    <2> SUFFICES ASSUME RefreshInv, RoutingInv, [GemNext]_gemVars PROVE RoutingInv'
      OBVIOUS
    <2>1. CacheInv'
      BY GemStepIsCacheStep, CacheSteps DEF RoutingInv
    <2>2. endpoint' \in [Callers -> Endpoints]
      BY EndpointsStayTyped DEF RoutingInv
    <2>3. Quiet'
      BY StepKeepsQuiet DEF RoutingInv, RefreshInv
    <2> QED BY <2>1, <2>2, <2>3 DEF RoutingInv
  <1> QED BY <1>1, RoutingStarts, RefreshInvariant, PTL DEF GemSpec

\* Routing that is degraded, by a mark, an account read, or lists computed again, is
\* never left so without a refresh that is under way or promised.
THEOREM DegradedStaysRefreshed == GemSpec => []DegradedIsRefreshed
  <1>1. RoutingInv /\ RefreshInv => DegradedIsRefreshed
    <2> SUFFICES ASSUME RoutingInv, RefreshInv, Degraded, ~isRefreshing PROVE FALSE
      BY DEF DegradedIsRefreshed, RefreshInv
    <2>1. /\ EnableEndpointDiscovery /\ Preferred # <<>> /\ account.readable # <<>>
          /\ CacheInv /\ Quiet
      BY DEF Degraded, RoutingInv
    <2>2. /\ orderedReadLocations # <<>> /\ Len(readEndpoints) \in Nat \ {0}
          /\ orderedWriteLocations \in Seq(Locations)
      BY <2>1 DEF CacheInv, ListsAreOfAccount, EndpointsOf, CacheTypes
    <2>3. ByPreference(TRUE) = EndpointAt[Preferred[1]]
      <3>1. ByPreference(TRUE) = readEndpoints[(0 % Len(readEndpoints)) + 1]
        BY <2>1 DEF ByPreference, ResolveServiceEndpoint
      <3>2. (0 % Len(readEndpoints)) + 1 = 1
        BY <2>2
      <3> QED BY <2>1, <2>2, <3>1, <3>2 DEF Quiet
    <2>4. ~CanUseMultipleWriteLocations /\ IsEndpointUnavailable(ByPreference(FALSE), "Write")
      BY <2>3 DEF Degraded
    <2>5. ByPreference(FALSE) = writeEndpoints[1]
      <3> DEFINE writers == Len(orderedWriteLocations)
      <3>1. writers \in Nat /\ (writers = 0 <=> orderedWriteLocations = <<>>)
        BY <2>2
      <3>2. writeEndpoints[1] = IF writers = 0 THEN DefaultEndpoint
                                ELSE EndpointAt[orderedWriteLocations[1]]
        BY <2>1, <2>4, <3>1 DEF CacheInv, WriterComesFirst
      <3>3. ~CanUseMultipleWriteLocationsFor(TRUE)
        BY <2>4 DEF CanUseMultipleWriteLocationsFor
      <3>4. CASE writers = 0
        BY <2>1, <3>2, <3>3, <3>4 DEF ByPreference, ResolveServiceEndpoint
      <3>5. CASE writers > 0
        <4> DEFINE kind == [read |-> FALSE, multiWritable |-> TRUE]
                   route == [ignorePreferredLocation |-> FALSE, index |-> 0]
                   primary == IF route.index % 2 < writers - 1
                              THEN route.index % 2 ELSE writers - 1
        <4>1. kind.read = FALSE /\ kind.multiWritable = TRUE /\ route.index = 0
          OBVIOUS
        <4>2. ByPreference(FALSE) = ResolveServiceEndpoint(kind, route)
          BY DEF ByPreference
        <4>3. primary = 0
          <5>1. route.index % 2 = 0
            BY <4>1
          <5> HIDE DEF writers
          <5> QED BY <3>1, <3>5, <5>1
        <4> HIDE DEF kind, route
        <4>4. ResolveServiceEndpoint(kind, route) =
                  EndpointAt[orderedWriteLocations[primary + 1]]
          <5>1. ~kind.read /\ ~CanUseMultipleWriteLocationsFor(kind.multiWritable)
            BY <2>4, <4>1 DEF CanUseMultipleWriteLocationsFor
          <5> QED BY <2>1, <3>5, <5>1 DEF ResolveServiceEndpoint
        <4> HIDE DEF primary
        <4>5. orderedWriteLocations[primary + 1] = orderedWriteLocations[1]
          BY <4>3
        <4>6. writeEndpoints[1] = EndpointAt[orderedWriteLocations[1]]
          BY <3>2, <3>5
        <4> QED BY <4>2, <4>4, <4>5, <4>6, Zenon
      <3>6. writers = 0 \/ writers > 0
        BY <3>1
      <3> QED BY <3>4, <3>5, <3>6, Zenon
    <2> QED BY <2>1, <2>4, <2>5 DEF Quiet
  <1> QED BY <1>1, RoutingInvariant, RefreshInvariant, PTL

-----------------------------------------------------------------------------
(* Writes are carried out at most once *)

\* A write that was carried out is over: no policy sends it again.
ApplyInv ==
    /\ request \in [Requests -> RequestKinds]
    /\ pc \in [Requests -> {"new", "sent", "aborted", "refreshing", "retrying"}
                               \cup Done]
    /\ applied \in [Requests -> Nat]
    /\ \A q \in Requests : ~request[q].read =>
           IF pc[q] \in Done THEN applied[q] <= 1 ELSE applied[q] = 0

LEMMA KindIsRead ==
    ApplyInv => \A q \in Requests : request[q].read \in BOOLEAN
  BY DEF ApplyInv, RequestKinds

\* What the answers, the sending and the rest do to pc and applied.
LEMMA AnswerEffect ==
    ASSUME NEW q \in Requests, Answer(q)
    PROVE  /\ pc[q] \in {"sent", "aborted"}
           /\ request' = request
           /\ \/ /\ pc' = [pc EXCEPT ![q] = "succeeded"]
                 /\ applied' = [applied EXCEPT ![q] = @ + 1]
              \/ /\ applied' = [applied EXCEPT ![q] = @ + 1]
                 /\ \/ pc' = [pc EXCEPT ![q] = "failed"]
                    \/ request[q].read /\ pc' = [pc EXCEPT ![q] = "retrying"]
              \/ /\ applied' = applied
                 /\ \E to \in {"retrying", "refreshing", "failed"} :
                        pc' = [pc EXCEPT ![q] = to]
  <1>1. CASE Succeed(q)
    BY <1>1 DEF Succeed, history
  <1>2. CASE ConnectionLost(q)
    BY <1>2 DEF ConnectionLost, history, Decide, RetriesConnectionError
  <1>3. CASE \E retryAfter \in RetryAfters : Throttled(q, retryAfter)
    BY <1>3 DEF Throttled, history
  <1>4. CASE WriteForbidden(q)
    BY <1>4 DEF WriteForbidden, history
  <1>5. CASE SessionNotAvailable(q)
    BY <1>5 DEF SessionNotAvailable, history, Decide
  <1>6. CASE Refused(q)
    BY <1>6 DEF Refused, history
  <1> QED BY <1>1, <1>2, <1>3, <1>4, <1>5, <1>6 DEF Answer

LEMMA AnswerKeepsApplyInv ==
    ASSUME ApplyInv, NEW q \in Requests, Answer(q)
    PROVE  ApplyInv'
  <1>1. pc[q] \notin Done /\ request' = request
    BY AnswerEffect DEF Done
  <1>2. CASE /\ pc' = [pc EXCEPT ![q] = "succeeded"]
             /\ applied' = [applied EXCEPT ![q] = @ + 1]
    BY <1>1, <1>2, KindIsRead DEF ApplyInv, Done
  <1>3. CASE /\ applied' = [applied EXCEPT ![q] = @ + 1]
             /\ \/ pc' = [pc EXCEPT ![q] = "failed"]
                \/ request[q].read /\ pc' = [pc EXCEPT ![q] = "retrying"]
    BY <1>1, <1>3, KindIsRead DEF ApplyInv, Done
  <1>4. CASE /\ applied' = applied
             /\ \E to \in {"retrying", "refreshing", "failed"} :
                    pc' = [pc EXCEPT ![q] = to]
    BY <1>1, <1>4, KindIsRead DEF ApplyInv, Done
  <1> QED BY <1>2, <1>3, <1>4, AnswerEffect

LEMMA StepKeepsApplyInv == ApplyInv /\ [RequestNext]_reqVars => ApplyInv'
  <1> SUFFICES ASSUME ApplyInv, [RequestNext]_reqVars
               PROVE  ApplyInv'
    OBVIOUS
  <1>1. ASSUME NEW q \in Requests, Send(q) \/ Refreshed(q)
        PROVE  ApplyInv'
    <2>1. /\ applied' = applied
          /\ request' = request
          /\ pc[q] \notin Done
          /\ \E to \in {"aborted", "sent", "retrying"} :
                 pc' = [pc EXCEPT ![q] = to]
      BY <1>1 DEF Send, history, Sendable, Refreshed, Done
    <2> QED
      BY <2>1, KindIsRead DEF ApplyInv, Done
  <1>2. ASSUME UNCHANGED <<request, pc, applied>>
        PROVE  ApplyInv'
    BY <1>2 DEF ApplyInv
  <1>3. ASSUME NEW q \in Requests, UserAborts(q)
        PROVE  ApplyInv'
    BY <1>2, <1>3 DEF UserAborts, history
  <1>4. CASE RefreshAccount \/ TimePasses \/ UNCHANGED reqVars
    BY <1>2, <1>4 DEF RefreshAccount, TimePasses, reqVars, execVars,
        history
  <1> QED
    BY <1>1, <1>3, <1>4, AnswerKeepsApplyInv DEF RequestNext

THEOREM ApplyInvariant == RequestSpec => []ApplyInv
  <1>1. RequestInit => ApplyInv
    BY DEF RequestInit, ApplyInv, Done
  <1> QED BY <1>1, StepKeepsApplyInv, PTL DEF RequestSpec

\* No write is carried out twice, whatever failures it meets, because only a
\* connection error leaves open whether it was, and writes are not retried then.
THEOREM WritesAreNotRepeated == RequestSpec => []WritesAppliedAtMostOnce
  <1>1. ApplyInv => WritesAppliedAtMostOnce
    BY DEF ApplyInv, WritesAppliedAtMostOnce
  <1> QED BY <1>1, ApplyInvariant, PTL

-----------------------------------------------------------------------------
(* Attempts are paid for by the budgets *)

\* What the session policy goes through is shorter than its budget may be.
ListsFit ==
    /\ Len(readEndpoints) \in Nat /\ Len(readEndpoints) < MaxSession
    /\ CanUseMultipleWriteLocations =>
           Len(writeEndpoints) \in Nat /\ Len(writeEndpoints) < MaxSession

LEMMA MaxSessionFacts ==
    /\ MaxSession \in Nat /\ 2 <= MaxSession
    /\ Len(<<DefaultEndpoint>>) \in Nat /\ Len(<<DefaultEndpoint>>) < MaxSession
  <1>1. Len(<<DefaultEndpoint>>) = 1
    OBVIOUS
  <1>2. CASE Preferred = <<>>
    BY <1>1, <1>2 DEF MaxSession
  <1>3. CASE Preferred # <<>>
    <2>1. Len(Preferred) \in Nat \ {0}
      BY <1>3, PolicyAssumption
    <2> QED BY <1>1, <1>3, <2>1 DEF MaxSession
  <1> QED BY <1>2, <1>3

LEMMA PreferredFit ==
    ASSUME NEW usable \in SUBSET Locations
    PROVE  LET list == EndpointsOrDefault(PreferredAmong(usable))
           IN  Len(list) \in Nat /\ Len(list) < MaxSession
  <1> DEFINE chosen == PreferredAmong(usable)
  <1>1. chosen \in Seq(Locations) /\ Len(chosen) <= Len(Preferred)
    BY PreferredAmongFacts
  <1> HIDE DEF chosen
  <1> DEFINE Fits == Len(EndpointsOrDefault(chosen)) \in Nat
                     /\ Len(EndpointsOrDefault(chosen)) < MaxSession
  <1>2. ASSUME chosen = <<>> PROVE Fits
    <2>1. EndpointsOrDefault(chosen) = <<DefaultEndpoint>>
      BY <1>2 DEF EndpointsOrDefault
    <2> QED BY <2>1, MaxSessionFacts
  <1>3. ASSUME chosen # <<>> PROVE Fits
    <2>1. Len(EndpointsOrDefault(chosen)) = Len(chosen)
      BY <1>1, <1>3, EndpointsOrDefaultFacts
    <2>2. Len(chosen) \in Nat \ {0}
      BY <1>1, <1>3
    <2>3. Preferred # <<>> /\ Len(Preferred) \in Nat
      BY <1>1, <2>2, PolicyAssumption
    <2> QED BY <1>1, <2>1, <2>2, <2>3 DEF MaxSession
  <1> QED BY <1>2, <1>3 DEF chosen

LEMMA UpdateFits ==
    ASSUME NEW marks, NEW acc, UpdateLocationCache(marks, acc)
    PROVE  ListsFit'
  <1> DEFINE reads == {l \in Locations : Usable(l, orderedReadLocations, "Read")'}
             writes == {l \in Locations : Usable(l, orderedWriteLocations, "Write")'}
  <1>1. readEndpoints' \in {EndpointsOrDefault(PreferredAmong(reads)), <<DefaultEndpoint>>}
    BY DEF UpdateLocationCache, GetPreferredAvailableEndpoints
  <1>2. CanUseMultipleWriteLocations' =>
            writeEndpoints'
                \in {EndpointsOrDefault(PreferredAmong(writes)), <<DefaultEndpoint>>}
    BY DEF UpdateLocationCache, GetPreferredAvailableEndpoints
  <1>3. reads \in SUBSET Locations /\ writes \in SUBSET Locations
    OBVIOUS
  <1> HIDE DEF reads, writes
  <1>4. Len(readEndpoints') \in Nat /\ Len(readEndpoints') < MaxSession
    BY <1>1, <1>3, PreferredFit, MaxSessionFacts
  <1>5. CanUseMultipleWriteLocations' =>
            Len(writeEndpoints') \in Nat /\ Len(writeEndpoints') < MaxSession
    BY <1>2, <1>3, PreferredFit, MaxSessionFacts
  <1> QED BY <1>4, <1>5 DEF ListsFit, MaxSession

LEMMA GetEndpointsFits ==
    ASSUME ListsFit, GetEndpoints
    PROVE  ListsFit' /\ (CanUseMultipleWriteLocations => CanUseMultipleWriteLocations')
  <1>1. CASE UpdateLocationCache(unavailability, CachedAccount)
    <2>1. ListsFit'
      BY <1>1, UpdateFits
    <2> QED BY <1>1, <2>1 DEF UpdateLocationCache, CanUseMultipleWriteLocations
  <1>2. CASE UNCHANGED <<enableMultipleWritableLocations, writeEndpoints, readEndpoints>>
    BY <1>2 DEF ListsFit, CanUseMultipleWriteLocations
  <1> QED BY <1>1, <1>2 DEF GetEndpoints

LEMMA StepKeepsListsFit == ListsFit /\ [RequestNext]_reqVars => ListsFit'
  <1> SUFFICES ASSUME ListsFit, [RequestNext]_reqVars PROVE ListsFit'
    OBVIOUS
  <1>1. ASSUME UNCHANGED <<enableMultipleWritableLocations, writeEndpoints, readEndpoints>>
        PROVE  ListsFit'
    BY <1>1 DEF ListsFit, CanUseMultipleWriteLocations
  <1>2. ASSUME UNCHANGED cacheVars PROVE ListsFit'
    BY <1>1, <1>2 DEF cacheVars
  <1>3. ASSUME NEW q \in Requests, Send(q) \/ Refreshed(q) \/ UserAborts(q)
        PROVE  ListsFit'
    BY <1>2, <1>3 DEF Send, Refreshed, UserAborts
  <1>4. ASSUME NEW q \in Requests, Answer(q) PROVE ListsFit'
    <2>1. CASE WriteForbidden(q)
      <3>1. ASSUME NEW e, NEW op, MarkEndpointUnavailable(e, op) PROVE ListsFit'
        BY <3>1, UpdateFits DEF MarkEndpointUnavailable
      <3> QED BY <1>2, <2>1, <3>1 DEF WriteForbidden
    <2>2. CASE SessionNotAvailable(q)
      BY <1>2, <2>2, GetEndpointsFits DEF SessionNotAvailable
    <2>3. CASE Succeed(q) \/ ConnectionLost(q) \/ Refused(q)
               \/ \E retryAfter \in RetryAfters : Throttled(q, retryAfter)
      BY <1>2, <2>3 DEF Succeed, ConnectionLost, Refused, Throttled
    <2> QED BY <1>4, <2>1, <2>2, <2>3 DEF Answer
  <1>5. CASE RefreshAccount
    <2>1. PICK acc \in Accounts : UpdateLocationCache(unavailability, acc)
      BY <1>5 DEF RefreshAccount, OnDatabaseAccountRead
    <2> QED BY <2>1, UpdateFits
  <1>6. CASE TimePasses
    BY <1>1, <1>6 DEF TimePasses, Tick
  <1>7. CASE UNCHANGED reqVars
    BY <1>2, <1>7 DEF reqVars
  <1> QED BY <1>3, <1>4, <1>5, <1>6, <1>7 DEF RequestNext

Spent(q) == used[q]["discovery"] + used[q]["throttle"] + used[q]["session"]
                + used[q]["connection"]

\* A request that is about to be sent has a retry it has not used yet.
BudgetInv ==
    /\ pc \in [Requests -> {"new", "sent", "aborted", "refreshing", "retrying"}
                               \cup Done]
    /\ used \in [Requests -> [Policies -> Nat]]
    /\ attempts \in [Requests -> Nat]
    /\ \A q \in Requests :
           /\ pc[q] = "new" => attempts[q] = 0
           /\ pc[q] \in {"retrying", "refreshing"} => attempts[q] <= Spent(q)
    /\ ListsFit
    /\ AttemptsAreBudgeted

LEMMA BudgetFacts ==
    ASSUME BudgetInv, NEW q \in Requests
    PROVE  /\ Spent(q) \in Nat /\ attempts[q] \in Nat
           /\ attempts[q] <= 1 + Spent(q)
           /\ used[q]["discovery"] <= MaxDiscovery
           /\ used[q]["throttle"] <= MaxThrottle
           /\ used[q]["session"] <= MaxSession
           /\ used[q]["connection"] <= MaxConnection
  BY DEF BudgetInv, Spent, Policies, AttemptsAreBudgeted

\* A step that changes the counters of one request q only.
LEMMA LocalBudget ==
    ASSUME BudgetInv, NEW q \in Requests, NEW to, NEW n \in Nat,
           to \in {"sent", "aborted", "refreshing", "retrying"} \cup Done,
           pc' = [pc EXCEPT ![q] = to],
           attempts' = [attempts EXCEPT ![q] = n],
           used' \in [Requests -> [Policies -> Nat]],
           \A p \in Requests \ {q} : used'[p] = used[p],
           ListsFit',
           to \in {"retrying", "refreshing"} => n <= Spent(q)',
           n <= 1 + Spent(q)',
           used'[q]["discovery"] <= MaxDiscovery,
           used'[q]["throttle"] <= MaxThrottle,
           used'[q]["session"] <= MaxSession,
           used'[q]["connection"] <= MaxConnection
    PROVE  BudgetInv'
  <1>1. \A p \in Requests : p # q =>
            /\ pc'[p] = pc[p] /\ attempts'[p] = attempts[p]
            /\ Spent(p)' = Spent(p)
    BY DEF BudgetInv, Spent
  <1>2. pc'[q] = to /\ attempts'[q] = n
    BY DEF BudgetInv
  <1>3. /\ pc' \in [Requests -> {"new", "sent", "aborted", "refreshing",
                                 "retrying"} \cup Done]
        /\ attempts' \in [Requests -> Nat]
    BY DEF BudgetInv
  <1>4. \A p \in Requests :
           /\ pc'[p] = "new" => attempts'[p] = 0
           /\ pc'[p] \in {"retrying", "refreshing"}
                  => attempts'[p] <= Spent(p)'
    BY <1>1, <1>2 DEF BudgetInv, Done
  <1>5. AttemptsAreBudgeted'
    <2>1. ASSUME NEW p \in Requests, p # q
          PROVE  /\ attempts'[p] <= 1 + Spent(p)'
                 /\ used'[p]["discovery"] <= MaxDiscovery
                 /\ used'[p]["throttle"] <= MaxThrottle
                 /\ used'[p]["session"] <= MaxSession
                 /\ used'[p]["connection"] <= MaxConnection
      <3>1. used'[p] = used[p]
        BY <2>1
      <3>2. /\ attempts[p] <= 1 + Spent(p)
            /\ used[p]["discovery"] <= MaxDiscovery
            /\ used[p]["throttle"] <= MaxThrottle
            /\ used[p]["session"] <= MaxSession
            /\ used[p]["connection"] <= MaxConnection
        BY BudgetFacts
      <3> QED BY <1>1, <2>1, <3>1, <3>2
    <2>2. ASSUME NEW p \in Requests
          PROVE  /\ attempts'[p] <= 1 + Spent(p)'
                 /\ used'[p]["discovery"] <= MaxDiscovery
                 /\ used'[p]["throttle"] <= MaxThrottle
                 /\ used'[p]["session"] <= MaxSession
                 /\ used'[p]["connection"] <= MaxConnection
      BY <1>2, <2>1
    <2>3. ASSUME NEW p \in Requests
          PROVE  1 + Spent(p)' = 1 + used'[p]["discovery"]
                     + used'[p]["throttle"] + used'[p]["session"]
                     + used'[p]["connection"]
      BY DEF Spent, Policies
    <2> QED BY <2>2, <2>3 DEF AttemptsAreBudgeted
  <1> QED BY <1>3, <1>4, <1>5 DEF BudgetInv

\* What a policy does when it grants a retry, and when it does not.
CountOne(q, policy) == used' = [used EXCEPT ![q][policy] = @ + 1]

LEMMA CountOneEffect ==
    ASSUME BudgetInv, NEW q \in Requests, NEW policy \in Policies,
           CountOne(q, policy)
    PROVE  /\ used' \in [Requests -> [Policies -> Nat]]
           /\ \A p \in Requests \ {q} : used'[p] = used[p]
           /\ \A other \in Policies \ {policy} :
                  used'[q][other] = used[q][other]
           /\ used'[q][policy] = used[q][policy] + 1
           /\ Spent(q)' = Spent(q) + 1
  <1>1. used \in [Requests -> [Policies -> Nat]]
    BY DEF BudgetInv
  <1>2. used' = [used EXCEPT ![q][policy] = @ + 1]
    BY DEF CountOne
  <1>3. /\ used' \in [Requests -> [Policies -> Nat]]
        /\ \A p \in Requests \ {q} : used'[p] = used[p]
        /\ \A other \in Policies \ {policy} : used'[q][other] = used[q][other]
        /\ used'[q][policy] = used[q][policy] + 1
    <2>1. used[q] \in [Policies -> Nat]
      BY <1>1
    <2>2. \A p \in Requests \ {q} : used'[p] = used[p]
      BY <1>1, <1>2
    <2>3. used'[q] = [used[q] EXCEPT ![policy] = used[q][policy] + 1]
      BY <1>1, <1>2
    <2>4. used'[q] \in [Policies -> Nat]
      BY <2>1, <2>3
    <2>5. used' \in [Requests -> [Policies -> Nat]]
      BY <1>1, <1>2, <2>2, <2>4
    <2> QED BY <2>1, <2>2, <2>3, <2>5
  <1>4. Spent(q)' = Spent(q) + 1
    BY <1>1, <1>3 DEF Spent, Policies
  <1> QED BY <1>3, <1>4

\* The session policy's budget, which depends on the list as it is when the policy
\* decides, is one it may always have.
LEMMA SessionCharges ==
    ASSUME BudgetInv, ListsFit', NEW q \in Requests, SessionNotAvailable(q)
    PROVE  \/ used' = used /\ pc' = [pc EXCEPT ![q] = "failed"]
           \/ /\ CountOne(q, "session") /\ used[q]["session"] < MaxSession
              /\ pc' = [pc EXCEPT ![q] = "retrying"]
  <1> DEFINE multi == CanUseMultipleWriteLocationsFor(request[q].multiWritable)
             budget == IF multi THEN Len(EndpointsFor(q)') + 1 ELSE 2
             n == used[q]["session"]
  <1>1. \/ used' = used /\ pc' = [pc EXCEPT ![q] = "failed"]
        \/ /\ CountOne(q, "session") /\ EnableEndpointDiscovery /\ n < budget
           /\ pc' = [pc EXCEPT ![q] = "retrying"]
    BY DEF SessionNotAvailable, Decide, CountOne, SessionBudget
  <1>2. n \in Nat
    BY DEF BudgetInv, Policies
  <1>3. multi /\ EnableEndpointDiscovery => CanUseMultipleWriteLocations'
    <2>1. multi /\ EnableEndpointDiscovery => GetEndpoints
      BY DEF SessionNotAvailable
    <2> QED BY <2>1, GetEndpointsFits DEF BudgetInv, CanUseMultipleWriteLocationsFor
  <1>4. multi /\ EnableEndpointDiscovery =>
            Len(EndpointsFor(q)') \in Nat /\ Len(EndpointsFor(q)') < MaxSession
    <2>1. /\ Len(readEndpoints') \in Nat /\ Len(readEndpoints') < MaxSession
          /\ CanUseMultipleWriteLocations' =>
                 Len(writeEndpoints') \in Nat /\ Len(writeEndpoints') < MaxSession
      BY DEF ListsFit, MaxSession
    <2>2. EndpointsFor(q)' = readEndpoints' \/ EndpointsFor(q)' = writeEndpoints'
      BY DEF EndpointsFor
    <2>3. multi /\ EnableEndpointDiscovery =>
              Len(writeEndpoints') \in Nat /\ Len(writeEndpoints') < MaxSession
      BY <1>3, <2>1
    <2> QED BY <2>1, <2>2, <2>3
  <1>5. EnableEndpointDiscovery => budget \in Nat /\ budget <= MaxSession
    <2> HIDE DEF multi
    <2> QED BY <1>4, MaxSessionFacts
  <1> HIDE DEF n, budget
  <1>6. EnableEndpointDiscovery /\ n < budget => n < MaxSession
    BY <1>2, <1>5, MaxSessionFacts
  <1> QED BY <1>1, <1>6 DEF n

\* An answer either leaves the counters or charges one policy below its budget;
\* only a charged request goes on.
LEMMA AnswerCharges ==
    ASSUME BudgetInv, ListsFit', NEW q \in Requests, Answer(q)
    PROVE  /\ pc[q] \in {"sent", "aborted"}
           /\ attempts' = attempts
           /\ \E to \in {"refreshing", "retrying"} \cup Done :
                  /\ pc' = [pc EXCEPT ![q] = to]
                  /\ \/ to \in Done /\ used' = used
                     \/ \E policy \in Policies :
                            /\ CountOne(q, policy)
                            /\ policy = "discovery"
                                   => used[q]["discovery"] < MaxDiscovery
                            /\ policy = "throttle"
                                   => used[q]["throttle"] < MaxThrottle
                            /\ policy = "session"
                                   => used[q]["session"] < MaxSession
                            /\ policy = "connection"
                                   => used[q]["connection"] < MaxConnection
  <1>1. CASE Succeed(q)
    BY <1>1 DEF Succeed, history, Done
  <1>2. CASE ConnectionLost(q)
    BY <1>2 DEF ConnectionLost, history, Decide, CountOne, Policies, Done
  <1>3. CASE \E retryAfter \in RetryAfters : Throttled(q, retryAfter)
    BY <1>3 DEF Throttled, history, CountOne, Policies, Done
  <1>4. CASE WriteForbidden(q)
    BY <1>4 DEF WriteForbidden, history, CountOne, Policies, Done
  <1>5. CASE SessionNotAvailable(q)
    <2>1. pc[q] = "sent" /\ attempts' = attempts
      BY <1>5 DEF SessionNotAvailable, history
    <2> QED BY <1>5, <2>1, SessionCharges DEF Policies, Done
  <1>6. CASE Refused(q)
    BY <1>6 DEF Refused, history, Done
  <1> QED BY <1>1, <1>2, <1>3, <1>4, <1>5, <1>6 DEF Answer

LEMMA AnswerKeepsBudget ==
    ASSUME BudgetInv, ListsFit', NEW q \in Requests, Answer(q)
    PROVE  BudgetInv'
  <1>1. PICK to \in {"refreshing", "retrying"} \cup Done :
            /\ pc' = [pc EXCEPT ![q] = to]
            /\ \/ to \in Done /\ used' = used
               \/ \E policy \in Policies :
                      /\ CountOne(q, policy)
                      /\ policy = "discovery"
                             => used[q]["discovery"] < MaxDiscovery
                      /\ policy = "throttle"
                             => used[q]["throttle"] < MaxThrottle
                      /\ policy = "session"
                             => used[q]["session"] < MaxSession
                      /\ policy = "connection"
                             => used[q]["connection"] < MaxConnection
    BY AnswerCharges
  <1>2. /\ attempts' = [attempts EXCEPT ![q] = attempts[q]]
        /\ attempts[q] \in Nat
    BY AnswerCharges DEF BudgetInv
  <1>3. /\ attempts[q] <= 1 + Spent(q)
        /\ used[q]["discovery"] <= MaxDiscovery
        /\ used[q]["throttle"] <= MaxThrottle
        /\ used[q]["session"] <= MaxSession
        /\ used[q]["connection"] <= MaxConnection
    BY DEF BudgetInv, AttemptsAreBudgeted, Spent, Policies
  <1>4. CASE to \in Done /\ used' = used
    <2>1. /\ used' \in [Requests -> [Policies -> Nat]]
          /\ Spent(q)' = Spent(q)
      BY <1>4 DEF BudgetInv, Spent
    <2> QED BY <1>1, <1>2, <1>3, <1>4, <2>1, LocalBudget DEF Done
  <1>5. ASSUME NEW policy \in Policies, CountOne(q, policy),
               policy = "discovery" => used[q]["discovery"] < MaxDiscovery,
               policy = "throttle" => used[q]["throttle"] < MaxThrottle,
               policy = "session" => used[q]["session"] < MaxSession,
               policy = "connection" => used[q]["connection"] < MaxConnection
        PROVE  BudgetInv'
    <2>1. /\ used' \in [Requests -> [Policies -> Nat]]
          /\ \A p \in Requests \ {q} : used'[p] = used[p]
          /\ Spent(q)' = Spent(q) + 1
      BY <1>5, CountOneEffect
    <2>2. Spent(q) \in Nat
      BY DEF BudgetInv, Spent, Policies
    <2>3. attempts[q] <= Spent(q)' /\ attempts[q] <= 1 + Spent(q)'
      BY <1>2, <1>3, <2>1, <2>2
    <2>4. /\ used'[q]["discovery"] <= MaxDiscovery
          /\ used'[q]["throttle"] <= MaxThrottle
          /\ used'[q]["session"] <= MaxSession
          /\ used'[q]["connection"] <= MaxConnection
      BY <1>3, <1>5, CountOneEffect, BudgetAssumption, MaxSessionFacts
      DEF Policies, BudgetInv
    <2> QED BY <1>1, <1>2, <2>1, <2>3, <2>4, LocalBudget
  <1> QED BY <1>1, <1>4, <1>5

LEMMA StepKeepsBudgetInv == BudgetInv /\ [RequestNext]_reqVars => BudgetInv'
  <1> SUFFICES ASSUME BudgetInv, [RequestNext]_reqVars
               PROVE  BudgetInv'
    OBVIOUS
  <1>0. ListsFit'
    BY StepKeepsListsFit DEF BudgetInv
  <1>1. ASSUME NEW q \in Requests, used' = used
        PROVE  /\ used' \in [Requests -> [Policies -> Nat]]
               /\ Spent(q)' = Spent(q) /\ Spent(q) \in Nat
               /\ attempts[q] \in Nat
               /\ attempts[q] <= 1 + Spent(q)
               /\ used'[q]["discovery"] <= MaxDiscovery
               /\ used'[q]["throttle"] <= MaxThrottle
               /\ used'[q]["session"] <= MaxSession
               /\ used'[q]["connection"] <= MaxConnection
    BY <1>1 DEF BudgetInv, Spent, Policies, AttemptsAreBudgeted
  <1>2. ASSUME NEW q \in Requests, Send(q)
        PROVE  BudgetInv'
    <2>1. /\ used' = used
          /\ attempts' = [attempts EXCEPT ![q] = attempts[q] + 1]
          /\ pc' = [pc EXCEPT ![q] = IF AbortsAtOnce(q) THEN "aborted"
                                                        ELSE "sent"]
      BY <1>2 DEF Send, history
    <2>2. attempts[q] <= Spent(q)
      BY <1>1, <1>2, <2>1 DEF Send, history, Sendable, BudgetInv
    <2>3. /\ attempts[q] + 1 \in Nat
          /\ attempts[q] + 1 <= 1 + Spent(q)'
      BY <1>1, <2>1, <2>2
    <2>4. PICK to \in {"aborted", "sent"} : pc' = [pc EXCEPT ![q] = to]
      BY <2>1
    <2> QED BY <1>0, <1>1, <2>1, <2>3, <2>4, LocalBudget
  <1>3. ASSUME NEW q \in Requests, Refreshed(q)
        PROVE  BudgetInv'
    <2>1. /\ used' = used
          /\ attempts' = [attempts EXCEPT ![q] = attempts[q]]
          /\ pc' = [pc EXCEPT ![q] = "retrying"]
          /\ pc[q] = "refreshing"
      BY <1>3 DEF Refreshed, history, BudgetInv
    <2>2. attempts[q] <= Spent(q)
      BY <2>1 DEF BudgetInv
    <2> QED BY <1>0, <1>1, <2>1, <2>2, LocalBudget
  <1>4. ASSUME UNCHANGED <<pc, used, attempts>>
        PROVE  BudgetInv'
    BY <1>0, <1>4 DEF BudgetInv, Spent, AttemptsAreBudgeted, MaxSession
  <1>5. ASSUME NEW q \in Requests, UserAborts(q)
        PROVE  BudgetInv'
    BY <1>4, <1>5 DEF UserAborts, history
  <1>6. CASE RefreshAccount \/ TimePasses \/ UNCHANGED reqVars
    BY <1>4, <1>6 DEF RefreshAccount, TimePasses, reqVars, execVars,
        history
  <1> QED
    BY <1>0, <1>2, <1>3, <1>5, <1>6, AnswerKeepsBudget DEF RequestNext

LEMMA BudgetInvStarts == RequestInit => BudgetInv
  <1> SUFFICES ASSUME RequestInit PROVE BudgetInv
    OBVIOUS
  <1>1. ListsFit
    BY MaxSessionFacts DEF RequestInit, CacheInit, ListsFit
  <1> QED
    BY <1>1, BudgetAssumption, MaxSessionFacts
    DEF RequestInit, BudgetInv, AttemptsAreBudgeted, Spent, Policies, Done

\* The policies' budgets bound how often a request is sent, whatever order its
\* failures come in: each sending but the first has used up one granted retry.
THEOREM AttemptsArePaidFor == RequestSpec => []AttemptsAreBudgeted
  <1>1. BudgetInv => AttemptsAreBudgeted
    BY DEF BudgetInv
  <1> QED BY <1>1, BudgetInvStarts, StepKeepsBudgetInv, PTL DEF RequestSpec

-----------------------------------------------------------------------------
(* So is the waiting *)

ThrottleInv ==
    /\ waited \in [Requests -> Nat]
    /\ ThrottleWaitBounded

\* A throttled request waits once more only if it has waited less than allowed.
LEMMA ThrottledWaits ==
    ASSUME ThrottleInv, NEW q \in Requests, NEW retryAfter \in RetryAfters,
           Throttled(q, retryAfter)
    PROVE  ThrottleInv'
  <1> DEFINE wait == IF FixedInterval > 0 THEN FixedInterval ELSE retryAfter
  <1>1. /\ wait \in Nat
        /\ wait \in RetryAfters \cup {FixedInterval}
    BY BudgetAssumption
  <1>2. \/ waited' = waited
        \/ /\ waited[q] < MaxWait
           /\ waited' = [waited EXCEPT ![q] = @ + wait]
    BY DEF Throttled, WaitLeft
  <1>3. CASE waited' = waited
    BY <1>3 DEF ThrottleInv, ThrottleWaitBounded
  <1>4. CASE /\ waited[q] < MaxWait
             /\ waited' = [waited EXCEPT ![q] = @ + wait]
    <2>1. /\ waited' \in [Requests -> Nat]
          /\ waited'[q] = waited[q] + wait
          /\ \A p \in Requests \ {q} : waited'[p] = waited[p]
      BY <1>1, <1>4 DEF ThrottleInv
    <2>2. waited'[q] < MaxWait + wait
      BY <1>1, <1>4, <2>1, BudgetAssumption DEF ThrottleInv
    <2>3. ASSUME NEW p \in Requests, waited'[p] > 0
          PROVE  \E w \in RetryAfters \cup {FixedInterval} :
                     waited'[p] < MaxWait + w
      <3>1. CASE p = q
        BY <1>1, <2>2, <3>1
      <3>2. CASE p # q
        BY <2>1, <2>3, <3>2 DEF ThrottleInv, ThrottleWaitBounded
      <3> QED BY <3>1, <3>2
    <2> QED BY <2>1, <2>3 DEF ThrottleInv, ThrottleWaitBounded
  <1> QED BY <1>2, <1>3, <1>4

LEMMA OthersDoNotWait ==
    ASSUME NEW q \in Requests,
           \/ Send(q) \/ Refreshed(q) \/ UserAborts(q)
           \/ Succeed(q) \/ ConnectionLost(q) \/ WriteForbidden(q)
           \/ SessionNotAvailable(q) \/ Refused(q)
    PROVE  waited' = waited
  BY DEF Send, Refreshed, UserAborts, Succeed, ConnectionLost, WriteForbidden,
         SessionNotAvailable, Refused

LEMMA StepKeepsThrottleInv == ThrottleInv /\ [RequestNext]_reqVars => ThrottleInv'
  <1> SUFFICES ASSUME ThrottleInv, [RequestNext]_reqVars
               PROVE  ThrottleInv'
    OBVIOUS
  <1>1. ASSUME waited' = waited
        PROVE  ThrottleInv'
    BY <1>1 DEF ThrottleInv, ThrottleWaitBounded
  <1>2. ASSUME NEW q \in Requests,
               Send(q) \/ Answer(q) \/ Refreshed(q) \/ UserAborts(q)
        PROVE  ThrottleInv'
    <2>1. CASE \E retryAfter \in RetryAfters : Throttled(q, retryAfter)
      BY <2>1, ThrottledWaits
    <2>2. CASE ~\E retryAfter \in RetryAfters : Throttled(q, retryAfter)
      BY <1>1, <1>2, <2>2, OthersDoNotWait DEF Answer
    <2> QED BY <2>1, <2>2
  <1>3. CASE RefreshAccount \/ TimePasses \/ UNCHANGED reqVars
    BY <1>1, <1>3 DEF RefreshAccount, TimePasses, reqVars, execVars
  <1> QED BY <1>2, <1>3 DEF RequestNext

\* For any options, and whatever the service says in its answers, a request is
\* neither repeated nor delayed beyond what the policies were given.
THEOREM RetriesStayBounded == RequestSpec => []RetriesAreBounded
  <1>1. RequestInit => ThrottleInv
    BY DEF RequestInit, ThrottleInv, ThrottleWaitBounded
  <1>2. ThrottleInv => ThrottleWaitBounded
    BY DEF ThrottleInv
  <1>3. RequestSpec => []ThrottleWaitBounded
    BY <1>1, <1>2, StepKeepsThrottleInv, PTL DEF RequestSpec
  <1>4. AttemptsAreBudgeted /\ ThrottleWaitBounded => RetriesAreBounded
    BY DEF RetriesAreBounded
  <1> QED BY <1>3, <1>4, AttemptsArePaidFor, PTL

-----------------------------------------------------------------------------
(* Session retries leave no endpoint out *)

\* The retry the session policy granted when it had granted n was made at the
\* endpoint it stands for, or is about to be.
TryDue(q, n) ==
    \/ steadyList[q][(n % Len(steadyList[q])) + 1] \in tried[q]
    \/ /\ pc[q] = "retrying"
       /\ retryContext[q].onPreferred
       /\ retryContext[q].retryCount = n

\* The first session retry goes to the primary, the others round the list.
GoesRound(q) ==
    /\ retryContext[q].onPreferred => EnableEndpointDiscovery
    /\ pc[q] = "new" => used[q]["session"] = 0
    /\ steadyList[q] # <<>> =>
           /\ CanUseMultipleWriteLocationsFor(request[q].multiWritable)
           /\ \A n \in 1..(used[q]["session"] - 1) : TryDue(q, n)

Contexts == [retryCount: Nat, onPreferred: BOOLEAN, clear: BOOLEAN]

SessionInv ==
    /\ CacheInv
    /\ sentTo \in [Requests -> Endpoints]
    /\ retryContext \in [Requests -> Contexts]
    /\ tried \in [Requests -> SUBSET Endpoints]
    /\ steadyList \in [Requests -> Seq(Endpoints)]
    /\ \A q \in Requests : GoesRound(q)

LEMMA RequestStepIsCacheStep ==
    ASSUME sentTo \in [Requests -> Endpoints], [RequestNext]_reqVars
    PROVE  [CacheNext]_cacheVars
  <1>1. ASSUME NEW q \in Requests, Send(q) \/ Refreshed(q) \/ UserAborts(q)
        PROVE  [CacheNext]_cacheVars
    BY <1>1 DEF Send, Refreshed, UserAborts
  <1>2. ASSUME NEW q \in Requests, WriteForbidden(q) PROVE [CacheNext]_cacheVars
    <2>1. CASE cacheVars' = cacheVars
      BY <2>1
    <2>2. CASE MarkEndpointUnavailable(sentTo[q], IF request[q].read THEN "Read" ELSE "Write")
      BY <2>2 DEF CacheNext, Operations
    <2> QED BY <1>2, <2>1, <2>2 DEF WriteForbidden
  <1>3. ASSUME NEW q \in Requests, Answer(q), ~WriteForbidden(q)
        PROVE  [CacheNext]_cacheVars
    <2>1. CASE SessionNotAvailable(q)
      BY <2>1 DEF SessionNotAvailable, CacheNext
    <2>2. CASE Succeed(q) \/ ConnectionLost(q) \/ Refused(q)
               \/ \E retryAfter \in RetryAfters : Throttled(q, retryAfter)
      BY <2>2 DEF Succeed, ConnectionLost, Refused, Throttled
    <2> QED BY <1>3, <2>1, <2>2 DEF Answer
  <1>4. CASE RefreshAccount \/ TimePasses \/ UNCHANGED reqVars
    BY <1>4 DEF RefreshAccount, TimePasses, reqVars, CacheNext
  <1> QED BY <1>1, <1>2, <1>3, <1>4 DEF RequestNext

\* An account with several write regions is never taken for one with a single one.
LEMMA ManyWritersStay ==
    ASSUME enableMultipleWritableLocations \in BOOLEAN, [CacheNext]_cacheVars
    PROVE  enableMultipleWritableLocations => enableMultipleWritableLocations'
  BY DEF CacheNext, MarkEndpointUnavailable, OnDatabaseAccountRead, GetEndpoints, Tick,
         UpdateLocationCache, cacheVars

\* What a request whose answer came, and what every other one, keeps.
LEMMA BystanderGoesRound ==
    ASSUME NEW q \in Requests, GoesRound(q), request' = request,
           enableMultipleWritableLocations => enableMultipleWritableLocations',
           pc'[q] = pc[q], retryContext'[q] = retryContext[q], used'[q] = used[q],
           tried'[q] = tried[q], steadyList'[q] = steadyList[q]
    PROVE  GoesRound(q)'
  BY DEF GoesRound, TryDue, CanUseMultipleWriteLocationsFor, CanUseMultipleWriteLocations

LEMMA AnsweredGoesRound ==
    ASSUME NEW q \in Requests, GoesRound(q), request' = request,
           enableMultipleWritableLocations => enableMultipleWritableLocations',
           pc[q] # "retrying", pc'[q] # "new",
           retryContext'[q].onPreferred => EnableEndpointDiscovery,
           used'[q]["session"] = used[q]["session"],
           tried'[q] = tried[q], steadyList'[q] = steadyList[q]
    PROVE  GoesRound(q)'
  BY DEF GoesRound, TryDue, CanUseMultipleWriteLocationsFor, CanUseMultipleWriteLocations

\* A session retry that was granted when n had been stands for the (n + 1)st
\* endpoint of the list, from the second one on.
LEMMA SessionRetryGoesRound ==
    ASSUME NEW q \in Requests, GoesRound(q), request' = request,
           enableMultipleWritableLocations => enableMultipleWritableLocations',
           pc[q] = "sent", pc'[q] = "retrying", EnableEndpointDiscovery,
           NEW n \in Nat, used[q]["session"] = n, used'[q]["session"] = n + 1,
           retryContext'[q].retryCount = n,
           CanUseMultipleWriteLocationsFor(request[q].multiWritable) /\ n > 0
               => retryContext'[q].onPreferred,
           tried'[q] = tried[q], steadyList'[q] = steadyList[q]
    PROVE  GoesRound(q)'
  <1> SUFFICES ASSUME steadyList[q] # <<>>
               PROVE  /\ CanUseMultipleWriteLocationsFor(request[q].multiWritable)'
                      /\ \A k \in 1..((n + 1) - 1) : TryDue(q, k)'
    BY DEF GoesRound
  <1>1. /\ CanUseMultipleWriteLocationsFor(request[q].multiWritable)
        /\ \A k \in 1..(n - 1) : TryDue(q, k)
    BY DEF GoesRound
  <1>2. CanUseMultipleWriteLocationsFor(request[q].multiWritable)'
    BY <1>1 DEF CanUseMultipleWriteLocationsFor, CanUseMultipleWriteLocations
  <1>3. ASSUME NEW k \in 1..n PROVE TryDue(q, k)'
    <2>1. CASE k = n
      BY <1>1, <2>1 DEF TryDue
    <2>2. CASE k \in 1..(n - 1)
      BY <1>1, <2>2 DEF TryDue
    <2> QED BY <2>1, <2>2
  <1> QED BY <1>2, <1>3

LEMMA RouteTypes ==
    ASSUME ApplyInv, SessionInv, NEW q \in Requests
    PROVE  /\ request[q].read \in BOOLEAN
           /\ RouteOf(q).ignorePreferredLocation = ~retryContext[q].onPreferred
           /\ RouteOf(q).ignorePreferredLocation \in BOOLEAN
           /\ RouteOf(q).index = retryContext[q].retryCount
           /\ RouteOf(q).index \in Nat
  BY KindIsRead DEF RouteOf, SessionInv, Contexts

\* A request that is sent by preference goes to the endpoint its retry stands for.
LEMMA SentRoundTheList ==
    ASSUME EnableEndpointDiscovery, NEW q \in Requests, request[q].read \in BOOLEAN,
           CanUseMultipleWriteLocationsFor(request[q].multiWritable),
           NEW route, route.ignorePreferredLocation = FALSE
    PROVE  ResolveServiceEndpoint(request[q], route) =
               EndpointsFor(q)[(route.index % Len(EndpointsFor(q))) + 1]
  BY DEF ResolveServiceEndpoint, EndpointsFor

LEMMA SendKeepsSession ==
    ASSUME ApplyInv, SessionInv, NEW q \in Requests, Send(q)
    PROVE  /\ sentTo' \in [Requests -> Endpoints]
           /\ tried' \in [Requests -> SUBSET Endpoints]
           /\ steadyList' \in [Requests -> Seq(Endpoints)]
           /\ GoesRound(q)'
  <1> DEFINE target == ResolveServiceEndpoint(request[q], RouteOf(q))
             list == EndpointsFor(q)
             several == CanUseMultipleWriteLocationsFor(request[q].multiWritable)
  <1>1. target \in Endpoints
    BY RouteTypes, ResolvesToEndpoint DEF SessionInv
  <1>2. list \in Seq(Endpoints)
    BY DEF EndpointsFor, SessionInv, CacheInv, EndpointsOf
  <1>3. /\ sentTo' = [sentTo EXCEPT ![q] = target]
        /\ tried' = [tried EXCEPT ![q] = @ \cup {sentTo'[q]}]
        /\ steadyList' = [steadyList EXCEPT ![q] =
               IF several /\ (pc[q] = "new" \/ @ = list) THEN list ELSE <<>>]
        /\ UNCHANGED <<request, cacheVars, retryContext, used>>
        /\ pc[q] \in {"new", "retrying"}
        /\ pc' = [pc EXCEPT ![q] = IF AbortsAtOnce(q) THEN "aborted" ELSE "sent"]
    BY DEF Send, Sendable
  <1>4. pc'[q] \in {"aborted", "sent"}
    BY <1>3 DEF ApplyInv
  <1>5. several' = several
    BY <1>3 DEF CanUseMultipleWriteLocationsFor, CanUseMultipleWriteLocations, cacheVars
  <1>6. several /\ retryContext[q].onPreferred /\ EnableEndpointDiscovery
            => target = list[(retryContext[q].retryCount % Len(list)) + 1]
    <2> DEFINE route == RouteOf(q)
    <2>1. /\ request[q].read \in BOOLEAN /\ route.index = retryContext[q].retryCount
          /\ route.ignorePreferredLocation = ~retryContext[q].onPreferred
      BY RouteTypes
    <2> HIDE DEF route
    <2>2. several /\ retryContext[q].onPreferred /\ EnableEndpointDiscovery
              => ResolveServiceEndpoint(request[q], route) =
                     list[(route.index % Len(list)) + 1]
      BY <2>1, SentRoundTheList
    <2> QED BY <2>1, <2>2 DEF route
  <1> HIDE DEF target, list
  <1>7. sentTo' \in [Requests -> Endpoints] /\ sentTo'[q] = target
    BY <1>1, <1>3 DEF SessionInv
  <1>8. /\ tried' \in [Requests -> SUBSET Endpoints]
        /\ tried'[q] = tried[q] \cup {target}
    BY <1>1, <1>3, <1>7 DEF SessionInv
  <1>9. /\ steadyList' \in [Requests -> Seq(Endpoints)]
        /\ steadyList'[q] = IF several /\ (pc[q] = "new" \/ steadyList[q] = list)
                            THEN list ELSE <<>>
    BY <1>2, <1>3 DEF SessionInv
  <1>10. ASSUME steadyList'[q] # <<>>, NEW n \in 1..(used[q]["session"] - 1)
         PROVE  TryDue(q, n)'
    <2>1. several /\ steadyList'[q] = list /\ GoesRound(q)
      BY <1>9, <1>10 DEF SessionInv
    <2>2. pc[q] # "new"
      BY <1>10, <2>1 DEF GoesRound
    <2>3. pc[q] = "retrying" /\ steadyList[q] = list /\ TryDue(q, n)
      BY <1>3, <1>9, <1>10, <2>1, <2>2 DEF GoesRound
    <2>4. CASE list[(n % Len(list)) + 1] \in tried[q]
      BY <1>8, <2>1, <2>4 DEF TryDue
    <2>5. CASE retryContext[q].onPreferred /\ retryContext[q].retryCount = n
      <3>1. target = list[(n % Len(list)) + 1]
        BY <1>6, <2>1, <2>5 DEF GoesRound
      <3> QED BY <1>8, <2>1, <3>1 DEF TryDue
    <2> QED BY <2>3, <2>4, <2>5 DEF TryDue
  <1>11. steadyList'[q] # <<>> => several'
    BY <1>5, <1>9
  <1>12. GoesRound(q)'
    <2>1. /\ used' = used /\ request' = request /\ retryContext' = retryContext
          /\ GoesRound(q) /\ pc'[q] # "new"
      BY <1>3, <1>4 DEF SessionInv
    <2>2. retryContext'[q].onPreferred => EnableEndpointDiscovery
      BY <2>1 DEF GoesRound
    <2> QED BY <1>10, <1>11, <2>1, <2>2 DEF GoesRound
  <1> QED BY <1>7, <1>8, <1>9, <1>12

LEMMA AnswerKeepsSession ==
    ASSUME ApplyInv, BudgetInv, SessionInv, NEW q \in Requests, Answer(q),
           enableMultipleWritableLocations => enableMultipleWritableLocations'
    PROVE  /\ retryContext' \in [Requests -> Contexts]
           /\ \A p \in Requests \ {q} : retryContext'[p] = retryContext[p]
           /\ GoesRound(q)'
  <1>0. /\ retryContext \in [Requests -> Contexts] /\ GoesRound(q)
        /\ used \in [Requests -> [Policies -> Nat]]
    BY DEF SessionInv, BudgetInv
  <1>1. /\ request' = request /\ pc[q] \in {"sent", "aborted"} /\ pc'[q] # "new"
        /\ tried' = tried /\ steadyList' = steadyList
    <2>1. pc[q] \in {"sent", "aborted"} /\ request' = request
      BY AnswerEffect
    <2>2. \E to \in {"succeeded", "failed", "retrying", "refreshing"} :
              pc' = [pc EXCEPT ![q] = to]
      BY AnswerEffect
    <2>3. pc'[q] # "new"
      BY <2>2 DEF ApplyInv
    <2>4. tried' = tried /\ steadyList' = steadyList
      BY DEF Answer, Succeed, ConnectionLost, Throttled, WriteForbidden,
             SessionNotAvailable, Refused, history
    <2> QED BY <2>1, <2>3, <2>4
  <1>2. ASSUME retryContext' = retryContext, used'[q]["session"] = used[q]["session"]
        PROVE  /\ retryContext' \in [Requests -> Contexts]
               /\ \A p \in Requests \ {q} : retryContext'[p] = retryContext[p]
               /\ GoesRound(q)'
    <2>1. retryContext'[q].onPreferred => EnableEndpointDiscovery
      BY <1>0, <1>2 DEF GoesRound
    <2> QED BY <1>0, <1>1, <1>2, <2>1, AnsweredGoesRound
  <1>3. CASE Succeed(q) \/ Refused(q)
    BY <1>2, <1>3 DEF Succeed, Refused
  <1>4. CASE ConnectionLost(q)
    <2>1. retryContext' = retryContext
      BY <1>0, <1>4 DEF ConnectionLost, Decide
    <2>2. used' = used \/ used' = [used EXCEPT ![q]["connection"] = @ + 1]
      BY <1>4 DEF ConnectionLost, Decide
    <2>3. used'[q]["session"] = used[q]["session"]
      BY <1>0, <2>2 DEF Policies
    <2> QED BY <1>2, <2>1, <2>3
  <1>5. CASE \E retryAfter \in RetryAfters : Throttled(q, retryAfter)
    <2>1. retryContext' = retryContext
      BY <1>5 DEF Throttled
    <2>2. used' = used \/ used' = [used EXCEPT ![q]["throttle"] = @ + 1]
      BY <1>5 DEF Throttled
    <2>3. used'[q]["session"] = used[q]["session"]
      BY <1>0, <2>2 DEF Policies
    <2> QED BY <1>2, <2>1, <2>3
  <1>6. CASE WriteForbidden(q)
    <2>1. retryContext' = retryContext
      BY <1>6 DEF WriteForbidden
    <2>2. used' = used \/ used' = [used EXCEPT ![q]["discovery"] = @ + 1]
      BY <1>6 DEF WriteForbidden
    <2>3. used'[q]["session"] = used[q]["session"]
      BY <1>0, <2>2 DEF Policies
    <2> QED BY <1>2, <2>1, <2>3
  <1>7. CASE SessionNotAvailable(q)
    <2> DEFINE multi == CanUseMultipleWriteLocationsFor(request[q].multiWritable)
               n == used[q]["session"]
               ctx == [retryCount  |-> n,
                       onPreferred |-> multi /\ n > 0,
                       clear       |-> multi => n + 1 = Len(EndpointsFor(q)')]
               budget == IF multi THEN SessionBudget(EndpointsFor(q)') ELSE 2
    <2>1. pc[q] = "sent" /\ Decide(q, "session", EnableEndpointDiscovery /\ n < budget, ctx)
      BY <1>7 DEF SessionNotAvailable
    <2>2. n \in Nat
      BY <1>0 DEF Policies
    <2>3. ctx \in Contexts /\ ctx.retryCount = n /\ ctx.onPreferred = (multi /\ n > 0)
      BY <2>2 DEF Contexts
    <2> HIDE DEF budget, ctx
    <2>4. CASE EnableEndpointDiscovery /\ n < budget
      <3>1. /\ pc' = [pc EXCEPT ![q] = "retrying"]
            /\ used' = [used EXCEPT ![q]["session"] = @ + 1]
            /\ retryContext' = [retryContext EXCEPT ![q] = ctx]
        BY <2>1, <2>4 DEF Decide
      <3>2. /\ retryContext' \in [Requests -> Contexts] /\ retryContext'[q] = ctx
            /\ \A p \in Requests \ {q} : retryContext'[p] = retryContext[p]
        BY <1>0, <2>3, <3>1
      <3>3. pc'[q] = "retrying" /\ used'[q]["session"] = n + 1
        BY <1>0, <3>1 DEF ApplyInv, Policies
      <3>4. GoesRound(q)'
        BY <1>0, <1>1, <2>1, <2>2, <2>3, <2>4, <3>2, <3>3, SessionRetryGoesRound
      <3> QED BY <3>2, <3>4
    <2>5. CASE ~(EnableEndpointDiscovery /\ n < budget)
      <3>1. used' = used /\ retryContext' = retryContext
        BY <2>1, <2>5 DEF Decide
      <3> QED BY <1>2, <3>1
    <2> QED BY <2>4, <2>5
  <1> QED BY <1>3, <1>4, <1>5, <1>6, <1>7 DEF Answer

\* What a step that leaves a request's part alone keeps.
LEMMA OthersKeepSession ==
    ASSUME NEW q, NEW p \in Requests \ {q}, BudgetInv, ApplyInv, SessionInv,
           q \in Requests, Send(q) \/ Answer(q) \/ Refreshed(q) \/ UserAborts(q),
           enableMultipleWritableLocations => enableMultipleWritableLocations'
    PROVE  GoesRound(p)'
  <1>1. CASE Answer(q)
    <2>0. ListsFit'
      BY <1>1, StepKeepsListsFit DEF BudgetInv, RequestNext
    <2>1. retryContext'[p] = retryContext[p]
      BY <1>1, AnswerKeepsSession
    <2>2. /\ request' = request /\ tried' = tried /\ steadyList' = steadyList
          /\ pc'[p] = pc[p]
      <3>1. tried' = tried /\ steadyList' = steadyList
        BY <1>1 DEF Answer, Succeed, ConnectionLost, Throttled, WriteForbidden,
                    SessionNotAvailable, Refused, history
      <3>2. request' = request
        BY <1>1, AnswerEffect
      <3>3. pc'[p] = pc[p]
        BY <1>1, <2>0, AnswerCharges DEF ApplyInv
      <3> QED BY <3>1, <3>2, <3>3
    <2>3. used'[p] = used[p]
      BY <1>1, <2>0, AnswerCharges, CountOneEffect
    <2> QED BY <2>1, <2>2, <2>3, BystanderGoesRound DEF SessionInv
  <1>2. CASE Send(q) \/ Refreshed(q) \/ UserAborts(q)
    <2>1. /\ request' = request /\ used' = used /\ pc'[p] = pc[p]
          /\ retryContext'[p] = retryContext[p]
          /\ tried'[p] = tried[p] /\ steadyList'[p] = steadyList[p]
      BY <1>2 DEF Send, Refreshed, UserAborts, history, ApplyInv, SessionInv
    <2> QED BY <2>1, BystanderGoesRound DEF SessionInv
  <1> QED BY <1>1, <1>2

LEMMA StepKeepsSessionInv ==
    ApplyInv /\ BudgetInv /\ SessionInv /\ [RequestNext]_reqVars => SessionInv'
  <1> SUFFICES ASSUME ApplyInv, BudgetInv, SessionInv, [RequestNext]_reqVars
               PROVE  SessionInv'
    OBVIOUS
  <1>1. [CacheNext]_cacheVars /\ CacheInv'
    BY RequestStepIsCacheStep, CacheSteps DEF SessionInv
  <1>2. enableMultipleWritableLocations => enableMultipleWritableLocations'
    BY <1>1, ManyWritersStay DEF SessionInv, CacheInv, CacheTypes
  <1>3. ASSUME UNCHANGED <<request, pc, retryContext, used, sentTo, tried, steadyList>>
        PROVE  SessionInv'
    BY <1>1, <1>2, <1>3, BystanderGoesRound DEF SessionInv
  <1>4. ASSUME NEW q \in Requests, Send(q) PROVE SessionInv'
    <2>1. retryContext' = retryContext
      BY <1>4 DEF Send
    <2>2. \A p \in Requests \ {q} : GoesRound(p)'
      BY <1>2, <1>4, OthersKeepSession
    <2> QED BY <1>1, <1>4, <2>1, <2>2, SendKeepsSession DEF SessionInv
  <1>5. ASSUME NEW q \in Requests, Answer(q) PROVE SessionInv'
    <2>1. sentTo' = sentTo /\ tried' = tried /\ steadyList' = steadyList
      BY <1>5 DEF Answer, Succeed, ConnectionLost, Throttled, WriteForbidden,
                  SessionNotAvailable, Refused, history
    <2>2. \A p \in Requests \ {q} : GoesRound(p)'
      BY <1>2, <1>5, OthersKeepSession
    <2>3. retryContext' \in [Requests -> Contexts] /\ GoesRound(q)'
      BY <1>2, <1>5, AnswerKeepsSession
    <2> QED BY <1>1, <2>1, <2>2, <2>3 DEF SessionInv
  <1>6. ASSUME NEW q \in Requests, Refreshed(q) PROVE SessionInv'
    <2> DEFINE ctx == [EmptyContext EXCEPT !.retryCount = used[q]["discovery"]]
    <2>1. /\ request' = request /\ used' = used /\ sentTo' = sentTo /\ tried' = tried
          /\ steadyList' = steadyList /\ pc[q] = "refreshing"
          /\ pc' = [pc EXCEPT ![q] = "retrying"]
          /\ retryContext' = [retryContext EXCEPT ![q] = ctx]
      BY <1>6 DEF Refreshed, history
    <2>2. ctx \in Contexts /\ ctx.onPreferred = FALSE
      BY DEF EmptyContext, Contexts, BudgetInv, Policies
    <2> HIDE DEF ctx
    <2>3. /\ retryContext' \in [Requests -> Contexts] /\ retryContext'[q] = ctx
          /\ pc'[q] = "retrying"
      BY <2>1, <2>2 DEF SessionInv, ApplyInv
    <2>4. GoesRound(q)'
      BY <1>2, <2>1, <2>2, <2>3, AnsweredGoesRound DEF SessionInv
    <2>5. \A p \in Requests \ {q} : GoesRound(p)'
      BY <1>2, <1>6, OthersKeepSession
    <2> QED BY <1>1, <2>1, <2>3, <2>4, <2>5 DEF SessionInv
  <1>7. ASSUME NEW q \in Requests, UserAborts(q) PROVE SessionInv'
    BY <1>3, <1>7 DEF UserAborts, history
  <1>8. CASE RefreshAccount \/ TimePasses \/ UNCHANGED reqVars
    BY <1>3, <1>8 DEF RefreshAccount, TimePasses, reqVars, execVars, history
  <1> QED BY <1>4, <1>5, <1>6, <1>7, <1>8 DEF RequestNext

\* Every place of a list is the one of a retry: the first of the last, and any
\* other of the one before it.
LEMMA EveryPlaceIsTaken ==
    ASSUME NEW len \in Nat \ {0}, NEW i \in 1..len
    PROVE  \E n \in 1..len : (n % len) + 1 = i
  <1>1. CASE i = 1
    <2>1. len % len = 0
      OBVIOUS
    <2> QED BY <1>1, <2>1
  <1>2. CASE i > 1
    <2>1. i - 1 \in 1..len /\ i - 1 < len
      BY <1>2
    <2>2. (i - 1) % len = i - 1
      BY <2>1
    <2> QED BY <2>1, <2>2
  <1> QED BY <1>1, <1>2

LEMMA RoundTried ==
    ASSUME BudgetInv, SessionInv, NEW q \in Requests, pc[q] = "failed",
           steadyList[q] # <<>>, used[q]["session"] = SessionBudget(steadyList[q])
    PROVE  Range(steadyList[q]) \subseteq tried[q]
  <1> DEFINE list == steadyList[q]
  <1>1. list \in Seq(Endpoints) /\ list # <<>>
    BY DEF SessionInv
  <1>2. Len(list) \in Nat \ {0} /\ Range(list) = {list[i] : i \in 1..Len(list)}
    BY <1>1 DEF Range
  <1>3. \A n \in 1..Len(list) : list[(n % Len(list)) + 1] \in tried[q]
    <2>1. \A n \in 1..(used[q]["session"] - 1) : list[(n % Len(list)) + 1] \in tried[q]
      BY DEF SessionInv, GoesRound, TryDue
    <2>2. used[q]["session"] - 1 = Len(list)
      BY <1>2 DEF SessionBudget
    <2> QED BY <2>1, <2>2
  <1> HIDE DEF list
  <1>4. ASSUME NEW i \in 1..Len(list) PROVE list[i] \in tried[q]
    <2>1. PICK n \in 1..Len(list) : (n % Len(list)) + 1 = i
      BY <1>2, EveryPlaceIsTaken
    <2> QED BY <1>3, <2>1
  <1> QED BY <1>2, <1>4 DEF list

\* Whatever the failures in between, their order, and what account reads and marks
\* do to the lists: a request that used up its session retries while its list was
\* the same tried every endpoint of it.
THEOREM SessionRetriesGoRound == RequestSpec => []SessionRetriesTryEveryEndpoint
  <1>1. RequestInit => SessionInv
    <2> SUFFICES ASSUME RequestInit PROVE SessionInv
      OBVIOUS
    <2>1. CacheInv
      BY CacheStarts DEF RequestInit
    <2>2. /\ retryContext \in [Requests -> Contexts]
          /\ \A q \in Requests : retryContext[q].onPreferred = FALSE
      BY DEF RequestInit, EmptyContext, Contexts
    <2>3. \A q \in Requests : used[q]["session"] = 0 /\ steadyList[q] = <<>>
      BY DEF RequestInit, Policies
    <2>4. \A q \in Requests : GoesRound(q)
      BY <2>2, <2>3 DEF GoesRound
    <2>5. <<>> \in Seq(Endpoints)
      OBVIOUS
    <2> QED BY <2>1, <2>2, <2>4, <2>5, EndpointAssumption DEF RequestInit, SessionInv
  <1>2. RequestInit => BudgetInv
    BY BudgetInvStarts
  <1>3. BudgetInv /\ SessionInv => SessionRetriesTryEveryEndpoint
    BY RoundTried DEF SessionRetriesTryEveryEndpoint
  <1> QED
    BY <1>1, <1>2, <1>3, ApplyInvariant, StepKeepsBudgetInv, StepKeepsSessionInv, PTL
    DEF RequestSpec
=============================================================================

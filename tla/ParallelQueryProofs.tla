-------------------------- MODULE ParallelQueryProofs --------------------------
(***************************************************************************)
(* For any partitions, splits, pages and callers.                          *)
(*                                                                         *)
(* The semaphore of a cross-partition query, which the code releases by    *)
(* hand in nine places, never lets two of the constructor's task and the   *)
(* calls of nextItem at the queue and its producers.                       *)
(*                                                                         *)
(* Producers read disjoint parts of the hash space, however often          *)
(* partitions split and are replaced, and what is in the priority queue    *)
(* has a row or a 410 at hand.                                             *)
(*                                                                         *)
(* The query does what QueryResults promises: no row is lost while         *)
(* partitions split and producers are replaced, an ordered query hands     *)
(* over the smallest row first, and the end is reported when every row was *)
(* handed over.                                                            *)
(***************************************************************************)
EXTENDS ParallelQuery, FiniteSetTheorems, FunctionTheorems, TLAPS

Stages == {"idle", "waiting", "entered", "advancing", "repairing", "checking",
           "stuck"}

LockTyped ==
    /\ sem \in {0, 1}
    /\ pc \in [Callers -> Stages]
    /\ waiters \in Seq(Callers)

\* A call is in the queue of the semaphore once, and waits.
WaitersWait ==
    /\ \A i \in 1..Len(waiters) : pc[waiters[i]] = "waiting"
    /\ \A i, j \in 1..Len(waiters) : waiters[i] = waiters[j] => i = j
    /\ waiters # <<>> => sem = 1

\* The lock is held by the constructor's task until it is done, then by one
\* call at most.  It may stay taken with nobody inside: a call that was
\* rejected while it looked for replacements does not release it.
OneHolder ==
    /\ phase # "done" => Inside = {} /\ sem = 1
    /\ \A c, d \in Inside : c = d
    /\ Inside # {} => sem = 1

LockInv == LockTyped /\ WaitersWait /\ OneHolder

lockVars == <<sem, waiters, pc, phase>>

-----------------------------------------------------------------------------
(* Handing the lock over *)

LEMMA SameLock == LockInv /\ UNCHANGED lockVars => LockInv'
  BY DEF LockInv, lockVars, LockTyped, WaitersWait, OneHolder, Inside

\* The holder leaves, and is inside no more: the lock goes to the first of
\* those who wait, or is free.
LEMMA LeaveHandsOver ==
    ASSUME LockTyped, WaitersWait, sem = 1,
           NEW calls \in [Callers -> Stages],
           \A c \in Callers : calls[c] \in {"idle", "waiting"},
           \A i \in 1..Len(waiters) : calls[waiters[i]] = "waiting",
           Leave, pc' = Woken(calls)
    PROVE  /\ LockTyped' /\ WaitersWait'
           /\ \A c, d \in Inside' : c = d
           /\ Inside' # {} => sem' = 1
  <1>1. CASE waiters = <<>>
    BY <1>1 DEF Leave, Woken, LockTyped, WaitersWait, Inside, Stages
  <1>2. CASE waiters # <<>>
    <2>1. /\ Len(waiters) \in Nat \ {0} /\ Head(waiters) = waiters[1]
          /\ Head(waiters) \in Callers
      BY <1>2 DEF LockTyped
    <2>2. /\ waiters' = Tail(waiters) /\ sem' = 1
          /\ pc' = [calls EXCEPT ![Head(waiters)] = "entered"]
      BY <1>2 DEF Leave, Woken
    <2>3. LockTyped'
      BY <1>2, <2>1, <2>2 DEF LockTyped, Stages
    <2>4. /\ Len(Tail(waiters)) = Len(waiters) - 1
          /\ \A i \in 1..Len(Tail(waiters)) : Tail(waiters)[i] = waiters[i + 1]
      BY <1>2, <2>1 DEF LockTyped
    <2>5. ASSUME NEW i \in 1..Len(Tail(waiters))
          PROVE  /\ i + 1 \in 1..Len(waiters)
                 /\ Tail(waiters)[i] # Head(waiters)
                 /\ Tail(waiters)[i] \in Callers
                 /\ calls[Tail(waiters)[i]] = "waiting"
      BY <2>1, <2>4 DEF LockTyped, WaitersWait
    <2>6. WaitersWait'
      <3>1. \A i \in 1..Len(waiters') : pc'[waiters'[i]] = "waiting"
        BY <2>1, <2>2, <2>5
      <3>2. \A i, j \in 1..Len(waiters') : waiters'[i] = waiters'[j] => i = j
        BY <2>2, <2>4, <2>5 DEF WaitersWait
      <3> QED BY <2>2, <3>1, <3>2 DEF WaitersWait
    <2>7. \A c \in Inside' : c = Head(waiters)
      BY <2>1, <2>2 DEF Inside
    <2> QED BY <2>2, <2>3, <2>6, <2>7
  <1> QED BY <1>1, <1>2

\* A call settles: it was inside, and leaves.
LEMMA SettleKeepsLockInv ==
    ASSUME LockInv, NEW c \in Inside, Settle(c), phase' = phase
    PROVE  LockInv'
  <1> DEFINE calls == [pc EXCEPT ![c] = "idle"]
  <1>1. c \in Callers /\ sem = 1 /\ phase = "done"
    BY DEF LockInv, OneHolder, Inside
  <1>2. /\ calls \in [Callers -> Stages]
        /\ \A d \in Callers : calls[d] \in {"idle", "waiting"}
    BY <1>1 DEF LockInv, LockTyped, OneHolder, Inside, Stages
  <1>3. \A i \in 1..Len(waiters) : calls[waiters[i]] = "waiting"
    BY <1>1 DEF LockInv, LockTyped, WaitersWait, Inside
  <1>4. Leave /\ pc' = Woken(calls)
    BY DEF Settle
  <1> HIDE DEF calls
  <1> QED BY <1>1, <1>2, <1>3, <1>4, LeaveHandsOver DEF LockInv, OneHolder

\* The holder goes on: it stays inside, and nobody else comes in.
LEMMA HolderStays ==
    ASSUME LockInv, NEW c \in Inside,
           NEW stage \in Stages \ {"waiting"},
           pc' = [pc EXCEPT ![c] = stage], UNCHANGED <<sem, waiters, phase>>
    PROVE  LockInv'
  <1>1. c \in Callers /\ pc[c] # "waiting"
    BY DEF Inside
  <1>2. LockTyped'
    BY <1>1 DEF LockInv, LockTyped
  <1>3. WaitersWait'
    BY <1>1 DEF LockInv, LockTyped, WaitersWait
  <1>4. Inside' \subseteq Inside
    BY <1>1 DEF LockInv, LockTyped, Inside
  <1>5. OneHolder'
    BY <1>4 DEF LockInv, OneHolder
  <1> QED BY <1>2, <1>3, <1>5 DEF LockInv

-----------------------------------------------------------------------------
(* The steps *)

\* While the constructor's task runs it holds the lock, and gives it up once.
LEMMA ConstructorKeepsLockInv ==
    ASSUME LockInv, Constructor
    PROVE  LockInv'
  <1>1. CASE GetTargetRanges
    BY <1>1 DEF GetTargetRanges, LockInv, LockTyped, WaitersWait, OneHolder,
                Inside
  <1>2. ASSUME phase # "done", Leave, pc' = Woken(pc), phase' = "done"
        PROVE  LockInv'
    <2>1. sem = 1 /\ \A c \in Callers : pc[c] \in {"idle", "waiting"}
      BY <1>2 DEF LockInv, OneHolder, Inside
    <2> QED BY <1>2, <2>1, LeaveHandsOver
            DEF LockInv, LockTyped, WaitersWait, OneHolder
  <1>3. CASE TargetRangesFail
    BY <1>2, <1>3 DEF TargetRangesFail
  <1>4. ASSUME NEW p \in Partitions, FillUp(p)
        PROVE  LockInv'
    <2>1. CASE UNCHANGED <<initVars, orderByPQ, err, sem, waiters, pc>>
      BY <2>1, SameLock DEF initVars, lockVars
    <2>2. CASE _decrementInitiationLock(p)
      <3>1. CASE running = {p} /\ pending = <<>>
        BY <1>2, <1>4, <2>2, <3>1 DEF FillUp, _decrementInitiationLock
      <3>2. CASE ~(running = {p} /\ pending = <<>>)
        BY <1>4, <2>2, <3>2
        DEF FillUp, _decrementInitiationLock, LockInv, LockTyped, WaitersWait,
            OneHolder, Inside
      <3> QED BY <3>1, <3>2
    <2> QED BY <1>4, <2>1, <2>2 DEF FillUp
  <1> QED BY <1>1, <1>3, <1>4 DEF Constructor

\* sem.take: the lock if it is free, else a place in the queue.
LEMMA CallKeepsLockInv ==
    ASSUME LockInv, NEW c \in Callers, Call(c)
    PROVE  LockInv'
  <1>1. pc[c] = "idle" /\ phase' = phase
    BY DEF Call, initVars
  <1>2. CASE sem = 0
    <2>1. /\ sem' = 1 /\ waiters' = waiters
          /\ pc' = [pc EXCEPT ![c] = "entered"]
      BY <1>2 DEF Call
    <2>2. waiters = <<>> /\ Inside = {} /\ phase = "done"
      BY <1>2 DEF LockInv, WaitersWait, OneHolder
    <2>3. \A d \in Inside' : d = c
      BY <2>1, <2>2 DEF Inside
    <2> QED BY <1>1, <2>1, <2>2, <2>3
            DEF LockInv, LockTyped, WaitersWait, OneHolder, Stages
  <1>3. CASE sem # 0
    <2>1. /\ sem' = sem /\ waiters' = Append(waiters, c)
          /\ pc' = [pc EXCEPT ![c] = "waiting"] /\ sem = 1
      BY <1>3 DEF Call, LockInv, LockTyped
    <2>2. LockTyped'
      BY <2>1 DEF LockInv, LockTyped, Stages
    <2>3. /\ Len(waiters') = Len(waiters) + 1 /\ Len(waiters) \in Nat
          /\ \A i \in 1..Len(waiters) : /\ waiters'[i] = waiters[i]
                                        /\ waiters[i] \in Callers
                                        /\ waiters[i] # c
          /\ waiters'[Len(waiters) + 1] = c
      BY <1>1, <2>1 DEF LockInv, LockTyped, WaitersWait
    <2>4. \A i \in 1..Len(waiters') : pc'[waiters'[i]] = "waiting"
      BY <2>1, <2>3 DEF LockInv, LockTyped, WaitersWait
    <2>5. \A i, j \in 1..Len(waiters') : waiters'[i] = waiters'[j] => i = j
      BY <2>3 DEF LockInv, WaitersWait
    <2>6. Inside' = Inside
      BY <1>1, <2>1 DEF LockInv, LockTyped, Inside
    <2> QED BY <1>1, <2>1, <2>2, <2>4, <2>5, <2>6
            DEF LockInv, WaitersWait, OneHolder
  <1> QED BY <1>2, <1>3

\* Once a split is repaired the call that did it starts again, behind those
\* who wait.
LEMMA ReexecuteKeepsLockInv ==
    ASSUME LockInv, NEW c \in Callers, Reexecute(c)
    PROVE  LockInv'
  <1>1. c \in Inside /\ pc[c] = "checking" /\ sem' = sem /\ phase' = phase
    BY DEF Reexecute, Inside, initVars
  <1>2. sem = 1 /\ phase = "done"
    BY <1>1 DEF LockInv, OneHolder
  <1>3. CASE waiters = <<>>
    BY <1>1, <1>3, HolderStays DEF Reexecute, Stages
  <1>4. CASE waiters # <<>>
    <2> DEFINE first == Head(waiters)
               rest == Tail(waiters)
    <2>1. /\ waiters' = Append(rest, c)
          /\ pc' = [pc EXCEPT ![c] = "waiting", ![first] = "entered"]
      BY <1>4 DEF Reexecute
    <2>2. /\ Len(waiters) \in Nat \ {0} /\ first = waiters[1]
          /\ first \in Callers /\ rest \in Seq(Callers)
          /\ Len(rest) = Len(waiters) - 1
          /\ \A i \in 1..Len(rest) : rest[i] = waiters[i + 1]
      BY <1>4 DEF LockInv, LockTyped
    <2> HIDE DEF first, rest
    <2>3. \A i \in 1..Len(waiters) : waiters[i] \in Callers /\ waiters[i] # c
      BY <1>1, <1>4 DEF LockInv, LockTyped, WaitersWait
    <2>4. ASSUME NEW i \in 1..Len(rest)
          PROVE  /\ rest[i] \in Callers /\ rest[i] # c /\ rest[i] # first
                 /\ pc[rest[i]] = "waiting"
      <3>1. /\ i + 1 \in 1..Len(waiters) /\ 1 \in 1..Len(waiters)
            /\ i + 1 # 1
        BY <2>2
      <3>2. /\ rest[i] = waiters[i + 1] /\ waiters[i + 1] # waiters[1]
            /\ pc[waiters[i + 1]] = "waiting"
        BY <2>2, <3>1 DEF LockInv, WaitersWait
      <3> QED BY <2>2, <2>3, <3>1, <3>2
    <2>5. first # c
      BY <2>2, <2>3
    <2>6. /\ Len(waiters') = Len(rest) + 1 /\ Len(rest) \in Nat
          /\ \A i \in 1..Len(rest) : waiters'[i] = rest[i]
          /\ waiters'[Len(rest) + 1] = c
      BY <2>1, <2>2
    <2>7. LockTyped'
      BY <1>1, <1>2, <2>1, <2>2 DEF LockInv, LockTyped, Stages
    <2>8. pc'[c] = "waiting" /\ \A d \in Callers \ {c, first} : pc'[d] = pc[d]
      BY <2>1, <2>5 DEF LockInv, LockTyped
    <2>9. \A i \in 1..Len(waiters') : pc'[waiters'[i]] = "waiting"
      BY <2>4, <2>6, <2>8
    <2>10. \A i, j \in 1..Len(rest) : rest[i] = rest[j] => i = j
      BY <2>2 DEF LockInv, WaitersWait
    <2>11. \A i, j \in 1..Len(waiters') : waiters'[i] = waiters'[j] => i = j
      BY <2>4, <2>6, <2>10
    <2>12. \A d \in Inside' : d = first
      BY <1>1, <2>8 DEF LockInv, OneHolder, Inside
    <2> QED BY <1>1, <1>2, <2>7, <2>9, <2>11, <2>12
            DEF LockInv, WaitersWait, OneHolder
  <1> QED BY <1>3, <1>4

LEMMA NextItemKeepsLockInv ==
    ASSUME LockInv, NEW c \in Callers, nextItem(c)
    PROVE  LockInv'
  <1>1. c \in Inside /\ phase' = phase
    BY DEF nextItem, RejectPriorError, NoMoreResults, TakeItem, Advance,
           StartRepair, GetReplacements, ReplacementsFail, CheckReplacement,
           Reexecute, Inside, initVars
  <1>2. CASE RejectPriorError(c) \/ NoMoreResults(c)
    BY <1>1, <1>2, SettleKeepsLockInv DEF RejectPriorError, NoMoreResults
  <1>3. CASE TakeItem(c) \/ StartRepair(c) \/ GetReplacements(c)
                 \/ ReplacementsFail(c)
    BY <1>1, <1>3, HolderStays
    DEF TakeItem, StartRepair, GetReplacements, ReplacementsFail, Stages
  <1>4. CASE Advance(c)
    <2>1. \/ UNCHANGED <<sem, waiters, pc>>
          \/ Settle(c)
      BY <1>4 DEF Advance
    <2> QED BY <1>1, <2>1, SettleKeepsLockInv, SameLock DEF lockVars
  <1>5. CASE CheckReplacement(c)
    <2>1. PICK stage \in {"stuck", "checking"} : pc' = [pc EXCEPT ![c] = stage]
      BY <1>5 DEF CheckReplacement
    <2> QED BY <1>1, <1>5, <2>1, HolderStays DEF CheckReplacement, Stages
  <1>6. CASE Reexecute(c)
    BY <1>6, ReexecuteKeepsLockInv
  <1> QED BY <1>2, <1>3, <1>4, <1>5, <1>6 DEF nextItem

\* What the lock's invariant says at all times of a query's life.
THEOREM LockInvariant == Spec => []LockInv
  <1>1. Init => LockInv
    BY DEF Init, LockInv, LockTyped, WaitersWait, OneHolder, Inside, Stages
  <1>2. LockInv /\ [Next]_vars => LockInv'
    <2> SUFFICES ASSUME LockInv, [Next]_vars
                 PROVE  LockInv'
      OBVIOUS
    <2>1. CASE UNCHANGED vars
      BY <2>1, SameLock DEF vars, initVars, lockVars
    <2>2. ASSUME NEW p \in Partitions, Split(p)
          PROVE  LockInv'
      BY <2>2, SameLock DEF Split, initVars, lockVars
    <2> QED BY <2>1, <2>2, ConstructorKeepsLockInv, CallKeepsLockInv,
               NextItemKeepsLockInv DEF Next
  <1> QED BY <1>1, <1>2, PTL DEF Spec

\* At most one of the constructor's task and the calls of nextItem works on the
\* queue and its producers, whatever splits, fails or is repaired.
THEOREM LockIsExclusive == Spec => []OneAtATime
  <1>1. LockInv => OneAtATime
    <2> SUFFICES ASSUME LockInv
                 PROVE  OneAtATime
      OBVIOUS
    <2>1. CASE Inside = {}
      <3>1. Cardinality(Inside) = 0
        BY <2>1, FS_EmptySet
      <3> QED BY <3>1 DEF LockInv, LockTyped, WaitersWait, OneHolder, OneAtATime
    <2>2. CASE Inside # {}
      <3>1. PICK c : Inside = {c}
        BY <2>2 DEF LockInv, OneHolder
      <3>2. Cardinality(Inside) = 1
        BY <3>1, FS_Singleton
      <3> QED BY <2>2, <3>2 DEF LockInv, WaitersWait, OneHolder, OneAtATime
    <2> QED BY <2>1, <2>2
  <1> QED BY <1>1, LockInvariant, PTL

-----------------------------------------------------------------------------
(* Partitions in the order of their ranges *)

Disjoint(p, q) == Slots[p] \intersect Slots[q] = {}

PairwiseDisjoint(ps) == \A p, q \in ps : p # q => Disjoint(p, q)

First(p) == Min(Slots[p])

LEMMA FirstIsASlot ==
    ASSUME NEW p \in Partitions
    PROVE  First(p) \in Slots[p] /\ First(p) \in Int
  BY IntervalAssumption DEF First, Min

Before(p, ps) == {q \in ps : Min(Slots[q]) < Min(Slots[p])}

LEMMA BeforeIsFinite ==
    ASSUME NEW ps \in SUBSET Partitions, NEW p \in ps
    PROVE  /\ IsFiniteSet(ps) /\ Cardinality(ps) \in Nat
           /\ IsFiniteSet(Before(p, ps))
           /\ Rank(p, ps) = Cardinality(Before(p, ps))
           /\ Rank(p, ps) \in Nat
           /\ Rank(p, ps) < Cardinality(ps)
  <1>1. IsFiniteSet(ps)
    BY PartitionAssumption, FS_Subset
  <1>2. Before(p, ps) \in SUBSET ps
    BY DEF Before
  <1>3. p \notin Before(p, ps)
    BY FirstIsASlot DEF Before, First
  <1>4. /\ Cardinality(ps) \in Nat /\ IsFiniteSet(Before(p, ps))
        /\ Cardinality(Before(p, ps)) \in Nat
        /\ Cardinality(Before(p, ps)) <= Cardinality(ps)
        /\ Cardinality(ps) # Cardinality(Before(p, ps))
    BY <1>1, <1>2, <1>3, FS_Subset, FS_CardinalityType
  <1>5. Rank(p, ps) = Cardinality(Before(p, ps))
    BY DEF Rank, Before
  <1> QED BY <1>1, <1>4, <1>5

LEMMA RankIsStrict ==
    ASSUME NEW ps \in SUBSET Partitions, NEW p \in ps, NEW q \in ps,
           First(p) < First(q)
    PROVE  Rank(p, ps) < Rank(q, ps)
  <1>1. /\ First(p) \in Int /\ First(q) \in Int
        /\ \A x \in ps : First(x) \in Int
    BY FirstIsASlot
  <1>2. Before(p, ps) \in SUBSET Before(q, ps)
    BY <1>1 DEF Before, First
  <1>3. p \in Before(q, ps) /\ p \notin Before(p, ps)
    BY <1>1 DEF Before, First
  <1>4. /\ Cardinality(Before(p, ps)) <= Cardinality(Before(q, ps))
        /\ Cardinality(Before(p, ps)) # Cardinality(Before(q, ps))
    BY <1>2, <1>3, BeforeIsFinite, FS_Subset
  <1> QED BY <1>4, BeforeIsFinite

\* InRangeOrder lists partitions that do not overlap, each once.
LEMMA RangesInOrder ==
    ASSUME NEW ps \in SUBSET Partitions, PairwiseDisjoint(ps)
    PROVE  /\ InRangeOrder(ps) \in Seq(ps)
           /\ Len(InRangeOrder(ps)) = Cardinality(ps)
           /\ Cardinality(ps) \in Nat
           /\ \A i, j \in 1..Len(InRangeOrder(ps)) :
                  InRangeOrder(ps)[i] = InRangeOrder(ps)[j] => i = j
           /\ \A p \in ps : \E i \in 1..Len(InRangeOrder(ps)) : InRangeOrder(ps)[i] = p
  <1> DEFINE n == Cardinality(ps)
             rank == [p \in ps |-> Rank(p, ps) + 1]
             ordered_ == InRangeOrder(ps)
  <1>1. IsFiniteSet(ps) /\ n \in Nat
    BY PartitionAssumption, FS_Subset, FS_CardinalityType
  <1>2. rank \in [ps -> 1..n]
    <2>1. \A p \in ps : Rank(p, ps) + 1 \in 1..n
      BY <1>1, BeforeIsFinite
    <2> QED BY <2>1
  <1>3. ASSUME NEW p \in ps, NEW q \in ps, p # q
        PROVE  rank[p] # rank[q]
    <2>1. First(p) # First(q)
      BY <1>3, FirstIsASlot DEF PairwiseDisjoint, Disjoint
    <2>2. First(p) < First(q) \/ First(q) < First(p)
      BY <2>1, FirstIsASlot
    <2>3. Rank(p, ps) \in Nat /\ Rank(q, ps) \in Nat
      BY BeforeIsFinite
    <2> QED BY <2>2, <2>3, RankIsStrict
  <1>4. rank \in Injection(ps, 1..n)
    BY <1>2, <1>3, Fun_IsInj
  <1>5. IsFiniteSet(1..n) /\ Cardinality(1..n) = n
    BY <1>1, FS_Interval
  <1>6. rank \in Surjection(ps, 1..n)
    BY <1>1, <1>4, <1>5, FS_Injection
  <1>7. \A i \in 1..n : \E p \in ps : rank[p] = i
    <2> HIDE DEF rank, n
    <2> QED BY <1>6 DEF Surjection
  <1>8. \A i \in 1..n : \E p \in ps : Rank(p, ps) = i - 1
    <2> SUFFICES ASSUME NEW i \in 1..n PROVE \E p \in ps : Rank(p, ps) = i - 1
      OBVIOUS
    <2>1. PICK p \in ps : rank[p] = i
      BY <1>7
    <2>2. Rank(p, ps) + 1 = i /\ Rank(p, ps) \in Nat
      BY <2>1, BeforeIsFinite
    <2> QED BY <2>2
  <1>9. \A p, q \in ps : Rank(p, ps) = Rank(q, ps) => p = q
    BY <1>3
  <1>10. \A p \in ps : Rank(p, ps) + 1 \in 1..n /\ Rank(p, ps) \in Nat
    BY <1>1, BeforeIsFinite
  <1> HIDE DEF rank
  <1>11. ordered_ = [i \in 1..n |-> CHOOSE p \in ps : Rank(p, ps) = i - 1]
    BY DEF InRangeOrder
  <1>12. \A i \in 1..n : ordered_[i] \in ps /\ Rank(ordered_[i], ps) = i - 1
    BY <1>8, <1>11
  <1>13. ordered_ \in Seq(ps) /\ Len(ordered_) = n
    BY <1>1, <1>11, <1>12
  <1>14. \A i, j \in 1..n : ordered_[i] = ordered_[j] => i = j
    <2> HIDE DEF ordered_
    <2> QED BY <1>1, <1>12
  <1>15. \A p \in ps : \E i \in 1..n : ordered_[i] = p
    <2> SUFFICES ASSUME NEW p \in ps PROVE \E i \in 1..n : ordered_[i] = p
      OBVIOUS
    <2> DEFINE i == Rank(p, ps) + 1
    <2>1. i \in 1..n /\ i - 1 = Rank(p, ps)
      BY <1>10
    <2>2. ordered_[i] \in ps /\ Rank(ordered_[i], ps) = Rank(p, ps)
      BY <1>12, <2>1
    <2> QED BY <1>9, <2>1, <2>2
  <1> QED BY <1>1, <1>13, <1>14, <1>15

-----------------------------------------------------------------------------
(* The invariant *)

\* A partition that is gone: what there is now in its part of the hash space is
\* smaller.
Replaced(p) ==
    \A q \in live : \/ Disjoint(p, q)
                     \/ (Slots[q] \subseteq Slots[p] /\ Slots[q] # Slots[p])

LiveTyped ==
    /\ live \subseteq Partitions /\ live # {}
    /\ PairwiseDisjoint(live)

\* A producer buffers rows, or the 410 of a partition that is gone.
Buffers(p) ==
    /\ generation[p] \in 0..Len(Pages[p])
    /\ \/ fetchResults[p] \in Seq(Nat)
       \/ fetchResults[p] = <<Gone>> /\ Replaced(p)

BuffersTyped ==
    /\ DOMAIN fetchResults = Partitions
    /\ DOMAIN generation = Partitions
    /\ \A p \in Partitions : Buffers(p)

Working == {c \in Callers : pc[c] \notin {"idle", "waiting", "entered"}}

\* What the holder of the lock has in hand.
HandTyped ==
    /\ Working = {} => active = None /\ todo = <<>>
    /\ \A c \in Callers : pc[c] \in {"advancing", "repairing"} =>
           active \in Partitions /\ todo = <<>>
    /\ \A c \in Callers : pc[c] = "repairing" => Replaced(active)
    /\ todo \in Seq(Partitions)
    /\ \A i, j \in 1..Len(todo) : todo[i] = todo[j] => i = j
    /\ \A i \in 1..Len(todo) : todo[i] # active

ProducersTyped ==
    /\ running \subseteq Partitions /\ pending \in Seq(Partitions)
    /\ orderByPQ \subseteq Partitions
    /\ \A p \in Producers : (p \in live) \/ Replaced(p)
    /\ PairwiseDisjoint(Producers)
    /\ active \notin orderByPQ
    /\ \A i \in 1..Len(todo) : todo[i] \notin orderByPQ
    /\ phase = "ranges" => Producers = {}
    /\ phase = "done" => running = {} /\ pending = <<>>

HasItem(p) ==
    /\ fetchResults[p] # <<>>
    /\ Throws(Head(fetchResults[p])) => Head(fetchResults[p]) = Gone

ProducerInv ==
    /\ LiveTyped
    /\ BuffersTyped
    /\ HandTyped
    /\ ProducersTyped
    /\ \A p \in orderByPQ : HasItem(p)

-----------------------------------------------------------------------------
(* What steps have in common *)

LEMMA SlotsAreThere == \A p \in Partitions : Slots[p] # {}
  BY IntervalAssumption

LEMMA ReplacedIsGone ==
    ASSUME NEW p \in Partitions, Replaced(p)
    PROVE  p \notin live
  BY SlotsAreThere DEF Replaced, Disjoint

LEMMA ProducersArePartitions ==
    ASSUME ProducersTyped, HandTyped
    PROVE  Producers \subseteq Partitions
  <1>1. ToSet(pending) \subseteq Partitions /\ ToSet(todo) \subseteq Partitions
    BY DEF ProducersTyped, HandTyped, ToSet
  <1> QED BY <1>1 DEF ProducersTyped, HandTyped, Producers

LEMMA FewerProducers ==
    ASSUME ProducersTyped, live' = live,
           running' \subseteq Partitions, pending' \in Seq(Partitions),
           orderByPQ' \subseteq Partitions, Producers' \subseteq Producers,
           active' \notin orderByPQ',
           \A i \in 1..Len(todo') : todo'[i] \notin orderByPQ',
           phase' # "ranges",
           phase' = "done" => running' = {} /\ pending' = <<>>
    PROVE  ProducersTyped'
  BY DEF ProducersTyped, PairwiseDisjoint, Disjoint, Replaced

\* The holder of the lock is alone.
LEMMA HolderIsAlone ==
    ASSUME LockInv, NEW c \in Inside
    PROVE  /\ c \in Callers /\ phase = "done"
           /\ \A d \in Callers \ {c} : pc[d] \in {"idle", "waiting"}
  BY DEF LockInv, LockTyped, OneHolder, Inside, Stages

AtRest == {"idle", "waiting", "entered"}

LEMMA EmptyHands ==
    ASSUME \A d \in Callers : pc'[d] \in AtRest, active' = None, todo' = <<>>
    PROVE  HandTyped' /\ Working' = {}
  BY DEF HandTyped, Working, AtRest

\* Who is woken only enters.
LEMMA WokenAreAtRest ==
    ASSUME LockTyped, NEW calls \in [Callers -> Stages],
           \A d \in Callers : calls[d] \in AtRest
    PROVE  \A d \in Callers : Woken(calls)[d] \in AtRest
  BY DEF LockTyped, Woken, AtRest

LEMMA SettledIsAtRest ==
    ASSUME LockInv, NEW c \in Inside, Settle(c)
    PROVE  /\ \A d \in Callers : pc'[d] \in AtRest
           /\ HandTyped' /\ Working' = {}
  <1> DEFINE calls == [pc EXCEPT ![c] = "idle"]
  <1>1. /\ calls \in [Callers -> Stages]
        /\ \A d \in Callers : calls[d] \in AtRest
    BY HolderIsAlone DEF LockInv, LockTyped, Stages, AtRest
  <1>2. pc' = Woken(calls) /\ active' = None /\ todo' = <<>>
    BY DEF Settle
  <1> HIDE DEF calls
  <1>3. \A d \in Callers : pc'[d] \in AtRest
    BY <1>1, <1>2, WokenAreAtRest DEF LockInv
  <1> QED BY <1>2, <1>3, EmptyHands

\* A round of current(): it fills an empty buffer, of this producer only.
LEMMA CurrentKeepsBuffers ==
    ASSUME BuffersTyped, NEW p \in Partitions, (p \in live) \/ Replaced(p),
           NEW answer \in Answers, Current(p, answer),
           UNCHANGED <<live, valueQuery>>
    PROVE  /\ BuffersTyped'
           /\ \A q \in Partitions : HasItem(q) => HasItem(q)'
           /\ answer \in {"row", "gone"} => HasItem(p)'
  <1>1. \A q \in Partitions : Replaced(q) = Replaced(q)'
    BY DEF Replaced
  <1>2. CASE UNCHANGED <<fetchResults, generation>>
    <2>1. BuffersTyped'
      BY <1>1, <1>2 DEF BuffersTyped, Buffers
    <2>2. answer \in {"row", "gone"} => HasItem(p)
      BY <1>2 DEF Current, BufferMore, HasItem, gotSplit, BuffersTyped
    <2>3. \A q \in Partitions : HasItem(q) => HasItem(q)'
      BY <1>2 DEF HasItem, Throws
    <2> QED BY <2>1, <2>2, <2>3
  <1>3. CASE /\ answer = "gone" /\ p \notin live
             /\ fetchResults[p] = <<>>
             /\ fetchResults' = [fetchResults EXCEPT ![p] = <<Gone>>]
             /\ generation' = generation
    <2>1. /\ fetchResults'[p] = <<Gone>>
          /\ \A q \in Partitions \ {p} : fetchResults'[q] = fetchResults[q]
          /\ DOMAIN fetchResults' = Partitions
      BY <1>3 DEF BuffersTyped
    <2>2. BuffersTyped'
      BY <1>1, <1>3, <2>1 DEF BuffersTyped, Buffers
    <2>3. HasItem(p)'
      BY <2>1 DEF HasItem
    <2>4. \A q \in Partitions \ {p} : HasItem(q) => HasItem(q)'
      BY <2>1 DEF HasItem, Throws
    <2> QED BY <2>2, <2>3, <2>4
  <1>4. CASE /\ answer = "more" /\ ~AllFetched(p)
             /\ fetchResults[p] = <<>>
             /\ fetchResults' = [fetchResults EXCEPT ![p] = NextPage(p)]
             /\ generation' = [generation EXCEPT ![p] = @ + 1]
    <2>1. /\ Pages[p] \in Seq(Seq(Nat)) /\ Len(Pages[p]) \in Nat
          /\ generation[p] \in 0..Len(Pages[p])
      BY PageAssumption DEF BuffersTyped, Buffers
    <2>2. generation[p] + 1 \in 1..Len(Pages[p])
      BY <1>4, <2>1 DEF AllFetched
    <2>3. NextPage(p) \in Seq(Nat)
      BY <2>1, <2>2 DEF NextPage
    <2>4. /\ fetchResults'[p] = NextPage(p) /\ generation'[p] = generation[p] + 1
          /\ \A q \in Partitions \ {p} : /\ fetchResults'[q] = fetchResults[q]
                                          /\ generation'[q] = generation[q]
          /\ DOMAIN fetchResults' = Partitions /\ DOMAIN generation' = Partitions
      BY <1>4 DEF BuffersTyped
    <2>5. Buffers(p)'
      BY <2>2, <2>3, <2>4 DEF Buffers
    <2>6. \A q \in Partitions \ {p} : Buffers(q)'
      BY <1>1, <2>4 DEF BuffersTyped, Buffers
    <2>7. BuffersTyped'
      BY <2>4, <2>5, <2>6 DEF BuffersTyped
    <2>8. ~HasItem(p) /\ \A q \in Partitions \ {p} : HasItem(q) => HasItem(q)'
      BY <1>4, <2>4 DEF HasItem, Throws
    <2> QED BY <1>4, <2>7, <2>8
  <1> QED BY <1>2, <1>3, <1>4 DEF Current, BufferMore, producerVars

\* The same producers wait in the same queue, and have what they had.
LEMMA QueueStays ==
    ASSUME ProducerInv, UNCHANGED <<live, fetchResults, generation, valueQuery>>
    PROVE  /\ LiveTyped' /\ BuffersTyped'
           /\ \A p \in Partitions : HasItem(p) => HasItem(p)'
  BY DEF ProducerInv, LiveTyped, PairwiseDisjoint, Disjoint, BuffersTyped,
         Buffers, Replaced, HasItem, Throws

-----------------------------------------------------------------------------
(* The constructor's task *)

\* Before it is done nobody has anything in hand.
LEMMA ConstructorIsAlone ==
    ASSUME LockInv, HandTyped, phase # "done"
    PROVE  /\ \A d \in Callers : pc[d] \in {"idle", "waiting"}
           /\ active = None /\ todo = <<>>
  <1>1. \A d \in Callers : pc[d] \in {"idle", "waiting"}
    BY DEF LockInv, OneHolder, Inside
  <1> QED BY <1>1 DEF HandTyped, Working

\* At least one producer starts at once, and not more than there are.
LEMMA SomeStart ==
    ASSUME NEW k \in Nat \ {0}
    PROVE  maxDegreeOfParallelism(k) \in 1..k
  <1>1. CASE Degree > 0
    <2> DEFINE S == {Degree + 1, k}
    <2>1. (\E x \in S : \A y \in S : x <= y) /\ S \subseteq Int
      BY BoundAssumption
    <2>2. Min(S) \in S /\ \A y \in S : Min(S) <= y
      <3> HIDE DEF S
      <3> QED BY <2>1 DEF Min
    <2>3. maxDegreeOfParallelism(k) = Min(S)
      BY <1>1, BoundAssumption DEF maxDegreeOfParallelism
    <2>4. Min(S) \in {Degree + 1, k} /\ Min(S) <= k
      BY <2>2
    <2> QED BY <1>1, <2>3, <2>4, BoundAssumption
  <1> QED BY <1>1, BoundAssumption DEF maxDegreeOfParallelism

LEMMA FirstProducers ==
    ASSUME LockInv, ProducerInv, GetTargetRanges
    PROVE  ProducerInv'
  <1> DEFINE ranges == InRangeOrder(live)
             n == maxDegreeOfParallelism(Len(ranges))
  <1>1. /\ phase = "ranges" /\ phase' = "filling"
        /\ running' = ToSet(SubSeq(ranges, 1, n))
        /\ pending' = SubSeq(ranges, n + 1, Len(ranges))
        /\ UNCHANGED <<live, fetchResults, generation, valueQuery, orderByPQ, pc,
                      active, todo>>
    BY DEF GetTargetRanges, query, producerVars, holderVars
  <1>2. /\ active = None /\ todo = <<>>
        /\ \A d \in Callers : pc[d] \in {"idle", "waiting"}
    BY <1>1, ConstructorIsAlone DEF ProducerInv
  <1>3. orderByPQ = {}
    BY <1>1 DEF ProducerInv, ProducersTyped, Producers
  <1>4. ranges \in Seq(live) /\ Len(ranges) \in Nat \ {0}
    <2>1. /\ ranges \in Seq(live) /\ Len(ranges) = Cardinality(live)
          /\ Cardinality(live) \in Nat
      BY RangesInOrder DEF ProducerInv, LiveTyped
    <2>2. Cardinality(live) # 0
      BY PartitionAssumption, FS_Subset, FS_EmptySet DEF ProducerInv, LiveTyped
    <2> QED BY <2>1, <2>2
  <1> HIDE DEF ranges
  <1>5. n \in 1..Len(ranges)
    BY <1>4, SomeStart
  <1> HIDE DEF n
  <1>6. /\ SubSeq(ranges, 1, n) \in Seq(live)
        /\ SubSeq(ranges, n + 1, Len(ranges)) \in Seq(live)
    <2>1. \A i \in 1..n : i \in 1..Len(ranges)
      BY <1>4, <1>5
    <2>2. \A i \in (n + 1)..Len(ranges) : i \in 1..Len(ranges)
      BY <1>4, <1>5
    <2> QED BY <1>4, <1>5, <2>1, <2>2
  <1>7. running' \subseteq live /\ pending' \in Seq(live)
    BY <1>1, <1>6 DEF ToSet
  <1>8. Producers' \subseteq live
    <2>1. ToSet(pending') \subseteq live /\ ToSet(todo') = {}
      BY <1>1, <1>2, <1>7 DEF ToSet
    <2>2. ~\E c \in Callers : pc'[c] \in {"advancing", "repairing"}
      BY <1>1, <1>2
    <2> QED BY <1>1, <1>3, <1>7, <2>1, <2>2 DEF Producers
  <1>9. live \subseteq Partitions /\ PairwiseDisjoint(live)
    BY DEF ProducerInv, LiveTyped
  <1>10. PairwiseDisjoint(Producers')
    BY <1>8, <1>9 DEF PairwiseDisjoint
  <1>11. pending' \in Seq(Partitions)
    BY <1>7, <1>9
  <1>12. ProducersTyped'
    BY <1>1, <1>2, <1>3, <1>7, <1>8, <1>9, <1>10, <1>11
    DEF ProducersTyped, PairwiseDisjoint, Disjoint
  <1>13. HandTyped'
    BY <1>1, <1>2, EmptyHands DEF AtRest
  <1> QED BY <1>1, <1>3, <1>12, <1>13, QueueStays DEF ProducerInv

LEMMA ConstructorFails ==
    ASSUME LockInv, ProducerInv, TargetRangesFail
    PROVE  ProducerInv'
  <1>1. /\ phase = "ranges" /\ phase' = "done" /\ pc' = Woken(pc)
        /\ UNCHANGED <<live, fetchResults, generation, valueQuery, orderByPQ,
                      pending, running, active, todo>>
    BY DEF TargetRangesFail, query, holderVars
  <1>2. /\ active = None /\ todo = <<>>
        /\ \A d \in Callers : pc[d] \in {"idle", "waiting"}
    BY <1>1, ConstructorIsAlone DEF ProducerInv
  <1>3. \A d \in Callers : pc'[d] \in AtRest
    BY <1>1, <1>2, WokenAreAtRest DEF LockInv, LockTyped, AtRest
  <1>4. HandTyped'
    BY <1>1, <1>2, <1>3, EmptyHands
  <1>5. Producers' = {} /\ running = {} /\ pending = <<>> /\ orderByPQ = {}
    <2>1. Producers = {}
      BY <1>1 DEF ProducerInv, ProducersTyped
    <2>2. running = {} /\ ToSet(pending) = {} /\ orderByPQ = {}
      BY <2>1 DEF Producers
    <2>3. pending = <<>>
      <3>1. pending \in Seq(Partitions)
        BY DEF ProducerInv, ProducersTyped
      <3>2. pending # <<>> => 1 \in DOMAIN pending
        BY <3>1
      <3> QED BY <2>2, <3>2 DEF ToSet
    <2>4. ~\E c \in Callers : pc'[c] \in {"advancing", "repairing"}
      BY <1>3 DEF AtRest
    <2> QED BY <1>1, <1>2, <2>2, <2>3, <2>4 DEF Producers, ToSet
  <1>6. ProducersTyped'
    BY <1>1, <1>2, <1>5 DEF ProducersTyped, PairwiseDisjoint
  <1> QED BY <1>1, <1>4, <1>5, <1>6, QueueStays DEF ProducerInv

LEMMA FillUpKeepsProducerInv ==
    ASSUME LockInv, ProducerInv, NEW p \in Partitions, FillUp(p)
    PROVE  ProducerInv'
  <1>1. PICK answer \in Answers :
            /\ Current(p, answer)
            /\ \/ answer = "more" /\ UNCHANGED <<initVars, orderByPQ, pc>>
               \/ /\ orderByPQ' = Enqueue(p, answer)
                  /\ _decrementInitiationLock(p)
    BY DEF FillUp
  <1>2. /\ phase = "filling" /\ p \in running
        /\ UNCHANGED <<live, valueQuery, active, todo>>
    BY DEF FillUp, query, holderVars
  <1>3. /\ active = None /\ todo = <<>>
        /\ \A d \in Callers : pc[d] \in {"idle", "waiting"}
    BY <1>2, ConstructorIsAlone DEF ProducerInv
  <1>4. p \in Producers /\ (p \in live \/ Replaced(p))
    BY <1>2 DEF Producers, ProducerInv, ProducersTyped
  <1>5. /\ BuffersTyped'
        /\ \A q \in Partitions : HasItem(q) => HasItem(q)'
        /\ answer \in {"row", "gone"} => HasItem(p)'
    BY <1>1, <1>2, <1>4, CurrentKeepsBuffers DEF ProducerInv
  <1>6. LiveTyped'
    BY <1>2 DEF ProducerInv, LiveTyped, PairwiseDisjoint, Disjoint
  <1>7. /\ orderByPQ' \subseteq orderByPQ \union {p}
        /\ \A q \in orderByPQ' : HasItem(q)'
    BY <1>1, <1>5 DEF Enqueue, ProducerInv, ProducersTyped
  <1>8. \A d \in Callers : pc'[d] \in AtRest
    <2>1. pc' = pc \/ pc' = Woken(pc)
      BY <1>1 DEF _decrementInitiationLock
    <2> QED BY <1>3, <2>1, WokenAreAtRest DEF LockInv, LockTyped, AtRest
  <1>9. HandTyped'
    BY <1>2, <1>3, <1>8, EmptyHands
  <1>10. /\ running' \subseteq Partitions /\ pending' \in Seq(Partitions)
         /\ running' \subseteq running \union ToSet(pending)
         /\ ToSet(pending') \subseteq ToSet(pending)
         /\ phase' \in {"filling", "done"}
         /\ phase' = "done" => running' = {} /\ pending' = <<>>
    <2>1. running \subseteq Partitions /\ pending \in Seq(Partitions)
      BY DEF ProducerInv, ProducersTyped
    <2>2. CASE UNCHANGED initVars
      BY <1>2, <2>1, <2>2 DEF initVars
    <2>3. CASE _decrementInitiationLock(p) /\ pending = <<>>
      BY <1>2, <2>1, <2>3 DEF _decrementInitiationLock
    <2>4. CASE _decrementInitiationLock(p) /\ pending # <<>>
      <3>1. /\ Head(pending) \in ToSet(pending) /\ Head(pending) \in Partitions
            /\ Tail(pending) \in Seq(Partitions)
            /\ ToSet(Tail(pending)) \subseteq ToSet(pending)
        BY <2>1, <2>4 DEF ToSet
      <3> QED BY <2>1, <2>4, <3>1 DEF _decrementInitiationLock
    <2> QED BY <1>1, <2>2, <2>3, <2>4
  <1>11. Producers' \subseteq Producers
    <2>1. ~\E c \in Callers : pc'[c] \in {"advancing", "repairing"}
      BY <1>8 DEF AtRest
    <2> QED BY <1>2, <1>4, <1>7, <1>10, <2>1 DEF Producers
  <1>12. /\ orderByPQ' \subseteq Partitions /\ active' \notin orderByPQ'
    BY <1>2, <1>3, <1>7, PartitionAssumption DEF ProducerInv, ProducersTyped
  <1>13. ProducersTyped'
    BY <1>2, <1>3, <1>10, <1>11, <1>12, FewerProducers DEF ProducerInv
  <1> QED BY <1>5, <1>6, <1>7, <1>9, <1>13 DEF ProducerInv

-----------------------------------------------------------------------------
(* nextItem *)

\* The call of c goes on, with what it needs at the next stage in its hands.
LEMMA HandsOfOne ==
    ASSUME LockInv, NEW c \in Inside, NEW stage \in Stages,
           pc' = [pc EXCEPT ![c] = stage]
    PROVE  /\ pc'[c] = stage
           /\ \A d \in Callers \ {c} : pc'[d] \in {"idle", "waiting"}
           /\ Working' = {} <=> stage \in AtRest
           /\ (\E d \in Callers : pc'[d] \in {"advancing", "repairing"})
                  <=> stage \in {"advancing", "repairing"}
  <1>1. /\ c \in Callers /\ pc \in [Callers -> Stages]
        /\ \A d \in Callers \ {c} : pc[d] \in {"idle", "waiting"}
    BY HolderIsAlone DEF LockInv, LockTyped
  <1>2. /\ pc'[c] = stage
        /\ \A d \in Callers \ {c} : pc'[d] \in {"idle", "waiting"}
    BY <1>1
  <1> QED BY <1>1, <1>2 DEF Working, AtRest

\* A call that has just come in has nothing in hand.
LEMMA EnteredHands ==
    ASSUME LockInv, HandTyped, NEW c \in Callers, pc[c] = "entered"
    PROVE  /\ c \in Inside /\ phase = "done"
           /\ active = None /\ todo = <<>> /\ Working = {}
           /\ \A d \in Callers : pc[d] \in AtRest
  <1>1. c \in Inside
    BY DEF Inside
  <1>2. \A d \in Callers : pc[d] \in AtRest
    BY <1>1, HolderIsAlone DEF AtRest
  <1> QED BY <1>1, <1>2, HolderIsAlone DEF HandTyped, Working, AtRest

\* A call settles without a change of the queue.
LEMMA SettlingKeepsProducerInv ==
    ASSUME LockInv, ProducerInv, NEW c \in Inside, Settle(c),
           UNCHANGED <<live, fetchResults, generation, valueQuery, initVars,
                       orderByPQ>>
    PROVE  ProducerInv'
  <1>1. /\ \A d \in Callers : pc'[d] \in AtRest
        /\ HandTyped' /\ active' = None /\ todo' = <<>> /\ phase = "done"
    BY SettledIsAtRest, HolderIsAlone DEF Settle
  <1>2. Producers' \subseteq Producers
    <2>1. ~\E d \in Callers : pc'[d] \in {"advancing", "repairing"}
      BY <1>1 DEF AtRest
    <2> QED BY <1>1, <2>1 DEF Producers, ToSet, initVars
  <1>3. orderByPQ' \subseteq Partitions /\ None \notin orderByPQ'
    BY PartitionAssumption DEF ProducerInv, ProducersTyped
  <1>4. ProducersTyped'
    BY <1>1, <1>2, <1>3, FewerProducers DEF ProducerInv, ProducersTyped, initVars
  <1> QED BY <1>1, <1>3, <1>4, QueueStays DEF ProducerInv

LEMMA TakeItemKeepsProducerInv ==
    ASSUME LockInv, ProducerInv, NEW c \in Callers, TakeItem(c)
    PROVE  ProducerInv'
  <1>1. PICK p \in orderByPQ :
            /\ ~gotSplit(p) /\ orderByPQ' = orderByPQ \ {p}
            /\ active' = p
            /\ fetchResults' = [fetchResults EXCEPT ![p] = Tail(@)]
    BY DEF TakeItem, Shift
  <1>2. /\ pc[c] = "entered" /\ pc' = [pc EXCEPT ![c] = "advancing"]
        /\ UNCHANGED <<live, valueQuery, initVars, generation, todo>>
    BY DEF TakeItem, query
  <1>3. /\ c \in Inside /\ phase = "done" /\ todo = <<>>
        /\ \A d \in Callers : pc[d] \in AtRest
    BY <1>2, EnteredHands DEF ProducerInv
  <1>4. p \in Partitions /\ HasItem(p)
    BY DEF ProducerInv, ProducersTyped
  <1>5. BuffersTyped' /\ \A q \in Partitions \ {p} : HasItem(q) => HasItem(q)'
    <2>1. /\ fetchResults'[p] = Tail(fetchResults[p])
          /\ \A q \in Partitions \ {p} : fetchResults'[q] = fetchResults[q]
          /\ DOMAIN fetchResults' = Partitions
      BY <1>1, <1>4 DEF ProducerInv, BuffersTyped
    <2>2. fetchResults[p] \in Seq(Nat) /\ fetchResults[p] # <<>>
      BY <1>1, <1>4 DEF ProducerInv, BuffersTyped, Buffers, HasItem, gotSplit
    <2>3. Tail(fetchResults[p]) \in Seq(Nat)
      BY <2>2
    <2>4. \A q \in Partitions : Replaced(q)' = Replaced(q)
      BY <1>2 DEF Replaced
    <2>5. BuffersTyped'
      BY <1>2, <1>4, <2>1, <2>3, <2>4 DEF ProducerInv, BuffersTyped, Buffers
    <2>6. \A q \in Partitions \ {p} : HasItem(q) => HasItem(q)'
      BY <1>2, <2>1 DEF HasItem, Throws
    <2> QED BY <2>5, <2>6
  <1>6. LiveTyped'
    BY <1>2 DEF ProducerInv, LiveTyped, PairwiseDisjoint, Disjoint
  <1>7. /\ \A d \in Callers \ {c} : pc'[d] \in {"idle", "waiting"}
        /\ pc'[c] = "advancing" /\ Working' # {}
    BY <1>2, <1>3, HandsOfOne DEF Stages, AtRest
  <1>8. HandTyped'
    BY <1>1, <1>2, <1>3, <1>4, <1>7 DEF HandTyped
  <1>9. Producers' \subseteq Producers
    BY <1>1, <1>2, <1>3 DEF Producers, initVars
  <1>10. ProducersTyped'
    BY <1>1, <1>2, <1>3, <1>9, FewerProducers
    DEF ProducerInv, ProducersTyped, initVars
  <1>11. \A q \in orderByPQ' : HasItem(q)'
    BY <1>1, <1>5 DEF ProducerInv, ProducersTyped
  <1> QED BY <1>5, <1>6, <1>8, <1>10, <1>11 DEF ProducerInv

LEMMA AdvanceKeepsProducerInv ==
    ASSUME LockInv, ProducerInv, NEW c \in Callers, Advance(c)
    PROVE  ProducerInv'
  <1>1. PICK answer \in Answers :
            /\ Current(active, answer)
            /\ \/ UNCHANGED <<orderByPQ, pc, active, todo>>
               \/ orderByPQ' = PutBack(answer) /\ Settle(c)
    BY DEF Advance, holderVars
  <1>2. /\ pc[c] = "advancing" /\ c \in Inside /\ phase = "done"
        /\ UNCHANGED <<live, valueQuery, initVars>>
    BY HolderIsAlone DEF Advance, query, Inside
  <1>3. /\ active \in Partitions /\ todo = <<>>
        /\ active \in Producers /\ (active \in live \/ Replaced(active))
    BY <1>2 DEF ProducerInv, HandTyped, ProducersTyped, Producers
  <1>4. PICK p \in Partitions : p = active
    BY <1>3
  <1>5. /\ BuffersTyped'
        /\ \A q \in Partitions : HasItem(q) => HasItem(q)'
        /\ answer \in {"row", "gone"} => HasItem(p)'
    BY <1>1, <1>2, <1>3, <1>4, CurrentKeepsBuffers DEF ProducerInv
  <1>6. LiveTyped' /\ \A q : Replaced(q)' = Replaced(q)
    BY <1>2 DEF ProducerInv, LiveTyped, PairwiseDisjoint, Disjoint, Replaced
  <1>7. CASE UNCHANGED <<orderByPQ, pc, active, todo>>
    <2>1. HandTyped'
      BY <1>6, <1>7 DEF ProducerInv, HandTyped, Working
    <2>2. Producers' = Producers
      BY <1>2, <1>7 DEF Producers, initVars
    <2>3. ProducersTyped'
      BY <1>2, <1>7, <2>2, FewerProducers DEF ProducerInv, ProducersTyped, initVars
    <2>4. \A q \in orderByPQ' : HasItem(q)'
      BY <1>5, <1>7 DEF ProducerInv, ProducersTyped
    <2> QED BY <1>5, <1>6, <2>1, <2>3, <2>4 DEF ProducerInv
  <1>8. CASE orderByPQ' = PutBack(answer) /\ Settle(c)
    <2>1. /\ \A d \in Callers : pc'[d] \in AtRest
          /\ HandTyped' /\ active' = None /\ todo' = <<>>
      BY <1>2, <1>8, SettledIsAtRest DEF Settle
    <2>2. /\ orderByPQ' \subseteq orderByPQ \union {p}
          /\ \A q \in orderByPQ' : HasItem(q)'
      BY <1>3, <1>5, <1>4, <1>8 DEF PutBack, ProducerInv, ProducersTyped
    <2>3. Producers' \subseteq Producers
      <3>1. ~\E d \in Callers : pc'[d] \in {"advancing", "repairing"}
        BY <2>1 DEF AtRest
      <3> QED BY <1>2, <1>3, <1>4, <2>1, <2>2, <3>1 DEF Producers, ToSet, initVars
    <2>4. orderByPQ' \subseteq Partitions /\ None \notin orderByPQ'
      BY <1>3, <2>2, PartitionAssumption DEF ProducerInv, ProducersTyped
    <2>5. ProducersTyped'
      BY <1>2, <2>1, <2>3, <2>4, FewerProducers
      DEF ProducerInv, ProducersTyped, initVars
    <2> QED BY <1>5, <1>6, <2>1, <2>2, <2>5 DEF ProducerInv
  <1> QED BY <1>1, <1>7, <1>8

LEMMA StartRepairKeepsProducerInv ==
    ASSUME LockInv, ProducerInv, NEW c \in Callers, StartRepair(c)
    PROVE  ProducerInv'
  <1>1. PICK p \in orderByPQ :
            gotSplit(p) /\ orderByPQ' = orderByPQ \ {p} /\ active' = p
    BY DEF StartRepair
  <1>2. /\ pc[c] = "entered" /\ pc' = [pc EXCEPT ![c] = "repairing"]
        /\ UNCHANGED <<live, valueQuery, initVars, fetchResults, generation, todo>>
    BY DEF StartRepair, query, producerVars
  <1>3. /\ c \in Inside /\ phase = "done" /\ todo = <<>>
    BY <1>2, EnteredHands DEF ProducerInv
  <1>4. p \in Partitions /\ HasItem(p)
    BY DEF ProducerInv, ProducersTyped
  <1>5. Replaced(p)'
    <2>1. fetchResults[p] \notin Seq(Nat)
      BY <1>1, <1>4, PageAssumption DEF HasItem, gotSplit
    <2> QED BY <1>2, <1>4, <2>1 DEF ProducerInv, BuffersTyped, Buffers, Replaced
  <1>6. /\ \A d \in Callers \ {c} : pc'[d] \in {"idle", "waiting"}
        /\ pc'[c] = "repairing" /\ Working' # {}
    BY <1>2, <1>3, HandsOfOne DEF Stages, AtRest
  <1>7. HandTyped'
    BY <1>1, <1>2, <1>3, <1>4, <1>5, <1>6 DEF HandTyped
  <1>8. Producers' \subseteq Producers
    BY <1>1, <1>2, <1>3 DEF Producers, initVars
  <1>9. ProducersTyped'
    BY <1>1, <1>2, <1>3, <1>8, FewerProducers
    DEF ProducerInv, ProducersTyped, initVars
  <1>10. \A q \in orderByPQ' : HasItem(q)'
    BY <1>1, <1>2, QueueStays DEF ProducerInv, ProducersTyped
  <1> QED BY <1>2, <1>7, <1>9, <1>10, QueueStays DEF ProducerInv

\* What took the place of a partition overlaps no other producer.
LEMMA GetReplacementsKeepsProducerInv ==
    ASSUME LockInv, ProducerInv, NEW c \in Callers, GetReplacements(c)
    PROVE  ProducerInv'
  <1> DEFINE new == ReplacementRanges(active)
  <1>1. /\ pc[c] = "repairing" /\ pc' = [pc EXCEPT ![c] = "checking"]
        /\ todo' = InRangeOrder(new)
        /\ UNCHANGED <<live, valueQuery, initVars, fetchResults, generation,
                      orderByPQ, active>>
    BY DEF GetReplacements, query, producerVars
  <1>2. /\ c \in Inside /\ phase = "done" /\ running = {} /\ pending = <<>>
    BY <1>1, HolderIsAlone DEF Inside, ProducerInv, ProducersTyped
  <1>3. /\ active \in Partitions /\ Replaced(active) /\ active \in Producers
        /\ active \notin orderByPQ
    BY <1>1 DEF ProducerInv, HandTyped, ProducersTyped, Producers
  <1>4. new \subseteq live /\ live \subseteq Partitions /\ PairwiseDisjoint(live)
    BY DEF ReplacementRanges, ProducerInv, LiveTyped
  <1>5. \A q \in new : Slots[q] \subseteq Slots[active] /\ Slots[q] # {}
    <2>1. \A q \in new : q \in live /\ ~Disjoint(active, q)
      BY DEF ReplacementRanges, Disjoint
    <2> HIDE DEF new
    <2> QED BY <1>3, <1>4, <2>1, SlotsAreThere DEF Replaced
  <1>6. active \notin new
    BY <1>3, <1>4, ReplacedIsGone
  <1>7. \A p \in orderByPQ, q \in new : Disjoint(p, q) /\ p # q
    <2>1. \A p \in orderByPQ : Disjoint(p, active)
      BY <1>3 DEF ProducerInv, ProducersTyped, PairwiseDisjoint, Producers
    <2> HIDE DEF new
    <2> QED BY <1>5, <2>1 DEF Disjoint
  <1>8. /\ todo' \in Seq(new)
        /\ \A i, j \in 1..Len(todo') : todo'[i] = todo'[j] => i = j
    BY <1>1, <1>4, RangesInOrder DEF PairwiseDisjoint
  <1> HIDE DEF new
  <1>9. /\ todo' \in Seq(Partitions) /\ \A i \in 1..Len(todo') : todo'[i] \in new
        /\ ToSet(todo') \subseteq new
    BY <1>4, <1>8 DEF ToSet
  <1>10. /\ \A d \in Callers \ {c} : pc'[d] \in {"idle", "waiting"}
         /\ pc'[c] = "checking" /\ Working' # {}
    BY <1>1, <1>2, HandsOfOne DEF Stages, AtRest
  <1>11. HandTyped'
    BY <1>1, <1>6, <1>8, <1>9, <1>10 DEF HandTyped
  <1>12. Producers' \subseteq orderByPQ \union new
    BY <1>1, <1>2, <1>9, <1>10 DEF Producers, ToSet, initVars
  <1>13. PairwiseDisjoint(Producers')
    <2>1. PairwiseDisjoint(orderByPQ)
      BY DEF ProducerInv, ProducersTyped, PairwiseDisjoint, Producers
    <2>2. PairwiseDisjoint(new)
      BY <1>4 DEF PairwiseDisjoint
    <2> QED BY <1>7, <1>12, <2>1, <2>2 DEF PairwiseDisjoint, Disjoint
  <1>14. \A p \in Producers' : (p \in live) \/ Replaced(p)
    BY <1>4, <1>12 DEF ProducerInv, ProducersTyped, Producers
  <1>15. ProducersTyped'
    BY <1>1, <1>2, <1>3, <1>7, <1>9, <1>13, <1>14
    DEF ProducerInv, ProducersTyped, PairwiseDisjoint, Disjoint, Replaced, initVars
  <1>16. \A q \in orderByPQ' : HasItem(q)'
    BY <1>1, QueueStays DEF ProducerInv, ProducersTyped
  <1> QED BY <1>1, <1>11, <1>15, <1>16, QueueStays DEF ProducerInv

LEMMA PuttingDownKeepsProducerInv ==
    ASSUME LockInv, ProducerInv, NEW c \in Callers,
           ReplacementsFail(c) \/ Reexecute(c)
    PROVE  ProducerInv'
  <1>1. /\ pc[c] \in {"repairing", "checking"} /\ active' = None /\ todo' = todo
        /\ UNCHANGED <<live, valueQuery, initVars, fetchResults, generation,
                      orderByPQ>>
    BY DEF ReplacementsFail, Reexecute, query, producerVars
  <1>2. /\ c \in Inside /\ phase = "done"
        /\ \A d \in Callers \ {c} : pc[d] \in {"idle", "waiting"}
    BY <1>1, HolderIsAlone DEF Inside
  <1>3. todo = <<>>
    BY DEF ReplacementsFail, Reexecute, ProducerInv, HandTyped
  <1>4. pc \in [Callers -> Stages]
    BY DEF LockInv, LockTyped
  <1>5. \A d \in Callers : pc'[d] \in AtRest
    <2>1. CASE ReplacementsFail(c)
      BY <1>2, <1>4, <2>1 DEF ReplacementsFail, AtRest
    <2>2. CASE Reexecute(c) /\ waiters = <<>>
      BY <1>2, <1>4, <2>2 DEF Reexecute, AtRest
    <2>3. CASE Reexecute(c) /\ waiters # <<>>
      <3>1. Head(waiters) \in Callers
        BY <2>3 DEF LockInv, LockTyped
      <3>2. pc' = [pc EXCEPT ![c] = "waiting", ![Head(waiters)] = "entered"]
        BY <2>3 DEF Reexecute
      <3> QED BY <1>2, <1>4, <3>1, <3>2 DEF AtRest
    <2> QED BY <2>1, <2>2, <2>3
  <1>6. HandTyped'
    BY <1>1, <1>3, <1>5, EmptyHands
  <1>7. Producers' \subseteq Producers
    <2>1. ~\E d \in Callers : pc'[d] \in {"advancing", "repairing"}
      BY <1>5 DEF AtRest
    <2> QED BY <1>1, <2>1 DEF Producers, initVars
  <1>8. orderByPQ' \subseteq Partitions /\ None \notin orderByPQ'
    BY <1>1, PartitionAssumption DEF ProducerInv, ProducersTyped
  <1>9. ProducersTyped'
    BY <1>1, <1>2, <1>3, <1>7, <1>8, FewerProducers
    DEF ProducerInv, ProducersTyped, initVars
  <1>10. \A q \in orderByPQ' : HasItem(q)'
    BY <1>1, QueueStays DEF ProducerInv, ProducersTyped
  <1> QED BY <1>1, <1>6, <1>9, <1>10, QueueStays DEF ProducerInv

LEMMA CheckReplacementKeepsProducerInv ==
    ASSUME LockInv, ProducerInv, NEW c \in Callers, CheckReplacement(c)
    PROVE  ProducerInv'
  <1>1. /\ pc[c] = "checking" /\ todo # <<>>
        /\ UNCHANGED <<live, valueQuery, initVars, active>>
    BY DEF CheckReplacement, query
  <1>2. PICK answer \in Answers :
            /\ Current(Head(todo), answer)
            /\ todo' = IF answer = "more" THEN todo ELSE Tail(todo)
            /\ orderByPQ' = Enqueue(Head(todo), answer)
    BY DEF CheckReplacement
  <1>3. PICK stage \in {"stuck", "checking"} : pc' = [pc EXCEPT ![c] = stage]
    BY DEF CheckReplacement
  <1>4. c \in Inside /\ phase = "done"
    BY <1>1, HolderIsAlone DEF Inside
  <1>5. /\ Len(todo) \in Nat \ {0} /\ Head(todo) = todo[1] /\ todo \in Seq(Partitions)
        /\ todo[1] \in Partitions /\ todo[1] \in ToSet(todo)
    BY <1>1 DEF ProducerInv, HandTyped, ToSet
  <1>6. PICK p \in Partitions : p = todo[1]
    BY <1>5
  <1>7. p \in Producers /\ (p \in live \/ Replaced(p))
    BY <1>5, <1>6 DEF ProducerInv, ProducersTyped, Producers
  <1>8. /\ BuffersTyped'
        /\ \A q \in Partitions : HasItem(q) => HasItem(q)'
        /\ answer \in {"row", "gone"} => HasItem(p)'
    BY <1>1, <1>2, <1>5, <1>6, <1>7, CurrentKeepsBuffers DEF ProducerInv
  <1>9. LiveTyped'
    BY <1>1 DEF ProducerInv, LiveTyped, PairwiseDisjoint, Disjoint
  <1>10. /\ orderByPQ' = (IF answer = "row" THEN orderByPQ \union {p} ELSE orderByPQ)
         /\ \A q \in orderByPQ' : HasItem(q)'
    BY <1>2, <1>5, <1>6, <1>8 DEF Enqueue, ProducerInv, ProducersTyped
  <1>11. /\ todo' \in Seq(Partitions)
         /\ \A i, j \in 1..Len(todo') : todo'[i] = todo'[j] => i = j
         /\ \A i \in 1..Len(todo') : /\ todo'[i] # active
                                     /\ todo'[i] \notin orderByPQ
                                     /\ todo'[i] \in ToSet(todo)
                                     /\ answer # "more" => todo'[i] # p
    <2>1. /\ \A i, j \in 1..Len(todo) : todo[i] = todo[j] => i = j
          /\ \A i \in 1..Len(todo) : /\ todo[i] # active
                                     /\ todo[i] \notin orderByPQ
                                     /\ todo[i] \in ToSet(todo)
      BY <1>5 DEF ProducerInv, HandTyped, ProducersTyped, ToSet
    <2>2. CASE answer = "more"
      BY <1>2, <1>5, <2>1, <2>2
    <2>3. CASE answer # "more"
      <3>1. /\ todo' = Tail(todo) /\ Tail(todo) \in Seq(Partitions)
            /\ Len(Tail(todo)) = Len(todo) - 1
            /\ \A i \in 1..Len(Tail(todo)) : Tail(todo)[i] = todo[i + 1]
        BY <1>1, <1>2, <1>5, <2>3
      <3>2. \A i \in 1..Len(todo') : /\ i + 1 \in 1..Len(todo)
                                     /\ todo'[i] = todo[i + 1]
                                     /\ i + 1 # 1
        BY <1>5, <3>1
      <3>3. \A i \in 1..Len(todo') : todo'[i] # p
        BY <1>5, <1>6, <2>1, <3>2
      <3> QED BY <2>1, <3>1, <3>2, <3>3
    <2> QED BY <2>2, <2>3
  <1>12. /\ Working' # {}
         /\ \A d \in Callers : pc'[d] \notin {"advancing", "repairing"}
    BY <1>3, <1>4, HandsOfOne DEF Stages, AtRest
  <1>13. HandTyped'
    BY <1>1, <1>11, <1>12 DEF HandTyped
  <1>14. Producers' \subseteq Producers
    <2>1. ToSet(todo') \subseteq ToSet(todo)
      BY <1>11 DEF ToSet
    <2> QED BY <1>1, <1>5, <1>6, <1>10, <1>12, <2>1 DEF Producers, initVars
  <1>15. /\ orderByPQ' \subseteq Partitions /\ active' \notin orderByPQ'
         /\ \A i \in 1..Len(todo') : todo'[i] \notin orderByPQ'
    <2>1. p # active
      BY <1>5, <1>6 DEF ProducerInv, HandTyped
    <2> QED BY <1>1, <1>10, <1>11, <2>1 DEF ProducerInv, ProducersTyped
  <1>16. ProducersTyped'
    BY <1>1, <1>4, <1>14, <1>15, FewerProducers
    DEF ProducerInv, ProducersTyped, initVars
  <1> QED BY <1>8, <1>9, <1>10, <1>13, <1>16 DEF ProducerInv

-----------------------------------------------------------------------------
(* Splits, and calls that wait *)

LEMMA SplitKeepsProducerInv ==
    ASSUME LockInv, ProducerInv, NEW x \in Partitions, Split(x)
    PROVE  ProducerInv'
  <1>1. /\ x \in live /\ Children[x] # {} /\ Children[x] \subseteq Partitions
        /\ live' = (live \ {x}) \union Children[x]
        /\ UNCHANGED <<valueQuery, initVars, fetchResults, generation, orderByPQ,
                      pc, active, todo>>
    BY PartitionAssumption DEF Split, query, producerVars, holderVars
  <1>2. \A q \in Children[x] : Slots[q] \subseteq Slots[x] /\ Slots[q] # Slots[x]
    BY <1>1, SplitAssumption
  <1>3. PairwiseDisjoint(Children[x])
    BY <1>1, SplitAssumption DEF PairwiseDisjoint, Disjoint
  <1>4. live \subseteq Partitions /\ PairwiseDisjoint(live)
    BY DEF ProducerInv, LiveTyped
  <1>5. LiveTyped'
    <2>1. live' \subseteq Partitions /\ live' # {}
      BY <1>1, <1>4
    <2>2. \A q \in Children[x], r \in live \ {x} : Disjoint(q, r)
      BY <1>1, <1>2, <1>4 DEF PairwiseDisjoint, Disjoint
    <2>3. PairwiseDisjoint(live')
      BY <1>1, <1>3, <1>4, <2>2 DEF PairwiseDisjoint, Disjoint
    <2> QED BY <2>1, <2>3 DEF LiveTyped, PairwiseDisjoint, Disjoint
  <1>6. ASSUME NEW p \in Partitions, Replaced(p)
        PROVE  Replaced(p)'
    <2>1. \/ Disjoint(p, x)
          \/ Slots[x] \subseteq Slots[p] /\ Slots[x] # Slots[p]
      BY <1>1, <1>6 DEF Replaced
    <2>2. ASSUME NEW q \in Children[x]
          PROVE  \/ Disjoint(p, q)
                 \/ Slots[q] \subseteq Slots[p] /\ Slots[q] # Slots[p]
      BY <1>2, <2>1, <2>2 DEF Disjoint
    <2> QED BY <1>1, <1>6, <2>2 DEF Replaced, Disjoint
  <1>7. ASSUME NEW p \in Partitions, p \in live
        PROVE  p \in live' \/ Replaced(p)'
    <2>1. CASE p # x
      BY <1>1, <1>7, <2>1
    <2>2. CASE p = x
      <3>1. \A q \in live \ {x} : Disjoint(p, q)
        BY <1>4, <1>7, <2>2 DEF PairwiseDisjoint
      <3> QED BY <1>1, <1>2, <2>2, <3>1 DEF Replaced, Disjoint
    <2> QED BY <2>1, <2>2
  <1>8. BuffersTyped'
    BY <1>1, <1>6 DEF ProducerInv, BuffersTyped, Buffers
  <1>9. HandTyped'
    BY <1>1, <1>6 DEF ProducerInv, HandTyped, Working
  <1>10. Producers' = Producers /\ Producers \subseteq Partitions
    BY <1>1, ProducersArePartitions DEF ProducerInv, Producers, initVars
  <1>11. ProducersTyped'
    BY <1>1, <1>6, <1>7, <1>10
    DEF ProducerInv, ProducersTyped, PairwiseDisjoint, Disjoint, initVars
  <1>12. \A q \in orderByPQ' : HasItem(q)'
    BY <1>1 DEF ProducerInv, HasItem, Throws
  <1> QED BY <1>5, <1>8, <1>9, <1>11, <1>12 DEF ProducerInv

LEMMA CallKeepsProducerInv ==
    ASSUME LockInv, ProducerInv, NEW c \in Callers, Call(c)
    PROVE  ProducerInv'
  <1>1. /\ UNCHANGED <<live, valueQuery, initVars, fetchResults, generation,
                      orderByPQ, active, todo>>
        /\ pc[c] = "idle"
        /\ \/ pc' = [pc EXCEPT ![c] = "entered"]
           \/ pc' = [pc EXCEPT ![c] = "waiting"]
    BY DEF Call, query, producerVars, holderVars
  <1>2. /\ \A d \in Callers \ {c} : pc'[d] = pc[d]
        /\ pc'[c] \in {"entered", "waiting"}
    BY <1>1 DEF LockInv, LockTyped
  <1>3. Working' = Working
    BY <1>1, <1>2 DEF Working
  <1>4. \A d \in Callers : \A stage \in {"advancing", "repairing"} :
            pc'[d] = stage <=> pc[d] = stage
    BY <1>1, <1>2
  <1>5. HandTyped'
    BY <1>1, <1>3, <1>4 DEF ProducerInv, HandTyped, Replaced
  <1>6. Producers' = Producers
    BY <1>1, <1>4 DEF Producers, initVars
  <1>7. ProducersTyped'
    BY <1>1, <1>6
    DEF ProducerInv, ProducersTyped, PairwiseDisjoint, Disjoint, Replaced, initVars
  <1>8. \A q \in orderByPQ' : HasItem(q)'
    BY <1>1, QueueStays DEF ProducerInv, ProducersTyped
  <1> QED BY <1>1, <1>5, <1>7, <1>8, QueueStays DEF ProducerInv

-----------------------------------------------------------------------------
(* The theorems *)

LEMMA NextItemKeepsProducerInv ==
    ASSUME LockInv, ProducerInv, NEW c \in Callers, nextItem(c)
    PROVE  ProducerInv'
  <1>1. CASE RejectPriorError(c) \/ NoMoreResults(c)
    <2>1. /\ c \in Inside /\ Settle(c)
          /\ UNCHANGED <<live, fetchResults, generation, valueQuery, initVars,
                        orderByPQ>>
      BY <1>1 DEF RejectPriorError, NoMoreResults, Inside, query, producerVars
    <2> QED BY <2>1, SettlingKeepsProducerInv
  <1> QED BY <1>1, TakeItemKeepsProducerInv, AdvanceKeepsProducerInv,
             StartRepairKeepsProducerInv, GetReplacementsKeepsProducerInv,
             PuttingDownKeepsProducerInv, CheckReplacementKeepsProducerInv
          DEF nextItem

\* What every state of a query keeps: producers of parts of the hash space that do
\* not overlap, with what they buffer.
THEOREM ProducerInvariant == Spec => []ProducerInv
  <1>1. Init => ProducerInv
    <2> SUFFICES ASSUME Init PROVE ProducerInv
      OBVIOUS
    <2>1. LiveTyped
      BY PartitionAssumption, RootAssumption
      DEF Init, LiveTyped, PairwiseDisjoint, Disjoint
    <2>2. BuffersTyped
      <3>1. \A p \in Partitions : Len(Pages[p]) \in Nat
        BY PageAssumption
      <3> QED BY <3>1 DEF Init, BuffersTyped, Buffers
    <2>3. HandTyped
      BY DEF Init, HandTyped
    <2>4. Producers = {}
      BY DEF Init, Producers, ToSet
    <2>5. ProducersTyped
      BY <2>4 DEF Init, ProducersTyped, PairwiseDisjoint
    <2> QED BY <2>1, <2>2, <2>3, <2>5 DEF Init, ProducerInv
  <1>2. LockInv /\ ProducerInv /\ [Next]_vars => ProducerInv'
    <2> SUFFICES ASSUME LockInv, ProducerInv, [Next]_vars
                 PROVE  ProducerInv'
      OBVIOUS
    <2>1. CASE UNCHANGED vars
      <3>1. /\ UNCHANGED <<live, valueQuery, initVars, fetchResults, generation,
                          orderByPQ, active, todo, pc>>
        BY <2>1 DEF vars, query, producerVars, holderVars
      <3>2. HandTyped' /\ Producers' = Producers
        BY <3>1 DEF ProducerInv, HandTyped, Working, Replaced, Producers, initVars
      <3>3. ProducersTyped'
        BY <3>1, <3>2 DEF ProducerInv, ProducersTyped, PairwiseDisjoint,
                          Disjoint, Replaced, initVars
      <3>4. \A q \in orderByPQ' : HasItem(q)'
        BY <3>1, QueueStays DEF ProducerInv, ProducersTyped
      <3> QED BY <3>1, <3>2, <3>3, <3>4, QueueStays DEF ProducerInv
    <2> QED BY <2>1, FirstProducers, ConstructorFails, FillUpKeepsProducerInv,
               CallKeepsProducerInv, NextItemKeepsProducerInv,
               SplitKeepsProducerInv DEF Next, Constructor
  <1> QED BY <1>1, <1>2, LockInvariant, PTL DEF Spec

\* Whatever is in the priority queue can be compared and taken.
THEOREM QueueIsReady == Spec => []QueuedProducersHaveItems
  <1>1. ProducerInv => QueuedProducersHaveItems
    BY DEF ProducerInv, HasItem, QueuedProducersHaveItems
  <1> QED BY <1>1, ProducerInvariant, PTL

\* Over all splits, and splits of what replaced a partition, no two producers read
\* the same part of the hash space, and none is queued while it is in hand.
THEOREM SlotsAreReadOnce == Spec => []OneProducerPerSlot
  <1>1. ProducerInv => OneProducerPerSlot
    BY DEF ProducerInv, ProducersTyped, PairwiseDisjoint, Disjoint, ToSet,
           HandTyped, OneProducerPerSlot
  <1> QED BY <1>1, ProducerInvariant, PTL

-----------------------------------------------------------------------------
(* The rows *)

\* The rows of the pages a producer has yet to fetch.
Later(p) == UNION {ToSet(Pages[p][i]) : i \in (generation[p] + 1)..Len(Pages[p])}
Buffered(p) == ToSet(fetchResults[p]) \ {Gone}

Used(p) == generation[p] # 0 \/ fetchResults[p] # <<>>
Holding == \E c \in Callers : pc[c] = "advancing"
MayReread == \E p \in Roots : Children[p] # {}

\* A producer has each row it has not given once, in order if the query is.
RowsOnce ==
    \A p \in Partitions :
        /\ RowsLeft(p) \subseteq RowsOf(p)
        /\ \A i, j \in DOMAIN fetchResults[p] :
               fetchResults[p][i] = fetchResults[p][j] => i = j
        /\ Buffered(p) \intersect Later(p) = {}

RowsSorted ==
    ordered =>
        /\ ListedInOrder
        /\ ~valueQuery
        /\ \A p \in Partitions :
               /\ \A i, j \in DOMAIN fetchResults[p] :
                      i < j => fetchResults[p][i] <= fetchResults[p][j]
               /\ \A x \in Buffered(p), y \in Later(p) : x <= y

\* The live partitions have all rows, and those in the place of a producer's
\* partition have its rows.
LiveHasAll ==
    /\ UNION {RowsOf(q) : q \in live} = Rows
    /\ \A p \in Producers : UNION {RowsOf(q) : q \in ReplacementRanges(p)} = RowsOf(p)

\* Producers begin at the beginning: a partition that had one before is larger
\* than any that overlaps it and has one now.
FreshProducers ==
    /\ phase = "ranges" => \A q \in Partitions : ~Used(q)
    /\ \A q \in Partitions \ Producers : Used(q) =>
           \A p \in Producers :
               Disjoint(p, q) \/ (Slots[p] \subseteq Slots[q] /\ Slots[p] # Slots[q])

\* What a producer does not have any more was delivered or is in hand.
NothingLost ==
    ~err => \A p \in Producers :
                RowsOf(p) \subseteq RowsLeft(p) \union ToSet(delivered) \union {item}

\* The row in hand.
ItemInHand ==
    IF Holding
    THEN /\ ~err
         /\ item \in RowsOf(active) \ RowsLeft(active)
         /\ ordered => \A p \in Producers : \A y \in RowsLeft(p) : item <= y
    ELSE item = None

EndIsFinal ==
    ended => /\ ~err /\ phase = "done" /\ Producers = {}
             /\ \A c \in Callers : pc[c] \in {"idle", "waiting", "entered"}

RowInv ==
    /\ delivered \in Seq(Rows)
    /\ RowsOnce /\ RowsSorted
    /\ LiveHasAll /\ FreshProducers
    /\ NothingLost /\ ItemInHand /\ EndIsFinal
    /\ MayReread \/ (live = Roots /\ Producers \subseteq live)
    /\ ordered \in BOOLEAN /\ err \in BOOLEAN /\ ended \in BOOLEAN

-----------------------------------------------------------------------------
(* Pages and rows *)

LEMMA PagesAreRows ==
    ASSUME NEW p \in Partitions
    PROVE  /\ Pages[p] \in Seq(Seq(Nat)) /\ Len(Pages[p]) \in Nat
           /\ DOMAIN Pages[p] = 1..Len(Pages[p])
           /\ \A i \in 1..Len(Pages[p]) : /\ Pages[p][i] \in Seq(Nat)
                                          /\ ToSet(Pages[p][i]) \subseteq Nat
           /\ RowsOf(p) \subseteq Rows
  <1>1. Pages[p] \in Seq(Seq(Nat))
    BY PageAssumption
  <1>2. \A i \in 1..Len(Pages[p]) : Pages[p][i] \in Seq(Nat)
    BY <1>1
  <1>3. \A i \in 1..Len(Pages[p]) : ToSet(Pages[p][i]) \subseteq Nat
    BY <1>2 DEF ToSet
  <1> QED BY <1>1, <1>2, <1>3 DEF Rows

LEMMA RowsAreNumbers == Rows \subseteq Nat /\ Gone \notin Rows
  <1>1. \A p \in Partitions : RowsOf(p) \subseteq Nat
    BY PagesAreRows DEF RowsOf
  <1> QED BY <1>1, PageAssumption DEF Rows

LEMMA NextPageOfRows ==
    ASSUME NEW p \in Partitions, generation[p] \in 0..Len(Pages[p]),
           ~AllFetched(p)
    PROVE  /\ generation[p] + 1 \in 1..Len(Pages[p])
           /\ NextPage(p) \in Seq(Nat) /\ ToSet(NextPage(p)) \subseteq Nat
           /\ Later(p) = ToSet(NextPage(p)) \union
                  UNION {ToSet(Pages[p][i]) : i \in (generation[p] + 2)..Len(Pages[p])}
           /\ \A x \in ToSet(NextPage(p)) :
                  \A i \in (generation[p] + 2)..Len(Pages[p]) :
                      \A y \in ToSet(Pages[p][i]) :
                          x # y /\ (ListedInOrder => x <= y)
           /\ \A i, j \in DOMAIN NextPage(p) :
                  /\ NextPage(p)[i] = NextPage(p)[j] => i = j
                  /\ i < j /\ ListedInOrder => NextPage(p)[i] <= NextPage(p)[j]
  <1> DEFINE g == generation[p] + 1
  <1>1. /\ Pages[p] \in Seq(Seq(Nat)) /\ Len(Pages[p]) \in Nat
        /\ DOMAIN Pages[p] = 1..Len(Pages[p])
        /\ \A i \in 1..Len(Pages[p]) : Pages[p][i] \in Seq(Nat)
    BY PagesAreRows
  <1>2. g \in 1..Len(Pages[p]) /\ NextPage(p) = Pages[p][g]
    BY <1>1 DEF AllFetched, NextPage
  <1>3. ToSet(NextPage(p)) \subseteq Nat
    BY <1>2, PagesAreRows
  <1>4. Later(p) = ToSet(NextPage(p)) \union
            UNION {ToSet(Pages[p][i]) : i \in (g + 1)..Len(Pages[p])}
    <2>1. g..Len(Pages[p]) = {g} \union (g + 1)..Len(Pages[p])
      BY <1>1, <1>2
    <2> QED BY <1>2, <2>1 DEF Later
  <1>5. ASSUME NEW k \in DOMAIN NextPage(p),
               NEW i \in (g + 1)..Len(Pages[p]), NEW l \in DOMAIN Pages[p][i]
        PROVE  /\ NextPage(p)[k] # Pages[p][i][l]
               /\ ListedInOrder => NextPage(p)[k] <= Pages[p][i][l]
    <2>1. i \in DOMAIN Pages[p] /\ g \in DOMAIN Pages[p] /\ g < i
      BY <1>1, <1>2
    <2>2. NextPage(p)[k] # Pages[p][i][l]
      BY <1>2, <2>1, RowAssumption
    <2>3. ListedInOrder => NextPage(p)[k] <= Pages[p][i][l]
      BY <1>2, <2>1 DEF ListedInOrder
    <2> QED BY <2>2, <2>3
  <1>6. ASSUME NEW i \in DOMAIN NextPage(p), NEW j \in DOMAIN NextPage(p)
        PROVE  /\ NextPage(p)[i] = NextPage(p)[j] => i = j
               /\ i < j /\ ListedInOrder => NextPage(p)[i] <= NextPage(p)[j]
    <2> DEFINE page == NextPage(p)
    <2>1. page = Pages[p][g] /\ g \in DOMAIN Pages[p]
      BY <1>1, <1>2
    <2>2. i \in DOMAIN Pages[p][g] /\ j \in DOMAIN Pages[p][g]
      BY <2>1
    <2> HIDE DEF page, g
    <2>3. Pages[p][g][i] = Pages[p][g][j] => i = j
      BY <2>1, <2>2, RowAssumption, Zenon
    <2>4. i < j /\ ListedInOrder => Pages[p][g][i] <= Pages[p][g][j]
      BY <2>1, <2>2, Zenon DEF ListedInOrder
    <2> QED BY <2>1, <2>3, <2>4 DEF page
  <1>7. generation[p] + 2 = g + 1
    BY <1>1
  <1> HIDE DEF g
  <1>8. \A x \in ToSet(NextPage(p)) : \A i \in (g + 1)..Len(Pages[p]) :
            \A y \in ToSet(Pages[p][i]) : x # y /\ (ListedInOrder => x <= y)
    BY <1>5 DEF ToSet
  <1>9. NextPage(p) \in Seq(Nat)
    BY <1>1, <1>2
  <1> QED BY <1>2, <1>3, <1>4, <1>6, <1>7, <1>8, <1>9 DEF g

\* A round of current() fetches, and gives nothing away.
LEMMA CurrentKeepsRows ==
    ASSUME BuffersTyped, RowsOnce, RowsSorted,
           NEW p \in Partitions, NEW answer \in Answers, Current(p, answer),
           UNCHANGED query
    PROVE  /\ RowsOnce' /\ RowsSorted'
           /\ \A q \in Partitions : /\ RowsLeft(q)' = RowsLeft(q)
                                    /\ Used(q)' => Used(q) \/ q = p
           /\ answer = "end" => RowsLeft(p) = {}
  <1>1. CASE UNCHANGED <<fetchResults, generation>>
    <2>1. \A q \in Partitions : /\ RowsLeft(q)' = RowsLeft(q)
                                /\ Later(q)' = Later(q) /\ Buffered(q)' = Buffered(q)
                                /\ Used(q)' = Used(q)
      BY <1>1 DEF RowsLeft, Later, Buffered, Used
    <2>2. RowsOnce' /\ RowsSorted'
      BY <1>1, <2>1 DEF RowsOnce, RowsSorted, query
    <2>3. answer = "end" => RowsLeft(p) = {}
      <3>1. answer = "end" => fetchResults[p] = <<>> /\ AllFetched(p)
        BY DEF Current, BufferMore
      <3>2. Len(Pages[p]) \in Nat
        BY PagesAreRows
      <3> QED BY <3>1, <3>2 DEF AllFetched, RowsLeft, ToSet
    <2> QED BY <2>1, <2>2, <2>3
  <1>2. CASE /\ answer = "gone"
             /\ fetchResults[p] = <<>>
             /\ fetchResults' = [fetchResults EXCEPT ![p] = <<Gone>>]
             /\ generation' = generation
    <2>1. /\ fetchResults'[p] = <<Gone>>
          /\ \A q \in Partitions \ {p} : fetchResults'[q] = fetchResults[q]
      BY <1>2 DEF BuffersTyped
    <2>2. Buffered(p)' = {} /\ Buffered(p) = {}
      BY <1>2, <2>1 DEF Buffered, ToSet
    <2>3. \A q \in Partitions : /\ Later(q)' = Later(q) /\ Buffered(q)' = Buffered(q)
                                /\ Used(q)' => Used(q) \/ q = p
      BY <1>2, <2>1, <2>2 DEF Later, Buffered, Used
    <2>4. \A q \in Partitions : RowsLeft(q)' = RowsLeft(q)
      BY <2>3 DEF RowsLeft, Later, Buffered
    <2>5. RowsOnce' /\ RowsSorted'
      BY <1>2, <2>1, <2>3, <2>4 DEF RowsOnce, RowsSorted, query
    <2> QED BY <1>2, <2>3, <2>4, <2>5
  <1>3. CASE /\ answer = "more" /\ ~AllFetched(p)
             /\ fetchResults[p] = <<>>
             /\ fetchResults' = [fetchResults EXCEPT ![p] = NextPage(p)]
             /\ generation' = [generation EXCEPT ![p] = @ + 1]
    <2>1. /\ fetchResults'[p] = NextPage(p) /\ generation'[p] = generation[p] + 1
          /\ \A q \in Partitions \ {p} : /\ fetchResults'[q] = fetchResults[q]
                                          /\ generation'[q] = generation[q]
      BY <1>3 DEF BuffersTyped
    <2>2. generation[p] \in 0..Len(Pages[p]) /\ Len(Pages[p]) \in Nat
      BY PagesAreRows DEF BuffersTyped, Buffers
    <2>3. /\ Later(p)' = UNION {ToSet(Pages[p][i]) :
                                    i \in (generation[p] + 2)..Len(Pages[p])}
          /\ Buffered(p)' = ToSet(NextPage(p)) /\ Buffered(p) = {}
      <3>1. Gone \notin ToSet(NextPage(p))
        BY <1>3, <2>2, NextPageOfRows, PageAssumption
      <3>2. generation'[p] + 1 = generation[p] + 2
        BY <2>1, <2>2
      <3> QED BY <1>3, <2>1, <3>1, <3>2 DEF Later, Buffered, ToSet
    <2>4. Later(p) = Buffered(p)' \union Later(p)'
      BY <1>3, <2>2, <2>3, NextPageOfRows
    <2>5. RowsLeft(p)' = RowsLeft(p)
      BY <2>3, <2>4 DEF RowsLeft, Later, Buffered
    <2>6. \A q \in Partitions \ {p} :
              /\ Later(q)' = Later(q) /\ Buffered(q)' = Buffered(q)
              /\ RowsLeft(q)' = RowsLeft(q) /\ Used(q)' = Used(q)
      BY <2>1 DEF Later, Buffered, RowsLeft, Used
    <2>7. \A x \in Buffered(p)', y \in Later(p)' : x # y /\ (ListedInOrder => x <= y)
      BY <1>3, <2>2, <2>3, NextPageOfRows
    <2>8. \A i, j \in DOMAIN fetchResults'[p] :
              /\ fetchResults'[p][i] = fetchResults'[p][j] => i = j
              /\ i < j /\ ListedInOrder => fetchResults'[p][i] <= fetchResults'[p][j]
      BY <1>3, <2>1, <2>2, NextPageOfRows
    <2>9. RowsOnce'
      BY <2>1, <2>5, <2>6, <2>7, <2>8 DEF RowsOnce
    <2>10. RowsSorted'
      BY <2>1, <2>6, <2>7, <2>8 DEF RowsSorted, query
    <2> QED BY <1>3, <2>5, <2>6, <2>9, <2>10
  <1> QED BY <1>1, <1>2, <1>3 DEF Current, BufferMore, producerVars

-----------------------------------------------------------------------------
(* What steps have in common *)

LEMMA ProducerFacts ==
    ASSUME ProducerInv
    PROVE  /\ Producers \subseteq Partitions
           /\ \A p, q \in Producers : p # q => Disjoint(p, q)
           /\ live \subseteq Partitions
  BY ProducersArePartitions
  DEF ProducerInv, ProducersTyped, PairwiseDisjoint, LiveTyped

\* Producers go and none comes.
LEMMA RowsStay ==
    ASSUME ProducerInv, RowInv, live' = live, phase' # "ranges",
           Producers' \subseteq Producers,
           \A q \in Partitions : Used(q)' => Used(q) \/ q \in Producers
    PROVE  /\ LiveHasAll' /\ FreshProducers'
           /\ MayReread \/ (live' = Roots /\ Producers' \subseteq live')
  <1>1. LiveHasAll'
    BY DEF RowInv, LiveHasAll, ReplacementRanges
  <1>2. FreshProducers'
    <2>1. ASSUME NEW q \in Partitions \ Producers', Used(q)', NEW p \in Producers'
          PROVE  \/ Disjoint(p, q)
                 \/ Slots[p] \subseteq Slots[q] /\ Slots[p] # Slots[q]
      <3>1. CASE q \in Producers
        BY <2>1, <3>1, ProducerFacts
      <3>2. CASE q \notin Producers
        BY <2>1, <3>2 DEF RowInv, FreshProducers
      <3> QED BY <3>1, <3>2
    <2> QED BY <2>1 DEF FreshProducers, Disjoint
  <1> QED BY <1>1, <1>2 DEF RowInv

LEMMA NothingLostStays ==
    ASSUME ProducerInv, RowInv, Producers' \subseteq Producers, err => err',
           \A q \in Producers' : RowsLeft(q)' = RowsLeft(q),
           \A x \in Rows : x \in ToSet(delivered) \/ x = item
                               => x \in ToSet(delivered') \/ x = item'
    PROVE  NothingLost'
  <1> SUFFICES ASSUME ~err', NEW p \in Producers'
               PROVE  RowsOf(p) \subseteq
                          RowsLeft(p)' \union ToSet(delivered') \union {item'}
    BY DEF NothingLost
  <1>1. RowsOf(p) \subseteq RowsLeft(p) \union ToSet(delivered) \union {item}
    BY DEF RowInv, NothingLost
  <1>2. RowsOf(p) \subseteq Rows
    BY ProducerFacts, PagesAreRows
  <1> QED BY <1>1, <1>2

\* The row in hand is not with its producer any more, nor with another.
LEMMA ItemIsNowhereElse ==
    ASSUME ProducerInv, RowInv, Holding
    PROVE  /\ item \in Rows /\ item # None /\ ~err /\ ~ended
           /\ active \in Producers
           /\ \A p \in Producers : item \notin RowsLeft(p)
  <1>1. item \in RowsOf(active) \ RowsLeft(active) /\ ~err
    BY DEF RowInv, ItemInHand
  <1>2. active \in Producers
    BY DEF Holding, Producers
  <1>3. ~ended
    BY <1>2 DEF RowInv, EndIsFinal
  <1>4. item \in Rows
    BY <1>1, <1>2, ProducerFacts, PagesAreRows
  <1>5. item # None
    BY <1>4, RowAssumption
  <1>6. ASSUME NEW p \in Producers, p # active
        PROVE  item \notin RowsLeft(p)
    <2>1. RowsOf(p) \intersect RowsOf(active) = {}
      BY <1>2, <1>6, ProducerFacts, RowAssumption DEF Disjoint
    <2>2. RowsLeft(p) \subseteq RowsOf(p)
      BY ProducerFacts DEF RowInv, RowsOnce
    <2> QED BY <1>1, <2>1, <2>2
  <1> QED BY <1>1, <1>2, <1>3, <1>4, <1>5, <1>6

\* A step at which the query fails, and every step after it.
LEMMA FailingStep ==
    ASSUME RowInv, err', ~err => ~ended, UNCHANGED <<ordered, delivered>>
    PROVE  [Results!Next]_(Results!vars)
  <1>1. Outstanding' = {} /\ (err => Outstanding = {})
    BY DEF Outstanding
  <1>2. CASE err
    BY <1>1, <1>2 DEF Results!vars
  <1>3. CASE ~err
    BY <1>1, <1>3 DEF Results!Next, Results!Fail
  <1> QED BY <1>2, <1>3

\* A step that moves rows between the service, producers and hands.
LEMMA QuietStep ==
    ASSUME ~err, ~err', phase # "ranges", phase' # "ranges",
           UNCHANGED <<ordered, delivered, ended, item>>,
           Producers' \subseteq Producers,
           \A q \in Producers' : RowsLeft(q)' = RowsLeft(q),
           \A q \in Producers \ Producers' : RowsLeft(q) = {}
    PROVE  UNCHANGED (Results!vars)
  <1>1. (UNION {RowsLeft(p) : p \in Producers})'
            = UNION {RowsLeft(p) : p \in Producers}
    OBVIOUS
  <1>2. Outstanding' = Outstanding
    BY <1>1 DEF Outstanding
  <1> QED BY <1>2 DEF Results!vars

\* Nobody holds a row.
LEMMA EmptyHandsHoldNothing ==
    ASSUME \A c \in Callers : pc'[c] # "advancing", item' = None
    PROVE  ItemInHand' /\ ~Holding'
  BY DEF ItemInHand, Holding

LEMMA NotHolding ==
    ASSUME RowInv, \A c \in Callers : pc[c] # "advancing"
    PROVE  item = None /\ ~Holding
  BY DEF RowInv, ItemInHand, Holding

LEMMA SameBuffers ==
    ASSUME RowInv, UNCHANGED <<fetchResults, generation, ordered, valueQuery>>
    PROVE  /\ RowsOnce' /\ RowsSorted'
           /\ \A q \in Partitions : RowsLeft(q)' = RowsLeft(q) /\ Used(q)' = Used(q)
  <1>1. \A q \in Partitions : /\ RowsLeft(q)' = RowsLeft(q) /\ Used(q)' = Used(q)
                              /\ Buffered(q)' = Buffered(q) /\ Later(q)' = Later(q)
    BY DEF RowsLeft, Used, Buffered, Later
  <1> QED BY <1>1 DEF RowInv, RowsOnce, RowsSorted

LEMMA UnusedIsWhole ==
    ASSUME NEW q \in Partitions, ~Used(q)
    PROVE  RowsLeft(q) = RowsOf(q)
  <1>1. generation[q] = 0 /\ fetchResults[q] = <<>> /\ ToSet(<<>>) = {}
    BY DEF Used, ToSet
  <1>2. DOMAIN Pages[q] = 1..Len(Pages[q])
    BY PagesAreRows
  <1> QED BY <1>1, <1>2 DEF RowsLeft, RowsOf

\* In its own place there is a live partition and no other.
LEMMA LiveReplacesItself ==
    ASSUME ProducerInv, NEW q \in live
    PROVE  ReplacementRanges(q) = {q}
  <1>1. q \in Partitions /\ Slots[q] # {}
    BY ProducerFacts, SlotsAreThere
  <1>2. \A r \in live : r # q => Slots[r] \intersect Slots[q] = {}
    BY DEF ProducerInv, LiveTyped, PairwiseDisjoint, Disjoint
  <1> QED BY <1>1, <1>2 DEF ReplacementRanges

LEMMA Elements ==
    ASSUME NEW S, NEW s \in Seq(S)
    PROVE  /\ ToSet(s) \subseteq S
           /\ \A x : x \in ToSet(s) <=> \E i \in DOMAIN s : x = s[i]
  BY DEF ToSet

LEMMA HeadAndTail ==
    ASSUME NEW s \in Seq(Partitions), s # <<>>
    PROVE  ToSet(s) = ToSet(Tail(s)) \union {Head(s)}
  <1>1. /\ Len(s) \in Nat \ {0} /\ Head(s) = s[1] /\ DOMAIN s = 1..Len(s)
        /\ DOMAIN Tail(s) = 1..(Len(s) - 1)
        /\ \A i \in 1..(Len(s) - 1) : Tail(s)[i] = s[i + 1]
    OBVIOUS
  <1>2. \A i \in DOMAIN s : i = 1 \/ (i - 1 \in DOMAIN Tail(s) /\ s[i] = Tail(s)[i - 1])
    BY <1>1
  <1>3. \A i \in DOMAIN Tail(s) : i + 1 \in DOMAIN s /\ Tail(s)[i] = s[i + 1]
    BY <1>1
  <1>4. 1 \in DOMAIN s
    BY <1>1
  <1>5. Tail(s) \in Seq(Partitions)
    OBVIOUS
  <1>6. /\ \A x : x \in ToSet(s) <=> \E i \in DOMAIN s : x = s[i]
        /\ \A x : x \in ToSet(Tail(s)) <=> \E i \in DOMAIN Tail(s) : x = Tail(s)[i]
    BY <1>5, Elements
  <1>7. ToSet(s) \subseteq ToSet(Tail(s)) \union {Head(s)}
    BY <1>1, <1>2, <1>6
  <1>8. ToSet(Tail(s)) \union {Head(s)} \subseteq ToSet(s)
    BY <1>1, <1>3, <1>4, <1>6
  <1> QED BY <1>7, <1>8

-----------------------------------------------------------------------------
(* The constructor's task *)

LEMMA GetTargetRangesRows ==
    ASSUME LockInv, ProducerInv, ProducerInv', RowInv, GetTargetRanges
    PROVE  RowInv' /\ [Results!Next]_(Results!vars)
  <1> DEFINE ranges == InRangeOrder(live)
             n == maxDegreeOfParallelism(Len(ranges))
  <1>1. /\ phase = "ranges" /\ phase' = "filling"
        /\ running' = ToSet(SubSeq(ranges, 1, n))
        /\ pending' = SubSeq(ranges, n + 1, Len(ranges))
        /\ UNCHANGED <<live, ordered, valueQuery, fetchResults, generation, orderByPQ,
                      pc, active, item, todo, delivered, err, ended>>
    BY DEF GetTargetRanges, query, producerVars, holderVars
  <1>2. /\ active = None /\ todo = <<>>
        /\ \A d \in Callers : pc[d] \in {"idle", "waiting"}
    BY <1>1, ConstructorIsAlone DEF ProducerInv
  <1>3. item = None /\ item' = None
    BY <1>1, <1>2, NotHolding
  <1>4. ItemInHand' /\ ~Holding'
    BY <1>1, <1>2, <1>3, EmptyHandsHoldNothing
  <1>5. /\ ranges \in Seq(live) /\ Len(ranges) \in Nat
        /\ \A p \in live : \E i \in 1..Len(ranges) : ranges[i] = p
    BY RangesInOrder DEF ProducerInv, LiveTyped
  <1> HIDE DEF ranges
  <1>6. live # {} /\ live \subseteq Partitions
    BY DEF ProducerInv, LiveTyped
  <1>7. Len(ranges) # 0
    BY <1>5, <1>6
  <1>8. n \in 1..Len(ranges)
    BY <1>5, <1>7, SomeStart
  <1> HIDE DEF n
  <1>9. live \subseteq ToSet(SubSeq(ranges, 1, n))
                          \union ToSet(SubSeq(ranges, n + 1, Len(ranges)))
    <2> SUFFICES ASSUME NEW p \in live
                 PROVE  p \in ToSet(SubSeq(ranges, 1, n))
                              \union ToSet(SubSeq(ranges, n + 1, Len(ranges)))
      OBVIOUS
    <2>1. PICK i \in 1..Len(ranges) : ranges[i] = p
      BY <1>5
    <2>2. CASE i <= n
      <3>1. i \in DOMAIN SubSeq(ranges, 1, n) /\ SubSeq(ranges, 1, n)[i] = p
        BY <1>5, <1>8, <2>1, <2>2
      <3> QED BY <3>1 DEF ToSet
    <2>3. CASE i > n
      <3> DEFINE rest == SubSeq(ranges, n + 1, Len(ranges))
      <3>1. i - n \in DOMAIN rest /\ rest[i - n] = p
        BY <1>5, <1>8, <2>1, <2>3
      <3> QED BY <3>1 DEF ToSet
    <2> QED BY <1>5, <1>8, <2>2, <2>3
  <1>10. SubSeq(ranges, 1, n) \in Seq(live)
         /\ SubSeq(ranges, n + 1, Len(ranges)) \in Seq(live)
    <2>1. \A i \in 1..n : i \in 1..Len(ranges)
      BY <1>5, <1>8
    <2>2. \A i \in (n + 1)..Len(ranges) : i \in 1..Len(ranges)
      BY <1>5, <1>8
    <2> QED BY <1>5, <1>8, <2>1, <2>2
  <1>11. Producers' = live
    <2>1. Producers = {}
      BY <1>1 DEF ProducerInv, ProducersTyped
    <2>2. orderByPQ' = {} /\ ToSet(todo') = {}
      BY <1>1, <1>2, <2>1 DEF Producers, ToSet
    <2>3. ~\E c \in Callers : pc'[c] \in {"advancing", "repairing"}
      BY <1>1, <1>2
    <2>4. running' \subseteq live /\ ToSet(pending') \subseteq live
      BY <1>1, <1>10, Elements
    <2> QED BY <1>1, <1>9, <2>2, <2>3, <2>4 DEF Producers
  <1>12. /\ RowsOnce' /\ RowsSorted'
         /\ \A q \in Partitions : RowsLeft(q)' = RowsLeft(q) /\ Used(q)' = Used(q)
    BY <1>1, SameBuffers
  <1>13. \A q \in Partitions : ~Used(q) /\ RowsLeft(q)' = RowsOf(q)
    BY <1>1, <1>12, UnusedIsWhole DEF RowInv, FreshProducers
  <1>14. LiveHasAll'
    <2>1. \A q \in live : ReplacementRanges(q)' = {q}
      BY <1>1, LiveReplacesItself DEF ReplacementRanges
    <2> QED BY <1>1, <1>11, <2>1 DEF RowInv, LiveHasAll
  <1>15. FreshProducers' /\ NothingLost'
    BY <1>1, <1>6, <1>11, <1>12, <1>13 DEF FreshProducers, NothingLost
  <1>16. ~ended
    BY <1>1 DEF RowInv, EndIsFinal
  <1>17. RowInv'
    BY <1>1, <1>4, <1>11, <1>12, <1>14, <1>15, <1>16 DEF RowInv, EndIsFinal
  <1>18. CASE err
    BY <1>1, <1>17, <1>18, FailingStep
  <1>19. CASE ~err
    <2>1. UNION {RowsLeft(q)' : q \in live} = Rows
      <3>1. UNION {RowsLeft(q)' : q \in live} = UNION {RowsOf(q) : q \in live}
        BY <1>6, <1>13
      <3> QED BY <3>1 DEF RowInv, LiveHasAll
    <2>2. Outstanding = Rows
      BY <1>1, <1>19 DEF Outstanding
    <2>3. Outstanding' = Rows
      BY <1>1, <1>3, <1>11, <1>19, <2>1 DEF Outstanding
    <2> QED BY <1>1, <1>17, <2>2, <2>3 DEF Results!vars
  <1> QED BY <1>17, <1>18, <1>19

LEMMA TargetRangesFailRows ==
    ASSUME LockInv, ProducerInv, ProducerInv', RowInv, TargetRangesFail
    PROVE  RowInv' /\ [Results!Next]_(Results!vars)
  <1>1. /\ phase = "ranges" /\ phase' = "done" /\ pc' = Woken(pc) /\ err'
        /\ err' \in BOOLEAN
        /\ UNCHANGED <<live, ordered, valueQuery, fetchResults, generation, orderByPQ,
                      pending, running, active, item, todo, delivered, ended>>
    BY DEF TargetRangesFail, query, holderVars
  <1>2. /\ active = None /\ todo = <<>>
        /\ \A d \in Callers : pc[d] \in {"idle", "waiting"}
    BY <1>1, ConstructorIsAlone DEF ProducerInv
  <1>3. \A d \in Callers : pc'[d] \in AtRest
    BY <1>1, <1>2, WokenAreAtRest DEF LockInv, LockTyped, AtRest
  <1>4. ItemInHand'
    BY <1>1, <1>2, <1>3, NotHolding, EmptyHandsHoldNothing DEF AtRest
  <1>5. Producers' \subseteq Producers
    <2>1. ~\E c \in Callers : pc'[c] \in {"advancing", "repairing"}
      BY <1>3 DEF AtRest
    <2> QED BY <1>1, <2>1 DEF Producers
  <1>6. /\ RowsOnce' /\ RowsSorted'
        /\ \A q \in Partitions : RowsLeft(q)' = RowsLeft(q) /\ Used(q)' = Used(q)
    BY <1>1, SameBuffers
  <1>7. /\ LiveHasAll' /\ FreshProducers'
        /\ MayReread \/ (live' = Roots /\ Producers' \subseteq live')
    BY <1>1, <1>5, <1>6, RowsStay
  <1>8. ~ended
    BY <1>1 DEF RowInv, EndIsFinal
  <1>9. RowInv'
    BY <1>1, <1>4, <1>6, <1>7, <1>8 DEF RowInv, NothingLost, EndIsFinal
  <1> QED BY <1>1, <1>8, <1>9, FailingStep

LEMMA FillUpRows ==
    ASSUME LockInv, ProducerInv, ProducerInv', RowInv,
           NEW p \in Partitions, FillUp(p)
    PROVE  RowInv' /\ [Results!Next]_(Results!vars)
  <1>1. PICK answer \in Answers :
            /\ Current(p, answer)
            /\ \/ answer = "more" /\ UNCHANGED <<initVars, orderByPQ, pc, err>>
               \/ /\ answer # "more"
                  /\ orderByPQ' = Enqueue(p, answer)
                  /\ err' = (err \/ answer \in {"gone", "failed"})
                  /\ _decrementInitiationLock(p)
    BY DEF FillUp
  <1>2. /\ phase = "filling" /\ p \in running
        /\ UNCHANGED <<live, query, ordered, active, item, todo, delivered, ended>>
    BY DEF FillUp, query, holderVars
  <1>3. /\ active = None /\ todo = <<>>
        /\ \A d \in Callers : pc[d] \in {"idle", "waiting"}
    BY <1>2, ConstructorIsAlone DEF ProducerInv
  <1>4. \A d \in Callers : pc'[d] \in AtRest
    <2>1. pc' = pc \/ pc' = Woken(pc)
      BY <1>1 DEF _decrementInitiationLock
    <2> QED BY <1>3, <2>1, WokenAreAtRest DEF LockInv, LockTyped, AtRest
  <1>5. item = None /\ ItemInHand'
    BY <1>2, <1>3, <1>4, NotHolding, EmptyHandsHoldNothing DEF AtRest
  <1>6. /\ RowsOnce' /\ RowsSorted'
        /\ \A q \in Partitions : /\ RowsLeft(q)' = RowsLeft(q)
                                 /\ Used(q)' => Used(q) \/ q = p
        /\ answer = "end" => RowsLeft(p) = {}
    BY <1>1, <1>2, CurrentKeepsRows DEF ProducerInv, RowInv
  <1>7. /\ p \in Producers /\ phase' # "ranges"
        /\ Producers' \subseteq Producers
        /\ answer \in {"row", "more"} => p \in Producers'
        /\ Producers \ {p} \subseteq Producers'
    <2>1. pending \in Seq(Partitions)
      BY DEF ProducerInv, ProducersTyped
    <2>2. /\ ~\E c \in Callers : pc[c] \in {"advancing", "repairing"}
          /\ ~\E c \in Callers : pc'[c] \in {"advancing", "repairing"}
      BY <1>3, <1>4 DEF AtRest
    <2>3. CASE answer = "more"
      BY <1>1, <1>2, <2>2, <2>3 DEF Producers, initVars, _decrementInitiationLock
    <2>4. CASE answer # "more"
      <3>1. /\ running' = (running \ {p}) \union
                             (IF pending = <<>> THEN {} ELSE {Head(pending)})
            /\ pending' = IF pending = <<>> THEN <<>> ELSE Tail(pending)
            /\ phase' \in {"done", "filling"}
            /\ orderByPQ' = IF answer = "row" THEN orderByPQ \union {p} ELSE orderByPQ
        BY <1>1, <2>4 DEF _decrementInitiationLock, Enqueue
      <3>2. ToSet(pending) = ToSet(pending') \union
                                 (IF pending = <<>> THEN {} ELSE {Head(pending)})
        <4>1. CASE pending = <<>>
          BY <3>1, <4>1
        <4>2. CASE pending # <<>>
          BY <2>1, <3>1, <4>2, HeadAndTail
        <4> QED BY <4>1, <4>2
      <3>3. todo' = todo /\ active' = active
        BY <1>2
      <3>4. Producers = orderByPQ \union running \union ToSet(pending) \union ToSet(todo)
        BY <2>2 DEF Producers
      <3>5. Producers' = orderByPQ' \union running' \union ToSet(pending')
                             \union ToSet(todo)
        BY <2>2, <3>3 DEF Producers
      <3> QED BY <1>2, <2>4, <3>1, <3>2, <3>4, <3>5
    <2> QED BY <2>3, <2>4
  <1>8. /\ LiveHasAll' /\ FreshProducers'
        /\ MayReread \/ (live' = Roots /\ Producers' \subseteq live')
    BY <1>2, <1>6, <1>7, RowsStay
  <1>9. (err => err') /\ err' \in BOOLEAN
    <2>1. err \in BOOLEAN
      BY DEF RowInv
    <2>2. (err' = err) \/ (err' = (err \/ answer \in {"gone", "failed"}))
      BY <1>1
    <2> QED BY <2>1, <2>2
  <1>10. NothingLost'
    BY <1>2, <1>6, <1>7, <1>9, NothingLostStays, ProducerFacts
  <1>11. ~ended
    BY <1>2 DEF RowInv, EndIsFinal
  <1>12. RowInv'
    BY <1>2, <1>5, <1>6, <1>8, <1>9, <1>10, <1>11 DEF RowInv, EndIsFinal
  <1>13. CASE err'
    BY <1>2, <1>11, <1>12, <1>13, FailingStep
  <1>14. CASE ~err'
    <2>1. answer \in {"row", "more", "end"}
      BY <1>1, <1>14 DEF Answers
    <2>2. \A q \in Producers \ Producers' : RowsLeft(q) = {}
      BY <1>6, <1>7, <2>1
    <2>3. \A q \in Producers' : RowsLeft(q)' = RowsLeft(q)
      BY <1>6, <1>7, ProducerFacts
    <2> QED BY <1>2, <1>7, <1>9, <1>12, <1>14, <2>2, <2>3, QuietStep
  <1> QED BY <1>12, <1>13, <1>14

-----------------------------------------------------------------------------
(* Steps that move no row, and steps at which the query fails *)

LEMMA RowsInPlace ==
    ASSUME ProducerInv, RowInv,
           UNCHANGED <<live, ordered, valueQuery, phase, fetchResults, generation,
                      delivered, item, err, ended>>,
           Producers' = Producers,
           Holding' <=> Holding, Holding => active' = active,
           ended => \A c \in Callers : pc'[c] \in AtRest
    PROVE  RowInv' /\ [Results!Next]_(Results!vars)
  <1>1. /\ RowsOnce' /\ RowsSorted'
        /\ \A q \in Partitions : RowsLeft(q)' = RowsLeft(q) /\ Used(q)' = Used(q)
    BY SameBuffers
  <1>2. Producers \subseteq Partitions
    BY ProducerFacts
  <1>3. LiveHasAll'
    BY DEF RowInv, LiveHasAll, ReplacementRanges
  <1>4. FreshProducers'
    BY <1>1 DEF RowInv, FreshProducers, Disjoint
  <1>5. NothingLost'
    BY <1>1, <1>2 DEF RowInv, NothingLost
  <1>6. ItemInHand'
    <2>1. CASE Holding
      <3>1. active \in Partitions
        BY <1>2, <2>1 DEF Holding, Producers
      <3> QED BY <1>1, <1>2, <2>1, <3>1 DEF RowInv, ItemInHand
    <2>2. CASE ~Holding
      BY <2>2 DEF RowInv, ItemInHand
    <2> QED BY <2>1, <2>2
  <1>7. EndIsFinal'
    BY DEF RowInv, EndIsFinal, AtRest
  <1>8. RowInv'
    BY <1>1, <1>3, <1>4, <1>5, <1>6, <1>7 DEF RowInv
  <1>9. (UNION {RowsLeft(p) : p \in Producers})'
            = UNION {RowsLeft(p) : p \in Producers}
    BY <1>1, <1>2
  <1>10. UNCHANGED (Results!vars)
    BY <1>9 DEF Outstanding, Results!vars
  <1> QED BY <1>8, <1>10

LEMMA RowsAfterFailure ==
    ASSUME ProducerInv, RowInv, err', err' \in BOOLEAN, ~ended,
           UNCHANGED <<live, ordered, delivered, ended>>,
           RowsOnce', RowsSorted', ItemInHand', phase' # "ranges",
           Producers' \subseteq Producers,
           \A q \in Partitions : Used(q)' => Used(q) \/ q \in Producers
    PROVE  RowInv' /\ [Results!Next]_(Results!vars)
  <1>1. /\ LiveHasAll' /\ FreshProducers'
        /\ MayReread \/ (live' = Roots /\ Producers' \subseteq live')
    BY RowsStay
  <1>2. RowInv'
    BY <1>1 DEF RowInv, NothingLost, EndIsFinal
  <1> QED BY <1>2, FailingStep

-----------------------------------------------------------------------------
(* nextItem *)

LEMMA CallRows ==
    ASSUME LockInv, ProducerInv, RowInv, NEW c \in Callers, Call(c)
    PROVE  RowInv' /\ [Results!Next]_(Results!vars)
  <1>1. /\ UNCHANGED <<live, ordered, valueQuery, fetchResults, generation, item,
                      phase, running, pending, orderByPQ, active, todo, delivered,
                      err, ended>>
        /\ pc[c] = "idle"
        /\ \/ pc' = [pc EXCEPT ![c] = "entered"]
           \/ pc' = [pc EXCEPT ![c] = "waiting"]
    BY DEF Call, query, initVars, producerVars, holderVars
  <1>2. /\ \A d \in Callers \ {c} : pc'[d] = pc[d]
        /\ pc'[c] \in {"entered", "waiting"}
    BY <1>1 DEF LockInv, LockTyped
  <1>3. \A d \in Callers : \A stage \in {"advancing", "repairing"} :
            pc'[d] = stage <=> pc[d] = stage
    BY <1>1, <1>2
  <1>4. Producers' = Producers /\ (Holding' <=> Holding)
    BY <1>1, <1>3 DEF Producers, Holding
  <1>5. ended => \A d \in Callers : pc'[d] \in AtRest
    BY <1>2 DEF RowInv, EndIsFinal, AtRest
  <1> QED BY <1>1, <1>4, <1>5, RowsInPlace

\* Who has come in has no row in hand.
LEMMA EnteredHoldsNothing ==
    ASSUME LockInv, ProducerInv, RowInv, NEW c \in Callers, pc[c] = "entered"
    PROVE  /\ c \in Inside /\ item = None /\ ~Holding
           /\ active = None /\ todo = <<>> /\ running = {} /\ pending = <<>>
           /\ phase = "done" /\ Producers = orderByPQ
           /\ \A d \in Callers : pc[d] \in AtRest
  <1>1. /\ c \in Inside /\ phase = "done"
        /\ active = None /\ todo = <<>>
        /\ \A d \in Callers : pc[d] \in AtRest
    BY EnteredHands DEF ProducerInv
  <1>2. item = None /\ ~Holding
    BY <1>1, NotHolding DEF AtRest
  <1>3. running = {} /\ pending = <<>>
    BY <1>1 DEF ProducerInv, ProducersTyped
  <1>4. Producers = orderByPQ
    BY <1>1, <1>3 DEF Producers, AtRest, ToSet
  <1> QED BY <1>1, <1>2, <1>3, <1>4

LEMMA SettledHoldsNothing ==
    ASSUME LockInv, NEW c \in Inside, Settle(c),
           running' = {}, pending' = <<>>
    PROVE  /\ item' = None /\ ~Holding' /\ ItemInHand'
           /\ Producers' = orderByPQ'
           /\ \A d \in Callers : pc'[d] \in AtRest
  <1>1. /\ \A d \in Callers : pc'[d] \in AtRest
        /\ active' = None /\ todo' = <<>> /\ item' = None
    BY SettledIsAtRest DEF Settle
  <1>2. ItemInHand' /\ ~Holding'
    BY <1>1, EmptyHandsHoldNothing DEF AtRest
  <1>3. Producers' = orderByPQ'
    BY <1>1 DEF Producers, AtRest, ToSet
  <1> QED BY <1>1, <1>2, <1>3

LEMMA RejectPriorErrorRows ==
    ASSUME LockInv, ProducerInv, RowInv, NEW c \in Callers, RejectPriorError(c)
    PROVE  RowInv' /\ [Results!Next]_(Results!vars)
  <1>1. /\ pc[c] = "entered" /\ Settle(c)
        /\ UNCHANGED <<live, ordered, valueQuery, fetchResults, generation,
                      phase, running, pending, orderByPQ, delivered, err, ended>>
    BY DEF RejectPriorError, query, initVars, producerVars
  <1>2. /\ c \in Inside /\ item = None /\ ~Holding /\ Producers = orderByPQ
        /\ running = {} /\ pending = <<>>
    BY <1>1, EnteredHoldsNothing
  <1>3. /\ item' = None /\ ~Holding' /\ Producers' = orderByPQ'
        /\ \A d \in Callers : pc'[d] \in AtRest
    BY <1>1, <1>2, SettledHoldsNothing
  <1> QED BY <1>1, <1>2, <1>3, RowsInPlace

\* The end is reported when no producer is left and no row is in hand: every row
\* was handed over.
LEMMA NoMoreResultsRows ==
    ASSUME LockInv, ProducerInv, RowInv, NEW c \in Callers, NoMoreResults(c)
    PROVE  RowInv' /\ [Results!Next]_(Results!vars)
  <1>1. /\ pc[c] = "entered" /\ Settle(c) /\ ~err /\ orderByPQ = {} /\ ended'
        /\ ended' = TRUE
        /\ UNCHANGED <<live, ordered, valueQuery, fetchResults, generation,
                      phase, running, pending, orderByPQ, delivered, err>>
    BY DEF NoMoreResults, query, initVars, producerVars
  <1>2. /\ c \in Inside /\ item = None /\ ~Holding /\ Producers = {}
        /\ running = {} /\ pending = <<>> /\ phase = "done"
    BY <1>1, EnteredHoldsNothing
  <1>3. /\ item' = None /\ ItemInHand' /\ Producers' = {}
        /\ \A d \in Callers : pc'[d] \in AtRest
    BY <1>1, <1>2, SettledHoldsNothing
  <1>4. /\ RowsOnce' /\ RowsSorted'
        /\ \A q \in Partitions : RowsLeft(q)' = RowsLeft(q) /\ Used(q)' = Used(q)
    BY <1>1, SameBuffers
  <1>5. /\ LiveHasAll' /\ FreshProducers'
        /\ MayReread \/ (live' = Roots /\ Producers' \subseteq live')
    BY <1>1, <1>2, <1>3, <1>4, RowsStay
  <1>6. RowInv'
    BY <1>1, <1>2, <1>3, <1>4, <1>5
    DEF RowInv, NothingLost, EndIsFinal, AtRest
  <1>7. Outstanding = {} /\ Outstanding' = {}
    BY <1>1, <1>2, <1>3 DEF Outstanding
  <1>8. [Results!Next]_(Results!vars)
    <2>1. CASE ended
      BY <1>1, <1>7, <2>1 DEF Results!vars
    <2>2. CASE ~ended
      BY <1>1, <1>7, <2>2 DEF Results!Next, Results!End
    <2> QED BY <2>1, <2>2
  <1> QED BY <1>6, <1>8

LEMMA StartRepairRows ==
    ASSUME LockInv, ProducerInv, RowInv, NEW c \in Callers, StartRepair(c)
    PROVE  RowInv' /\ [Results!Next]_(Results!vars)
  <1>1. PICK p \in orderByPQ : orderByPQ' = orderByPQ \ {p} /\ active' = p
    BY DEF StartRepair
  <1>2. /\ pc[c] = "entered" /\ pc' = [pc EXCEPT ![c] = "repairing"]
        /\ UNCHANGED <<live, ordered, valueQuery, fetchResults, generation, item,
                      phase, running, pending, todo, delivered, err, ended>>
    BY DEF StartRepair, query, initVars, producerVars
  <1>3. /\ c \in Inside /\ todo = <<>> /\ running = {} /\ pending = <<>>
        /\ Producers = orderByPQ /\ ~Holding
    BY <1>2, EnteredHoldsNothing
  <1>4. /\ \A d \in Callers \ {c} : pc'[d] \in {"idle", "waiting"}
        /\ pc'[c] = "repairing"
    BY <1>2, <1>3, HandsOfOne DEF Stages
  <1>5. ~Holding'
    BY <1>4 DEF Holding
  <1>6. Producers' = Producers
    BY <1>1, <1>2, <1>3, <1>4 DEF Producers, ToSet
  <1>7. ~ended
    BY <1>3 DEF RowInv, EndIsFinal
  <1> QED BY <1>2, <1>3, <1>5, <1>6, <1>7, RowsInPlace

LEMMA ReplacementsFailRows ==
    ASSUME LockInv, ProducerInv, RowInv, NEW c \in Callers, ReplacementsFail(c)
    PROVE  RowInv' /\ [Results!Next]_(Results!vars)
  <1>1. /\ pc[c] = "repairing" /\ pc' = [pc EXCEPT ![c] = "idle"]
        /\ err' /\ err' = TRUE /\ active' = None
        /\ UNCHANGED <<live, ordered, valueQuery, fetchResults, generation, item,
                      phase, running, pending, orderByPQ, todo, delivered, ended>>
    BY DEF ReplacementsFail, query, initVars
  <1>2. /\ c \in Inside /\ phase = "done"
        /\ \A d \in Callers \ {c} : pc[d] \in {"idle", "waiting"}
    BY <1>1, HolderIsAlone DEF Inside
  <1>3. item = None
    BY <1>1, <1>2, NotHolding
  <1>4. \A d \in Callers : pc'[d] \in AtRest
    BY <1>1, <1>2 DEF LockInv, LockTyped, AtRest
  <1>5. ItemInHand'
    BY <1>1, <1>3, <1>4, EmptyHandsHoldNothing DEF AtRest
  <1>6. Producers' \subseteq Producers
    <2>1. ~\E d \in Callers : pc'[d] \in {"advancing", "repairing"}
      BY <1>4 DEF AtRest
    <2> QED BY <1>1, <2>1 DEF Producers
  <1>7. /\ RowsOnce' /\ RowsSorted'
        /\ \A q \in Partitions : Used(q)' = Used(q)
    BY <1>1, SameBuffers
  <1>8. ~ended
    BY <1>1 DEF RowInv, EndIsFinal
  <1> QED BY <1>1, <1>2, <1>5, <1>6, <1>7, <1>8, RowsAfterFailure

LEMMA ReexecuteRows ==
    ASSUME LockInv, ProducerInv, RowInv, NEW c \in Callers, Reexecute(c)
    PROVE  RowInv' /\ [Results!Next]_(Results!vars)
  <1>1. /\ pc[c] = "checking" /\ todo = <<>>
        /\ UNCHANGED <<live, ordered, valueQuery, fetchResults, generation, item,
                      phase, running, pending, orderByPQ, todo, delivered, err, ended>>
    BY DEF Reexecute, query, initVars, producerVars
  <1>2. /\ c \in Inside
        /\ \A d \in Callers \ {c} : pc[d] \in {"idle", "waiting"}
    BY <1>1, HolderIsAlone DEF Inside
  <1>3. \A d \in Callers : pc'[d] \in AtRest
    <2>1. pc \in [Callers -> Stages]
      BY DEF LockInv, LockTyped
    <2>2. CASE waiters = <<>>
      BY <1>2, <2>1, <2>2 DEF Reexecute, AtRest
    <2>3. CASE waiters # <<>>
      <3>1. Head(waiters) \in Callers
        BY <2>3 DEF LockInv, LockTyped
      <3>2. pc' = [pc EXCEPT ![c] = "waiting", ![Head(waiters)] = "entered"]
        BY <2>3 DEF Reexecute
      <3> QED BY <1>2, <2>1, <3>1, <3>2 DEF AtRest
    <2> QED BY <2>2, <2>3
  <1>4. ~\E d \in Callers : pc[d] \in {"advancing", "repairing"}
    BY <1>1, <1>2
  <1>5. ~\E d \in Callers : pc'[d] \in {"advancing", "repairing"}
    BY <1>3 DEF AtRest
  <1>6. Producers' = Producers /\ ~Holding /\ ~Holding'
    BY <1>1, <1>4, <1>5 DEF Producers, Holding
  <1> QED BY <1>1, <1>3, <1>6, RowsInPlace

LEMMA CheckReplacementRows ==
    ASSUME LockInv, ProducerInv, RowInv, NEW c \in Callers, CheckReplacement(c)
    PROVE  RowInv' /\ [Results!Next]_(Results!vars)
  <1>1. PICK answer \in Answers :
            /\ Current(Head(todo), answer)
            /\ todo' = IF answer = "more" THEN todo ELSE Tail(todo)
            /\ orderByPQ' = Enqueue(Head(todo), answer)
            /\ err' = (err \/ answer \in {"gone", "failed"})
    BY DEF CheckReplacement
  <1>2. /\ pc[c] = "checking" /\ todo # <<>>
        /\ UNCHANGED <<live, ordered, valueQuery, query, phase, running, pending,
                      active, item, delivered, ended>>
    BY DEF CheckReplacement, query, initVars
  <1>3. PICK stage \in {"stuck", "checking"} : pc' = [pc EXCEPT ![c] = stage]
    BY DEF CheckReplacement
  <1>4. /\ c \in Inside /\ phase = "done"
        /\ \A d \in Callers \ {c} : pc[d] \in {"idle", "waiting"}
    BY <1>2, HolderIsAlone DEF Inside
  <1>5. /\ ~\E d \in Callers : pc[d] \in {"advancing", "repairing"}
        /\ ~\E d \in Callers : pc'[d] \in {"advancing", "repairing"}
    <2>1. pc \in [Callers -> Stages]
      BY DEF LockInv, LockTyped
    <2> QED BY <1>2, <1>3, <1>4, <2>1
  <1>6. item = None /\ ItemInHand'
    BY <1>2, <1>5, NotHolding, EmptyHandsHoldNothing
  <1>7. todo \in Seq(Partitions)
    BY DEF ProducerInv, HandTyped
  <1>8. ToSet(todo) = ToSet(Tail(todo)) \union {Head(todo)}
    BY <1>2, <1>7, HeadAndTail
  <1>9. PICK p \in Partitions : p = Head(todo)
    BY <1>2, <1>7
  <1>10. /\ p \in Producers /\ Producers' \subseteq Producers
         /\ answer \in {"row", "more"} => p \in Producers'
         /\ Producers \ {p} \subseteq Producers'
    <2>1. Producers = orderByPQ \union running \union ToSet(pending) \union ToSet(todo)
      BY <1>5 DEF Producers
    <2>2. Producers' = orderByPQ' \union running \union ToSet(pending)
                           \union ToSet(todo')
      BY <1>2, <1>5 DEF Producers
    <2>3. orderByPQ' = IF answer = "row" THEN orderByPQ \union {p} ELSE orderByPQ
      BY <1>1, <1>9 DEF Enqueue
    <2>4. CASE answer = "more"
      BY <1>1, <1>8, <1>9, <2>1, <2>2, <2>3, <2>4
    <2>5. CASE answer # "more"
      <3>1. todo' = Tail(todo)
        BY <1>1, <2>5
      <3> QED BY <1>8, <1>9, <2>1, <2>2, <2>3, <2>5, <3>1
    <2> QED BY <2>4, <2>5
  <1>11. /\ RowsOnce' /\ RowsSorted'
         /\ \A q \in Partitions : /\ RowsLeft(q)' = RowsLeft(q)
                                  /\ Used(q)' => Used(q) \/ q = p
         /\ answer = "end" => RowsLeft(p) = {}
    BY <1>1, <1>2, <1>9, CurrentKeepsRows DEF ProducerInv, RowInv
  <1>12. /\ LiveHasAll' /\ FreshProducers'
         /\ MayReread \/ (live' = Roots /\ Producers' \subseteq live')
    BY <1>2, <1>4, <1>10, <1>11, RowsStay
  <1>13. (err => err') /\ err' \in BOOLEAN
    <2>1. err \in BOOLEAN
      BY DEF RowInv
    <2> QED BY <1>1, <2>1
  <1>14. NothingLost'
    BY <1>2, <1>10, <1>11, <1>13, NothingLostStays, ProducerFacts
  <1>15. ~ended
    BY <1>10 DEF RowInv, EndIsFinal
  <1>16. RowInv'
    BY <1>2, <1>6, <1>11, <1>12, <1>13, <1>14, <1>15 DEF RowInv, EndIsFinal
  <1>17. CASE err'
    BY <1>2, <1>15, <1>16, <1>17, FailingStep
  <1>18. CASE ~err'
    <2>1. answer \in {"row", "more", "end"}
      BY <1>1, <1>18 DEF Answers
    <2>2. \A q \in Producers \ Producers' : RowsLeft(q) = {}
      BY <1>10, <1>11, <2>1
    <2>3. \A q \in Producers' : RowsLeft(q)' = RowsLeft(q)
      BY <1>10, <1>11, ProducerFacts
    <2> QED BY <1>2, <1>4, <1>10, <1>13, <1>16, <1>18, <2>2, <2>3, QuietStep
  <1> QED BY <1>17, <1>18

\* Who looks at what follows its row is alone with the queue.
LEMMA AdvancingProducers ==
    ASSUME LockInv, ProducerInv, NEW c \in Callers, pc[c] = "advancing"
    PROVE  /\ c \in Inside /\ phase = "done" /\ running = {} /\ pending = <<>>
           /\ todo = <<>> /\ active \in Partitions
           /\ Producers = orderByPQ \union {active}
  <1>1. /\ c \in Inside /\ phase = "done"
    BY HolderIsAlone DEF Inside
  <1>2. todo = <<>> /\ active \in Partitions
    BY DEF ProducerInv, HandTyped
  <1>3. running = {} /\ pending = <<>>
    BY <1>1 DEF ProducerInv, ProducersTyped
  <1> QED BY <1>1, <1>2, <1>3 DEF Producers, ToSet

\* The row in hand is handed over: nothing outstanding is smaller, and nobody has
\* it any more.
LEMMA AdvanceRows ==
    ASSUME LockInv, ProducerInv, RowInv, NEW c \in Callers, Advance(c)
    PROVE  RowInv' /\ [Results!Next]_(Results!vars)
  <1>1. PICK answer \in Answers :
            /\ Current(active, answer)
            /\ IF answer = "more"
               THEN UNCHANGED <<orderByPQ, err, pc, active, item, todo, delivered>>
               ELSE /\ orderByPQ' = PutBack(answer)
                    /\ err' = (err \/ answer = "failed")
                    /\ delivered' = IF answer = "failed" THEN delivered
                                    ELSE Append(delivered, item)
                    /\ Settle(c)
    BY DEF Advance, holderVars
  <1>2. /\ pc[c] = "advancing"
        /\ UNCHANGED <<live, ordered, valueQuery, query, phase, running, pending, ended>>
    BY DEF Advance, query, initVars
  <1>3. /\ c \in Inside /\ phase = "done" /\ running = {} /\ pending = <<>>
        /\ todo = <<>> /\ active \in Partitions
        /\ Producers = orderByPQ \union {active}
    BY <1>2, AdvancingProducers
  <1>4. Holding
    BY <1>2 DEF Holding
  <1>5. /\ item \in Rows /\ item # None /\ ~err /\ ~ended
        /\ \A p \in Producers : item \notin RowsLeft(p)
    BY <1>4, ItemIsNowhereElse
  <1>6. PICK p \in Partitions : p = active
    BY <1>3
  <1>7. /\ RowsOnce' /\ RowsSorted'
        /\ \A q \in Partitions : /\ RowsLeft(q)' = RowsLeft(q)
                                 /\ Used(q)' => Used(q) \/ q \in Producers
        /\ answer = "end" => RowsLeft(active) = {}
    BY <1>1, <1>2, <1>3, <1>6, CurrentKeepsRows DEF ProducerInv, RowInv
  <1>8. Producers \subseteq Partitions
    BY ProducerFacts
  <1>9. CASE answer = "more"
    <2>1. UNCHANGED <<orderByPQ, err, pc, active, item, todo, delivered>>
      BY <1>1, <1>9
    <2>2. Producers' = Producers /\ (Holding' <=> Holding)
      BY <1>2, <2>1 DEF Producers, Holding
    <2>3. /\ LiveHasAll' /\ FreshProducers'
          /\ MayReread \/ (live' = Roots /\ Producers' \subseteq live')
      BY <1>2, <1>3, <1>7, <2>2, RowsStay
    <2>4. NothingLost'
      BY <1>7, <1>8, <2>1, <2>2, NothingLostStays
    <2>5. ItemInHand'
      BY <1>3, <1>4, <1>2, <1>7, <1>8, <2>1, <2>2 DEF RowInv, ItemInHand
    <2>6. RowInv'
      BY <1>2, <1>5, <1>7, <2>1, <2>3, <2>4, <2>5 DEF RowInv, EndIsFinal
    <2> QED BY <1>2, <1>3, <1>5, <1>7, <1>8, <2>1, <2>2, <2>6, QuietStep
  <1>10. ASSUME answer # "more"
         PROVE  /\ orderByPQ' = PutBack(answer) /\ Settle(c)
                /\ item' = None /\ ItemInHand'
                /\ Producers' = orderByPQ' /\ Producers' \subseteq Producers
    <2>1. orderByPQ' = PutBack(answer) /\ Settle(c)
      BY <1>1, <1>10
    <2>2. /\ item' = None /\ ItemInHand' /\ Producers' = orderByPQ'
      BY <1>2, <1>3, <2>1, SettledHoldsNothing
    <2> QED BY <1>3, <2>1, <2>2 DEF PutBack
  <1>11. CASE answer = "failed"
    <2>1. err' /\ err' = TRUE /\ delivered' = delivered
      BY <1>1, <1>11
    <2> QED BY <1>2, <1>3, <1>5, <1>7, <1>10, <1>11, <2>1, RowsAfterFailure
  <1>12. CASE answer \in {"row", "gone", "end"}
    <2>1. ~err' /\ err' = FALSE /\ delivered' = Append(delivered, item)
      BY <1>1, <1>5, <1>12
    <2>2. /\ \A q \in Producers' : RowsLeft(q)' = RowsLeft(q)
          /\ \A q \in Producers \ Producers' : RowsLeft(q) = {}
      BY <1>3, <1>7, <1>8, <1>10, <1>12 DEF PutBack
    <2>3. /\ LiveHasAll' /\ FreshProducers'
          /\ MayReread \/ (live' = Roots /\ Producers' \subseteq live')
      BY <1>2, <1>3, <1>7, <1>10, <1>12, RowsStay
    <2>4. delivered \in Seq(Rows) /\ delivered' \in Seq(Rows)
      BY <1>5, <2>1 DEF RowInv
    <2>5. ToSet(delivered') = ToSet(delivered) \union {item}
      <3>1. /\ Len(delivered) \in Nat /\ DOMAIN delivered = 1..Len(delivered)
            /\ DOMAIN delivered' = 1..(Len(delivered) + 1)
            /\ \A i \in 1..Len(delivered) : delivered'[i] = delivered[i]
            /\ delivered'[Len(delivered) + 1] = item
        BY <2>1, <2>4
      <3> QED BY <3>1 DEF ToSet
    <2>6. NothingLost'
      BY <1>10, <1>12, <2>1, <2>2, <2>5, <1>5, NothingLostStays
    <2>7. RowInv'
      BY <1>2, <1>5, <1>7, <1>10, <1>12, <2>1, <2>3, <2>4, <2>6
      DEF RowInv, EndIsFinal
    <2>8. UNION {RowsLeft(q)' : q \in Producers'}
              = UNION {RowsLeft(q) : q \in Producers}
      BY <1>10, <1>12, <2>2
    <2>9. Outstanding = (UNION {RowsLeft(q) : q \in Producers}) \union {item}
      BY <1>3, <1>5 DEF Outstanding
    <2>10. Outstanding' = UNION {RowsLeft(q) : q \in Producers}
      BY <1>2, <1>3, <1>10, <1>12, <2>1, <2>8 DEF Outstanding
    <2>11. item \notin UNION {RowsLeft(q) : q \in Producers}
      BY <1>5
    <2>12. Outstanding' = Outstanding \ {item} /\ item \in Outstanding
      BY <2>9, <2>10, <2>11
    <2>13. ordered => \A other \in Outstanding : item <= other
      <3>1. item \in Nat
        BY <1>5, RowsAreNumbers
      <3>2. ordered => \A q \in Producers : \A y \in RowsLeft(q) : item <= y
        BY <1>4 DEF RowInv, ItemInHand
      <3> QED BY <2>9, <3>1, <3>2
    <2>14. Results!Deliver
      BY <1>2, <1>5, <2>1, <2>12, <2>13 DEF Results!Deliver
    <2> QED BY <2>7, <2>14 DEF Results!Next
  <1> QED BY <1>9, <1>11, <1>12 DEF Answers

\* What is at the head of a buffer is the smallest row its producer has left.
LEMMA HeadIsLeast ==
    ASSUME ProducerInv, RowInv, NEW q \in Partitions,
           fetchResults[q] # <<>>, ~gotSplit(q)
    PROVE  /\ fetchResults[q] \in Seq(Nat)
           /\ Head(fetchResults[q]) \in RowsLeft(q)
           /\ ordered => \A y \in RowsLeft(q) : Head(fetchResults[q]) <= y
  <1> DEFINE s == fetchResults[q]
  <1>1. s \in Seq(Nat)
    BY DEF ProducerInv, BuffersTyped, Buffers, gotSplit
  <1>2. /\ Len(s) \in Nat \ {0} /\ Head(s) = s[1] /\ DOMAIN s = 1..Len(s)
        /\ 1 \in DOMAIN s /\ \A i \in DOMAIN s : s[i] \in Nat
    BY <1>1
  <1>3. Buffered(q) = {s[i] : i \in DOMAIN s}
    BY <1>2, PageAssumption DEF Buffered, ToSet
  <1>4. Head(s) \in Buffered(q)
    BY <1>2, <1>3
  <1>5. RowsLeft(q) = Buffered(q) \union Later(q)
    BY DEF RowsLeft, Buffered, Later
  <1>6. ASSUME ordered, NEW y \in Buffered(q)
        PROVE  Head(s) <= y
    <2>1. PICK j \in DOMAIN s : y = s[j]
      BY <1>3
    <2>2. \A i \in DOMAIN s : 1 < i => s[1] <= s[i]
      BY <1>2, <1>6 DEF RowInv, RowsSorted
    <2>3. j = 1 \/ 1 < j
      BY <1>2
    <2> HIDE DEF s
    <2> QED BY <1>2, <2>1, <2>2, <2>3
  <1>7. ordered => \A y \in Later(q) : Head(s) <= y
    BY <1>4 DEF RowInv, RowsSorted
  <1> QED BY <1>1, <1>4, <1>5, <1>6, <1>7

\* A row is taken off a buffer.
LEMMA ShiftTakesHead ==
    ASSUME ProducerInv, RowInv, NEW p \in Partitions,
           fetchResults[p] # <<>>, ~gotSplit(p),
           fetchResults' = [fetchResults EXCEPT ![p] = Tail(@)],
           UNCHANGED <<generation, ordered, valueQuery>>
    PROVE  /\ RowsOnce' /\ RowsSorted'
           /\ \A q \in Partitions \ {p} : /\ RowsLeft(q)' = RowsLeft(q)
                                          /\ Used(q)' = Used(q)
           /\ RowsLeft(p)' = RowsLeft(p) \ {Head(fetchResults[p])}
           /\ Head(fetchResults[p]) \in RowsLeft(p)
  <1> DEFINE s == fetchResults[p]
             t == Tail(s)
  <1>1. s \in Seq(Nat) /\ s # <<>> /\ t \in Seq(Nat)
    BY HeadIsLeast
  <1>2. /\ Len(s) \in Nat \ {0} /\ Head(s) = s[1] /\ DOMAIN s = 1..Len(s)
        /\ DOMAIN t = 1..(Len(s) - 1)
        /\ \A i \in DOMAIN t : t[i] = s[i + 1] /\ i + 1 \in DOMAIN s /\ i + 1 # 1
        /\ \A i \in DOMAIN s : i = 1 \/ (i - 1 \in DOMAIN t /\ s[i] = t[i - 1])
        /\ 1 \in DOMAIN s /\ \A i \in DOMAIN s : s[i] \in Nat
    BY <1>1
  <1>3. /\ fetchResults'[p] = t
        /\ \A q \in Partitions \ {p} : fetchResults'[q] = fetchResults[q]
    BY DEF ProducerInv, BuffersTyped
  <1>4. \A q \in Partitions \ {p} :
            /\ RowsLeft(q)' = RowsLeft(q) /\ Used(q)' = Used(q)
            /\ Buffered(q)' = Buffered(q) /\ Later(q)' = Later(q)
    BY <1>3 DEF RowsLeft, Used, Buffered, Later
  <1> HIDE DEF t
  <1>5. Buffered(p) = {s[i] : i \in DOMAIN s}
    BY <1>2, PageAssumption DEF Buffered, ToSet
  <1>6. Buffered(p)' = {t[i] : i \in DOMAIN t}
    BY <1>2, <1>3, PageAssumption DEF Buffered, ToSet
  <1>7. \A i, j \in DOMAIN s : s[i] = s[j] => i = j
    BY DEF RowInv, RowsOnce
  <1>8. /\ Head(s) \in Buffered(p)
        /\ Buffered(p)' = Buffered(p) \ {Head(s)}
    <2> HIDE DEF s
    <2>1. Head(s) \in Buffered(p)
      BY <1>2, <1>5
    <2>2. \A x \in Buffered(p)' : x \in Buffered(p) /\ x # Head(s)
      BY <1>2, <1>5, <1>6, <1>7
    <2>3. \A x \in Buffered(p) : x # Head(s) => x \in Buffered(p)'
      BY <1>2, <1>5, <1>6
    <2> QED BY <2>1, <2>2, <2>3
  <1>9. Later(p)' = Later(p)
    BY DEF Later
  <1>10. RowsLeft(p) = Buffered(p) \union Later(p) /\ Buffered(p) \intersect Later(p) = {}
    BY DEF RowInv, RowsOnce, RowsLeft, Buffered, Later
  <1>11. RowsLeft(p)' = Buffered(p)' \union Later(p)'
    BY DEF RowsLeft, Buffered, Later
  <1>12. /\ RowsLeft(p)' = RowsLeft(p) \ {Head(s)} /\ Head(s) \in RowsLeft(p)
         /\ Buffered(p)' \intersect Later(p)' = {}
    BY <1>8, <1>9, <1>10, <1>11
  <1>13. /\ \A i, j \in DOMAIN t : t[i] = t[j] => i = j
         /\ ordered => \A i, j \in DOMAIN t : i < j => t[i] <= t[j]
    <2>1. ordered => \A i, j \in DOMAIN s : i < j => s[i] <= s[j]
      BY DEF RowInv, RowsSorted
    <2> HIDE DEF s
    <2>2. ASSUME NEW i \in DOMAIN t, NEW j \in DOMAIN t
          PROVE  /\ t[i] = t[j] => i = j
                 /\ ordered /\ i < j => t[i] <= t[j]
      <3>1. /\ i \in Int /\ j \in Int /\ i + 1 \in DOMAIN s /\ j + 1 \in DOMAIN s
            /\ t[i] = s[i + 1] /\ t[j] = s[j + 1]
        BY <1>2
      <3>2. t[i] = t[j] => i + 1 = j + 1
        BY <1>7, <3>1
      <3>3. i < j => i + 1 < j + 1
        BY <3>1
      <3> QED BY <2>1, <3>1, <3>2, <3>3
    <2> QED BY <2>2
  <1>14. RowsOnce'
    BY <1>3, <1>4, <1>12, <1>13 DEF RowInv, RowsOnce
  <1>15. RowsSorted'
    BY <1>3, <1>4, <1>8, <1>9, <1>13 DEF RowInv, RowsSorted
  <1> QED BY <1>4, <1>12, <1>14, <1>15

\* The row taken comes from the head of the queue: if the query is ordered, no
\* producer has a smaller one.
LEMMA TakeItemRows ==
    ASSUME LockInv, ProducerInv, RowInv, NEW c \in Callers, TakeItem(c)
    PROVE  RowInv' /\ [Results!Next]_(Results!vars)
  <1>1. PICK p \in orderByPQ :
            /\ IsPeek(p) /\ ~gotSplit(p) /\ orderByPQ' = orderByPQ \ {p}
            /\ active' = p /\ item' = Head(fetchResults[p])
            /\ fetchResults' = [fetchResults EXCEPT ![p] = Tail(@)]
    BY DEF TakeItem, Shift
  <1>2. /\ pc[c] = "entered" /\ pc' = [pc EXCEPT ![c] = "advancing"] /\ ~err
        /\ UNCHANGED <<live, ordered, valueQuery, generation, phase, running,
                      pending, todo, delivered, err, ended>>
    BY DEF TakeItem, query, initVars
  <1>3. /\ c \in Inside /\ item = None /\ todo = <<>> /\ phase = "done"
        /\ running = {} /\ pending = <<>> /\ Producers = orderByPQ
    BY <1>2, EnteredHoldsNothing
  <1>4. /\ orderByPQ \subseteq Partitions /\ p \in Partitions
        /\ \A q \in orderByPQ : fetchResults[q] # <<>>
    BY DEF ProducerInv, ProducersTyped, HasItem
  <1>5. /\ RowsOnce' /\ RowsSorted'
        /\ \A q \in Partitions \ {p} : /\ RowsLeft(q)' = RowsLeft(q)
                                       /\ Used(q)' = Used(q)
        /\ RowsLeft(p)' = RowsLeft(p) \ {item'}
        /\ item' \in RowsLeft(p)
    BY <1>1, <1>2, <1>4, ShiftTakesHead
  <1>6. pc'[c] = "advancing"
    BY <1>2, <1>3, HandsOfOne DEF Stages
  <1>7. Producers' = Producers /\ Holding'
    BY <1>1, <1>2, <1>3, <1>6 DEF Producers, ToSet, Holding
  <1>8. /\ LiveHasAll' /\ FreshProducers'
        /\ MayReread \/ (live' = Roots /\ Producers' \subseteq live')
    BY <1>1, <1>2, <1>3, <1>5, <1>7, RowsStay
  <1>9. NothingLost'
    <2> SUFFICES ASSUME NEW q \in Producers
                 PROVE  RowsOf(q) \subseteq
                            RowsLeft(q)' \union ToSet(delivered) \union {item'}
      BY <1>2, <1>7 DEF NothingLost
    <2>1. /\ RowsOf(q) \subseteq RowsLeft(q) \union ToSet(delivered) \union {None}
          /\ q \in Partitions
      BY <1>2, <1>3, <1>4 DEF RowInv, NothingLost
    <2>2. None \notin RowsOf(q)
      BY <2>1, PagesAreRows, RowAssumption
    <2>3. RowsLeft(q) \subseteq RowsLeft(q)' \union {item'}
      BY <1>5, <2>1
    <2> QED BY <2>1, <2>2, <2>3
  <1>10. ordered => \A q \in Producers : \A y \in RowsLeft(q) : item' <= y
    <2> SUFFICES ASSUME ordered, NEW q \in orderByPQ, NEW y \in RowsLeft(q)
                 PROVE  item' <= y
      BY <1>3
    <2>1. OrderedBefore(p, q)
      BY <1>1 DEF IsPeek, documentProducerComparator
    <2>2. ~gotSplit(q) /\ item' <= Head(fetchResults[q])
      BY <1>1, <2>1 DEF OrderedBefore
    <2>3. /\ fetchResults[q] # <<>> /\ fetchResults[p] # <<>>
          /\ q \in Partitions /\ ~gotSplit(p)
      BY <1>1, <1>4
    <2>4. /\ Head(fetchResults[q]) <= y
          /\ fetchResults[q] \in Seq(Nat) /\ fetchResults[p] \in Seq(Nat)
      BY <1>4, <2>2, <2>3, HeadIsLeast
    <2>5. item' \in Nat /\ Head(fetchResults[q]) \in Nat
      BY <1>1, <2>3, <2>4
    <2>6. y \in Nat
      <3>1. RowsLeft(q) \subseteq RowsOf(q)
        BY <2>3 DEF RowInv, RowsOnce
      <3> QED BY <2>3, <3>1, PagesAreRows, RowsAreNumbers
    <2> QED BY <2>2, <2>4, <2>5, <2>6
  <1>11. ItemInHand'
    <2>1. item' \in RowsOf(p) \ RowsLeft(p)'
      BY <1>4, <1>5 DEF RowInv, RowsOnce
    <2>2. \A q \in Producers : RowsLeft(q)' \subseteq RowsLeft(q)
      BY <1>3, <1>4, <1>5
    <2>3. active' = p
      BY <1>1
    <2>4. ordered' => \A q \in Producers' : \A y \in RowsLeft(q)' : item' <= y
      BY <1>2, <1>7, <1>10, <2>2
    <2> QED BY <1>2, <1>7, <2>1, <2>3, <2>4 DEF ItemInHand
  <1>12. ~ended
    BY <1>1, <1>3 DEF RowInv, EndIsFinal
  <1>13. RowInv'
    BY <1>2, <1>5, <1>8, <1>9, <1>11, <1>12 DEF RowInv, EndIsFinal
  <1>14. Outstanding' = Outstanding
    <2>1. Outstanding = UNION {RowsLeft(q) : q \in Producers}
      BY <1>2, <1>3 DEF Outstanding
    <2>2. item' # None
      <3>1. item' \in RowsOf(p)
        BY <1>4, <1>5 DEF RowInv, RowsOnce
      <3> QED BY <1>4, <3>1, PagesAreRows, RowAssumption
    <2>3. Outstanding' = (UNION {RowsLeft(q)' : q \in Producers}) \union {item'}
      BY <1>2, <1>3, <1>7, <2>2 DEF Outstanding
    <2>4. \A q \in Producers : RowsLeft(q) = RowsLeft(q)' \union
                                   (IF q = p THEN {item'} ELSE {})
      BY <1>3, <1>4, <1>5
    <2> QED BY <1>3, <2>1, <2>3, <2>4
  <1> QED BY <1>2, <1>13, <1>14 DEF Results!vars

\* The producers of what took the place of a partition begin at the beginning, so
\* they have all its rows; those the old producer gave are read again.
LEMMA GetReplacementsRows ==
    ASSUME LockInv, ProducerInv, ProducerInv', RowInv,
           NEW c \in Callers, GetReplacements(c)
    PROVE  RowInv' /\ [Results!Next]_(Results!vars)
  <1> DEFINE new == ReplacementRanges(active)
  <1>1. /\ pc[c] = "repairing" /\ pc' = [pc EXCEPT ![c] = "checking"]
        /\ todo' = InRangeOrder(new)
        /\ UNCHANGED <<live, ordered, valueQuery, fetchResults, generation, phase,
                      running, pending, orderByPQ, active, item, delivered, err, ended>>
    BY DEF GetReplacements, query, initVars, producerVars
  <1>2. /\ c \in Inside /\ phase = "done" /\ running = {} /\ pending = <<>>
        /\ todo = <<>> /\ \A d \in Callers \ {c} : pc[d] \in {"idle", "waiting"}
    BY <1>1, HolderIsAlone DEF Inside, ProducerInv, ProducersTyped, HandTyped
  <1>3. /\ active \in Partitions /\ Replaced(active)
        /\ Producers = orderByPQ \union {active}
    BY <1>1, <1>2 DEF ProducerInv, HandTyped, Producers, ToSet
  <1>4. /\ Producers \subseteq Partitions /\ live \subseteq Partitions
        /\ \A p, q \in Producers : p # q => Disjoint(p, q)
    BY ProducerFacts
  <1>5. new \subseteq live /\ PairwiseDisjoint(new)
    BY DEF ReplacementRanges, ProducerInv, LiveTyped, PairwiseDisjoint
  <1>6. \A q \in new : /\ Slots[q] \subseteq Slots[active] /\ Slots[q] # Slots[active]
                       /\ ~Disjoint(q, active) /\ ~Disjoint(active, q)
    <2>1. \A q \in new : q \in live /\ ~Disjoint(active, q) /\ ~Disjoint(q, active)
      BY DEF ReplacementRanges, Disjoint
    <2> HIDE DEF new
    <2> QED BY <1>3, <2>1 DEF Replaced
  <1>7. ToSet(todo') = new
    <2> HIDE DEF new
    <2>1. /\ todo' \in Seq(new)
          /\ \A p \in new : \E i \in 1..Len(todo') : todo'[i] = p
      BY <1>1, <1>4, <1>5, RangesInOrder
    <2>2. /\ ToSet(todo') \subseteq new
          /\ \A x : x \in ToSet(todo') <=> \E i \in DOMAIN todo' : x = todo'[i]
      BY <2>1, Elements
    <2>3. DOMAIN todo' = 1..Len(todo')
      BY <2>1
    <2> QED BY <2>1, <2>2, <2>3
  <1>8. /\ \A d \in Callers : pc'[d] \notin {"advancing", "repairing"}
        /\ \A d \in Callers : pc[d] # "advancing"
    BY <1>1, <1>2, HandsOfOne DEF Stages
  <1>9. Producers' = orderByPQ \union new
    BY <1>1, <1>2, <1>7, <1>8 DEF Producers, ToSet
  <1>10. item = None /\ ItemInHand'
    BY <1>1, <1>8, NotHolding, EmptyHandsHoldNothing
  <1>11. /\ RowsOnce' /\ RowsSorted'
         /\ \A q \in Partitions : RowsLeft(q)' = RowsLeft(q) /\ Used(q)' = Used(q)
    BY <1>1, SameBuffers
  <1>12. \A p \in new : UNION {RowsOf(r) : r \in ReplacementRanges(p)} = RowsOf(p)
    BY <1>5, LiveReplacesItself
  <1>13. UNION {RowsOf(q) : q \in new} = RowsOf(active)
    BY <1>3 DEF RowInv, LiveHasAll
  <1>14. LiveHasAll'
    <2>1. /\ UNION {RowsOf(q) : q \in live} = Rows
          /\ \A p \in Producers :
                 UNION {RowsOf(q) : q \in ReplacementRanges(p)} = RowsOf(p)
      BY DEF RowInv, LiveHasAll
    <2>2. \A p : ReplacementRanges(p)' = ReplacementRanges(p)
      BY <1>1 DEF ReplacementRanges
    <2> QED BY <1>1, <1>3, <1>9, <1>12, <2>1, <2>2 DEF LiveHasAll
  <1> HIDE DEF new
  <1>15. ASSUME NEW q \in Partitions \ Producers, Used(q)
         PROVE  \/ Disjoint(active, q)
                \/ Slots[active] \subseteq Slots[q] /\ Slots[active] # Slots[q]
    BY <1>3, <1>15 DEF RowInv, FreshProducers
  <1>16. \A q \in new : q \notin Producers /\ ~Used(q)
    <2> SUFFICES ASSUME NEW q \in new PROVE q \notin Producers /\ ~Used(q)
      OBVIOUS
    <2>1. q # active /\ q \in Partitions
      BY <1>4, <1>5, <1>6
    <2>2. q \notin Producers
      BY <1>3, <1>4, <1>6, <2>1
    <2> QED BY <1>6, <1>15, <2>1, <2>2
  <1>17. FreshProducers'
    <2> SUFFICES ASSUME NEW q \in Partitions \ Producers', Used(q), NEW p \in Producers'
                 PROVE  \/ Disjoint(p, q)
                        \/ Slots[p] \subseteq Slots[q] /\ Slots[p] # Slots[q]
      BY <1>1, <1>2, <1>11 DEF FreshProducers, Disjoint
    <2>1. CASE p \in orderByPQ
      <3>1. p \in Producers
        BY <1>3, <2>1
      <3>2. CASE q = active
        <4>1. p # q
          BY <1>9, <2>1
        <4> QED BY <1>3, <1>4, <3>1, <3>2, <4>1
      <3>3. CASE q # active
        <4>1. q \notin Producers
          BY <1>3, <1>9, <3>3
        <4> QED BY <3>1, <4>1 DEF RowInv, FreshProducers
      <3> QED BY <3>2, <3>3
    <2>2. CASE p \in new
      <3>1. CASE q = active
        BY <1>6, <2>2, <3>1
      <3>2. CASE q # active
        <4>1. q \notin Producers
          BY <1>3, <1>9, <3>2
        <4>2. \/ Disjoint(active, q)
              \/ Slots[active] \subseteq Slots[q] /\ Slots[active] # Slots[q]
          BY <1>15, <4>1
        <4> QED BY <1>6, <2>2, <4>2 DEF Disjoint
      <3> QED BY <3>1, <3>2
    <2> QED BY <1>9, <2>1, <2>2
  <1>18. \A q \in new : RowsLeft(q) = RowsOf(q)
    BY <1>4, <1>5, <1>16, UnusedIsWhole
  <1>19. NothingLost'
    <2>1. ~err => \A p \in Producers :
              RowsOf(p) \subseteq RowsLeft(p) \union ToSet(delivered) \union {item}
      BY DEF RowInv, NothingLost
    <2>2. orderByPQ \subseteq Partitions /\ new \subseteq Partitions
      BY <1>3, <1>4, <1>5
    <2> QED BY <1>1, <1>3, <1>9, <1>11, <1>18, <2>1, <2>2 DEF NothingLost
  <1>20. MayReread
    <2>1. active \notin live
      BY <1>3, ReplacedIsGone
    <2> QED BY <1>3, <2>1 DEF RowInv
  <1>21. ~ended
    BY <1>3 DEF RowInv, EndIsFinal
  <1>22. RowInv'
    BY <1>1, <1>10, <1>11, <1>14, <1>17, <1>19, <1>20, <1>21 DEF RowInv, EndIsFinal
  <1>23. CASE err
    BY <1>1, <1>21, <1>22, <1>23, FailingStep
  <1>24. CASE ~err
    <2> DEFINE again == RowsOf(active) \ RowsLeft(active)
               kept == UNION {RowsLeft(p) : p \in orderByPQ}
    <2>1. again \subseteq ToSet(delivered)
      <3>1. RowsOf(active) \subseteq
                RowsLeft(active) \union ToSet(delivered) \union {None}
        BY <1>3, <1>10, <1>24 DEF RowInv, NothingLost
      <3>2. None \notin RowsOf(active)
        BY <1>3, PagesAreRows, RowAssumption
      <3> QED BY <3>1, <3>2
    <2>2. Outstanding = kept \union RowsLeft(active)
      BY <1>2, <1>3, <1>10, <1>24 DEF Outstanding
    <2>3. Outstanding' = kept \union RowsOf(active)
      <3>1. UNION {RowsLeft(p)' : p \in Producers'} = kept \union RowsOf(active)
        <4>1. \A p \in orderByPQ : RowsLeft(p)' = RowsLeft(p)
          BY <1>3, <1>4, <1>11
        <4>2. \A p \in new : RowsLeft(p)' = RowsOf(p)
          BY <1>4, <1>5, <1>11, <1>18
        <4> QED BY <1>9, <1>13, <4>1, <4>2
      <3> HIDE DEF kept
      <3> QED BY <1>1, <1>2, <1>10, <1>24, <3>1 DEF Outstanding
    <2>4. RowsLeft(active) \subseteq RowsOf(active)
      BY <1>3 DEF RowInv, RowsOnce
    <2>5. Outstanding' = Outstanding \union again
      BY <2>2, <2>3, <2>4
    <2>6. again \in SUBSET Results!Range(delivered)
      BY <2>1 DEF ToSet, Results!Range
    <2> HIDE DEF again
    <2>7. Results!Reread
      BY <1>1, <1>20, <1>21, <1>24, <2>5, <2>6 DEF Results!Reread, MayReread
    <2> QED BY <1>22, <2>7 DEF Results!Next
  <1> QED BY <1>23, <1>24

-----------------------------------------------------------------------------
(* A partition splits *)

LEMMA SplitRows ==
    ASSUME LockInv, ProducerInv, RowInv, NEW x \in Partitions, Split(x)
    PROVE  RowInv' /\ [Results!Next]_(Results!vars)
  <1>1. /\ x \in live /\ Children[x] # {} /\ Children[x] \subseteq Partitions
        /\ live' = (live \ {x}) \union Children[x]
        /\ UNCHANGED <<ordered, valueQuery, fetchResults, generation, phase,
                      running, pending, orderByPQ, pc, active, item, todo, delivered,
                      err, ended>>
    BY PartitionAssumption DEF Split, query, initVars, producerVars, holderVars
  <1>2. /\ Slots[x] = UNION {Slots[q] : q \in Children[x]}
        /\ RowsOf(x) = UNION {RowsOf(q) : q \in Children[x]}
    BY <1>1, SplitAssumption, RowAssumption
  <1>3. Producers' = Producers /\ (Holding' <=> Holding)
    BY <1>1 DEF Producers, Holding
  <1>4. /\ Producers \subseteq Partitions /\ live \subseteq Partitions
        /\ PairwiseDisjoint(live)
        /\ \A p \in Producers : p \in live \/ Replaced(p)
    BY ProducerFacts DEF ProducerInv, LiveTyped, ProducersTyped
  <1>5. UNION {RowsOf(q) : q \in live'} = UNION {RowsOf(q) : q \in live}
    BY <1>1, <1>2
  <1>6. ASSUME NEW p \in Producers
        PROVE  UNION {RowsOf(q) : q \in ReplacementRanges(p)'} = RowsOf(p)
    <2>1. UNION {RowsOf(q) : q \in ReplacementRanges(p)} = RowsOf(p)
      BY DEF RowInv, LiveHasAll
    <2>2. ReplacementRanges(p)' = {q \in live' : Slots[q] \intersect Slots[p] # {}}
      BY DEF ReplacementRanges
    <2>3. CASE x \notin ReplacementRanges(p)
      <3>1. Slots[x] \intersect Slots[p] = {}
        BY <1>1, <2>3 DEF ReplacementRanges
      <3>2. \A q \in Children[x] : Slots[q] \intersect Slots[p] = {}
        BY <1>2, <3>1
      <3>3. ReplacementRanges(p)' = ReplacementRanges(p)
        BY <1>1, <2>2, <3>1, <3>2 DEF ReplacementRanges
      <3> QED BY <2>1, <3>3
    <2>4. CASE x \in ReplacementRanges(p)
      <3>1. ~Disjoint(p, x) /\ ~Disjoint(x, p)
        BY <2>4 DEF ReplacementRanges, Disjoint
      <3>2. Slots[x] \subseteq Slots[p]
        <4>1. CASE p \in live
          BY <1>1, <1>4, <3>1, <4>1 DEF PairwiseDisjoint
        <4>2. CASE Replaced(p)
          BY <1>1, <3>1, <4>2 DEF Replaced
        <4> QED BY <1>4, <4>1, <4>2
      <3>3. \A q \in Children[x] : Slots[q] \intersect Slots[p] # {}
        BY <1>1, <1>2, <3>2, SlotsAreThere
      <3>4. ReplacementRanges(p)' = (ReplacementRanges(p) \ {x}) \union Children[x]
        BY <1>1, <2>2, <3>3 DEF ReplacementRanges
      <3> QED BY <1>2, <2>1, <2>4, <3>4
    <2> QED BY <2>3, <2>4
  <1>7. LiveHasAll'
    BY <1>3, <1>5, <1>6 DEF RowInv, LiveHasAll
  <1>8. /\ RowsOnce' /\ RowsSorted'
        /\ \A q \in Partitions : RowsLeft(q)' = RowsLeft(q) /\ Used(q)' = Used(q)
    BY <1>1, SameBuffers
  <1>9. FreshProducers'
    BY <1>1, <1>3, <1>8 DEF RowInv, FreshProducers, Disjoint
  <1>10. NothingLost'
    BY <1>1, <1>3, <1>4, <1>8 DEF RowInv, NothingLost
  <1>11. ItemInHand'
    <2>1. CASE Holding
      <3>1. active \in Partitions
        BY <1>4, <2>1 DEF Holding, Producers
      <3> QED BY <1>1, <1>3, <1>4, <1>8, <2>1, <3>1 DEF RowInv, ItemInHand
    <2>2. CASE ~Holding
      BY <1>1, <1>3, <2>2 DEF RowInv, ItemInHand
    <2> QED BY <2>1, <2>2
  <1>12. EndIsFinal'
    BY <1>1, <1>3 DEF RowInv, EndIsFinal
  <1>13. MayReread
    BY <1>1 DEF RowInv, MayReread
  <1>14. RowInv'
    BY <1>1, <1>7, <1>8, <1>9, <1>10, <1>11, <1>12, <1>13 DEF RowInv
  <1>15. UNION {RowsLeft(p)' : p \in Producers'} = UNION {RowsLeft(p) : p \in Producers}
    BY <1>3, <1>4, <1>8
  <1>16. UNCHANGED (Results!vars)
    BY <1>1, <1>15 DEF Outstanding, Results!vars
  <1> QED BY <1>14, <1>16

-----------------------------------------------------------------------------
(* The theorems *)

LEMMA StepRows ==
    ASSUME LockInv, ProducerInv, ProducerInv', RowInv, [Next]_vars
    PROVE  RowInv' /\ [Results!Next]_(Results!vars)
  <1>1. CASE GetTargetRanges
    BY <1>1, GetTargetRangesRows
  <1>2. CASE TargetRangesFail
    BY <1>2, TargetRangesFailRows
  <1>3. ASSUME NEW p \in Partitions, FillUp(p)
        PROVE  RowInv' /\ [Results!Next]_(Results!vars)
    BY <1>3, FillUpRows
  <1>4. ASSUME NEW c \in Callers, Call(c) \/ nextItem(c)
        PROVE  RowInv' /\ [Results!Next]_(Results!vars)
    BY <1>4, CallRows, RejectPriorErrorRows, NoMoreResultsRows, TakeItemRows,
       AdvanceRows, StartRepairRows, GetReplacementsRows, ReplacementsFailRows,
       CheckReplacementRows, ReexecuteRows
    DEF nextItem
  <1>5. ASSUME NEW p \in Partitions, Split(p)
        PROVE  RowInv' /\ [Results!Next]_(Results!vars)
    BY <1>5, SplitRows
  <1>6. CASE UNCHANGED vars
    <2>1. Producers' = Producers /\ (Holding' <=> Holding)
      BY <1>6 DEF Producers, Holding, vars, initVars, holderVars
    <2>2. ended => \A c \in Callers : pc'[c] \in AtRest
      BY <1>6 DEF RowInv, EndIsFinal, AtRest, vars
    <2> QED BY <1>6, <2>1, <2>2, RowsInPlace
            DEF vars, query, initVars, holderVars, producerVars
  <1> QED BY <1>1, <1>2, <1>3, <1>4, <1>5, <1>6 DEF Next, Constructor

\* Before the first step every row is with the service.
LEMMA FirstRows ==
    ASSUME Init
    PROVE  RowInv /\ Results!Init
  <1>1. /\ fetchResults = [p \in Partitions |-> <<>>]
        /\ generation = [p \in Partitions |-> 0]
        /\ live = Roots /\ phase = "ranges" /\ delivered = <<>> /\ item = None
        /\ err = FALSE /\ ended = FALSE
    BY DEF Init
  <1>2. \A p \in Partitions : ~Used(p) /\ RowsLeft(p) = RowsOf(p) /\ Buffered(p) = {}
    <2>1. \A p \in Partitions : fetchResults[p] = <<>> /\ generation[p] = 0
      BY <1>1
    <2> QED BY <2>1, UnusedIsWhole DEF Used, Buffered, ToSet
  <1>3. Producers = {}
    BY DEF Init, Producers, ToSet
  <1>4. RowsOnce
    BY <1>1, <1>2 DEF RowsOnce
  <1>5. RowsSorted
    <2>1. \A p \in Partitions : DOMAIN fetchResults[p] = {}
      BY <1>1
    <2>2. ordered => ListedInOrder /\ ~valueQuery
      BY DEF Init
    <2> QED BY <1>2, <2>1, <2>2 DEF RowsSorted
  <1>6. LiveHasAll /\ FreshProducers /\ NothingLost
    BY <1>1, <1>2, <1>3, RowAssumption DEF LiveHasAll, FreshProducers, NothingLost
  <1>7. ItemInHand /\ EndIsFinal
    BY DEF Init, ItemInHand, Holding, EndIsFinal
  <1>8. RowInv
    <2>1. delivered \in Seq(Rows) /\ ordered \in BOOLEAN
      BY DEF Init
    <2>2. live = Roots /\ Producers \subseteq live
      BY <1>1, <1>3
    <2> QED BY <1>1, <1>4, <1>5, <1>6, <1>7, <2>1, <2>2 DEF RowInv
  <1>9. Results!Init
    BY DEF Init, Outstanding, Results!Init
  <1> QED BY <1>8, <1>9

\* No row is lost: what a producer has given was delivered or is in hand, and the
\* partitions that live have every row.
THEOREM RowInvariant == Spec => []RowInv
  <1>1. Init => RowInv
    BY FirstRows
  <1>2. LockInv /\ ProducerInv /\ ProducerInv' /\ RowInv /\ [Next]_vars => RowInv'
    BY StepRows
  <1> QED BY <1>1, <1>2, LockInvariant, ProducerInvariant, PTL DEF Spec

\* A query over many partitions does what QueryResults promises: every step of it
\* is a step of QueryResults or none.
THEOREM QueryImplementsResults == Spec => ImplementsQueryResults
  <1>1. Init => Results!Init
    BY FirstRows
  <1>2. LockInv /\ ProducerInv /\ ProducerInv' /\ RowInv /\ [Next]_vars
            => [Results!Next]_(Results!vars)
    BY StepRows
  <1> QED BY <1>1, <1>2, LockInvariant, ProducerInvariant, RowInvariant, PTL
          DEF Spec, ImplementsQueryResults, Results!Spec
=============================================================================

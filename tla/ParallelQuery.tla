----------------------------- MODULE ParallelQuery -----------------------------
(***************************************************************************)
(* A query over many partitions, as ParallelQueryExecutionContextBase runs *)
(* it: one DocumentProducer per partition key range buffers pages, a       *)
(* priority queue picks the producer the next row comes from, and a        *)
(* semaphore of one serialises the calls of nextItem.  A partition may     *)
(* split at any time: the fetch that finds it gone buffers the 410 behind  *)
(* the rows already there, and the producer is replaced by producers of    *)
(* the ranges that took its place.                                         *)
(*                                                                         *)
(* A producer is named by its partition: no partition gets a second one    *)
(* (OneProducerPerSlot).  Service, network and semaphore are the           *)
(* environment.  Headers, metrics and the text of errors are left out.     *)
(***************************************************************************)
EXTENDS Integers, Sequences, FiniteSets, FiniteSetsExt, SequencesExt

CONSTANTS
    Partitions,    \* every partition key range the container ever has
    Roots,         \* those it has when the query starts
    Children,      \* what each splits into, {} if it never does
    Slots,         \* the hash interval of each, as a set of points
    Pages,         \* the pages each answers, from the start: rows are numbers
    Falsy,         \* rows that are false, 0, "" or null in JavaScript
    Degree,        \* FeedOptions.maxDegreeOfParallelism
    Callers,       \* concurrent calls of nextItem
    MaxFaults,     \* bound: requests that fail for good
    Gone           \* the buffered 410/1002 of a split

None == 0   \* neither a row nor a producer in hand

ASSUME PartitionAssumption ==
    /\ IsFiniteSet(Partitions) /\ None \notin Partitions
    /\ Roots \subseteq Partitions /\ Roots # {}
    /\ Children \in [Partitions -> SUBSET Partitions]
ASSUME IntervalAssumption ==
    \A p \in Partitions :
        /\ Slots[p] \subseteq Int
        /\ \E x \in Slots[p] : \A y \in Slots[p] : x <= y
ASSUME SplitAssumption ==
    \A p \in Partitions : Children[p] # {} =>
        /\ Slots[p] = UNION {Slots[q] : q \in Children[p]}
        /\ \A q \in Children[p] : Slots[q] # Slots[p]
        /\ \A q, r \in Children[p] : q # r => Slots[q] \intersect Slots[r] = {}
ASSUME RootAssumption ==
    \A p, q \in Roots : p # q => Slots[p] \intersect Slots[q] = {}
ASSUME PageAssumption ==
    /\ Gone \notin Nat
    /\ \A p \in Partitions : Pages[p] \in Seq(Seq(Nat)) \ {<<>>}
ASSUME BoundAssumption == Degree \in Int /\ MaxFaults \in Nat

RowsOf(p) == UNION {ToSet(Pages[p][i]) : i \in DOMAIN Pages[p]}
Rows == UNION {RowsOf(p) : p \in Partitions}

\* Nobody writes while the query runs.  Each row is in one page of the partition
\* that has its slot, and with the children once that has split.
ASSUME RowAssumption ==
    /\ None \notin Rows
    /\ Rows = UNION {RowsOf(p) : p \in Roots}
    /\ \A p, q \in Partitions :
           Slots[p] \intersect Slots[q] = {} => RowsOf(p) \intersect RowsOf(q) = {}
    /\ \A p \in Partitions : Children[p] # {} =>
           RowsOf(p) = UNION {RowsOf(q) : q \in Children[p]}
    /\ \A p \in Partitions : \A i, j \in DOMAIN Pages[p] :
           \A k \in DOMAIN Pages[p][i], l \in DOMAIN Pages[p][j] :
               Pages[p][i][k] = Pages[p][j][l] => i = j /\ k = l

\* What the service promises of an ordered query: each partition lists its rows
\* in order.
ListedInOrder ==
    \A p \in Partitions : \A i, j \in DOMAIN Pages[p] :
        \A k \in DOMAIN Pages[p][i], l \in DOMAIN Pages[p][j] :
            i < j \/ (i = j /\ k < l) => Pages[p][i][k] <= Pages[p][j][l]

VARIABLES
    live,        \* service: the partitions that exist now
    ordered,     \* OrderByQueryExecutionContext or ParallelQueryExecutionContext
    valueQuery,  \* does it SELECT VALUE?
    phase,       \* the constructor's task: "ranges", "filling" or "done"
    pending,     \* producers waiting for parallelismSem
    running,     \* producers whose first fetch is under way
    orderByPQ,   \* the producers in the priority queue
    fetchResults,\* of each producer: buffered rows, or the 410
    generation,  \* of each producer: pages fetched
    err,         \* is this.err set?
    ended,       \* state = ended
    sem,         \* sem.current
    waiters,     \* sem.queue
    pc,          \* where each call of nextItem is
    active,      \* the producer the holder of sem took from the queue
    item,        \* the row it holds
    todo,        \* replacements it has yet to check
    delivered,   \* history: the rows resolved, in order
    faults       \* bound counter

initVars == <<phase, pending, running>>
holderVars == <<active, item, todo>>
producerVars == <<fetchResults, generation, faults>>
query == <<ordered, valueQuery>>
vars == <<live, query, initVars, orderByPQ, producerVars, err, ended, sem,
          waiters, pc, holderVars, delivered>>

-----------------------------------------------------------------------------
(* DocumentProducer *)

NextPage(p) == Pages[p][generation[p] + 1]
AllFetched(p) == generation[p] = Len(Pages[p])

\* A FetchResult takes a falsy row for an exception, with no error in it.
\* The rows of an ordered query are wrapped, and never falsy.
Throws(entry) == entry = Gone \/ (valueQuery /\ entry \in Falsy)

gotSplit(p) == Head(fetchResults[p]) = Gone

\* The answer to a fetch: a page, the end (known without asking), a 410 of a
\* partition that split, or a failure.
BufferMore(p, answer) ==
    \/ /\ answer = "end"
       /\ AllFetched(p)
       /\ UNCHANGED producerVars
    \/ /\ answer = "gone"
       /\ ~AllFetched(p) /\ p \notin live
       /\ fetchResults' = [fetchResults EXCEPT ![p] = <<Gone>>]
       /\ UNCHANGED <<generation, faults>>
    \/ /\ answer = "failed"
       /\ ~AllFetched(p) /\ faults < MaxFaults
       /\ faults' = faults + 1
       /\ UNCHANGED <<fetchResults, generation>>
    \/ /\ answer = "more"
       /\ ~AllFetched(p) /\ p \in live
       /\ fetchResults' = [fetchResults EXCEPT ![p] = NextPage(p)]
       /\ generation' = [generation EXCEPT ![p] = @ + 1]
       /\ UNCHANGED faults

\* One round of current(): what is buffered, else another fetch.  "more" means
\* that it has to look again.
Current(p, answer) ==
    \/ /\ fetchResults[p] # <<>>
       /\ answer = (IF gotSplit(p) THEN "gone"
                    ELSE IF Throws(Head(fetchResults[p])) THEN "failed"
                    ELSE "row")
       /\ UNCHANGED producerVars
    \/ /\ fetchResults[p] = <<>>
       /\ BufferMore(p, answer)

\* nextItem of a producer with a row at hand: the row is taken off the buffer.
Shift(p) ==
    /\ item' = Head(fetchResults[p])
    /\ fetchResults' = [fetchResults EXCEPT ![p] = Tail(@)]

Answers == {"row", "more", "end", "gone", "failed"}

-----------------------------------------------------------------------------
(* The priority queue and the semaphore *)

\* OrderByDocumentProducerComparator: a split first, then by row.
OrderedBefore(p, q) ==
    IF gotSplit(p) \/ gotSplit(q) THEN gotSplit(p)
    ELSE Head(fetchResults[p]) <= Head(fetchResults[q])

\* ParallelQueryExecutionContext: the producer that fetched the fewest pages.
GenerationBefore(p, q) == generation[p] <= generation[q]

\* Ties are broken by the shape of the heap: any of the equals may come first.
documentProducerComparator(p, q) ==
    IF ordered THEN OrderedBefore(p, q) ELSE GenerationBefore(p, q)

IsPeek(p) ==
    /\ p \in orderByPQ
    /\ \A q \in orderByPQ : documentProducerComparator(p, q)

\* sem.leave: the next waiter gets the semaphore, if there is one.
Leave ==
    /\ waiters' = IF waiters = <<>> THEN <<>> ELSE Tail(waiters)
    /\ sem' = IF waiters = <<>> THEN sem - 1 ELSE sem

Woken(calls) ==
    IF waiters = <<>> THEN calls ELSE [calls EXCEPT ![Head(waiters)] = "entered"]

\* A mutant: a call settles without releasing the lock.
SettleAndKeepLock(c) ==
    /\ pc' = [pc EXCEPT ![c] = "idle"]
    /\ active' = None /\ item' = None /\ todo' = <<>>
    /\ UNCHANGED <<sem, waiters>>

\* The call of c settles and the lock passes on.
Settle(c) ==
    /\ Leave
    /\ pc' = Woken([pc EXCEPT ![c] = "idle"])
    /\ active' = None /\ item' = None /\ todo' = <<>>

-----------------------------------------------------------------------------
(* The constructor's task: createDocumentProducersAndFillUpPriorityQueueFunc *)

maxDegreeOfParallelism(n) ==
    IF Degree = 0 THEN 1 ELSE IF Degree > 0 THEN Min({Degree + 1, n}) ELSE n

\* How many of ps come before p in the hash space.
Rank(p, ps) == Cardinality({q \in ps : Min(Slots[q]) < Min(Slots[p])})

InRangeOrder(ps) ==
    [i \in 1..Cardinality(ps) |-> CHOOSE p \in ps : Rank(p, ps) = i - 1]

GetTargetRanges ==
    /\ phase = "ranges"
    /\ LET ranges == InRangeOrder(live)
           n == maxDegreeOfParallelism(Len(ranges))
       IN /\ running' = ToSet(SubSeq(ranges, 1, n))
          /\ pending' = SubSeq(ranges, n + 1, Len(ranges))
    /\ phase' = "filling"
    /\ UNCHANGED <<live, query, orderByPQ, producerVars, err, ended, sem,
                   waiters, pc, holderVars, delivered>>

TargetRangesFail ==
    /\ phase = "ranges"
    /\ faults < MaxFaults
    /\ faults' = faults + 1
    /\ err' = TRUE
    /\ phase' = "done"
    /\ Leave
    /\ pc' = Woken(pc)
    /\ UNCHANGED <<live, query, pending, running, orderByPQ, fetchResults,
                   generation, ended, holderVars, delivered>>

\* A mutant: what is put into the queue is not asked for its rows first.
EnqueueUnchecked(p, answer) == orderByPQ \union {p}

\* A producer is queued only with a row at hand.
Enqueue(p, answer) == IF answer = "row" THEN orderByPQ \union {p} ELSE orderByPQ

\* A mutant: the lock is released once no producer waits for its first fetch.
ReleaseEarly(p) ==
    LET last == pending = <<>>
    IN /\ running' = (running \ {p}) \union
                     (IF pending = <<>> THEN {} ELSE {Head(pending)})
       /\ pending' = IF pending = <<>> THEN <<>> ELSE Tail(pending)
       /\ phase' = IF running = {p} /\ last THEN "done" ELSE "filling"
       /\ IF last THEN Leave /\ pc' = Woken(pc) ELSE UNCHANGED <<sem, waiters, pc>>

\* The last producer to answer releases the lock.
_decrementInitiationLock(p) ==
    LET last == running = {p} /\ pending = <<>>
    IN /\ running' = (running \ {p}) \union
                     (IF pending = <<>> THEN {} ELSE {Head(pending)})
       /\ pending' = IF pending = <<>> THEN <<>> ELSE Tail(pending)
       /\ phase' = IF last THEN "done" ELSE "filling"
       /\ IF last THEN Leave /\ pc' = Woken(pc) ELSE UNCHANGED <<sem, waiters, pc>>

\* A step of a producer's first current().  A 410 here fails the query.
FillUp(p) ==
    /\ phase = "filling" /\ p \in running
    /\ \E answer \in Answers :
        /\ Current(p, answer)
        /\ IF answer = "more"
           THEN UNCHANGED <<initVars, orderByPQ, err, sem, waiters, pc>>
           ELSE /\ orderByPQ' = Enqueue(p, answer)
                /\ err' = (err \/ answer \in {"gone", "failed"})
                /\ _decrementInitiationLock(p)
    /\ UNCHANGED <<live, query, ended, holderVars, delivered>>

-----------------------------------------------------------------------------
(* nextItem *)

\* sem.take, or the rejection of every call once err is set (no change).
Call(c) ==
    /\ pc[c] = "idle"
    /\ ~err
    /\ IF sem = 0
       THEN /\ sem' = 1
            /\ pc' = [pc EXCEPT ![c] = "entered"]
            /\ UNCHANGED waiters
       ELSE /\ waiters' = Append(waiters, c)
            /\ pc' = [pc EXCEPT ![c] = "waiting"]
            /\ UNCHANGED sem
    /\ UNCHANGED <<live, query, initVars, orderByPQ, producerVars, err, ended,
                   holderVars, delivered>>

RejectPriorError(c) ==
    /\ pc[c] = "entered"
    /\ err
    /\ Settle(c)
    /\ UNCHANGED <<live, query, initVars, orderByPQ, producerVars, err, ended,
                   delivered>>

NoMoreResults(c) ==
    /\ pc[c] = "entered"
    /\ ~err
    /\ orderByPQ = {}
    /\ ended' = TRUE
    /\ Settle(c)
    /\ UNCHANGED <<live, query, initVars, orderByPQ, producerVars, err,
                   delivered>>

\* _repairExecutionContextIfNeeded, elseCallback: deq and shift a row.
TakeItem(c) ==
    /\ pc[c] = "entered"
    /\ ~err
    /\ \E p \in orderByPQ :
        /\ IsPeek(p)
        /\ ~gotSplit(p)
        /\ orderByPQ' = orderByPQ \ {p}
        /\ active' = p
        /\ Shift(p)
    /\ pc' = [pc EXCEPT ![c] = "advancing"]
    /\ UNCHANGED <<live, query, initVars, generation, faults, err, ended, sem,
                   waiters, todo, delivered>>

\* A mutant: a producer that is gone is not put back.
PutBackRowsOnly(answer) ==
    IF answer = "row" THEN orderByPQ \union {active} ELSE orderByPQ

\* Back into the queue if there is more, or a 410 to repair later.
PutBack(answer) ==
    IF answer \in {"row", "gone"} THEN orderByPQ \union {active} ELSE orderByPQ

\* Look at what follows the row in hand, then resolve it.
Advance(c) ==
    /\ pc[c] = "advancing"
    /\ \E answer \in Answers :
        /\ Current(active, answer)
        /\ IF answer = "more"
           THEN UNCHANGED <<orderByPQ, err, sem, waiters, pc, holderVars, delivered>>
           ELSE /\ orderByPQ' = PutBack(answer)
                /\ err' = (err \/ answer = "failed")
                /\ delivered' = IF answer = "failed" THEN delivered
                                ELSE Append(delivered, item)
                /\ Settle(c)
    /\ UNCHANGED <<live, query, initVars, ended>>

-----------------------------------------------------------------------------
(* _repairExecutionContext *)

StartRepair(c) ==
    /\ pc[c] = "entered"
    /\ ~err
    /\ \E p \in orderByPQ :
        /\ IsPeek(p)
        /\ gotSplit(p)
        /\ orderByPQ' = orderByPQ \ {p}
        /\ active' = p
    /\ pc' = [pc EXCEPT ![c] = "repairing"]
    /\ UNCHANGED <<live, query, initVars, producerVars, err, ended, sem,
                   waiters, item, todo, delivered>>

\* A mutant: every range of the new routing map is asked again.
EveryRange(p) == live

\* getOverlappingRanges of a new routing map, for the range that is gone.
ReplacementRanges(p) == {q \in live : Slots[q] \intersect Slots[p] # {}}

\* The new producers start from scratch: the option the continuation of the
\* parent is passed in (continuationToken) is not the one they read.
GetReplacements(c) ==
    /\ pc[c] = "repairing"
    /\ todo' = InRangeOrder(ReplacementRanges(active))
    /\ pc' = [pc EXCEPT ![c] = "checking"]
    /\ UNCHANGED <<live, query, initVars, orderByPQ, producerVars, err, ended,
                   sem, waiters, active, item, delivered>>

\* The call is rejected, and nobody leaves the semaphore.
ReplacementsFail(c) ==
    /\ pc[c] = "repairing"
    /\ faults < MaxFaults
    /\ faults' = faults + 1
    /\ err' = TRUE
    /\ pc' = [pc EXCEPT ![c] = "idle"]
    /\ active' = None
    /\ UNCHANGED <<live, query, initVars, orderByPQ, fetchResults, generation,
                   ended, sem, waiters, item, todo, delivered>>

\* checkAndEnqueueDocumentProducer.  If it fails, or the new range has split
\* again, the error is kept and the call neither settles nor leaves.
CheckReplacement(c) ==
    /\ pc[c] = "checking"
    /\ todo # <<>>
    /\ \E answer \in Answers :
        /\ Current(Head(todo), answer)
        /\ todo' = IF answer = "more" THEN todo ELSE Tail(todo)
        /\ orderByPQ' = Enqueue(Head(todo), answer)
        /\ err' = (err \/ answer \in {"gone", "failed"})
        /\ pc' = [pc EXCEPT ![c] = IF err' THEN "stuck" ELSE "checking"]
    /\ UNCHANGED <<live, query, initVars, ended, sem, waiters, active, item,
                   delivered>>

\* ifCallback: leave, and nextItem once more, behind those who wait.
Reexecute(c) ==
    /\ pc[c] = "checking"
    /\ todo = <<>>
    /\ active' = None
    /\ IF waiters = <<>>
       THEN pc' = [pc EXCEPT ![c] = "entered"] /\ UNCHANGED waiters
       ELSE /\ waiters' = Append(Tail(waiters), c)
            /\ pc' = [pc EXCEPT ![c] = "waiting", ![Head(waiters)] = "entered"]
    /\ UNCHANGED <<live, query, initVars, orderByPQ, producerVars, err, ended,
                   sem, item, todo, delivered>>

-----------------------------------------------------------------------------
(* The service: a partition splits *)

Split(p) ==
    /\ p \in live
    /\ Children[p] # {}
    /\ live' = (live \ {p}) \union Children[p]
    /\ UNCHANGED <<query, initVars, orderByPQ, producerVars, err, ended, sem,
                   waiters, pc, holderVars, delivered>>

-----------------------------------------------------------------------------

\* The constructor has taken sem.
Init ==
    /\ live = Roots
    /\ ordered \in BOOLEAN /\ valueQuery \in BOOLEAN
    /\ ~(ordered /\ valueQuery)
    /\ ordered => ListedInOrder
    /\ phase = "ranges" /\ pending = <<>> /\ running = {}
    /\ orderByPQ = {}
    /\ fetchResults = [p \in Partitions |-> <<>>]
    /\ generation = [p \in Partitions |-> 0]
    /\ err = FALSE /\ ended = FALSE
    /\ sem = 1 /\ waiters = <<>>
    /\ pc = [c \in Callers |-> "idle"]
    /\ active = None /\ item = None /\ todo = <<>>
    /\ delivered = <<>>
    /\ faults = 0

Constructor ==
    GetTargetRanges \/ TargetRangesFail \/ \E p \in Partitions : FillUp(p)

nextItem(c) ==
    \/ RejectPriorError(c) \/ NoMoreResults(c) \/ TakeItem(c) \/ Advance(c)
    \/ StartRepair(c) \/ GetReplacements(c) \/ ReplacementsFail(c)
    \/ CheckReplacement(c) \/ Reexecute(c)

Next ==
    \/ Constructor
    \/ \E c \in Callers : Call(c) \/ nextItem(c)
    \/ \E p \in Partitions : Split(p)

\* Every request is answered and every callback runs; calls and splits need
\* not happen.
Fairness == WF_vars(Constructor) /\ \A c \in Callers : WF_vars(nextItem(c))

Spec == Init /\ [][Next]_vars /\ Fairness

-----------------------------------------------------------------------------
(* Properties *)

Inside == {c \in Callers : pc[c] \notin {"idle", "waiting"}}

\* The lock serialises the constructor's task and all calls: at most one of them
\* works on the queue and its producers, and only while the lock is taken, though
\* nine places of the code release it.
OneAtATime ==
    /\ Cardinality(Inside) + (IF phase = "done" THEN 0 ELSE 1) <= sem
    /\ waiters # <<>> => sem = 1

\* Whatever is in the priority queue can be compared and taken: it has a row or
\* a 410 at hand ("this should never happen because the documentProducer already
\* has buffered an item", parallelQueryExecutionContextBase.ts:428).
QueuedProducersHaveItems ==
    \A p \in orderByPQ :
        /\ fetchResults[p] # <<>>
        /\ Throws(Head(fetchResults[p])) => Head(fetchResults[p]) = Gone

Producers ==
    orderByPQ \union running \union ToSet(pending) \union ToSet(todo)
    \union (IF \E c \in Callers : pc[c] \in {"advancing", "repairing"}
            THEN {active} ELSE {})

\* Across splits and repairs, no two producers read the same slot of the hash
\* space, and none of them is queued while it is in hand or being checked.
OneProducerPerSlot ==
    /\ \A p, q \in Producers : p # q => Slots[p] \intersect Slots[q] = {}
    /\ orderByPQ \intersect ({active} \union ToSet(todo)) = {}

\* The rows a producer has not given yet, fetched or not.
RowsLeft(p) ==
    (ToSet(fetchResults[p]) \ {Gone}) \union
    UNION {ToSet(Pages[p][i]) : i \in (generation[p] + 1)..Len(Pages[p])}

Outstanding ==
    IF err THEN {}
    ELSE IF phase = "ranges" THEN Rows
    ELSE (UNION {RowsLeft(p) : p \in Producers}) \union ({item} \ {None})

Results == INSTANCE QueryResults WITH
    outstanding <- Outstanding,
    outcome <- IF err THEN "failed" ELSE IF ended THEN "ended" ELSE "running",
    MayReread <- \E p \in Roots : Children[p] # {}

\* The query implements what QueryResults promises: no row is lost whatever
\* splits, an ordered query hands over the smallest row first, and the end is
\* reported only when every row has been handed over.
ImplementsQueryResults == Results!Spec

\* Every call of nextItem is answered, unless the query has failed.
CallsSettleUnlessFailed == \A c \in Callers : pc[c] # "idle" ~> (pc[c] = "idle" \/ err)

\* "Release the semaphore to avoid deadlock" (line 400): every call is answered.
\* Refuted: a request that fails while replacements are checked leaves the call
\* unanswered, and those behind it.
EveryCallSettles == \A c \in Callers : pc[c] # "idle" ~> pc[c] = "idle"

=============================================================================

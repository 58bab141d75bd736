----------------------------- MODULE QueryPipeline -----------------------------
(***************************************************************************)
(* What PipelinedQueryExecutionContext puts on top of a query over many    *)
(* partitions, according to the query plan: an aggregate, TOP, OFFSET and  *)
(* LIMIT, DISTINCT, in this order, and pages.  The source below them is    *)
(* taken at its word: it does what QueryResults says (ParallelQuery is     *)
(* shown to).  Each answer of the source is a step; the caller walks the   *)
(* rows as QueryIterator does: page by page whatever hasMoreResults says   *)
(* (fetchNext), page by page while there is more (getAsyncIterator), or    *)
(* row by row (fetchAll).                                                  *)
(*                                                                         *)
(* Of the headers the request charge is followed: each answer of the       *)
(* source brings a charge of one.  Hashes, metrics and the payload an      *)
(* ordered row is wrapped in are left out.                                 *)
(***************************************************************************)
EXTENDS Integers, Sequences, FiniteSets, SequencesExt

CONSTANTS
    Rows,          \* the rows the source gives, numbered in sort order from one
    Plans,         \* the query plans
    ValuesFor(_),  \* the values rows may have under a plan
    Undefined,     \* undefined: no value, or no item
    PageSize       \* maxItemCount

NoLimit == -1      \* there is no such component
Falsy == {0}       \* values that are false, 0, "" or null in JavaScript

Operators == {"Count", "Sum", "Max", "Min", "Average"}
ASSUME PlanAssumption ==
    Plans \subseteq [aggregate : Operators \union {"None"},
                     distinct : {"None", "Ordered", "Unordered"},
                     top : Nat \union {NoLimit}, offset : Nat,
                     limit : Nat \union {NoLimit}]
ASSUME PageAssumption == PageSize \in Nat \ {0}
ASSUME RowsAssumption == IsFiniteSet(Rows) /\ Rows = 1..Cardinality(Rows)

\* A row of the source is an item, and rows that are sorted by their values have
\* values that can be; a partition may leave a partial result out, but not its
\* count, and not its least value (Minimum says why).
ASSUME ValuesAssumption ==
    /\ Undefined \notin Int /\ Undefined \notin [sum : Int, count : Int]
    /\ \A p \in Plans : \A v \in ValuesFor(p) :
        CASE p.aggregate = "None" ->
                v # Undefined /\ (p.distinct = "Ordered" => v \in Int)
          [] p.aggregate \in {"Count", "Min"} -> v \in Int
          [] p.aggregate \in {"Sum", "Max"} -> v = Undefined \/ v \in Int
          [] p.aggregate = "Average" ->
                v = Undefined \/ v \in [sum : Int, count : Nat \ {0}]

VARIABLES
    plan, values,                             \* the query plan, the data
    ordered, outstanding, delivered, outcome, \* the source, see QueryResults
    started, partials,                        \* AggregateEndpointComponent
    aggregateValues, aggregateValuesIndex,
    top, offset, limit,                       \* OffsetLimitEndpointComponent
    hashedResults,                            \* the Distinct components
    respHeaders,          \* charges: of an aggregate that is being gathered,
    aggregateHeaders,     \* of the rows OFFSET skips,
    fetchMoreRespHeaders, \* of the page being filled
    requestCharge,        \* history: those the caller was told,
    unyielded,            \* history: and those of pages that were not yielded
    mode,          \* the caller's way: "next", "iterate" or "all"
    phase,         \* "idle", "item", "gather" or "over"
    fetchBuffer,   \* the page being filled
    output,        \* history: the rows handed to the caller
    failed         \* history: has a call been rejected?

query == <<plan, values, mode>>
source == <<ordered, outstanding, delivered, outcome>>
aggregate == <<started, partials, aggregateValues, aggregateValuesIndex>>
limits == <<top, offset, limit>>
caller == <<phase, fetchBuffer, output, failed>>
pageCharges == <<fetchMoreRespHeaders, requestCharge, unyielded>>
charges == <<respHeaders, aggregateHeaders, pageCharges>>
vars == <<query, source, aggregate, limits, hashedResults, caller, charges>>

Source == INSTANCE QueryResults WITH MayReread <- FALSE

-----------------------------------------------------------------------------
(* Aggregators: folds of the partial results, in the order they come *)

\* compareValue of the aggregators: undefined is below every number.
Above(v, w) == v # Undefined /\ (w = Undefined \/ v > w)

AddAverages(v, w) ==
    IF v = Undefined THEN w
    ELSE IF w = Undefined THEN v
    ELSE [sum |-> v.sum + w.sum, count |-> v.count + w.count]

Add(v, w) == IF w = Undefined THEN v ELSE IF v = Undefined THEN w ELSE v + w

Count(v, w) == v + w
Maximum(v, w) == IF v = Undefined \/ Above(w, v) THEN w ELSE v

\* Min takes an undefined partial for a value below all, and the next partial for
\* a first one.
Minimum(v, w) == IF v = Undefined \/ Above(v, w) THEN w ELSE v

Begin(op) == IF op = "Count" THEN 0 ELSE Undefined

Combine(op, v, w) ==
    CASE op = "Count" -> Count(v, w)
      [] op = "Sum" -> Add(v, w)
      [] op = "Average" -> AddAverages(v, w)
      [] op = "Max" -> Maximum(v, w)
      [] op = "Min" -> Minimum(v, w)

Aggregate(op, items) ==
    LET value[i \in 0..Len(items)] ==
            IF i = 0 THEN Begin(op) ELSE Combine(op, value[i - 1], items[i])
    IN  value[Len(items)]

-----------------------------------------------------------------------------
(* hasMoreResults, from the last component of the pipeline to the source *)

\* A mutant: the limits alone tell.
MoreWhileLimitsAllow == (offset > 0 \/ limit # 0) /\ top # 0

hasMoreResults ==
    /\ offset > 0 \/ limit # 0
    /\ top # 0
    /\ IF plan.aggregate = "None" THEN outcome = "running" ELSE ~started

-----------------------------------------------------------------------------
(* nextItem, from the source up *)

\* mergeHeaders of two charges; an answer without headers has none.
MergeHeaders(headers, toBeMerged) == headers + toBeMerged

\* A page that ends is handed over with what it cost; getAsyncIterator does not
\* yield one without rows, and drops its headers.
Settle(page, cost) ==
    IF mode = "iterate" /\ page = <<>>
    THEN /\ unyielded' = MergeHeaders(unyielded, cost)
         /\ UNCHANGED requestCharge
    ELSE /\ requestCharge' = MergeHeaders(requestCharge, cost)
         /\ UNCHANGED unyielded

\* fetchAll keeps a row, fetchMore puts it into the page.  A page ends when it is
\* full and at the first undefined; mergeHeaders has added up what it cost.
Resolve(result, charge) ==
    LET page == IF result = Undefined THEN fetchBuffer ELSE Append(fetchBuffer, result)
        ends == mode = "all" \/ result = Undefined \/ Len(page) >= PageSize
        cost == MergeHeaders(fetchMoreRespHeaders, charge)
    IN /\ output' = IF ends THEN output \o page ELSE output
       /\ fetchBuffer' = IF ends THEN <<>> ELSE page
       /\ phase' = IF ends THEN "idle" ELSE "item"
       /\ fetchMoreRespHeaders' = IF ends THEN 0 ELSE cost
       /\ IF ends THEN Settle(page, cost) ELSE UNCHANGED <<requestCharge, unyielded>>
       /\ UNCHANGED failed

\* A mutant: a row that opens a page is taken for new.
SeenOnThisPage(item) == item \in hashedResults /\ fetchBuffer # <<>>

Seen(item) == item \in hashedResults

\* A row that is falsy is never looked up.
Distinct(item, charge) ==
    IF plan.distinct = "None" \/ item \in {Undefined} \union Falsy
    THEN Resolve(item, charge) /\ UNCHANGED hashedResults
    ELSE IF Seen(item)
    THEN Resolve(Undefined, charge) /\ UNCHANGED hashedResults
    ELSE /\ Resolve(item, charge)
         /\ hashedResults' = IF plan.distinct = "Ordered" THEN {item}
                             ELSE hashedResults \union {item}

Less(n) == IF n > 0 THEN n - 1 ELSE n

\* A mutant: the rows that are skipped are counted as rows given.
SkipAgainstLimit(item, charge) ==
    /\ offset' = Less(offset)
    /\ limit' = Less(limit)
    /\ UNCHANGED aggregateHeaders
    /\ IF offset > 0 THEN UNCHANGED <<hashedResults, caller, pageCharges>>
                     ELSE Distinct(item, charge)

\* A mutant: of the rows that are skipped the last one's headers are kept.
KeepLastHeaders(item, charge) ==
    IF offset > 0
    THEN /\ offset' = offset - 1
         /\ aggregateHeaders' = charge
         /\ UNCHANGED <<limit, hashedResults, caller, pageCharges>>
    ELSE /\ limit' = Less(limit)
         /\ Distinct(item, MergeHeaders(aggregateHeaders, charge))
         /\ aggregateHeaders' = 0
         /\ UNCHANGED offset

\* OffsetLimitEndpointComponent of OFFSET and LIMIT.
OffsetLimit(item, charge) ==
    IF offset > 0
    THEN /\ offset' = offset - 1
         /\ aggregateHeaders' = MergeHeaders(aggregateHeaders, charge)
         /\ UNCHANGED <<limit, hashedResults, caller, pageCharges>>
    ELSE /\ limit' = Less(limit)
         /\ Distinct(item, MergeHeaders(aggregateHeaders, charge))
         /\ aggregateHeaders' = 0
         /\ UNCHANGED offset

\* OffsetLimitEndpointComponent of TOP, which asked for an item and got it.
Top(item, charge) == top' = Less(top) /\ OffsetLimit(item, charge)

AsksSource == phase = "item" /\ (offset > 0 \/ limit # 0) /\ top # 0

\* The call is rejected.  Rows on the page are lost with it; what it cost is in the
\* error, what rows that were skipped did is lost.
Reject ==
    /\ phase' = IF mode = "next" THEN "idle" ELSE "over"
    /\ fetchBuffer' = <<>>
    /\ failed' = TRUE
    /\ requestCharge' = MergeHeaders(requestCharge, fetchMoreRespHeaders)
    /\ fetchMoreRespHeaders' = 0
    /\ aggregateHeaders' = 0
    /\ UNCHANGED <<output, respHeaders, unyielded>>

LimitReached ==
    /\ phase = "item" /\ offset = 0 /\ limit = 0
    /\ Distinct(Undefined, 0)
    /\ aggregateHeaders' = 0
    /\ UNCHANGED <<query, source, aggregate, limits, respHeaders>>

TopReached ==
    /\ phase = "item" /\ (offset > 0 \/ limit # 0) /\ top = 0
    /\ OffsetLimit(Undefined, 0)
    /\ UNCHANGED <<query, source, aggregate, top, respHeaders>>

SourceItem ==
    /\ AsksSource /\ plan.aggregate = "None"
    /\ Source!Deliver
    /\ Top(values[Last(delivered')], 1)
    /\ UNCHANGED <<query, aggregate, respHeaders>>

SourceEnds ==
    /\ AsksSource /\ plan.aggregate = "None"
    /\ \/ Source!End /\ Top(Undefined, 1)
       \/ outcome = "ended" /\ Top(Undefined, 0) /\ UNCHANGED source
    /\ UNCHANGED <<query, aggregate, respHeaders>>

\* An error of the source, which then rejects every call.
SourceFails ==
    /\ IF plan.aggregate = "None" THEN AsksSource ELSE phase = "gather"
    /\ Source!Fail \/ (outcome = "failed" /\ UNCHANGED source)
    /\ Reject
    /\ UNCHANGED <<query, aggregate, limits, hashedResults>>

\* AggregateEndpointComponent: the first nextItem gathers the partial results.
StartGathering ==
    /\ AsksSource /\ plan.aggregate # "None" /\ ~started
    /\ started' = TRUE
    /\ phase' = "gather"
    /\ UNCHANGED <<query, source, partials, aggregateValues, aggregateValuesIndex,
                   limits, hashedResults, fetchBuffer, output, failed, charges>>

Gather ==
    /\ phase = "gather"
    /\ Source!Deliver
    /\ partials' = Append(partials, values[Last(delivered')])
    /\ respHeaders' = MergeHeaders(respHeaders, 1)
    /\ UNCHANGED <<query, started, aggregateValues, aggregateValuesIndex, limits,
                   hashedResults, caller, aggregateHeaders, pageCharges>>

\* The headers of the answer that says so are dropped.
AllGathered ==
    /\ phase = "gather"
    /\ Source!End
    /\ aggregateValues' = <<Aggregate(plan.aggregate, partials)>>
    /\ phase' = "item"
    /\ UNCHANGED <<query, started, partials, aggregateValuesIndex, limits,
                   hashedResults, fetchBuffer, output, failed, charges>>

\* The values, the first with what they cost, then undefined, also if gathering
\* them failed.
NextAggregate ==
    /\ AsksSource /\ plan.aggregate # "None" /\ started
    /\ aggregateValuesIndex' =
            IF aggregateValuesIndex < Len(aggregateValues)
            THEN aggregateValuesIndex + 1 ELSE aggregateValuesIndex
    /\ Top(IF aggregateValuesIndex' < Len(aggregateValues)
           THEN aggregateValues[aggregateValuesIndex' + 1] ELSE Undefined,
           IF outcome = "ended" THEN respHeaders ELSE 0)
    /\ respHeaders' = IF outcome = "ended" THEN 0 ELSE respHeaders
    /\ UNCHANGED <<query, source, started, partials, aggregateValues>>

-----------------------------------------------------------------------------
(* The caller *)

Call ==
    /\ phase = "idle"
    /\ mode # "next" => hasMoreResults
    /\ phase' = "item"
    /\ UNCHANGED <<query, source, aggregate, limits, hashedResults, fetchBuffer,
                   output, failed, charges>>

Finish ==
    /\ phase = "idle"
    /\ mode # "next" /\ ~hasMoreResults
    /\ phase' = "over"
    /\ UNCHANGED <<query, source, aggregate, limits, hashedResults, fetchBuffer,
                   output, failed, charges>>

\* The query of an Ordered DISTINCT sorts its rows.
Init ==
    /\ plan \in Plans
    /\ values \in [Rows -> ValuesFor(plan)]
    /\ Source!Init
    /\ plan.distinct = "Ordered" =>
            ordered /\ \A r, s \in Rows : r < s => values[r] <= values[s]
    /\ plan.aggregate # "None" => ~ordered
    /\ started = FALSE /\ partials = <<>>
    /\ aggregateValues = <<>> /\ aggregateValuesIndex = -1
    /\ top = plan.top /\ offset = plan.offset /\ limit = plan.limit
    /\ hashedResults = {}
    /\ mode \in {"next", "iterate", "all"}
    /\ phase = "idle" /\ fetchBuffer = <<>> /\ output = <<>> /\ failed = FALSE
    /\ respHeaders = 0 /\ aggregateHeaders = 0
    /\ fetchMoreRespHeaders = 0 /\ requestCharge = 0 /\ unyielded = 0

Item ==
    \/ LimitReached \/ TopReached \/ SourceItem \/ SourceEnds \/ SourceFails
    \/ StartGathering \/ Gather \/ AllGathered \/ NextAggregate

Next == Call \/ Finish \/ Item

\* The source answers, and a loop goes on; a call of fetchNext need not be made.
Spec == Init /\ [][Next]_vars /\ WF_vars(Item) /\ WF_vars(mode # "next" /\ (Call \/ Finish))

-----------------------------------------------------------------------------
(* Properties, against what the clauses of the query mean *)

\* Each value once, where it comes first.
Repeats(items, i) ==
    items[i] \notin Falsy /\ \E j \in 1..(i - 1) : items[j] = items[i]

Once(items) ==
    LET once[i \in 0..Len(items)] ==
            IF i = 0 THEN <<>>
            ELSE IF Repeats(items, i) THEN once[i - 1] ELSE Append(once[i - 1], items[i])
    IN  once[Len(items)]

FirstOf(n, items) ==
    IF n = NoLimit THEN items ELSE SubSeq(items, 1, Min({n, Len(items)}))

Limited(items) ==
    LET first == FirstOf(plan.top, items)
    IN FirstOf(plan.limit, SubSeq(first, plan.offset + 1, Len(first)))

\* Over those of the rows that have a value, whoever gave them and when.
Valued == {r \in Rows : values[r] # Undefined}
Numbers == [r \in Valued |-> values[r]]
Sums == [r \in Valued |-> values[r].sum]
Counts == [r \in Valued |-> values[r].count]

Sum(f, rows) ==
    LET sum[r \in 0..Cardinality(Rows)] ==
            IF r = 0 THEN 0 ELSE sum[r - 1] + IF r \in rows THEN f[r] ELSE 0
    IN  sum[Cardinality(Rows)]

TotalOf(op, rows) ==
    IF op = "Count" THEN Sum(Numbers, rows)
    ELSE IF rows = {} THEN Undefined
    ELSE CASE op = "Sum" -> Sum(Numbers, rows)
           [] op = "Max" -> Max({values[r] : r \in rows})
           [] op = "Min" -> Min({values[r] : r \in rows})
           [] op = "Average" -> [sum |-> Sum(Sums, rows), count |-> Sum(Counts, rows)]

ItemsOf(value) == IF value = Undefined THEN <<>> ELSE <<value>>

\* The rows the caller is due, if the source gives the rest of them in order.
InOrder(rows) ==
    [i \in 1..Cardinality(rows) |->
        CHOOSE r \in rows : Cardinality({q \in rows : q < r}) = i - 1]
RowsInTurn == delivered \o InOrder(outstanding)

Answer ==
    IF plan.aggregate # "None"
    THEN Limited(ItemsOf(TotalOf(plan.aggregate, Valued)))
    ELSE LET items == [i \in DOMAIN RowsInTurn |-> values[RowsInTurn[i]]]
         IN IF plan.distinct = "None" THEN Limited(items) ELSE Once(Limited(items))

\* Whatever the plan, the order the partitions answer in, the size of pages and
\* the way the caller walks them, he is given what the query means: the rows in
\* turn, skipped and cut as OFFSET, LIMIT and TOP say, each value once if it is
\* DISTINCT, an aggregate over all rows that have a value.  Licences: DISTINCT is
\* applied after the limits, and does not see falsy values; MIN is asked only of
\* partitions that all have a value (ValuesAssumption, Minimum).
OutputIsTheAnswer == ~failed => IsPrefix(output, Answer)

\* hasMoreResults turns false only when the whole answer has been handed over,
\* though pages may come up short and loops stop there.
NoMoreMeansAllGiven ==
    (phase \in {"idle", "over"} /\ ~hasMoreResults /\ ~failed) => output = Answer

\* Every charge of the source is told to the caller once, with the page or row it
\* was for, or is on the way to him in one component: those of rows that are
\* skipped, dropped as duplicates or gathered included.  Licences: the answer that
\* ends a gathering, and a LIMIT of 0, whose components throw the headers away; and
\* the pages without rows, which getAsyncIterator does not yield: their charges are
\* counted in unyielded, and nobody is told.
ChargesAddUp ==
    ~failed /\ plan.limit # 0 =>
        requestCharge + unyielded + fetchMoreRespHeaders + aggregateHeaders + respHeaders
            = Len(delivered)
              + IF outcome = "ended" /\ plan.aggregate = "None" THEN 1 ELSE 0

\* The loops of fetchAll and getAsyncIterator come to an end: with limits that the
\* rows do not reach, rows that DISTINCT drops, and errors.
LoopsEnd == mode # "next" ~> phase = "over"
=============================================================================

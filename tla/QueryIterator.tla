----------------------------- MODULE QueryIterator -----------------------------
(***************************************************************************)
(* An iterator over a feed or a query: QueryIterator, the                  *)
(* DefaultQueryExecutionContext it starts with, which follows the          *)
(* continuations of the service and may fetch a page ahead, and the        *)
(* PipelinedQueryExecutionContext it falls back to once the service says   *)
(* that the query spans partitions (400 / 1004).                           *)
(*                                                                         *)
(* The caller awaits each call before the next, as the documentation shows,*)
(* and may mix fetchNext, fetchAll, getAsyncIterator and reset.  Any fetch *)
(* may fail.  A continuation is the number of the page it asks for.        *)
(* Headers and metrics are left out, and so is forceQueryPlan, which has   *)
(* no effect: init (lines 230-238) never starts _init.                     *)
(***************************************************************************)
EXTENDS Integers, Sequences, SequencesExt

CONSTANTS
    Pages,       \* what the service answers: a sequence of sequences of rows,
                 \* which are numbers
    Starts,      \* the continuations a caller may pass in options, 0 for none
    PageSize,    \* maxItemCount, the page size of a pipelined query
    MaxFaults    \* bound: fetches that fail

ASSUME PagesAssumption ==
    Pages \in Seq(Seq(Nat)) \ {<<>>} /\ Starts \subseteq 0..Len(Pages)
ASSUME BoundAssumption == PageSize \in Nat \ {0} /\ MaxFaults \in Nat

VARIABLES
    crossPartition,        \* service: is the query answered by 400 / 1004?
    bufferItems,           \* FeedOptions.bufferItems
    userContinuation,      \* FeedOptions.continuation, as the caller gave it
    optionsContinuation,   \* options.continuation now: the object is shared
    context,               \* queryExecutionContext: "default" or "pipelined"
    state,                 \* of the context: "start", "inProgress", "ended"
    continuation,          \* of the context: 0 is null, Undefined past the end
    currentPartitionIndex, \* 0, or 1 when the one fetch function is done
    resources,             \* the page that nextItem walks
    currentIndex,          \* its place in it
    nextFetchFunction,     \* the page fetched ahead, None if there is none
    queryPlan,             \* queryPlanPromise: "unknown", "ok" or "failed"
    call,                  \* the call under way: "none", "next", "all", "iterate"
    fetching,              \* the page being awaited, None if none is
    original,              \* originalContinuation of that fetchMore
    position,              \* rows the pipelined context has given
    startedAt,             \* history: the continuation the context started with
    taken,                 \* rows taken from the context since the last reset,
                           \* what fetchAll gathers (fetchAllTempResources)
                           \* included
    faults                 \* bound counter

Undefined == Len(Pages) + 1
None == -1

service == <<crossPartition, bufferItems, userContinuation>>
default == <<state, continuation, currentPartitionIndex, resources, currentIndex,
             nextFetchFunction>>
inFlight == <<fetching, original>>
vars == <<service, optionsContinuation, context, default, queryPlan, call, inFlight,
          position, startedAt, taken, faults>>

AllRows == FlattenSeq(Pages)
PageNumber(token) == IF token = 0 THEN 1 ELSE token
RowsFrom(token) == FlattenSeq(SubSeq(Pages, PageNumber(token), Len(Pages)))

-----------------------------------------------------------------------------
(* DefaultQueryExecutionContext *)

CanFetchMore ==
    \/ state = "start"
    \/ state = "inProgress" /\ (continuation # Undefined \/ currentPartitionIndex = 0)

\* A mutant: a page that was walked to its last row but one counts as done.
ForgettingTheLastRow ==
    IF context = "pipelined" THEN state # "ended"
    ELSE \/ state = "start" \/ continuation # Undefined
         \/ currentIndex < Len(resources) - 2 \/ currentPartitionIndex = 0

\* currentIndex counts from 0.  A pipelined context has more until it ended.
hasMoreResults ==
    IF context = "pipelined" THEN state # "ended"
    ELSE \/ state = "start" \/ continuation # Undefined
         \/ currentIndex < Len(resources) - 1 \/ currentPartitionIndex = 0

\* fetchMore up to its await: the page fetched ahead, or a fresh fetch of the
\* continuation, which is put into the options that the iterator shares.
Fetch ==
    /\ original' = optionsContinuation
    /\ optionsContinuation' = continuation
    /\ fetching' = IF nextFetchFunction # None THEN nextFetchFunction
                   ELSE PageNumber(continuation)
    /\ nextFetchFunction' = None

\* A mutant: the page ahead is asked for with the continuation of this page.
SamePageAhead(page) == IF bufferItems THEN page ELSE None

PageAhead(page) ==
    IF bufferItems /\ page < Len(Pages) THEN page + 1 ELSE None

\* A mutant: an empty page is asked for again.
UnlessEmpty(page) == IF Pages[page] = <<>> THEN page ELSE page + 1

\* The continuation in the headers of a page; none in those of the last.
ContinuationOf(page) == page + 1

\* fetchMore after its await.
PageArrives(page) ==
    /\ continuation' = ContinuationOf(page)
    /\ currentPartitionIndex' = IF continuation' = Undefined THEN 1 ELSE 0
    /\ nextFetchFunction' = PageAhead(page)
    /\ state' = "inProgress"
    /\ currentIndex' = 0
    /\ optionsContinuation' = original
    /\ fetching' = None
    /\ UNCHANGED <<original, faults>>

\* The options keep the continuation of the fetch that failed.
FetchThrows ==
    /\ state' = "ended"
    /\ fetching' = None
    /\ UNCHANGED <<continuation, currentPartitionIndex, currentIndex, resources,
                   nextFetchFunction, optionsContinuation, original>>

-----------------------------------------------------------------------------
(* QueryIterator *)

\* A new context, which starts where the options say.
Reset ==
    /\ context' = "default" /\ state' = "start"
    /\ continuation' = optionsContinuation
    /\ currentPartitionIndex' = 0
    /\ resources' = <<>> /\ currentIndex' = 0
    /\ nextFetchFunction' = None
    /\ queryPlan' = "unknown" /\ position' = 0
    /\ startedAt' = optionsContinuation /\ taken' = <<>>

reset ==
    /\ call = "none"
    /\ Reset
    /\ UNCHANGED <<service, optionsContinuation, call, inFlight, faults>>

\* The loops of getAsyncIterator and fetchAll start from a reset.
StartOver(kind) ==
    /\ call = "none"
    /\ Reset
    /\ call' = kind
    /\ UNCHANGED <<service, optionsContinuation, inFlight, faults>>

fetchNext ==
    /\ call = "none"
    /\ call' = "next"
    /\ UNCHANGED <<service, optionsContinuation, context, default, queryPlan,
                   inFlight, position, startedAt, taken, faults>>

\* fetchMore for a page, or nextItem when the page at hand is used up.
FetchPage ==
    /\ call # "none" /\ fetching = None
    /\ context = "default" /\ currentPartitionIndex = 0
    /\ call \in {"all", "iterate"} => hasMoreResults
    /\ call = "all" => currentIndex + 1 >= Len(resources) /\ CanFetchMore
    /\ Fetch
    /\ UNCHANGED <<service, context, state, continuation, currentPartitionIndex,
                   resources, currentIndex, queryPlan, call, position,
                   startedAt, taken, faults>>

\* nextItem: the next row of the page at hand.
NextItem ==
    /\ call = "all" /\ fetching = None
    /\ context = "default" /\ hasMoreResults
    /\ currentIndex + 1 < Len(resources)
    /\ currentIndex' = currentIndex + 1
    /\ taken' = Append(taken, resources[currentIndex + 2])
    /\ UNCHANGED <<service, optionsContinuation, context, state, continuation,
                   currentPartitionIndex, resources, nextFetchFunction, queryPlan,
                   call, inFlight, position, startedAt, faults>>

\* A page is answered.  fetchAll keeps it and takes its first row, if it has one;
\* getAsyncIterator yields it, and its loop goes on or is left by the caller.
Page ==
    /\ fetching \in DOMAIN Pages
    /\ ~crossPartition
    /\ PageArrives(fetching)
    /\ LET page == Pages[fetching]
       IN IF call = "all"
          THEN /\ resources' = page
               /\ taken' = IF page = <<>> THEN taken ELSE Append(taken, Head(page))
               /\ UNCHANGED call
          ELSE /\ taken' = taken \o page
               /\ call' \in IF call = "iterate" THEN {"iterate", "none"} ELSE {"none"}
               /\ UNCHANGED resources
    /\ UNCHANGED <<service, context, queryPlan, position, startedAt>>

\* The fetch fails, and so does the call.
FetchFails ==
    /\ fetching # None
    /\ faults < MaxFaults
    /\ faults' = faults + 1
    /\ FetchThrows
    /\ call' = "none"
    /\ UNCHANGED <<service, context, queryPlan, position, startedAt, taken>>

\* 400 / 1004, and the query plan, asked for when the call began, is there.
CreatePipelinedExecutionContext ==
    /\ fetching # None
    /\ crossPartition
    /\ queryPlan \in {"unknown", "ok"}
    /\ queryPlan' = "ok"
    /\ context' = "pipelined"
    /\ state' = "start"
    /\ fetching' = None
    /\ UNCHANGED <<service, optionsContinuation, continuation, currentPartitionIndex,
                   resources, currentIndex, nextFetchFunction, call, original,
                   position, startedAt, taken, faults>>

\* 400 / 1004, but the query plan failed: its error is kept until a reset.
QueryPlanFails ==
    /\ fetching # None
    /\ crossPartition
    /\ \/ queryPlan = "failed" /\ UNCHANGED faults
       \/ queryPlan = "unknown" /\ faults < MaxFaults /\ faults' = faults + 1
    /\ queryPlan' = "failed"
    /\ FetchThrows
    /\ call' = "none"
    /\ UNCHANGED <<service, context, position, startedAt, taken>>

\* fetchMore of the pipeline: up to a page of rows, or undefined at the end.
\* nextItem gives one row.
PipelinedPage ==
    /\ call # "none" /\ context = "pipelined" /\ state # "ended"
    /\ LET size == IF call = "all" THEN 1 ELSE PageSize
           upTo == IF position + size < Len(AllRows) THEN position + size
                   ELSE Len(AllRows)
           rows == SubSeq(AllRows, position + 1, upTo)
       IN /\ position' = upTo
          /\ state' = IF upTo < position + size THEN "ended" ELSE "inProgress"
          /\ taken' = taken \o rows
          /\ call' \in CASE call = "all" -> {"all"}
                         [] call = "iterate" -> {"iterate", "none"}
                         [] call = "next" -> {"none"}
    /\ UNCHANGED <<service, optionsContinuation, context, continuation,
                   currentPartitionIndex, resources, currentIndex, nextFetchFunction,
                   queryPlan, inFlight, startedAt, faults>>

\* fetchMore of a context that is done answers undefined and changes nothing.
NothingLeft ==
    /\ call = "next" /\ fetching = None
    /\ IF context = "default" THEN currentPartitionIndex = 1 ELSE state = "ended"
    /\ call' = "none"
    /\ UNCHANGED <<service, optionsContinuation, context, default, queryPlan,
                   inFlight, position, startedAt, taken, faults>>

\* The loops of getAsyncIterator and fetchAll are through.
Finish ==
    /\ call \in {"all", "iterate"} /\ fetching = None
    /\ ~hasMoreResults
    /\ call' = "none"
    /\ UNCHANGED <<service, optionsContinuation, context, default, queryPlan,
                   inFlight, position, startedAt, taken, faults>>

-----------------------------------------------------------------------------

Init ==
    /\ crossPartition \in BOOLEAN /\ bufferItems \in BOOLEAN
    /\ userContinuation \in Starts
    /\ crossPartition => userContinuation = 0
    /\ optionsContinuation = userContinuation
    /\ context = "default" /\ state = "start"
    /\ continuation = userContinuation
    /\ currentPartitionIndex = 0
    /\ resources = <<>> /\ currentIndex = 0
    /\ nextFetchFunction = None
    /\ queryPlan = "unknown"
    /\ call = "none" /\ fetching = None /\ original = userContinuation
    /\ position = 0
    /\ startedAt = userContinuation /\ taken = <<>>
    /\ faults = 0

\* What the client does once a call is made, and what it is answered.
Progress ==
    \/ FetchPage \/ NextItem \/ Page \/ FetchFails
    \/ CreatePipelinedExecutionContext \/ QueryPlanFails \/ PipelinedPage
    \/ NothingLeft \/ Finish

Next ==
    \/ reset \/ fetchNext \/ StartOver("all") \/ StartOver("iterate")
    \/ Progress

Spec == Init /\ [][Next]_vars /\ WF_vars(Progress)

-----------------------------------------------------------------------------
(* Properties *)

\* Whatever fails on the way and is tried again, pages fetched ahead included, and
\* whether they are taken row by row (fetchAll) or page by page, the rows taken
\* since the last reset are the rows from where the context started, in order,
\* each once.
RowsInOrder == IsPrefix(taken, RowsFrom(startedAt))

\* An iterator that says it has no more results has given the last row: hence
\* fetchAll, which resolves only then, returns them all.
NoMoreMeansAll == ~hasMoreResults => taken = RowsFrom(startedAt)

\* Every call comes to an end: the loops of fetchAll and getAsyncIterator do not
\* turn on a context that has more by its word and can give nothing.
CallsEnd == call # "none" ~> call = "none"

\* "Reset the QueryIterator to the beginning" (queryIterator.ts:145).  Refuted: a
\* fetch that failed leaves its continuation in the options.
ResetStartsFromTheBeginning == startedAt = userContinuation
=============================================================================

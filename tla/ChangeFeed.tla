------------------------------ MODULE ChangeFeed ------------------------------
(***************************************************************************)
(* ChangeFeedIterator: the changes of one partition key, page by page.     *)
(* Each call sends the etag of the last answer as If-None-Match, and only  *)
(* an answer that arrives moves it on.  Items go on changing meanwhile, a  *)
(* call may fail before or after it is served, and calls may overlap.      *)
(*                                                                         *)
(* The service (external) keeps a log of changes and shows of each item    *)
(* its last change only.  An etag, and a time, is a place in that log.     *)
(* Session tokens and the size of pages are passed on as they are.         *)
(***************************************************************************)
EXTENDS Integers, Sequences, FiniteSets, FiniteSetsExt, SequencesExt

CONSTANTS
    Items,         \* the items of the partition key
    Options,       \* the ChangeFeedOptions a caller may give
    MaxItemCount,  \* changes in a page
    Callers,       \* concurrent calls
    MaxChanges,    \* bound: changes in the log
    MaxFaults      \* bound: calls that fail

None == -2         \* an option or a header that is absent
All == -1          \* If-None-Match: *

ASSUME OptionsAssumption ==
    Options \subseteq [continuation : {None} \union Nat, startTime : {None} \union Nat,
                       startFromBeginning : BOOLEAN]
ASSUME BoundAssumption ==
    MaxItemCount \in Nat \ {0} /\ MaxChanges \in Nat /\ MaxFaults \in Nat

VARIABLES
    log,              \* service: the item of each change
    nextIfNoneMatch,  \* the etag to go on from, All or None
    ifModifiedSince,  \* the start time, sent with every request
    lastStatusCode,   \* of the last answer, None before
    pc,               \* of each call: "idle", "sent" or "served"
    looping,          \* of each call: is it a turn of getAsyncIterator?
    asked,            \* of each call: the If-None-Match it carries
    answer,           \* of each call: the page, status and etag on their way
    delivered,        \* history: the changes handed to the caller
    start,            \* history: where the feed starts
    overlapped,       \* history: have two calls been under way at once?
    faults            \* bound counter

iterator == <<nextIfNoneMatch, ifModifiedSince, lastStatusCode>>
calls == <<pc, looping, asked, answer>>
history == <<delivered, start, overlapped>>
vars == <<log, iterator, calls, history, faults>>

-----------------------------------------------------------------------------
(* The service *)

Latest(i) == \A j \in DOMAIN log : j > i => log[j] # log[i]

\* In the order of the log.
ChangesAfter(place) ==
    LET among[i \in 0..Len(log)] ==
            IF i = 0 THEN <<>>
            ELSE IF i > place /\ Latest(i) THEN Append(among[i - 1], i)
                                           ELSE among[i - 1]
    IN  among[Len(log)]

\* Where a request starts: an etag comes before a time.
From(condition) ==
    CASE condition = All -> Len(log)
      [] condition >= 0 -> condition
      [] condition = None -> Max({0, ifModifiedSince})

\* The first page after it, or 304, and an etag in either case.
Served(condition) ==
    LET changes == ChangesAfter(From(condition))
        page == SubSeq(changes, 1, Min({MaxItemCount, Len(changes)}))
    IN [page |-> page,
        code |-> IF page = <<>> THEN 304 ELSE 200,
        etag |-> IF Len(page) = Len(changes) THEN Len(log) ELSE Last(page)]

Change(item) ==
    /\ Len(log) < MaxChanges
    /\ log' = Append(log, item)
    /\ UNCHANGED <<iterator, calls, history, faults>>

Serve(c) ==
    /\ pc[c] = "sent"
    /\ pc' = [pc EXCEPT ![c] = "served"]
    /\ answer' = [answer EXCEPT ![c] = Served(asked[c])]
    /\ UNCHANGED <<log, iterator, looping, asked, history, faults>>

-----------------------------------------------------------------------------
(* ChangeFeedIterator *)

\* The constructor: the continuation, else from now on, unless a start time or
\* the beginning is asked for.
FirstIfNoneMatch(options) ==
    IF options.continuation # None THEN options.continuation
    ELSE IF options.startTime = None /\ ~options.startFromBeginning THEN All
    ELSE None

hasMoreResults == lastStatusCode # 304

\* A call begins: everything up to the request is synchronous.
Send(c) ==
    /\ pc' = [pc EXCEPT ![c] = "sent"]
    /\ asked' = [asked EXCEPT ![c] = nextIfNoneMatch]
    /\ overlapped' = (overlapped \/ \E other \in Callers \ {c} : pc[other] # "idle")

fetchNext(c) ==
    /\ pc[c] = "idle" /\ ~looping[c]
    /\ Send(c)
    /\ UNCHANGED <<log, iterator, looping, answer, delivered, start, faults>>

\* getAsyncIterator fetches once before it asks whether there is more.
StartLoop(c) ==
    /\ pc[c] = "idle" /\ ~looping[c]
    /\ looping' = [looping EXCEPT ![c] = TRUE]
    /\ Send(c)
    /\ UNCHANGED <<log, iterator, answer, delivered, start, faults>>

LoopAgain(c) ==
    /\ pc[c] = "idle" /\ looping[c] /\ hasMoreResults
    /\ Send(c)
    /\ UNCHANGED <<log, iterator, looping, answer, delivered, start, faults>>

\* There is no more, or the caller breaks out of the loop.
EndLoop(c) ==
    /\ pc[c] = "idle" /\ looping[c]
    /\ looping' = [looping EXCEPT ![c] = FALSE]
    /\ UNCHANGED <<log, iterator, pc, asked, answer, history, faults>>

NoAnswer == [page |-> <<>>, code |-> None, etag |-> None]

Forget(c) ==
    /\ asked' = [asked EXCEPT ![c] = None]
    /\ answer' = [answer EXCEPT ![c] = NoAnswer]

\* A mutant: a page that is not the last does not move the etag.
EtagOfQuietAnswers(reply) == IF reply.code = 304 THEN reply.etag ELSE nextIfNoneMatch

EtagOf(reply) == reply.etag

Receive(c) ==
    /\ pc[c] = "served"
    /\ pc' = [pc EXCEPT ![c] = "idle"]
    /\ lastStatusCode' = answer[c].code
    /\ nextIfNoneMatch' = EtagOf(answer[c])
    /\ delivered' = delivered \union ToSet(answer[c].page)
    /\ start' = IF asked[c] = All THEN Max({start, answer[c].etag}) ELSE start
    /\ Forget(c)
    /\ UNCHANGED <<log, ifModifiedSince, looping, overlapped, faults>>

\* A mutant: the etag moves on before the page is there.
FailAndMoveOn(c) ==
    /\ pc[c] \in {"sent", "served"}
    /\ faults < MaxFaults
    /\ faults' = faults + 1
    /\ pc' = [pc EXCEPT ![c] = "idle"]
    /\ looping' = [looping EXCEPT ![c] = FALSE]
    /\ nextIfNoneMatch' = Served(asked[c]).etag
    /\ Forget(c)
    /\ UNCHANGED <<log, ifModifiedSince, lastStatusCode, history>>

\* The call is rejected, and its loop with it; the iterator stays where it was.
Fail(c) ==
    /\ pc[c] \in {"sent", "served"}
    /\ faults < MaxFaults
    /\ faults' = faults + 1
    /\ pc' = [pc EXCEPT ![c] = "idle"]
    /\ looping' = [looping EXCEPT ![c] = FALSE]
    /\ Forget(c)
    /\ UNCHANGED <<log, iterator, history>>

-----------------------------------------------------------------------------

Init ==
    /\ log = <<>>
    /\ \E options \in Options :
        /\ nextIfNoneMatch = FirstIfNoneMatch(options)
        /\ ifModifiedSince = options.startTime
        /\ start = Max({0, options.startTime, options.continuation})
    /\ lastStatusCode = None
    /\ pc = [c \in Callers |-> "idle"]
    /\ looping = [c \in Callers |-> FALSE]
    /\ asked = [c \in Callers |-> None]
    /\ answer = [c \in Callers |-> NoAnswer]
    /\ delivered = {}
    /\ overlapped = FALSE
    /\ faults = 0

Next ==
    \/ \E item \in Items : Change(item)
    \/ \E c \in Callers :
        \/ fetchNext(c) \/ StartLoop(c) \/ LoopAgain(c) \/ EndLoop(c)
        \/ Serve(c) \/ Receive(c) \/ Fail(c)

Spec == Init /\ [][Next]_vars

-----------------------------------------------------------------------------
(* Properties *)

\* The changes the next request will be answered with, sooner or later.
Ahead(i) ==
    CASE nextIfNoneMatch = All -> TRUE
      [] nextIfNoneMatch = None -> TRUE
      [] nextIfNoneMatch >= 0 -> i > nextIfNoneMatch

\* No change is missed, whatever fails, however calls overlap and their answers
\* are reordered: the last change of each item since the start has been handed
\* over or is still ahead of the etag.  A feed that starts from now starts where
\* the service last answered a request for "now": that is a licence, a first call
\* that fails or overlaps another moves the start.
NothingMissed ==
    \A i \in DOMAIN log :
        (i > start /\ Latest(i)) => Ahead(i) \/ i \in delivered

\* Calls that do not overlap hand over no change twice and none after a newer one,
\* also if pages are cut short and calls fail in between: what is on its way is
\* newer than what was handed over.
ChangesInOrder ==
    ~overlapped =>
        \A c \in Callers : \A i \in ToSet(answer[c].page), j \in delivered : j < i
=============================================================================

--------------------------- MODULE RequestExecution ---------------------------
(***************************************************************************)
(* A client's requests, from retryUtility.execute                          *)
(* (src/src/retry/retryUtility.ts) through the four retry policies to the  *)
(* HTTP exchange of src/src/request/RequestHandler.ts, over the shared     *)
(* LocationCache.  What the requests do to the session tokens is in        *)
(* SessionContainer.                                                       *)
(*                                                                         *)
(* The service is the environment: a request that reaches it may be        *)
(* answered, refused in each of the ways the policies tell apart, or lost  *)
(* with its connection before or after it took effect.  What the account   *)
(* reads of refreshEndpointList do is in GlobalEndpointManager; here they  *)
(* are account reads at any time (RefreshAccount), of which a request that *)
(* awaits a refresh sees some or none.                                     *)
(***************************************************************************)
EXTENDS LocationCache

CONSTANTS
    Requests,      \* the requests a client makes
    MaxDiscovery,  \* EndpointDiscoveryRetryPolicy.maxRetryAttemptCount
    MaxConnection, \* DefaultRetryPolicy.maxRetryAttemptCount
    MaxThrottle,   \* retryOptions.maxRetryAttemptCount
    MaxWait,       \* retryOptions.maxWaitTimeInSeconds
    FixedInterval, \* retryOptions.fixedRetryIntervalInMilliseconds, 0: none
    RetryAfters    \* values of the retry-after header of the service

ASSUME BudgetAssumption ==
    /\ {MaxDiscovery, MaxConnection, MaxThrottle, MaxWait, FixedInterval}
           \subseteq Nat
    /\ RetryAfters \subseteq Nat

VARIABLES
    request,      \* is it a read? of a multi-writable kind? was
                  \* options.abortSignal passed?
    pc,           \* "new", "sent", "aborted", "refreshing", "retrying", ...
    retryContext, \* shared by the four policies of a request
    used,         \* currentRetryAttemptCount of each policy of a request
    waited,       \* cummulativeWaitTimeinMilliseconds of a request
    sentTo,       \* requestContext.endpoint
    userAborted,  \* signals the caller has aborted
    attempts,     \* history: how often each request was sent
    tried,        \* history: the endpoints it was sent to
    applied,      \* history: how often the service carried it out
    steadyList    \* history: the endpoint list of its kind, if several
                  \* regions were writable and the list was the same
                  \* whenever it was sent, else <<>>

history == <<attempts, tried, applied, steadyList>>
execVars == <<request, pc, retryContext, used, waited, sentTo,
              userAborted, history>>
reqVars == <<cacheVars, execVars>>

Policies == {"discovery", "throttle", "session", "connection"}
Done == {"succeeded", "failed"}
RequestKinds == [read: BOOLEAN, multiWritable: BOOLEAN, signal: BOOLEAN]
EmptyContext == [retryCount |-> 0, onPreferred |-> FALSE, clear |-> FALSE]

RequestInit ==
    /\ CacheInit
    /\ request \in [Requests -> RequestKinds]
    /\ pc = [q \in Requests |-> "new"]
    /\ retryContext = [q \in Requests |-> EmptyContext]
    /\ used = [q \in Requests |-> [p \in Policies |-> 0]]
    /\ waited = [q \in Requests |-> 0]
    /\ sentTo = [q \in Requests |-> DefaultEndpoint]
    /\ userAborted = {}
    /\ attempts = [q \in Requests |-> 0]
    /\ tried = [q \in Requests |-> {}]
    /\ applied = [q \in Requests |-> 0]
    /\ steadyList = [q \in Requests |-> <<>>]

-----------------------------------------------------------------------------
(* Sending *)

\* How execute asks for the request to be routed: after no failure, and after
\* most, the retry context asks to ignore the preferred locations.
RouteOf(q) == [ignorePreferredLocation |-> ~retryContext[q].onPreferred,
               index |-> retryContext[q].retryCount]

\* Whether httpRequest aborts the exchange it is about to start.
AbortsAtOnce(q) == request[q].signal

\* The endpoints the session policy counts and tries.
EndpointsFor(q) == IF request[q].read THEN readEndpoints ELSE writeEndpoints

\* A mutant: the retry that was granted is never made.
SendableOnce(q) == pc[q] = "new"

Sendable(q) == pc[q] \in {"new", "retrying"}

\* One call of execute up to the answer: route and send.
Send(q) ==
    /\ Sendable(q)
    /\ sentTo' = [sentTo EXCEPT
                     ![q] = ResolveServiceEndpoint(request[q], RouteOf(q))]
    /\ pc' = [pc EXCEPT ![q] = IF AbortsAtOnce(q) THEN "aborted" ELSE "sent"]
    /\ attempts' = [attempts EXCEPT ![q] = @ + 1]
    /\ tried' = [tried EXCEPT ![q] = @ \cup {sentTo'[q]}]
    /\ steadyList' = [steadyList EXCEPT ![q] =
           IF /\ CanUseMultipleWriteLocationsFor(request[q].multiWritable)
              /\ pc[q] = "new" \/ @ = EndpointsFor(q)
           THEN EndpointsFor(q) ELSE <<>>]
    /\ UNCHANGED <<request, cacheVars, retryContext, used, waited, userAborted,
                   applied>>

\* A mutant: every retry starts with new policies, which have counted nothing.
DecideAfresh(q, policy, retry, ctx) ==
    /\ pc' = [pc EXCEPT ![q] = IF retry THEN "retrying" ELSE "failed"]
    /\ used' = used
    /\ retryContext' =
           IF retry THEN [retryContext EXCEPT ![q] = ctx] ELSE retryContext

\* A policy answers shouldRetry: with TRUE it counts the retry and leaves ctx
\* in the retry context.
Decide(q, policy, retry, ctx) ==
    /\ pc' = [pc EXCEPT ![q] = IF retry THEN "retrying" ELSE "failed"]
    /\ used' = IF retry THEN [used EXCEPT ![q][policy] = @ + 1] ELSE used
    /\ retryContext' =
           IF retry THEN [retryContext EXCEPT ![q] = ctx] ELSE retryContext

-----------------------------------------------------------------------------
(* Answers *)

\* The service carries the request out.
Succeed(q) ==
    /\ pc[q] = "sent"
    /\ pc' = [pc EXCEPT ![q] = "succeeded"]
    /\ applied' = [applied EXCEPT ![q] = @ + 1]
    /\ UNCHANGED <<request, cacheVars, retryContext, used, waited, sentTo,
                   userAborted, attempts, tried, steadyList>>

\* A mutant: any operation is retried after a connection error.
RetriesAnyConnectionError(q) == TRUE

\* The connection breaks or times out, before or after the request was carried
\* out, or httpRequest itself aborted it: a TimeoutError unless the caller did.
RetriesConnectionError(q) == request[q].read

ConnectionLost(q) ==
    LET retry == /\ used[q]["connection"] < MaxConnection
                 /\ RetriesConnectionError(q)
                 /\ ~(pc[q] = "aborted" /\ q \in userAborted)
    IN  /\ pc[q] \in {"sent", "aborted"}
        /\ Decide(q, "connection", retry, retryContext[q])
        /\ \/ applied' = applied
           \/ /\ pc[q] = "sent"
              /\ applied' = [applied EXCEPT ![q] = @ + 1]
        /\ UNCHANGED <<request, cacheVars, waited, sentTo, userAborted,
                       attempts, tried, steadyList>>

\* Whether the throttling policy has time left: what it waited so far is
\* compared, without the wait that is about to come.
WaitLeft(q) == waited[q] < MaxWait

\* 429: the request was not carried out; the retry waits for the fixed interval
\* or for as long as the service says.  An attempt is counted even if the time
\* is used up.
Throttled(q, retryAfter) ==
    LET counts == used[q]["throttle"] < MaxThrottle
        wait == IF FixedInterval > 0 THEN FixedInterval ELSE retryAfter
        retry == counts /\ WaitLeft(q)
    IN  /\ pc[q] = "sent"
        /\ pc' = [pc EXCEPT ![q] = IF retry THEN "retrying" ELSE "failed"]
        /\ used' = IF counts THEN [used EXCEPT ![q]["throttle"] = @ + 1]
                             ELSE used
        /\ waited' = IF retry THEN [waited EXCEPT ![q] = @ + wait] ELSE waited
        /\ UNCHANGED <<request, cacheVars, retryContext, sentTo, userAborted,
                       history>>

\* 403/3: the endpoint is marked, and the request waits for a refresh before it
\* is routed to the first two write regions in turn.
WriteForbidden(q) ==
    LET retry == /\ EnableEndpointDiscovery
                 /\ used[q]["discovery"] < MaxDiscovery
        op == IF request[q].read THEN "Read" ELSE "Write"
    IN  /\ pc[q] = "sent"
        /\ IF retry
           THEN /\ MarkEndpointUnavailable(sentTo[q], op)
                /\ used' = [used EXCEPT ![q]["discovery"] = @ + 1]
                /\ pc' = [pc EXCEPT ![q] = "refreshing"]
           ELSE /\ pc' = [pc EXCEPT ![q] = "failed"]
                /\ UNCHANGED <<cacheVars, used>>
        /\ UNCHANGED <<request, retryContext, waited, sentTo, userAborted,
                       history>>

\* refreshEndpointList returned to the policy.
Refreshed(q) ==
    /\ pc[q] = "refreshing"
    /\ pc' = [pc EXCEPT ![q] = "retrying"]
    /\ retryContext' = [retryContext EXCEPT ![q] =
           [EmptyContext EXCEPT !.retryCount = used[q]["discovery"]]]
    /\ UNCHANGED <<request, cacheVars, used, waited, sentTo, userAborted,
                   history>>

\* A mutant: one retry for each endpoint, the forced first one included.
SessionBudgetOffByOne(endpoints) == Len(endpoints)

\* A mutant: the count is compared before it is raised, once too often.
SessionBudgetTooLarge(endpoints) == Len(endpoints) + 2

\* How many session retries there may be, and when the token is dropped.
SessionBudget(endpoints) == Len(endpoints) + 1

\* 404/1002: with several write regions the endpoints of the list are tried in
\* turn (the list may be recomputed first), else the primary twice.
SessionNotAvailable(q) ==
    LET multi == CanUseMultipleWriteLocationsFor(request[q].multiWritable)
        n == used[q]["session"]
        budget == IF multi THEN SessionBudget(EndpointsFor(q)') ELSE 2
        retry == EnableEndpointDiscovery /\ n < budget
        ctx == [retryCount  |-> n,
                onPreferred |-> multi /\ n > 0,
                clear       |-> multi => n + 1 = Len(EndpointsFor(q)')]
    IN  /\ pc[q] = "sent"
        /\ UNCHANGED <<request, waited, sentTo, userAborted, history>>
        /\ IF multi /\ EnableEndpointDiscovery THEN GetEndpoints
                                               ELSE UNCHANGED cacheVars
        /\ Decide(q, "session", retry, ctx)

\* Any other error ends the request.
Refused(q) ==
    /\ pc[q] = "sent"
    /\ pc' = [pc EXCEPT ![q] = "failed"]
    /\ UNCHANGED <<request, cacheVars, retryContext, used, waited, sentTo,
                   userAborted, history>>

-----------------------------------------------------------------------------
(* Environment *)

UserAborts(q) ==
    /\ request[q].signal
    /\ q \notin userAborted
    /\ pc[q] \notin Done
    /\ userAborted' = userAborted \cup {q}
    /\ UNCHANGED <<request, cacheVars, pc, retryContext, used, waited, sentTo,
                   history>>

RefreshAccount ==
    /\ \E acc \in Accounts : OnDatabaseAccountRead(acc)
    /\ UNCHANGED execVars

TimePasses == Tick /\ UNCHANGED execVars

Answer(q) ==
    \/ Succeed(q)
    \/ ConnectionLost(q)
    \/ \E retryAfter \in RetryAfters : Throttled(q, retryAfter)
    \/ WriteForbidden(q)
    \/ SessionNotAvailable(q)
    \/ Refused(q)

RequestNext ==
    \/ \E q \in Requests :
           Send(q) \/ Answer(q) \/ Refreshed(q) \/ UserAborts(q)
    \/ RefreshAccount
    \/ TimePasses

\* Requests are sent once made, every exchange is answered or times out
\* (requestTimeout), and every refresh a request awaits ends.
RequestFairness ==
    \A q \in Requests : WF_reqVars(Send(q) \/ Answer(q) \/ Refreshed(q))

RequestSpec == RequestInit /\ [][RequestNext]_reqVars /\ RequestFairness

-----------------------------------------------------------------------------
(* Properties *)

\* No write is carried out twice: whatever sequence of failures a write meets,
\* it is sent again only after answers that say it was not carried out.
WritesAppliedAtMostOnce ==
    \A q \in Requests : ~request[q].read => applied[q] <= 1

\* The most the session policy may grant: two retries at the primary, or one more
\* than the list it goes through is long, which may change from retry to retry but
\* has no more endpoints than there are preferred locations.
MaxSession == IF Preferred = <<>> THEN 2 ELSE Len(Preferred) + 1

\* A request is sent once, and once more for every retry some policy granted,
\* so the budgets bound how often it is sent: no policy's retry escapes them,
\* whatever order the failures come in.
AttemptsAreBudgeted ==
    \A q \in Requests :
        /\ attempts[q] <= 1 + used[q]["discovery"] + used[q]["throttle"]
                            + used[q]["session"] + used[q]["connection"]
        /\ used[q]["discovery"] <= MaxDiscovery
        /\ used[q]["throttle"] <= MaxThrottle
        /\ used[q]["session"] <= MaxSession
        /\ used[q]["connection"] <= MaxConnection

\* The time a request spends waiting because of throttling exceeds the maximum
\* by less than one wait.
ThrottleWaitBounded ==
    \A q \in Requests : waited[q] > 0 =>
        \E w \in RetryAfters \cup {FixedInterval} : waited[q] < MaxWait + w

\* Whatever failures a request meets, in whatever order, the four policies grant
\* no more retries than their options and the preferred locations allow, also if
\* the endpoint lists change meanwhile, and no more waiting than their options say.
RetriesAreBounded == AttemptsAreBudgeted /\ ThrottleWaitBounded

\* A request that failed with its session retries used up was sent to every
\* endpoint of its list, if that was the same all the time: the retries, the
\* wrap-around of the index and the forced first attempts at the primary leave
\* none out.
SessionRetriesTryEveryEndpoint ==
    \A q \in Requests :
        /\ pc[q] = "failed"
        /\ steadyList[q] # <<>>
        /\ used[q]["session"] = SessionBudget(steadyList[q])
        => Range(steadyList[q]) \subseteq tried[q]

\* Every request ends, in success or failure.
RequestsEnd == \A q \in Requests : <>(pc[q] \in Done)

=============================================================================

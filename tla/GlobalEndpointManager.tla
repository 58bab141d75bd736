------------------------ MODULE GlobalEndpointManager ------------------------
(***************************************************************************)
(* The endpoint manager a client shares between its requests               *)
(* (src/src/globalEndpointManager.ts) over the LocationCache.              *)
(*                                                                         *)
(* refreshEndpointList reads the account, at the default endpoint and then *)
(* once per preferred location, and may hand over to a refresh in the      *)
(* background that repeats every five minutes until the cache asks for     *)
(* none.  isRefreshing keeps the refreshes apart.  The first request       *)
(* starts the refresh all the early ones wait for (init).                  *)
(*                                                                         *)
(* Processes: the Callers (requests in retryUtility.execute), the refresh  *)
(* memoised in initPromise, and the background refresh.  A step is what    *)
(* the event loop runs between two awaits.                                 *)
(***************************************************************************)
EXTENDS LocationCache

CONSTANT Callers    \* concurrent requests of one client

Refreshers == Callers \cup {"init", "background"}

ASSUME CallerAssumption == Callers \cap {"init", "background"} = {}

VARIABLES
    isEndpointCacheInitialized,
    isRefreshing,
    initPromise,  \* "undefined", "pending" or "resolved"
    background,   \* backgroundRefresh: "idle", "queued", "reading", "asleep"
    attempt,      \* account read of each refresher: 0 none, 1 at the default
                  \* endpoint, 1 + i at that of the ith preferred location
    slept,        \* how long the background refresh has been asleep
    at,           \* where each caller is
    endpoint      \* requestContext.endpoint of each caller

managerVars == <<isEndpointCacheInitialized, isRefreshing, initPromise,
                 background, attempt, slept>>
callerVars == <<at, endpoint>>
gemVars == <<cacheVars, managerVars, callerVars>>

ManagerInit ==
    /\ isEndpointCacheInitialized = FALSE
    /\ isRefreshing = FALSE
    /\ initPromise = "undefined"
    /\ background = "idle"
    /\ attempt = [r \in Refreshers |-> 0]
    /\ slept = 0

GemInit ==
    /\ CacheInit
    /\ ManagerInit
    /\ at = [c \in Callers |-> "idle"]
    /\ endpoint = [c \in Callers |-> DefaultEndpoint]

-----------------------------------------------------------------------------
(* Refreshing *)

\* A mutant: nothing keeps two refreshes apart.
CanAlwaysRefresh == EnableEndpointDiscovery

CanRefresh == ~isRefreshing /\ EnableEndpointDiscovery

\* refreshEndpointList up to its first await.
RefreshEndpointList(r) ==
    IF CanRefresh
    THEN isRefreshing' = TRUE /\ attempt' = [attempt EXCEPT ![r] = 1]
    ELSE UNCHANGED <<isRefreshing, attempt>>

\* Mutants: a refresh that hands over lowers the flag; one that hands over does
\* not return to the request that awaits it.
NeverStillRefreshing(shouldRefresh) == FALSE
ReturnsWhenDone(r, shouldRefresh) == r \in Callers /\ ~shouldRefresh

\* isRefreshing stays raised over a hand-over, and whether a request gets its
\* answer: always.
StillRefreshing(shouldRefresh) == shouldRefresh
Returns(r, shouldRefresh) == r \in Callers

\* What a refresher does with the answer of its last account read, as told by
\* shouldRefreshEndpoints: hand over to the background or go to sleep there,
\* or stop.
FinishRefresh(r, shouldRefresh) ==
    /\ attempt' = [attempt EXCEPT ![r] = 0]
    /\ isRefreshing' = StillRefreshing(shouldRefresh)
    /\ isEndpointCacheInitialized' =
           (isEndpointCacheInitialized \/ ~shouldRefresh)
    /\ background' = CASE r = "background" -> IF shouldRefresh THEN "asleep"
                                                             ELSE "idle"
                       [] r # "background" -> IF shouldRefresh THEN "queued"
                                                             ELSE background
    /\ slept' = IF r = "background" THEN 0 ELSE slept
    /\ initPromise' = IF r = "init" THEN "resolved" ELSE initPromise
    /\ at' = IF Returns(r, shouldRefresh) THEN [at EXCEPT ![r] = "idle"] ELSE at
    /\ UNCHANGED endpoint

\* A mutant: the account reads of init wait for init.
PassesInitialized(readsAccount) ==
    isEndpointCacheInitialized \/ initPromise = "resolved"

\* Whether a request may be routed without awaiting init; the account read is
\* the request of resource type none.
PassesInit(readsAccount) ==
    isEndpointCacheInitialized \/ initPromise = "resolved" \/ readsAccount

\* Where the account is read: urlConnection, which names the endpoint of this
\* attempt, is overwritten by the endpoint the cache gives for a first attempt.
AccountReadTarget ==
    ResolveServiceEndpoint([read |-> TRUE, multiWritable |-> FALSE],
                           [ignorePreferredLocation |-> TRUE, index |-> 0])

\* A mutant: shouldRefresh is taken before the account is.
AccountReadCheckedEarly(r, acc) ==
    /\ attempt[r] > 0
    /\ PassesInit(TRUE)
    /\ OnDatabaseAccountRead(acc)
    /\ FinishRefresh(r, ShouldRefreshEndpoints)

AccountRead(r, acc) ==
    /\ attempt[r] > 0
    /\ PassesInit(TRUE)
    /\ OnDatabaseAccountRead(acc)
    /\ FinishRefresh(r, ShouldRefreshEndpoints')

\* The read failed: the next endpoint is tried, and after the last one the
\* refresh goes on without an account.
AccountReadFails(r) ==
    /\ attempt[r] > 0
    /\ PassesInit(TRUE)
    /\ UNCHANGED cacheVars
    /\ IF attempt[r] <= Len(Preferred)
       THEN /\ attempt' = [attempt EXCEPT ![r] = @ + 1]
            /\ UNCHANGED <<isEndpointCacheInitialized, isRefreshing,
                           initPromise, background, slept, callerVars>>
       ELSE FinishRefresh(r, ShouldRefreshEndpoints)

\* A mutant: the background refresh is not repeated.
BackgroundDueOnce == background = "queued"

BackgroundDue ==
    \/ background = "queued"
    \/ background = "asleep" /\ slept = Expiry

\* The callback of process.nextTick, and the end of its sleep of five minutes.
BackgroundRefresh ==
    /\ BackgroundDue
    /\ background' = "reading"
    /\ isRefreshing' = TRUE
    /\ attempt' = [attempt EXCEPT !["background"] = 1]
    /\ slept' = 0
    /\ UNCHANGED <<cacheVars, isEndpointCacheInitialized, initPromise,
                   callerVars>>

-----------------------------------------------------------------------------
(* Callers *)

\* The cache answers where the request is sent.
Route(c) ==
    /\ \E kind \in Kinds, route \in Routes(1) :
           endpoint' = [endpoint EXCEPT
                           ![c] = ResolveServiceEndpoint(kind, route)]
    /\ at' = [at EXCEPT ![c] = "sent"]
    /\ UNCHANGED <<cacheVars, managerVars>>

\* resolveServiceEndpoint of a request that finds the cache initialised, and of
\* one that comes back from init, initialised or not.
Resolve(c) == at[c] = "idle" /\ isEndpointCacheInitialized /\ Route(c)
ResolveAfterInit(c) == at[c] = "initializing" /\ PassesInit(FALSE) /\ Route(c)

\* A request before the cache is initialised awaits init, which the first one
\* starts.  Without endpoint discovery that resolves at once.
AwaitInit(c) ==
    /\ at[c] = "idle"
    /\ ~isEndpointCacheInitialized
    /\ at' = [at EXCEPT ![c] = "initializing"]
    /\ IF initPromise = "undefined"
       THEN /\ RefreshEndpointList("init")
            /\ initPromise' = IF CanRefresh THEN "pending" ELSE "resolved"
       ELSE UNCHANGED <<isRefreshing, attempt, initPromise>>
    /\ UNCHANGED <<cacheVars, isEndpointCacheInitialized, background, slept,
                   endpoint>>

\* The request ends, or fails with an error that does not concern its region;
\* the next one starts with a context of its own.
Answered(c) ==
    /\ at[c] = "sent"
    /\ at' = [at EXCEPT ![c] = "idle"]
    /\ endpoint' = [endpoint EXCEPT ![c] = DefaultEndpoint]
    /\ UNCHANGED <<cacheVars, managerVars>>

\* The region forbids the write: endpointDiscoveryRetryPolicy marks it, awaits
\* a refresh and has the request resolved and sent again, wherever it went before.
Forbidden(c, op) ==
    /\ at[c] = "sent"
    /\ EnableEndpointDiscovery
    /\ MarkEndpointUnavailable(endpoint[c], op)
    /\ RefreshEndpointList(c)
    /\ at' = [at EXCEPT ![c] = IF CanRefresh THEN "refreshing" ELSE "idle"]
    /\ endpoint' = [endpoint EXCEPT ![c] = DefaultEndpoint]
    /\ UNCHANGED <<isEndpointCacheInitialized, initPromise, background, slept>>

\* getReadEndpoints and getWriteEndpoints, once initialised.
ReadEndpointLists ==
    /\ PassesInit(FALSE)
    /\ GetEndpoints
    /\ UNCHANGED <<managerVars, callerVars>>

ClockTick ==
    /\ Tick
    /\ slept' = IF background = "asleep" /\ slept < Expiry
                THEN slept + 1 ELSE slept
    /\ UNCHANGED <<isEndpointCacheInitialized, isRefreshing, initPromise,
                   background, attempt, callerVars>>

-----------------------------------------------------------------------------
CallerNext(c) ==
    \/ Resolve(c)
    \/ ResolveAfterInit(c)
    \/ AwaitInit(c)
    \/ Answered(c)
    \/ \E op \in Operations : Forbidden(c, op)

RefresherNext(r) ==
    \/ \E acc \in Accounts : AccountRead(r, acc)
    \/ AccountReadFails(r)

GemNext ==
    \/ \E c \in Callers : CallerNext(c)
    \/ \E r \in Refreshers : RefresherNext(r)
    \/ BackgroundRefresh
    \/ ReadEndpointLists
    \/ ClockTick

\* Every HTTP request of a refresh is answered or times out, the event loop
\* runs what is ready, and time passes.  Nothing says that callers make requests
\* or that account reads ever succeed.
GemFairness ==
    /\ \A r \in Refreshers : WF_gemVars(RefresherNext(r))
    /\ \A c \in Callers : WF_gemVars(ResolveAfterInit(c))
    /\ WF_gemVars(BackgroundRefresh)
    /\ WF_gemVars(ClockTick)

GemSpec == GemInit /\ [][GemNext]_gemVars /\ GemFairness

-----------------------------------------------------------------------------
(* Properties *)

\* However requests, the initialisation and the background refresh interleave,
\* at most one of them reads the account, and none does while another refresh is
\* promised.
AtMostOneRefresh ==
    /\ \A r, s \in Refreshers : attempt[r] > 0 /\ attempt[s] > 0 => r = s
    /\ \A r \in Refreshers \ {"background"} :
           attempt[r] > 0 => background = "idle"

\* isRefreshing is raised exactly while a refresh is under way or promised: it
\* is never left raised with nobody to lower it, which would end all refreshing.
RefreshFlagHeld ==
    isRefreshing <=> \/ background # "idle"
                     \/ \E r \in Refreshers : attempt[r] > 0

\* Nobody waits for a refresh that is not happening: a request that awaits its
\* own refresh, and init, have an account read in flight, whatever hand-over to
\* the background has happened meanwhile.
NobodyWaitsInVain ==
    /\ \A c \in Callers : at[c] = "refreshing" <=> attempt[c] > 0
    /\ initPromise = "pending" <=> attempt["init"] > 0
    /\ \A c \in Callers : at[c] = "initializing" => initPromise # "undefined"

\* While routing is degraded a refresh is under way or promised: the check of
\* isRefreshing never drops the one refresh that would repair it.
DegradedIsRefreshed == Degraded => isRefreshing

\* The initialisation that the first request starts and the early ones wait for
\* ends, whatever account reads fail: they do not themselves wait for it.  With
\* NobodyWaitsInVain every request that waits gets its endpoint.
InitializationEnds == initPromise = "pending" ~> initPromise = "resolved"

\* If from some time on no region forbids anything and the background refresh
\* reads the account again and again, reads by preference return to the most
\* preferred region for good.
RegionRecovers ==
    /\ <>[][\A c \in Callers, op \in Operations : ~Forbidden(c, op)]_gemVars
    /\ SF_gemVars(\E acc \in Accounts : AccountRead("background", acc))
    => <>[]~Degraded

=============================================================================

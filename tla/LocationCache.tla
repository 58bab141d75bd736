---------------------------- MODULE LocationCache ----------------------------
(***************************************************************************)
(* The cache of regional endpoints of a geo-replicated account             *)
(* (src/src/LocationCache.ts, with the record of src/src/LocationInfo.ts). *)
(*                                                                         *)
(* The cache remembers which regions the last account read listed, which   *)
(* endpoints failed recently and for which operations, and derives from    *)
(* them the two endpoint lists requests are routed by.  The lists are      *)
(* recomputed only by updateLocationCache; between two updates they age.   *)
(*                                                                         *)
(* Time.  The code compares Date.now() - 5 minutes with stored timestamps, *)
(* always with a strict <.  The model stores the age of each timestamp     *)
(* instead, saturated at Expiry + 1: the comparison has the same outcome   *)
(* and the state space is finite without a bound on time.                  *)
(*                                                                         *)
(* A region's name is a model value, so normalizeLocationName is left out; *)
(* the two maps endpoint-by-location are EndpointAt restricted to the      *)
(* locations of the ordered lists, which the code assigns together.        *)
(***************************************************************************)
EXTENDS Integers, Sequences, FiniteSets, Functions

CONSTANTS
    Locations,               \* regions an account may list
    Endpoints,               \* URLs requests can be sent to
    EndpointAt,              \* databaseAccountEndpoint of each location
    DefaultEndpoint,         \* options.endpoint
    Preferred,               \* connectionPolicy.preferredLocations
    EnableEndpointDiscovery, \* connectionPolicy.enableEndpointDiscovery
    UseMultipleWriteLocations, \* connectionPolicy.useMultipleWriteLocations
    Accounts,                \* database accounts the service may return
    Expiry                   \* DefaultUnavailableLocationExpirationTimeMS

Operations == {"Read", "Write"}     \* EndpointOperationType without None
Expired == Expiry + 1

ASSUME ExpiryAssumption == Expiry \in Nat \ {0}
ASSUME EndpointAssumption ==
    /\ DefaultEndpoint \in Endpoints
    /\ EndpointAt \in [Locations -> Endpoints]
ASSUME PolicyAssumption ==
    /\ Preferred \in Seq(Locations)
    /\ EnableEndpointDiscovery \in BOOLEAN
    /\ UseMultipleWriteLocations \in BOOLEAN
ASSUME AccountAssumption ==
    \A a \in Accounts : /\ a.writable \in Seq(Locations)
                        /\ a.readable \in Seq(Locations)
                        /\ a.multi \in BOOLEAN

VARIABLES
    unavailability,  \* locationUnavailabilityInfoByEndpoint; ops = {}: no entry
    enableMultipleWritableLocations,
    orderedWriteLocations,
    orderedReadLocations,
    writeEndpoints,
    readEndpoints,
    sinceUpdate,     \* age of lastCacheUpdateTimestamp
    account          \* history: the last account read, or NoAccount

cacheVars == <<unavailability, enableMultipleWritableLocations,
               orderedWriteLocations, orderedReadLocations, writeEndpoints,
               readEndpoints, sinceUpdate, account>>

Age == 0..Expired
NoMark == [age |-> Expired, ops |-> {}]
NoAccount == [writable |-> <<>>, readable |-> <<>>, multi |-> FALSE]

-----------------------------------------------------------------------------
(* Reading the cache *)

CanUpdateCache(age) == age > Expiry

CanUseMultipleWriteLocations ==
    UseMultipleWriteLocations /\ enableMultipleWritableLocations

\* Whether this kind of request may be written in any region: items and the
\* execution of stored procedures.
CanUseMultipleWriteLocationsFor(multiWritable) ==
    CanUseMultipleWriteLocations /\ multiWritable

IsEndpointUnavailable(e, op) ==
    /\ op \in unavailability[e].ops
    /\ ~CanUpdateCache(unavailability[e].age)

\* Mutants: only one of the two conditions.
UsableIfListed(l, ordered, op) == l \in Range(ordered)
UsableIfAvailable(l, ordered, op) == ~IsEndpointUnavailable(EndpointAt[l], op)

\* Whether a preferred location is offered for an operation.
Usable(l, ordered, op) ==
    /\ l \in Range(ordered)
    /\ ~IsEndpointUnavailable(EndpointAt[l], op)

EndpointsOrDefault(chosen) ==
    IF chosen = <<>> THEN <<DefaultEndpoint>>
                     ELSE [i \in 1..Len(chosen) |-> EndpointAt[chosen[i]]]

\* The preferred locations among some, most preferred first.
PreferredAmong(usable) ==
    LET chosen[i \in 0..Len(Preferred)] ==
            IF i = 0 THEN <<>>
            ELSE IF Preferred[i] \in usable THEN Append(chosen[i - 1], Preferred[i])
                                            ELSE chosen[i - 1]
    IN  chosen[Len(Preferred)]

\* Endpoints an operation may use, most preferred first.  Endpoints that are
\* unavailable are dropped from the preferred ones, and kept in the write list
\* of an account with one write region.
GetPreferredAvailableEndpoints(ordered, op) ==
    IF EnableEndpointDiscovery /\ ordered # <<>>
    THEN EndpointsOrDefault(
             IF CanUseMultipleWriteLocations \/ op = "Read"
             THEN PreferredAmong({l \in Locations : Usable(l, ordered, op)})
             ELSE ordered)
    ELSE <<DefaultEndpoint>>

\* The endpoint of a request: kind says whether it reads and whether it is of
\* a multi-writable kind, route how retryUtility asked for it to be routed.
ResolveServiceEndpoint(kind, route) ==
    LET toPrimary == \/ route.ignorePreferredLocation
                     \/ /\ ~kind.read
                        /\ ~CanUseMultipleWriteLocationsFor(kind.multiWritable)
        list == IF kind.read THEN readEndpoints ELSE writeEndpoints
        writers == Len(orderedWriteLocations)
        primary == IF route.index % 2 < writers - 1
                   THEN route.index % 2 ELSE writers - 1
    IN  CASE ~EnableEndpointDiscovery -> DefaultEndpoint
          [] EnableEndpointDiscovery /\ toPrimary /\ writers = 0 ->
                 DefaultEndpoint
          [] EnableEndpointDiscovery /\ toPrimary /\ writers > 0 ->
                 EndpointAt[orderedWriteLocations[primary + 1]]
          [] EnableEndpointDiscovery /\ ~toPrimary ->
                 list[(route.index % Len(list)) + 1]

\* Whether the account must be read again soon.
ShouldRefreshEndpoints ==
    LET best == EndpointAt[Preferred[1]]
        optedInOnly ==
            UseMultipleWriteLocations /\ ~enableMultipleWritableLocations
        readDegraded ==
            /\ orderedReadLocations # <<>>
            /\ \/ Preferred[1] \notin Range(orderedReadLocations)
               \/ best # readEndpoints[1]
        writeDegraded ==
            IF CanUseMultipleWriteLocations
            THEN /\ Preferred[1] \in Range(orderedWriteLocations)
                 /\ best # writeEndpoints[1]
            ELSE IsEndpointUnavailable(writeEndpoints[1], "Write")
    IN  /\ EnableEndpointDiscovery
        /\ Preferred # <<>>
        /\ readDegraded \/ writeDegraded \/ optedInOnly

-----------------------------------------------------------------------------
(* Updating the cache *)

ClearStaleEndpointUnavailabilityInfo(marks) ==
    [e \in Endpoints |-> IF CanUpdateCache(marks[e].age) THEN NoMark
                                                         ELSE marks[e]]

\* The account updateLocationCache() assumes when it is called without one.
CachedAccount == [writable |-> orderedWriteLocations,
                  readable |-> orderedReadLocations,
                  multi    |-> FALSE]

\* The multi-write flag is only ever set, the lists only with discovery.
UpdateLocationCache(marks, acc) ==
    /\ enableMultipleWritableLocations' =
           (enableMultipleWritableLocations \/ acc.multi)
    /\ unavailability' = ClearStaleEndpointUnavailabilityInfo(marks)
    /\ IF EnableEndpointDiscovery
       THEN /\ orderedReadLocations' = acc.readable
            /\ orderedWriteLocations' = acc.writable
       ELSE UNCHANGED <<orderedReadLocations, orderedWriteLocations>>
    /\ writeEndpoints' =
           GetPreferredAvailableEndpoints(orderedWriteLocations, "Write")'
    /\ readEndpoints' =
           GetPreferredAvailableEndpoints(orderedReadLocations, "Read")'
    /\ sinceUpdate' = 0

\* A mutant: the mark of another operation is overwritten.
MarkedForOnly(e, op) ==
    [unavailability EXCEPT ![e] = [age |-> 0, ops |-> {op}]]

\* Earlier marks of other operations are kept, with the new timestamp.
Marked(e, op) ==
    [unavailability EXCEPT ![e] = [age |-> 0, ops |-> @.ops \cup {op}]]

\* A failed operation marks its endpoint.
MarkEndpointUnavailable(e, op) ==
    /\ UpdateLocationCache(Marked(e, op), CachedAccount)
    /\ UNCHANGED account

OnDatabaseAccountRead(acc) ==
    /\ UpdateLocationCache(unavailability, acc)
    /\ account' = acc

\* getReadEndpoints and getWriteEndpoints: the lists are recomputed first if
\* something is marked and the cache is old.
GetEndpoints ==
    /\ IF /\ \E e \in Endpoints : unavailability[e].ops # {}
          /\ CanUpdateCache(sinceUpdate)
       THEN UpdateLocationCache(unavailability, CachedAccount)
       ELSE UNCHANGED <<unavailability, enableMultipleWritableLocations,
                        orderedWriteLocations, orderedReadLocations,
                        writeEndpoints, readEndpoints, sinceUpdate>>
    /\ UNCHANGED account

Older(age) == IF age = Expired THEN age ELSE age + 1

\* The clock advances by one unit for every stored timestamp.
Tick ==
    /\ unavailability' = [e \in Endpoints |->
                            [unavailability[e] EXCEPT !.age = Older(@)]]
    /\ sinceUpdate' = Older(sinceUpdate)
    /\ UNCHANGED <<enableMultipleWritableLocations, orderedWriteLocations,
                   orderedReadLocations, writeEndpoints, readEndpoints,
                   account>>

CacheInit ==
    /\ unavailability = [e \in Endpoints |-> NoMark]
    /\ enableMultipleWritableLocations = FALSE
    /\ orderedWriteLocations = <<>>
    /\ orderedReadLocations = <<>>
    /\ writeEndpoints = <<DefaultEndpoint>>
    /\ readEndpoints = <<DefaultEndpoint>>
    /\ sinceUpdate = Expired
    /\ account = NoAccount

CacheNext ==
    \/ \E e \in Endpoints, op \in Operations : MarkEndpointUnavailable(e, op)
    \/ \E acc \in Accounts : OnDatabaseAccountRead(acc)
    \/ GetEndpoints
    \/ Tick

CacheSpec == CacheInit /\ [][CacheNext]_cacheVars

-----------------------------------------------------------------------------
(* Properties *)

Kinds == [read: BOOLEAN, multiWritable: BOOLEAN]
Routes(maxIndex) == [ignorePreferredLocation: BOOLEAN, index: 0..maxIndex]

\* resolveServiceEndpoint is total: whatever the cache holds, and however often
\* a request was retried, it is sent to the default endpoint or to one the last
\* account read listed for its use, and never to "undefined".
RoutesToListedEndpoint ==
    \A kind \in Kinds, route \in Routes(3) :
        LET listed == IF kind.read /\ ~route.ignorePreferredLocation
                      THEN account.readable ELSE account.writable
        IN  ResolveServiceEndpoint(kind, route) \in
                {DefaultEndpoint} \cup {EndpointAt[l] : l \in Range(listed)}

\* While a mark stands, no request that may choose its region is routed to the
\* marked endpoint, unless nothing but the fallback is left.
MarkedEndpointNotOffered ==
    \A e \in Endpoints \ {DefaultEndpoint} :
        /\ IsEndpointUnavailable(e, "Read") => e \notin Range(readEndpoints)
        /\ IsEndpointUnavailable(e, "Write") /\ CanUseMultipleWriteLocations
               => e \notin Range(writeEndpoints)

\* What a request by preference is answered now: the first endpoint of its list.
ByPreference(reads) ==
    ResolveServiceEndpoint([read |-> reads, multiWritable |-> TRUE],
                           [ignorePreferredLocation |-> FALSE, index |-> 0])

\* Reads by preference do not go to the most preferred region although the
\* account is known, or the only writer is marked.
Degraded ==
    /\ EnableEndpointDiscovery
    /\ Preferred # <<>>
    /\ account.readable # <<>>
    /\ \/ ByPreference(TRUE) # EndpointAt[Preferred[1]]
       \/ /\ ~CanUseMultipleWriteLocations
          /\ IsEndpointUnavailable(ByPreference(FALSE), "Write")

\* Only time makes an endpoint available again: neither the failure of another
\* operation, nor an account read, nor a refresh of the lists drops a mark.
MarksOutliveUpdates ==
    [][\A e \in Endpoints, op \in Operations :
           IsEndpointUnavailable(e, op) /\ ~Tick
               => IsEndpointUnavailable(e, op)']_cacheVars
=============================================================================

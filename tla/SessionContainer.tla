--------------------------- MODULE SessionContainer ---------------------------
(***************************************************************************)
(* Session consistency of one client on one container: the tokens of       *)
(* src/src/session/VectorSessionToken.ts, the container that keeps them    *)
(* (src/src/session/sessionContainer.ts) and the way ClientContext attaches*)
(* and captures them around every request.                                 *)
(*                                                                         *)
(* The service is the environment: it commits writes, replicates them to   *)
(* regions at its own pace, changes the configuration of its regions (the  *)
(* version of a token), and serves a read only where the token attached to *)
(* it is covered, else 404/1002.  Answers may arrive in any order.  Others *)
(* may delete the container and create it again under the same name.       *)
(***************************************************************************)
EXTENDS Integers, Sequences, FiniteSets

CONSTANTS
    Ops,         \* concurrent operations of the client
    Ranges,      \* partition key ranges
    Regions,
    RegionsAt,   \* regions of each configuration, i.e. of each token version
    MaxRid,      \* bound: incarnations of the container
    MaxWrites,   \* bound: of each incarnation, the writes per range
    EnableEndpointDiscovery, \* without it, session failures are not retried
    NoToken      \* what a range without a token has

Rids == 1..MaxRid
Versions == DOMAIN RegionsAt

ASSUME BoundAssumption == MaxRid \in Nat \ {0} /\ MaxWrites \in [Rids -> Nat]
ASSUME ConfigurationAssumption ==
    RegionsAt \in Seq(SUBSET Regions \ {{}}) \ {<<>>}
ASSUME DiscoveryAssumption == EnableEndpointDiscovery \in BOOLEAN
ASSUME NoTokenAssumption ==
    \A v \in Versions :
        NoToken \notin [version : {v}, global : Int, local : [RegionsAt[v] -> Int]]

Absent == 0          \* no resource id for the name

VARIABLES
    rid,       \* collectionNameToCollectionResourceId of the container's name
    tokens,    \* collectionResourceIdToSessionTokens: rid, range -> token
    op,        \* the operation each process is in
    current,   \* service: resource id of the live container
    version,   \* service: its configuration
    progress,  \* service: committed LSN of each region and range
    lsn,       \* service: last LSN of each range
    acked      \* history: of each incarnation and range, the highest LSN the
               \* client was answered with since it last dropped its tokens

clientVars == <<rid, tokens, op>>
serviceVars == <<current, version, progress, lsn>>
vars == <<clientVars, serviceVars, acked>>

-----------------------------------------------------------------------------
(* VectorSessionToken *)

Larger(a, b) == IF a > b THEN a ELSE b

\* Tokens of one configuration must name the same regions.
MergeThrows(this, other) ==
    /\ this.version = other.version
    /\ \/ Cardinality(DOMAIN this.local) # Cardinality(DOMAIN other.local)
       \/ ~(DOMAIN this.local \subseteq DOMAIN other.local)

\* Mutants: the other token's progress wins, or the regions of this token.
MergeToOther(this, other) ==
    IF this.version > other.version THEN this ELSE other

MergeRegionsOfThis(this, other) ==
    [version |-> Larger(this.version, other.version),
     global  |-> Larger(this.global, other.global),
     local   |-> [g \in DOMAIN this.local |->
                     IF g \in DOMAIN other.local
                     THEN Larger(this.local[g], other.local[g])
                     ELSE this.local[g]]]

\* The regions of the newer configuration, each with its highest LSN.
Merge(this, other) ==
    LET high == IF this.version < other.version THEN other ELSE this
        low  == IF this.version < other.version THEN this ELSE other
    IN  [version |-> high.version,
         global  |-> Larger(this.global, other.global),
         local   |-> [g \in DOMAIN high.local |->
                         IF g \in DOMAIN low.local
                         THEN Larger(high.local[g], low.local[g])
                         ELSE high.local[g]]]

-----------------------------------------------------------------------------
(* SessionContainer *)

\* get: the token of a range in what is attached to a request, by the
\* resource id known for the name.
TokenFor(range) == IF rid = Absent THEN NoToken ELSE tokens[rid][range]

\* A mutant: the token goes to the resource id known for the name.
SetTokenByName(owner, range, token) ==
    LET id == IF rid = Absent THEN owner ELSE rid
        old == tokens[id][range]
    IN  /\ rid' = id
        /\ tokens' = [tokens EXCEPT ![id][range] =
               IF old = NoToken THEN token ELSE Merge(old, token)]

\* set: the token goes to the container that answered; its name keeps the
\* resource id it has.
SetToken(owner, range, token) ==
    LET old == tokens[owner][range]
    IN  /\ rid' = IF rid = Absent THEN owner ELSE rid
        /\ tokens' = [tokens EXCEPT ![owner][range] =
               IF old = NoToken THEN token ELSE Merge(old, token)]

SetThrows(owner, range, token) ==
    tokens[owner][range] # NoToken /\ MergeThrows(tokens[owner][range], token)

NoTokens == [r \in Ranges |-> NoToken]

\* remove: forget the name and the tokens of its resource id.
Remove ==
    /\ rid' = Absent
    /\ tokens' = IF rid = Absent THEN tokens
                                 ELSE [tokens EXCEPT ![rid] = NoTokens]
    /\ acked' = [i \in Rids |-> [r \in Ranges |-> 0]]

-----------------------------------------------------------------------------
(* Requests: ClientContext *)

Idle == [pc |-> "idle"]
Kinds == {"read", "write", "delete"}

\* A request is built: the token is attached once, for all its retries.
\* floor is what the client was answered with by the live container, known
\* whether the client knows that container's resource id, if any.
Begin(o, range, kind) ==
    /\ op[o].pc = "idle"
    /\ op' = [op EXCEPT ![o] =
           [pc |-> "sent", range |-> range, kind |-> kind,
            header |-> TokenFor(range), retries |-> 0,
            floor |-> acked[current][range], floorRid |-> current,
            known |-> rid \in {Absent, current}]]
    /\ UNCHANGED <<rid, tokens, serviceVars, acked>>

\* read and queryFeed; create, replace and upsert; delete of the container.
read(o) == \E range \in Ranges : Begin(o, range, "read")
write(o) == \E range \in Ranges : Begin(o, range, "write")
delete(o) == \E range \in Ranges : Begin(o, range, "delete")

\* captureSessionToken of an answer.  If the tokens do not fit, the operation
\* fails although it was carried out.
Receive(o) ==
    LET a == op[o].answer
        range == op[o].range
    IN  /\ op[o].pc = "answered"
        /\ op' = [op EXCEPT ![o] = Idle]
        /\ IF SetThrows(a.rid, range, a.token)
           THEN UNCHANGED <<rid, tokens, acked>>
           ELSE /\ SetToken(a.rid, range, a.token)
                /\ acked' = [acked EXCEPT ![a.rid][range] =
                                 Larger(@, a.token.global)]
        /\ UNCHANGED serviceVars

\* 404/1002 on a single-master account: sessionRetryPolicy has the token of the
\* container dropped and the request, with the header it has, sent again, twice
\* at most.
Retry(o) ==
    /\ op[o].pc = "refused"
    /\ IF EnableEndpointDiscovery /\ op[o].retries <= 1
       THEN /\ Remove
            /\ op' = [op EXCEPT ![o].pc = "sent", ![o].retries = @ + 1]
       ELSE /\ op' = [op EXCEPT ![o] = Idle]
            /\ UNCHANGED <<rid, tokens, acked>>
    /\ UNCHANGED serviceVars

\* The container is deleted: what is known of its name goes, and the answer's
\* token with it.
Deleted(o) ==
    /\ op[o].pc = "deleted"
    /\ op' = [op EXCEPT ![o] = Idle]
    /\ Remove
    /\ UNCHANGED serviceVars

-----------------------------------------------------------------------------
(* The service *)

TokenAt(range, global, progressNow) ==
    [version |-> version, global |-> global,
     local |-> [g \in RegionsAt[version] |-> progressNow[g][range]]]

Answer(o, token) ==
    op' = [op EXCEPT ![o] = [pc |-> "answered", range |-> @.range,
                             floor |-> @.floor, floorRid |-> @.floorRid,
                             known |-> @.known,
                             answer |-> [rid |-> current, token |-> token]]]

\* A write is committed in one of the regions.
ServeWrite(o) ==
    LET range == op[o].range
        next == lsn[range] + 1
    IN  /\ op[o].pc = "sent" /\ op[o].kind = "write"
        /\ lsn[range] < MaxWrites[current]
        /\ \E g \in RegionsAt[version] :
               progress' = [progress EXCEPT ![g][range] = next]
        /\ lsn' = [lsn EXCEPT ![range] = next]
        /\ Answer(o, TokenAt(range, next, progress'))
        /\ UNCHANGED <<rid, tokens, current, version, acked>>

Covers(g, range, header) ==
    header = NoToken \/ progress[g][range] >= header.global

\* A region serves a read whose token it covers, and refuses any other.
ServeRead(o) ==
    LET range == op[o].range
    IN  /\ op[o].pc = "sent" /\ op[o].kind = "read"
        /\ \E g \in RegionsAt[version] :
               IF Covers(g, range, op[o].header)
               THEN Answer(o, TokenAt(range, progress[g][range], progress))
               ELSE op' = [op EXCEPT ![o].pc = "refused"]
        /\ UNCHANGED <<rid, tokens, serviceVars, acked>>

Replicate ==
    /\ \E g \in RegionsAt[version], range \in Ranges :
           /\ progress[g][range] < lsn[range]
           /\ progress' = [progress EXCEPT ![g][range] = lsn[range]]
    /\ UNCHANGED <<clientVars, current, version, lsn, acked>>

Reconfigure ==
    /\ version + 1 \in Versions
    /\ version' = version + 1
    /\ UNCHANGED <<clientVars, current, progress, lsn, acked>>

\* The container is deleted and created again under its name.
Recreate ==
    /\ current < MaxRid
    /\ current' = current + 1
    /\ progress' = [g \in Regions |-> [r \in Ranges |-> 0]]
    /\ lsn' = [r \in Ranges |-> 0]
    /\ UNCHANGED <<rid, tokens, version, acked>>

\* By this client, whose answer is on its way, or by another one.
ServeDelete(o) ==
    /\ op[o].pc = "sent" /\ op[o].kind = "delete"
    /\ Recreate
    /\ op' = [op EXCEPT ![o] = [pc |-> "deleted"]]

OthersRecreate == Recreate /\ UNCHANGED op

-----------------------------------------------------------------------------
Init ==
    /\ rid = Absent
    /\ tokens = [i \in Rids |-> NoTokens]
    /\ op = [o \in Ops |-> Idle]
    /\ current = 1
    /\ version = 1
    /\ progress = [g \in Regions |-> [r \in Ranges |-> 0]]
    /\ lsn = [r \in Ranges |-> 0]
    /\ acked = [i \in Rids |-> [r \in Ranges |-> 0]]

Next ==
    \/ \E o \in Ops :
           \/ read(o) \/ write(o) \/ delete(o)
           \/ ServeWrite(o)
           \/ ServeRead(o)
           \/ ServeDelete(o)
           \/ Receive(o)
           \/ Retry(o)
           \/ Deleted(o)
    \/ Replicate
    \/ Reconfigure
    \/ OthersRecreate

Spec == Init /\ [][Next]_vars

-----------------------------------------------------------------------------
(* Properties *)

\* No operation fails after it was carried out because its token does not fit
\* the one that is kept: tokens of one version name the same regions, in
\* whatever order and over whatever changes of the regions they were merged.
CaptureNeverThrows ==
    \A o \in Ops : op[o].pc = "answered" =>
        ~SetThrows(op[o].answer.rid, op[o].range, op[o].answer.token)

\* The client never claims progress the service has not made, in any region:
\* an answer of an earlier incarnation of the container does not leak into the
\* tokens of the live one.
TokensNotAhead ==
    \A range \in Ranges :
        LET t == tokens[current][range]
        IN  t # NoToken =>
                /\ t.global <= lsn[range]
                /\ \A g \in DOMAIN t.local : t.local[g] <= progress[g][range]

\* Answers that arrive late, or from an older configuration, never set a token
\* back: only remove takes progress away.
NoOlder(new, old) ==
    /\ new.version >= old.version
    /\ new.global >= old.global
    /\ \A g \in DOMAIN old.local \cap DOMAIN new.local :
           new.local[g] >= old.local[g]

TokensOnlyGrow ==
    [][\A i \in Rids, range \in Ranges :
           tokens[i][range] # NoToken =>
               \/ rid' = Absent /\ tokens'[i][range] = NoToken
               \/ NoOlder(tokens'[i][range], tokens[i][range])]_vars

\* An answer is no older than what the client was answered with before it made
\* the request, by the same incarnation of the container and since it last
\* dropped its tokens.
Fresh(o) ==
    op[o].pc = "answered" /\ op[o].answer.rid = op[o].floorRid
        => op[o].answer.token.global >= op[o].floor

\* ConsistencyLevel.ts:21: within a session reads are monotonic and see the
\* client's writes, however answers overtake each other and while regions are
\* added and removed, as long as the name of the container stands for the live one.
ReadYourWritesOfKnown ==
    \A o \in Ops : op[o].pc = "answered" /\ op[o].known => Fresh(o)
=============================================================================

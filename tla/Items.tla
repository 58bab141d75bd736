-------------------------------- MODULE Items --------------------------------
(***************************************************************************)
(* Containers and items of one client: client/Container/*.ts,              *)
(* client/Item/*.ts, client/Database/Databases.ts, extractPartitionKey.ts, *)
(* and the calls of ClientContext.ts they end in.                          *)
(*                                                                         *)
(* The client caches the partition key definition of a container when it   *)
(* reads the container, and takes the partition key of an item from it.    *)
(* Nothing refreshes that cache.  The objects the user passes (bodies,     *)
(* options, references to items) are changed by the calls, and used again  *)
(* when the user repeats a call.                                           *)
(*                                                                         *)
(* One container name; callers each with objects of their own and one call *)
(* at a time; the service; other clients who make and delete the container;*)
(* exchanges that are lost before or after they were served.               *)
(***************************************************************************)
EXTENDS Integers, Sequences, FiniteSets

CONSTANTS
    Callers,
    ForeignDefinitions, \* of the partition keys of containers that others make
    DefaultDefinition,
    Fields,             \* of the item of each caller, by path, without its id
    Ids,                \* generated ids
    ContainerBodies,    \* with the throughput asked for, 0 for none
    CallsOf,            \* what each caller calls
    Plugins,            \* clientOptions.plugins, <<>> if not given
    MaxContainers,      \* containers made, by anybody
    MaxFaults           \* lost exchanges

IdPath == "id"

ASSUME ItemsAssumption ==
    /\ \A d \in {b.partitionKey : b \in ContainerBodies}
                  \cup ForeignDefinitions \cup {DefaultDefinition} :
           \A c \in Callers : \A i \in 1..Len(d.paths) :
               d.paths[i] \in DOMAIN Fields[c] \cup {IdPath}
    /\ \A b \in ContainerBodies : b.throughput \in Nat
    /\ MaxContainers \in Nat
    /\ MaxFaults \in Nat

VARIABLES
    \* the service
    container,      \* its number, definition, throughput and how it was asked for
    items,          \* items of the container: owner, id, key
    made, faults,
    \* the client
    partitionKeyDefinitionCache,
    \* the user's objects
    id,             \* body.id of each caller's item
    body,           \* container body: throughput, partitionKey
    options,        \* given or not, and the throughput in options.initialHeaders
    ref,            \* an Item: whose it is, id and partitionKey
    \* calls
    op,             \* the call under way
    pc,             \* "idle", "reading" the container, "sent" the call itself
    sent,           \* what the exchange of the call itself carries
    answer,         \* of the exchange under way
    repeats,        \* how often plugins may still call next in this exchange
    \* history
    learnt,         \* the container of the last read answer this client had
    asked,          \* the throughput the user wrote into the container body
    used,           \* with which options the body was passed to a create first:
                    \* "no" if it was not, "these" or "others" (or without any)
    filled,         \* a body that asked for throughput was passed with the options
    raced           \* the container was made since this call last looked

serviceVars == <<container, items, made, faults>>
objectVars == <<id, body, options, ref>>
callVars == <<op, pc, sent, answer, repeats>>
userVars == <<asked, used, filled>>
cacheVars == <<partitionKeyDefinitionCache, learnt>>
vars == <<serviceVars, cacheVars, objectVars, callVars, userVars, raced>>

Undefined == "undefined"
NullAbove == "null above"       \* a path that leads through null
NoId == "no id"
NoKey == <<Undefined>>          \* an Item without partitionKey
NoRef == [id |-> NoId]
NoOptions == [given |-> FALSE, throughput |-> 0]
NoContainer == [number |-> 0]
NoDefinition == [paths |-> <<>>]
PlainBody == [throughput |-> 0, partitionKey |-> NoDefinition]
Nothing == [code |-> "nothing"] \* sent or answered
Travelling == [code |-> "travelling"]
NoCall == [name |-> "none"]

ItemWrites == {"create", "upsert"}
ContainerCreates == {"create container", "ensure container"}
ItemOperations == {"read", "replace", "delete"}
Calls(c) == [name : CallsOf[c] \ ItemWrites]
            \cup [name : CallsOf[c] \cap ItemWrites, automatic : BOOLEAN]

-----------------------------------------------------------------------------
(* Partition keys *)

\* What the item of a caller has at a path, its id being i.
ValueAt(owner, i, path) ==
    IF path # IdPath THEN Fields[owner][path]
    ELSE IF i = NoId THEN Undefined ELSE i

\* A mutant: containers without a partition key are as any other.
EmptyObjectKey(definition) == <<"{}">>

\* The key of an item that has nothing at the path.
UndefinedPartitionKey(definition) ==
    IF definition.systemKey THEN <<>> ELSE <<"{}">>

\* extractPartitionKey follows each path through the body; the in operator
\* throws at a null on the way.
ExtractionThrows(owner, i, definition) ==
    \E k \in DOMAIN definition.paths :
        ValueAt(owner, i, definition.paths[k]) = NullAbove

ExtractPartitionKey(owner, i, definition) ==
    LET key == [k \in DOMAIN definition.paths |->
                   ValueAt(owner, i, definition.paths[k])]
    IN  IF key = <<Undefined>> THEN UndefinedPartitionKey(definition) ELSE key

\* The key the service finds in an item; to it null above is as undefined.
ServiceKey(owner, i, definition) ==
    LET key == [k \in DOMAIN definition.paths |->
                   IF ValueAt(owner, i, definition.paths[k]) = NullAbove
                   THEN Undefined ELSE ValueAt(owner, i, definition.paths[k])]
    IN  IF key # <<Undefined>> THEN key
        ELSE IF definition.systemKey THEN <<>> ELSE <<"{}">>

-----------------------------------------------------------------------------
(* Exchanges *)

\* The plugins of an operation that call next again when it fails.  On the way to
\* the first request all plugins are passed; level then stays at the end, so that
\* a next called again goes to the request at once.
Repeaters == Cardinality({i \in DOMAIN Plugins :
                 Plugins[i].on = "operation" /\ Plugins[i].repeats})

\* A call of ClientContext up to its request.
Exchange(c) ==
    /\ answer' = [answer EXCEPT ![c] = Travelling]
    /\ repeats' = [repeats EXCEPT ![c] = Repeaters]

\* Container.read up to its request.
ReadContainer(c) ==
    /\ pc' = [pc EXCEPT ![c] = "reading"]
    /\ Exchange(c)
    /\ UNCHANGED <<sent, objectVars, userVars>>

Send(c, what) ==
    /\ pc' = [pc EXCEPT ![c] = "sent"]
    /\ sent' = [sent EXCEPT ![c] = what]
    /\ Exchange(c)

End(c) ==
    /\ op' = [op EXCEPT ![c] = NoCall]
    /\ pc' = [pc EXCEPT ![c] = "idle"]
    /\ sent' = [sent EXCEPT ![c] = Nothing]
    /\ answer' = [answer EXCEPT ![c] = Nothing]
    /\ repeats' = [repeats EXCEPT ![c] = 0]

-----------------------------------------------------------------------------
(* What the calls send *)

\* A mutant: the headers are the call's own.
HeadersOfThisCall(c, throughput) == options[c]

\* Containers.create takes the throughput out of the body and puts it into the
\* headers of the options, which the user may have given.
HeadersOfOptions(c, throughput) ==
    IF options[c].given THEN [options[c] EXCEPT !.throughput = throughput]
                        ELSE options[c]

\* The user may count on the throughput: a body that asks for it is new or comes with
\* the options it came with first, one that does not with options that never came
\* with one that does.
Careful(c) == IF asked[c] > 0 THEN used[c] # "others" ELSE ~filled[c]

\* Without a partition key the body is given the default one.
CreateContainer(c) ==
    LET throughput == IF body[c].throughput > 0 THEN body[c].throughput
                                                ELSE options[c].throughput
        definition == IF body[c].partitionKey = NoDefinition
                      THEN DefaultDefinition ELSE body[c].partitionKey
    IN  /\ body' = [body EXCEPT ![c] = [throughput |-> 0,
                                        partitionKey |-> definition]]
        /\ options' = [options EXCEPT ![c] = HeadersOfOptions(c, throughput)]
        /\ Send(c, [code |-> "container", definition |-> definition,
                    throughput |-> throughput, asked |-> asked[c],
                    careful |-> Careful(c)])
        /\ used' = [used EXCEPT ![c] = IF @ # "no" THEN @
                                       ELSE IF options[c].given THEN "these"
                                       ELSE "others"]
        /\ filled' = [filled EXCEPT ![c] =
                         @ \/ (options[c].given /\ asked[c] > 0 /\ used[c] # "others")]
        /\ UNCHANGED <<id, ref, asked>>

\* Ids that uuid may give.
FreshIds ==
    {i \in Ids : /\ \A c \in Callers : id[c] # i
                 /\ \A c \in Callers : sent[c].code = "item" => sent[c].id # i
                 /\ \A item \in items : item.id # i}

\* A mutant: the id is given to what is sent, and the user's body left alone.
BodyKeepsNoId(c, i) == id

\* The generated id is assigned to the user's body.
BodyGetsId(c, i) == [id EXCEPT ![c] = i]

GeneratesId(c, call) == call.automatic /\ id[c] = NoId

\* The key is to be taken from the id of the item.
KeyedById(definition) ==
    \E i \in DOMAIN definition.paths : definition.paths[i] = IdPath

\* Items.create and upsert, once the definition is known: the key is taken from the
\* body before that gets an id.
SendItem(c, call, known) ==
    IF ExtractionThrows(c, id[c], known.definition)
    THEN End(c) /\ UNCHANGED <<objectVars, userVars>>
    ELSE /\ \E i \in IF GeneratesId(c, call)
                     THEN {CHOOSE i \in FreshIds : TRUE} ELSE {id[c]} :
              /\ id' = BodyGetsId(c, i)
              /\ Send(c, [code |-> "item", owner |-> c, id |-> i,
                     key |-> ExtractPartitionKey(c, id[c], known.definition),
                     number |-> known.number,
                     keyBeforeId |-> /\ GeneratesId(c, call)
                                     /\ KeyedById(known.definition)])
         /\ op' = [op EXCEPT ![c] = call]
         /\ UNCHANGED <<body, options, ref, userVars>>

\* Item.read, replace and delete, once the partition key is known.
SendItemOperation(c, call, key) ==
    /\ ref' = [ref EXCEPT ![c].key = key]
    /\ Send(c, [code |-> "item", owner |-> ref[c].owner, id |-> ref[c].id,
                key |-> key])
    /\ op' = [op EXCEPT ![c] = call]
    /\ UNCHANGED <<id, body, options, userVars>>

\* An Item without a partition key gets one for good from the first call on it:
\* that of the body given to replace, or that of items without any.
ItemOperation(c, call, known) ==
    IF /\ call.name = "replace"
       /\ ExtractionThrows(ref[c].owner, ref[c].id, known.definition)
    THEN End(c) /\ UNCHANGED <<objectVars, userVars>>
    ELSE SendItemOperation(c, call,
             IF call.name = "replace"
             THEN ExtractPartitionKey(ref[c].owner, ref[c].id, known.definition)
             ELSE UndefinedPartitionKey(known.definition))

-----------------------------------------------------------------------------
(* Calls *)

NeedsDefinition(c, call) ==
    \/ call.name \in ItemWrites
    \/ call.name \in ItemOperations /\ ref[c].key = NoKey

\* What a call does with the definition it asked for.
WithDefinition(c, call, known) ==
    IF call.name \in ItemWrites THEN SendItem(c, call, known)
                                ELSE ItemOperation(c, call, known)

\* getPartitionKeyDefinition asks the service only if the cache has nothing.
Cached == partitionKeyDefinitionCache # NoDefinition

Known == [number |-> learnt, definition |-> partitionKeyDefinitionCache]

Possible(c, call) ==
    /\ call.name \in ItemOperations => ref[c].id # NoId
    /\ call.name \in ItemWrites /\ call.automatic => FreshIds # {}

Begin(c, call) ==
    /\ pc[c] = "idle"
    /\ Possible(c, call)
    /\ UNCHANGED raced
    /\ \/ /\ NeedsDefinition(c, call) /\ Cached
          /\ WithDefinition(c, call, Known)
       \/ /\ \/ NeedsDefinition(c, call) /\ ~Cached
             \/ call.name \in {"read container", "ensure container"}
          /\ ReadContainer(c)
          /\ op' = [op EXCEPT ![c] = call]
       \/ /\ call.name = "create container"
          /\ CreateContainer(c)
          /\ op' = [op EXCEPT ![c] = call]
       \/ /\ call.name = "delete container"
          /\ Send(c, [code |-> "delete"])
          /\ op' = [op EXCEPT ![c] = call]
          /\ UNCHANGED <<objectVars, userVars>>
       \/ /\ call.name \in ItemOperations /\ ~NeedsDefinition(c, call)
          /\ SendItemOperation(c, call, ref[c].key)
    /\ UNCHANGED <<serviceVars, cacheVars>>

\* A plugin calls next again after a failure.
Repeat(c) ==
    /\ answer[c].code \notin {"nothing", "travelling", "ok"}
    /\ repeats[c] > 0
    /\ answer' = [answer EXCEPT ![c] = Travelling]
    /\ repeats' = [repeats EXCEPT ![c] = @ - 1]
    /\ UNCHANGED <<serviceVars, cacheVars, objectVars, op, pc, sent, userVars,
                   raced>>

\* A mutant: createIfNotExists creates after any failure to read.
AbsentOnFailure(code) == code # "ok"

Absent(code) == code = "not found"

\* A mutant: a definition once cached stays.
RememberFirst(definition) ==
    IF Cached THEN partitionKeyDefinitionCache ELSE definition

\* Every read of the container replaces what is cached.
Remember(definition) == definition

\* Container.read has its answer; a call that asked for the definition finds it in
\* the cache.
ReceiveContainer(c) ==
    /\ pc[c] = "reading"
    /\ answer[c].code \notin {"nothing", "travelling"}
    /\ IF answer[c].code = "ok"
       THEN LET known == [number |-> answer[c].number,
                          definition |-> Remember(answer[c].definition)]
            IN  /\ partitionKeyDefinitionCache' = known.definition
                /\ learnt' = known.number
                /\ IF op[c].name \in ItemWrites \cup ItemOperations
                   THEN WithDefinition(c, op[c], known)
                   ELSE End(c) /\ UNCHANGED <<objectVars, userVars>>
       ELSE /\ UNCHANGED cacheVars
            /\ IF op[c].name = "ensure container" /\ Absent(answer[c].code)
               THEN CreateContainer(c) /\ UNCHANGED op
               ELSE End(c) /\ UNCHANGED <<objectVars, userVars>>
    /\ raced' = [raced EXCEPT ![c] = @ /\ pc'[c] = "sent"]
    /\ UNCHANGED serviceVars

\* The call itself has its answer; nothing is done with it, a deleted container
\* included.
Receive(c) ==
    /\ pc[c] = "sent"
    /\ answer[c].code \notin {"nothing", "travelling"}
    /\ End(c)
    /\ raced' = [raced EXCEPT ![c] = FALSE]
    /\ UNCHANGED <<serviceVars, cacheVars, objectVars, userVars>>

-----------------------------------------------------------------------------
(* The user's objects *)

\* A new container body, for the options there are.
NewContainerBody(c) ==
    /\ pc[c] = "idle"
    /\ CallsOf[c] \cap ContainerCreates # {}
    /\ \E b \in ContainerBodies :
         /\ body' = [body EXCEPT ![c] = b]
         /\ asked' = [asked EXCEPT ![c] = b.throughput]
    /\ used' = [used EXCEPT ![c] = "no"]
    /\ UNCHANGED <<serviceVars, cacheVars, id, options, ref, callVars, filled,
                   raced>>

\* New options, or none, for the body there is.
NewOptions(c) ==
    /\ pc[c] = "idle"
    /\ CallsOf[c] \cap ContainerCreates # {}
    /\ \E given \in BOOLEAN :
           options' = [options EXCEPT ![c] = [given |-> given, throughput |-> 0]]
    /\ used' = [used EXCEPT ![c] = IF @ = "no" THEN "no" ELSE "others"]
    /\ filled' = [filled EXCEPT ![c] = FALSE]
    /\ UNCHANGED <<serviceVars, cacheVars, id, body, ref, callVars, asked, raced>>

\* container.item(id, undefined) for any item.  One with a partition key behaves
\* as this does after its first call.
NewItemReference(c) ==
    /\ pc[c] = "idle"
    /\ CallsOf[c] \cap ItemOperations # {}
    /\ \E d \in {d \in Callers : id[d] # NoId} :
           ref' = [ref EXCEPT ![c] = [owner |-> d, id |-> id[d], key |-> NoKey]]
    /\ UNCHANGED <<serviceVars, cacheVars, id, body, options, callVars, userVars,
                   raced>>

-----------------------------------------------------------------------------
(* The service *)

\* An exchange is answered, or the answer is lost.
Reply(c, reply) ==
    \/ answer' = [answer EXCEPT ![c] = reply] /\ UNCHANGED faults
    \/ /\ faults < MaxFaults
       /\ faults' = faults + 1
       /\ answer' = [answer EXCEPT ![c] = [code |-> "lost"]]

\* Or the request is.
LoseRequest(c) ==
    /\ answer[c] = Travelling
    /\ faults < MaxFaults
    /\ faults' = faults + 1
    /\ answer' = [answer EXCEPT ![c] = [code |-> "lost"]]
    /\ UNCHANGED <<container, items, made, cacheVars, objectVars, op, pc, sent,
                   repeats, userVars, raced>>

Serving(c, place) ==
    /\ answer[c] = Travelling
    /\ pc[c] = place
    /\ UNCHANGED <<cacheVars, objectVars, op, pc, sent, repeats, userVars>>

ServeReading(c) ==
    /\ Serving(c, "reading")
    /\ Reply(c, IF container = NoContainer THEN [code |-> "not found"]
                ELSE [code |-> "ok", number |-> container.number,
                      definition |-> container.definition])
    /\ raced' = [raced EXCEPT ![c] = FALSE]
    /\ UNCHANGED <<container, items, made>>

Make(new) ==
    /\ made' = made + 1
    /\ container' = new
    /\ items' = {}
    /\ raced' = [c \in Callers |-> op[c].name = "ensure container"]

ServeCreateContainer(c) ==
    /\ Serving(c, "sent")
    /\ sent[c].code = "container"
    /\ IF container = NoContainer /\ made < MaxContainers
       THEN /\ Make([number |-> made + 1, definition |-> sent[c].definition,
                     throughput |-> sent[c].throughput, asked |-> sent[c].asked,
                     careful |-> sent[c].careful])
            /\ Reply(c, [code |-> "ok"])
       ELSE /\ Reply(c, [code |-> IF container = NoContainer THEN "no quota"
                                                            ELSE "conflict"])
            /\ UNCHANGED <<container, items, made, raced>>

ServeDeleteContainer(c) ==
    /\ Serving(c, "sent")
    /\ sent[c].code = "delete"
    /\ container' = NoContainer
    /\ items' = {}
    /\ Reply(c, [code |-> IF container = NoContainer THEN "not found" ELSE "ok"])
    /\ UNCHANGED <<made, raced>>

SameItem(c) == {i \in items : i.id = sent[c].id /\ i.key = sent[c].key}

Written(c) == [owner |-> sent[c].owner, id |-> sent[c].id, key |-> sent[c].key]

\* What the service says to a request about an item.
Verdict(c) ==
    IF container = NoContainer THEN "not found"
    ELSE IF sent[c].id = NoId THEN "no id"
    ELSE IF /\ op[c].name \notin {"read", "delete"}
            /\ sent[c].key # ServiceKey(sent[c].owner, sent[c].id,
                                        container.definition)
         THEN "wrong key"
    ELSE IF op[c].name = "create"
         THEN IF SameItem(c) = {} THEN "ok" ELSE "conflict"
    ELSE IF op[c].name = "upsert" \/ SameItem(c) # {} THEN "ok"
    ELSE "not found"

ServeItem(c) ==
    /\ Serving(c, "sent")
    /\ sent[c].code = "item"
    /\ Reply(c, [code |-> Verdict(c), number |-> container.number])
    /\ items' = IF Verdict(c) # "ok" \/ op[c].name = "read" THEN items
                ELSE (items \ SameItem(c))
                     \cup (IF op[c].name = "delete" THEN {} ELSE {Written(c)})
    /\ UNCHANGED <<container, made, raced>>

\* Another client makes the container anew, or deletes it.
OthersMake ==
    /\ container = NoContainer
    /\ made < MaxContainers
    /\ \E d \in ForeignDefinitions :
           Make([number |-> made + 1, definition |-> d, throughput |-> 0,
                 asked |-> 0, careful |-> FALSE])
    /\ UNCHANGED <<faults, cacheVars, objectVars, callVars, userVars>>

OthersDelete ==
    /\ container # NoContainer
    /\ container' = NoContainer
    /\ items' = {}
    /\ UNCHANGED <<made, faults, cacheVars, objectVars, callVars, userVars, raced>>

-----------------------------------------------------------------------------
Init ==
    /\ container = NoContainer
    /\ items = {}
    /\ made = 0
    /\ faults = 0
    /\ partitionKeyDefinitionCache = NoDefinition
    /\ learnt = 0
    /\ id = [c \in Callers |-> NoId]
    /\ body = [c \in Callers |-> PlainBody]
    /\ options = [c \in Callers |-> NoOptions]
    /\ asked = [c \in Callers |-> 0]
    /\ ref = [c \in Callers |-> NoRef]
    /\ op = [c \in Callers |-> NoCall]
    /\ pc = [c \in Callers |-> "idle"]
    /\ sent = [c \in Callers |-> Nothing]
    /\ answer = [c \in Callers |-> Nothing]
    /\ repeats = [c \in Callers |-> 0]
    /\ used = [c \in Callers |-> "no"]
    /\ filled = [c \in Callers |-> FALSE]
    /\ raced = [c \in Callers |-> FALSE]

CallerNext(c) ==
    \/ \E call \in Calls(c) : Begin(c, call)
    \/ Repeat(c)
    \/ ReceiveContainer(c)
    \/ Receive(c)
    \/ NewContainerBody(c)
    \/ NewOptions(c)
    \/ NewItemReference(c)

ServiceNext(c) ==
    \/ ServeReading(c)
    \/ ServeCreateContainer(c)
    \/ ServeDeleteContainer(c)
    \/ ServeItem(c)
    \/ LoseRequest(c)

Next ==
    \/ \E c \in Callers : CallerNext(c) \/ ServiceNext(c)
    \/ OthersMake
    \/ OthersDelete

Spec == Init /\ [][Next]_vars

-----------------------------------------------------------------------------
(* Properties *)

\* An item is refused for its partition key only if the container was made anew
\* after the last read of it this client had an answer to, whatever calls overlap:
\* the cache never holds another definition than that read gave, though it is not
\* refreshed when the container goes.  Excepted is an item whose key is its id and
\* whose id this call generates: Items.create takes the key before (Items.ts:192).
RefusedOnlyIfStale ==
    \A c \in Callers :
        pc[c] = "sent" /\ op[c].name \in ItemWrites
        /\ answer[c].code = "wrong key"
        => sent[c].number # answer[c].number \/ sent[c].keyBeforeId

\* However often the user, or a plugin, repeats a create or upsert that failed or
\* whose answer was lost, one body makes one item: the id generated for the first
\* attempt is kept in the body.
CreatedOnce ==
    \A i, j \in items : i.owner = j.owner => i = j

\* A container has the throughput its body asked for, and none if that asked for none,
\* also if the call that made it was not the first to be passed that body, which the
\* first one has stripped: the options keep it.  Excepted are a stripped body that
\* comes with other options or none, whose container gets what those have, and a body
\* that asks for none with options that came with one that does (Containers.ts:103).
ThroughputAsAsked ==
    container # NoContainer /\ container.careful
        => container.throughput = container.asked

\* createIfNotExists ends in a conflict only if the container was made after it
\* had found none.
ConflictMeansRace ==
    \A c \in Callers :
        pc[c] = "sent" /\ op[c].name = "ensure container"
        /\ answer[c].code = "conflict" => raced[c]

=============================================================================

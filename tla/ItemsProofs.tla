----------------------------- MODULE ItemsProofs -----------------------------
(***************************************************************************)
(* For any callers, containers, fields, plugins and number of lost         *)
(* exchanges: a body makes one item however often its create is repeated,  *)
(* a container has the throughput asked for unless bodies and options are  *)
(* used again for one another, createIfNotExists fails only when it was    *)
(* overtaken, and a key is refused only when its definition was stale or   *)
(* the key is an id that was not there when it was taken.                  *)
(***************************************************************************)
EXTENDS Items, TLAPS

-----------------------------------------------------------------------------
(* The shape of the state *)

Shape ==
    /\ DOMAIN id = Callers /\ DOMAIN ref = Callers /\ DOMAIN op = Callers
    /\ DOMAIN pc = Callers /\ DOMAIN sent = Callers /\ DOMAIN answer = Callers
    /\ DOMAIN raced = Callers /\ DOMAIN body = Callers
    /\ used \in [Callers -> {"no", "these", "others"}]
    /\ filled \in [Callers -> BOOLEAN]
    /\ asked \in [Callers -> Nat]
    /\ options \in [Callers -> [given : BOOLEAN, throughput : Nat]]
    /\ \A c \in Callers : body[c].throughput \in Nat
    /\ made \in Nat

\* The objects of the user keep their shape in a call that sends an item or ends.
LEMMA ItemCallsKeepShape ==
    ASSUME Shape, NEW c \in Callers, NEW call, NEW known,
           WithDefinition(c, call, known)
    PROVE  /\ UNCHANGED <<body, options, userVars>>
           /\ DOMAIN id' = Callers /\ DOMAIN ref' = Callers
           /\ DOMAIN op' = Callers /\ DOMAIN pc' = Callers
           /\ DOMAIN sent' = Callers /\ DOMAIN answer' = Callers
  <1>1. ASSUME SendItem(c, call, known)
        PROVE  /\ UNCHANGED <<body, options, userVars>>
               /\ DOMAIN id' = Callers /\ ref' = ref
               /\ DOMAIN op' = Callers /\ DOMAIN pc' = Callers
               /\ DOMAIN sent' = Callers /\ DOMAIN answer' = Callers
    BY <1>1 DEF SendItem, End, Send, Exchange, BodyGetsId, Shape, objectVars
  <1>2. ASSUME ItemOperation(c, call, known)
        PROVE  /\ UNCHANGED <<body, options, userVars>>
               /\ id' = id /\ DOMAIN ref' = Callers
               /\ DOMAIN op' = Callers /\ DOMAIN pc' = Callers
               /\ DOMAIN sent' = Callers /\ DOMAIN answer' = Callers
    BY <1>2 DEF ItemOperation, SendItemOperation, End, Send, Exchange, Shape,
                objectVars
  <1> QED BY <1>1, <1>2 DEF WithDefinition, Shape

LEMMA CreateContainerKeepsShape ==
    ASSUME Shape, NEW c \in Callers, CreateContainer(c)
    PROVE  /\ UNCHANGED <<id, ref, asked>>
           /\ DOMAIN pc' = Callers /\ DOMAIN sent' = Callers
           /\ DOMAIN answer' = Callers /\ DOMAIN body' = Callers
           /\ used' \in [Callers -> {"no", "these", "others"}]
           /\ filled' \in [Callers -> BOOLEAN]
           /\ options' \in [Callers -> [given : BOOLEAN, throughput : Nat]]
           /\ \A d \in Callers : body'[d].throughput \in Nat
  <1> DEFINE throughput == IF body[c].throughput > 0 THEN body[c].throughput
                                                     ELSE options[c].throughput
  <1>1. throughput \in Nat /\ options[c] \in [given : BOOLEAN, throughput : Nat]
    BY DEF Shape
  <1>2. HeadersOfOptions(c, throughput) \in [given : BOOLEAN, throughput : Nat]
    BY <1>1 DEF HeadersOfOptions
  <1>3. options' = [options EXCEPT ![c] = HeadersOfOptions(c, throughput)]
    BY DEF CreateContainer
  <1>4. options' \in [Callers -> [given : BOOLEAN, throughput : Nat]]
    BY <1>2, <1>3 DEF Shape
  <1>5. used' \in [Callers -> {"no", "these", "others"}]
    BY DEF CreateContainer, Shape
  <1>6. filled' \in [Callers -> BOOLEAN]
    <2>1. filled' = [filled EXCEPT ![c] =
                       filled[c] \/ (options[c].given /\ asked[c] > 0
                                     /\ used[c] # "others")]
      BY Zenon DEF CreateContainer
    <2> QED BY <2>1 DEF Shape
  <1> QED BY <1>4, <1>5, <1>6 DEF CreateContainer, Send, Exchange, Shape

LEMMA MakeKeepsShape ==
    ASSUME Shape, NEW new, Make(new)
    PROVE  DOMAIN raced' = Callers /\ made' \in Nat
  <1>1. made' = made + 1
    BY Zenon DEF Make
  <1>2. DOMAIN raced' = Callers
    BY Zenon DEF Make
  <1>3. made \in Nat
    BY DEF Shape
  <1> QED BY <1>1, <1>2, <1>3

LEMMA StepKeepsShape == Shape /\ [Next]_vars => Shape'
  <1> SUFFICES ASSUME Shape, [Next]_vars PROVE Shape'
    OBVIOUS
  <1>1. ASSUME NEW c \in Callers, NEW call \in Calls(c), Begin(c, call)
        PROVE  Shape'
    <2>1. made' = made /\ raced' = raced
      BY <1>1 DEF Begin, serviceVars
    <2>2. \/ WithDefinition(c, call, Known)
          \/ ReadContainer(c) /\ op' = [op EXCEPT ![c] = call]
          \/ CreateContainer(c) /\ op' = [op EXCEPT ![c] = call]
          \/ /\ Send(c, [code |-> "delete"])
             /\ op' = [op EXCEPT ![c] = call]
             /\ UNCHANGED <<objectVars, userVars>>
          \/ SendItemOperation(c, call, ref[c].key)
      BY <1>1 DEF Begin
    <2>3. CASE WithDefinition(c, call, Known)
      <3>1. /\ UNCHANGED <<body, options, userVars>>
            /\ DOMAIN id' = Callers /\ DOMAIN ref' = Callers
            /\ DOMAIN op' = Callers /\ DOMAIN pc' = Callers
            /\ DOMAIN sent' = Callers /\ DOMAIN answer' = Callers
        BY <2>3, ItemCallsKeepShape
      <3> QED BY <2>1, <3>1 DEF Shape, userVars
    <2>4. CASE CreateContainer(c) /\ op' = [op EXCEPT ![c] = call]
      BY <2>1, <2>4, CreateContainerKeepsShape DEF Shape
    <2> QED BY <2>1, <2>2, <2>3, <2>4
            DEF ReadContainer, Send, Exchange, SendItemOperation, Shape,
                objectVars, userVars
  <1>2. ASSUME NEW c \in Callers, ReceiveContainer(c) PROVE Shape'
    <2>1. made' = made /\ DOMAIN raced' = Callers
      BY <1>2 DEF ReceiveContainer, serviceVars, Shape
    <2>2. \/ \E known : WithDefinition(c, op[c], known)
          \/ End(c) /\ UNCHANGED <<objectVars, userVars>>
          \/ CreateContainer(c) /\ UNCHANGED op
      BY <1>2 DEF ReceiveContainer
    <2> QED BY <2>1, <2>2, CreateContainerKeepsShape, ItemCallsKeepShape
            DEF End, Shape, objectVars, userVars
  <1>3. ASSUME NEW c \in Callers, NewContainerBody(c) \/ NewOptions(c)
        PROVE  Shape'
    <2>1. UNCHANGED <<made, id, ref, op, pc, sent, answer, raced>>
      BY <1>3 DEF NewContainerBody, NewOptions, serviceVars, callVars
    <2>2. CASE NewContainerBody(c)
      <3>1. PICK b \in ContainerBodies :
              /\ body' = [body EXCEPT ![c] = b]
              /\ asked' = [asked EXCEPT ![c] = b.throughput]
        BY <2>2 DEF NewContainerBody
      <3>2. b.throughput \in Nat
        BY ItemsAssumption
      <3> QED BY <2>1, <2>2, <3>1, <3>2 DEF NewContainerBody, Shape
    <2>3. CASE NewOptions(c)
      <3>1. PICK given \in BOOLEAN :
              options' = [options EXCEPT ![c] = [given |-> given, throughput |-> 0]]
        BY <2>3 DEF NewOptions
      <3>2. [given |-> given, throughput |-> 0] \in [given : BOOLEAN, throughput : Nat]
        OBVIOUS
      <3>3. options' \in [Callers -> [given : BOOLEAN, throughput : Nat]]
        BY <3>1, <3>2 DEF Shape
      <3> QED BY <2>1, <2>3, <3>3 DEF NewOptions, Shape
    <2> QED BY <1>3, <2>2, <2>3
  <1>4. ASSUME NEW c \in Callers, Repeat(c) \/ Receive(c) \/ NewItemReference(c)
        PROVE  Shape'
    <2>1. CASE Repeat(c)
      BY <2>1 DEF Repeat, Shape, serviceVars, objectVars, userVars
    <2>2. CASE Receive(c)
      BY <2>2 DEF Receive, End, Shape, serviceVars, objectVars, userVars
    <2>3. CASE NewItemReference(c)
      BY <2>3 DEF NewItemReference, Shape, serviceVars, callVars, userVars
    <2> QED BY <1>4, <2>1, <2>2, <2>3
  <1>5. ASSUME NEW c \in Callers, ServiceNext(c) PROVE Shape'
    <2>1. UNCHANGED <<objectVars, op, pc, sent, userVars>>
      BY <1>5 DEF ServiceNext, ServeReading, ServeCreateContainer,
                  ServeDeleteContainer, ServeItem, LoseRequest, Serving,
                  userVars
    <2>2. DOMAIN answer' = Callers
      BY <1>5 DEF ServiceNext, ServeReading, ServeCreateContainer,
                  ServeDeleteContainer, ServeItem, LoseRequest, Reply, Shape
    <2>3. DOMAIN raced' = Callers /\ made' \in Nat
      <3>1. CASE ServeReading(c)
        BY <3>1 DEF ServeReading, Shape
      <3>2. CASE ServeCreateContainer(c)
        <4>1. (\E new : Make(new)) \/ UNCHANGED <<made, raced>>
          BY <3>2 DEF ServeCreateContainer
        <4> QED BY <4>1, MakeKeepsShape DEF Shape
      <3>3. CASE ServeDeleteContainer(c) \/ ServeItem(c) \/ LoseRequest(c)
        BY <3>3 DEF ServeDeleteContainer, ServeItem, LoseRequest, Shape,
                    userVars
      <3> QED BY <1>5, <3>1, <3>2, <3>3 DEF ServiceNext
    <2> QED BY <2>1, <2>2, <2>3 DEF Shape, objectVars, userVars
  <1>6. ASSUME OthersMake \/ OthersDelete PROVE Shape'
    <2>1. (\E new : Make(new)) \/ UNCHANGED <<made, raced>>
      BY <1>6 DEF OthersMake, OthersDelete, userVars
    <2>2. UNCHANGED <<objectVars, callVars, userVars>>
      BY <1>6 DEF OthersMake, OthersDelete, userVars
    <2> QED BY <2>1, <2>2, MakeKeepsShape
            DEF Shape, objectVars, callVars, userVars
  <1>7. CASE UNCHANGED vars
    BY <1>7 DEF Shape, vars, serviceVars, objectVars, callVars, userVars
  <1> QED BY <1>1, <1>2, <1>3, <1>4, <1>5, <1>6, <1>7 DEF Next, CallerNext

LEMMA InitShape == Init => Shape
  <1> SUFFICES ASSUME Init PROVE Shape
    OBVIOUS
  <1>1. \A c \in Callers : body[c].throughput \in Nat
    BY DEF Init, PlainBody
  <1>2. asked \in [Callers -> Nat]
    BY <1>1 DEF Init
  <1>3. options \in [Callers -> [given : BOOLEAN, throughput : Nat]]
    <2>1. NoOptions \in [given : BOOLEAN, throughput : Nat]
      BY DEF NoOptions
    <2> QED BY <2>1 DEF Init
  <1> QED BY <1>1, <1>2, <1>3 DEF Init, Shape

-----------------------------------------------------------------------------
(* One body makes one item *)

\* An item of the service is what its owner's fields and id make it.
IsItemOf(i) ==
    /\ i.owner \in Callers
    /\ id[i.owner] # NoId
    /\ i = [owner |-> i.owner, id |-> id[i.owner],
            key |-> ServiceKey(i.owner, id[i.owner], container.definition)]

SentOwnId(c) ==
    sent[c].code = "item" =>
        /\ sent[c].owner \in Callers
        /\ sent[c].id \in {NoId, id[sent[c].owner]}

RefersToId(c) ==
    ref[c].id # NoId =>
        /\ ref[c].owner \in Callers
        /\ ref[c].id = id[ref[c].owner]

OnItem(c) == op[c].name \in ItemOperations => ref[c].id # NoId

CreatedInv ==
    /\ \A i \in items : container # NoContainer /\ IsItemOf(i)
    /\ \A c \in Callers : SentOwnId(c) /\ RefersToId(c) /\ OnItem(c)

LEMMA CreatedInvImpliesCreatedOnce == CreatedInv => CreatedOnce
  BY DEF CreatedInv, IsItemOf, CreatedOnce

\* Generating an id disturbs nothing, since nothing had the caller's before.
LEMMA IdsAreKept ==
    ASSUME Shape, CreatedInv, NEW c \in Callers, NEW i,
           id' = [id EXCEPT ![c] = i], id[c] \in {NoId, i},
           UNCHANGED <<items, container, ref>>
    PROVE  /\ \A j \in items' : container' # NoContainer /\ IsItemOf(j)'
           /\ \A d \in Callers : RefersToId(d)'
           /\ \A d \in Callers : id[d] \in {NoId, id'[d]}
           /\ id'[c] = i
  BY DEF CreatedInv, IsItemOf, RefersToId, Shape

\* A partition key given to a reference to an item leaves its id.
LEMMA SendItemOperationKeepsCreatedInv ==
    ASSUME Shape, CreatedInv, NEW c \in Callers, NEW call, NEW key,
           ref[c].id # NoId, SendItemOperation(c, call, key),
           UNCHANGED <<items, container>>
    PROVE  CreatedInv'
  <1>1. /\ ref' = [ref EXCEPT ![c].key = key]
        /\ sent' = [sent EXCEPT ![c] = [code |-> "item", owner |-> ref[c].owner,
                                        id |-> ref[c].id, key |-> key]]
        /\ op' = [op EXCEPT ![c] = call]
        /\ id' = id
    BY DEF SendItemOperation, Send
  <1>2. \A d \in Callers : ref'[d].id = ref[d].id /\ ref'[d].owner = ref[d].owner
    BY <1>1 DEF Shape
  <1>3. \A d \in Callers : RefersToId(d)' /\ OnItem(d)'
    BY <1>1, <1>2 DEF CreatedInv, RefersToId, OnItem, Shape
  <1>4. \A d \in Callers : SentOwnId(d)'
    BY <1>1 DEF CreatedInv, SentOwnId, RefersToId, Shape
  <1>5. \A j \in items' : container' # NoContainer /\ IsItemOf(j)'
    BY <1>1 DEF CreatedInv, IsItemOf
  <1> QED BY <1>3, <1>4, <1>5 DEF CreatedInv

LEMMA EndKeepsCreatedInv ==
    ASSUME Shape, CreatedInv, NEW c \in Callers, End(c),
           UNCHANGED <<items, container, id, ref>>
    PROVE  CreatedInv'
  BY DEF End, CreatedInv, Shape, SentOwnId, RefersToId, OnItem, IsItemOf,
         Nothing, NoCall, ItemOperations

LEMMA WithDefinitionKeepsCreatedInv ==
    ASSUME Shape, CreatedInv, NEW c \in Callers, NEW call, NEW known,
           call.name \in ItemOperations => ref[c].id # NoId,
           call.name \in ItemWrites \cup ItemOperations,
           WithDefinition(c, call, known), UNCHANGED <<items, container>>
    PROVE  CreatedInv'
  <1>1. ASSUME End(c), UNCHANGED objectVars PROVE CreatedInv'
    BY <1>1, EndKeepsCreatedInv DEF objectVars
  <1>2. CASE SendItem(c, call, known) /\ call.name \in ItemWrites
               /\ ~ExtractionThrows(c, id[c], known.definition)
    <2>1. PICK i : /\ i = id[c] \/ id[c] = NoId
                   /\ id' = [id EXCEPT ![c] = i]
                   /\ sent' = [sent EXCEPT ![c] =
                        [code |-> "item", owner |-> c, id |-> i,
                         key |-> ExtractPartitionKey(c, id[c],
                                                     known.definition),
                         number |-> known.number,
                         keyBeforeId |-> /\ GeneratesId(c, call)
                                         /\ KeyedById(known.definition)]]
      BY <1>2 DEF SendItem, Send, BodyGetsId, GeneratesId
    <2>2. ref' = ref /\ op' = [op EXCEPT ![c] = call]
      BY <1>2 DEF SendItem
    <2>3. /\ \A j \in items' : container' # NoContainer /\ IsItemOf(j)'
          /\ \A d \in Callers : RefersToId(d)'
          /\ \A d \in Callers : id[d] \in {NoId, id'[d]}
          /\ id'[c] = i
      BY <2>1, <2>2, IdsAreKept
    <2>4. \A d \in Callers : SentOwnId(d)'
      BY <2>1, <2>3 DEF SentOwnId, CreatedInv, Shape
    <2>5. \A d \in Callers : OnItem(d)'
      BY <1>2, <2>2 DEF OnItem, CreatedInv, Shape, ItemWrites, ItemOperations
    <2> QED BY <2>3, <2>4, <2>5 DEF CreatedInv
  <1>3. ASSUME NEW key, SendItemOperation(c, call, key), ref[c].id # NoId
        PROVE  CreatedInv'
    BY <1>3, SendItemOperationKeepsCreatedInv
  <1> QED BY <1>1, <1>2, <1>3
          DEF WithDefinition, SendItem, ItemOperation, ItemWrites, ItemOperations

\* The calls that do not ask for a definition send no item of another id.
LEMMA OtherSendsKeepCreatedInv ==
    ASSUME Shape, CreatedInv, NEW c \in Callers, NEW what,
           what.code # "item", sent' \in {sent, [sent EXCEPT ![c] = what]},
           \/ op' = op
           \/ /\ op' = [op EXCEPT ![c] = op'[c]]
              /\ op'[c].name \in ItemOperations => ref[c].id # NoId,
           UNCHANGED <<items, container, id, ref>>
    PROVE  CreatedInv'
  BY DEF CreatedInv, IsItemOf, SentOwnId, RefersToId, OnItem, Shape

\* What CreateContainer sends.
LEMMA ContainerIsSent ==
    ASSUME NEW c \in Callers, CreateContainer(c)
    PROVE  \E what : what.code = "container" /\ sent' = [sent EXCEPT ![c] = what]
  <1> DEFINE throughput == IF body[c].throughput > 0 THEN body[c].throughput
                                                     ELSE options[c].throughput
             definition == IF body[c].partitionKey = NoDefinition
                           THEN DefaultDefinition ELSE body[c].partitionKey
             what == [code |-> "container", definition |-> definition,
                      throughput |-> throughput, asked |-> asked[c],
                      careful |-> Careful(c)]
  <1>1. sent' = [sent EXCEPT ![c] = what]
    BY Zenon DEF CreateContainer, Send
  <1>2. what.code = "container"
    OBVIOUS
  <1> HIDE DEF what
  <1> QED BY <1>1, <1>2

LEMMA StepKeepsCreatedInv ==
    Shape /\ CreatedInv /\ [Next]_vars => CreatedInv'
  <1> SUFFICES ASSUME Shape, CreatedInv, [Next]_vars PROVE CreatedInv'
    OBVIOUS
  <1>1. ASSUME NEW c \in Callers, NEW call \in Calls(c), Begin(c, call)
        PROVE  CreatedInv'
    <2>1. /\ UNCHANGED <<items, container>>
          /\ call.name \in ItemOperations => ref[c].id # NoId
      BY <1>1 DEF Begin, Possible, serviceVars
    <2>2. CASE /\ WithDefinition(c, call, Known)
               /\ NeedsDefinition(c, call)
      BY <2>1, <2>2, WithDefinitionKeepsCreatedInv DEF NeedsDefinition
    <2>3. CASE ReadContainer(c) /\ op' = [op EXCEPT ![c] = call]
      <3>1. sent' = sent /\ id' = id /\ ref' = ref /\ op'[c] = call
        BY <2>3 DEF ReadContainer, objectVars, Shape
      <3> QED BY <2>1, <2>3, <3>1
              DEF CreatedInv, IsItemOf, SentOwnId, RefersToId, OnItem, Shape
    <2>4. CASE \/ CreateContainer(c) /\ op' = [op EXCEPT ![c] = call]
               \/ /\ Send(c, [code |-> "delete"])
                  /\ op' = [op EXCEPT ![c] = call]
                  /\ UNCHANGED <<objectVars, userVars>>
      <3>1. PICK what : what.code # "item" /\ sent' = [sent EXCEPT ![c] = what]
        <4>1. CASE CreateContainer(c)
          BY <4>1, ContainerIsSent
        <4>2. CASE Send(c, [code |-> "delete"])
          BY <4>2 DEF Send
        <4> QED BY <2>4, <4>1, <4>2
      <3>2. id' = id /\ ref' = ref /\ op' = [op EXCEPT ![c] = call] /\ op'[c] = call
        BY <2>4 DEF CreateContainer, objectVars, Shape
      <3> QED BY <2>1, <3>1, <3>2, OtherSendsKeepCreatedInv
    <2>5. CASE /\ SendItemOperation(c, call, ref[c].key)
               /\ call.name \in ItemOperations
      BY <2>1, <2>5, SendItemOperationKeepsCreatedInv
    <2> QED BY <1>1, <2>2, <2>3, <2>4, <2>5 DEF Begin
  <1>2. ASSUME NEW c \in Callers, ReceiveContainer(c) PROVE CreatedInv'
    <2>1. /\ UNCHANGED <<items, container>>
          /\ op[c].name \in ItemOperations => ref[c].id # NoId
      BY <1>2 DEF ReceiveContainer, serviceVars, CreatedInv, OnItem
    <2>2. CASE /\ \E known : WithDefinition(c, op[c], known)
               /\ op[c].name \in ItemWrites \cup ItemOperations
      BY <2>1, <2>2, WithDefinitionKeepsCreatedInv
    <2>3. CASE End(c) /\ UNCHANGED <<objectVars, userVars>>
      BY <2>1, <2>3, EndKeepsCreatedInv DEF objectVars
    <2>4. CASE CreateContainer(c) /\ UNCHANGED op
      <3>1. PICK what : what.code # "item" /\ sent' = [sent EXCEPT ![c] = what]
        BY <2>4, ContainerIsSent
      <3>2. id' = id /\ ref' = ref /\ op' = op
        BY <2>4 DEF CreateContainer
      <3> QED BY <2>1, <3>1, <3>2, OtherSendsKeepCreatedInv
    <2> QED BY <1>2, <2>2, <2>3, <2>4 DEF ReceiveContainer
  <1>3. ASSUME NEW c \in Callers, Receive(c) PROVE CreatedInv'
    BY <1>3, EndKeepsCreatedInv DEF Receive, objectVars, serviceVars
  <1>4. ASSUME NEW c \in Callers, NewItemReference(c) PROVE CreatedInv'
    <2>1. PICK d \in Callers :
            id[d] # NoId /\ ref' = [ref EXCEPT ![c] = [owner |-> d, id |-> id[d],
                                                       key |-> NoKey]]
      BY <1>4 DEF NewItemReference
    <2>2. UNCHANGED <<items, container, id, sent, op>>
      BY <1>4 DEF NewItemReference, serviceVars, callVars
    <2>3. \A e \in Callers : RefersToId(e)' /\ OnItem(e)' /\ SentOwnId(e)'
      BY <2>1, <2>2 DEF CreatedInv, RefersToId, OnItem, SentOwnId, Shape
    <2> QED BY <2>2, <2>3 DEF CreatedInv, IsItemOf
  <1>5. ASSUME NEW c \in Callers,
               Repeat(c) \/ NewContainerBody(c) \/ NewOptions(c)
        PROVE  CreatedInv'
    <2>1. UNCHANGED <<items, container, id, ref, sent, op>>
      BY <1>5 DEF Repeat, NewContainerBody, NewOptions, serviceVars, objectVars,
                  callVars
    <2> QED BY <2>1 DEF CreatedInv, IsItemOf, SentOwnId, RefersToId, OnItem
  <1>6. ASSUME NEW c \in Callers, ServeItem(c) PROVE CreatedInv'
    <2>1. UNCHANGED <<container, id, ref, sent, op>> /\ sent[c].code = "item"
      BY <1>6 DEF ServeItem, Serving, objectVars
    <2>2. \A i \in items' : i \in items \/ (Verdict(c) = "ok" /\ i = Written(c)
                                         /\ op[c].name \notin {"read", "delete"})
      BY <1>6 DEF ServeItem
    <2>3. ASSUME Verdict(c) = "ok", op[c].name \notin {"read", "delete"}
          PROVE  container # NoContainer /\ IsItemOf(Written(c))
      <3>1. /\ container # NoContainer
            /\ sent[c].id # NoId
            /\ sent[c].key = ServiceKey(sent[c].owner, sent[c].id,
                                        container.definition)
        BY <2>3 DEF Verdict
      <3>2. SentOwnId(c)
        BY DEF CreatedInv
      <3> QED BY <2>1, <3>1, <3>2 DEF SentOwnId, IsItemOf, Written
    <2>4. \A i \in items' : container # NoContainer /\ IsItemOf(i)
      BY <2>2, <2>3 DEF CreatedInv
    <2> QED BY <2>1, <2>4
            DEF CreatedInv, IsItemOf, SentOwnId, RefersToId, OnItem
  <1>7. ASSUME NEW c \in Callers, ServiceNext(c), ~ServeItem(c)
        PROVE  CreatedInv'
    <2>1. UNCHANGED <<id, ref, sent, op>>
      BY <1>7 DEF ServiceNext, ServeReading, ServeCreateContainer,
                  ServeDeleteContainer, LoseRequest, Serving, objectVars
    <2>2. items' = {} \/ UNCHANGED <<items, container>>
      BY <1>7 DEF ServiceNext, ServeReading, ServeCreateContainer,
                  ServeDeleteContainer, LoseRequest, Make
    <2> QED BY <2>1, <2>2 DEF CreatedInv, IsItemOf, SentOwnId, RefersToId, OnItem
  <1>8. ASSUME OthersMake \/ OthersDelete PROVE CreatedInv'
    <2>1. UNCHANGED <<id, ref, sent, op>> /\ items' = {}
      BY <1>8 DEF OthersMake, OthersDelete, Make, objectVars, callVars
    <2> QED BY <2>1 DEF CreatedInv, IsItemOf, SentOwnId, RefersToId, OnItem
  <1>9. CASE UNCHANGED vars
    BY <1>9 DEF CreatedInv, IsItemOf, SentOwnId, RefersToId, OnItem, vars,
                serviceVars, objectVars, callVars
  <1> QED BY <1>1, <1>2, <1>3, <1>4, <1>5, <1>6, <1>7, <1>8, <1>9
          DEF Next, CallerNext

LEMMA InitCreatedInv == Init => CreatedInv
  BY DEF Init, CreatedInv, IsItemOf, SentOwnId, RefersToId, OnItem, Nothing,
         NoRef, NoCall, ItemOperations

\* However often creates and upserts are repeated, by callers or plugins, and
\* whatever exchanges are lost, one body makes one item.
THEOREM SpecCreatedOnce == Spec => []CreatedOnce
  BY InitShape, StepKeepsShape, InitCreatedInv, StepKeepsCreatedInv,
     CreatedInvImpliesCreatedOnce, PTL DEF Spec

-----------------------------------------------------------------------------
(* Callers and their calls *)

\* A call changes no other, and passes on to nothing else.
LEMMA WithDefinitionIsItsOwn ==
    ASSUME Shape, NEW c \in Callers, NEW call, NEW known,
           WithDefinition(c, call, known)
    PROVE  /\ \A d \in Callers \ {c} :
                  /\ op'[d] = op[d] /\ pc'[d] = pc[d]
                  /\ sent'[d] = sent[d] /\ answer'[d] = answer[d]
           /\ \/ op'[c] = NoCall /\ pc'[c] = "idle" /\ sent'[c] = Nothing
              \/ /\ op'[c] = call /\ pc'[c] = "sent"
                 /\ sent'[c].code = "item" /\ answer'[c] = Travelling
  <1>1. ASSUME End(c)
        PROVE  /\ \A d \in Callers \ {c} :
                      /\ op'[d] = op[d] /\ pc'[d] = pc[d]
                      /\ sent'[d] = sent[d] /\ answer'[d] = answer[d]
               /\ op'[c] = NoCall /\ pc'[c] = "idle" /\ sent'[c] = Nothing
    BY <1>1 DEF End, Shape
  <1>2. ASSUME op' = [op EXCEPT ![c] = call],
               NEW what, what.code = "item", Send(c, what)
        PROVE  /\ \A d \in Callers \ {c} :
                      /\ op'[d] = op[d] /\ pc'[d] = pc[d]
                      /\ sent'[d] = sent[d] /\ answer'[d] = answer[d]
               /\ op'[c] = call /\ pc'[c] = "sent"
               /\ sent'[c].code = "item" /\ answer'[c] = Travelling
    BY <1>2 DEF Send, Exchange, Shape
  <1>3. \/ End(c)
        \/ /\ op' = [op EXCEPT ![c] = call]
           /\ \E what : what.code = "item" /\ Send(c, what)
    <2>1. CASE SendItem(c, call, known)
      BY <2>1 DEF SendItem
    <2>2. CASE ItemOperation(c, call, known)
      BY <2>2 DEF ItemOperation, SendItemOperation
    <2> QED BY <2>1, <2>2 DEF WithDefinition
  <1> QED BY <1>1, <1>2, <1>3

LEMMA SendIsItsOwn ==
    ASSUME Shape, NEW c \in Callers, NEW what, Send(c, what)
    PROVE  /\ \A d \in Callers \ {c} :
                  pc'[d] = pc[d] /\ sent'[d] = sent[d] /\ answer'[d] = answer[d]
           /\ pc'[c] = "sent" /\ sent'[c] = what /\ answer'[c] = Travelling
  BY DEF Send, Exchange, Shape

LEMMA CreateContainerIsItsOwn ==
    ASSUME Shape, NEW c \in Callers, CreateContainer(c)
    PROVE  /\ \A d \in Callers \ {c} :
                  pc'[d] = pc[d] /\ sent'[d] = sent[d] /\ answer'[d] = answer[d]
           /\ pc'[c] = "sent" /\ sent'[c].code = "container"
           /\ answer'[c] = Travelling
  <1>1. PICK what : what.code = "container" /\ Send(c, what)
    <2> DEFINE throughput == IF body[c].throughput > 0 THEN body[c].throughput
                                                       ELSE options[c].throughput
               definition == IF body[c].partitionKey = NoDefinition
                             THEN DefaultDefinition ELSE body[c].partitionKey
               what == [code |-> "container", definition |-> definition,
                        throughput |-> throughput, asked |-> asked[c],
                        careful |-> Careful(c)]
    <2>1. Send(c, what)
      BY Zenon DEF CreateContainer
    <2>2. what.code = "container"
      OBVIOUS
    <2> HIDE DEF what
    <2> QED BY <2>1, <2>2
  <1> QED BY <1>1, SendIsItsOwn

-----------------------------------------------------------------------------
(* A conflict means that createIfNotExists was overtaken *)

\* Since createIfNotExists found no container, one there is was made since.
OvertakenIfThere(c) ==
    op[c].name = "ensure container" =>
        /\ pc[c] = "reading" /\ answer[c].code = "not found"
               /\ container # NoContainer => raced[c] = TRUE
        /\ pc[c] = "sent" /\ (container # NoContainer
                               \/ answer[c].code = "conflict") => raced[c] = TRUE

RaceInv ==
    /\ raced \in [Callers -> BOOLEAN]
    /\ \A c \in Callers : OvertakenIfThere(c)

LEMMA RaceInvImpliesConflictMeansRace == RaceInv => ConflictMeansRace
  BY DEF RaceInv, OvertakenIfThere, ConflictMeansRace

\* What leaves the container and all calls but one as they were.
LEMMA OneCallKeepsRaceInv ==
    ASSUME Shape, RaceInv, NEW c \in Callers, container' = container,
           \A d \in Callers \ {c} : op'[d] = op[d] /\ pc'[d] = pc[d]
               /\ answer'[d] = answer[d] /\ raced'[d] = raced[d],
           raced' \in [Callers -> BOOLEAN],
           OvertakenIfThere(c)'
    PROVE  RaceInv'
  <1>1. ASSUME NEW d \in Callers \ {c} PROVE OvertakenIfThere(d)'
    <2>1. OvertakenIfThere(d)
      BY DEF RaceInv
    <2> QED BY <2>1 DEF OvertakenIfThere
  <1> QED BY <1>1 DEF RaceInv

LEMMA CallKeepsRaceInv ==
    ASSUME Shape, RaceInv, NEW c \in Callers, CallerNext(c)
    PROVE  RaceInv'
  <1>1. ASSUME NEW call \in Calls(c), Begin(c, call) PROVE RaceInv'
    <2>1. container' = container /\ raced' = raced
      BY <1>1 DEF Begin, serviceVars
    <2>2. CASE /\ WithDefinition(c, call, Known)
               /\ NeedsDefinition(c, call)
      <3>1. call.name # "ensure container"
        BY <2>2 DEF NeedsDefinition, ItemWrites, ItemOperations
      <3>2. OvertakenIfThere(c)'
        BY <2>2, <3>1, WithDefinitionIsItsOwn DEF OvertakenIfThere, NoCall
      <3> QED BY <2>1, <2>2, <3>2, WithDefinitionIsItsOwn, OneCallKeepsRaceInv
              DEF RaceInv
    <2>3. CASE ReadContainer(c) /\ op' = [op EXCEPT ![c] = call]
      <3>1. OvertakenIfThere(c)'
        BY <2>3 DEF ReadContainer, Exchange, OvertakenIfThere, Shape, Travelling
      <3>2. \A d \in Callers \ {c} : op'[d] = op[d] /\ pc'[d] = pc[d]
                                     /\ answer'[d] = answer[d]
        BY <2>3 DEF ReadContainer, Exchange, Shape
      <3> QED BY <2>1, <3>1, <3>2, OneCallKeepsRaceInv DEF RaceInv
    <2>4. ASSUME call.name # "ensure container", op' = [op EXCEPT ![c] = call],
                 CreateContainer(c) \/ \E what : Send(c, what)
          PROVE  RaceInv'
      <3>1. \A d \in Callers \ {c} : op'[d] = op[d] /\ pc'[d] = pc[d]
                                     /\ answer'[d] = answer[d]
        <4>1. \A d \in Callers \ {c} : op'[d] = op[d]
          BY <2>4 DEF Shape
        <4>2. \A d \in Callers \ {c} : pc'[d] = pc[d] /\ answer'[d] = answer[d]
          <5>1. CASE CreateContainer(c)
            BY <5>1, CreateContainerIsItsOwn
          <5>2. CASE \E what : Send(c, what)
            BY <5>2, SendIsItsOwn
          <5> QED BY <2>4, <5>1, <5>2
        <4> QED BY <4>1, <4>2
      <3>2. OvertakenIfThere(c)'
        BY <2>4 DEF OvertakenIfThere, Shape
      <3> QED BY <2>1, <3>1, <3>2, OneCallKeepsRaceInv DEF RaceInv
    <2>5. CASE /\ SendItemOperation(c, call, ref[c].key)
               /\ call.name \in ItemOperations
      BY <2>4, <2>5 DEF SendItemOperation, ItemOperations
    <2> QED BY <1>1, <2>2, <2>3, <2>4, <2>5 DEF Begin
  <1>2. ASSUME ReceiveContainer(c) PROVE RaceInv'
    <2>1. /\ container' = container
          /\ raced' = [raced EXCEPT ![c] = @ /\ pc'[c] = "sent"]
      BY <1>2 DEF ReceiveContainer, serviceVars
    <2>2. /\ raced' \in [Callers -> BOOLEAN]
          /\ \A d \in Callers \ {c} : raced'[d] = raced[d]
          /\ pc'[c] = "sent" => raced'[c] = raced[c]
      BY <2>1 DEF RaceInv
    <2>3. CASE /\ \E known : WithDefinition(c, op[c], known)
               /\ op[c].name \in ItemWrites \cup ItemOperations
      <3>1. op[c].name # "ensure container"
        BY <2>3 DEF ItemWrites, ItemOperations
      <3>2. OvertakenIfThere(c)'
        BY <2>3, <3>1, WithDefinitionIsItsOwn DEF OvertakenIfThere, NoCall
      <3> QED BY <2>1, <2>2, <2>3, <3>2, WithDefinitionIsItsOwn,
                 OneCallKeepsRaceInv
    <2>4. CASE End(c)
      BY <2>1, <2>2, <2>4, OneCallKeepsRaceInv
         DEF End, OvertakenIfThere, NoCall, Shape
    <2>5. CASE CreateContainer(c) /\ UNCHANGED op /\ answer[c].code = "not found"
      <3>0. /\ pc'[c] = "sent" /\ answer'[c] = Travelling /\ op'[c] = op[c]
            /\ \A d \in Callers \ {c} : op'[d] = op[d] /\ pc'[d] = pc[d]
                                        /\ answer'[d] = answer[d]
        BY <2>5, CreateContainerIsItsOwn
      <3>1. OvertakenIfThere(c)'
        <4>1. pc[c] = "reading" /\ OvertakenIfThere(c)
          BY <1>2 DEF ReceiveContainer, RaceInv
        <4>2. op[c].name = "ensure container" /\ container # NoContainer
              => raced'[c] = TRUE
          BY <4>1, <3>0, <2>2, <2>5 DEF OvertakenIfThere
        <4>3. answer'[c].code # "conflict"
          BY <3>0 DEF Travelling
        <4> QED BY <3>0, <4>2, <4>3, <2>1 DEF OvertakenIfThere
      <3> QED BY <2>1, <2>2, <3>0, <3>1, OneCallKeepsRaceInv
    <2> QED BY <1>2, <2>3, <2>4, <2>5 DEF ReceiveContainer, Absent
  <1>3. ASSUME Receive(c) PROVE RaceInv'
    <2>1. /\ container' = container
          /\ raced' \in [Callers -> BOOLEAN]
          /\ \A d \in Callers \ {c} : raced'[d] = raced[d]
      BY <1>3 DEF Receive, serviceVars, RaceInv
    <2> QED BY <1>3, <2>1, OneCallKeepsRaceInv
            DEF Receive, End, OvertakenIfThere, NoCall, Shape
  <1>4. ASSUME Repeat(c) PROVE RaceInv'
    BY <1>4 DEF Repeat, RaceInv, OvertakenIfThere, Travelling, Shape,
                serviceVars, userVars
  <1>5. ASSUME NewContainerBody(c) \/ NewOptions(c) \/ NewItemReference(c)
        PROVE  RaceInv'
    <2>1. UNCHANGED <<container, op, pc, answer, raced>>
      BY <1>5 DEF NewContainerBody, NewOptions, NewItemReference, serviceVars,
                  callVars
    <2> QED BY <2>1 DEF RaceInv, OvertakenIfThere
  <1> QED BY <1>1, <1>2, <1>3, <1>4, <1>5 DEF CallerNext

\* Whoever makes the container, each createIfNotExists under way was overtaken.
LEMMA MakeKeepsRaceInv ==
    ASSUME RaceInv, NEW new, Make(new), UNCHANGED <<op, pc>>
    PROVE  RaceInv'
  <1>1. raced' = [c \in Callers |-> op[c].name = "ensure container"]
    BY Zenon DEF Make
  <1>2. raced' \in [Callers -> BOOLEAN]
    BY <1>1
  <1>3. \A c \in Callers : op'[c].name = "ensure container" => raced'[c] = TRUE
    BY <1>1
  <1> QED BY <1>2, <1>3 DEF RaceInv, OvertakenIfThere

\* An exchange gets its answer, or none.
LEMMA ReplyIsItsOwn ==
    ASSUME Shape, NEW c \in Callers, NEW reply, Reply(c, reply)
    PROVE  /\ \A d \in Callers \ {c} : answer'[d] = answer[d]
           /\ answer'[c] = reply \/ answer'[c].code = "lost"
  BY DEF Reply, Shape

LEMMA ServiceKeepsRaceInv ==
    ASSUME Shape, RaceInv, NEW c \in Callers, ServiceNext(c)
    PROVE  RaceInv'
  <1>0. UNCHANGED <<op, pc>>
    BY DEF ServiceNext, ServeReading, ServeCreateContainer,
           ServeDeleteContainer, ServeItem, LoseRequest, Serving
  <1>1. CASE ServeReading(c)
    <2>1. container' = container /\ raced' = [raced EXCEPT ![c] = FALSE]
      BY <1>1 DEF ServeReading
    <2>2. /\ raced' \in [Callers -> BOOLEAN]
          /\ \A d \in Callers \ {c} : raced'[d] = raced[d]
      BY <2>1 DEF RaceInv
    <2>3. /\ \A d \in Callers \ {c} : answer'[d] = answer[d]
          /\ pc[c] = "reading"
          /\ answer'[c].code = "not found" => container = NoContainer
      <3> DEFINE reply == IF container = NoContainer THEN [code |-> "not found"]
                          ELSE [code |-> "ok", number |-> container.number,
                                definition |-> container.definition]
      <3>1. Reply(c, reply) /\ pc[c] = "reading"
        BY <1>1 DEF ServeReading, Serving
      <3>2. reply.code = "not found" => container = NoContainer
        OBVIOUS
      <3> HIDE DEF reply
      <3> QED BY <3>1, <3>2, ReplyIsItsOwn
    <2>4. OvertakenIfThere(c)'
      BY <1>0, <2>1, <2>3 DEF OvertakenIfThere
    <2> QED BY <1>0, <2>1, <2>2, <2>3, <2>4, OneCallKeepsRaceInv
  <1>2. CASE ServeCreateContainer(c)
    <2>1. CASE \E new : Make(new)
      BY <1>0, <2>1, MakeKeepsRaceInv
    <2>2. CASE /\ UNCHANGED <<container, raced>>
               /\ Reply(c, [code |-> IF container = NoContainer
                                     THEN "no quota" ELSE "conflict"])
      <3>1. /\ \A d \in Callers \ {c} : answer'[d] = answer[d]
            /\ pc[c] = "sent"
            /\ answer'[c].code = "conflict" => container # NoContainer
        <4> DEFINE reply == [code |-> IF container = NoContainer
                                      THEN "no quota" ELSE "conflict"]
        <4>1. Reply(c, reply) /\ pc[c] = "sent"
          BY <1>2, <2>2 DEF ServeCreateContainer, Serving
        <4>2. reply.code = "conflict" => container # NoContainer
          OBVIOUS
        <4> HIDE DEF reply
        <4> QED BY <4>1, <4>2, ReplyIsItsOwn
      <3>2. OvertakenIfThere(c)'
        BY <1>0, <2>2, <3>1 DEF OvertakenIfThere, RaceInv
      <3> QED BY <1>0, <2>2, <3>1, <3>2, OneCallKeepsRaceInv DEF RaceInv
    <2> QED BY <1>2, <2>1, <2>2 DEF ServeCreateContainer
  <1>3. CASE ServeDeleteContainer(c)
    <2>1. container' = NoContainer /\ raced' = raced /\ pc[c] = "sent"
      BY <1>3 DEF ServeDeleteContainer, Serving
    <2>2. /\ \A d \in Callers \ {c} : answer'[d] = answer[d]
          /\ answer'[c].code # "conflict"
      <3> DEFINE reply == [code |-> IF container = NoContainer
                                    THEN "not found" ELSE "ok"]
      <3>1. Reply(c, reply)
        BY <1>3 DEF ServeDeleteContainer
      <3>2. reply.code # "conflict"
        OBVIOUS
      <3> HIDE DEF reply
      <3> QED BY <3>1, <3>2, ReplyIsItsOwn
    <2> QED BY <1>0, <2>1, <2>2 DEF RaceInv, OvertakenIfThere
  <1>4. CASE ServeItem(c)
    <2>1. container' = container /\ raced' = raced /\ pc[c] = "sent"
      BY <1>4 DEF ServeItem, Serving
    <2>2. /\ \A d \in Callers \ {c} : answer'[d] = answer[d]
          /\ answer'[c].code \in {Verdict(c), "lost"}
      <3>1. Reply(c, [code |-> Verdict(c), number |-> container.number])
        BY <1>4 DEF ServeItem
      <3> QED BY <3>1, ReplyIsItsOwn
    <2>3. op[c].name = "ensure container" => Verdict(c) # "conflict"
      BY DEF Verdict
    <2>4. OvertakenIfThere(c)'
      BY <1>0, <2>1, <2>2, <2>3 DEF OvertakenIfThere, RaceInv
    <2> QED BY <1>0, <2>1, <2>2, <2>4, OneCallKeepsRaceInv DEF RaceInv
  <1>5. CASE LoseRequest(c)
    <2>1. /\ UNCHANGED <<container, raced>>
          /\ answer' = [answer EXCEPT ![c] = [code |-> "lost"]]
      BY <1>5 DEF LoseRequest, userVars
    <2> QED BY <1>0, <2>1 DEF RaceInv, OvertakenIfThere, Shape
  <1> QED BY <1>1, <1>2, <1>3, <1>4, <1>5 DEF ServiceNext

LEMMA StepKeepsRaceInv == Shape /\ RaceInv /\ [Next]_vars => RaceInv'
  <1> SUFFICES ASSUME Shape, RaceInv, [Next]_vars PROVE RaceInv'
    OBVIOUS
  <1>1. CASE OthersMake
    <2>1. (\E new : Make(new)) /\ UNCHANGED <<op, pc>>
      BY <1>1 DEF OthersMake, callVars
    <2> QED BY <2>1, MakeKeepsRaceInv
  <1>2. CASE OthersDelete
    <2>1. container' = NoContainer /\ UNCHANGED <<op, pc, answer, raced>>
      BY <1>2 DEF OthersDelete, callVars, userVars
    <2> QED BY <2>1 DEF RaceInv, OvertakenIfThere
  <1>3. CASE UNCHANGED vars
    BY <1>3 DEF RaceInv, OvertakenIfThere, vars, serviceVars, callVars,
                userVars
  <1> QED BY <1>1, <1>2, <1>3, CallKeepsRaceInv, ServiceKeepsRaceInv DEF Next

LEMMA InitRaceInv == Init => RaceInv
  BY DEF Init, RaceInv, OvertakenIfThere

\* createIfNotExists ends in a conflict only if the container was made after it
\* had found none, whoever else makes and deletes containers.
THEOREM SpecConflictMeansRace == Spec => []ConflictMeansRace
  BY InitShape, StepKeepsShape, InitRaceInv, StepKeepsRaceInv,
     RaceInvImpliesConflictMeansRace, PTL DEF Spec

-----------------------------------------------------------------------------
(* A container has the throughput asked for *)

\* Before its first use a body says what was asked for; after it the options do, if
\* they are those of the first use.  Options that no body asking for throughput came
\* with have none.
ObjectsSayWhatWasAsked(c) ==
    /\ used[c] = "no" => body[c].throughput = asked[c]
    /\ used[c] # "no" => body[c].throughput = 0
    /\ used[c] = "these" =>
           /\ options[c].given = TRUE
           /\ asked[c] > 0 => options[c].throughput = asked[c]
    /\ filled[c] = FALSE => options[c].throughput = 0

SentAsAsked(c) ==
    sent[c].code = "container" /\ sent[c].careful
        => sent[c].throughput = sent[c].asked

ThroughputInv ==
    /\ ThroughputAsAsked
    /\ \A c \in Callers : ObjectsSayWhatWasAsked(c) /\ SentAsAsked(c)

\* What is sent for a container has the throughput asked for.
LEMMA CreateContainerAsAsked ==
    ASSUME Shape, ThroughputInv, NEW c \in Callers, CreateContainer(c),
           container' = container
    PROVE  ThroughputInv'
  <1> DEFINE throughput == IF body[c].throughput > 0 THEN body[c].throughput
                                                     ELSE options[c].throughput
             definition == IF body[c].partitionKey = NoDefinition
                           THEN DefaultDefinition ELSE body[c].partitionKey
             careful == Careful(c)
             what == [code |-> "container", definition |-> definition,
                      throughput |-> throughput, asked |-> asked[c],
                      careful |-> careful]
             first == IF used[c] # "no" THEN used[c]
                      ELSE IF options[c].given THEN "these" ELSE "others"
             fills == filled[c] \/ (options[c].given /\ asked[c] > 0
                                    /\ used[c] # "others")
             headers == HeadersOfOptions(c, throughput)
  <1>1. /\ sent' = [sent EXCEPT ![c] = what]
        /\ body' = [body EXCEPT ![c] = [throughput |-> 0,
                                        partitionKey |-> definition]]
        /\ options' = [options EXCEPT ![c] = headers]
        /\ used' = [used EXCEPT ![c] = first]
        /\ filled' = [filled EXCEPT ![c] = fills]
        /\ asked' = asked
    BY Zenon DEF CreateContainer, Send
  <1>2. /\ options[c] \in [given : BOOLEAN, throughput : Nat]
        /\ used[c] \in {"no", "these", "others"} /\ asked[c] \in Nat
        /\ filled[c] \in BOOLEAN
        /\ body[c].throughput \in Nat
        /\ ObjectsSayWhatWasAsked(c)
    BY DEF Shape, ThroughputInv
  <1>3. careful => throughput = asked[c]
    BY <1>2 DEF ObjectsSayWhatWasAsked, Careful
  <1>4. /\ what.throughput = throughput /\ what.asked = asked[c]
        /\ what.careful = careful /\ what.code = "container"
    OBVIOUS
  <1>5. /\ headers.given = options[c].given
        /\ options[c].given = TRUE => headers.throughput = throughput
        /\ options[c].given = FALSE => headers.throughput = options[c].throughput
    BY <1>2 DEF HeadersOfOptions
  <1>6. /\ first \in {"these", "others"}
        /\ first = "these" => /\ options[c].given = TRUE
                              /\ asked[c] > 0 => throughput = asked[c]
    BY <1>2 DEF ObjectsSayWhatWasAsked
  <1>7. ASSUME fills = FALSE PROVE headers.throughput = 0
    <2>1. filled[c] = FALSE /\ options[c].throughput = 0
      BY <1>2, <1>7 DEF ObjectsSayWhatWasAsked
    <2>2. CASE options[c].given = FALSE
      BY <1>5, <2>1, <2>2
    <2>3. CASE options[c].given = TRUE
      <3>1. body[c].throughput = 0
        BY <1>2, <1>7, <2>3 DEF ObjectsSayWhatWasAsked
      <3> QED BY <1>5, <2>1, <2>3, <3>1
    <2> QED BY <1>2, <2>2, <2>3
  <1> HIDE DEF throughput, definition, careful, what, first, fills, headers
  <1>8. ObjectsSayWhatWasAsked(c)'
    <2>1. /\ used'[c] = first /\ filled'[c] = fills /\ options'[c] = headers
          /\ body'[c].throughput = 0 /\ asked'[c] = asked[c]
      BY <1>1 DEF Shape
    <2> QED BY <1>5, <1>6, <1>7, <2>1 DEF ObjectsSayWhatWasAsked
  <1>9. SentAsAsked(c)'
    BY <1>1, <1>3, <1>4 DEF SentAsAsked, Shape
  <1>10. ASSUME NEW d \in Callers \ {c}
         PROVE  ObjectsSayWhatWasAsked(d)' /\ SentAsAsked(d)'
    BY <1>1 DEF ThroughputInv, ObjectsSayWhatWasAsked, SentAsAsked, Shape
  <1>11. ThroughputAsAsked'
    BY DEF ThroughputInv, ThroughputAsAsked
  <1> QED BY <1>8, <1>9, <1>10, <1>11 DEF ThroughputInv

LEMMA OtherCallsKeepThroughputInv ==
    ASSUME ThroughputInv, NEW c \in Callers,
           UNCHANGED <<container, body, options, userVars>>,
           \A d \in Callers \ {c} : sent'[d] = sent[d],
           sent'[c] = sent[c] \/ sent'[c].code # "container"
    PROVE  ThroughputInv'
  <1>1. ThroughputAsAsked'
    BY DEF ThroughputInv, ThroughputAsAsked
  <1>2. \A d \in Callers : ObjectsSayWhatWasAsked(d)'
    BY DEF ThroughputInv, ObjectsSayWhatWasAsked, userVars
  <1>3. \A d \in Callers : SentAsAsked(d)'
    BY DEF ThroughputInv, SentAsAsked
  <1> QED BY <1>1, <1>2, <1>3 DEF ThroughputInv

LEMMA CallKeepsThroughputInv ==
    ASSUME Shape, ThroughputInv, NEW c \in Callers, CallerNext(c)
    PROVE  ThroughputInv'
  <1>1. ASSUME NEW call, NEW known, WithDefinition(c, call, known),
               container' = container
        PROVE  ThroughputInv'
    <2>1. sent'[c].code # "container"
      BY <1>1, WithDefinitionIsItsOwn DEF Nothing
    <2>2. \A d \in Callers \ {c} : sent'[d] = sent[d]
      BY <1>1, WithDefinitionIsItsOwn
    <2>3. UNCHANGED <<body, options, userVars>>
      BY <1>1, ItemCallsKeepShape
    <2> QED BY <1>1, <2>1, <2>2, <2>3, OtherCallsKeepThroughputInv
  <1>2. ASSUME End(c), UNCHANGED <<container, objectVars, userVars>>
        PROVE  ThroughputInv'
    BY <1>2, OtherCallsKeepThroughputInv DEF End, Shape, Nothing, objectVars
  <1>3. ASSUME NEW call \in Calls(c), Begin(c, call) PROVE ThroughputInv'
    <2>1. container' = container
      BY <1>3 DEF Begin, serviceVars
    <2>2. CASE ReadContainer(c)
      BY <2>1, <2>2, OtherCallsKeepThroughputInv DEF ReadContainer, objectVars
    <2>3. CASE /\ Send(c, [code |-> "delete"])
               /\ UNCHANGED <<objectVars, userVars>>
      BY <2>1, <2>3, SendIsItsOwn, OtherCallsKeepThroughputInv DEF objectVars
    <2>4. CASE SendItemOperation(c, call, ref[c].key)
      BY <2>1, <2>4, OtherCallsKeepThroughputInv
         DEF SendItemOperation, Send, Shape
    <2> QED BY <1>1, <1>3, <2>1, <2>2, <2>3, <2>4, CreateContainerAsAsked
            DEF Begin
  <1>4. ASSUME ReceiveContainer(c) PROVE ThroughputInv'
    <2>1. container' = container
      BY <1>4 DEF ReceiveContainer, serviceVars
    <2> QED BY <1>1, <1>2, <1>4, <2>1, CreateContainerAsAsked
            DEF ReceiveContainer
  <1>5. ASSUME Receive(c) PROVE ThroughputInv'
    BY <1>2, <1>5 DEF Receive, serviceVars
  <1>6. ASSUME NewContainerBody(c) \/ NewOptions(c) PROVE ThroughputInv'
    <2>1. UNCHANGED <<container, sent>>
      BY <1>6 DEF NewContainerBody, NewOptions, serviceVars, callVars
    <2>2. ThroughputAsAsked' /\ \A d \in Callers : SentAsAsked(d)'
      BY <2>1 DEF ThroughputInv, ThroughputAsAsked, SentAsAsked
    <2>3. CASE NewContainerBody(c)
      <3>1. PICK b \in ContainerBodies :
              /\ body' = [body EXCEPT ![c] = b]
              /\ asked' = [asked EXCEPT ![c] = b.throughput]
        BY <2>3 DEF NewContainerBody
      <3>2. /\ used' = [used EXCEPT ![c] = "no"]
            /\ UNCHANGED <<options, filled>>
        BY <2>3 DEF NewContainerBody
      <3>3. \A d \in Callers : ObjectsSayWhatWasAsked(d)'
        BY <3>1, <3>2 DEF ThroughputInv, ObjectsSayWhatWasAsked, Shape
      <3> QED BY <2>2, <3>3 DEF ThroughputInv
    <2>4. CASE NewOptions(c)
      <3>1. PICK given \in BOOLEAN :
              options' = [options EXCEPT ![c] = [given |-> given, throughput |-> 0]]
        BY <2>4 DEF NewOptions
      <3>2. /\ used' = [used EXCEPT ![c] = IF used[c] = "no" THEN "no"
                                           ELSE "others"]
            /\ UNCHANGED <<body, asked>>
        BY <2>4 DEF NewOptions
      <3>3. /\ \A d \in Callers \ {c} : /\ options'[d] = options[d]
                                        /\ used'[d] = used[d]
                                        /\ filled'[d] = filled[d]
            /\ options'[c].throughput = 0
            /\ \/ used'[c] = "no" /\ used[c] = "no"
               \/ used'[c] = "others" /\ used[c] # "no"
        BY <2>4, <3>1, <3>2 DEF NewOptions, Shape
      <3>4. \A d \in Callers : ObjectsSayWhatWasAsked(d)'
        BY <3>2, <3>3 DEF ThroughputInv, ObjectsSayWhatWasAsked
      <3> QED BY <2>2, <3>4 DEF ThroughputInv
    <2> QED BY <1>6, <2>3, <2>4
  <1>7. ASSUME Repeat(c) \/ NewItemReference(c) PROVE ThroughputInv'
    <2>1. UNCHANGED <<container, body, options, userVars, sent>>
      BY <1>7 DEF Repeat, NewItemReference, serviceVars, objectVars, callVars,
                  userVars
    <2> QED BY <2>1, OtherCallsKeepThroughputInv
  <1> QED BY <1>3, <1>4, <1>5, <1>6, <1>7 DEF CallerNext

LEMMA StepKeepsThroughputInv ==
    Shape /\ ThroughputInv /\ [Next]_vars => ThroughputInv'
  <1> SUFFICES ASSUME Shape, ThroughputInv, [Next]_vars PROVE ThroughputInv'
    OBVIOUS
  <1>1. ASSUME UNCHANGED <<body, options, userVars, sent>>, ThroughputAsAsked'
        PROVE  ThroughputInv'
    BY <1>1 DEF ThroughputInv, ObjectsSayWhatWasAsked, SentAsAsked, userVars
  <1>2. ASSUME NEW c \in Callers, ServiceNext(c) PROVE ThroughputInv'
    <2>1. UNCHANGED <<body, options, userVars, sent>>
      BY <1>2 DEF ServiceNext, ServeReading, ServeCreateContainer,
                  ServeDeleteContainer, ServeItem, LoseRequest, Serving,
                  objectVars, userVars
    <2>2. ASSUME NEW new, Make(new), sent[c].code = "container",
                 new.careful => sent[c].careful,
                 new.throughput = sent[c].throughput, new.asked = sent[c].asked
          PROVE  ThroughputAsAsked'
      <3>1. container' = new /\ SentAsAsked(c)
        BY <2>2 DEF Make, ThroughputInv
      <3> QED BY <2>2, <3>1 DEF ThroughputAsAsked, SentAsAsked
    <2>3. CASE ServeCreateContainer(c) /\ container' # container
      <3> DEFINE new == [number |-> made + 1, definition |-> sent[c].definition,
                         throughput |-> sent[c].throughput,
                         asked |-> sent[c].asked, careful |-> sent[c].careful]
      <3>1. Make(new) /\ sent[c].code = "container"
        BY <2>3 DEF ServeCreateContainer
      <3>2. /\ new.careful = sent[c].careful
            /\ new.throughput = sent[c].throughput /\ new.asked = sent[c].asked
        OBVIOUS
      <3> HIDE DEF new
      <3> QED BY <1>1, <2>1, <2>2, <3>1, <3>2
    <2>4. CASE container' \in {container, NoContainer}
      BY <1>1, <2>1, <2>4 DEF ThroughputInv, ThroughputAsAsked
    <2> QED BY <1>2, <2>3, <2>4 DEF ServiceNext, ServeReading,
               ServeDeleteContainer, ServeItem, LoseRequest
  <1>3. CASE OthersMake \/ OthersDelete
    <2>1. UNCHANGED <<body, options, userVars, sent>>
      BY <1>3 DEF OthersMake, OthersDelete, objectVars, callVars, userVars
    <2>2. CASE OthersDelete
      BY <1>1, <2>1, <2>2 DEF OthersDelete, ThroughputAsAsked
    <2>3. CASE OthersMake
      <3>1. \E d : container' = [number |-> made + 1, definition |-> d,
                                 throughput |-> 0, asked |-> 0,
                                 careful |-> FALSE]
        BY <2>3 DEF OthersMake, Make
      <3>2. ThroughputAsAsked'
        BY <3>1 DEF ThroughputAsAsked
      <3> QED BY <1>1, <2>1, <3>2
    <2> QED BY <1>3, <2>2, <2>3
  <1>4. CASE UNCHANGED vars
    BY <1>1, <1>4 DEF vars, serviceVars, objectVars, callVars, userVars,
                      ThroughputInv, ThroughputAsAsked
  <1> QED BY <1>2, <1>3, <1>4, CallKeepsThroughputInv DEF Next

LEMMA InitThroughputInv == Init => ThroughputInv
  BY DEF Init, PlainBody, ThroughputInv, ThroughputAsAsked, ObjectsSayWhatWasAsked,
         SentAsAsked, Nothing, NoOptions

\* A container this client makes has the throughput its body asked for, and none if
\* that asked for none, unless a body is used again with other options or none, or
\* options with another body.
THEOREM SpecThroughputAsAsked == Spec => []ThroughputAsAsked
  <1>1. ThroughputInv => ThroughputAsAsked
    BY DEF ThroughputInv
  <1> QED BY InitShape, StepKeepsShape, InitThroughputInv,
             StepKeepsThroughputInv, <1>1, PTL DEF Spec

-----------------------------------------------------------------------------
(* Keys are refused only if their definition was stale *)

\* Where the extraction does not fail it finds what the service finds.
LEMMA ExtractedIsServiceKey ==
    ASSUME NEW owner, NEW i, NEW definition,
           ~ExtractionThrows(owner, i, definition)
    PROVE  ExtractPartitionKey(owner, i, definition)
           = ServiceKey(owner, i, definition)
  <1>1. \A k \in DOMAIN definition.paths :
            ValueAt(owner, i, definition.paths[k]) # NullAbove
    BY DEF ExtractionThrows
  <1>2. [k \in DOMAIN definition.paths |-> ValueAt(owner, i, definition.paths[k])]
        = [k \in DOMAIN definition.paths |->
               IF ValueAt(owner, i, definition.paths[k]) = NullAbove
               THEN Undefined ELSE ValueAt(owner, i, definition.paths[k])]
    BY <1>1
  <1> QED BY <1>2 DEF ExtractPartitionKey, ServiceKey, UndefinedPartitionKey

\* The key does not depend on the id where no path is the id's.
LEMMA KeyWithoutId ==
    ASSUME NEW owner, NEW i, NEW j, NEW definition, ~KeyedById(definition)
    PROVE  ServiceKey(owner, i, definition) = ServiceKey(owner, j, definition)
  <1>1. \A k \in DOMAIN definition.paths :
            ValueAt(owner, i, definition.paths[k])
            = ValueAt(owner, j, definition.paths[k])
    BY DEF KeyedById, ValueAt
  <1>2. [k \in DOMAIN definition.paths |->
               IF ValueAt(owner, i, definition.paths[k]) = NullAbove
               THEN Undefined ELSE ValueAt(owner, i, definition.paths[k])]
        = [k \in DOMAIN definition.paths |->
               IF ValueAt(owner, j, definition.paths[k]) = NullAbove
               THEN Undefined ELSE ValueAt(owner, j, definition.paths[k])]
    BY <1>1
  <1> QED BY <1>2 DEF ServiceKey

\* A definition the service gave: of the container there is, if the number is its.
IsOrWas(known) ==
    /\ known.number \in Nat
    /\ known.number <= made
    /\ container # NoContainer /\ known.number = container.number
           => known.definition = container.definition

ReadIsOrWas(c) ==
    pc[c] = "reading" /\ answer[c].code = "ok" => IsOrWas(answer[c])

WrittenWithOwnKey(c) ==
    pc[c] = "sent" /\ op[c].name \in ItemWrites =>
        /\ sent[c].number \in Nat
        /\ sent[c].number <= made
        /\ container # NoContainer /\ sent[c].number = container.number
               => \/ sent[c].keyBeforeId
                  \/ sent[c].key = ServiceKey(sent[c].owner, sent[c].id,
                                              container.definition)
        /\ answer[c].code = "wrong key"
               => sent[c].number # answer[c].number \/ sent[c].keyBeforeId

StaleInv ==
    /\ container # NoContainer => container.number \in Nat /\ container.number <= made
    /\ Cached => IsOrWas(Known)
    /\ \A c \in Callers : ReadIsOrWas(c) /\ WrittenWithOwnKey(c)

LEMMA StaleInvImpliesRefusedOnlyIfStale == StaleInv => RefusedOnlyIfStale
  BY DEF StaleInv, WrittenWithOwnKey, RefusedOnlyIfStale

LEMMA OneCallKeepsStaleInv ==
    ASSUME StaleInv, NEW c \in Callers, UNCHANGED <<container, made>>,
           Cached' => IsOrWas(Known)',
           \A d \in Callers \ {c} : op'[d] = op[d] /\ pc'[d] = pc[d]
               /\ sent'[d] = sent[d] /\ answer'[d] = answer[d],
           ReadIsOrWas(c)', WrittenWithOwnKey(c)'
    PROVE  StaleInv'
  <1>1. ASSUME NEW d \in Callers \ {c}
        PROVE  ReadIsOrWas(d)' /\ WrittenWithOwnKey(d)'
    <2>1. ReadIsOrWas(d) /\ WrittenWithOwnKey(d)
      BY DEF StaleInv
    <2>2. ReadIsOrWas(d)'
      BY <2>1 DEF ReadIsOrWas, IsOrWas
    <2>3. WrittenWithOwnKey(d)'
      BY <2>1 DEF WrittenWithOwnKey
    <2> QED BY <2>2, <2>3
  <1>2. container' # NoContainer
        => container'.number \in Nat /\ container'.number <= made'
    BY DEF StaleInv
  <1> QED BY <1>1, <1>2 DEF StaleInv

\* What is sent with a definition the service gave.
LEMMA WithDefinitionKeepsStaleInv ==
    ASSUME Shape, StaleInv, NEW c \in Callers, NEW call, NEW known,
           call.name \in ItemWrites \cup ItemOperations,
           WithDefinition(c, call, known), IsOrWas(known),
           UNCHANGED <<container, made>>,
           (Known' = Known /\ Cached' = Cached) \/ Known' = known
    PROVE  StaleInv'
  <1>1. Cached' => IsOrWas(Known)'
    BY DEF StaleInv, IsOrWas, Cached, Known, cacheVars
  <1>2. ReadIsOrWas(c)'
    BY WithDefinitionIsItsOwn DEF ReadIsOrWas, NoCall
  <1>3. WrittenWithOwnKey(c)'
    <2>1. CASE op'[c] = NoCall
      <3>1. op'[c].name \notin ItemWrites
        BY <2>1 DEF NoCall, ItemWrites
      <3> QED BY <3>1 DEF WrittenWithOwnKey
    <2>2. CASE op'[c] = call /\ call.name \notin ItemWrites
      BY <2>2 DEF WrittenWithOwnKey
    <2>3. CASE /\ call.name \in ItemWrites /\ answer'[c] = Travelling
               /\ sent'[c].code = "item"
      <3>1. ~ExtractionThrows(c, id[c], known.definition)
        <4>1. SUFFICES ASSUME End(c) PROVE FALSE
          BY <2>3 DEF WithDefinition, SendItem
        <4>2. sent'[c] = Nothing
          BY <4>1 DEF End, Shape
        <4> QED BY <2>3, <4>2 DEF Nothing
      <3>2. PICK i : /\ i = id[c] \/ GeneratesId(c, call)
                     /\ sent' = [sent EXCEPT ![c] =
                          [code |-> "item", owner |-> c, id |-> i,
                           key |-> ExtractPartitionKey(c, id[c], known.definition),
                           number |-> known.number,
                           keyBeforeId |-> /\ GeneratesId(c, call)
                                           /\ KeyedById(known.definition)]]
        BY <2>3, <3>1 DEF WithDefinition, SendItem, Send
      <3>3. /\ sent'[c].number = known.number
            /\ sent'[c].owner = c /\ sent'[c].id = i
            /\ sent'[c].key = ServiceKey(c, id[c], known.definition)
            /\ sent'[c].keyBeforeId = (/\ GeneratesId(c, call)
                                       /\ KeyedById(known.definition))
        BY <3>1, <3>2, ExtractedIsServiceKey DEF Shape
      <3>4. answer'[c].code # "wrong key"
        BY <2>3 DEF Travelling
      <3>5. /\ sent'[c].number \in Nat
            /\ sent'[c].number <= made'
            /\ container' # NoContainer /\ sent'[c].number = container'.number
                  => known.definition = container'.definition
        BY <3>3 DEF IsOrWas
      <3>6. sent'[c].keyBeforeId
            \/ sent'[c].key = ServiceKey(sent'[c].owner, sent'[c].id,
                                         known.definition)
        <4>1. CASE i = id[c]
          BY <3>3, <4>1
        <4>2. CASE ~KeyedById(known.definition)
          BY <3>3, <4>2, KeyWithoutId
        <4>3. CASE GeneratesId(c, call) /\ KeyedById(known.definition)
          BY <3>3, <4>3
        <4> QED BY <3>2, <4>1, <4>2, <4>3
      <3>7. container' # NoContainer /\ sent'[c].number = container'.number
            => \/ sent'[c].keyBeforeId
               \/ sent'[c].key = ServiceKey(sent'[c].owner, sent'[c].id,
                                            container'.definition)
        BY <3>5, <3>6
      <3> QED BY <3>4, <3>5, <3>7 DEF WrittenWithOwnKey
    <2> QED BY <2>1, <2>2, <2>3, WithDefinitionIsItsOwn
  <1> QED BY <1>1, <1>2, <1>3, WithDefinitionIsItsOwn, OneCallKeepsStaleInv

\* A call that neither reads the container nor writes an item from now on, or
\* starts to read it.
LEMMA OtherCallsKeepStaleInv ==
    ASSUME StaleInv, NEW c \in Callers,
           UNCHANGED <<container, made, cacheVars>>,
           \A d \in Callers \ {c} : op'[d] = op[d] /\ pc'[d] = pc[d]
               /\ sent'[d] = sent[d] /\ answer'[d] = answer[d],
           \/ pc'[c] = "idle"
           \/ pc'[c] = "reading" /\ answer'[c].code # "ok"
           \/ pc'[c] = "sent" /\ op'[c].name \notin ItemWrites
    PROVE  StaleInv'
  <1>1. Cached' => IsOrWas(Known)'
    BY DEF StaleInv, IsOrWas, Cached, Known, cacheVars
  <1>2. ReadIsOrWas(c)' /\ WrittenWithOwnKey(c)'
    BY DEF ReadIsOrWas, WrittenWithOwnKey
  <1> QED BY <1>1, <1>2, OneCallKeepsStaleInv

LEMMA CallKeepsStaleInv ==
    ASSUME Shape, StaleInv, NEW c \in Callers, CallerNext(c)
    PROVE  StaleInv'
  <1>1. ASSUME NEW call \in Calls(c), Begin(c, call) PROVE StaleInv'
    <2>1. UNCHANGED <<container, made, cacheVars>>
      BY <1>1 DEF Begin, serviceVars
    <2>2. CASE /\ WithDefinition(c, call, Known)
               /\ NeedsDefinition(c, call) /\ Cached
      <3>1. Known' = Known /\ Cached' = Cached
        BY <2>1 DEF Known, Cached, cacheVars
      <3>2. IsOrWas(Known) /\ call.name \in ItemWrites \cup ItemOperations
        BY <2>2 DEF NeedsDefinition, StaleInv
      <3> QED BY <2>1, <2>2, <3>1, <3>2, WithDefinitionKeepsStaleInv
    <2>3. CASE ReadContainer(c) /\ op' = [op EXCEPT ![c] = call]
      BY <2>1, <2>3, OtherCallsKeepStaleInv
         DEF ReadContainer, Exchange, Shape, Travelling
    <2>4. ASSUME op' = [op EXCEPT ![c] = call], call.name \notin ItemWrites,
                 CreateContainer(c) \/ \E what : Send(c, what)
          PROVE  StaleInv'
      <3>1. op'[c] = call /\ \A d \in Callers \ {c} : op'[d] = op[d]
        BY <2>4 DEF Shape
      <3>2. CASE CreateContainer(c)
        BY <2>1, <2>4, <3>1, <3>2, CreateContainerIsItsOwn,
           OtherCallsKeepStaleInv
      <3>3. CASE \E what : Send(c, what)
        BY <2>1, <2>4, <3>1, <3>3, SendIsItsOwn, OtherCallsKeepStaleInv
      <3> QED BY <2>4, <3>2, <3>3
    <2>5. CASE /\ SendItemOperation(c, call, ref[c].key)
               /\ call.name \in ItemOperations
      BY <2>4, <2>5 DEF SendItemOperation, ItemOperations, ItemWrites
    <2>6. CASE /\ call.name = "create container" \/ call.name = "delete container"
               /\ op' = [op EXCEPT ![c] = call]
               /\ CreateContainer(c) \/ Send(c, [code |-> "delete"])
      <3>1. call.name \notin ItemWrites
        BY <2>6 DEF ItemWrites
      <3> QED BY <2>4, <2>6, <3>1
    <2> QED BY <1>1, <2>2, <2>3, <2>5, <2>6 DEF Begin
  <1>2. ASSUME ReceiveContainer(c) PROVE StaleInv'
    <2>1. /\ UNCHANGED <<container, made>>
          /\ pc[c] = "reading"
      BY <1>2 DEF ReceiveContainer, serviceVars
    <2>2. CASE answer[c].code = "ok"
      <3> DEFINE known == [number |-> answer[c].number,
                           definition |-> answer[c].definition]
      <3>1. IsOrWas(answer[c])
        BY <2>1, <2>2 DEF StaleInv, ReadIsOrWas
      <3>2. /\ known.number = answer[c].number
            /\ known.definition = answer[c].definition
        OBVIOUS
      <3>3. /\ Known' = known
            /\ \/ /\ op[c].name \in ItemWrites \cup ItemOperations
                  /\ WithDefinition(c, op[c], known)
               \/ End(c)
        BY <1>2, <2>2 DEF ReceiveContainer, Known, Remember
      <3> HIDE DEF known
      <3>4. IsOrWas(known)
        BY <3>1, <3>2 DEF IsOrWas
      <3>5. CASE End(c)
        <4>1. \A d \in Callers \ {c} : op'[d] = op[d] /\ pc'[d] = pc[d]
                 /\ sent'[d] = sent[d] /\ answer'[d] = answer[d]
          BY <3>5 DEF End, Shape
        <4>2. ReadIsOrWas(c)' /\ WrittenWithOwnKey(c)'
          BY <3>5 DEF End, Shape, ReadIsOrWas, WrittenWithOwnKey
        <4>3. IsOrWas(Known)'
          BY <2>1, <3>3, <3>4 DEF IsOrWas
        <4> QED BY <2>1, <4>1, <4>2, <4>3, OneCallKeepsStaleInv
      <3> QED BY <2>1, <3>3, <3>4, <3>5, WithDefinitionKeepsStaleInv
    <2>3. CASE answer[c].code # "ok"
      <3>1. /\ cacheVars' = cacheVars
            /\ \/ /\ op[c].name = "ensure container"
                  /\ CreateContainer(c) /\ UNCHANGED op
               \/ End(c)
        BY <1>2, <2>3 DEF ReceiveContainer
      <3>2. CASE End(c)
        BY <2>1, <3>1, <3>2, OtherCallsKeepStaleInv DEF End, Shape
      <3>3. CASE /\ op[c].name = "ensure container"
                 /\ CreateContainer(c) /\ UNCHANGED op
        <4>1. op'[c].name \notin ItemWrites
          BY <3>3 DEF ItemWrites
        <4> QED BY <2>1, <3>1, <3>3, <4>1, CreateContainerIsItsOwn,
                   OtherCallsKeepStaleInv
      <3> QED BY <3>1, <3>2, <3>3
    <2> QED BY <2>2, <2>3
  <1>3. ASSUME Receive(c) PROVE StaleInv'
    BY <1>3, OtherCallsKeepStaleInv DEF Receive, End, Shape, serviceVars
  <1>4. ASSUME Repeat(c) PROVE StaleInv'
    <2>1. /\ UNCHANGED <<container, made, cacheVars, op, pc, sent>>
          /\ answer' = [answer EXCEPT ![c] = Travelling]
      BY <1>4 DEF Repeat, serviceVars
    <2>2. /\ answer'[c] = Travelling
          /\ \A d \in Callers \ {c} : answer'[d] = answer[d]
      BY <2>1 DEF Shape
    <2>3. answer'[c].code # "ok" /\ answer'[c].code # "wrong key"
      BY <2>2 DEF Travelling
    <2>5. ReadIsOrWas(c)'
      BY <2>3 DEF ReadIsOrWas
    <2>6. WrittenWithOwnKey(c)'
      <3>1. WrittenWithOwnKey(c)
        BY DEF StaleInv
      <3> QED BY <2>1, <2>3, <3>1 DEF WrittenWithOwnKey
    <2>4. Cached' => IsOrWas(Known)'
      BY <2>1 DEF StaleInv, IsOrWas, Cached, Known, cacheVars
    <2> QED BY <2>1, <2>2, <2>4, <2>5, <2>6, OneCallKeepsStaleInv
  <1>5. ASSUME NewContainerBody(c) \/ NewOptions(c) \/ NewItemReference(c)
        PROVE  StaleInv'
    <2>1. UNCHANGED <<container, made, cacheVars, op, pc, sent, answer>>
      BY <1>5 DEF NewContainerBody, NewOptions, NewItemReference, serviceVars,
                  callVars
    <2> QED BY <2>1 DEF StaleInv, ReadIsOrWas, WrittenWithOwnKey, IsOrWas,
                        Cached, Known, cacheVars
  <1> QED BY <1>1, <1>2, <1>3, <1>4, <1>5 DEF CallerNext

LEMMA NextNumberIsNew ==
    \A m \in Nat : /\ m + 1 \in Nat /\ m + 1 <= m + 1
                  /\ \A n \in Nat : n <= m => n <= m + 1 /\ n # m + 1
  OBVIOUS

\* A container that goes, or is made, can only make what was read stale.
LEMMA AnotherContainerKeepsStaleInv ==
    ASSUME Shape, StaleInv,
           UNCHANGED <<cacheVars, op, pc, sent>>,
           \A c \in Callers : \/ answer'[c] = answer[c]
                              \/ pc[c] = "sent" /\ answer'[c].code # "wrong key",
           \/ container' = NoContainer /\ made' = made
           \/ made' = made + 1 /\ container'.number = made + 1
    PROVE  StaleInv'
  <1>1. made \in Nat
    BY DEF Shape
  <1>2. ASSUME NEW n \in Nat, n <= made
        PROVE  n <= made' /\ (container' # NoContainer => n # container'.number)
    <2>1. CASE container' = NoContainer /\ made' = made
      BY <1>2, <2>1
    <2>2. CASE made' = made + 1 /\ container'.number = made + 1
      <3>1. n <= made + 1 /\ n # made + 1
        BY Zenon, <1>1, <1>2, NextNumberIsNew
      <3> QED BY Zenon, <2>2, <3>1
    <2> QED BY <2>1, <2>2
  <1>4. Cached' => IsOrWas(Known)'
    BY <1>2 DEF StaleInv, IsOrWas, Cached, Known, cacheVars
  <1>5. ASSUME NEW c \in Callers PROVE ReadIsOrWas(c)'
    BY <1>2 DEF StaleInv, ReadIsOrWas, IsOrWas
  <1>6. ASSUME NEW c \in Callers PROVE WrittenWithOwnKey(c)'
    <2>1. WrittenWithOwnKey(c)
      BY DEF StaleInv
    <2> QED BY <1>2, <2>1 DEF WrittenWithOwnKey
  <1>7. container' # NoContainer
        => container'.number \in Nat /\ container'.number <= made'
    <2>1. CASE container' = NoContainer /\ made' = made
      BY <2>1
    <2>2. CASE made' = made + 1 /\ container'.number = made + 1
      <3>1. made + 1 \in Nat /\ made + 1 <= made + 1
        BY Zenon, <1>1, NextNumberIsNew
      <3> QED BY Zenon, <2>2, <3>1
    <2> QED BY <2>1, <2>2
  <1> QED BY <1>4, <1>5, <1>6, <1>7 DEF StaleInv

LEMMA ServiceKeepsStaleInv ==
    ASSUME Shape, StaleInv, NEW c \in Callers, ServiceNext(c)
    PROVE  StaleInv'
  <1>1. UNCHANGED <<cacheVars, op, pc, sent>>
    BY DEF ServiceNext, ServeReading, ServeCreateContainer,
           ServeDeleteContainer, ServeItem, LoseRequest, Serving
  <1>2. ASSUME UNCHANGED <<container, made>>,
               \A d \in Callers \ {c} : answer'[d] = answer[d],
               ReadIsOrWas(c)', WrittenWithOwnKey(c)'
        PROVE  StaleInv'
    <2>1. Cached' => IsOrWas(Known)'
      BY <1>1, <1>2 DEF StaleInv, IsOrWas, Cached, Known, cacheVars
    <2> QED BY <1>1, <1>2, <2>1, OneCallKeepsStaleInv
  <1>3. CASE ServeReading(c)
    <2> DEFINE reply == IF container = NoContainer THEN [code |-> "not found"]
                        ELSE [code |-> "ok", number |-> container.number,
                              definition |-> container.definition]
    <2>1. /\ Reply(c, reply) /\ pc[c] = "reading"
          /\ UNCHANGED <<container, made>>
      BY <1>3 DEF ServeReading, Serving
    <2>2. reply.code = "ok" => /\ container # NoContainer
                               /\ reply.number = container.number
                               /\ reply.definition = container.definition
      OBVIOUS
    <2> HIDE DEF reply
    <2>3. reply.code = "ok" => IsOrWas(reply)
      BY <2>2 DEF StaleInv, IsOrWas
    <2>4. answer'[c].code = "ok" => answer'[c] = reply
      BY <2>1, ReplyIsItsOwn
    <2>5. answer'[c].code = "ok" => IsOrWas(answer[c])'
      BY <2>1, <2>3, <2>4 DEF IsOrWas
    <2>6. ReadIsOrWas(c)'
      BY <2>5 DEF ReadIsOrWas
    <2>7. WrittenWithOwnKey(c)'
      BY <1>1, <2>1 DEF WrittenWithOwnKey
    <2> QED BY <1>2, <2>1, <2>6, <2>7, ReplyIsItsOwn
  <1>4. CASE ServeCreateContainer(c)
    <2>1. PICK reply : Reply(c, reply) /\ reply.code # "wrong key"
      <3>1. CASE Reply(c, [code |-> "ok"])
        <4>1. [code |-> "ok"].code # "wrong key"
          OBVIOUS
        <4> QED BY <3>1, <4>1
      <3>2. CASE Reply(c, [code |-> IF container = NoContainer
                                    THEN "no quota" ELSE "conflict"])
        <4> DEFINE refused == [code |-> IF container = NoContainer
                                        THEN "no quota" ELSE "conflict"]
        <4>1. refused.code # "wrong key"
          OBVIOUS
        <4>2. Reply(c, refused)
          BY <3>2
        <4> HIDE DEF refused
        <4> QED BY <4>1, <4>2
      <3> QED BY <1>4, <3>1, <3>2 DEF ServeCreateContainer
    <2>2. pc[c] = "sent"
      BY <1>4 DEF ServeCreateContainer, Serving
    <2>3. /\ \A d \in Callers \ {c} : answer'[d] = answer[d]
          /\ answer'[c].code # "wrong key"
      BY <2>1, ReplyIsItsOwn
    <2>4. CASE UNCHANGED <<container, made>>
      <3>1. WrittenWithOwnKey(c)
        BY DEF StaleInv
      <3>2. WrittenWithOwnKey(c)'
        BY <1>1, <2>3, <2>4, <3>1 DEF WrittenWithOwnKey
      <3>3. ReadIsOrWas(c)'
        BY <1>1, <2>2 DEF ReadIsOrWas
      <3> QED BY <1>2, <2>3, <2>4, <3>2, <3>3
    <2>5. CASE \E new : Make(new) /\ new.number = made + 1
      <3>1. made' = made + 1 /\ container'.number = made + 1
        BY Zenon, <2>5 DEF Make
      <3> QED BY <1>1, <2>2, <2>3, <3>1, AnotherContainerKeepsStaleInv
    <2>6. \/ UNCHANGED <<container, made>>
          \/ \E new : Make(new) /\ new.number = made + 1
      <3> DEFINE new == [number |-> made + 1, definition |-> sent[c].definition,
                         throughput |-> sent[c].throughput,
                         asked |-> sent[c].asked, careful |-> sent[c].careful]
      <3>1. UNCHANGED <<container, made>> \/ Make(new)
        BY <1>4 DEF ServeCreateContainer
      <3>2. new.number = made + 1
        OBVIOUS
      <3> HIDE DEF new
      <3> QED BY <3>1, <3>2
    <2> QED BY <2>4, <2>5, <2>6
  <1>5. CASE ServeDeleteContainer(c)
    <2> DEFINE reply == [code |-> IF container = NoContainer
                                  THEN "not found" ELSE "ok"]
    <2>1. /\ Reply(c, reply) /\ pc[c] = "sent"
          /\ container' = NoContainer /\ made' = made
      BY <1>5 DEF ServeDeleteContainer, Serving
    <2>2. reply.code # "wrong key"
      OBVIOUS
    <2> HIDE DEF reply
    <2>3. /\ \A d \in Callers \ {c} : answer'[d] = answer[d]
          /\ answer'[c].code # "wrong key"
      BY <2>1, <2>2, ReplyIsItsOwn
    <2> QED BY <1>1, <2>1, <2>3, AnotherContainerKeepsStaleInv
  <1>6. CASE ServeItem(c)
    <2> DEFINE reply == [code |-> Verdict(c), number |-> container.number]
    <2>1. /\ Reply(c, reply) /\ pc[c] = "sent"
          /\ UNCHANGED <<container, made>>
      BY <1>6 DEF ServeItem, Serving
    <2>2. reply.code = Verdict(c) /\ reply.number = container.number
      OBVIOUS
    <2> HIDE DEF reply
    <2>3. Verdict(c) = "wrong key"
          => /\ container # NoContainer
             /\ sent[c].key # ServiceKey(sent[c].owner, sent[c].id,
                                         container.definition)
      BY DEF Verdict
    <2>4. /\ \A d \in Callers \ {c} : answer'[d] = answer[d]
          /\ answer'[c].code = "wrong key" => answer'[c] = reply
      BY <2>1, ReplyIsItsOwn
    <2>5. WrittenWithOwnKey(c)
      BY DEF StaleInv
    <2>6. WrittenWithOwnKey(c)'
      BY <1>1, <2>1, <2>2, <2>3, <2>4, <2>5 DEF WrittenWithOwnKey
    <2>7. ReadIsOrWas(c)'
      BY <1>1, <2>1 DEF ReadIsOrWas
    <2> QED BY <1>2, <2>1, <2>4, <2>6, <2>7
  <1>7. CASE LoseRequest(c)
    <2>1. /\ UNCHANGED <<container, made>>
          /\ answer' = [answer EXCEPT ![c] = [code |-> "lost"]]
      BY <1>7 DEF LoseRequest
    <2>2. /\ \A d \in Callers \ {c} : answer'[d] = answer[d]
          /\ answer'[c].code = "lost"
      BY <2>1 DEF Shape
    <2>3. WrittenWithOwnKey(c)
      BY DEF StaleInv
    <2>4. WrittenWithOwnKey(c)'
      BY <1>1, <2>1, <2>2, <2>3 DEF WrittenWithOwnKey
    <2>5. ReadIsOrWas(c)'
      BY <2>2 DEF ReadIsOrWas
    <2> QED BY <1>2, <2>1, <2>2, <2>4, <2>5
  <1> QED BY <1>3, <1>4, <1>5, <1>6, <1>7 DEF ServiceNext

LEMMA StepKeepsStaleInv == Shape /\ StaleInv /\ [Next]_vars => StaleInv'
  <1> SUFFICES ASSUME Shape, StaleInv, [Next]_vars PROVE StaleInv'
    OBVIOUS
  <1>1. CASE OthersMake
    <2>1. PICK d \in ForeignDefinitions :
              Make([number |-> made + 1, definition |-> d, throughput |-> 0,
                    asked |-> 0, careful |-> FALSE])
      BY <1>1 DEF OthersMake
    <2> DEFINE new == [number |-> made + 1, definition |-> d, throughput |-> 0,
                       asked |-> 0, careful |-> FALSE]
    <2>2. Make(new) /\ new.number = made + 1
      BY <2>1
    <2> HIDE DEF new
    <2>3. made' = made + 1 /\ container'.number = made + 1
      BY Zenon, <2>2 DEF Make
    <2>4. UNCHANGED <<cacheVars, op, pc, sent, answer>>
      BY <1>1 DEF OthersMake, callVars
    <2> QED BY <2>3, <2>4, AnotherContainerKeepsStaleInv
  <1>2. CASE OthersDelete
    <2>1. /\ UNCHANGED <<cacheVars, op, pc, sent, answer>>
          /\ container' = NoContainer /\ made' = made
      BY <1>2 DEF OthersDelete, callVars
    <2> QED BY <2>1, AnotherContainerKeepsStaleInv
  <1>3. CASE UNCHANGED vars
    <2>1. UNCHANGED <<container, made, cacheVars, op, pc, sent, answer>>
      BY <1>3 DEF vars, serviceVars, callVars
    <2> QED BY <2>1 DEF StaleInv, ReadIsOrWas, WrittenWithOwnKey, IsOrWas,
                        Cached, Known, cacheVars
  <1> QED BY <1>1, <1>2, <1>3, CallKeepsStaleInv, ServiceKeepsStaleInv DEF Next

LEMMA InitStaleInv == Init => StaleInv
  BY DEF Init, StaleInv, ReadIsOrWas, WrittenWithOwnKey, Cached

\* An item is refused for its key only if the container was made anew after the last
\* read this client had an answer to, or if its key is the id this call generates.
THEOREM SpecRefusedOnlyIfStale == Spec => []RefusedOnlyIfStale
  BY InitShape, StepKeepsShape, InitStaleInv, StepKeepsStaleInv,
     StaleInvImpliesRefusedOnlyIfStale, PTL DEF Spec
=============================================================================

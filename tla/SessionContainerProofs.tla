------------------------ MODULE SessionContainerProofs ------------------------
(***************************************************************************)
(* For any operations, ranges, regions and history of configurations: the  *)
(* tokens a client merges always fit, because every token it keeps or is   *)
(* answered with names exactly the regions of its version, and merging     *)
(* keeps it so; merging never takes progress away; no token claims what    *)
(* the service has not committed; and a request carries a token that       *)
(* covers what the client was answered with before.                        *)
(***************************************************************************)
EXTENDS SessionContainer, TLAPS

-----------------------------------------------------------------------------
(* Merging *)

\* A token of the service's: it names the regions of its configuration.
Fits(token) ==
    /\ token.version \in Versions
    /\ token.global \in Int
    /\ token.local \in [RegionsAt[token.version] -> Int]

LEMMA VersionsAreNumbers == \A v \in Versions : v \in Int
  BY ConfigurationAssumption DEF Versions

\* Tokens that fit are merged without an error, whatever their versions.
LEMMA FittingTokensMerge ==
    ASSUME NEW this, NEW other, Fits(this), Fits(other)
    PROVE  ~MergeThrows(this, other)
  BY DEF Fits, MergeThrows

\* Merging keeps tokens fitting: the regions are those of the newer version.
LEMMA MergedTokenFits ==
    ASSUME NEW this, NEW other, Fits(this), Fits(other)
    PROVE  Fits(Merge(this, other))
  <1>1. CASE this.version < other.version
    BY <1>1 DEF Fits, Merge, Larger
  <1>2. CASE ~(this.version < other.version)
    BY <1>2 DEF Fits, Merge, Larger
  <1> QED BY <1>1, <1>2

\* The merged token is at least as far as the one it replaces.
LEMMA MergedTokenNoOlder ==
    ASSUME NEW this, NEW other, Fits(this), Fits(other)
    PROVE  NoOlder(Merge(this, other), this)
  <1>1. this.version \in Int /\ other.version \in Int
    BY VersionsAreNumbers DEF Fits
  <1>2. CASE this.version < other.version
    BY <1>1, <1>2 DEF Fits, Merge, Larger, NoOlder
  <1>3. CASE ~(this.version < other.version)
    BY <1>1, <1>3 DEF Fits, Merge, Larger, NoOlder
  <1> QED BY <1>2, <1>3

LEMMA NoOlderThanItself ==
    ASSUME NEW token, Fits(token)
    PROVE  NoOlder(token, token)
  BY VersionsAreNumbers DEF Fits, NoOlder

-----------------------------------------------------------------------------
(* All tokens fit *)

ServiceTyped ==
    /\ version \in Versions
    /\ current \in Rids
    /\ progress \in [Regions -> [Ranges -> Int]]
    /\ lsn \in [Ranges -> Int]

TokensFit ==
    /\ DOMAIN tokens = Rids
    /\ \A i \in Rids :
           /\ DOMAIN tokens[i] = Ranges
           /\ \A r \in Ranges :
                  tokens[i][r] # NoToken => Fits(tokens[i][r])

\* What is known of an operation that is under way, and of its answer.
OpFits(o) ==
    /\ "pc" \in DOMAIN op[o]
    /\ op[o].pc \in {"sent", "refused", "answered"} => op[o].range \in Ranges
    /\ op[o].pc \in {"sent", "refused"} =>
           {"range", "retries"} \subseteq DOMAIN op[o]
    /\ op[o].pc = "answered" =>
           op[o].answer.rid \in Rids /\ Fits(op[o].answer.token)

FitInv ==
    /\ ServiceTyped
    /\ TokensFit
    /\ DOMAIN op = Ops
    /\ \A o \in Ops : OpFits(o)

\* A step that changes one operation keeps the facts about the others.
LEMMA OneOpChanges ==
    ASSUME DOMAIN op = Ops, \A o \in Ops : OpFits(o), NEW o \in Ops, NEW new,
           op' = [op EXCEPT ![o] = new], OpFits(o)'
    PROVE  DOMAIN op' = Ops /\ \A p \in Ops : OpFits(p)'
  <1>1. DOMAIN op' = Ops
    OBVIOUS
  <1>2. ASSUME NEW p \in Ops, p # o
        PROVE  OpFits(p)'
    <2>1. op'[p] = op[p]
      BY <1>2
    <2> QED BY <2>1, <1>2 DEF OpFits
  <1> QED BY <1>1, <1>2

\* The service's tokens fit.
LEMMA ServiceTokenFits ==
    ASSUME version \in Versions, NEW range \in Ranges, NEW global \in Int,
           NEW now \in [Regions -> [Ranges -> Int]]
    PROVE  Fits(TokenAt(range, global, now))
  <1>1. RegionsAt[version] \subseteq Regions
    BY ConfigurationAssumption DEF Versions
  <1>2. [g \in RegionsAt[version] |-> now[g][range]]
            \in [RegionsAt[version] -> Int]
    BY <1>1
  <1> QED BY <1>2 DEF Fits, TokenAt

LEMMA AnswerFits ==
    ASSUME FitInv, NEW o \in Ops, op[o].pc = "sent", NEW token, Fits(token),
           Answer(o, token)
    PROVE  DOMAIN op' = Ops /\ \A p \in Ops : OpFits(p)'
  <1> DEFINE new == [pc |-> "answered", range |-> op[o].range,
                     floor |-> op[o].floor, floorRid |-> op[o].floorRid,
                     known |-> op[o].known,
                     answer |-> [rid |-> current, token |-> token]]
  <1>1. op' = [op EXCEPT ![o] = new]
    BY DEF Answer
  <1>2. op'[o] = new
    BY <1>1 DEF FitInv
  <1>3. op[o].range \in Ranges /\ current \in Rids
    BY DEF FitInv, OpFits, ServiceTyped
  <1>4. OpFits(o)'
    <2>1. /\ "pc" \in DOMAIN op'[o] /\ op'[o].pc = "answered"
          /\ op'[o].range \in Ranges
          /\ op'[o].answer.rid \in Rids /\ op'[o].answer.token = token
      BY <1>2, <1>3
    <2> QED BY <2>1 DEF OpFits, Fits
  <1> HIDE DEF new
  <1> QED BY <1>1, <1>4, OneOpChanges DEF FitInv

LEMMA RemoveKeepsTokensFit ==
    ASSUME TokensFit, Remove
    PROVE  TokensFit'
  BY DEF TokensFit, Remove, NoTokens, Fits

LEMMA SetKeepsTokensFit ==
    ASSUME TokensFit, NEW owner \in Rids, NEW range \in Ranges, NEW token,
           Fits(token), SetToken(owner, range, token)
    PROVE  TokensFit'
  <1> DEFINE old == tokens[owner][range]
             new == IF old = NoToken THEN token ELSE Merge(old, token)
  <1>1. tokens' = [tokens EXCEPT ![owner][range] = new]
    BY DEF SetToken
  <1>2. Fits(new)
    BY MergedTokenFits DEF TokensFit
  <1> HIDE DEF new
  <1>3. \A i \in Rids, r \in Ranges :
           tokens'[i][r] = IF i = owner /\ r = range THEN new ELSE tokens[i][r]
    BY <1>1 DEF TokensFit
  <1>4. DOMAIN tokens' = Rids /\ \A i \in Rids : DOMAIN tokens'[i] = Ranges
    BY <1>1 DEF TokensFit
  <1>5. ASSUME NEW i \in Rids, NEW r \in Ranges, tokens'[i][r] # NoToken
        PROVE  Fits(tokens'[i][r])
    <2>1. CASE i = owner /\ r = range
      BY <1>2, <1>3, <2>1
    <2>2. CASE ~(i = owner /\ r = range)
      BY <1>3, <1>5, <2>2 DEF TokensFit
    <2> QED BY <2>1, <2>2
  <1>6. \A i \in Rids, r \in Ranges :
            tokens'[i][r] # NoToken => Fits(tokens'[i][r])
    BY <1>5
  <1> QED BY <1>4, <1>6 DEF TokensFit, Fits

-----------------------------------------------------------------------------
(* The steps *)

LEMMA RequestKeepsFitInv ==
    ASSUME FitInv, NEW o \in Ops,
           \/ \E range \in Ranges, kind \in Kinds : Begin(o, range, kind)
           \/ Retry(o)
           \/ Deleted(o)
    PROVE  FitInv'
  <1>1. ASSUME NEW range \in Ranges, NEW kind \in Kinds, Begin(o, range, kind)
        PROVE  FitInv'
    <2> DEFINE new == [pc |-> "sent", range |-> range, kind |-> kind,
                       header |-> TokenFor(range), retries |-> 0,
                       floor |-> acked[current][range], floorRid |-> current,
                       known |-> rid \in {Absent, current}]
    <2>1. op' = [op EXCEPT ![o] = new]
      BY <1>1 DEF Begin
    <2>2. op'[o] = new
      BY <2>1 DEF FitInv
    <2>3. OpFits(o)'
      BY <2>2 DEF OpFits
    <2> HIDE DEF new
    <2>4. DOMAIN op' = Ops /\ \A p \in Ops : OpFits(p)'
      BY <2>1, <2>3, OneOpChanges DEF FitInv
    <2> QED BY <1>1, <2>4
            DEF Begin, FitInv, ServiceTyped, TokensFit, serviceVars
  <1>2. ASSUME Retry(o)
        PROVE  FitInv'
    <2>1. op[o].pc = "refused"
      BY <1>2 DEF Retry
    <2>2. TokensFit'
      BY <1>2, RemoveKeepsTokensFit DEF Retry, FitInv, TokensFit
    <2>3. CASE op' = [op EXCEPT ![o].pc = "sent", ![o].retries = @ + 1]
      <3> DEFINE new == [op[o] EXCEPT !.pc = "sent",
                                      !.retries = op[o].retries + 1]
      <3>1. {"pc", "range", "retries"} \subseteq DOMAIN op[o]
            /\ op[o].range \in Ranges
        BY <2>1 DEF FitInv, OpFits
      <3>2. op' = [op EXCEPT ![o] = new]
        BY <2>3, <3>1 DEF FitInv
      <3>3. op'[o] = new
        BY <3>2 DEF FitInv
      <3>4. /\ op'[o].pc = "sent" /\ op'[o].range \in Ranges
            /\ {"pc", "range", "retries"} \subseteq DOMAIN op'[o]
        BY <3>1, <3>3
      <3>5. OpFits(o)'
        BY <3>4 DEF OpFits
      <3> HIDE DEF new
      <3> QED BY <1>2, <2>2, <3>2, <3>5, OneOpChanges
              DEF Retry, FitInv, ServiceTyped, serviceVars
    <2>4. CASE op' = [op EXCEPT ![o] = Idle]
      <3>1. op'[o] = Idle
        BY <2>4 DEF FitInv
      <3>2. OpFits(o)'
        BY <3>1 DEF OpFits, Idle
      <3> QED BY <1>2, <2>2, <2>4, <3>2, OneOpChanges
              DEF Retry, FitInv, ServiceTyped, serviceVars
    <2> QED BY <1>2, <2>3, <2>4 DEF Retry
  <1>3. ASSUME Deleted(o)
        PROVE  FitInv'
    <2>1. op' = [op EXCEPT ![o] = Idle]
      BY <1>3 DEF Deleted
    <2>2. op'[o] = Idle
      BY <2>1 DEF FitInv
    <2>3. OpFits(o)'
      BY <2>2 DEF OpFits, Idle
    <2>4. TokensFit'
      BY <1>3, RemoveKeepsTokensFit DEF Deleted, FitInv
    <2> QED BY <1>3, <2>1, <2>3, <2>4, OneOpChanges
            DEF Deleted, FitInv, ServiceTyped, serviceVars
  <1> QED BY <1>1, <1>2, <1>3

LEMMA ReceiveKeepsFitInv ==
    ASSUME FitInv, NEW o \in Ops, Receive(o)
    PROVE  FitInv'
  <1>1. op' = [op EXCEPT ![o] = Idle]
    BY DEF Receive
  <1>2. op'[o] = Idle
    BY <1>1 DEF FitInv
  <1>3. OpFits(o)'
    BY <1>2 DEF OpFits, Idle
  <1>4. /\ op[o].answer.rid \in Rids /\ op[o].range \in Ranges
        /\ Fits(op[o].answer.token)
    BY DEF Receive, FitInv, OpFits
  <1>5. \/ tokens' = tokens
        \/ SetToken(op[o].answer.rid, op[o].range, op[o].answer.token)
    BY DEF Receive
  <1>6. TokensFit'
    <2>1. CASE tokens' = tokens
      BY <2>1 DEF FitInv, TokensFit, Fits
    <2>2. CASE SetToken(op[o].answer.rid, op[o].range, op[o].answer.token)
      BY <1>4, <2>2, SetKeepsTokensFit DEF FitInv
    <2> QED BY <1>5, <2>1, <2>2
  <1> QED BY <1>1, <1>3, <1>6, OneOpChanges
          DEF Receive, FitInv, ServiceTyped, serviceVars

\* What the service does to its LSNs keeps their type.
LEMMA ServeKeepsFitInv ==
    ASSUME FitInv, NEW o \in Ops, ServeWrite(o) \/ ServeRead(o)
    PROVE  FitInv'
  <1>1. CASE ServeWrite(o)
    <2> DEFINE range == op[o].range
               next == lsn[range] + 1
    <2>1. range \in Ranges /\ op[o].pc = "sent"
      BY <1>1 DEF ServeWrite, FitInv, OpFits
    <2>2. next \in Int /\ lsn' \in [Ranges -> Int]
      BY <1>1, <2>1 DEF ServeWrite, FitInv, ServiceTyped
    <2>3. progress' \in [Regions -> [Ranges -> Int]]
      <3>1. PICK g \in RegionsAt[version] :
                progress' = [progress EXCEPT ![g][range] = next]
        BY <1>1 DEF ServeWrite
      <3>2. g \in Regions
        BY ConfigurationAssumption DEF FitInv, ServiceTyped, Versions
      <3>3. [progress[g] EXCEPT ![range] = next] \in [Ranges -> Int]
        BY <2>1, <2>2, <3>2 DEF FitInv, ServiceTyped
      <3>4. progress' = [progress EXCEPT
                            ![g] = [progress[g] EXCEPT ![range] = next]]
        BY <3>1
      <3> HIDE DEF next, range
      <3> QED BY <3>2, <3>3, <3>4 DEF FitInv, ServiceTyped
    <2>4. Fits(TokenAt(range, next, progress'))
      BY <2>1, <2>2, <2>3, ServiceTokenFits DEF FitInv, ServiceTyped
    <2>5. DOMAIN op' = Ops /\ \A p \in Ops : OpFits(p)'
      BY <1>1, <2>1, <2>4, AnswerFits DEF ServeWrite
    <2> QED BY <1>1, <2>2, <2>3, <2>5
            DEF ServeWrite, FitInv, ServiceTyped, TokensFit, Fits
  <1>2. CASE ServeRead(o)
    <2>1. /\ op[o].pc = "sent" /\ op[o].range \in Ranges
          /\ {"pc", "range", "retries"} \subseteq DOMAIN op[o]
      BY <1>2 DEF ServeRead, FitInv, OpFits
    <2>2. PICK g \in RegionsAt[version] :
              \/ Answer(o, TokenAt(op[o].range, progress[g][op[o].range],
                                   progress))
              \/ op' = [op EXCEPT ![o].pc = "refused"]
      BY <1>2 DEF ServeRead
    <2>3. g \in Regions
      BY ConfigurationAssumption DEF FitInv, ServiceTyped, Versions
    <2>4. Fits(TokenAt(op[o].range, progress[g][op[o].range], progress))
      BY <2>1, <2>3, ServiceTokenFits DEF FitInv, ServiceTyped
    <2>5. DOMAIN op' = Ops /\ \A p \in Ops : OpFits(p)'
      <3>1. CASE Answer(o, TokenAt(op[o].range, progress[g][op[o].range],
                                  progress))
        BY <2>1, <2>4, <3>1, AnswerFits
      <3>2. CASE op' = [op EXCEPT ![o].pc = "refused"]
        <4> DEFINE new == [op[o] EXCEPT !.pc = "refused"]
        <4>1. op' = [op EXCEPT ![o] = new]
          BY <3>2
        <4>2. op'[o] = new
          BY <4>1 DEF FitInv
        <4>3. /\ op'[o].pc = "refused" /\ op'[o].range \in Ranges
              /\ {"pc", "range", "retries"} \subseteq DOMAIN op'[o]
          BY <2>1, <4>2
        <4>4. OpFits(o)'
          BY <4>3 DEF OpFits
        <4> HIDE DEF new
        <4> QED BY <4>1, <4>4, OneOpChanges DEF FitInv
      <3> QED BY <2>2, <3>1, <3>2
    <2> QED BY <1>2, <2>5
            DEF ServeRead, FitInv, ServiceTyped, TokensFit, Fits, serviceVars
  <1> QED BY <1>1, <1>2

LEMMA ServiceKeepsFitInv ==
    ASSUME FitInv,
           Replicate \/ Reconfigure \/ OthersRecreate
               \/ \E o \in Ops : ServeDelete(o)
    PROVE  FitInv'
  <1>1. CASE Replicate
    <2>1. PICK g \in RegionsAt[version], range \in Ranges :
              progress' = [progress EXCEPT ![g][range] = lsn[range]]
      BY <1>1 DEF Replicate
    <2>2. g \in Regions
      BY ConfigurationAssumption DEF FitInv, ServiceTyped, Versions
    <2>3. [progress[g] EXCEPT ![range] = lsn[range]] \in [Ranges -> Int]
      BY <2>2 DEF FitInv, ServiceTyped
    <2>4. progress' = [progress EXCEPT
                          ![g] = [progress[g] EXCEPT ![range] = lsn[range]]]
      BY <2>1
    <2>5. progress' \in [Regions -> [Ranges -> Int]]
      BY <2>2, <2>3, <2>4 DEF FitInv, ServiceTyped
    <2> QED BY <1>1, <2>5
            DEF Replicate, clientVars, FitInv, ServiceTyped, TokensFit, OpFits,
                Fits
  <1>2. CASE Reconfigure
    BY <1>2 DEF Reconfigure, clientVars, FitInv, ServiceTyped, TokensFit,
                OpFits, Fits
  <1>3. ASSUME Recreate
        PROVE  ServiceTyped' /\ (TokensFit => TokensFit')
    <2>1. current + 1 \in Rids
      BY <1>3, BoundAssumption DEF Recreate, FitInv, ServiceTyped, Rids
    <2> QED BY <1>3, <2>1 DEF Recreate, FitInv, ServiceTyped, TokensFit, Fits
  <1>4. CASE OthersRecreate
    BY <1>3, <1>4 DEF OthersRecreate, FitInv, OpFits, Fits
  <1>5. ASSUME NEW o \in Ops, ServeDelete(o)
        PROVE  FitInv'
    <2>1. op' = [op EXCEPT ![o] = [pc |-> "deleted"]]
      BY <1>5 DEF ServeDelete
    <2>2. op'[o] = [pc |-> "deleted"]
      BY <2>1 DEF FitInv
    <2>3. OpFits(o)'
      BY <2>2 DEF OpFits
    <2> QED BY <1>3, <1>5, <2>1, <2>3, OneOpChanges DEF ServeDelete, FitInv
  <1> QED BY <1>1, <1>2, <1>4, <1>5

LEMMA StepKeepsFitInv == FitInv /\ [Next]_vars => FitInv'
  <1> SUFFICES ASSUME FitInv, [Next]_vars
               PROVE  FitInv'
    OBVIOUS
  <1>1. CASE UNCHANGED vars
    BY <1>1 DEF vars, clientVars, serviceVars, FitInv, ServiceTyped, TokensFit,
                OpFits, Fits
  <1>2. CASE Next
    BY <1>2, RequestKeepsFitInv, ReceiveKeepsFitInv, ServeKeepsFitInv,
       ServiceKeepsFitInv DEF Next, read, write, delete, Kinds
  <1> QED BY <1>1, <1>2

THEOREM FitInvariant == Spec => []FitInv
  <1>1. Init => FitInv
    <2> SUFFICES ASSUME Init
                 PROVE  FitInv
      OBVIOUS
    <2>1. ServiceTyped
      BY ConfigurationAssumption, BoundAssumption
      DEF Init, ServiceTyped, Versions, Rids
    <2>2. TokensFit
      BY DEF Init, TokensFit, NoTokens
    <2>3. DOMAIN op = Ops /\ \A o \in Ops : OpFits(o)
      BY DEF Init, OpFits, Idle
    <2> QED BY <2>1, <2>2, <2>3 DEF FitInv
  <1> QED BY <1>1, StepKeepsFitInv, PTL DEF Spec

\* captureSessionToken never fails an operation that was carried out, for any
\* sequence of regions added and removed.
THEOREM CapturesNeverThrow == Spec => []CaptureNeverThrows
  <1>1. FitInv => CaptureNeverThrows
    <2> SUFFICES ASSUME FitInv, NEW o \in Ops, op[o].pc = "answered"
                 PROVE  ~SetThrows(op[o].answer.rid, op[o].range,
                                   op[o].answer.token)
      BY DEF CaptureNeverThrows
    <2>1. /\ op[o].answer.rid \in Rids /\ op[o].range \in Ranges
          /\ Fits(op[o].answer.token)
      BY DEF FitInv, OpFits
    <2> QED BY <2>1, FittingTokensMerge DEF FitInv, TokensFit, SetThrows
  <1> QED BY <1>1, FitInvariant, PTL

-----------------------------------------------------------------------------
(* Tokens only grow *)

LEMMA RemovedOrKept ==
    ASSUME TokensFit, Remove, NEW i \in Rids, NEW r \in Ranges,
           tokens[i][r] # NoToken
    PROVE  \/ rid' = Absent /\ tokens'[i][r] = NoToken
           \/ tokens'[i][r] = tokens[i][r]
  BY DEF TokensFit, Remove, NoTokens

LEMMA SetIsNoOlder ==
    ASSUME TokensFit, NEW owner \in Rids, NEW range \in Ranges, NEW token,
           Fits(token), SetToken(owner, range, token),
           NEW i \in Rids, NEW r \in Ranges, tokens[i][r] # NoToken
    PROVE  NoOlder(tokens'[i][r], tokens[i][r])
  <1>1. tokens'[i][r] = IF i = owner /\ r = range
                        THEN Merge(tokens[i][r], token) ELSE tokens[i][r]
    BY DEF TokensFit, SetToken
  <1>2. Fits(tokens[i][r])
    BY DEF TokensFit
  <1> QED BY <1>1, <1>2, MergedTokenNoOlder, NoOlderThanItself

\* Answers that overtake each other, and answers of an older configuration,
\* never set a token back; only remove does.
THEOREM TokensGrow == Spec => TokensOnlyGrow
  <1>1. ASSUME FitInv, [Next]_vars, NEW i \in Rids, NEW r \in Ranges,
               tokens[i][r] # NoToken
        PROVE  \/ rid' = Absent /\ tokens'[i][r] = NoToken
               \/ NoOlder(tokens'[i][r], tokens[i][r])
    <2>1. NoOlder(tokens[i][r], tokens[i][r])
      BY <1>1, NoOlderThanItself DEF FitInv, TokensFit
    <2>2. CASE tokens' = tokens
      BY <2>1, <2>2
    <2>3. CASE Remove
      BY <1>1, <2>1, <2>3, RemovedOrKept DEF FitInv
    <2>4. ASSUME NEW o \in Ops, Receive(o), tokens' # tokens
          PROVE  NoOlder(tokens'[i][r], tokens[i][r])
      <3>1. /\ op[o].answer.rid \in Rids /\ op[o].range \in Ranges
            /\ Fits(op[o].answer.token)
        BY <1>1, <2>4 DEF Receive, FitInv, OpFits
      <3>2. SetToken(op[o].answer.rid, op[o].range, op[o].answer.token)
        BY <2>4 DEF Receive
      <3> QED BY <1>1, <3>1, <3>2, SetIsNoOlder DEF FitInv
    <2>5. \/ tokens' = tokens
          \/ Remove
          \/ \E o \in Ops : Receive(o) /\ tokens' # tokens
      <3>1. CASE UNCHANGED vars
        BY <3>1 DEF vars, clientVars
      <3>2. ASSUME NEW o \in Ops,
                   \/ \E range \in Ranges, kind \in Kinds :
                          Begin(o, range, kind)
                   \/ Receive(o) \/ Retry(o) \/ Deleted(o)
            PROVE  tokens' = tokens \/ Remove \/ Receive(o)
        BY <3>2 DEF Begin, Retry, Deleted
      <3>3. ASSUME NEW o \in Ops,
                   ServeWrite(o) \/ ServeRead(o) \/ ServeDelete(o)
            PROVE  tokens' = tokens
        BY <3>3 DEF ServeWrite, ServeRead, ServeDelete, Recreate
      <3>4. CASE Replicate \/ Reconfigure \/ OthersRecreate
        BY <3>4 DEF Replicate, Reconfigure, OthersRecreate, Recreate,
                    clientVars
      <3> QED BY <1>1, <3>1, <3>2, <3>3, <3>4
              DEF Next, read, write, delete, Kinds
    <2> QED BY <2>2, <2>3, <2>4, <2>5
  <1>2. FitInv /\ [Next]_vars =>
            [\A i \in Rids, range \in Ranges :
                tokens[i][range] # NoToken =>
                    \/ rid' = Absent /\ tokens'[i][range] = NoToken
                    \/ NoOlder(tokens'[i][range], tokens[i][range])]_vars
    BY <1>1
  <1> QED BY <1>2, FitInvariant, PTL DEF Spec, TokensOnlyGrow

-----------------------------------------------------------------------------
(* Tokens are never ahead of the service *)

\* No further than a service with these LSNs and this progress.
NotAheadOf(token, range, last, now) ==
    /\ token.global <= last[range]
    /\ \A g \in DOMAIN token.local : token.local[g] <= now[g][range]

AnswerNotAhead(o) ==
    op[o].pc = "answered" =>
        /\ op[o].answer.rid <= current
        /\ op[o].answer.rid = current =>
               NotAheadOf(op[o].answer.token, op[o].range, lsn, progress)

\* Incarnations to come have no tokens yet.
AheadInv ==
    /\ \A g \in Regions, r \in Ranges : progress[g][r] <= lsn[r]
    /\ \A i \in Rids, r \in Ranges : i > current => tokens[i][r] = NoToken
    /\ \A r \in Ranges : tokens[current][r] # NoToken =>
           NotAheadOf(tokens[current][r], r, lsn, progress)
    /\ \A o \in Ops : AnswerNotAhead(o)

LEMMA AheadInvImpliesTokensNotAhead == AheadInv => TokensNotAhead
  BY DEF AheadInv, NotAheadOf, TokensNotAhead

\* What the service does between two incarnations.
ServiceGrows ==
    /\ current' = current
    /\ \A r \in Ranges : lsn[r] <= lsn'[r]
    /\ \A g \in Regions, r \in Ranges : progress[g][r] <= progress'[g][r]

LEMMA RegionsOfTokens ==
    ASSUME NEW token, Fits(token)
    PROVE  /\ DOMAIN token.local \subseteq Regions
           /\ token.global \in Int
           /\ \A g \in DOMAIN token.local : token.local[g] \in Int
  BY ConfigurationAssumption DEF Fits, Versions

LEMMA NotAheadLater ==
    ASSUME ServiceTyped, ServiceTyped', ServiceGrows, NEW token, Fits(token),
           NEW range \in Ranges, NotAheadOf(token, range, lsn, progress)
    PROVE  NotAheadOf(token, range, lsn', progress')
  <1>1. token.global <= lsn'[range]
    <2>1. token.global \in Int /\ lsn[range] \in Int /\ lsn'[range] \in Int
      BY RegionsOfTokens DEF ServiceTyped
    <2> QED BY <2>1 DEF ServiceGrows, NotAheadOf
  <1>2. ASSUME NEW g \in DOMAIN token.local
        PROVE  token.local[g] <= progress'[g][range]
    <2>1. g \in Regions /\ token.local[g] \in Int
      BY RegionsOfTokens
    <2>2. progress[g][range] \in Int /\ progress'[g][range] \in Int
      BY <2>1 DEF ServiceTyped
    <2> QED BY <2>1, <2>2 DEF ServiceGrows, NotAheadOf
  <1> QED BY <1>1, <1>2 DEF NotAheadOf

\* Merging two tokens that are not ahead gives one that is not.
LEMMA MergedIsNotAhead ==
    ASSUME NEW this, NEW other, Fits(this), Fits(other), NEW range \in Ranges,
           NotAheadOf(this, range, lsn, progress),
           NotAheadOf(other, range, lsn, progress)
    PROVE  NotAheadOf(Merge(this, other), range, lsn, progress)
  BY DEF Merge, Larger, NotAheadOf

\* Keeping the tokens, and the answers or fewer, while the service grows.
LEMMA GrowthKeepsAheadInv ==
    ASSUME FitInv, FitInv', AheadInv, ServiceGrows, tokens' = tokens,
           \A g \in Regions, r \in Ranges : progress'[g][r] <= lsn'[r],
           \A o \in Ops : \/ op'[o] = op[o] \/ op'[o].pc # "answered"
                          \/ AnswerNotAhead(o)'
    PROVE  AheadInv'
  <1>1. ASSUME NEW r \in Ranges, tokens[current][r] # NoToken
        PROVE  NotAheadOf(tokens[current][r], r, lsn', progress')
    <2>1. Fits(tokens[current][r])
      BY <1>1 DEF FitInv, TokensFit, ServiceTyped
    <2>2. NotAheadOf(tokens[current][r], r, lsn, progress)
      BY <1>1 DEF AheadInv
    <2> QED BY <2>1, <2>2, NotAheadLater DEF FitInv
  <1>2. ASSUME NEW o \in Ops, op'[o] = op[o] PROVE AnswerNotAhead(o)'
    <2>1. SUFFICES ASSUME op[o].pc = "answered"
                   PROVE  /\ op[o].answer.rid <= current
                          /\ op[o].answer.rid = current =>
                             NotAheadOf(op[o].answer.token, op[o].range,
                                        lsn', progress')
      BY <1>2 DEF AnswerNotAhead, ServiceGrows
    <2>2. AnswerNotAhead(o) /\ Fits(op[o].answer.token) /\ op[o].range \in Ranges
      BY <2>1 DEF AheadInv, FitInv, OpFits
    <2> QED BY <2>1, <2>2, NotAheadLater DEF AnswerNotAhead, FitInv
  <1>3. ASSUME NEW o \in Ops PROVE AnswerNotAhead(o)'
    <2>1. CASE op'[o].pc # "answered"
      BY <2>1 DEF AnswerNotAhead
    <2> QED BY <1>2, <2>1
  <1>4. \A i \in Rids, r \in Ranges : i > current' => tokens'[i][r] = NoToken
    BY DEF AheadInv, ServiceGrows
  <1>5. \A r \in Ranges : tokens'[current'][r] # NoToken =>
            NotAheadOf(tokens'[current'][r], r, lsn', progress')
    BY <1>1 DEF ServiceGrows
  <1> QED BY <1>3, <1>4, <1>5 DEF AheadInv

LEMMA QuietServiceKeepsAheadInv ==
    ASSUME FitInv, AheadInv, UNCHANGED <<tokens, serviceVars>>,
           NEW o \in Ops, \A p \in Ops \ {o} : op'[p] = op[p],
           op'[o].pc # "answered" \/ AnswerNotAhead(o)'
    PROVE  AheadInv'
  <1>1. UNCHANGED <<current, lsn, progress>>
    BY DEF serviceVars
  <1>2. ASSUME NEW p \in Ops PROVE AnswerNotAhead(p)'
    <2>1. CASE p = o
      BY <2>1 DEF AnswerNotAhead
    <2>2. CASE p # o
      BY <1>1, <2>2 DEF AheadInv, AnswerNotAhead
    <2> QED BY <2>1, <2>2
  <1> QED BY <1>1, <1>2 DEF AheadInv

\* Dropping tokens.
LEMMA RemovalKeepsAheadInv ==
    ASSUME FitInv, FitInv', AheadInv, UNCHANGED serviceVars, Remove,
           \A o \in Ops : op'[o] = op[o] \/ op'[o].pc # "answered"
    PROVE  AheadInv'
  <1>1. \A i \in Rids, r \in Ranges : tokens'[i][r] \in {tokens[i][r], NoToken}
    BY DEF Remove, NoTokens, FitInv, TokensFit
  <1>2. current \in Rids
    BY DEF FitInv, ServiceTyped
  <1>3. \A i \in Rids, r \in Ranges : i > current => tokens'[i][r] = NoToken
    BY <1>1 DEF AheadInv
  <1>4. \A r \in Ranges : tokens'[current][r] # NoToken =>
            NotAheadOf(tokens'[current][r], r, lsn, progress)
    BY <1>1, <1>2 DEF AheadInv
  <1>5. \A o \in Ops : AnswerNotAhead(o)'
    BY DEF AheadInv, AnswerNotAhead, serviceVars
  <1> QED BY <1>3, <1>4, <1>5 DEF AheadInv, serviceVars

\* An answer of an earlier incarnation goes to that incarnation's tokens.
LEMMA ReceiveKeepsAheadInv ==
    ASSUME FitInv, FitInv', AheadInv, NEW o \in Ops, Receive(o)
    PROVE  AheadInv'
  <1>1. UNCHANGED serviceVars /\ op[o].pc = "answered"
    BY DEF Receive
  <1>2. \A p \in Ops : op'[p] = op[p] \/ op'[p].pc # "answered"
    BY DEF Receive, FitInv, Idle
  <1> DEFINE owner == op[o].answer.rid
             range == op[o].range
             token == op[o].answer.token
             old == tokens[owner][range]
             new == IF old = NoToken THEN token ELSE Merge(old, token)
  <1>3. owner \in Rids /\ range \in Ranges /\ Fits(token) /\ AnswerNotAhead(o)
    BY <1>1 DEF FitInv, OpFits, AheadInv
  <1>4. tokens' = tokens \/ tokens' = [tokens EXCEPT ![owner][range] = new]
    BY DEF Receive, SetToken
  <1>5. CASE tokens' = tokens
    BY <1>1, <1>2, <1>5 DEF AheadInv, AnswerNotAhead, serviceVars
  <1>6. CASE tokens' = [tokens EXCEPT ![owner][range] = new]
    <2>1. owner = current => NotAheadOf(new, range, lsn, progress)
      <3>1. SUFFICES ASSUME owner = current
                     PROVE  NotAheadOf(new, range, lsn, progress)
        OBVIOUS
      <3>2. NotAheadOf(token, range, lsn, progress)
        BY <1>1, <3>1, <1>3 DEF AnswerNotAhead
      <3>3. CASE old # NoToken
        <4>1. Fits(old) /\ NotAheadOf(old, range, lsn, progress)
          BY <1>3, <3>1, <3>3 DEF FitInv, TokensFit, AheadInv
        <4>2. NotAheadOf(Merge(old, token), range, lsn, progress)
          BY <1>3, <3>2, <4>1, MergedIsNotAhead
        <4> QED BY <3>3, <4>2
      <3> QED BY <3>2, <3>3
    <2>2. owner <= current /\ current \in Rids
      BY <1>1, <1>3 DEF AnswerNotAhead, FitInv, ServiceTyped
    <2> HIDE DEF new, token
    <2>3. \A i \in Rids, r \in Ranges :
              tokens'[i][r] = IF i = owner /\ r = range THEN new ELSE tokens[i][r]
      BY <1>3, <1>6 DEF FitInv, TokensFit
    <2> HIDE DEF owner, range, old
    <2>4. \A i \in Rids, r \in Ranges : i > current => tokens'[i][r] = NoToken
      <3>1. \A i \in Rids : i > current => i # owner
        BY <1>3, <2>2 DEF Rids
      <3> QED BY <2>3, <3>1 DEF AheadInv
    <2>5. \A r \in Ranges : tokens'[current][r] # NoToken =>
              NotAheadOf(tokens'[current][r], r, lsn, progress)
      BY <2>1, <2>2, <2>3 DEF AheadInv
    <2>6. \A p \in Ops : AnswerNotAhead(p)'
      BY <1>1, <1>2 DEF AheadInv, AnswerNotAhead, serviceVars
    <2> QED BY <1>1, <2>4, <2>5, <2>6 DEF AheadInv, serviceVars
  <1> QED BY <1>4, <1>5, <1>6

\* What a region answers with is what it has.
LEMMA ServedIsNotAhead ==
    ASSUME version \in Versions, NEW range \in Ranges, NEW global,
           NEW last, NEW now \in [Regions -> [Ranges -> Int]],
           global <= last[range]
    PROVE  NotAheadOf(TokenAt(range, global, now), range, last, now)
  <1>1. RegionsAt[version] \subseteq Regions
    BY ConfigurationAssumption DEF Versions
  <1>2. \A g \in RegionsAt[version] : now[g][range] <= now[g][range]
    BY <1>1
  <1>3. /\ TokenAt(range, global, now).global = global
        /\ TokenAt(range, global, now).local
               = [g \in RegionsAt[version] |-> now[g][range]]
    BY DEF TokenAt
  <1> QED BY <1>2, <1>3 DEF NotAheadOf

LEMMA AnsweredIsNotAhead ==
    ASSUME FitInv, NEW o \in Ops, NEW token, Answer(o, token),
           current' = current,
           NotAheadOf(token, op[o].range, lsn', progress')
    PROVE  /\ AnswerNotAhead(o)'
           /\ \A p \in Ops \ {o} : op'[p] = op[p]
  <1>1. /\ op'[o].answer.rid = current /\ op'[o].answer.token = token
        /\ op'[o].range = op[o].range
        /\ \A p \in Ops \ {o} : op'[p] = op[p]
    BY DEF Answer, FitInv
  <1>2. current \in Int
    BY DEF FitInv, ServiceTyped, Rids
  <1> QED BY <1>1, <1>2 DEF AnswerNotAhead

LEMMA ServeKeepsAheadInv ==
    ASSUME FitInv, FitInv', AheadInv, NEW o \in Ops,
           ServeWrite(o) \/ ServeRead(o)
    PROVE  AheadInv'
  <1>0. /\ version \in Versions
        /\ progress' \in [Regions -> [Ranges -> Int]]
        /\ RegionsAt[version] \subseteq Regions
    BY ConfigurationAssumption DEF FitInv, ServiceTyped, Versions
  <1>1. CASE ServeWrite(o)
    <2> DEFINE range == op[o].range
               next == lsn[range] + 1
    <2>1. range \in Ranges /\ op[o].pc = "sent"
      BY <1>1 DEF ServeWrite, FitInv, OpFits
    <2>2. PICK g \in RegionsAt[version] :
              progress' = [progress EXCEPT ![g][range] = next]
      BY <1>1 DEF ServeWrite
    <2>3. /\ lsn' = [lsn EXCEPT ![range] = next]
          /\ tokens' = tokens /\ current' = current
          /\ Answer(o, TokenAt(range, next, progress'))
      BY <1>1 DEF ServeWrite
    <2>4. /\ next \in Int /\ lsn[range] <= next
          /\ lsn'[range] = next
          /\ \A r \in Ranges \ {range} : lsn'[r] = lsn[r]
      BY <2>1, <2>3 DEF FitInv, ServiceTyped
    <2>5. /\ progress'[g][range] = next
          /\ \A h \in Regions, r \in Ranges :
                 ~(h = g /\ r = range) => progress'[h][r] = progress[h][r]
      BY <1>0, <2>1, <2>2 DEF FitInv, ServiceTyped
    <2>6. next <= next
      BY <2>4
    <2>7. NotAheadOf(TokenAt(range, next, progress'), range, lsn', progress')
      BY <1>0, <2>1, <2>4, <2>6, ServedIsNotAhead
    <2>8. AnswerNotAhead(o)' /\ \A p \in Ops \ {o} : op'[p] = op[p]
      BY <2>3, <2>7, AnsweredIsNotAhead
    <2> HIDE DEF range, next
    <2>9. \A r \in Ranges : /\ lsn[r] \in Int /\ lsn'[r] \in Int
                           /\ lsn[r] <= lsn'[r]
      BY <2>4 DEF FitInv, ServiceTyped
    <2>10. \A h \in Regions, r \in Ranges :
               /\ progress[h][r] \in Int /\ progress[h][r] <= lsn[r]
      BY DEF FitInv, ServiceTyped, AheadInv
    <2>11. \A h \in Regions, r \in Ranges :
               /\ progress[h][r] <= progress'[h][r]
               /\ progress'[h][r] <= lsn'[r]
      <3> SUFFICES ASSUME NEW h \in Regions, NEW r \in Ranges
                   PROVE  /\ progress[h][r] <= progress'[h][r]
                          /\ progress'[h][r] <= lsn'[r]
        OBVIOUS
      <3>1. CASE h = g /\ r = range
        <4>1. progress[h][r] <= lsn[range] /\ progress[h][r] \in Int
              /\ lsn[range] \in Int
          BY <2>9, <2>10, <3>1
        <4> QED BY <4>1, <2>4, <2>5, <2>6, <3>1
      <3>2. CASE ~(h = g /\ r = range)
        BY <2>5, <2>9, <2>10, <3>2
      <3> QED BY <3>1, <3>2
    <2>12. ServiceGrows
      BY <2>3, <2>9, <2>11 DEF ServiceGrows
    <2> QED BY <2>3, <2>8, <2>11, <2>12, GrowthKeepsAheadInv
  <1>2. CASE ServeRead(o)
    <2>1. UNCHANGED <<tokens, serviceVars>>
      BY <1>2 DEF ServeRead
    <2>2. op[o].range \in Ranges
      BY <1>2 DEF ServeRead, FitInv, OpFits
    <2>3. PICK g \in RegionsAt[version] :
              \/ Answer(o, TokenAt(op[o].range, progress[g][op[o].range],
                                   progress))
              \/ op' = [op EXCEPT ![o].pc = "refused"]
      BY <1>2 DEF ServeRead
    <2>4. progress[g][op[o].range] <= lsn[op[o].range]
      BY <1>0, <2>2 DEF AheadInv
    <2>5. progress' = progress /\ lsn' = lsn /\ current' = current
      BY <2>1 DEF serviceVars
    <2>6. CASE Answer(o, TokenAt(op[o].range, progress[g][op[o].range],
                                 progress))
      <3>1. NotAheadOf(TokenAt(op[o].range, progress[g][op[o].range], progress),
                       op[o].range, lsn, progress)
        BY <1>0, <2>2, <2>4, <2>5, ServedIsNotAhead
      <3>2. AnswerNotAhead(o)' /\ \A p \in Ops \ {o} : op'[p] = op[p]
        BY <2>5, <2>6, <3>1, AnsweredIsNotAhead
      <3> QED BY <2>1, <3>2, QuietServiceKeepsAheadInv
    <2>7. CASE op' = [op EXCEPT ![o].pc = "refused"]
      <3>1. "pc" \in DOMAIN op[o]
        BY DEF FitInv, OpFits
      <3>2. op'[o].pc = "refused" /\ \A p \in Ops \ {o} : op'[p] = op[p]
        BY <2>7, <3>1 DEF FitInv
      <3> QED BY <2>1, <3>2, QuietServiceKeepsAheadInv
    <2> QED BY <2>3, <2>6, <2>7
  <1> QED BY <1>1, <1>2

LEMMA OthersKeepAheadInv ==
    ASSUME FitInv, FitInv', AheadInv,
           Replicate \/ Reconfigure \/ OthersRecreate
               \/ \E o \in Ops : ServeDelete(o)
    PROVE  AheadInv'
  <1>1. CASE Replicate
    <2>1. PICK g \in RegionsAt[version], range \in Ranges :
              /\ progress[g][range] < lsn[range]
              /\ progress' = [progress EXCEPT ![g][range] = lsn[range]]
      BY <1>1 DEF Replicate
    <2>2. g \in Regions
      BY ConfigurationAssumption DEF FitInv, ServiceTyped, Versions
    <2>3. UNCHANGED <<tokens, op, current, lsn>>
      BY <1>1 DEF Replicate, clientVars
    <2>4. \A h \in Regions, r \in Ranges :
              progress'[h][r] = IF h = g /\ r = range THEN lsn[range]
                                                       ELSE progress[h][r]
      BY <2>1, <2>2 DEF FitInv, ServiceTyped
    <2>5. \A h \in Regions, r \in Ranges :
              /\ progress[h][r] \in Int /\ lsn[r] \in Int
              /\ progress[h][r] <= lsn[r]
      BY DEF FitInv, ServiceTyped, AheadInv
    <2>6. \A h \in Regions, r \in Ranges :
              progress[h][r] <= progress'[h][r] /\ progress'[h][r] <= lsn'[r]
      BY <2>3, <2>4, <2>5
    <2>7. \A r \in Ranges : lsn[r] <= lsn'[r]
      BY <2>3 DEF FitInv, ServiceTyped
    <2> QED BY <2>3, <2>6, <2>7, GrowthKeepsAheadInv DEF ServiceGrows
  <1>2. CASE Reconfigure
    BY <1>2 DEF Reconfigure, clientVars, AheadInv, AnswerNotAhead
  <1>3. ASSUME Recreate,
               \A o \in Ops : op'[o] = op[o] \/ op'[o].pc # "answered"
        PROVE  AheadInv'
    <2>1. /\ current \in Int /\ current' = current + 1 /\ current' \in Rids
          /\ tokens' = tokens
          /\ progress' = [g \in Regions |-> [r \in Ranges |-> 0]]
          /\ lsn' = [r \in Ranges |-> 0]
      BY <1>3 DEF Recreate, FitInv, ServiceTyped, Rids
    <2>2. \A r \in Ranges : tokens'[current'][r] = NoToken
      BY <2>1 DEF AheadInv
    <2>3. \A i \in Rids, r \in Ranges : i > current' => tokens'[i][r] = NoToken
      <3>1. \A i \in Rids : i > current' => i > current
        BY <2>1 DEF Rids
      <3> QED BY <2>1, <3>1 DEF AheadInv
    <2>4. ASSUME NEW o \in Ops PROVE AnswerNotAhead(o)'
      <3>1. CASE op'[o].pc # "answered"
        BY <3>1 DEF AnswerNotAhead
      <3>2. CASE op'[o] = op[o] /\ op[o].pc = "answered"
        <4>1. op[o].answer.rid <= current /\ op[o].answer.rid \in Int
          BY <3>2 DEF AheadInv, AnswerNotAhead, FitInv, OpFits, Rids
        <4>2. op'[o].answer.rid < current'
          BY <2>1, <3>2, <4>1
        <4> QED BY <2>1, <3>2, <4>1, <4>2 DEF AnswerNotAhead
      <3> QED BY <1>3, <3>1, <3>2
    <2>5. \A g \in Regions, r \in Ranges : progress'[g][r] <= lsn'[r]
      BY <2>1
    <2> QED BY <2>2, <2>3, <2>4, <2>5 DEF AheadInv
  <1>4. CASE OthersRecreate
    BY <1>3, <1>4 DEF OthersRecreate
  <1>5. ASSUME NEW o \in Ops, ServeDelete(o) PROVE AheadInv'
    BY <1>3, <1>5 DEF ServeDelete, FitInv
  <1> QED BY <1>1, <1>2, <1>4, <1>5

LEMMA RequestKeepsAheadInv ==
    ASSUME FitInv, FitInv', AheadInv, NEW o \in Ops,
           \/ \E range \in Ranges, kind \in Kinds : Begin(o, range, kind)
           \/ Retry(o)
           \/ Deleted(o)
    PROVE  AheadInv'
  <1>1. UNCHANGED serviceVars /\ (tokens' = tokens \/ Remove)
    BY DEF Begin, Retry, Deleted
  <1>2. "pc" \in DOMAIN op[o]
    BY DEF FitInv, OpFits
  <1>3. op'[o].pc # "answered" /\ \A p \in Ops \ {o} : op'[p] = op[p]
    <2>1. CASE \E range \in Ranges, kind \in Kinds : Begin(o, range, kind)
      BY <2>1 DEF Begin, FitInv
    <2>2. CASE op' = [op EXCEPT ![o].pc = "sent", ![o].retries = @ + 1]
      BY <1>2, <2>2 DEF FitInv
    <2>3. CASE op' = [op EXCEPT ![o] = Idle]
      BY <2>3 DEF FitInv, Idle
    <2> QED BY <2>1, <2>2, <2>3 DEF Retry, Deleted
  <1>4. CASE Remove
    BY <1>1, <1>3, <1>4, RemovalKeepsAheadInv
  <1>5. CASE tokens' = tokens
    BY <1>1, <1>3, <1>5, QuietServiceKeepsAheadInv
  <1> QED BY <1>1, <1>4, <1>5

LEMMA StepKeepsAheadInv ==
    FitInv /\ FitInv' /\ AheadInv /\ [Next]_vars => AheadInv'
  <1> SUFFICES ASSUME FitInv, FitInv', AheadInv, [Next]_vars PROVE AheadInv'
    OBVIOUS
  <1>1. CASE UNCHANGED vars
    BY <1>1 DEF vars, clientVars, serviceVars, AheadInv, AnswerNotAhead
  <1>2. CASE Next
    BY <1>2, RequestKeepsAheadInv, ReceiveKeepsAheadInv, ServeKeepsAheadInv,
       OthersKeepAheadInv DEF Next, read, write, delete, Kinds
  <1> QED BY <1>1, <1>2

LEMMA InitIsBehind == Init => AheadInv
  <1> SUFFICES ASSUME Init PROVE AheadInv
    OBVIOUS
  <1>1. current \in Rids
    BY BoundAssumption DEF Init, Rids
  <1>2. \A i \in Rids, r \in Ranges : tokens[i][r] = NoToken
    BY DEF Init, NoTokens
  <1>3. \A o \in Ops : AnswerNotAhead(o)
    BY DEF Init, AnswerNotAhead, Idle
  <1>4. \A g \in Regions, r \in Ranges : progress[g][r] <= lsn[r]
    BY DEF Init
  <1> QED BY <1>1, <1>2, <1>3, <1>4 DEF AheadInv

LEMMA AheadInvariant == Spec => []AheadInv
  BY InitIsBehind, FitInvariant, StepKeepsAheadInv, PTL DEF Spec

\* No token claims progress the service has not made, over all delays of answers,
\* changes of the regions and new containers of the same name.
THEOREM TokensStayBehind == Spec => []TokensNotAhead
  BY AheadInvariant, AheadInvImpliesTokensNotAhead, PTL

-----------------------------------------------------------------------------
(* Reads see what the client was answered with *)

\* What the client was answered with is in the tokens, unless they were dropped.
AckedInTokens(i, r) ==
    \/ acked[i][r] = 0
    \/ /\ tokens[i][r] # NoToken
       /\ acked[i][r] <= tokens[i][r].global

\* A request under way carries, if it knew the container, what covers its floor.
RequestCovers(o) ==
    op[o].pc \in {"sent", "refused"} =>
        /\ {"pc", "header", "floor", "floorRid", "known"} \subseteq DOMAIN op[o]
        /\ op[o].floor \in Int
        /\ op[o].floorRid \in Rids
        /\ op[o].floorRid <= current
        /\ op[o].floorRid = current => op[o].floor <= lsn[op[o].range]
        /\ op[o].known =>
               \/ op[o].floor = 0
               \/ /\ op[o].header # NoToken
                  /\ op[o].header.global \in Int
                  /\ op[o].floor <= op[o].header.global

AnswerIsFresh(o) ==
    op[o].pc = "answered" =>
        /\ op[o].answer.token # NoToken
        /\ op[o].known => Fresh(o)

AckedTyped ==
    /\ acked \in [Rids -> [Ranges -> Nat]]
    /\ rid \in Rids \cup {Absent}
    /\ rid = Absent => \A i \in Rids, r \in Ranges : acked[i][r] = 0
    /\ \A i \in Rids, r \in Ranges : AckedInTokens(i, r)

Progressing ==
    \A r \in Ranges : 0 <= lsn[r] /\ \A g \in Regions : 0 <= progress[g][r]

ReadInv ==
    /\ AckedTyped
    /\ Progressing
    /\ \A o \in Ops : RequestCovers(o) /\ AnswerIsFresh(o)

LEMMA ReadInvImpliesReadYourWrites == ReadInv => ReadYourWritesOfKnown
  BY DEF ReadInv, AnswerIsFresh, ReadYourWritesOfKnown

\* What the live container acknowledged it has.
LEMMA AckedIsCommitted ==
    ASSUME FitInv, AheadInv, ReadInv, NEW r \in Ranges
    PROVE  acked[current][r] \in Nat /\ acked[current][r] <= lsn[r]
  <1>1. /\ current \in Rids /\ lsn[r] \in Int /\ 0 <= lsn[r]
        /\ acked[current][r] \in Nat
    BY DEF FitInv, ServiceTyped, ReadInv, AckedTyped, Progressing
  <1>2. CASE acked[current][r] = 0
    BY <1>1, <1>2
  <1>3. CASE /\ tokens[current][r] # NoToken
             /\ acked[current][r] <= tokens[current][r].global
    <2>1. /\ tokens[current][r].global \in Int
          /\ tokens[current][r].global <= lsn[r]
      BY <1>1, <1>3 DEF FitInv, TokensFit, Fits, AheadInv, NotAheadOf
    <2> QED BY <1>1, <1>3, <2>1
  <1> QED BY <1>1, <1>2, <1>3 DEF ReadInv, AckedTyped, AckedInTokens

\* A step of one operation that leaves the service where it is.
LEMMA OneOpKeepsReadInv ==
    ASSUME ReadInv, AckedTyped', UNCHANGED serviceVars, NEW o \in Ops,
           \A p \in Ops \ {o} : op'[p] = op[p],
           RequestCovers(o)', AnswerIsFresh(o)'
    PROVE  ReadInv'
  <1>1. UNCHANGED <<current, lsn, progress>>
    BY DEF serviceVars
  <1>2. Progressing'
    BY <1>1 DEF ReadInv, Progressing
  <1>3. ASSUME NEW p \in Ops \ {o} PROVE RequestCovers(p)' /\ AnswerIsFresh(p)'
    BY <1>1 DEF ReadInv, RequestCovers, AnswerIsFresh, Fresh
  <1> QED BY <1>2, <1>3 DEF ReadInv

LEMMA BeginKeepsReadInv ==
    ASSUME FitInv, AheadInv, ReadInv, NEW o \in Ops, NEW range \in Ranges,
           NEW kind \in Kinds, Begin(o, range, kind)
    PROVE  ReadInv'
  <1> DEFINE known == rid \in {Absent, current}
             new == [pc |-> "sent", range |-> range, kind |-> kind,
                     header |-> TokenFor(range), retries |-> 0,
                     floor |-> acked[current][range], floorRid |-> current,
                     known |-> known]
  <1>1. op' = [op EXCEPT ![o] = new] /\ UNCHANGED <<rid, tokens, serviceVars, acked>>
    BY DEF Begin
  <1>2. op'[o] = new /\ \A p \in Ops \ {o} : op'[p] = op[p]
    BY <1>1 DEF FitInv
  <1>3. /\ op'[o].pc = "sent" /\ op'[o].range = range
        /\ op'[o].header = TokenFor(range)
        /\ op'[o].floor = acked[current][range] /\ op'[o].floorRid = current
        /\ op'[o].known = known
        /\ {"pc", "header", "floor", "floorRid", "known"} \subseteq DOMAIN op'[o]
    <2> HIDE DEF known
    <2> QED BY <1>2
  <1> HIDE DEF new
  <1>4. acked[current][range] \in Nat /\ acked[current][range] <= lsn[range]
    BY AckedIsCommitted
  <1>5. current \in Rids /\ current <= current
    BY DEF FitInv, ServiceTyped, Rids
  <1>6. known =>
            \/ acked[current][range] = 0
            \/ /\ TokenFor(range) # NoToken /\ TokenFor(range).global \in Int
               /\ acked[current][range] <= TokenFor(range).global
    <2>1. AckedInTokens(current, range)
      BY <1>5 DEF ReadInv, AckedTyped
    <2>2. CASE rid = Absent
      BY <1>5, <2>2 DEF ReadInv, AckedTyped
    <2>3. CASE rid = current /\ rid # Absent
      <3>1. TokenFor(range) = tokens[current][range]
        BY <2>3 DEF TokenFor
      <3> QED BY <1>5, <2>1, <3>1 DEF AckedInTokens, FitInv, TokensFit, Fits
    <2> QED BY <2>2, <2>3
  <1>7. UNCHANGED <<current, lsn>>
    BY <1>1 DEF serviceVars
  <1> HIDE DEF known
  <1>8. RequestCovers(o)'
    BY <1>3, <1>4, <1>5, <1>6, <1>7 DEF RequestCovers
  <1>9. AnswerIsFresh(o)'
    BY <1>3 DEF AnswerIsFresh
  <1>10. AckedTyped'
    BY <1>1 DEF ReadInv, AckedTyped, AckedInTokens
  <1> QED BY <1>1, <1>2, <1>8, <1>9, <1>10, OneOpKeepsReadInv

LEMMA RemoveKeepsAckedTyped ==
    ASSUME AckedTyped, Remove
    PROVE  AckedTyped'
  <1>1. rid' = Absent /\ acked' = [i \in Rids |-> [r \in Ranges |-> 0]]
    BY DEF Remove
  <1> QED BY <1>1 DEF AckedTyped, AckedInTokens

LEMMA RetryKeepsReadInv ==
    ASSUME FitInv, ReadInv, NEW o \in Ops, Retry(o) \/ Deleted(o)
    PROVE  ReadInv'
  <1>1. UNCHANGED serviceVars
    BY DEF Retry, Deleted
  <1>2. AckedTyped'
    <2>1. CASE Remove
      BY <2>1, RemoveKeepsAckedTyped DEF ReadInv
    <2>2. CASE UNCHANGED <<rid, tokens, acked>>
      BY <2>2 DEF ReadInv, AckedTyped, AckedInTokens
    <2> QED BY <2>1, <2>2 DEF Retry, Deleted
  <1>3. CASE op' = [op EXCEPT ![o] = Idle]
    <2>1. op'[o].pc = "idle" /\ \A p \in Ops \ {o} : op'[p] = op[p]
      BY <1>3 DEF FitInv, Idle
    <2>2. RequestCovers(o)' /\ AnswerIsFresh(o)'
      BY <2>1 DEF RequestCovers, AnswerIsFresh
    <2> QED BY <1>1, <1>2, <2>1, <2>2, OneOpKeepsReadInv
  <1>4. CASE /\ op[o].pc = "refused"
             /\ op' = [op EXCEPT ![o].pc = "sent", ![o].retries = @ + 1]
    <2> DEFINE new == [op[o] EXCEPT !.pc = "sent", !.retries = op[o].retries + 1]
    <2>1. RequestCovers(o) /\ {"pc", "range", "retries"} \subseteq DOMAIN op[o]
      BY <1>4 DEF ReadInv, FitInv, OpFits
    <2>2. op' = [op EXCEPT ![o] = new]
      BY <1>4, <2>1 DEF FitInv
    <2>3. op'[o] = new /\ \A p \in Ops \ {o} : op'[p] = op[p]
      BY <2>2 DEF FitInv
    <2>4. {"pc", "header", "floor", "floorRid", "known"} \subseteq DOMAIN op[o]
      BY <1>4, <2>1 DEF RequestCovers
    <2>5. /\ op'[o].pc = "sent" /\ op'[o].range = op[o].range
          /\ op'[o].header = op[o].header /\ op'[o].floor = op[o].floor
          /\ op'[o].floorRid = op[o].floorRid /\ op'[o].known = op[o].known
          /\ DOMAIN op'[o] = DOMAIN op[o]
      BY <2>1, <2>3, <2>4
    <2> HIDE DEF new
    <2>6. RequestCovers(o)'
      BY <1>1, <1>4, <2>1, <2>5 DEF RequestCovers, serviceVars
    <2>7. AnswerIsFresh(o)'
      BY <2>5 DEF AnswerIsFresh
    <2> QED BY <1>1, <1>2, <2>3, <2>6, <2>7, OneOpKeepsReadInv
  <1> QED BY <1>3, <1>4 DEF Retry, Deleted

\* A token of a configuration is one.
LEMMA TokenIsNotNone ==
    ASSUME NEW v \in Versions, NEW global \in Int,
           NEW local \in [RegionsAt[v] -> Int]
    PROVE  [version |-> v, global |-> global, local |-> local] # NoToken
  BY NoTokenAssumption

LEMMA MergedCovers ==
    ASSUME NEW this, NEW other, Fits(this), Fits(other)
    PROVE  /\ Merge(this, other).global \in Int
           /\ this.global <= Merge(this, other).global
           /\ other.global <= Merge(this, other).global
           /\ Merge(this, other) # NoToken
  <1> DEFINE merged == Merge(this, other)
  <1>1. /\ merged.global = Larger(this.global, other.global)
        /\ merged = [version |-> merged.version, global |-> merged.global,
                     local |-> merged.local]
    BY DEF Merge
  <1>2. /\ merged.version \in Versions /\ merged.global \in Int
        /\ merged.local \in [RegionsAt[merged.version] -> Int]
    BY MergedTokenFits DEF Fits
  <1> HIDE DEF merged
  <1>3. merged # NoToken
    BY <1>1, <1>2, TokenIsNotNone
  <1>4. this.global <= merged.global /\ other.global <= merged.global
    BY <1>1 DEF Fits, Larger
  <1> QED BY <1>2, <1>3, <1>4 DEF merged

\* What is acknowledged now is in the token that is kept.
LEMMA CaptureKeepsReadInv ==
    ASSUME FitInv, ReadInv, NEW o \in Ops, Receive(o)
    PROVE  ReadInv'
  <1> DEFINE owner == op[o].answer.rid
             range == op[o].range
             token == op[o].answer.token
             old == tokens[owner][range]
             new == IF old = NoToken THEN token ELSE Merge(old, token)
             ack == Larger(acked[owner][range], token.global)
  <1>1. /\ owner \in Rids /\ range \in Ranges /\ Fits(token)
        /\ UNCHANGED serviceVars
    BY DEF Receive, FitInv, OpFits
  <1>2. op'[o].pc = "idle" /\ \A p \in Ops \ {o} : op'[p] = op[p]
    BY DEF Receive, FitInv, Idle
  <1>3. RequestCovers(o)' /\ AnswerIsFresh(o)'
    BY <1>2 DEF RequestCovers, AnswerIsFresh
  <1>4. CASE UNCHANGED <<rid, tokens, acked>>
    <2>1. AckedTyped'
      BY <1>4 DEF ReadInv, AckedTyped, AckedInTokens
    <2> QED BY <1>1, <1>2, <1>3, <2>1, OneOpKeepsReadInv
  <1>5. CASE /\ SetToken(owner, range, token)
             /\ acked' = [acked EXCEPT ![owner][range] = Larger(@, token.global)]
    <2>1. /\ rid' = IF rid = Absent THEN owner ELSE rid
          /\ tokens' = [tokens EXCEPT ![owner][range] = new]
      BY <1>5 DEF SetToken
    <2>2. /\ acked \in [Rids -> [Ranges -> Nat]]
          /\ AckedInTokens(owner, range)
      BY <1>1 DEF ReadInv, AckedTyped
    <2>3. token.global \in Int /\ acked[owner][range] \in Nat
      BY <1>1, <2>2 DEF Fits
    <2>4. ack \in Nat /\ (ack = acked[owner][range] \/ ack = token.global)
      BY <2>3 DEF Larger
    <2>5. ack = 0 \/ (new # NoToken /\ ack <= new.global)
      <3>1. CASE old = NoToken
        <4>1. acked[owner][range] = 0
          BY <2>2, <3>1 DEF AckedInTokens
        <4>2. new = token
          BY <3>1
        <4>3. ack = 0 \/ ack = token.global
          BY <2>4, <4>1
        <4>4. token # NoToken \/ ack = 0
          BY DEF Receive, ReadInv, AnswerIsFresh
        <4> QED BY <2>3, <4>2, <4>3, <4>4
      <3>2. CASE old # NoToken
        <4>1. Fits(old)
          BY <1>1, <3>2 DEF FitInv, TokensFit
        <4>2. /\ new = Merge(old, token)
              /\ Merge(old, token).global \in Int
              /\ old.global <= Merge(old, token).global
              /\ token.global <= Merge(old, token).global
              /\ Merge(old, token) # NoToken
          BY <1>1, <3>2, <4>1, MergedCovers
        <4>3. acked[owner][range] = 0 \/ acked[owner][range] <= old.global
          BY <2>2 DEF AckedInTokens
        <4>4. old.global \in Int
          BY <4>1 DEF Fits
        <4>5. ack = 0 \/ ack <= Merge(old, token).global
          <5> HIDE DEF owner, range, old, ack, token
          <5> QED BY <2>3, <2>4, <4>2, <4>3, <4>4
        <4> QED BY <4>2, <4>5
      <3> QED BY <3>1, <3>2
    <2> HIDE DEF ack, new
    <2>6. /\ acked' = [acked EXCEPT ![owner] = [acked[owner] EXCEPT ![range] = ack]]
          /\ acked' \in [Rids -> [Ranges -> Nat]]
      <3>1. acked' = [acked EXCEPT ![owner] = [acked[owner] EXCEPT ![range] = ack]]
        BY <1>5 DEF ack
      <3>2. [acked[owner] EXCEPT ![range] = ack] \in [Ranges -> Nat]
        BY <1>1, <2>2, <2>4
      <3> HIDE DEF owner, range
      <3> QED BY <1>1, <2>2, <3>1, <3>2
    <2>7. \A i \in Rids, r \in Ranges :
              /\ tokens'[i][r] = IF i = owner /\ r = range THEN new
                                                           ELSE tokens[i][r]
              /\ acked'[i][r] = IF i = owner /\ r = range THEN ack
                                                          ELSE acked[i][r]
      <3> HIDE DEF owner, range
      <3> QED BY <1>1, <2>1, <2>2, <2>6 DEF FitInv, TokensFit
    <2>8. \A i \in Rids, r \in Ranges : AckedInTokens(i, r)'
      <3> HIDE DEF owner, range
      <3> QED BY <2>5, <2>7 DEF ReadInv, AckedTyped, AckedInTokens
    <2>9. rid' \in Rids /\ rid' # Absent
      <3> HIDE DEF owner, range
      <3> QED BY <1>1, <2>1 DEF ReadInv, AckedTyped, Rids, Absent
    <2>10. AckedTyped'
      BY <2>6, <2>8, <2>9 DEF AckedTyped
    <2> QED BY <1>1, <1>2, <1>3, <2>10, OneOpKeepsReadInv
  <1> QED BY <1>4, <1>5 DEF Receive

\* The service goes on: what requests were to see stays committed, or was of a
\* container that is gone.
LEMMA ServiceKeepsReadInv ==
    ASSUME FitInv, ReadInv, UNCHANGED <<rid, tokens, acked>>, Progressing',
           current \in Int, current' \in Int,
           \/ current' = current /\ \A r \in Ranges : lsn[r] <= lsn'[r]
           \/ current' > current,
           lsn' \in [Ranges -> Int],
           \A p \in Ops : \/ op'[p] = op[p]
                          \/ RequestCovers(p)' /\ AnswerIsFresh(p)'
    PROVE  ReadInv'
  <1>1. AckedTyped'
    BY DEF ReadInv, AckedTyped, AckedInTokens
  <1>2. ASSUME NEW p \in Ops, op'[p] = op[p]
        PROVE  RequestCovers(p)' /\ AnswerIsFresh(p)'
    <2>1. AnswerIsFresh(p)'
      BY <1>2 DEF ReadInv, AnswerIsFresh, Fresh
    <2>2. CASE op[p].pc \in {"sent", "refused"}
      <3>1. RequestCovers(p) /\ op[p].range \in Ranges
        BY <2>2 DEF ReadInv, FitInv, OpFits
      <3>2. /\ op[p].floor \in Int /\ op[p].floorRid \in Int
            /\ op[p].floorRid <= current
            /\ op[p].floorRid = current => op[p].floor <= lsn[op[p].range]
        BY <2>2, <3>1 DEF RequestCovers, Rids
      <3>3. lsn[op[p].range] \in Int /\ lsn'[op[p].range] \in Int
        BY <3>1 DEF FitInv, ServiceTyped
      <3>4. /\ op[p].floorRid <= current'
            /\ op[p].floorRid = current' => op[p].floor <= lsn'[op[p].range]
        BY <3>1, <3>2, <3>3
      <3> QED BY <1>2, <2>1, <3>1, <3>4 DEF RequestCovers
    <2> QED BY <1>2, <2>1, <2>2 DEF RequestCovers
  <1> QED BY <1>1, <1>2 DEF ReadInv

\* An answer is no older than what its request had to see.
LEMMA AnswerIsFreshEnough ==
    ASSUME FitInv, ReadInv, NEW o \in Ops, op[o].pc = "sent",
           NEW token, token # NoToken, Answer(o, token),
           op[o].known /\ op[o].floorRid = current
               => token.global >= op[o].floor
    PROVE  /\ RequestCovers(o)' /\ AnswerIsFresh(o)'
           /\ \A p \in Ops \ {o} : op'[p] = op[p]
  <1> DEFINE new == [pc |-> "answered", range |-> op[o].range,
                     floor |-> op[o].floor, floorRid |-> op[o].floorRid,
                     known |-> op[o].known,
                     answer |-> [rid |-> current, token |-> token]]
  <1>1. op' = [op EXCEPT ![o] = new]
    BY DEF Answer
  <1>2. op'[o] = new /\ \A p \in Ops \ {o} : op'[p] = op[p]
    BY <1>1 DEF FitInv
  <1>3. /\ op'[o].pc = "answered" /\ op'[o].answer.token = token
        /\ op'[o].answer.rid = current /\ op'[o].known = op[o].known
        /\ op'[o].floor = op[o].floor /\ op'[o].floorRid = op[o].floorRid
    BY <1>2
  <1> HIDE DEF new
  <1>4. RequestCovers(o)'
    BY <1>3 DEF RequestCovers
  <1>5. AnswerIsFresh(o)'
    BY <1>3 DEF AnswerIsFresh, Fresh
  <1> QED BY <1>2, <1>4, <1>5

LEMMA ServiceTokenIsNotNone ==
    ASSUME FitInv, NEW range \in Ranges, NEW global \in Int,
           NEW now \in [Regions -> [Ranges -> Int]]
    PROVE  /\ TokenAt(range, global, now) # NoToken
           /\ TokenAt(range, global, now).global = global
  <1>1. RegionsAt[version] \subseteq Regions
    BY ConfigurationAssumption DEF FitInv, ServiceTyped, Versions
  <1>2. [g \in RegionsAt[version] |-> now[g][range]]
            \in [RegionsAt[version] -> Int]
    BY <1>1
  <1> QED BY <1>2, TokenIsNotNone DEF TokenAt, FitInv, ServiceTyped

LEMMA ServeReadKeepsReadInv ==
    ASSUME FitInv, FitInv', ReadInv, NEW o \in Ops, ServeRead(o)
    PROVE  ReadInv'
  <1> DEFINE range == op[o].range
  <1>1. /\ op[o].pc = "sent" /\ range \in Ranges
        /\ {"pc", "range", "retries"} \subseteq DOMAIN op[o]
        /\ UNCHANGED <<rid, tokens, serviceVars, acked>>
    BY DEF ServeRead, FitInv, OpFits
  <1>2. PICK g \in RegionsAt[version] :
            IF Covers(g, range, op[o].header)
            THEN Answer(o, TokenAt(range, progress[g][range], progress))
            ELSE op' = [op EXCEPT ![o].pc = "refused"]
    BY DEF ServeRead
  <1>3. g \in Regions /\ progress \in [Regions -> [Ranges -> Int]]
    BY ConfigurationAssumption DEF FitInv, ServiceTyped, Versions
  <1>4. RequestCovers(o) /\ Progressing
    BY DEF ReadInv
  <1>5. /\ RequestCovers(o)' /\ AnswerIsFresh(o)'
        /\ \A p \in Ops \ {o} : op'[p] = op[p]
    <2>1. CASE Covers(g, range, op[o].header)
      <3> DEFINE token == TokenAt(range, progress[g][range], progress)
      <3>1. progress[g][range] \in Int /\ 0 <= progress[g][range]
        BY <1>1, <1>3, <1>4 DEF Progressing
      <3>2. token # NoToken /\ token.global = progress[g][range]
        BY <1>1, <1>3, <3>1, ServiceTokenIsNotNone
      <3>3. Answer(o, token)
        BY <1>2, <2>1
      <3> HIDE DEF token
      <3>4. op[o].known => progress[g][range] >= op[o].floor
        <4> HIDE DEF range
        <4> QED BY <1>1, <1>4, <2>1, <3>1 DEF RequestCovers, Covers
      <3> QED BY <1>1, <3>2, <3>3, <3>4, AnswerIsFreshEnough
    <2>2. CASE op' = [op EXCEPT ![o].pc = "refused"]
      <3> DEFINE new == [op[o] EXCEPT !.pc = "refused"]
      <3>1. op' = [op EXCEPT ![o] = new]
        BY <2>2
      <3>2. op'[o] = new /\ \A p \in Ops \ {o} : op'[p] = op[p]
        BY <3>1 DEF FitInv
      <3>3. {"pc", "header", "floor", "floorRid", "known"} \subseteq DOMAIN op[o]
        BY <1>1, <1>4 DEF RequestCovers
      <3>4. /\ op'[o].pc = "refused" /\ op'[o].range = op[o].range
            /\ op'[o].header = op[o].header /\ op'[o].floor = op[o].floor
            /\ op'[o].floorRid = op[o].floorRid /\ op'[o].known = op[o].known
            /\ DOMAIN op'[o] = DOMAIN op[o]
        BY <1>1, <3>2, <3>3
      <3> HIDE DEF new, range
      <3> QED BY <1>1, <1>4, <3>2, <3>4
              DEF RequestCovers, AnswerIsFresh, serviceVars
    <2> QED BY <1>2, <2>1, <2>2
  <1>6. AckedTyped'
    BY <1>1 DEF ReadInv, AckedTyped, AckedInTokens
  <1> QED BY <1>1, <1>5, <1>6, OneOpKeepsReadInv

LEMMA ServeWriteKeepsReadInv ==
    ASSUME FitInv, FitInv', ReadInv, NEW o \in Ops, ServeWrite(o)
    PROVE  ReadInv'
  <1> DEFINE range == op[o].range
             next == lsn[range] + 1
             token == TokenAt(range, next, progress')
  <1>1. /\ op[o].pc = "sent" /\ range \in Ranges
        /\ lsn \in [Ranges -> Int] /\ progress \in [Regions -> [Ranges -> Int]]
        /\ lsn' \in [Ranges -> Int]
        /\ progress' \in [Regions -> [Ranges -> Int]]
        /\ current \in Int
    BY DEF ServeWrite, FitInv, OpFits, ServiceTyped, Rids
  <1>2. /\ lsn' = [lsn EXCEPT ![range] = next]
        /\ Answer(o, token) /\ UNCHANGED <<rid, tokens, current, version, acked>>
    BY DEF ServeWrite
  <1>3. PICK g \in RegionsAt[version] :
            progress' = [progress EXCEPT ![g][range] = next]
    BY DEF ServeWrite
  <1>4. g \in Regions
    BY ConfigurationAssumption DEF FitInv, ServiceTyped, Versions
  <1>5. RequestCovers(o) /\ Progressing
    BY DEF ReadInv
  <1>6. next \in Int /\ 0 <= next
    BY <1>1, <1>5 DEF Progressing
  <1>7. token # NoToken /\ token.global = next
    BY <1>1, <1>6, ServiceTokenIsNotNone
  <1> HIDE DEF token
  <1>8. op[o].known /\ op[o].floorRid = current => token.global >= op[o].floor
    BY <1>1, <1>5, <1>7 DEF RequestCovers
  <1>9. /\ RequestCovers(o)' /\ AnswerIsFresh(o)'
        /\ \A p \in Ops \ {o} : op'[p] = op[p]
    BY <1>1, <1>2, <1>7, <1>8, AnswerIsFreshEnough
  <1>10. \A r \in Ranges : lsn'[r] = IF r = range THEN next ELSE lsn[r]
    BY <1>1, <1>2
  <1>11. \A h \in Regions, r \in Ranges :
            progress'[h][r] = IF h = g /\ r = range THEN next ELSE progress[h][r]
    BY <1>1, <1>3, <1>4
  <1> HIDE DEF range
  <1>12. Progressing'
    BY <1>5, <1>6, <1>10, <1>11 DEF Progressing
  <1>13. \A r \in Ranges : lsn[r] <= lsn'[r]
    BY <1>1, <1>10
  <1> QED BY <1>1, <1>2, <1>9, <1>12, <1>13, ServiceKeepsReadInv

LEMMA OthersKeepReadInv ==
    ASSUME FitInv, FitInv', ReadInv,
           Replicate \/ Reconfigure \/ OthersRecreate
               \/ \E o \in Ops : ServeDelete(o)
    PROVE  ReadInv'
  <1>1. /\ current \in Int /\ current' \in Int
        /\ lsn \in [Ranges -> Int] /\ lsn' \in [Ranges -> Int]
        /\ progress \in [Regions -> [Ranges -> Int]]
    BY DEF FitInv, ServiceTyped, Rids
  <1>2. CASE Replicate
    <2>1. PICK g \in RegionsAt[version], range \in Ranges :
              progress' = [progress EXCEPT ![g][range] = lsn[range]]
      BY <1>2 DEF Replicate
    <2>2. g \in Regions
      BY ConfigurationAssumption DEF FitInv, ServiceTyped, Versions
    <2>3. UNCHANGED <<rid, tokens, op, current, lsn, acked>>
      BY <1>2 DEF Replicate, clientVars
    <2>4. \A h \in Regions, r \in Ranges :
              progress'[h][r] = IF h = g /\ r = range THEN lsn[range]
                                                       ELSE progress[h][r]
      BY <1>1, <2>1, <2>2
    <2>5. Progressing'
      BY <2>3, <2>4 DEF ReadInv, Progressing
    <2> QED BY <1>1, <2>3, <2>5, ServiceKeepsReadInv
  <1>3. CASE Reconfigure
    <2>1. UNCHANGED <<rid, tokens, op, current, progress, lsn, acked>>
      BY <1>3 DEF Reconfigure, clientVars
    <2>2. Progressing'
      BY <2>1 DEF ReadInv, Progressing
    <2> QED BY <1>1, <2>1, <2>2, ServiceKeepsReadInv
  <1>4. ASSUME Recreate,
               \A o \in Ops : op'[o] = op[o] \/ op'[o].pc = "deleted"
        PROVE  ReadInv'
    <2>1. /\ current' = current + 1 /\ UNCHANGED <<rid, tokens, acked>>
          /\ progress' = [g \in Regions |-> [r \in Ranges |-> 0]]
          /\ lsn' = [r \in Ranges |-> 0]
      BY <1>4 DEF Recreate
    <2>2. Progressing' /\ current' > current
      BY <1>1, <2>1 DEF Progressing
    <2>3. \A p \in Ops : \/ op'[p] = op[p]
                         \/ RequestCovers(p)' /\ AnswerIsFresh(p)'
      BY <1>4 DEF RequestCovers, AnswerIsFresh
    <2> QED BY <1>1, <2>1, <2>2, <2>3, ServiceKeepsReadInv
  <1>5. CASE OthersRecreate
    BY <1>4, <1>5 DEF OthersRecreate
  <1>6. ASSUME NEW o \in Ops, ServeDelete(o) PROVE ReadInv'
    BY <1>4, <1>6 DEF ServeDelete, FitInv
  <1> QED BY <1>2, <1>3, <1>5, <1>6

LEMMA StepKeepsReadInv ==
    FitInv /\ FitInv' /\ AheadInv /\ ReadInv /\ [Next]_vars => ReadInv'
  <1> SUFFICES ASSUME FitInv, FitInv', AheadInv, ReadInv, [Next]_vars
               PROVE  ReadInv'
    OBVIOUS
  <1>1. CASE UNCHANGED vars
    BY <1>1 DEF vars, clientVars, serviceVars, ReadInv, AckedTyped,
                AckedInTokens, Progressing, RequestCovers, AnswerIsFresh, Fresh
  <1>2. CASE Next
    BY <1>2, BeginKeepsReadInv, RetryKeepsReadInv, CaptureKeepsReadInv,
       ServeReadKeepsReadInv, ServeWriteKeepsReadInv, OthersKeepReadInv
       DEF Next, read, write, delete, Kinds
  <1> QED BY <1>1, <1>2

\* Reads are monotonic and see the client's writes while the name of the
\* container stands for the live one, however answers overtake each other, are
\* refused and retried, and whatever the regions do.
THEOREM SessionReadsItsWrites == Spec => []ReadYourWritesOfKnown
  <1>1. Init => ReadInv
    BY DEF Init, ReadInv, AckedTyped, AckedInTokens, Progressing,
           RequestCovers, AnswerIsFresh, Idle
  <1> QED BY <1>1, FitInvariant, AheadInvariant, StepKeepsReadInv,
             ReadInvImpliesReadYourWrites, PTL DEF Spec
=============================================================================

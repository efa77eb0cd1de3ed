------------------------ MODULE IndexPipelineProofs ------------------------
(***************************************************************************)
(* Proofs about IndexPipeline for every chain of filters, every list of    *)
(* documents and every capacity of the pipes.  What one document does to   *)
(* the chain is proved in FilterChainProofs; here it is the document the   *)
(* inserter has not yet counted, and the lock says whether there is one.   *)
(***************************************************************************)
EXTENDS IndexPipeline, FilterChainProofs

-----------------------------------------------------------------------------
(* The inductive invariant.                                                *)

\* What is in the chain is of the document that will be counted next.
DocumentInv == \E d \in Nat : d = docCount + 1 /\ ChainInv(d)

\* Only the document that has the lock is in the chain.
LockInv == ~lock => Idle

\* Every document given to Insert is counted, has the lock, or waits for it.
ClientInv ==
    /\ doc = docCount + (IF lock THEN 1 ELSE 0) + (IF pc \in {"insert", "lock"} THEN 1 ELSE 0)
    /\ pc = "push" <=> toPush # <<>>

IndexInv == \A d \in DocIds : index[d] # <<>> => d <= docCount + (IF lock THEN 1 ELSE 0)

Inv == TypeOK /\ DocumentInv /\ LockInv /\ ClientInv /\ IndexInv

LEMMA ConstantFacts ==
    /\ Len(Documents) \in Nat /\ DocIds = 1..Len(Documents)
    /\ N \in Nat \ {0} /\ Capacity \in Nat \ {0}
  BY ChainConstants, DocumentsAssumption, LenProperties DEF DocIds

\* Tokens(): the tokens of d, its Null token last.
LEMMA TokensOfFacts ==
    ASSUME NEW d \in DocIds
    PROVE  Good(TokensOf(d), d) /\ NullLast(TokensOf(d)) /\ TokensOf(d) # <<>>
<1>. DEFINE E == [text : Texts, type : {"text", "symbol"}, phrase : Nat]
            document == Documents[d]
            Make(k) == [doc |-> d, text |-> document[k].text, type |-> document[k].type,
                        phrase |-> document[k].phrase, final |-> FALSE]
            tokens == [k \in DOMAIN document |-> Make(k)]
<1>0. d \in Nat
  BY ConstantFacts
<1>1. /\ document \in Seq(E) /\ Len(document) \in Nat
      /\ DOMAIN document = 1..Len(document)
  <2>1. document \in Seq(E)
    BY DocumentsAssumption, ConstantFacts, ElementOfSeq
  <2>. QED  BY <2>1, LenProperties
<1>2. ASSUME NEW k \in 1..Len(document)
      PROVE  tokens[k] \in Tokens /\ tokens[k].doc = d /\ tokens[k].type # "null"
  <2>1. document[k] \in E
    BY <1>1, ElementOfSeq
  <2>2. tokens[k] = Make(k)
    BY <1>1
  <2>. HIDE DEF document, tokens
  <2>. QED  BY <1>0, <2>1, <2>2 DEF Tokens
<1>3. tokens \in Seq(Tokens) /\ Len(tokens) = Len(document)
  <2>1. tokens \in [1..Len(document) -> Tokens]
    BY <1>1, <1>2
  <2>. QED  BY <1>1, <2>1, SeqDef, LenProperties
<1>4. Good(tokens, d) /\ ~HasNull(tokens)
  <2>. HIDE DEF tokens
  <2>. QED  BY <1>2, <1>3 DEF Good, HasNull
<1>5. NullToken(d) \in Tokens /\ NullToken(d).doc = d
  <2>1. <<"">> \in Texts
    <3>1. \A w \in Words : <<w>> \in Texts
      BY DEF Texts
    <3>2. "" \in Words
      BY WordsAssumption
    <3>. QED  BY <3>1, <3>2
  <2>. QED  BY <1>0, <2>1 DEF NullToken, Tokens
<1>6. TokensOf(d) = Append(tokens, NullToken(d))
  BY DEF TokensOf
<1>. HIDE DEF tokens
<1>. QED  BY <1>4, <1>5, <1>6, AppendFacts

\* What is dropped are tokens.
LEMMA DroppedTypes ==
    ASSUME Inv, NEW i \in 1..N, FilterRuns(i)
    PROVE  dropped' \subseteq {"text", "symbol", "null"}
<1>1. dropped \subseteq {"text", "symbol", "null"}
  BY DEF Inv, TypeOK
<1>2. CASE SendToNobody
  <2>1. held[N] \in Seq(Tokens)
    BY ConstantFacts DEF Inv, TypeOK, ChainTypeOK
  <2>2. \A tok \in ToSet(held[N]) : tok.type \in {"text", "symbol", "null"}
    <3>. SUFFICES ASSUME NEW k \in 1..Len(held[N])
                  PROVE  held[N][k].type \in {"text", "symbol", "null"}
      BY <2>1, LenProperties DEF ToSet
    <3>1. held[N][k] \in Tokens
      BY <2>1, ElementOfSeq
    <3>. QED  BY <3>1 DEF Tokens
  <2>. QED  BY <1>1, <1>2, <2>2 DEF SendToNobody
<1>. QED  BY <1>1, <1>2 DEF FilterRuns, Read, Notify, SendOn, inserterVars

\* The filters' goroutines: the chain keeps to its document, and the lock is
\* held because there was something in the chain.
LEMMA FilterStep ==
    ASSUME Inv, NEW i \in 1..N, FilterRuns(i)
    PROVE  Inv'
<1>1. PICK d \in Nat : d = docCount + 1 /\ ChainInv(d)
  BY DEF Inv, DocumentInv
<1>2. /\ UNCHANGED <<attached, running, inserter, lock, indexVars, pc, doc, panic>>
      /\ toPush' = toPush
  BY DEF FilterRuns, Read, Notify, SendOn, SendToNobody, clientVars, inserterVars, ReadToken,
         NotifyRound, SendToken, DropHeld
<1>3. \A j \in 0..N : Len(pipe[j]) <= Capacity /\ Len(pipe[j]) \in Nat
  BY <1>1, LenProperties DEF Inv, TypeOK, ChainTypeOK
<1>4. /\ ChainInv(d)' /\ ~Idle
      /\ \A j \in 0..N : Len(pipe'[j]) <= Capacity
  <2>1. CASE Read(i)
    <3>1. /\ ChainInv(d)' /\ ~Idle
          /\ \A j \in 0..N : Len(pipe'[j]) \in Nat /\ Len(pipe'[j]) <= Len(pipe[j])
      BY <1>1, <2>1, ReadChain DEF Read
    <3>. QED  BY <1>3, <3>1, ConstantFacts
  <2>2. CASE Notify(i)
    BY <1>1, <1>3, <2>2, NotifyChain DEF Notify
  <2>3. CASE SendOn(i)
    <3>1. /\ ChainInv(d)' /\ ~Idle
          /\ \A j \in 0..N : pipe'[j] = pipe[j] \/ (j = i /\ Len(pipe'[j]) <= Capacity)
      BY <1>1, <2>3, SendChain DEF SendOn
    <3>. QED  BY <1>3, <3>1
  <2>4. CASE SendToNobody
    BY <1>1, <1>3, <2>4, DropChain DEF SendToNobody
  <2>. QED  BY <2>1, <2>2, <2>3, <2>4 DEF FilterRuns
<1>5. DocumentInv' /\ LockInv'
  <2>1. docCount' = docCount /\ lock' = lock
    BY <1>2 DEF indexVars
  <2>. QED  BY <1>1, <1>4, <2>1 DEF DocumentInv, LockInv, Inv
<1>6. ClientInv' /\ IndexInv'
  BY <1>2 DEF Inv, ClientInv, IndexInv, indexVars
<1>7. TypeOK'
  BY <1>2, <1>4, DroppedTypes DEF Inv, TypeOK, ChainInv, indexVars
<1>. QED  BY <1>5, <1>6, <1>7 DEF Inv

\* Push: the next token of the document goes into the first filter's pipe.
LEMMA PushStep ==
    ASSUME Inv, Push
    PROVE  Inv'
<1>1. PICK d \in Nat : d = docCount + 1 /\ ChainInv(d)
  BY DEF Inv, DocumentInv
<1>2. /\ toPush # <<>> /\ toPush' = Tail(toPush) /\ pc = "push"
      /\ pc' = IF Len(toPush) = 1 THEN "stats" ELSE "push"
      /\ UNCHANGED <<inserterVars, lock, indexVars, doc, panic>>
  BY DEF Push, PushToken
<1>3. /\ ChainInv(d)' /\ ~Idle
      /\ \A j \in 0..N : pipe'[j] = pipe[j] \/ (j = 0 /\ Len(pipe'[j]) <= Capacity)
  BY <1>1, PushChain, ConstantFacts DEF Push
<1>4. \A j \in 0..N : Len(pipe'[j]) <= Capacity
  BY <1>3 DEF Inv, TypeOK
<1>5. Len(toPush) = 1 <=> Tail(toPush) = <<>>
  <2>1. /\ Tail(toPush) \in Seq(Tokens) /\ Len(Tail(toPush)) = Len(toPush) - 1
        /\ Len(toPush) \in Nat
    BY <1>2, HeadTailProperties, LenProperties DEF Inv, TypeOK, ChainTypeOK
  <2>2. Tail(toPush) = <<>> <=> Len(Tail(toPush)) = 0
    BY <2>1, EmptySeq
  <2>. QED  BY <2>1, <2>2
<1>6. docCount' = docCount /\ lock' = lock /\ index' = index /\ doc' = doc
  BY <1>2 DEF indexVars
<1>7. DocumentInv' /\ LockInv'
  BY <1>1, <1>3, <1>6 DEF DocumentInv, LockInv, Inv
<1>8. ClientInv' /\ IndexInv'
  BY <1>2, <1>5, <1>6 DEF Inv, ClientInv, IndexInv
<1>9. TypeOK'
  <2>1. pc' \in {"push", "stats"}
    BY <1>2
  <2>. QED  BY <1>2, <1>3, <1>4, <2>1 DEF Inv, TypeOK, ChainInv, inserterVars, indexVars
<1>. QED  BY <1>7, <1>8, <1>9 DEF Inv

\* Lock: the document's tokens are ready to be pushed.
LEMMA LockStep ==
    ASSUME Inv, Lock
    PROVE  Inv'
<1>1. PICK d \in Nat : d = docCount + 1 /\ ChainInv(d)
  BY DEF Inv, DocumentInv
<1>2. /\ ~lock /\ lock' = TRUE /\ pc = "lock" /\ pc' = "push" /\ toPush' = TokensOf(doc)
      /\ docCount' = docCount /\ doc' = doc /\ chainVars' = chainVars
      /\ indexVars' = indexVars /\ inserterVars' = inserterVars /\ panic' = panic
  BY DEF Lock, indexVars
<1>3. /\ docCount \in Nat /\ doc = d /\ doc \in DocIds
  BY <1>1, <1>2, ConstantFacts DEF Inv, TypeOK, ClientInv
<1>4. Good(TokensOf(doc), d) /\ NullLast(TokensOf(doc)) /\ TokensOf(doc) # <<>>
  BY <1>3, TokensOfFacts
<1>5. ChainInv(d)'
  <2>1. UNCHANGED chainVars /\ Good(toPush', d) /\ NullLast(toPush')
    BY <1>2, <1>4
  <2>. QED  BY <1>1, <1>2, <2>1, StartChain DEF Inv, LockInv
<1>6. DocumentInv' /\ LockInv'
  BY <1>1, <1>2, <1>5 DEF DocumentInv, LockInv
<1>7. ClientInv'
  BY <1>1, <1>2, <1>3, <1>4 DEF ClientInv
<1>8. IndexInv'
  BY <1>1, <1>2, <1>3, ConstantFacts DEF Inv, IndexInv, indexVars, TypeOK
<1>9. TypeOK'
  <2>1. pipe' = pipe
    BY <1>2 DEF chainVars
  <2>. QED  BY <1>2, <1>5, <2>1 DEF Inv, TypeOK, ChainInv, indexVars, inserterVars
<1>. QED  BY <1>6, <1>7, <1>8, <1>9 DEF Inv

\* The token the inserter takes is of the document it will count next, and
\* that is the one the client has the lock for.
LEMMA ArrivedFacts ==
    ASSUME Inv, TakeArrived, NEW d \in Nat, d = docCount + 1, ChainInv(d)
    PROVE  /\ ChainInv(d)' /\ lock /\ toPush' = toPush
           /\ Arrived \in Tokens /\ Arrived.doc = d /\ Arrived.doc \in DocIds
           /\ Arrived.type = "null" => Idle'
           /\ \A j \in 0..N : Len(pipe'[j]) <= Capacity
<1>1. /\ ChainInv(d)' /\ ~Idle
      /\ Arrived \in Tokens /\ Arrived.doc = d
      /\ Arrived.type = "null" => Idle'
      /\ \A j \in 0..N : Len(pipe'[j]) \in Nat /\ Len(pipe'[j]) <= Len(pipe[j])
  BY ArrivedChain
<1>2. lock /\ d \in DocIds
  <2>1. lock
    BY <1>1 DEF Inv, LockInv
  <2>2. docCount \in Nat /\ doc \in 0..Len(Documents)
    BY DEF Inv, TypeOK
  <2>3. d <= doc
    BY <2>1, <2>2 DEF Inv, ClientInv
  <2>. QED  BY <2>1, <2>2, <2>3, ConstantFacts
<1>3. \A j \in 0..N : Len(pipe'[j]) <= Capacity
  <2>1. \A j \in 0..N : Len(pipe[j]) <= Capacity /\ Len(pipe[j]) \in Nat
    BY LenProperties DEF Inv, TypeOK, ChainTypeOK
  <2>. QED  BY <1>1, <2>1, ConstantFacts
<1>4. toPush' = toPush
  BY DEF TakeArrived
<1>. QED  BY <1>1, <1>2, <1>3, <1>4

LEMMA InsertTokenStep ==
    ASSUME Inv, InsertToken
    PROVE  Inv'
<1>1. PICK d \in Nat : d = docCount + 1 /\ ChainInv(d)
  BY DEF Inv, DocumentInv
<1>2. /\ ChainInv(d)' /\ lock /\ toPush' = toPush
      /\ Arrived \in Tokens /\ Arrived.doc = d /\ Arrived.doc \in DocIds
      /\ \A j \in 0..N : Len(pipe'[j]) <= Capacity
  BY <1>1, ArrivedFacts DEF InsertToken
<1>3. /\ lock' = lock /\ docCount' = docCount /\ pc' = pc /\ doc' = doc
      /\ index' = [index EXCEPT ![Arrived.doc] = Append(@, Arrived.text)]
      /\ counter' = counter + 1 /\ UNCHANGED <<inserterVars, termCount, panic>>
  BY DEF InsertToken, clientVars
<1>. HIDE DEF Arrived
<1>4. DocumentInv' /\ LockInv' /\ ClientInv'
  BY <1>1, <1>2, <1>3 DEF DocumentInv, LockInv, ClientInv, Inv
<1>5. IndexInv'
  <2>1. \A e \in DocIds : e # Arrived.doc => index'[e] = index[e]
    BY <1>3 DEF Inv, TypeOK
  <2>2. docCount \in Nat /\ lock' = TRUE /\ docCount' = docCount
    BY <1>2, <1>3 DEF Inv, TypeOK
  <2>3. ASSUME NEW e \in DocIds, index'[e] # <<>>
        PROVE  e <= docCount + 1
    <3>1. CASE e = Arrived.doc
      BY <1>1, <1>2, <2>2, <3>1
    <3>2. CASE e # Arrived.doc
      BY <1>2, <2>1, <2>2, <2>3, <3>2 DEF Inv, IndexInv
    <3>. QED  BY <3>1, <3>2
  <2>. QED  BY <2>2, <2>3 DEF IndexInv
<1>6. TypeOK'
  <2>1. index' \in [DocIds -> Seq(Texts)]
    <3>1. Arrived.doc \in DocIds /\ Arrived.text \in Texts
      BY <1>2 DEF Tokens
    <3>2. Append(index[Arrived.doc], Arrived.text) \in Seq(Texts)
      BY <3>1, AppendProperties DEF Inv, TypeOK
    <3>. QED  BY <1>3, <3>1, <3>2 DEF Inv, TypeOK
  <2>2. counter' \in Nat
    BY <1>3 DEF Inv, TypeOK
  <2>. QED  BY <1>2, <1>3, <2>1, <2>2 DEF Inv, TypeOK, ChainInv, inserterVars
<1>. QED  BY <1>4, <1>5, <1>6 DEF Inv

\* The Null token is the last of the chain: the document is counted and the
\* lock is released with nothing left behind.
LEMMA EndDocumentStep ==
    ASSUME Inv, EndDocument
    PROVE  Inv' /\ panic' = panic
<1>1. PICK d \in Nat : d = docCount + 1 /\ ChainInv(d)
  BY DEF Inv, DocumentInv
<1>2. /\ ChainInv(d)' /\ lock /\ toPush' = toPush
      /\ Arrived \in Tokens /\ Arrived.doc = d /\ Arrived.doc \in DocIds /\ Idle'
      /\ \A j \in 0..N : Len(pipe'[j]) <= Capacity
  BY <1>1, ArrivedFacts DEF EndDocument
<1>3. /\ lock' = FALSE /\ docCount' = docCount + 1 /\ pc' = pc /\ doc' = doc
      /\ index' = index /\ termCount' = [termCount EXCEPT ![Arrived.doc] = counter]
      /\ counter' = 0 /\ panic' = panic /\ UNCHANGED inserterVars
  BY <1>2 DEF EndDocument, clientVars
<1>. HIDE DEF Arrived
<1>4. docCount \in Nat /\ doc \in Nat
  BY ConstantFacts DEF Inv, TypeOK
<1>5. DocumentInv'
  <2>1. d + 1 \in Nat /\ d + 1 = docCount' + 1
    BY <1>1, <1>3, <1>4
  <2>2. ChainInv(d + 1)'
    <3>1. /\ \A i \in 0..N : pipe'[i] = <<>>
          /\ \A i \in 1..N : Quiet(i)'
          /\ toPush' = <<>>
      <4>1. N \in Nat /\ Before(N)' /\ pipe'[N] = <<>>
        BY <1>2, ConstantFacts DEF Idle
      <4>2. \A i \in 0..N : i = N \/ (i + 1 \in 1..N /\ (i + 1) - 1 = i)
        BY <4>1
      <4>. QED  BY <4>1, <4>2 DEF Before
    <3>2. \A i \in 0..N : PipeOK(i, d + 1)'
      BY <3>1, EmptyFacts DEF PipeOK
    <3>3. \A i \in 1..N : HeldOK(i, d + 1)' /\ FilterOK(i, d + 1)'
      BY <1>2, <3>1, EmptyFacts DEF HeldOK, FilterOK, Quiet, ChainInv
    <3>4. ChainTypeOK' /\ Good(toPush', d + 1) /\ NullLast(toPush')
      BY <1>2, <3>1, EmptyFacts DEF ChainInv
    <3>. QED  BY <3>2, <3>3, <3>4 DEF ChainInv
  <2>. QED  BY <2>1, <2>2 DEF DocumentInv
<1>6. LockInv'
  BY <1>2 DEF LockInv
<1>7. ClientInv' /\ IndexInv'
  BY <1>2, <1>3, <1>4 DEF ClientInv, IndexInv, Inv
<1>8. TypeOK'
  <2>1. termCount' \in [DocIds -> Nat] /\ counter' \in Nat /\ docCount' \in Nat
    <3>1. termCount \in [DocIds -> Nat] /\ counter \in Nat
      BY DEF Inv, TypeOK
    <3>. QED  BY <1>2, <1>3, <1>4, <3>1
  <2>. QED  BY <1>2, <1>3, <2>1 DEF Inv, TypeOK, ChainInv, inserterVars
<1>. QED  BY <1>3, <1>5, <1>6, <1>7, <1>8 DEF Inv

LEMMA ChainSame ==
    ASSUME Inv, UNCHANGED <<chainVars, toPush, docCount, lock>>
    PROVE  DocumentInv' /\ LockInv'
<1>1. PICK d \in Nat : d = docCount + 1 /\ ChainInv(d)
  BY DEF Inv, DocumentInv
<1>2. ChainInv(d)' /\ (Idle' <=> Idle)
  BY <1>1, SameChain
<1>. QED  BY <1>1, <1>2 DEF DocumentInv, LockInv, Inv

LEMMA InvInit ==
    Init => Inv
<1>. SUFFICES ASSUME Init PROVE Inv
  OBVIOUS
<1>1. /\ ChainInit /\ docCount = 0 /\ doc = 0 /\ toPush = <<>>
      /\ lock = FALSE /\ pc = "idle" /\ index = [d \in DocIds |-> <<>>]
  BY DEF Init, ChainInit
<1>2. \A d \in Nat : ChainInv(d) /\ Idle /\ \A i \in 0..N : pipe[i] = <<>>
  BY <1>1, InitChain
<1>3. 1 \in Nat /\ 1 = docCount + 1
  BY <1>1
<1>4. DocumentInv /\ LockInv
  BY <1>2, <1>3 DEF DocumentInv, LockInv
<1>5. ClientInv /\ IndexInv
  BY <1>1 DEF ClientInv, IndexInv
<1>6. TypeOK
  <2>1. ChainTypeOK
    BY <1>2, <1>3 DEF ChainInv
  <2>2. \A i \in 0..N : Len(pipe[i]) <= Capacity
    BY <1>2, <1>3, EmptySeq, ConstantFacts
  <2>3. /\ index \in [DocIds -> Seq(Texts)] /\ termCount \in [DocIds -> Nat]
        /\ inserter \in [DocIds -> {"none", "started", "set", "reading", "stopped"}]
    BY EmptySeq DEF Init
  <2>4. doc \in 0..Len(Documents) /\ docCount \in Nat
    BY <1>1, ConstantFacts
  <2>. QED  BY <2>1, <2>2, <2>3, <2>4 DEF Init, TypeOK
<1>. QED  BY <1>4, <1>5, <1>6 DEF Inv

\* The steps that move no token.
LEMMA OtherSteps ==
    ASSUME Inv,
           \/ BeginInsert \/ WriteInfo \/ EndInsert \/ BeginWait \/ Waited \/ GoOn
           \/ BeginDelete \/ RaceIsCaught
           \/ \E d \in DocIds : SetRunning(d) \/ Attach(d) \/ Shutdown(d)
    PROVE  Inv'
<1>1. /\ UNCHANGED <<chainVars, toPush, docCount, lock, index>>
      /\ UNCHANGED indexVars
  BY DEF BeginInsert, WriteInfo, EndInsert, BeginWait, Waited, GoOn, BeginDelete,
         RaceIsCaught, SetRunning, Attach, Shutdown, indexVars, clientVars
<1>2. DocumentInv' /\ LockInv'
  BY <1>1, ChainSame
<1>3. IndexInv'
  BY <1>1 DEF Inv, IndexInv
<1>4. ClientInv' /\ doc' \in 0..Len(Documents)
  <2>1. doc \in 0..Len(Documents) /\ docCount \in Nat /\ doc' \in Nat
    BY ConstantFacts DEF Inv, TypeOK, BeginInsert, WriteInfo, EndInsert, BeginWait, Waited,
       GoOn, BeginDelete, RaceIsCaught, SetRunning, Attach, Shutdown, clientVars
  <2>2. CASE BeginInsert
    BY <1>1, <2>1, <2>2, ConstantFacts DEF BeginInsert, ClientInv, Inv
  <2>3. CASE ~BeginInsert
    <3>1. /\ doc' = doc
          /\ \/ pc' = pc
             \/ pc = "insert" /\ pc' = "lock"
             \/ /\ pc \notin {"insert", "lock", "push"}
                /\ pc' \notin {"insert", "lock", "push"}
      BY <2>3 DEF WriteInfo, EndInsert, BeginWait, Waited, GoOn, BeginDelete, RaceIsCaught,
                  SetRunning, Attach, Shutdown, clientVars
    <3>. QED  BY <1>1, <2>1, <3>1 DEF ClientInv, Inv
  <2>. QED  BY <2>2, <2>3
<1>5. TypeOK'
  <2>1. /\ pc' \in {"idle", "insert", "lock", "push", "stats", "wait", "waited",
                    "delete", "deleted"}
        /\ panic' \in {"none", "output", "unlock", "race"}
        /\ attached' \in BOOLEAN /\ running' \in BOOLEAN /\ dropped' = dropped
    BY DEF BeginInsert, WriteInfo, EndInsert, BeginWait, Waited, GoOn, BeginDelete,
           RaceIsCaught, SetRunning, Attach, Shutdown, clientVars, inserterVars, Inv, TypeOK
  <2>2. inserter' \in [DocIds -> {"none", "started", "set", "reading", "stopped"}]
    BY DEF BeginInsert, WriteInfo, EndInsert, BeginWait, Waited, GoOn, BeginDelete,
           RaceIsCaught, SetRunning, Attach, Shutdown, inserterVars, Inv, TypeOK
  <2>3. /\ UNCHANGED <<pipe, held, fstate, toPush, lock>>
        /\ UNCHANGED <<index, counter, termCount, docCount>>
    BY <1>1 DEF chainVars, indexVars
  <2>. QED  BY <1>4, <2>1, <2>2, <2>3 DEF Inv, TypeOK, ChainTypeOK
<1>. QED  BY <1>2, <1>3, <1>4, <1>5 DEF Inv

LEMMA InvNext ==
    ASSUME Inv, [Next]_vars
    PROVE  Inv'
<1>1. CASE UNCHANGED vars
  <2>1. /\ UNCHANGED <<chainVars, toPush, docCount, lock, index, doc, pc, panic>>
        /\ UNCHANGED <<indexVars, inserterVars>>
    BY <1>1 DEF vars, indexVars, clientVars
  <2>2. DocumentInv' /\ LockInv'
    BY <2>1, ChainSame
  <2>3. ClientInv' /\ IndexInv'
    BY <2>1 DEF Inv, ClientInv, IndexInv
  <2>4. TypeOK'
    BY <2>1 DEF Inv, TypeOK, ChainTypeOK, chainVars, indexVars, inserterVars
  <2>. QED  BY <2>2, <2>3, <2>4 DEF Inv
<1>. QED
  BY <1>1, FilterStep, PushStep, LockStep, InsertTokenStep, EndDocumentStep, OtherSteps
  DEF Next, Client, InserterRuns

-----------------------------------------------------------------------------
(* The theorems.                                                           *)

THEOREM Invariance == Spec => []Inv
  BY InvInit, InvNext, PTL DEF Spec

\* Type correctness of the pipeline: every place holds tokens of the documents,
\* no pipe more than its capacity (Insert, the filters, inserter).
THEOREM TypeCorrect == Spec => []TypeOK
<1>1. Inv => TypeOK
  BY DEF Inv
<1>. QED  BY <1>1, Invariance, PTL

\* The chain never holds tokens of two documents, nor any without the lock
\* (Insert takes insertLock, inserter releases it at the Null token).
THEOREM Separation == Spec => []OneDocumentAtATime
<1>1. ASSUME Inv PROVE OneDocumentAtATime
  <2>1. ASSUME NEW s, Good(s, docCount + 1), s # <<>> => lock, NEW tok \in ToSet(s)
        PROVE  lock /\ tok.doc = docCount + 1
    <3>1. PICK k \in DOMAIN s : tok = s[k]
      BY <2>1 DEF ToSet
    <3>2. s \in Seq(Tokens) /\ DOMAIN s = 1..Len(s) /\ s # <<>>
      BY <2>1, <3>1, LenProperties DEF Good
    <3>. QED  BY <2>1, <3>1, <3>2 DEF Good
  <2>0. PICK d \in Nat : d = docCount + 1 /\ ChainInv(d)
    BY <1>1 DEF Inv, DocumentInv
  <2>. /\ ~lock => \A i \in 0..N : pipe[i] = <<>>
       /\ ~lock => \A i \in 1..N : Quiet(i)
    BY <1>1, <2>0, IdleChain DEF Inv, LockInv
  <2>2. \A i \in 0..N : Good(pipe[i], docCount + 1) /\ (pipe[i] # <<>> => lock)
    BY <2>0 DEF ChainInv, PipeOK
  <2>3. \A i \in 1..N : Good(held[i], docCount + 1) /\ (held[i] # <<>> => lock)
    BY <2>0 DEF ChainInv, HeldOK, Quiet
  <2>4. ASSUME NEW i \in 1..N
        PROVE  /\ Good(fstate[i].buffer \o fstate[i].ended, docCount + 1)
               /\ fstate[i].buffer \o fstate[i].ended # <<>> => lock
    <3>. DEFINE b == fstate[i].buffer
                e == fstate[i].ended
    <3>1. Good(b, docCount + 1) /\ Good(e, docCount + 1) /\ (~lock => b = <<>> /\ e = <<>>)
      BY <2>0 DEF ChainInv, FilterOK, Quiet
    <3>. HIDE DEF b, e
    <3>2. /\ b \in Seq(Tokens) /\ e \in Seq(Tokens) /\ b \o e \in Seq(Tokens)
          /\ Len(b) \in Nat /\ Len(e) \in Nat /\ Len(b \o e) = Len(b) + Len(e)
          /\ \A k \in 1..Len(b) + Len(e) :
                (b \o e)[k] = IF k <= Len(b) THEN b[k] ELSE e[k - Len(b)]
      BY <3>1, ConcatProperties, LenProperties DEF Good
    <3>3. ASSUME NEW k \in 1..Len(b \o e) PROVE (b \o e)[k].doc = docCount + 1
      <4>1. CASE k <= Len(b)
        BY <3>1, <3>2, <4>1 DEF Good
      <4>2. CASE k > Len(b)
        <5>1. k - Len(b) \in 1..Len(e)
          BY <3>2, <4>2
        <5>. QED  BY <3>1, <3>2, <4>2, <5>1 DEF Good
      <4>. QED  BY <3>2, <4>1, <4>2
    <3>4. Good(b \o e, docCount + 1)
      BY <3>2, <3>3 DEF Good
    <3>5. b \o e # <<>> => lock
      BY <3>1, <3>2, ConcatEqualIffEmpty
    <3>. QED  BY <3>4, <3>5 DEF b, e
  <2>5. ASSUME NEW tok \in InChain
        PROVE  \/ \E i \in 0..N : tok \in ToSet(pipe[i])
               \/ \E i \in 1..N : tok \in ToSet(held[i])
               \/ \E i \in 1..N : tok \in ToSet(fstate[i].buffer \o fstate[i].ended)
    BY <2>5 DEF InChain
  <2>. QED  BY <2>1, <2>2, <2>3, <2>4, <2>5 DEF OneDocumentAtATime
<1>. QED  BY <1>1, Invariance, PTL

\* No text is found in more documents than Idf reckons with (inserter counts
\* the document before it releases the lock; SingleTermIndex.Idf).
THEOREM FiniteWeights == Spec => []WeightsAreFinite
<1>1. ASSUME Inv PROVE WeightsAreFinite
  <2>. DEFINE n == docCount + (IF lock THEN 1 ELSE 0)
              D == {d \in DocIds : index[d] # <<>>}
  <2>1. n \in Nat
    BY <1>1 DEF Inv, TypeOK
  <2>2. D \in SUBSET (1..n)
    <3>. SUFFICES ASSUME NEW d \in D PROVE d \in 1..n
      OBVIOUS
    <3>1. d \in Nat /\ d >= 1
      BY ConstantFacts
    <3>2. d <= n
      BY <1>1, <2>1, <3>1 DEF Inv, IndexInv
    <3>. QED  BY <2>1, <3>1, <3>2
  <2>3. IsFiniteSet(1..n) /\ Cardinality(1..n) = n
    <3>. HIDE DEF D, n
    <3>1. 1 \in Int /\ n \in Int
      BY <2>1
    <3>2. /\ IsFiniteSet(1..n)
          /\ Cardinality(1..n) = IF 1 > n THEN 0 ELSE n - 1 + 1
      BY ONLY <3>1, FS_Interval
    <3>. QED  BY <2>1, <3>2
  <2>4. Cardinality(D) <= n
    <3>. HIDE DEF D, n
    <3>. QED  BY <2>2, <2>3, FS_Subset
  <2>. QED  BY <2>4 DEF WeightsAreFinite
<1>. QED  BY <1>1, Invariance, PTL
-----------------------------------------------------------------------------
\* An inserter is started while inserterRunning is not set, hence before any
\* document was counted; none takes tokens before it has the chain's output.
StartInv ==
    /\ OnlyTheSecondInsertPanics
    /\ ~attached => \A d \in DocIds : inserter[d] \notin {"reading", "stopped"}
    /\ attached => \E d \in DocIds : inserter[d] \in {"reading", "stopped"}
    /\ \A d \in DocIds : inserter[d] \in {"set", "reading", "stopped"} => running
    /\ docCount # 0 => running

\* A step that starts and moves no inserter.
LEMMA SameStart ==
    ASSUME StartInv, UNCHANGED <<attached, running, inserter>>,
           panic' = panic \/ (panic = "none" /\ panic' = "race"),
           docCount' = docCount \/ running
    PROVE  StartInv'
<1>1. OnlyTheSecondInsertPanics'
  BY DEF StartInv, OnlyTheSecondInsertPanics
<1>. QED  BY <1>1 DEF StartInv

LEMMA StartNext ==
    ASSUME Inv, StartInv, [Next]_vars
    PROVE  StartInv'
<1>. doc \in Nat /\ docCount \in Nat /\ DOMAIN inserter = DocIds /\ DocIds \subseteq Nat
  BY ConstantFacts DEF Inv, TypeOK
<1>1. CASE BeginInsert /\ ~running
  <2>1. /\ UNCHANGED <<attached, running, panic, docCount>>
        /\ inserter' = [inserter EXCEPT ![doc + 1] = "started"] /\ doc + 1 \in DocIds
        /\ pc = "idle"
    BY <1>1 DEF BeginInsert, indexVars
  <2>2. docCount = 0
    BY <1>1 DEF StartInv
  <2>3. doc + 1 <= 2
    BY <2>1, <2>2 DEF Inv, ClientInv
  <2>4. ~attached
    BY <1>1 DEF StartInv
  <2>5. \A d \in DocIds : inserter'[d] = IF d = doc + 1 THEN "started" ELSE inserter[d]
    BY <2>1
  <2>6. \A d \in DocIds : inserter'[d] # "none" => d <= 2
    BY <2>3, <2>5 DEF StartInv, OnlyTheSecondInsertPanics
  <2>7. \A d \in DocIds : inserter'[d] \notin {"reading", "stopped"}
    BY <2>4, <2>5 DEF StartInv
  <2>8. panic' # "unlock" /\ (panic' = "output" => \E d \in DocIds : d # 1 /\ inserter'[d] # "none")
    BY <2>1, <2>5 DEF StartInv, OnlyTheSecondInsertPanics
  <2>9. \A d, e \in DocIds : ~({inserter'[d], inserter'[e]} \subseteq {"reading", "stopped"})
    BY <2>7
  <2>10. OnlyTheSecondInsertPanics'
    BY <2>6, <2>8, <2>9 DEF OnlyTheSecondInsertPanics
  <2>. QED  BY <2>1, <2>2, <2>4, <2>5, <2>7, <2>10 DEF StartInv
<1>2. ASSUME NEW d \in DocIds, SetRunning(d)
      PROVE  StartInv'
  <2>1. /\ inserter[d] = "started" /\ inserter' = [inserter EXCEPT ![d] = "set"]
        /\ running' = TRUE /\ UNCHANGED <<attached, panic, docCount>>
    BY <1>2 DEF SetRunning, indexVars
  <2>2. \A e \in DocIds : /\ inserter'[e] = "none" <=> inserter[e] = "none"
                          /\ inserter'[e] = "reading" <=> inserter[e] = "reading"
                          /\ inserter'[e] = "stopped" <=> inserter[e] = "stopped"
    BY <2>1
  <2>3. OnlyTheSecondInsertPanics'
    BY <2>1, <2>2 DEF StartInv, OnlyTheSecondInsertPanics
  <2>. QED  BY <2>1, <2>2, <2>3 DEF StartInv
<1>3. ASSUME NEW d \in DocIds, Attach(d)
      PROVE  StartInv'
  <2>1. /\ inserter[d] = "set" /\ inserter' = [inserter EXCEPT ![d] = "reading"]
        /\ running' = running /\ panic' = (IF attached THEN "output" ELSE panic)
        /\ attached' /\ docCount' = docCount
    BY <1>3 DEF Attach, indexVars
  <2>2. \A e \in DocIds : inserter'[e] = IF e = d THEN "reading" ELSE inserter[e]
    BY <2>1
  <2>3. \A e \in DocIds : inserter'[e] # "none" => e <= 2
    BY <2>1, <2>2 DEF StartInv, OnlyTheSecondInsertPanics
  <2>4. panic' # "unlock"
    BY <2>1 DEF StartInv, OnlyTheSecondInsertPanics
  <2>5. panic' = "output" => \E e \in DocIds : e # 1 /\ inserter'[e] # "none"
    <3>1. CASE attached
      <4>1. PICK e \in DocIds : inserter[e] \in {"reading", "stopped"}
        BY <3>1 DEF StartInv
      <4>2. e # d /\ inserter'[e] # "none" /\ inserter'[d] # "none"
        BY <2>1, <2>2, <4>1
      <4>. QED  BY <4>2
    <3>2. CASE ~attached
      BY <2>1, <2>2, <3>2 DEF StartInv, OnlyTheSecondInsertPanics
    <3>. QED  BY <3>1, <3>2
  <2>6. panic' # "output" =>
          \A a, b \in DocIds :
             {inserter'[a], inserter'[b]} \subseteq {"reading", "stopped"} => a = b
    <3>1. CASE ~attached
      <4>1. \A e \in DocIds : inserter'[e] \in {"reading", "stopped"} => e = d
        BY <2>2, <3>1 DEF StartInv
      <4>. QED  BY <4>1
    <3>2. CASE attached
      BY <2>1, <3>2
    <3>. QED  BY <3>1, <3>2
  <2>7. OnlyTheSecondInsertPanics'
    BY <2>3, <2>4, <2>5, <2>6 DEF OnlyTheSecondInsertPanics
  <2>. QED  BY <2>1, <2>2, <2>7 DEF StartInv
<1>4. ASSUME NEW d \in DocIds, Shutdown(d)
      PROVE  StartInv'
  <2>1. /\ inserter[d] = "reading" /\ inserter' = [inserter EXCEPT ![d] = "stopped"]
        /\ UNCHANGED <<attached, running, panic, docCount>>
    BY <1>4 DEF Shutdown, indexVars
  <2>2. \A e \in DocIds : /\ inserter'[e] \in {"reading", "stopped"} <=> inserter[e] \in {"reading", "stopped"}
                          /\ inserter'[e] = "none" <=> inserter[e] = "none"
                          /\ inserter'[e] = "set" <=> inserter[e] = "set"
    BY <2>1
  <2>3. OnlyTheSecondInsertPanics'
    <3>1. \A a, b \in DocIds :
             {inserter'[a], inserter'[b]} \subseteq {"reading", "stopped"} =>
             {inserter[a], inserter[b]} \subseteq {"reading", "stopped"}
      BY <2>2
    <3>. QED  BY <2>1, <2>2, <3>1 DEF StartInv, OnlyTheSecondInsertPanics
  <2>. QED  BY <2>1, <2>2, <2>3 DEF StartInv
<1>5. CASE EndDocument
  <2>1. panic' = panic /\ UNCHANGED <<attached, running, inserter>> /\ Listening
    BY <1>5, EndDocumentStep DEF EndDocument, inserterVars
  <2>2. running
    BY <2>1 DEF Listening, StartInv
  <2>. QED  BY <2>1, <2>2, SameStart
<1>6. CASE \/ BeginInsert /\ running
          \/ WriteInfo \/ Lock \/ Push \/ EndInsert \/ Waited \/ GoOn \/ BeginWait
          \/ BeginDelete \/ InsertToken \/ RaceIsCaught \/ UNCHANGED vars
          \/ \E i \in 1..N : FilterRuns(i)
  <2>1. /\ UNCHANGED <<attached, running, inserter, docCount>>
        /\ panic' = panic \/ (panic = "none" /\ panic' = "race")
    BY <1>6 DEF Next, BeginInsert, WriteInfo, Lock, Push, EndInsert, Waited, GoOn, BeginWait,
       BeginDelete, InsertToken, RaceIsCaught, vars, FilterRuns, Read, Notify, SendOn,
       SendToNobody, inserterVars, indexVars
  <2>. QED  BY <2>1, SameStart
<1>. QED
  BY <1>1, <1>2, <1>3, <1>4, <1>5, <1>6 DEF Next, Client, InserterRuns

\* Whenever the inserters start: only the second Insert can start a second one,
\* Output() panics only if it did, and Unlock() never does (Insert, inserter,
\* FilterPlumbing.Output, sync.RWMutex.Unlock).
THEOREM PanicNeedsTheSecondInsert == Spec => []OnlyTheSecondInsertPanics
<1>1. Init => StartInv
  BY DEF Init, StartInv, OnlyTheSecondInsertPanics
<1>2. Inv /\ StartInv /\ [Next]_vars => StartInv'
  BY StartNext
<1>3. StartInv => OnlyTheSecondInsertPanics
  BY DEF StartInv
<1>. QED  BY <1>1, <1>2, <1>3, Invariance, PTL DEF Spec
-----------------------------------------------------------------------------
(* What gets into the lexicon.                                             *)

\* All the tokens of the documents up to n.
LEMMA InsertedStep ==
    /\ Inserted[0] = <<>>
    /\ \A n \in 1..Len(Documents) : Inserted[n] = Inserted[n - 1] \o TokensOf(n)
<1>. DEFINE Step(f, k) == IF k = 0 THEN <<>> ELSE f[k - 1] \o TokensOf(k)
            Is(f, n) == f = [k \in 0..n |-> Step(f, k)]
            T == {n \in Nat : \E f : Is(f, n)}
            all == CHOOSE f : Is(f, Len(Documents))
<1>0. Len(Documents) \in Nat
  BY ConstantFacts
<1>1. 0 \in T
  <2>1. Is([k \in 0..0 |-> <<>>], 0)
    OBVIOUS
  <2>. QED  BY <2>1
<1>2. ASSUME NEW n \in Nat, n \in T PROVE n + 1 \in T
  <2>1. PICK f : Is(f, n)
    BY <1>2
  <2>. DEFINE g == [k \in 0..n + 1 |-> IF k = n + 1 THEN Step(f, k) ELSE f[k]]
  <2>2. \A k \in 0..n : f[k] = Step(f, k)
    <3>. HIDE DEF Step
    <3>. QED  BY <2>1
  <2>3. \A k \in 0..n + 1 : g[k] = Step(g, k)
    <3>1. \A k \in 0..n : g[k] = f[k]
      OBVIOUS
    <3>2. g[n + 1] = Step(f, n + 1)
      OBVIOUS
    <3>. HIDE DEF g
    <3>3. \A k \in 0..n + 1 : Step(g, k) = Step(f, k)
      BY <3>1
    <3>. HIDE DEF Step
    <3>4. \A k \in 0..n + 1 : k \in 0..n \/ k = n + 1
      OBVIOUS
    <3>. QED  BY <2>2, <3>1, <3>2, <3>3, <3>4
  <2>4. Is(g, n + 1)
    <3>1. g = [k \in 0..n + 1 |-> g[k]]
      OBVIOUS
    <3>. HIDE DEF g, Step
    <3>. QED  BY <2>3, <3>1
  <2>. HIDE DEF Is, g
  <2>. QED  BY <2>4
<1>3. Len(Documents) \in T
  <2>. HIDE DEF T
  <2>. QED  BY <1>0, <1>1, <1>2, NatSetInduction
<1>4. Is(all, Len(Documents))
  <2>1. \E f : Is(f, Len(Documents))
    BY <1>3
  <2>. HIDE DEF Is
  <2>. QED  BY <2>1
<1>5. Inserted = all
  BY DEF Inserted
<1>6. \A k \in 0..Len(Documents) : all[k] = Step(all, k)
  <2>. HIDE DEF Step, all
  <2>. QED  BY <1>4
<1>7. \A n \in 1..Len(Documents) : n \in 0..Len(Documents) /\ n # 0
  BY <1>0
<1>8. 0 \in 0..Len(Documents)
  BY <1>0
<1>. HIDE DEF all
<1>. QED  BY <1>5, <1>6, <1>7, <1>8

LEMMA InsertedType == \A n \in 0..Len(Documents) : Inserted[n] \in Seq(Tokens)
<1>. DEFINE T == {n \in Nat : n <= Len(Documents) => Inserted[n] \in Seq(Tokens)}
<1>0. Len(Documents) \in Nat /\ DocIds = 1..Len(Documents)
  BY ConstantFacts
<1>1. 0 \in T
  BY InsertedStep, EmptySeq
<1>2. ASSUME NEW n \in Nat, n \in T PROVE n + 1 \in T
  <2>. SUFFICES ASSUME n + 1 <= Len(Documents) PROVE Inserted[n + 1] \in Seq(Tokens)
    OBVIOUS
  <2>1. n + 1 \in DocIds /\ (n + 1) - 1 = n /\ Inserted[n] \in Seq(Tokens)
    BY <1>0, <1>2
  <2>2. Inserted[n + 1] = Inserted[n] \o TokensOf(n + 1)
    BY <1>0, <2>1, InsertedStep
  <2>3. TokensOf(n + 1) \in Seq(Tokens)
    BY <2>1, TokensOfFacts DEF Good
  <2>. QED  BY <2>1, <2>2, <2>3, ConcatProperties
<1>. HIDE DEF T
<1>3. Nat \subseteq T
  BY <1>1, <1>2, NatSetInduction
<1>. QED  BY <1>0, <1>3 DEF T

\* What came out of the chain: first P, which nobody took, and then Q.  With
\* the tokens that went into it, it tells what is in the lexicon.
Flow(C, P, Q) ==
    /\ Streams(C)
    /\ (C[1] \o pipe[0]) \o toPush = Inserted[docCount + (IF lock THEN 1 ELSE 0)]
    /\ P \in Seq(Tokens) /\ Q \in Seq(Tokens) /\ C[N + 1] = P \o Q
    /\ ~attached => Q = <<>> /\ pipe[N] = <<>>
    /\ \A d \in DocIds : index[d] = TextsOf(d, Q)
    /\ \A d \in DocIds : d <= docCount => Expected(d) = TextsOf(d, P) \o index[d]
    /\ \A d \in DocIds : d # 1 => TextsOf(d, P) = <<>>
    /\ "text" \notin dropped => \A d \in DocIds : TextsOf(d, P) = <<>>

CountInv ==
    /\ \A d \in DocIds : d <= docCount => termCount[d] = Len(index[d])
    /\ \A d \in DocIds : d = docCount + 1 => counter = Len(index[d])

\* Before the inserter attaches nothing is counted.
AttachInv ==
    /\ Listening \/ docCount # 0 => attached
    /\ pc = "waited" => ~lock

ContentInv == (\E C, P, Q : Flow(C, P, Q)) /\ CountInv /\ AttachInv

LEMMA ChainTyped ==
    ASSUME Inv
    PROVE  /\ ChainTypeOK /\ N \in 1..N /\ N \in 0..N /\ 0 \in 0..N /\ docCount \in Nat
           /\ DOMAIN index = DocIds /\ DOMAIN termCount = DocIds
  BY ConstantFacts DEF Inv, TypeOK

\* The filters change neither what went in nor what was taken.
LEMMA FilterFlow ==
    ASSUME Inv, ContentInv, NEW i \in 1..N, FilterRuns(i)
    PROVE  ContentInv'
<1>0. PICK C, P, Q : Flow(C, P, Q)
  BY DEF ContentInv
<1>1. /\ ChainTypeOK /\ Streams(C) /\ N \in Nat \ {0} /\ docCount \in Nat
      /\ P \in Seq(Tokens) /\ Q \in Seq(Tokens) /\ C[N + 1] = P \o Q
      /\ AttachInv /\ CountInv
  BY <1>0, ChainTyped, ConstantFacts DEF ContentInv, Flow
<1>2. UNCHANGED <<attached, inserter, lock, index, counter, termCount, docCount, pc>>
  BY DEF FilterRuns, Read, Notify, SendOn, SendToNobody, clientVars, inserterVars, indexVars
<1>3. CountInv'
  BY <1>1, <1>2 DEF CountInv
<1>5. AttachInv'
  <2>1. Listening' => Listening
    BY <1>2 DEF Listening
  <2>. QED  BY <1>1, <1>2, <2>1 DEF AttachInv
<1>6. ASSUME NEW D, Streams(D)', toPush' = toPush, dropped' = dropped, D[1] \o pipe'[0] = C[1] \o pipe[0],
             D[N + 1] = C[N + 1], pipe'[N] = pipe[N] \/ attached
      PROVE  Flow(D, P, Q)'
  BY <1>0, <1>2, <1>6 DEF Flow, Expected
<1>7. CASE Read(i)
  <2>0. PICK D : D = [C EXCEPT ![i] = Append(C[i], Head(pipe[i - 1]))]
    OBVIOUS
  <2>1. Streams(D)' /\ D[1] \o pipe'[0] = C[1] \o pipe[0] /\ D[N + 1] = C[N + 1]
        /\ pipe'[N] = pipe[N] /\ toPush' = toPush /\ dropped' = dropped
    <3>1. ReadToken(i) /\ toPush' = toPush /\ dropped' = dropped
      BY <1>7 DEF Read, ReadToken, inserterVars
    <3>. QED  BY <1>1, <2>0, <3>1, ReadStreams
  <2>2. Flow(D, P, Q)'
    BY <1>6, <2>1
  <2>. QED  BY <1>3, <1>5, <2>2 DEF ContentInv
<1>8. CASE Notify(i)
  <2>1. Streams(C)' /\ pipe' = pipe /\ toPush' = toPush /\ dropped' = dropped
    BY <1>1, <1>8, NotifyStreams DEF Notify, inserterVars
  <2>2. Flow(C, P, Q)'
    BY <1>6, <2>1
  <2>. QED  BY <1>3, <1>5, <2>2 DEF ContentInv
<1>9. CASE SendOn(i)
  <2>1. Streams(C)' /\ pipe'[0] = pipe[0] /\ toPush' = toPush /\ dropped' = dropped
    BY <1>1, <1>9, SendStreams DEF SendOn, inserterVars
  <2>2. pipe'[N] = pipe[N] \/ attached
    <3>1. i < N \/ attached
      BY <1>9 DEF SendOn
    <3>2. CASE i < N
      <4>1. pipe' = [pipe EXCEPT ![i] = Append(pipe[i], Head(held[i]))] /\ i # N /\ N \in 0..N
        BY <1>1, <1>9, <3>2 DEF SendOn, SendToken
      <4>. QED  BY <1>1, <4>1 DEF ChainTypeOK
    <3>. QED  BY <3>1, <3>2
  <2>3. Flow(C, P, Q)'
    BY <1>6, <2>1, <2>2
  <2>. QED  BY <1>3, <1>5, <2>3 DEF ContentInv
<1>10. CASE SendToNobody
  <2>. DEFINE x == held[N]
  <2>0. PICK D : D = [C EXCEPT ![N + 1] = C[N + 1] \o held[N]]
    OBVIOUS
  <2>9. PICK R : R = P \o x
    OBVIOUS
  <2>1. ~attached /\ DropHeld /\ Q = <<>> /\ pipe[N] = <<>> /\ docCount = 0
    BY <1>0, <1>1, <1>10 DEF SendToNobody, Flow, AttachInv
  <2>2. /\ Streams(D)' /\ pipe' = pipe /\ toPush' = toPush /\ D[1] = C[1]
        /\ D[N + 1] = C[N + 1] \o x
    BY <1>1, <2>0, <2>1, DropStreams
  <2>3. x \in Seq(Tokens) /\ \A k \in 1..Len(x) : x[k].doc = 1
    <3>1. PICK e \in Nat : e = docCount + 1 /\ ChainInv(e)
      BY DEF Inv, DocumentInv
    <3>2. Good(x, e) /\ e = 1
      BY <1>1, <2>1, <3>1 DEF ChainInv, HeldOK
    <3>. QED  BY <3>2 DEF Good
  <2>. HIDE DEF x
  <2>4. R \in Seq(Tokens) /\ R \o Q = R /\ C[N + 1] = P
    BY <1>1, <2>1, <2>3, <2>9, ConcatProperties, ConcatEmptySeq
  <2>5. ASSUME NEW d \in DocIds, d # 1 PROVE TextsOf(d, R) = <<>>
    <3>1. TextsOf(d, P) = <<>> /\ TextsOf(d, x) = <<>>
      BY <1>0, <2>3, <2>5, TextsOfOther DEF Flow
    <3>2. TextsOf(d, R) = TextsOf(d, P) \o TextsOf(d, x)
      BY <1>1, <2>3, <2>9, TextsOfConcat
    <3>. QED  BY <2>9, <3>1, <3>2
  <2>10. ASSUME "text" \notin dropped', NEW d \in DocIds PROVE TextsOf(d, R) = <<>>
    <3>1. "text" \notin dropped /\ \A tok \in ToSet(x) : tok.type # "text"
      BY <1>10, <2>10 DEF SendToNobody, x
    <3>2. \A k \in 1..Len(x) : x[k] \in ToSet(x)
      BY <2>3, LenProperties DEF ToSet
    <3>3. TextsOf(d, P) = <<>> /\ TextsOf(d, x) = <<>>
      BY <1>0, <2>3, <3>1, <3>2, TextsOfOther DEF Flow
    <3>4. TextsOf(d, R) = TextsOf(d, P) \o TextsOf(d, x)
      BY <1>1, <2>3, <2>9, TextsOfConcat
    <3>. QED  BY <3>3, <3>4
  <2>6. \A d \in DocIds : ~(d <= docCount)
    BY <2>1, ConstantFacts
  <2>7. D[N + 1] = R \o Q
    BY <2>2, <2>4, <2>9
  <2>8. Flow(D, R, Q)'
    BY <1>0, <1>1, <1>2, <2>1, <2>2, <2>4, <2>5, <2>6, <2>7, <2>10 DEF Flow
  <2>. QED  BY <1>3, <1>5, <2>8 DEF ContentInv
<1>. QED  BY <1>7, <1>8, <1>9, <1>10 DEF FilterRuns

LEMMA PushFlow ==
    ASSUME Inv, ContentInv, Push
    PROVE  ContentInv'
<1>0. PICK C, P, Q : Flow(C, P, Q)
  BY DEF ContentInv
<1>1. ChainTypeOK /\ Streams(C) /\ AttachInv /\ CountInv
  BY <1>0, ChainTyped DEF ContentInv, Flow
<1>2. /\ UNCHANGED <<attached, inserter, dropped, lock, index, counter, termCount, docCount>>
      /\ pc' \in {"stats", "push"}
  BY DEF Push, inserterVars, indexVars, Listening
<1>3. CountInv'
  BY <1>1, <1>2 DEF CountInv
<1>4. AttachInv'
  <2>1. Listening' => Listening
    BY <1>2 DEF Listening
  <2>. QED  BY <1>1, <1>2, <2>1 DEF AttachInv
<1>5. /\ Streams(C)' /\ (C[1] \o pipe'[0]) \o toPush' = (C[1] \o pipe[0]) \o toPush
      /\ pipe'[N] = pipe[N]
  BY <1>1, PushStreams DEF Push
<1>6. Flow(C, P, Q)'
  BY <1>0, <1>2, <1>5 DEF Flow, Expected
<1>. QED  BY <1>3, <1>4, <1>6 DEF ContentInv

LEMMA LockFlow ==
    ASSUME Inv, ContentInv, Lock
    PROVE  ContentInv'
<1>0. PICK C, P, Q : Flow(C, P, Q)
  BY DEF ContentInv
<1>1. /\ ChainTypeOK /\ Streams(C) /\ AttachInv /\ CountInv
      /\ (C[1] \o pipe[0]) \o toPush = Inserted[docCount + (IF lock THEN 1 ELSE 0)]
  BY <1>0, ChainTyped DEF ContentInv, Flow
<1>2. /\ UNCHANGED <<attached, inserter, dropped, index, counter, termCount, docCount, pipe, held,
                    fstate>>
      /\ ~lock /\ lock' /\ pc = "lock" /\ pc' = "push" /\ toPush' = TokensOf(doc)
      /\ UNCHANGED chainVars
  BY DEF Lock, inserterVars, indexVars, chainVars
<1>3. CountInv' /\ AttachInv'
  BY <1>1, <1>2 DEF CountInv, AttachInv, Listening, Quiet
<1>4. /\ doc = docCount + 1 /\ doc \in 1..Len(Documents) /\ toPush = <<>> /\ docCount \in Nat
  BY <1>2, ConstantFacts DEF Inv, TypeOK, ClientInv
<1>5. Streams(C)'
  BY <1>1, <1>2, SameStreams
<1>6. (C[1] \o pipe'[0]) \o toPush' = Inserted[docCount + 1]
  <2>1. (C[1] \o pipe[0]) \o toPush = C[1] \o pipe[0]
    <3>1. C[1] \in Seq(Tokens) /\ pipe[0] \in Seq(Tokens)
      BY <1>1, StreamsFacts
    <3>2. C[1] \o pipe[0] \in Seq(Tokens)
      BY <3>1, ConcatProperties
    <3>. QED  BY <1>4, <3>2, ConcatEmptySeq
  <2>2. C[1] \o pipe[0] = Inserted[docCount]
    <3>1. docCount + (IF lock THEN 1 ELSE 0) = docCount
      BY <1>2, <1>4
    <3>. QED  BY <1>1, <2>1, <3>1
  <2>3. Inserted[docCount + 1] = Inserted[docCount] \o TokensOf(docCount + 1)
    <3>1. docCount + 1 \in 1..Len(Documents) /\ (docCount + 1) - 1 = docCount
      BY <1>4
    <3>. QED  BY <3>1, InsertedStep
  <2>. QED  BY <1>2, <1>4, <2>2, <2>3
<1>7. Flow(C, P, Q)'
  BY <1>0, <1>2, <1>5, <1>6 DEF Flow, Expected
<1>. QED  BY <1>3, <1>7 DEF ContentInv

LEMMA InsertFlow ==
    ASSUME Inv, ContentInv, InsertToken
    PROVE  ContentInv'
<1>0. PICK C, P, Q : Flow(C, P, Q)
  BY DEF ContentInv
<1>1. /\ ChainTypeOK /\ Streams(C) /\ AttachInv /\ CountInv /\ N \in 0..N /\ docCount \in Nat
      /\ P \in Seq(Tokens) /\ Q \in Seq(Tokens) /\ C[N + 1] = P \o Q
      /\ DOMAIN index = DocIds
  BY <1>0, ChainTyped DEF ContentInv, Flow
<1>2. /\ UNCHANGED <<attached, inserter, dropped, lock, termCount, docCount, pc, toPush>>
      /\ Listening /\ TakeArrived /\ Arrived.type = "text" /\ attached
      /\ index' = [index EXCEPT ![Arrived.doc] = Append(index[Arrived.doc], Arrived.text)]
      /\ counter' = counter + 1
  BY <1>1 DEF InsertToken, TakeArrived, inserterVars, clientVars, AttachInv
<1>3. /\ Arrived \in Tokens /\ Arrived.doc = docCount + 1 /\ Arrived.doc \in DocIds
  <2>1. PICK e \in Nat : e = docCount + 1 /\ ChainInv(e)
    BY DEF Inv, DocumentInv
  <2>. QED  BY <1>2, <2>1, ArrivedFacts
<1>10. PICK D : D = [C EXCEPT ![N + 1] = Append(C[N + 1], Arrived)]
  OBVIOUS
<1>4. /\ Streams(D)' /\ pipe'[0] = pipe[0] /\ D[1] = C[1]
      /\ D[N + 1] = Append(C[N + 1], Arrived)
  BY <1>1, <1>2, <1>10, TakeStreams
<1>12. PICK tok : tok = Arrived
  OBVIOUS
<1>. HIDE DEF Arrived
<1>. DEFINE R == Append(Q, tok)
<1>5. D[N + 1] = P \o R /\ R \in Seq(Tokens) /\ tok \in Tokens
  BY <1>1, <1>3, <1>4, <1>12, ConcatAppend
<1>6. ASSUME NEW d \in DocIds
      PROVE  index'[d] = TextsOf(d, R) /\ (d # tok.doc => index'[d] = index[d])
  <2>1. index[d] = TextsOf(d, Q)
    BY <1>0 DEF Flow
  <2>2. TextsOf(d, R) = IF tok.doc = d /\ tok.type = "text" THEN Append(TextsOf(d, Q), tok.text)
                        ELSE TextsOf(d, Q)
    BY <1>1, <1>5, TextsOfAppend
  <2>. QED  BY <1>1, <1>2, <1>12, <2>1, <2>2
<1>7. CountInv'
  <2>1. ASSUME NEW d \in DocIds, d <= docCount PROVE termCount[d] = Len(index'[d])
    <3>1. d # tok.doc
      BY <1>1, <1>3, <1>12, <2>1, ConstantFacts
    <3>. QED  BY <1>1, <1>6, <2>1, <3>1 DEF CountInv
  <2>2. ASSUME NEW d \in DocIds, d = docCount + 1 PROVE counter' = Len(index'[d])
    <3>1. index'[d] = Append(index[d], tok.text) /\ counter = Len(index[d])
      BY <1>1, <1>2, <1>3, <1>12, <2>2 DEF CountInv
    <3>2. index[d] \in Seq(Texts) /\ tok.text \in Texts
      BY <1>5 DEF Inv, TypeOK, Tokens
    <3>3. Len(Append(index[d], tok.text)) = Len(index[d]) + 1
      BY <3>2, AppendProperties
    <3>. QED  BY <1>2, <3>1, <3>3
  <2>. QED  BY <1>2, <2>1, <2>2 DEF CountInv
<1>8. AttachInv'
  BY <1>1, <1>2 DEF AttachInv
<1>9. \A d \in DocIds : d <= docCount => index'[d] = index[d]
  <2>. SUFFICES ASSUME NEW d \in DocIds, d <= docCount PROVE index'[d] = index[d]
    OBVIOUS
  <2>1. d # tok.doc
    BY <1>1, <1>3, <1>12, ConstantFacts
  <2>. QED  BY <1>6, <2>1
<1>13. \A d \in DocIds : index'[d] = TextsOf(d, R)
  BY <1>6
<1>. HIDE DEF R
<1>11. Flow(D, P, R)'
  <2>1. (D[1] \o pipe'[0]) \o toPush' = Inserted[docCount' + (IF lock' THEN 1 ELSE 0)]
    BY <1>0, <1>2, <1>4 DEF Flow
  <2>2. \A d \in DocIds : d <= docCount' => Expected(d) = TextsOf(d, P) \o index'[d]
    BY <1>0, <1>2, <1>9 DEF Flow
  <2>3. /\ P \in Seq(Tokens) /\ (\A d \in DocIds : d # 1 => TextsOf(d, P) = <<>>)
        /\ "text" \notin dropped' => \A d \in DocIds : TextsOf(d, P) = <<>>
    BY <1>0, <1>2 DEF Flow
  <2>4. attached'
    BY <1>2
  <2>. QED  BY <1>4, <1>5, <1>13, <2>1, <2>2, <2>3, <2>4 DEF Flow, Expected
<1>. QED  BY <1>7, <1>8, <1>11 DEF ContentInv

\* Nothing is left in the chain: all of the document that was to come out has.
LEMMA EndFlow ==
    ASSUME Inv, ContentInv, EndDocument
    PROVE  ContentInv'
<1>0. PICK C, P, Q : Flow(C, P, Q)
  BY DEF ContentInv
<1>1. /\ ChainTypeOK /\ Streams(C) /\ AttachInv /\ CountInv /\ N \in 0..N /\ docCount \in Nat
      /\ P \in Seq(Tokens) /\ Q \in Seq(Tokens) /\ C[N + 1] = P \o Q
      /\ DOMAIN termCount = DocIds
  BY <1>0, ChainTyped DEF ContentInv, Flow
<1>2. /\ UNCHANGED <<attached, inserter, dropped, index, pc, toPush>>
      /\ Listening /\ TakeArrived /\ Arrived.type = "null" /\ attached /\ lock' = FALSE
      /\ docCount' = docCount + 1 /\ counter' = 0
      /\ termCount' = [termCount EXCEPT ![Arrived.doc] = counter]
  BY <1>1 DEF EndDocument, TakeArrived, inserterVars, clientVars, AttachInv
<1>14. PICK tok, d : tok = Arrived /\ d = docCount + 1
  OBVIOUS
<1>3. /\ tok \in Tokens /\ tok.doc = d /\ d \in DocIds /\ lock
      /\ ChainInv(d)' /\ Idle'
  <2>1. PICK e \in Nat : e = docCount + 1 /\ ChainInv(e)
    BY DEF Inv, DocumentInv
  <2>2. /\ ChainInv(e)' /\ lock /\ tok \in Tokens /\ tok.doc = e /\ tok.doc \in DocIds /\ Idle'
    BY <1>2, <1>14, <2>1, ArrivedFacts
  <2>. QED  BY <1>14, <2>1, <2>2
<1>15. PICK D : D = [C EXCEPT ![N + 1] = Append(C[N + 1], Arrived)]
  OBVIOUS
<1>. DEFINE R == Append(Q, tok)
<1>4. /\ Streams(D)' /\ pipe'[0] = pipe[0] /\ D[1] = C[1]
      /\ D[N + 1] = Append(C[N + 1], tok)
  BY <1>1, <1>2, <1>14, <1>15, TakeStreams
<1>5. D[N + 1] = P \o R /\ R \in Seq(Tokens)
  BY <1>1, <1>3, <1>4, ConcatAppend
<1>6. \A e \in DocIds : index[e] = TextsOf(e, R)
  <2>. SUFFICES ASSUME NEW e \in DocIds PROVE index[e] = TextsOf(e, R)
    OBVIOUS
  <2>1. index[e] = TextsOf(e, Q) /\ tok.type = "null"
    BY <1>0, <1>2, <1>14 DEF Flow
  <2>2. TextsOf(e, R) = IF tok.doc = e /\ tok.type = "text" THEN Append(TextsOf(e, Q), tok.text)
                        ELSE TextsOf(e, Q)
    BY <1>1, <1>3, TextsOfAppend
  <2>. QED  BY <2>1, <2>2
<1>7. D[1] = Inserted[d] /\ D[N + 1] = PassAll(Filter, D[1])
  <2>1. /\ \A i \in 0..N : pipe'[i] = <<>>
        /\ \A i \in 1..N : Quiet(i)'
        /\ toPush' = <<>>
    <3>1. N \in Nat /\ Before(N)' /\ pipe'[N] = <<>>
      BY <1>3, ConstantFacts DEF Idle
    <3>2. \A i \in 0..N : i = N \/ (i + 1 \in 1..N /\ (i + 1) - 1 = i)
      BY <3>1
    <3>. QED  BY <3>1, <3>2 DEF Before
  <2>2. \A i \in 1..N : pipe'[i] = <<>> /\ held'[i] = <<>> /\ fstate'[i].ended = <<>>
    <3>1. \A i \in 1..N : i \in 0..N
      BY ConstantFacts
    <3>. QED  BY <2>1, <3>1 DEF Quiet
  <2>3. D \in [1..N + 1 -> Seq(Tokens)]
    BY <1>4 DEF Streams
  <2>4. ASSUME NEW i \in 1..N
        PROVE  fstate'[i].ended = <<>> /\ SentBy(Filter[i], fstate'[i], D[i], D[i + 1])
    <3>1. SentBy(Filter[i], fstate'[i], D[i], (D[i + 1] \o pipe'[i]) \o held'[i])
      BY <1>4 DEF Streams
    <3>2. D[i + 1] \in Seq(Tokens)
      <4>1. i + 1 \in 1..N + 1
        BY ConstantFacts
      <4>. QED  BY <2>3, <4>1
    <3>3. (D[i + 1] \o pipe'[i]) \o held'[i] = D[i + 1]
      BY <2>2, <3>2, ConcatEmptySeq
    <3>. QED  BY <2>2, <3>1, <3>3
  <2>5. D[N + 1] = PassAll(Filter, D[1])
    BY <2>3, <2>4, StreamsDone
  <2>6. (D[1] \o pipe[0]) \o toPush = Inserted[d]
    BY <1>0, <1>3, <1>4, <1>14 DEF Flow
  <2>7. D[1] \in Seq(Tokens) /\ pipe[0] = <<>> /\ toPush = <<>>
    <3>1. D[1] \in Seq(Tokens)
      BY <1>1, <1>4, StreamsFacts
    <3>2. 0 \in 0..N
      BY ConstantFacts
    <3>. QED  BY <1>2, <1>4, <2>1, <3>1, <3>2
  <2>8. (D[1] \o pipe[0]) \o toPush = D[1]
    BY <2>7, ConcatEmptySeq
  <2>. QED  BY <2>5, <2>6, <2>8
<1>8. Expected(d) = TextsOf(d, P) \o index[d]
  <2>1. PassAll(Filter, Inserted[d]) = P \o R
    BY <1>5, <1>7
  <2>2. TextsOf(d, P \o R) = TextsOf(d, P) \o TextsOf(d, R)
    <3>. HIDE DEF R
    <3>. QED  BY <1>1, <1>5, TextsOfConcat
  <2>. QED  BY <1>3, <1>6, <2>1, <2>2 DEF Expected
<1>9. CountInv'
  <2>1. ASSUME NEW e \in DocIds, e <= docCount + 1 PROVE termCount'[e] = Len(index[e])
    <3>1. CASE e = d
      BY <1>1, <1>2, <1>3, <1>14, <3>1 DEF CountInv
    <3>2. CASE e # d
      <4>1. e <= docCount /\ e # tok.doc
        BY <1>1, <1>3, <1>14, <2>1, <3>2, ConstantFacts
      <4>. QED  BY <1>1, <1>2, <1>14, <4>1 DEF CountInv
    <3>. QED  BY <3>1, <3>2
  <2>2. ASSUME NEW e \in DocIds, e = docCount + 2 PROVE Len(index[e]) = 0
    <3>1. index[e] = <<>>
      BY <1>1, <1>3, <1>14, <2>2 DEF Inv, IndexInv
    <3>. QED  BY <3>1
  <2>3. (docCount + 1) + 1 = docCount + 2
    BY <1>1
  <2>. QED  BY <1>2, <2>1, <2>2, <2>3 DEF CountInv
<1>10. AttachInv'
  BY <1>1, <1>2 DEF AttachInv
<1>11. \A e \in DocIds : e <= docCount' => Expected(e) = TextsOf(e, P) \o index[e]
  <2>. SUFFICES ASSUME NEW e \in DocIds, e <= docCount'
                PROVE  Expected(e) = TextsOf(e, P) \o index[e]
    OBVIOUS
  <2>1. e = d \/ e <= docCount
    BY <1>1, <1>2, <1>14, ConstantFacts
  <2>2. CASE e <= docCount
    BY <1>0, <2>2 DEF Flow
  <2>. QED  BY <1>8, <2>1, <2>2
<1>12. (D[1] \o pipe'[0]) \o toPush' = Inserted[docCount' + (IF lock' THEN 1 ELSE 0)]
  <2>1. (D[1] \o pipe'[0]) \o toPush' = Inserted[docCount + 1]
    BY <1>0, <1>2, <1>3, <1>4 DEF Flow
  <2>2. docCount' + (IF lock' THEN 1 ELSE 0) = docCount + 1
    BY <1>1, <1>2
  <2>. QED  BY <2>1, <2>2
<1>. HIDE DEF R
<1>13. Flow(D, P, R)'
  <2>1. /\ P \in Seq(Tokens) /\ (\A e \in DocIds : e # 1 => TextsOf(e, P) = <<>>)
        /\ "text" \notin dropped' => \A e \in DocIds : TextsOf(e, P) = <<>>
    BY <1>0, <1>2 DEF Flow
  <2>2. attached' /\ index' = index
    BY <1>2
  <2>. QED  BY <1>4, <1>5, <1>6, <1>11, <1>12, <2>1, <2>2 DEF Flow, Expected
<1>. QED  BY <1>9, <1>10, <1>13 DEF ContentInv

\* The steps that move no token.
LEMMA OtherFlow ==
    ASSUME Inv, ContentInv,
           \/ BeginInsert \/ WriteInfo \/ EndInsert \/ BeginWait \/ Waited \/ GoOn
           \/ BeginDelete \/ RaceIsCaught \/ UNCHANGED vars
           \/ \E d \in DocIds : SetRunning(d) \/ Attach(d) \/ Shutdown(d)
    PROVE  ContentInv'
<1>0. PICK C, P, Q : Flow(C, P, Q)
  BY DEF ContentInv
<1>1. Streams(C) /\ AttachInv /\ CountInv
  BY <1>0 DEF ContentInv, Flow
<1>2. /\ UNCHANGED <<pipe, held, fstate, toPush, lock, index, counter, termCount, docCount>>
      /\ UNCHANGED <<chainVars, dropped>>
  BY DEF BeginInsert, WriteInfo, EndInsert, BeginWait, Waited, GoOn, BeginDelete,
         RaceIsCaught, SetRunning, Attach, Shutdown, indexVars, clientVars, chainVars,
         inserterVars, vars
<1>3. /\ pc' = "waited" => ~lock
      /\ attached => attached'
      /\ Listening' => Listening \/ attached'
  <2>1. CASE BeginInsert
    <3>1. attached' = attached /\ pc' = "insert"
          /\ \A d \in DocIds : inserter'[d] = "reading" => inserter[d] = "reading"
      BY <2>1 DEF BeginInsert, Inv, TypeOK
    <3>. QED  BY <3>1 DEF Listening
  <2>2. CASE \/ WriteInfo \/ EndInsert \/ BeginWait \/ Waited \/ GoOn
             \/ BeginDelete \/ RaceIsCaught \/ UNCHANGED vars
    <3>1. UNCHANGED <<attached, inserter>> /\ (pc' = "waited" => ~lock)
      BY <1>1, <2>2 DEF WriteInfo, EndInsert, BeginWait, Waited, GoOn, BeginDelete, RaceIsCaught,
         vars, inserterVars, clientVars, AttachInv
    <3>. QED  BY <3>1 DEF Listening
  <2>3. ASSUME NEW d \in DocIds, SetRunning(d) \/ Attach(d) \/ Shutdown(d)
        PROVE  /\ pc' = "waited" => ~lock
               /\ attached => attached'
               /\ Listening' => Listening \/ attached'
    <3>1. CASE Attach(d)
      BY <1>1, <3>1 DEF Attach, clientVars, AttachInv
    <3>2. CASE SetRunning(d) \/ Shutdown(d)
      <4>1. /\ attached' = attached /\ (pc' = "waited" => ~lock)
            /\ \A e \in DocIds : inserter'[e] = "reading" => inserter[e] = "reading"
        BY <1>1, <3>2 DEF SetRunning, Shutdown, clientVars, AttachInv, Inv, TypeOK
      <4>. QED  BY <4>1 DEF Listening
    <3>. QED  BY <2>3, <3>1, <3>2
  <2>. QED  BY <2>1, <2>2, <2>3
<1>4. CountInv' /\ AttachInv'
  BY <1>1, <1>2, <1>3 DEF CountInv, AttachInv
<1>5. Streams(C)'
  BY <1>1, <1>2, SameStreams
<1>6. Flow(C, P, Q)'
  BY <1>0, <1>2, <1>3, <1>5 DEF Flow, Expected
<1>. QED  BY <1>4, <1>6 DEF ContentInv

LEMMA ContentInit ==
    ASSUME Init
    PROVE  ContentInv
<1>. DEFINE C == [k \in 1..N + 1 |-> <<>>]
<1>1. Streams(C) /\ C[1] = <<>> /\ C[N + 1] = <<>>
  BY InitStreams DEF Init
<1>2. /\ \A i \in 0..N : pipe[i] = <<>>
      /\ \A i \in 1..N : Quiet(i)
      /\ toPush = <<>>
  BY DEF Init, ChainInit, Quiet, Fresh
<1>3. /\ attached = FALSE /\ lock = FALSE /\ docCount = 0 /\ counter = 0 /\ pc = "idle"
      /\ \A d \in DocIds : index[d] = <<>> /\ inserter[d] = "none"
  BY DEF Init
<1>4. CountInv /\ AttachInv
  <2>1. \A d \in DocIds : ~(d <= docCount)
    BY <1>3, ConstantFacts
  <2>2. \A d \in DocIds : Len(index[d]) = 0
    BY <1>3
  <2>3. ~Listening
    BY <1>3 DEF Listening
  <2>. QED  BY <1>2, <1>3, <2>1, <2>2, <2>3 DEF CountInv, AttachInv
<1>. HIDE DEF C
<1>5. Flow(C, <<>>, <<>>)
  <2>1. (C[1] \o pipe[0]) \o toPush = Inserted[docCount + (IF lock THEN 1 ELSE 0)]
    <3>1. pipe[0] = <<>>
      BY <1>2, ConstantFacts
    <3>2. docCount + (IF lock THEN 1 ELSE 0) = 0
      BY <1>3
    <3>. QED  BY <1>1, <1>2, <3>1, <3>2, InsertedStep
  <2>2. C[N + 1] = <<>> \o <<>> /\ <<>> \in Seq(Tokens) /\ pipe[N] = <<>>
    BY <1>1, <1>2, EmptySeq, ConstantFacts
  <2>3. \A d \in DocIds : ~(d <= docCount)
    BY <1>3, ConstantFacts
  <2>4. \A d \in DocIds : TextsOf(d, <<>>) = <<>>
    BY TextsOfNothing
  <2>. QED  BY <1>1, <1>3, <2>1, <2>2, <2>3, <2>4 DEF Flow
<1>. QED  BY <1>4, <1>5 DEF ContentInv

LEMMA ContentNext ==
    ASSUME Inv, ContentInv, [Next]_vars
    PROVE  ContentInv'
  BY FilterFlow, PushFlow, LockFlow, InsertFlow, EndFlow, OtherFlow
  DEF Next, Client, InserterRuns

THEOREM ContentInvariance == Spec => []ContentInv
  BY ContentInit, ContentNext, Invariance, PTL DEF Spec

\* WaitInsert returns when every document given to Insert is counted, and each is
\* whole in the lexicon, except the first if a text of it was sent to nobody
\* (WaitInsert, Insert, inserter, SendAll).
THEOREM WaitInsertIsRight == Spec => []WaitInsertIsComplete
<1>1. ASSUME Inv, ContentInv PROVE WaitInsertIsComplete
  <2>. SUFFICES ASSUME pc = "waited"
                PROVE  /\ docCount = doc
                       /\ \A d \in 1..doc :
                            /\ termCount[d] = Len(index[d])
                            /\ d # 1 \/ "text" \notin dropped => index[d] = Expected(d)
    BY DEF WaitInsertIsComplete
  <2>0. PICK C, P, Q : Flow(C, P, Q)
    BY <1>1 DEF ContentInv
  <2>1. docCount = doc /\ doc \in 0..Len(Documents)
    BY <1>1 DEF ContentInv, AttachInv, Inv, ClientInv, TypeOK
  <2>2. ASSUME NEW d \in 1..doc
        PROVE  /\ termCount[d] = Len(index[d])
               /\ d # 1 \/ "text" \notin dropped => index[d] = Expected(d)
    <3>1. d \in DocIds /\ d <= docCount
      BY <2>1, ConstantFacts
    <3>2. termCount[d] = Len(index[d])
      BY <1>1, <3>1 DEF ContentInv, CountInv
    <3>3. ASSUME d # 1 \/ "text" \notin dropped PROVE index[d] = Expected(d)
      <4>1. Expected(d) = TextsOf(d, P) \o index[d] /\ TextsOf(d, P) = <<>>
        BY <2>0, <3>1, <3>3 DEF Flow
      <4>2. index[d] \in Seq(Texts)
        BY <1>1, <3>1 DEF Inv, TypeOK
      <4>3. <<>> \o index[d] = index[d]
        BY <4>2, ConcatEmptySeq
      <4>. QED  BY <4>1, <4>3
    <3>. QED  BY <3>2, <3>3
  <2>. QED  BY <2>1, <2>2
<1>. QED  BY <1>1, Invariance, ContentInvariance, PTL

\* Whenever the inserter starts, a document has a part of what it is to have,
\* to the end once it is counted, and only the first may lack its beginning
\* (SendToNobody's window in filter.go Send, Insert, inserter).
THEOREM OnlyTheBeginningIsLost == Spec => []NothingElseIndexed
<1>1. ASSUME Inv, ContentInv PROVE NothingElseIndexed
  <2>. SUFFICES ASSUME NEW d \in DocIds
                PROVE  \E j, k \in 0..Len(Expected(d)) :
                          /\ index[d] = SubSeq(Expected(d), j + 1, k)
                          /\ d # 1 => j = 0
                          /\ d <= docCount => k = Len(Expected(d))
    BY DEF NothingElseIndexed
  <2>0. PICK C, P, Q : Flow(C, P, Q)
    BY <1>1 DEF ContentInv
  <2>1. /\ ChainTypeOK /\ Streams(C) /\ docCount \in Nat /\ d \in Nat \ {0} /\ index[d] \in Seq(Texts)
        /\ P \in Seq(Tokens) /\ Q \in Seq(Tokens) /\ C[N + 1] = P \o Q
        /\ index[d] = TextsOf(d, Q) /\ (d # 1 => TextsOf(d, P) = <<>>)
        /\ d \in 0..Len(Documents)
    <3>1. ChainTypeOK /\ docCount \in Nat /\ index[d] \in Seq(Texts)
      BY <1>1 DEF Inv, TypeOK
    <3>2. d \in Nat \ {0} /\ d \in 0..Len(Documents)
      BY ConstantFacts
    <3>3. /\ Streams(C) /\ P \in Seq(Tokens) /\ Q \in Seq(Tokens) /\ C[N + 1] = P \o Q
          /\ index[d] = TextsOf(d, Q) /\ (d # 1 => TextsOf(d, P) = <<>>)
      BY <2>0 DEF Flow
    <3>. QED  BY <3>1, <3>2, <3>3
  <2>. DEFINE a == TextsOf(d, P)
              b == index[d]
  <2>2. a \in Seq(Texts) /\ Len(a) \in Nat /\ b \in Seq(Texts) /\ Len(b) \in Nat
        /\ (d # 1 => Len(a) = 0)
    BY <2>1, TextsOfType, LenProperties
  <2>3. ASSUME NEW c \in Seq(Texts), Expected(d) = (a \o b) \o c, d <= docCount => c = <<>>
        PROVE  \E j, k \in 0..Len(Expected(d)) :
                  /\ b = SubSeq(Expected(d), j + 1, k)
                  /\ d # 1 => j = 0
                  /\ d <= docCount => k = Len(Expected(d))
    <3>. DEFINE x == a \o b
                k == Len(a) + Len(b)
                y == x \o c
    <3>. HIDE DEF a, b
    <3>1. x \in Seq(Texts) /\ Len(x) = k
      BY <2>2, ConcatProperties
    <3>2. SubSeq(x, Len(a) + 1, k) = b
      BY <2>2, <3>1, SubSeqOfConcat2
    <3>. HIDE DEF x
    <3>3. Len(y) = k + Len(c) /\ Len(c) \in Nat
      <4>1. Len(x \o c) = Len(x) + Len(c)
        BY <2>3, <3>1, ConcatProperties
      <4>2. Len(c) \in Nat
        BY <2>3, LenProperties
      <4>. QED  BY <3>1, <4>1, <4>2
    <3>4. SubSeq(y, Len(a) + 1, k) = SubSeq(x, Len(a) + 1, k)
      BY <2>2, <2>3, <3>1, SubSeqOfConcat1
    <3>5. d <= docCount => k = Len(y)
      BY <2>3, <3>1, <3>3
    <3>6. Expected(d) = y
      BY <2>3 DEF x
    <3>7. Len(a) \in 0..Len(y) /\ k \in 0..Len(y)
      BY <2>2, <3>3
    <3>. HIDE DEF y, k
    <3>. QED  BY <2>2, <3>2, <3>4, <3>5, <3>6, <3>7
  <2>4. CASE d <= docCount
    <3>1. Expected(d) = a \o b
      BY <2>0, <2>4 DEF Flow
    <3>2. (a \o b) \o <<>> = a \o b /\ <<>> \in Seq(Texts)
      BY <2>2, ConcatProperties, ConcatEmptySeq, EmptySeq
    <3>. HIDE DEF a, b
    <3>3. Expected(d) = (a \o b) \o <<>>
      BY <3>1, <3>2
    <3>. QED  BY <2>3, <3>2, <3>3 DEF b
  <2>5. CASE d = docCount + 1 /\ lock
    <3>. DEFINE s == Inserted[d]
    <3>1. (C[1] \o pipe[0]) \o toPush = s /\ s \in Seq(Tokens)
      BY <2>0, <2>1, <2>5, InsertedType DEF Flow
    <3>2. BeginsWith(s, C[1])
      <4>. DEFINE t1 == C[1]
                  t2 == pipe[0]
                  t3 == toPush
      <4>1. t1 \in Seq(Tokens) /\ t2 \in Seq(Tokens) /\ t3 \in Seq(Tokens) /\ s = (t1 \o t2) \o t3
        BY <2>1, <3>1, StreamsFacts
      <4>. HIDE DEF s, t1, t2, t3
      <4>2. (t1 \o t2) \o t3 = t1 \o (t2 \o t3) /\ t2 \o t3 \in Seq(Tokens)
        BY <4>1, TokensConcat, SMTT(30)
      <4>3. BeginsWith(s, t1)
        BY <4>1, <4>2 DEF BeginsWith
      <4>. QED  BY <4>3 DEF t1
    <3>. HIDE DEF s
    <3>3. BeginsWith(PassAll(Filter, s), C[N + 1])
      BY <2>1, <3>1, <3>2, StreamsBegin
    <3>4. PICK m \in Seq(Tokens) : PassAll(Filter, s) = (P \o Q) \o m
      BY <2>1, <3>3 DEF BeginsWith
    <3>. DEFINE c == TextsOf(d, m)
    <3>5. P \o Q \in Seq(Tokens)
      BY <2>1, TokensConcat
    <3>6. TextsOf(d, P \o Q) = a \o b
      <4>1. TextsOf(d, P \o Q) = TextsOf(d, P) \o TextsOf(d, Q)
        BY <2>1, TextsOfConcat
      <4>. QED  BY <2>1, <4>1
    <3>7. TextsOf(d, (P \o Q) \o m) = TextsOf(d, P \o Q) \o c /\ c \in Seq(Texts)
      BY <3>4, <3>5, TextsOfConcat, TextsOfType
    <3>8. Expected(d) = TextsOf(d, PassAll(Filter, s))
      BY DEF Expected, s
    <3>. HIDE DEF a, b, c
    <3>9. Expected(d) = (a \o b) \o c
      BY <3>4, <3>6, <3>7, <3>8
    <3>10. ~(d <= docCount)
      BY <2>1, <2>5
    <3>. QED  BY <2>3, <3>7, <3>9, <3>10 DEF b
  <2>6. CASE d > docCount + (IF lock THEN 1 ELSE 0)
    <3>1. index[d] = <<>> /\ ~(d <= docCount)
      BY <1>1, <2>1, <2>6 DEF Inv, IndexInv
    <3>2. Expected(d) \in Seq(Texts) /\ Len(Expected(d)) \in Nat
      <4>1. PassAll(Filter, Inserted[d]) \in Seq(Tokens)
        <5>1. Inserted[d] \in Seq(Tokens)
          BY <2>1, InsertedType
        <5>. QED  BY <5>1, PassAllType
      <4>. QED  BY <4>1, TextsOfType, LenProperties DEF Expected
    <3>3. SubSeq(Expected(d), 0 + 1, 0) = <<>>
      BY <3>2, SubSeqEmpty
    <3>4. 0 \in 0..Len(Expected(d))
      BY <3>2
    <3>. QED  BY <3>1, <3>3, <3>4
  <2>7. d <= docCount \/ (d = docCount + 1 /\ lock) \/ d > docCount + (IF lock THEN 1 ELSE 0)
    BY <2>1
  <2>. QED  BY <2>4, <2>5, <2>6, <2>7
<1>. QED  BY <1>1, Invariance, ContentInvariance, PTL
=============================================================================

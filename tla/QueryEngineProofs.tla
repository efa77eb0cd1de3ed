------------------------- MODULE QueryEngineProofs -------------------------
(***************************************************************************)
(* Proofs about QueryEngine for every chain of filters, every index, every  *)
(* set of queries and every capacity.  The chain is that of FilterChain-    *)
(* Proofs with the tokens of document 0, the search that of PhraseSearch-   *)
(* Proofs; what is added is where the Null token is when it has left the    *)
(* chain (in FilterTokens' hand, or last in filterEnd), and that what is    *)
(* read from filterEnd is what passing the filters one by one gives.        *)
(***************************************************************************)
EXTENDS QueryEngine, FilterChainProofs, PhraseSearchProofs

-----------------------------------------------------------------------------
(* The inductive invariant.                                                *)

\* A Null token that has left the chain has nothing behind it.
HandInv ==
    /\ hand = <<>> \/ \E tok \in Tokens : /\ hand = <<tok>> /\ tok.doc = 0
                                          /\ tok.type = "null" => Idle
    /\ Good(filterEnd, 0) /\ NullLast(filterEnd)
    /\ HasNull(filterEnd) => Idle /\ hand = <<>>

\* A query is in the chain from its first token to its Null token.
PcInv ==
    /\ pc = "push" <=> toPush # <<>>
    /\ pc \notin {"push", "collect"} => Idle /\ hand = <<>> /\ filterEnd = <<>>

EngineTypeOK ==
    /\ pc \in {"receive", "push", "collect", "rank", "search", "dead"}
    /\ query \in Queries \cup {NoQuery} /\ collected \in Seq(Texts)
    /\ reply \in [kind : {"none", "nothing", "documents", "unsupported", "stats", "unknown"},
                  docs : SUBSET Nat]
    /\ mu \in Seq(Means) /\ Len(mu) <= 1

CollectorTypeOK ==
    /\ Len(pipe[0]) <= StartCap /\ \A i \in 1..N : Len(pipe[i]) <= Capacity
    /\ collector \in {"starting", "connected", "reading"}
    /\ Len(filterEnd) <= EndCap
    /\ lost \subseteq {"text", "symbol", "null"} /\ dated \in BOOLEAN

EngineInv == pc \in {"rank", "push", "collect"} => query \in Queries

Inv ==
    /\ ChainInv(0) /\ SearchInv /\ HandInv /\ PcInv
    /\ EngineTypeOK /\ CollectorTypeOK /\ EngineInv

\* TokenizeToChan: the tokens of the query, its Null token last.
LEMMA TokensOfFacts ==
    ASSUME NEW q \in Queries
    PROVE  Good(TokensOf(q), 0) /\ NullLast(TokensOf(q)) /\ TokensOf(q) # <<>>
<1>. DEFINE E == [text : Texts, type : {"text", "symbol"}, phrase : Nat]
            Make(k) == [doc |-> 0, text |-> q.tokens[k].text, type |-> q.tokens[k].type,
                        phrase |-> q.tokens[k].phrase, final |-> FALSE]
            tokens == [k \in DOMAIN q.tokens |-> Make(k)]
<1>1. q.tokens \in Seq(E) /\ Len(q.tokens) \in Nat /\ DOMAIN q.tokens = 1..Len(q.tokens)
  <2>1. q.tokens \in Seq(E)
    BY QueriesAssumption
  <2>. QED  BY <2>1, LenProperties
<1>2. ASSUME NEW k \in 1..Len(q.tokens)
      PROVE  tokens[k] \in Tokens /\ tokens[k].doc = 0 /\ tokens[k].type # "null"
  <2>1. q.tokens[k] \in E
    BY <1>1, ElementOfSeq
  <2>2. tokens[k] = Make(k)
    BY <1>1
  <2>. HIDE DEF tokens
  <2>. QED  BY <2>1, <2>2 DEF Tokens
<1>3. tokens \in Seq(Tokens) /\ Len(tokens) = Len(q.tokens)
  <2>1. tokens \in [1..Len(q.tokens) -> Tokens]
    BY <1>1, <1>2
  <2>. QED  BY <1>1, <2>1, SeqDef, LenProperties
<1>4. Good(tokens, 0) /\ ~HasNull(tokens)
  <2>. HIDE DEF tokens
  <2>. QED  BY <1>2, <1>3 DEF Good, HasNull
<1>5. NullToken(0) \in Tokens /\ NullToken(0).doc = 0
  <2>1. <<"">> \in Texts
    <3>1. \A w \in Words : <<w>> \in Texts
      BY DEF Texts
    <3>. QED  BY <3>1, WordsAssumption
  <2>. QED  BY <2>1 DEF NullToken, Tokens
<1>6. TokensOf(q) = Append(tokens, NullToken(0))
  BY DEF TokensOf
<1>. HIDE DEF tokens
<1>. QED  BY <1>4, <1>5, <1>6, AppendFacts

-----------------------------------------------------------------------------
(* The filters and FilterTokens.                                           *)

\* A chain that is not idle: no Null token has left it.
LEMMA ChainStep ==
    ASSUME Inv, ChainInv(0)', ~Idle, UNCHANGED <<searchVars, engineVars, collectorVars, dated>>,
           toPush' = toPush, lost' \subseteq {"text", "symbol", "null"},
           Len(pipe'[0]) <= StartCap, \A j \in 1..N : Len(pipe'[j]) <= Capacity
    PROVE  Inv'
<1>1. UNCHANGED <<pc, query, collected, reply, mu, collector, hand, filterEnd, dated>>
  BY DEF engineVars, collectorVars
<1>2. HandInv'
  BY <1>1 DEF Inv, HandInv
<1>3. PcInv'
  BY <1>1 DEF Inv, PcInv
<1>4. EngineTypeOK' /\ CollectorTypeOK' /\ EngineInv'
  BY <1>1 DEF Inv, EngineTypeOK, CollectorTypeOK, EngineInv
<1>. QED  BY <1>2, <1>3, <1>4, SearchInvSame DEF Inv

LEMMA CapFacts ==
    ASSUME Inv
    PROVE  /\ StartCap \in Nat /\ Capacity \in Nat /\ N \in Nat /\ 0 \in 0..N
           /\ \A j \in 0..N : Len(pipe[j]) \in Nat
           /\ Len(pipe[0]) <= StartCap /\ \A j \in 1..N : Len(pipe[j]) <= Capacity
<1>1. \A j \in 0..N : pipe[j] \in Seq(Tokens)
  BY DEF Inv, ChainInv, ChainTypeOK
<1>. QED  BY <1>1, LenProperties, ChainConstants, CapsAssumption DEF Inv, CollectorTypeOK

\* The tokens FilterTokens did not take, like all tokens, are of three types.
LEMMA LostTypes ==
    ASSUME Inv, SendToNobody
    PROVE  lost' \subseteq {"text", "symbol", "null"} /\ lost' # {}
<1>1. held[N] \in Seq(Tokens) /\ held[N] # <<>>
  BY ChainConstants DEF Inv, ChainInv, ChainTypeOK, SendToNobody, DropHeld
<1>2. 1 \in 1..Len(held[N])
  BY <1>1, LenProperties, EmptySeq
<1>3. \A tok \in ToSet(held[N]) : tok.type \in {"text", "symbol", "null"}
  <2>. SUFFICES ASSUME NEW k \in 1..Len(held[N])
                PROVE  held[N][k].type \in {"text", "symbol", "null"}
    BY <1>1, LenProperties DEF ToSet
  <2>1. held[N][k] \in Tokens
    BY <1>1, ElementOfSeq
  <2>. QED  BY <2>1 DEF Tokens
<1>4. held[N][1] \in ToSet(held[N])
  BY <1>1, <1>2, LenProperties DEF ToSet
<1>5. lost \subseteq {"text", "symbol", "null"}
  BY DEF Inv, CollectorTypeOK
<1>6. lost' = lost \cup {tok.type : tok \in ToSet(held[N])}
  BY DEF SendToNobody
<1>7. held[N][1].type \in lost'
  BY <1>4, <1>6
<1>8. lost' \subseteq {"text", "symbol", "null"}
  BY <1>3, <1>5, <1>6
<1>. QED  BY <1>7, <1>8

LEMMA FilterStep ==
    ASSUME Inv, NEW i \in 1..N, FilterRuns(i)
    PROVE  Inv'
<1>0. /\ StartCap \in Nat /\ Capacity \in Nat /\ N \in Nat /\ 0 \in 0..N
      /\ \A j \in 0..N : Len(pipe[j]) \in Nat
      /\ Len(pipe[0]) <= StartCap /\ \A j \in 1..N : Len(pipe[j]) <= Capacity
      /\ ChainInv(0)
  BY CapFacts DEF Inv
<1>1. /\ UNCHANGED <<searchVars, engineVars, collectorVars, dated>> /\ toPush' = toPush
      /\ lost' \subseteq {"text", "symbol", "null"}
  <2>1. CASE SendToNobody
    BY <2>1, LostTypes DEF SendToNobody, DropHeld
  <2>2. CASE Run(i) \/ SendOn(i)
    BY <2>2 DEF Run, SendOn, FilterRound, ReadToken, NotifyRound, SendToken, historyVars, Inv,
                CollectorTypeOK
  <2>. QED  BY <2>1, <2>2 DEF FilterRuns
<1>2. CASE Run(i)
  <2>1. CASE ReadToken(i)
    <3>1. /\ ChainInv(0)' /\ ~Idle
          /\ \A j \in 0..N : Len(pipe'[j]) \in Nat /\ Len(pipe'[j]) <= Len(pipe[j])
      BY <1>0, <2>1, ReadChain
    <3>2. Len(pipe'[0]) <= StartCap /\ \A j \in 1..N : Len(pipe'[j]) <= Capacity
      BY <1>0, <3>1
    <3>. QED  BY <1>1, <3>1, <3>2, ChainStep
  <2>2. CASE NotifyRound(i)
    BY <1>0, <1>1, <2>2, NotifyChain, ChainStep
  <2>. QED  BY <1>2, <2>1, <2>2 DEF Run, FilterRound
<1>3. CASE SendOn(i)
  <2>1. /\ ChainInv(0)' /\ ~Idle
        /\ \A j \in 0..N : pipe'[j] = pipe[j] \/ (j = i /\ Len(pipe'[j]) <= Capacity)
    BY <1>0, <1>3, SendChain DEF SendOn
  <2>2. Len(pipe'[0]) <= StartCap /\ \A j \in 1..N : Len(pipe'[j]) <= Capacity
    BY <1>0, <2>1
  <2>. QED  BY <1>1, <2>1, <2>2, ChainStep
<1>4. CASE SendToNobody
  BY <1>0, <1>1, <1>4, DropChain, ChainStep DEF SendToNobody
<1>. QED  BY <1>2, <1>3, <1>4 DEF FilterRuns

\* FilterTokens takes a token: the Null token only from an idle chain.
LEMMA TakeTokenStep ==
    ASSUME Inv, TakeToken
    PROVE  Inv'
<1>1. /\ hand = <<>> /\ TakeArrived /\ hand' = <<Arrived>> /\ toPush' = toPush
      /\ UNCHANGED <<searchVars, pc, query, collected, reply, mu, collector, filterEnd, lost, dated>>
  BY DEF TakeToken, TakeArrived, engineVars, historyVars
<1>2. /\ ChainInv(0)' /\ ~Idle
      /\ Arrived \in Tokens /\ Arrived.doc = 0
      /\ Arrived.type = "null" => Idle'
      /\ \A j \in 0..N : Len(pipe'[j]) \in Nat /\ Len(pipe'[j]) <= Len(pipe[j])
  BY <1>1, ArrivedChain DEF Inv
<1>. HIDE DEF Arrived
<1>3. HandInv'
  BY <1>1, <1>2 DEF Inv, HandInv
<1>4. PcInv'
  BY <1>1, <1>2 DEF Inv, PcInv
<1>5. CollectorTypeOK'
  <2>1. Len(pipe'[0]) <= StartCap /\ \A j \in 1..N : Len(pipe'[j]) <= Capacity
    BY <1>2, CapFacts
  <2>. QED  BY <1>1, <2>1 DEF Inv, CollectorTypeOK
<1>6. EngineTypeOK' /\ EngineInv'
  BY <1>1 DEF Inv, EngineTypeOK, EngineInv
<1>. QED  BY <1>1, <1>2, <1>3, <1>4, <1>5, <1>6, SearchInvSame DEF Inv

LEMMA PassOnStep ==
    ASSUME Inv, PassOn
    PROVE  Inv'
<1>1. /\ hand # <<>> /\ hand' = <<>> /\ Len(filterEnd) < EndCap
      /\ filterEnd' = Append(filterEnd, hand[1])
      /\ UNCHANGED <<chainVars, toPush>> /\ UNCHANGED searchVars
      /\ UNCHANGED <<pc, query, collected, reply, mu, collector, lost, dated>>
  BY DEF PassOn, engineVars, historyVars
<1>2. PICK tok \in Tokens : hand = <<tok>> /\ tok.doc = 0 /\ (tok.type = "null" => Idle)
  BY <1>1 DEF Inv, HandInv
<1>3. ChainInv(0)' /\ (Idle' <=> Idle)
  BY <1>1, SameChain DEF Inv
<1>4. /\ Good(filterEnd', 0) /\ NullLast(filterEnd') /\ Len(filterEnd') = Len(filterEnd) + 1
      /\ HasNull(filterEnd') => tok.type = "null"
      /\ Len(filterEnd) \in Nat
  <2>1. Good(filterEnd, 0) /\ ~HasNull(filterEnd) /\ filterEnd' = Append(filterEnd, tok)
    BY <1>1, <1>2 DEF Inv, HandInv
  <2>. QED  BY <1>2, <2>1, AppendFacts
<1>5. HandInv'
  BY <1>1, <1>2, <1>3, <1>4 DEF HandInv
<1>6. PcInv'
  BY <1>1, <1>3 DEF Inv, PcInv
<1>7. CollectorTypeOK'
  <2>1. pipe' = pipe /\ Len(filterEnd') <= EndCap
    BY <1>1, <1>4, CapsAssumption DEF chainVars
  <2>. QED  BY <1>1, <2>1 DEF Inv, CollectorTypeOK
<1>8. EngineTypeOK' /\ EngineInv'
  BY <1>1 DEF Inv, EngineTypeOK, EngineInv
<1>. QED  BY <1>1, <1>3, <1>5, <1>6, <1>7, <1>8, SearchInvSame DEF Inv

\* The steps that move no token.
LEMMA StillStep ==
    ASSUME Inv, UNCHANGED <<chainVars, toPush, hand, filterEnd>>, SearchInv',
           EngineTypeOK', EngineInv', lost' \subseteq {"text", "symbol", "null"}, dated' \in BOOLEAN,
           collector' \in {"starting", "connected", "reading"},
           \/ pc' = pc
           \/ pc \notin {"push", "collect"} /\ pc' \notin {"push", "collect"}
    PROVE  Inv'
<1>1. ChainInv(0)' /\ (Idle' <=> Idle) /\ pipe' = pipe
  BY SameChain DEF Inv, chainVars
<1>2. HandInv' /\ PcInv'
  BY <1>1 DEF Inv, HandInv, PcInv
<1>3. CollectorTypeOK'
  BY <1>1 DEF Inv, CollectorTypeOK
<1>. QED  BY <1>1, <1>2, <1>3 DEF Inv

LEMMA ConnectStep ==
    ASSUME Inv, Connect \/ Attach
    PROVE  Inv'
<1>1. /\ UNCHANGED <<chainVars, toPush, hand, filterEnd>> /\ UNCHANGED searchVars
      /\ collector' \in {"starting", "connected", "reading"}
      /\ UNCHANGED <<pc, query, collected, reply, mu, lost, dated>>
  BY DEF Connect, Attach, engineVars, historyVars
<1>2. EngineTypeOK' /\ EngineInv' /\ lost' \subseteq {"text", "symbol", "null"} /\ dated' \in BOOLEAN
  BY <1>1 DEF Inv, EngineTypeOK, EngineInv, CollectorTypeOK
<1>3. SearchInv'
  BY <1>1, SearchInvSame DEF Inv
<1>. QED  BY <1>1, <1>2, <1>3, StillStep

-----------------------------------------------------------------------------
(* The engine and its tokens.                                              *)

\* A query is received when the chain is idle.
LEMMA ReceiveStep ==
    ASSUME Inv, NEW q \in Queries, ReceivePhrase(q)
    PROVE  Inv'
<1>1. /\ pc = "receive" /\ pc' = "push" /\ query' = q /\ toPush' = TokensOf(q)
      /\ collected' = <<>> /\ reply' = NoReply /\ lost' = {} /\ dated' \in BOOLEAN
      /\ UNCHANGED chainVars /\ UNCHANGED searchVars
      /\ UNCHANGED <<mu, collector, hand, filterEnd>>
  BY DEF ReceivePhrase, ReceiveQuery, collectorVars
<1>2. Idle /\ hand = <<>> /\ filterEnd = <<>> /\ ChainInv(0)
  BY <1>1 DEF Inv, PcInv
<1>3. Good(TokensOf(q), 0) /\ NullLast(TokensOf(q)) /\ TokensOf(q) # <<>>
  BY TokensOfFacts
<1>4. ChainInv(0)'
  <2>1. Good(toPush', 0) /\ NullLast(toPush')
    BY <1>1, <1>3
  <2>. QED  BY <1>1, <1>2, <2>1, StartChain
<1>5. HandInv' /\ PcInv'
  BY <1>1, <1>2, <1>3, EmptyFacts DEF HandInv, PcInv
<1>6. EngineTypeOK' /\ EngineInv'
  <2>1. NoReply \in [kind : {"none", "nothing", "documents", "unsupported", "stats", "unknown"},
                     docs : SUBSET Nat]
    BY DEF NoReply
  <2>. QED  BY <1>1, <2>1, EmptySeq DEF Inv, EngineTypeOK, EngineInv
<1>7. CollectorTypeOK'
  BY <1>1 DEF Inv, CollectorTypeOK, chainVars
<1>. QED  BY <1>1, <1>4, <1>5, <1>6, <1>7, SearchInvSame DEF Inv

LEMMA RefuseStep ==
    ASSUME Inv, NEW q \in Queries, RefusePhrase(q) \/ ReceiveStats(q)
    PROVE  Inv'
<1>1. /\ pc = "receive" /\ pc' = pc /\ query' = q
      /\ \E kind \in {"unsupported", "stats", "unknown"} : reply' = Reply(kind)
      /\ lost' = {} /\ dated' \in BOOLEAN
      /\ UNCHANGED <<chainVars, toPush, hand, filterEnd>> /\ UNCHANGED searchVars
      /\ UNCHANGED <<collected, mu, collector>>
  BY DEF RefusePhrase, ReceiveStats, ReceiveQuery, collectorVars
<1>2. EngineTypeOK' /\ EngineInv'
  <2>1. reply' \in [kind : {"none", "nothing", "documents", "unsupported", "stats", "unknown"},
                   docs : SUBSET Nat]
    BY <1>1 DEF Reply
  <2>. QED  BY <1>1, <2>1 DEF Inv, EngineTypeOK, EngineInv
<1>3. SearchInv' /\ collector' \in {"starting", "connected", "reading"}
  BY <1>1, SearchInvSame DEF Inv, CollectorTypeOK
<1>4. lost' \subseteq {"text", "symbol", "null"}
  BY <1>1
<1>. QED  BY <1>1, <1>2, <1>3, <1>4, StillStep

LEMMA PushStep ==
    ASSUME Inv, Push
    PROVE  Inv'
<1>1. /\ PushToken(StartCap) /\ pc = "push" /\ toPush # <<>> /\ toPush' = Tail(toPush)
      /\ pc' = IF Len(toPush) = 1 THEN "collect" ELSE "push"
      /\ UNCHANGED searchVars
      /\ UNCHANGED <<query, collected, reply, mu, collector, hand, filterEnd, lost, dated>>
  BY DEF Push, PushToken, collectorVars, historyVars
<1>2. /\ ChainInv(0)' /\ ~Idle
      /\ \A j \in 0..N : pipe'[j] = pipe[j] \/ (j = 0 /\ Len(pipe'[j]) <= StartCap)
  BY <1>1, PushChain, CapFacts DEF Inv
<1>3. HandInv'
  BY <1>1, <1>2 DEF Inv, HandInv
<1>4. Len(toPush) = 1 <=> Tail(toPush) = <<>>
  <2>1. /\ Tail(toPush) \in Seq(Tokens) /\ Len(Tail(toPush)) = Len(toPush) - 1
        /\ Len(toPush) \in Nat
    BY <1>1, HeadTailProperties, LenProperties DEF Inv, ChainInv, ChainTypeOK
  <2>2. Tail(toPush) = <<>> <=> Len(Tail(toPush)) = 0
    BY <2>1, EmptySeq
  <2>. QED  BY <2>1, <2>2
<1>5. PcInv'
  BY <1>1, <1>4 DEF PcInv
<1>6. EngineTypeOK' /\ EngineInv'
  <2>1. pc' \in {"push", "collect"}
    BY <1>1
  <2>. QED  BY <1>1, <2>1 DEF Inv, EngineTypeOK, EngineInv
<1>7. CollectorTypeOK'
  <2>1. Len(pipe'[0]) <= StartCap /\ \A j \in 1..N : Len(pipe'[j]) <= Capacity
    BY <1>2, CapFacts
  <2>. QED  BY <1>1, <2>1 DEF Inv, CollectorTypeOK
<1>. QED  BY <1>1, <1>2, <1>3, <1>5, <1>6, <1>7, SearchInvSame DEF Inv

\* getDocTokens ends at the Null token, and then nothing is anywhere.
LEMMA CollectStep ==
    ASSUME Inv, Collect
    PROVE  Inv'
<1>. DEFINE tok == Head(filterEnd)
<1>1. /\ pc = "collect" /\ filterEnd # <<>> /\ filterEnd' = Tail(filterEnd)
      /\ IF tok.type = "null" THEN pc' = "rank" /\ collected' = collected
         ELSE pc' = pc /\ collected' = Append(collected, tok.text)
      /\ UNCHANGED <<chainVars, toPush>> /\ UNCHANGED searchVars
      /\ UNCHANGED <<query, reply, mu, collector, hand, lost, dated>>
  BY DEF Collect, historyVars
<1>2. /\ Good(Tail(filterEnd), 0) /\ NullLast(Tail(filterEnd))
      /\ Len(Tail(filterEnd)) = Len(filterEnd) - 1 /\ Len(filterEnd) \in Nat
      /\ tok \in Tokens
      /\ HasNull(Tail(filterEnd)) => HasNull(filterEnd)
      /\ tok.type = "null" => Tail(filterEnd) = <<>> /\ HasNull(filterEnd)
  BY <1>1, TailFacts DEF Inv, HandInv
<1>. HIDE DEF tok
<1>3. ChainInv(0)' /\ (Idle' <=> Idle) /\ pipe' = pipe
  BY <1>1, SameChain DEF Inv, chainVars
<1>4. HandInv'
  BY <1>1, <1>2, <1>3 DEF Inv, HandInv
<1>5. PcInv'
  <2>1. toPush = <<>>
    BY <1>1 DEF Inv, PcInv
  <2>2. tok.type = "null" => Idle /\ hand = <<>>
    BY <1>2 DEF Inv, HandInv
  <2>. QED  BY <1>1, <1>2, <1>3, <2>1, <2>2 DEF PcInv
<1>6. EngineTypeOK' /\ EngineInv'
  <2>1. tok.text \in Texts
    BY <1>2 DEF Tokens
  <2>2. collected' \in Seq(Texts) /\ pc' \in {"rank", "collect"} /\ query \in Queries
    BY <1>1, <2>1, AppendProperties, SMTT(30) DEF Inv, EngineTypeOK, EngineInv
  <2>. QED  BY <1>1, <2>2 DEF Inv, EngineTypeOK, EngineInv
<1>7. CollectorTypeOK'
  <2>1. Len(filterEnd') <= EndCap
    BY <1>1, <1>2, CapsAssumption DEF Inv, CollectorTypeOK
  <2>. QED  BY <1>1, <1>3, <2>1 DEF Inv, CollectorTypeOK
<1>. QED  BY <1>1, <1>3, <1>4, <1>5, <1>6, <1>7, SearchInvSame DEF Inv

-----------------------------------------------------------------------------
(* The answer.                                                             *)

\* What is answered with are documents of the index.
LEMMA ListedDocs ==
    ASSUME SearchInv
    PROVE  /\ \A t \in DOMAIN index.lists : DOMAIN index.lists[t] \subseteq Nat
           /\ pl # <<>> => IsList(pl[1])
           /\ DOMAIN Found \subseteq Nat
<1>1. \A t \in DOMAIN index.lists : IsList(index.lists[t])
  BY IndexesAssumption DEF IsIndex, SearchInv, SearchTypeOK
<1>2. pl # <<>> => IsList(pl[1])
  BY DEF SearchInv, SearchTypeOK
<1>. QED  BY <1>1, <1>2, EmptyIsList DEF IsList, Found

LEMMA SendFacts ==
    ASSUME NEW docs \in SUBSET Nat
    PROVE  Answer(docs) \in [kind : {"none", "nothing", "documents", "unsupported", "stats",
                                     "unknown"}, docs : SUBSET Nat]
  BY DEF Answer

\* The mean of an index is that of its terms and documents.
LEMMA SetMeanFacts ==
    ASSUME SearchInv, SetMean, mu \in Seq(Means), Len(mu) <= 1
    PROVE  mu' \in Seq(Means) /\ Len(mu') <= 1
<1>1. CASE mu = <<>> /\ TermCount(index) > 0
  <2>1. index \in Indexes
    BY DEF SearchInv, SearchTypeOK
  <2>2. TermCount(index) \in Nat \ {0} /\ index.count \in Nat \ {0}
    BY <1>1, <2>1, IndexesAssumption, FS_CardinalityType DEF TermCount, IsIndex
  <2>3. mu' = <<OwnMean>> /\ OwnMean \in Means
    BY <1>1, <2>2 DEF SetMean, OwnMean, Means
  <2>. HIDE DEF OwnMean
  <2>. QED  BY <2>3
<1>2. CASE ~(mu = <<>> /\ TermCount(index) > 0)
  BY <1>2 DEF SetMean
<1>. QED  BY <1>1, <1>2

\* ThresholdQueryTerms never asks for more terms than there are.
LEMMA ThresholdCount ==
    ASSUME NEW n \in Nat, NEW t \in Nat, t < 100
    PROVE  (t * n + 99) \div 100 \in 0..n
<1>1. t * n \in Nat /\ t * n <= 100 * n
  <2>1. t * n \in Nat /\ (100 - t) * n \in Nat
    BY SMT
  <2>2. 100 * n = t * n + (100 - t) * n
    BY SMT
  <2>. QED  BY <2>1, <2>2
<1>2. \A a \in Nat : a <= 100 * n => (a + 99) \div 100 \in 0..n
  BY SMT
<1>. QED  BY <1>1, <1>2

LEMMA QueryTermsFacts ==
    ASSUME query \in Queries, collected \in Seq(Texts)
    PROVE  QueryTerms \subseteq Seq(Texts)
<1>1. CASE query.thresh < 100
  <2>. DEFINE ids == DOMAIN collected
              count == (query.thresh * Len(collected) + 99) \div 100
  <2>1. Len(collected) \in Nat /\ ids = 1..Len(collected) /\ query.thresh \in Nat
    BY LenProperties, QueriesAssumption
  <2>2. count \in 0..Len(collected)
    BY <1>1, <2>1, ThresholdCount
  <2>3. ASSUME NEW f \in [ids -> ids]
        PROVE  [k \in 1..count |-> collected[f[k]]] \in Seq(Texts)
    <3>. HIDE DEF count
    <3>1. count \in Nat /\ \A k \in 1..count : f[k] \in 1..Len(collected)
      BY <2>1, <2>2, <2>3
    <3>2. \A k \in 1..count : collected[f[k]] \in Texts
      BY <3>1, ElementOfSeq
    <3>3. [k \in 1..count |-> collected[f[k]]] \in [1..count -> Texts]
      BY <3>2
    <3>. QED  BY <3>1, <3>3, SeqDef
  <2>. QED  BY <1>1, <2>3 DEF QueryTerms, Threshold
<1>2. CASE ~(query.thresh < 100)
  BY <1>2 DEF QueryTerms
<1>. QED  BY <1>1, <1>2

LEMMA RankTermsStep ==
    ASSUME Inv, RankTerms
    PROVE  Inv'
<1>1. /\ pc = "rank" /\ UNCHANGED <<chainVars, toPush, hand, filterEnd>> /\ UNCHANGED searchVars
      /\ UNCHANGED <<query, collected, collector, lost, dated>>
      /\ mu' = mu \/ SetMean
  BY DEF RankTerms, collectorVars, historyVars
<1>2a. PICK used \in QueryTerms : \E docs :
          /\ docs = UNION {DOMAIN index.lists[used[k]] : k \in {j \in DOMAIN used : Known(used[j])}}
          /\ \/ Send(Nothing) \/ Send(Answer(docs)) \/ Die
  BY DEF RankTerms
<1>2. PICK docs :
          /\ docs = UNION {DOMAIN index.lists[used[k]] : k \in {j \in DOMAIN used : Known(used[j])}}
          /\ \/ Send(Nothing) \/ Send(Answer(docs)) \/ Die
  BY <1>2a
<1>3. docs \in SUBSET Nat /\ {} \in SUBSET Nat
  BY <1>2, ListedDocs DEF Known, Inv
<1>. HIDE DEF Send, Die
<1>4. /\ pc' \in {"receive", "dead"}
      /\ reply' \in [kind : {"none", "nothing", "documents", "unsupported", "stats", "unknown"},
                    docs : SUBSET Nat]
  <2>1. reply \in [kind : {"none", "nothing", "documents", "unsupported", "stats", "unknown"},
                   docs : SUBSET Nat]
    BY DEF Inv, EngineTypeOK
  <2>. QED  BY <1>2, <1>3, <2>1, SendFacts DEF Send, Die, Nothing
<1>5. mu' \in Seq(Means) /\ Len(mu') <= 1
  BY <1>1, SetMeanFacts DEF Inv, EngineTypeOK
<1>6. EngineTypeOK' /\ EngineInv'
  BY <1>1, <1>4, <1>5 DEF Inv, EngineTypeOK, EngineInv
<1>7. /\ SearchInv' /\ lost' \subseteq {"text", "symbol", "null"} /\ dated' \in BOOLEAN
      /\ collector' \in {"starting", "connected", "reading"}
  BY <1>1, SearchInvSame DEF Inv, CollectorTypeOK
<1>. QED  BY <1>1, <1>4, <1>6, <1>7, StillStep

LEMMA BeginPhraseStep ==
    ASSUME Inv, BeginPhrase
    PROVE  Inv' /\ SearchNext
<1>1. /\ pc = "rank" /\ pc' = "search"
      /\ UNCHANGED <<chainVars, toPush, hand, filterEnd>>
      /\ UNCHANGED <<query, collected, reply, mu, collector, lost, dated>>
  BY DEF BeginPhrase, collectorVars, historyVars
<1>2. PICK used \in QueryTerms : BeginSearch(used)
  BY DEF BeginPhrase
<1>3. used \in Seq(Texts)
  BY <1>1, QueryTermsFacts DEF Inv, EngineInv, EngineTypeOK
<1>4. SearchNext
  BY <1>2, <1>3 DEF SearchNext
<1>5. SearchInv'
  BY <1>4, SearchInvNext DEF Inv
<1>6. /\ EngineTypeOK' /\ EngineInv' /\ lost' \subseteq {"text", "symbol", "null"} /\ dated' \in BOOLEAN
      /\ collector' \in {"starting", "connected", "reading"}
  BY <1>1 DEF Inv, EngineTypeOK, EngineInv, CollectorTypeOK
<1>. QED  BY <1>1, <1>4, <1>5, <1>6, StillStep

LEMMA SearchingStep ==
    ASSUME Inv, Search
    PROVE  Inv' /\ SearchNext
<1>1. /\ SearchStep /\ UNCHANGED <<chainVars, toPush, hand, filterEnd>>
      /\ UNCHANGED <<pc, query, collected, reply, mu, collector, lost, dated>>
  BY DEF Search, engineVars, collectorVars, historyVars
<1>2. SearchNext
  BY <1>1 DEF SearchNext
<1>3. SearchInv'
  BY <1>2, SearchInvNext DEF Inv
<1>4. /\ EngineTypeOK' /\ EngineInv' /\ lost' \subseteq {"text", "symbol", "null"} /\ dated' \in BOOLEAN
      /\ collector' \in {"starting", "connected", "reading"}
  BY <1>1 DEF Inv, EngineTypeOK, EngineInv, CollectorTypeOK
<1>. QED  BY <1>1, <1>2, <1>3, <1>4, StillStep

\* ProcessPositional of the three rankers.
LEMMA RankFoundStep ==
    ASSUME Inv, RefuseFound \/ RankFound \/ RankFoundCosine \/ RankFoundLM
    PROVE  Inv' /\ SearchNext
<1>1. /\ pc = "search" /\ TakeFound /\ UNCHANGED <<chainVars, toPush, hand, filterEnd>>
      /\ UNCHANGED <<query, collected, collector, lost, dated>>
      /\ mu' = mu \/ SetMean
      /\ Send(Nothing) \/ Send(Answer(DOMAIN Found)) \/ Die
  BY DEF RefuseFound, RankFound, RankFoundCosine, RankFoundLM, collectorVars, historyVars
<1>2. SearchNext
  BY <1>1 DEF SearchNext
<1>3. SearchInv'
  BY <1>2, SearchInvNext DEF Inv
<1>4. DOMAIN Found \in SUBSET Nat /\ {} \in SUBSET Nat
  BY ListedDocs DEF Inv
<1>5. /\ pc' \in {"receive", "dead"}
      /\ reply' \in [kind : {"none", "nothing", "documents", "unsupported", "stats", "unknown"},
                    docs : SUBSET Nat]
  <2>1. reply \in [kind : {"none", "nothing", "documents", "unsupported", "stats", "unknown"},
                   docs : SUBSET Nat]
    BY DEF Inv, EngineTypeOK
  <2>. QED  BY <1>1, <1>4, <2>1, SendFacts DEF Send, Die, Nothing
<1>6. mu' \in Seq(Means) /\ Len(mu') <= 1
  BY <1>1, SetMeanFacts DEF Inv, EngineTypeOK
<1>7. /\ EngineTypeOK' /\ EngineInv' /\ lost' \subseteq {"text", "symbol", "null"} /\ dated' \in BOOLEAN
      /\ collector' \in {"starting", "connected", "reading"}
  BY <1>1, <1>5, <1>6 DEF Inv, EngineTypeOK, EngineInv, CollectorTypeOK
<1>. QED  BY <1>1, <1>2, <1>3, <1>5, <1>7, StillStep

LEMMA OtherQueryStep ==
    ASSUME Inv, OtherQuery
    PROVE  Inv'
<1>1. /\ pc' = pc /\ UNCHANGED <<chainVars, toPush, hand, filterEnd>> /\ UNCHANGED searchVars
      /\ UNCHANGED <<query, collected, reply, collector, lost, dated>>
      /\ \E mean \in OtherMeans : mu' = <<mean>>
  BY DEF OtherQuery, collectorVars, historyVars
<1>2. mu' \in Seq(Means) /\ Len(mu') <= 1
  <2>1. PICK mean \in Means : mu' = <<mean>>
    BY <1>1, MeansAssumption
  <2>. QED  BY <2>1
<1>3. EngineTypeOK' /\ EngineInv'
  BY <1>1, <1>2 DEF Inv, EngineTypeOK, EngineInv
<1>4. /\ SearchInv' /\ lost' \subseteq {"text", "symbol", "null"} /\ dated' \in BOOLEAN
      /\ collector' \in {"starting", "connected", "reading"}
  BY <1>1, SearchInvSame DEF Inv, CollectorTypeOK
<1>. QED  BY <1>1, <1>3, <1>4, StillStep

LEMMA InvInit ==
    ASSUME Init
    PROVE  Inv
<1>1. /\ ChainInit /\ SearchInit /\ pc = "receive" /\ query = NoQuery /\ collected = <<>>
      /\ reply = NoReply /\ mu = <<>> /\ collector = "starting" /\ hand = <<>>
      /\ filterEnd = <<>> /\ lost = {} /\ dated = FALSE /\ toPush = <<>>
  BY DEF Init, ChainInit
<1>2. ChainInv(0) /\ Idle /\ \A i \in 0..N : pipe[i] = <<>>
  BY <1>1, InitChain
<1>3. HandInv /\ PcInv /\ EngineInv
  BY <1>1, <1>2, EmptyFacts DEF HandInv, PcInv, EngineInv
<1>4. EngineTypeOK
  <2>1. NoReply \in [kind : {"none", "nothing", "documents", "unsupported", "stats", "unknown"},
                     docs : SUBSET Nat]
    BY DEF NoReply
  <2>2. <<>> \in Seq(Texts) /\ <<>> \in Seq(Means) /\ Len(<<>>) <= 1
    BY EmptySeq
  <2>. QED  BY <1>1, <2>1, <2>2 DEF EngineTypeOK
<1>5. CollectorTypeOK
  <2>1. Len(<<>>) = 0 /\ 0 <= StartCap /\ 0 <= EndCap /\ 0 <= Capacity
    BY EmptySeq, CapsAssumption, CapacityAssumption
  <2>2. 0 \in 0..N /\ \A i \in 1..N : i \in 0..N
    BY ChainConstants
  <2>. QED  BY <1>1, <1>2, <2>1, <2>2 DEF CollectorTypeOK
<1>. QED  BY <1>1, <1>2, <1>3, <1>4, <1>5, SearchInvInit DEF Inv

LEMMA InvNext ==
    ASSUME Inv, [Next]_vars
    PROVE  Inv' /\ [SearchNext]_searchVars
<1>1. CASE UNCHANGED vars
  <2>1. /\ pc' = pc /\ UNCHANGED <<chainVars, toPush, hand, filterEnd>> /\ UNCHANGED searchVars
        /\ UNCHANGED <<query, collected, reply, mu, collector, lost, dated>>
    BY <1>1 DEF vars, engineVars, collectorVars, historyVars
  <2>2. /\ EngineTypeOK' /\ EngineInv' /\ lost' \subseteq {"text", "symbol", "null"} /\ dated' \in BOOLEAN
        /\ collector' \in {"starting", "connected", "reading"}
    BY <2>1 DEF Inv, EngineTypeOK, EngineInv, CollectorTypeOK
  <2>. QED  BY <2>1, <2>2, SearchInvSame, StillStep DEF Inv
<1>2. CASE Receive
  <2>1. PICK q \in Queries : ReceivePhrase(q) \/ RefusePhrase(q) \/ ReceiveStats(q)
    BY <1>2 DEF Receive
  <2>2. UNCHANGED searchVars
    BY <2>1 DEF ReceivePhrase, RefusePhrase, ReceiveStats, ReceiveQuery
  <2>. QED  BY <2>1, <2>2, ReceiveStep, RefuseStep
<1>3. CASE BeginPhrase \/ Search \/ RefuseFound \/ RankFound \/ RankFoundCosine \/ RankFoundLM
  BY <1>3, BeginPhraseStep, SearchingStep, RankFoundStep
<1>4. CASE Push \/ Collect \/ RankTerms \/ OtherQuery
  <2>1. UNCHANGED searchVars
    BY <1>4 DEF Push, Collect, RankTerms, OtherQuery
  <2>. QED  BY <1>4, <2>1, PushStep, CollectStep, RankTermsStep, OtherQueryStep
<1>5. CASE FilterTokens
  <2>1. UNCHANGED searchVars
    BY <1>5 DEF FilterTokens, Connect, Attach, TakeToken, PassOn
  <2>. QED  BY <1>5, <2>1, ConnectStep, TakeTokenStep, PassOnStep DEF FilterTokens
<1>6. CASE \E i \in 1..N : FilterRuns(i)
  <2>1. UNCHANGED searchVars
    BY <1>6 DEF FilterRuns, Run, SendOn, SendToNobody
  <2>. QED  BY <1>6, <2>1, FilterStep
<1>. QED  BY <1>1, <1>2, <1>3, <1>4, <1>5, <1>6 DEF Next, Engine

-----------------------------------------------------------------------------
(* What is answered: the query's tokens on their way through the chain.    *)

\* Nothing of the query's tokens has been lost: what is to push, in the first
\* pipe and read by the first filter are all of them, and what the last filter
\* has sent is in the hands of FilterTokens, in filterEnd, or collected.
Flow(C, P) ==
    /\ Streams(C) /\ (C[1] \o pipe[0]) \o toPush = TokensOf(query)
    /\ P \in Seq(Tokens) /\ C[N + 1] = (P \o filterEnd) \o hand
    /\ collected = TextsOf(0, P)

\* The terms that are looked up are those of the query.
SearchedInv ==
    pc = "search" => /\ query \in Queries /\ index.positional
                     /\ step # "idle" /\ terms \in QueryTerms

AnswerInv ==
    /\ collector # "reading" => pipe[N] = <<>>
    /\ \E D : Streams(D)
    /\ pc \in {"push", "collect"} /\ lost = {} /\ ~dated => \E C, P : Flow(C, P)
    /\ pc \in {"rank", "search"} /\ lost = {} /\ ~dated => collected = Filtered(query)
    /\ SearchedInv /\ AnswerIsRight

\* What is meant by the documents of some terms depends on the index only.
LEMMA SameAnswering ==
    ASSUME index' = index, query' = query
    PROVE  /\ \A texts : Answering(texts)' = Answering(texts)
           /\ \A texts : Rarest(texts)' = Rarest(texts)
<1>1. \A texts : Answering(texts)' = Answering(texts)
  BY DEF Answering, WithPhrase, WithATerm, Walks, KnownUpTo, AllPositions, PositionsIn, Known
<1>2. \A s, t : Rarer(s, t)' <=> Rarer(s, t)
  BY DEF Rarer, Known, Df
<1>3. \A texts : Rarest(texts)' = Rarest(texts)
  BY <1>2 DEF Rarest
<1>. QED  BY <1>1, <1>3

LEMMA SameQueryTerms ==
    ASSUME index' = index, query' = query, collected' = collected
    PROVE  QueryTerms' = QueryTerms
  BY DEF QueryTerms, Threshold, Rarer, Known, Df

LEMMA SameAnswerIsRight ==
    ASSUME AnswerIsRight, index' = index, query' = query, reply' = reply, pc' = pc,
           dated' = dated, lost' = lost
    PROVE  AnswerIsRight'
<1>1. /\ \A texts : Answering(texts)' = Answering(texts)
      /\ \A texts : Rarest(texts)' = Rarest(texts)
  BY SameAnswering
<1>. QED  BY <1>1 DEF AnswerIsRight, Filtered

\* The steps that move no token and answer nothing.
LEMMA StillAnswers ==
    ASSUME AnswerInv, UNCHANGED <<chainVars, toPush, hand, filterEnd>>,
           UNCHANGED <<query, collected, reply, index, lost, dated, pc>>,
           collector' # "reading" => collector # "reading",
           pc = "search" => step' # "idle" /\ terms' = terms
    PROVE  AnswerInv'
<1>1. pipe' = pipe /\ held' = held /\ fstate' = fstate
  BY DEF chainVars
<1>2. \A C : Streams(C)' <=> Streams(C)
  BY <1>1 DEF Streams
<1>3. \A C, P : Flow(C, P)' <=> Flow(C, P)
  BY <1>1, <1>2 DEF Flow
<1>4. AnswerIsRight'
  BY SameAnswerIsRight DEF AnswerInv
<1>5. SearchedInv'
  BY SameQueryTerms DEF AnswerInv, SearchedInv
<1>. QED  BY <1>1, <1>2, <1>3, <1>4, <1>5 DEF AnswerInv, Filtered

\* The steps while a query is in the chain.
LEMMA BusyAnswers ==
    ASSUME pc' \in {"push", "collect"}, collector' # "reading" => pipe'[N] = <<>>,
           NEW D, Streams(D)', lost' = {} /\ ~dated' => \E C, P : Flow(C, P)'
    PROVE  AnswerInv'
  BY DEF AnswerInv, SearchedInv, AnswerIsRight

\* What a filter's step does to the streams, unless it loses a token.
LEMMA ChainMoves ==
    ASSUME Inv, NEW i \in 1..N, FilterRuns(i), collector # "reading" => pipe[N] = <<>>,
           NEW C, Streams(C)
    PROVE  /\ toPush' = toPush /\ (collector # "reading" => pipe'[N] = <<>>)
           /\ \E D : /\ Streams(D)'
                     /\ lost' # {} \/ (D[1] \o pipe'[0] = C[1] \o pipe[0] /\ D[N + 1] = C[N + 1])
<1>0. ChainTypeOK /\ N \in Nat \ {0} /\ i \in Nat
  BY ChainConstants DEF Inv, ChainInv
<1>1. CASE ReadToken(i)
  <2>1. PICK D : D = [C EXCEPT ![i] = Append(C[i], Head(pipe[i - 1]))]
    OBVIOUS
  <2>2. /\ Streams(D)' /\ D[1] \o pipe'[0] = C[1] \o pipe[0] /\ D[N + 1] = C[N + 1]
        /\ pipe'[N] = pipe[N]
    BY <1>0, <1>1, <2>1, ReadStreams
  <2>3. toPush' = toPush
    BY <1>1 DEF ReadToken
  <2>. QED  BY <2>2, <2>3
<1>2. CASE NotifyRound(i)
  BY <1>0, <1>2, NotifyStreams
<1>3. CASE SendOn(i)
  <2>1. SendToken(i) /\ (i < N \/ collector = "reading")
    BY <1>3 DEF SendOn
  <2>2. Streams(C)' /\ pipe'[0] = pipe[0] /\ toPush' = toPush
    BY <1>0, <2>1, SendStreams
  <2>3. i < N => pipe'[N] = pipe[N]
    <3>1. pipe' = [pipe EXCEPT ![i] = Append(pipe[i], Head(held[i]))]
      BY <2>1 DEF SendToken
    <3>. QED  BY <1>0, <3>1, StreamsFacts
  <2>. QED  BY <2>1, <2>2, <2>3
<1>4. CASE SendToNobody
  <2>1. DropHeld /\ lost' # {} /\ pipe[N] = <<>>
    BY <1>4, LostTypes DEF SendToNobody
  <2>2. PICK D : D = [C EXCEPT ![N + 1] = C[N + 1] \o held[N]]
    OBVIOUS
  <2>3. Streams(D)' /\ pipe' = pipe /\ toPush' = toPush
    BY <1>0, <2>1, <2>2, DropStreams
  <2>. QED  BY <2>1, <2>3
<1>. QED  BY <1>1, <1>2, <1>3, <1>4 DEF FilterRuns, Run, FilterRound

LEMMA FilterAnswers ==
    ASSUME Inv, AnswerInv, NEW i \in 1..N, FilterRuns(i)
    PROVE  AnswerInv'
<1>1. /\ UNCHANGED <<pc, query, collected, collector, hand, filterEnd, dated>>
      /\ lost' = lost \/ lost' # {}
  BY DEF FilterRuns, Run, SendOn, SendToNobody, engineVars, collectorVars, historyVars
<1>2. pc \in {"push", "collect"}
  <2>1. ~Idle
    <3>1. CASE ReadToken(i) \/ NotifyRound(i)
      BY <3>1, ReadChain, NotifyChain DEF Inv
    <3>2. CASE SendOn(i) \/ SendToNobody
      BY <3>2, SendChain, DropChain DEF Inv, SendOn, SendToNobody
    <3>. QED  BY <3>1, <3>2 DEF FilterRuns, Run, FilterRound
  <2>. QED  BY <2>1 DEF Inv, PcInv
<1>3. collector # "reading" => pipe[N] = <<>>
  BY DEF AnswerInv
<1>4. PICK B : Streams(B)
  BY DEF AnswerInv
<1>5. PICK E : Streams(E)'
  BY <1>3, <1>4, ChainMoves
<1>6. ASSUME lost' = {}, ~dated' PROVE \E C, P : Flow(C, P)'
  <2>1. PICK C, P : Flow(C, P)
    BY <1>1, <1>2, <1>6 DEF AnswerInv
  <2>2. /\ Streams(C) /\ (C[1] \o pipe[0]) \o toPush = TokensOf(query)
        /\ P \in Seq(Tokens) /\ C[N + 1] = (P \o filterEnd) \o hand
        /\ collected = TextsOf(0, P)
    BY <2>1 DEF Flow
  <2>3. PICK D : /\ Streams(D)' /\ toPush' = toPush
                 /\ D[1] \o pipe'[0] = C[1] \o pipe[0] /\ D[N + 1] = C[N + 1]
    BY <1>3, <1>6, <2>2, ChainMoves
  <2>4. Flow(D, P)'
    BY <1>1, <2>2, <2>3 DEF Flow
  <2>. QED  BY <2>4
<1>7. collector' # "reading" => pipe'[N] = <<>>
  BY <1>1, <1>3, <1>4, ChainMoves
<1>. QED  BY <1>1, <1>2, <1>5, <1>6, <1>7, BusyAnswers

LEMMA TakeTokenAnswers ==
    ASSUME Inv, AnswerInv, TakeToken
    PROVE  AnswerInv'
<1>1. /\ collector = "reading" /\ hand = <<>> /\ TakeArrived /\ hand' = <<Arrived>>
      /\ UNCHANGED <<pc, query, collected, collector, filterEnd, lost, dated, toPush>>
  BY DEF TakeToken, TakeArrived, engineVars, historyVars
<1>2. ChainTypeOK /\ pc \in {"push", "collect"} /\ N \in Nat \ {0} /\ Arrived \in Tokens
  <2>1. ~Idle /\ Arrived \in Tokens
    BY <1>1, ArrivedChain DEF Inv
  <2>. QED  BY <2>1, ChainConstants DEF Inv, PcInv, ChainInv
<1>3. ASSUME NEW C, Streams(C)
      PROVE  \E D : /\ Streams(D)' /\ pipe'[0] = pipe[0] /\ D[1] = C[1]
                    /\ D[N + 1] = Append(C[N + 1], Arrived)
  <2>1. PICK D : D = [C EXCEPT ![N + 1] = Append(C[N + 1], Arrived)]
    OBVIOUS
  <2>. QED  BY <1>1, <1>2, <1>3, <2>1, TakeStreams
<1>4. PICK E : Streams(E)'
  BY <1>3 DEF AnswerInv
<1>5. ASSUME lost' = {}, ~dated' PROVE \E C, P : Flow(C, P)'
  <2>1. PICK C, P : Flow(C, P)
    BY <1>1, <1>2, <1>5 DEF AnswerInv
  <2>2. /\ Streams(C) /\ (C[1] \o pipe[0]) \o toPush = TokensOf(query)
        /\ P \in Seq(Tokens) /\ C[N + 1] = (P \o filterEnd) \o <<>>
        /\ collected = TextsOf(0, P)
    BY <1>1, <2>1 DEF Flow
  <2>3. PICK D : /\ Streams(D)' /\ pipe'[0] = pipe[0] /\ D[1] = C[1]
                 /\ D[N + 1] = Append(C[N + 1], Arrived)
    BY <1>3, <2>2
  <2>4. D[N + 1] = (P \o filterEnd) \o <<Arrived>>
    <3>. DEFINE b == P \o filterEnd
    <3>1. b \in Seq(Tokens)
      BY <2>2, ConcatProperties DEF Inv, HandInv, Good
    <3>. HIDE DEF b
    <3>2. b \o <<>> = b /\ Append(b, Arrived) = b \o <<Arrived>>
      BY <1>2, <3>1, ConcatEmptySeq, AppendIsConcat
    <3>3. C[N + 1] = b
      BY <2>2, <3>2 DEF b
    <3>4. D[N + 1] = b \o <<Arrived>>
      BY <2>3, <3>2, <3>3
    <3>. QED  BY <3>4 DEF b
  <2>5. Flow(D, P)'
    BY <1>1, <2>2, <2>3, <2>4 DEF Flow
  <2>. QED  BY <2>5
<1>. QED  BY <1>1, <1>2, <1>4, <1>5, BusyAnswers

LEMMA PassOnAnswers ==
    ASSUME Inv, AnswerInv, PassOn
    PROVE  AnswerInv'
<1>1. /\ hand # <<>> /\ hand' = <<>> /\ filterEnd' = Append(filterEnd, hand[1])
      /\ UNCHANGED <<pc, query, collected, collector, lost, dated>>
      /\ UNCHANGED <<chainVars, toPush>>
  BY DEF PassOn, engineVars, historyVars
<1>2. pipe' = pipe /\ held' = held /\ fstate' = fstate /\ toPush' = toPush
  BY <1>1 DEF chainVars
<1>3. pc \in {"push", "collect"}
  BY <1>1 DEF Inv, PcInv
<1>4. \A C : Streams(C)' <=> Streams(C)
  BY <1>2 DEF Streams
<1>5. PICK E : Streams(E)'
  BY <1>4 DEF AnswerInv
<1>6. ASSUME lost' = {}, ~dated' PROVE \E C, P : Flow(C, P)'
  <2>1. PICK C, P : Flow(C, P)
    BY <1>1, <1>3, <1>6 DEF AnswerInv
  <2>2. /\ Streams(C) /\ (C[1] \o pipe[0]) \o toPush = TokensOf(query)
        /\ P \in Seq(Tokens) /\ C[N + 1] = (P \o filterEnd) \o hand
        /\ collected = TextsOf(0, P)
    BY <2>1 DEF Flow
  <2>3. PICK tok \in Tokens : hand = <<tok>>
    BY <1>1 DEF Inv, HandInv
  <2>4. (P \o filterEnd') \o hand' = (P \o filterEnd) \o hand
    <3>. DEFINE f == filterEnd
    <3>1. f \in Seq(Tokens) /\ <<tok>> \in Seq(Tokens)
      BY <2>3 DEF Inv, HandInv, Good
    <3>. HIDE DEF f
    <3>2. Append(f, tok) = f \o <<tok>> /\ f \o <<tok>> \in Seq(Tokens)
      BY <2>3, <3>1, AppendIsConcat, ConcatProperties
    <3>3. P \o (f \o <<tok>>) = (P \o f) \o <<tok>> /\ P \o (f \o <<tok>>) \in Seq(Tokens)
      BY <2>2, <3>1, <3>2, ConcatAssociative, ConcatProperties
    <3>4. (P \o (f \o <<tok>>)) \o <<>> = P \o (f \o <<tok>>)
      BY <3>3, ConcatEmptySeq
    <3>5. (P \o Append(f, tok)) \o <<>> = (P \o f) \o <<tok>>
      BY <3>2, <3>3, <3>4
    <3>6. filterEnd' = Append(f, tok) /\ hand' = <<>>
      BY <1>1, <2>3 DEF f
    <3>. QED  BY <2>3, <3>5, <3>6 DEF f
  <2>5. Streams(C)'
    BY <1>4, <2>2
  <2>6. Flow(C, P)'
    BY <1>1, <1>2, <2>2, <2>4, <2>5 DEF Flow
  <2>. QED  BY <2>6
<1>. QED  BY <1>1, <1>2, <1>3, <1>5, <1>6, BusyAnswers DEF AnswerInv

\* A query is pushed into a chain that remembers nothing of those before it,
\* but for an unfinished date.
LEMMA ReceiveAnswers ==
    ASSUME Inv, AnswerInv, NEW q \in Queries, ReceivePhrase(q)
    PROVE  AnswerInv'
<1>1. /\ pc = "receive" /\ pc' = "push" /\ query' = q /\ toPush' = TokensOf(q)
      /\ collected' = <<>> /\ dated' = (\E i \in 1..N : fstate[i].month # <<>>)
      /\ UNCHANGED <<collector, hand, filterEnd>>
      /\ UNCHANGED chainVars /\ pipe' = pipe /\ held' = held /\ fstate' = fstate
  BY DEF ReceivePhrase, ReceiveQuery, collectorVars, chainVars
<1>2. Idle /\ hand = <<>> /\ filterEnd = <<>> /\ ChainInv(0) /\ ChainTypeOK
  BY <1>1 DEF Inv, PcInv, ChainInv
<1>3. PICK B : Streams(B)
  BY DEF AnswerInv
<1>4. Streams(B)'
  BY <1>1, <1>3, SameStreams
<1>5. ASSUME ~dated' PROVE \E C, P : Flow(C, P)'
  <2>1. (\A i \in 0..N : pipe[i] = <<>>) /\ \A i \in 1..N : Quiet(i)
    BY <1>2, IdleChain
  <2>2. \A i \in 1..N : held[i] = <<>> /\ fstate[i] = Fresh
    BY <1>1, <1>2, <1>3, <1>5, <2>1, StreamsFresh DEF Quiet
  <2>3. PICK C : C = [k \in 1..N + 1 |-> <<>>]
    OBVIOUS
  <2>4. Streams(C) /\ C[1] = <<>> /\ C[N + 1] = <<>>
    BY <2>1, <2>2, <2>3, RestStreams
  <2>5. Streams(C)'
    BY <1>1, <2>4, SameStreams
  <2>6. (C[1] \o pipe'[0]) \o toPush' = TokensOf(query')
    <3>1. pipe'[0] = <<>>
      BY <1>1, <2>1, ChainConstants
    <3>2. TokensOf(q) \in Seq(Tokens)
      BY TokensOfFacts DEF Good
    <3>. DEFINE s == TokensOf(q)
    <3>. HIDE DEF s
    <3>3. (<<>> \o <<>>) \o s = s
      BY <3>2, ConcatEmptySeq, EmptySeq DEF s
    <3>. QED  BY <1>1, <2>4, <3>1, <3>3 DEF s
  <2>7. C[N + 1] = (<<>> \o filterEnd') \o hand'
    BY <1>1, <1>2, <2>4
  <2>8. collected' = TextsOf(0, <<>>) /\ <<>> \in Seq(Tokens)
    BY <1>1, TextsOfNothing, EmptySeq
  <2>9. Flow(C, <<>>)'
    BY <2>5, <2>6, <2>7, <2>8 DEF Flow
  <2>. QED  BY <2>9
<1>6. collector' # "reading" => pipe'[N] = <<>>
  BY <1>1 DEF AnswerInv
<1>. QED  BY <1>1, <1>4, <1>5, <1>6, BusyAnswers

LEMMA RefuseAnswers ==
    ASSUME Inv, AnswerInv, NEW q \in Queries, RefusePhrase(q) \/ ReceiveStats(q)
    PROVE  AnswerInv'
<1>1. /\ pc = "receive" /\ pc' = pc
      /\ \E kind \in {"unsupported", "stats", "unknown"} : reply' = Reply(kind)
      /\ UNCHANGED collector /\ UNCHANGED chainVars
  BY DEF RefusePhrase, ReceiveStats, ReceiveQuery, collectorVars
<1>2. reply'.kind \in {"unsupported", "stats", "unknown"}
  BY <1>1 DEF Reply
<1>3. pipe' = pipe
  BY <1>1 DEF chainVars
<1>4. PICK B : Streams(B)'
  BY <1>1, SameStreams DEF AnswerInv
<1>5. SearchedInv' /\ AnswerIsRight'
  BY <1>1, <1>2 DEF SearchedInv, AnswerIsRight
<1>. QED  BY <1>1, <1>3, <1>4, <1>5 DEF AnswerInv

LEMMA PushAnswers ==
    ASSUME Inv, AnswerInv, Push
    PROVE  AnswerInv'
<1>1. /\ PushToken(StartCap) /\ pc = "push" /\ pc' \in {"push", "collect"}
      /\ UNCHANGED <<query, collected, collector, hand, filterEnd, lost, dated>>
  BY DEF Push, collectorVars, historyVars
<1>2. ChainTypeOK
  BY DEF Inv, ChainInv
<1>3. ASSUME NEW C, Streams(C)
      PROVE  /\ Streams(C)' /\ (C[1] \o pipe'[0]) \o toPush' = (C[1] \o pipe[0]) \o toPush
             /\ pipe'[N] = pipe[N]
  BY <1>1, <1>2, <1>3, PushStreams
<1>4. PICK B : Streams(B)
  BY DEF AnswerInv
<1>5. Streams(B)' /\ pipe'[N] = pipe[N]
  BY <1>3, <1>4
<1>6. ASSUME lost' = {}, ~dated' PROVE \E C, P : Flow(C, P)'
  <2>1. PICK C, P : Flow(C, P)
    BY <1>1, <1>6 DEF AnswerInv
  <2>2. /\ Streams(C) /\ (C[1] \o pipe[0]) \o toPush = TokensOf(query)
        /\ P \in Seq(Tokens) /\ C[N + 1] = (P \o filterEnd) \o hand
        /\ collected = TextsOf(0, P)
    BY <2>1 DEF Flow
  <2>3. Flow(C, P)'
    BY <1>1, <1>3, <2>2 DEF Flow
  <2>. QED  BY <2>3
<1>. QED  BY <1>1, <1>5, <1>6, BusyAnswers DEF AnswerInv

LEMMA ConcatThree ==
    ASSUME NEW V, NEW g \in Seq(V), NEW h \in Seq(V), NEW p \in Seq(V), NEW d \in Seq(V)
    PROVE  ((g \o h) \o p) \o d = g \o ((h \o p) \o d) /\ (h \o p) \o d \in Seq(V)
<1>1. PICK q : q = h \o p
  OBVIOUS
<1>2. q \in Seq(V)
  BY <1>1, ConcatProperties
<1>3. g \o q = (g \o h) \o p
  BY <1>1, ConcatAssociative, SMTT(30)
<1>4. (g \o q) \o d = g \o (q \o d) /\ q \o d \in Seq(V)
  BY <1>2, ConcatProperties, ConcatAssociative, SMTT(30)
<1>. QED  BY <1>1, <1>3, <1>4

LEMMA TokensConcatThree ==
    \A g, h, p, d \in Seq(Tokens) :
        ((g \o h) \o p) \o d = g \o ((h \o p) \o d) /\ (h \o p) \o d \in Seq(Tokens)
<1>. DEFINE V == Tokens
<1>. HIDE DEF V
<1>1. \A g, h, p, d \in Seq(V) :
        ((g \o h) \o p) \o d = g \o ((h \o p) \o d) /\ (h \o p) \o d \in Seq(V)
  BY ConcatThree
<1>. QED  BY <1>1 DEF V

LEMMA SendableSecond ==
    ASSUME NEW P \in Seq(Tokens), NEW f \in Seq(Tokens), NEW h \in Seq(Tokens),
           NEW p \in Seq(Tokens), NEW d \in Seq(Tokens), f # <<>>,
           (((P \o f) \o h) \o p) \o d \in Seq(Sendable)
    PROVE  Head(f) \in Sendable
<1>1. PICK g : g = P \o f
  OBVIOUS
<1>2. g \in Seq(Tokens)
  BY <1>1, TokensConcat
<1>3. /\ ((g \o h) \o p) \o d = g \o ((h \o p) \o d)
      /\ (h \o p) \o d \in Seq(Tokens)
  BY <1>2, TokensConcatThree
<1>4. PICK e : e = (h \o p) \o d
  OBVIOUS
<1>5. e \in Seq(Tokens) /\ (P \o f) \o e \in Seq(Sendable)
  BY <1>1, <1>3, <1>4
<1>. QED  BY <1>5, SendableHead

\* No symbol leaves the chain.
LEMMA CollectedIsText ==
    ASSUME ChainTypeOK, NEW C, Streams(C), NEW P \in Seq(Tokens), N \in Nat \ {0},
           filterEnd \in Seq(Tokens), hand \in Seq(Tokens), filterEnd # <<>>,
           C[N + 1] = (P \o filterEnd) \o hand
    PROVE  Head(filterEnd).type # "symbol"
<1>1. N \in 1..N
  OBVIOUS
<1>2. pipe[N] \in Seq(Tokens) /\ held[N] \in Seq(Tokens)
  BY <1>1 DEF ChainTypeOK
<1>3. (((P \o filterEnd) \o hand) \o pipe[N]) \o held[N] \in Seq(Sendable)
  BY <1>1, StreamsSend
<1>4. Head(filterEnd) \in Sendable
  BY <1>2, <1>3, SendableSecond
<1>. QED  BY <1>4 DEF Sendable

\* A chain that is idle has sent what passing the filters one by one gives.
LEMMA IdleStreams ==
    ASSUME ChainInv(0), Idle, toPush = <<>>, NEW C, Streams(C), NEW s,
           (C[1] \o pipe[0]) \o toPush = s
    PROVE  C[1] = s /\ C[N + 1] = PassAll(Filter, C[1])
<1>1. (\A i \in 0..N : pipe[i] = <<>>) /\ \A i \in 1..N : Quiet(i)
  BY IdleChain
<1>2. N \in Nat \ {0} /\ pipe[0] = <<>>
  BY <1>1, ChainConstants
<1>3. C[1] = s
  <2>1. C[1] \in Seq(Tokens)
    BY <1>2 DEF Streams
  <2>2. C[1] \o <<>> = C[1]
    BY <2>1, ConcatEmptySeq
  <2>. QED  BY <1>2, <2>2
<1>4. ASSUME NEW i \in 1..N
      PROVE  fstate[i].ended = <<>> /\ SentBy(Filter[i], fstate[i], C[i], C[i + 1])
  <2>1. pipe[i] = <<>> /\ held[i] = <<>> /\ fstate[i].ended = <<>>
    BY <1>1, <1>2 DEF Quiet
  <2>2. C[i + 1] \in Seq(Tokens)
    BY <1>2 DEF Streams
  <2>3. PICK c : c = C[i + 1]
    OBVIOUS
  <2>4. (c \o <<>>) \o <<>> = c
    BY <2>2, <2>3, ConcatEmptySeq
  <2>5. SentBy(Filter[i], fstate[i], C[i], (c \o <<>>) \o <<>>)
    BY <2>1, <2>3 DEF Streams
  <2>. QED  BY <2>1, <2>3, <2>4, <2>5
<1>5. C \in [1..N + 1 -> Seq(Tokens)]
  BY DEF Streams
<1>6. C[N + 1] = PassAll(Filter, C[1])
  BY <1>4, <1>5, StreamsDone
<1>. QED  BY <1>3, <1>6

LEMMA LastOfStream ==
    ASSUME NEW P \in Seq(Tokens), NEW f \in Seq(Tokens), NEW h, f # <<>>, Tail(f) = <<>>,
           h = <<>>
    PROVE  (P \o f) \o h = Append(P, Head(f))
<1>1. Append(P, Head(f)) \o Tail(f) = P \o f /\ Append(P, Head(f)) \in Seq(Tokens)
  BY MoveHead
<1>2. Append(P, Head(f)) \o <<>> = Append(P, Head(f))
  BY <1>1, ConcatEmptySeq
<1>. QED  BY <1>1, <1>2, ConcatEmptySeq

\* A token that is collected is a text of document 0, and the Null token is the
\* last the chain has to send.
LEMMA CollectAnswers ==
    ASSUME Inv, AnswerInv, Collect
    PROVE  AnswerInv'
<1>. DEFINE tok == Head(filterEnd)
<1>1. /\ pc = "collect" /\ filterEnd # <<>> /\ filterEnd' = Tail(filterEnd)
      /\ IF tok.type = "null" THEN pc' = "rank" /\ collected' = collected
         ELSE pc' = pc /\ collected' = Append(collected, tok.text)
      /\ UNCHANGED <<chainVars, toPush>>
      /\ UNCHANGED <<query, reply, collector, hand, lost, dated>>
  BY DEF Collect, historyVars
<1>2. /\ tok \in Tokens /\ tok.doc = 0 /\ filterEnd \in Seq(Tokens)
      /\ tok.type = "null" => Tail(filterEnd) = <<>> /\ HasNull(filterEnd)
  BY <1>1, TailFacts DEF Inv, HandInv, Good
<1>3. /\ tok = Head(filterEnd) /\ hand \in Seq(Tokens) /\ ChainTypeOK /\ toPush = <<>>
      /\ N \in Nat \ {0}
  <2>1. hand \in Seq(Tokens)
    <3>1. CASE hand = <<>>
      BY <3>1, EmptySeq
    <3>2. CASE hand # <<>>
      <4>1. PICK h \in Tokens : hand = <<h>>
        BY <3>2 DEF Inv, HandInv
      <4>. QED  BY <4>1
    <3>. QED  BY <3>1, <3>2
  <2>2. toPush = <<>>
    BY <1>1 DEF Inv, PcInv
  <2>. QED  BY <2>1, <2>2, ChainConstants DEF Inv, ChainInv
<1>. HIDE DEF tok
<1>4. pipe' = pipe /\ held' = held /\ fstate' = fstate /\ toPush' = toPush
  BY <1>1 DEF chainVars
<1>5. \A C : Streams(C)' <=> Streams(C)
  BY <1>4 DEF Streams
<1>6. PICK B : Streams(B)'
  BY <1>5 DEF AnswerInv
<1>7. collector' # "reading" => pipe'[N] = <<>>
  BY <1>1, <1>4 DEF AnswerInv
<1>8. ASSUME lost = {}, ~dated
      PROVE  \E C, P : /\ Flow(C, P) /\ P \in Seq(Tokens) /\ Streams(C)
                       /\ C[N + 1] = (P \o filterEnd) \o hand /\ collected = TextsOf(0, P)
                       /\ (C[1] \o pipe[0]) \o toPush = TokensOf(query)
  BY <1>1, <1>8 DEF AnswerInv, Flow
<1>9. CASE tok.type # "null"
  <2>1. ASSUME lost' = {}, ~dated' PROVE \E C, P : Flow(C, P)'
    <3>1. PICK C, P : /\ P \in Seq(Tokens) /\ Streams(C)
                      /\ C[N + 1] = (P \o filterEnd) \o hand /\ collected = TextsOf(0, P)
                      /\ (C[1] \o pipe[0]) \o toPush = TokensOf(query)
      BY <1>1, <1>8, <2>1
    <3>2. PICK Q : Q = Append(P, tok)
      OBVIOUS
    <3>3. Q \in Seq(Tokens) /\ Q \o Tail(filterEnd) = P \o filterEnd
      BY <1>1, <1>2, <1>3, <3>1, <3>2, MoveHead
    <3>4. tok.type = "text"
      BY <1>1, <1>2, <1>3, <1>9, <3>1, CollectedIsText DEF Tokens
    <3>5. collected' = TextsOf(0, Q)
      BY <1>1, <1>2, <1>9, <3>1, <3>2, <3>4, TextsOfAppend
    <3>6. C[N + 1] = (Q \o filterEnd') \o hand'
      BY <1>1, <3>1, <3>3
    <3>7. (C[1] \o pipe'[0]) \o toPush' = TokensOf(query')
      BY <1>1, <1>4, <3>1
    <3>8. Flow(C, Q)'
      BY <1>5, <3>1, <3>3, <3>5, <3>6, <3>7 DEF Flow
    <3>. QED  BY <3>8
  <2>. QED  BY <1>1, <1>6, <1>7, <1>9, <2>1, BusyAnswers
<1>10. CASE tok.type = "null"
  <2>1. Idle /\ hand = <<>> /\ Tail(filterEnd) = <<>> /\ ChainInv(0)
    BY <1>2, <1>10 DEF Inv, HandInv
  <2>2. ASSUME lost' = {}, ~dated' PROVE collected' = Filtered(query')
    <3>1. PICK C, P : /\ P \in Seq(Tokens) /\ Streams(C)
                      /\ C[N + 1] = (P \o filterEnd) \o hand /\ collected = TextsOf(0, P)
                      /\ (C[1] \o pipe[0]) \o toPush = TokensOf(query)
      BY <1>1, <1>8, <2>2
    <3>2. C[1] = TokensOf(query) /\ C[N + 1] = PassAll(Filter, C[1])
      BY <1>3, <2>1, <3>1, IdleStreams
    <3>3. C[N + 1] = Append(P, tok)
      BY <1>1, <1>2, <1>3, <2>1, <3>1, LastOfStream
    <3>4. TextsOf(0, Append(P, tok)) = TextsOf(0, P)
      BY <1>2, <1>10, <3>1, TextsOfAppend
    <3>. QED  BY <1>1, <1>10, <3>1, <3>2, <3>3, <3>4 DEF Filtered
  <2>3. AnswerIsRight' /\ SearchedInv'
    BY <1>1, <1>10 DEF AnswerIsRight, SearchedInv
  <2>. QED  BY <1>1, <1>6, <1>7, <1>10, <2>2, <2>3 DEF AnswerInv
<1>. QED  BY <1>9, <1>10

\* An order of finitely many texts leaves none out.
LEMMA OrderIsOnto ==
    ASSUME NEW n \in Nat, NEW f \in [1..n -> 1..n],
           \A j, k \in 1..n : j < k => f[j] # f[k], NEW k \in 1..n
    PROVE  \E m \in 1..n : f[m] = k
<1>. DEFINE S == 1..n
            T == {f[m] : m \in S}
<1>1. IsFiniteSet(S)
  BY FS_Interval
<1>2. f \in Injection(S, T)
  <2>1. \A a, b \in S : f[a] = f[b] => a = b
    <3>1. \A a, b \in S : a < b \/ b < a \/ a = b
      OBVIOUS
    <3>. QED  BY <3>1
  <2>2. f \in [S -> T] /\ DOMAIN f = S
    OBVIOUS
  <2>. HIDE DEF S, T
  <2>. QED  BY <2>1, <2>2 DEF Injection, IsInjective
<1>3. f \in Surjection(S, T)
  BY DEF Surjection
<1>4. T \in SUBSET S
  OBVIOUS
<1>. HIDE DEF S, T
<1>5. Cardinality(T) = Cardinality(S)
  BY <1>1, <1>2, <1>3, FS_Surjection
<1>6. S = T
  BY <1>1, <1>4, <1>5, FS_Subset
<1>. QED  BY <1>6 DEF S, T

\* ThresholdQueryTerms takes the least number of terms the threshold allows.
LEMMA CountIsLeast ==
    ASSUME NEW x \in Nat
    PROVE  LET count == (x + 99) \div 100 IN 100 * (count - 1) < x /\ x <= 100 * count
  BY SMT

\* The terms that are looked up are those asked for, or the rarest of them.
LEMMA TermsAreRarest ==
    ASSUME query \in Queries, collected \in Seq(Texts), NEW used \in QueryTerms
    PROVE  IF query.thresh >= 100 THEN used = collected
           ELSE \E f \in Rarest(collected) : used = [k \in DOMAIN f |-> collected[f[k]]]
<1>1. query.thresh \in Nat
  BY QueriesAssumption
<1>2. CASE ~(query.thresh < 100)
  BY <1>1, <1>2 DEF QueryTerms
<1>3. CASE query.thresh < 100
  <2>. DEFINE ids == DOMAIN collected
              x == query.thresh * Len(collected)
              count == (x + 99) \div 100
  <2>1. Len(collected) \in Nat /\ ids = 1..Len(collected)
    BY LenProperties
  <2>2. PICK f \in [ids -> ids] :
            /\ \A j, k \in ids : j < k => f[j] # f[k] /\ ~Rarer(collected[f[k]], collected[f[j]])
            /\ used = [k \in 1..count |-> collected[f[k]]]
    BY <1>3 DEF QueryTerms, Threshold
  <2>3. count \in 0..Len(collected) /\ x \in Nat
    <3>1. count \in 0..Len(collected)
      BY <1>1, <1>3, <2>1, ThresholdCount
    <3>2. x \in Nat
      BY <1>1, <2>1
    <3>. QED  BY <3>1, <3>2
  <2>4. 100 * (count - 1) < x /\ x <= 100 * count
    <3>. HIDE DEF x
    <3>. QED  BY <2>3, CountIsLeast
  <2>. HIDE DEF count, x
  <2>5. PICK n : n = count
    OBVIOUS
  <2>6. PICK g : g = [k \in 1..n |-> f[k]]
    OBVIOUS
  <2>7. /\ n \in Nat /\ \A k \in 1..n : k \in ids
        /\ g \in [1..n -> ids] /\ DOMAIN g = 1..n /\ \A k \in 1..n : g[k] = f[k]
    <3>1. n \in Nat /\ \A k \in 1..n : k \in ids
      BY <2>1, <2>3, <2>5
    <3>. HIDE DEF ids
    <3>. QED  BY <2>2, <2>6, <3>1
  <2>8. Len(g) = n
    BY <2>7
  <2>9. g \in UNION {[1..m -> ids] : m \in 0..Len(collected)}
    BY <2>3, <2>5, <2>7
  <2>10. \A j, k \in DOMAIN g : g[j] = g[k] => j = k
    <3>1. \A j, k \in 1..n : j < k \/ k < j \/ j = k
      BY <2>7
    <3>. QED  BY <2>2, <2>7, <3>1
  <2>11. ASSUME NEW j \in DOMAIN g, NEW k \in ids \ ToSet(g)
         PROVE  ~Rarer(collected[k], collected[g[j]])
    <3>1. PICK m \in ids : f[m] = k
      <4>1. PICK l \in Nat : ids = 1..l
        BY <2>1
      <4>. HIDE DEF ids
      <4>2. f \in [1..l -> 1..l] /\ \A i, m \in 1..l : i < m => f[i] # f[m]
        BY <2>2, <4>1
      <4>. QED  BY <2>11, <4>1, <4>2, OrderIsOnto
    <3>2. ~(m \in 1..n)
      <4>1. \A i \in 1..n : g[i] \in ToSet(g)
        BY <2>7 DEF ToSet
      <4>. QED  BY <2>7, <2>11, <3>1, <4>1
    <3>3. j < m /\ j \in ids
      BY <2>1, <2>7, <2>11, <3>2
    <3>. QED  BY <2>2, <2>7, <2>11, <3>1, <3>3
  <2>12. g \in Rarest(collected)
    <3>1. 100 * (Len(g) - 1) < query.thresh * Len(collected)
      BY <2>4, <2>5, <2>8 DEF x
    <3>2. query.thresh * Len(collected) <= 100 * Len(g)
      BY <2>4, <2>5, <2>8 DEF x
    <3>. QED  BY <2>9, <2>10, <2>11, <3>1, <3>2 DEF Rarest
  <2>13. used = [k \in DOMAIN g |-> collected[g[k]]]
    BY <2>2, <2>5, <2>7
  <2>. QED  BY <1>1, <1>3, <2>12, <2>13
<1>. QED  BY <1>2, <1>3

\* What FilterPositional finds: the walks to the last known term are those
\* through the whole phrase.
LEMMA FoundIsAnswer ==
    ASSUME SearchInv, step = "found", index.positional
    PROVE  DOMAIN Found = Answering(terms)
<1>. DEFINE at == next - within
            L == Len(terms)
<1>1. L \in Nat /\ next = L + 1 /\ Answering(terms) = WithPhrase(terms)
  BY LenProperties DEF SearchInv, SearchTypeOK, StepInv, Answering
<1>2. CASE pl = <<>>
  <2>1. KnownUpTo(terms, L) = {}
    BY <1>1, <1>2 DEF SearchInv, ListInv, KnownUpTo
  <2>2. WithPhrase(terms) = {}
    BY <2>1 DEF WithPhrase, WithATerm
  <2>. QED  BY <1>1, <1>2, <2>2, EmptyIsList DEF Found
<1>3. CASE pl # <<>>
  <2>1. /\ at \in 1..L /\ Known(terms[at]) /\ \A m \in at + 1..L : ~Known(terms[m])
        /\ Found = pl[1] /\ IsExact(pl[1], terms, at)
    BY <1>1, <1>3 DEF SearchInv, SearchTypeOK, ListInv, Found
  <2>. HIDE DEF at, L
  <2>2. KnownUpTo(terms, at) = KnownUpTo(terms, L) /\ at \in KnownUpTo(terms, L)
    <3>1. \A k \in 1..L : k \in 1..at \/ k \in at + 1..L
      BY <1>1, <2>1
    <3>2. \A k \in 1..at : k \in 1..L
      BY <1>1, <2>1
    <3>3. at \in 1..at
      BY <1>1, <2>1
    <3>. QED  BY <2>1, <3>1, <3>2, <3>3 DEF KnownUpTo
  <2>3. \A d : Walks(terms, d, at) = Walks(terms, d, L)
    BY <2>2 DEF Walks
  <2>4. \A d \in DOMAIN index.lists[terms[at]] : d \in WithATerm(terms)
    BY <2>2 DEF WithATerm, L
  <2>5. ASSUME NEW d, Walks(terms, d, L) # {}
        PROVE  d \in DOMAIN index.lists[terms[at]]
    <3>1. PICK walk : walk \in Walks(terms, d, L)
      BY <2>5
    <3>2. walk[at] \in PositionsIn(terms[at], d)
      BY <2>2, <3>1 DEF Walks
    <3>. QED  BY <3>2 DEF PositionsIn
  <2>6. DOMAIN pl[1] = {d \in DOMAIN index.lists[terms[at]] : Walks(terms, d, L) # {}}
    BY <2>1, <2>3 DEF IsExact
  <2>7. WithPhrase(terms) = {d \in WithATerm(terms) : Walks(terms, d, L) # {}}
    BY DEF WithPhrase, L
  <2>. QED  BY <1>1, <2>1, <2>4, <2>5, <2>6, <2>7
<1>. QED  BY <1>2, <1>3

\* The answer to the terms that were looked up is the one to the query.
LEMMA AnswerFacts ==
    ASSUME query \in Queries, collected \in Seq(Texts), NEW used \in QueryTerms,
           lost = {} /\ ~dated => collected = Filtered(query),
           UNCHANGED <<query, index, lost, dated>>,
           reply'.kind = "documents" \/ (reply'.kind = "nothing" /\ query.force)
               => reply'.docs = Answering(used)
    PROVE  AnswerIsRight'
<1>1. /\ \A texts : Answering(texts)' = Answering(texts)
      /\ \A texts : Rarest(texts)' = Rarest(texts)
  BY SameAnswering
<1>2. SUFFICES ASSUME lost = {}, ~dated,
                      reply'.kind = "documents" \/ (reply'.kind = "nothing" /\ query.force)
               PROVE  IF query.thresh >= 100 THEN reply'.docs = Answering(collected)
                      ELSE \E f \in Rarest(collected) :
                               reply'.docs = Answering([k \in DOMAIN f |-> collected[f[k]]])
  <2>1. \A q : Filtered(q)' = Filtered(q)
    BY DEF Filtered
  <2>. QED  BY <1>1, <2>1 DEF AnswerIsRight
<1>3. reply'.docs = Answering(used)
  BY <1>2
<1>. QED  BY <1>3, TermsAreRarest, ZenonT(60)

\* The steps that answer, or end the process.
LEMMA RankAnswers ==
    ASSUME Inv, AnswerInv, pc \in {"rank", "search"}, pc' \in {"receive", "dead"},
           UNCHANGED <<chainVars, collector>>, AnswerIsRight'
    PROVE  AnswerInv'
<1>1. pipe' = pipe
  BY DEF chainVars
<1>2. PICK B : Streams(B)'
  BY SameStreams DEF AnswerInv
<1>3. SearchedInv'
  BY DEF SearchedInv
<1>. QED  BY <1>1, <1>2, <1>3 DEF AnswerInv

LEMMA RankTermsAnswers ==
    ASSUME Inv, AnswerInv, RankTerms
    PROVE  AnswerInv'
<1>1. /\ pc = "rank" /\ ~index.positional /\ UNCHANGED <<chainVars, collector>>
      /\ UNCHANGED <<query, collected, index, lost, dated>>
  BY DEF RankTerms, collectorVars, historyVars, searchVars
<1>2. query \in Queries /\ collected \in Seq(Texts)
  BY <1>1 DEF Inv, EngineInv, EngineTypeOK
<1>3. lost = {} /\ ~dated => collected = Filtered(query)
  BY <1>1 DEF AnswerInv
<1>4. PICK used \in QueryTerms :
         LET known == {k \in DOMAIN used : Known(used[k])}
             docs == UNION {DOMAIN index.lists[used[k]] : k \in known}
         IN  \/ ~query.force /\ Send(Nothing)
             \/ Die
             \/ Send(Answer(docs))
  BY <1>1 DEF RankTerms
<1>5. used \in Seq(Texts)
  BY <1>2, QueryTermsFacts
<1>6. UNION {DOMAIN index.lists[used[k]] : k \in {j \in DOMAIN used : Known(used[j])}}
        = Answering(used)
  <2>1. DOMAIN used = 1..Len(used)
    BY <1>5, LenProperties
  <2>. QED  BY <1>1, <2>1 DEF Answering, WithATerm, KnownUpTo
<1>7. Die \/ (~query.force /\ Send(Nothing)) \/ Send(Answer(Answering(used)))
  BY <1>4, <1>6
<1>8. CASE Die
  <2>1. pc' = "dead"
    BY <1>8 DEF Die
  <2>2. AnswerIsRight'
    BY <2>1 DEF AnswerIsRight
  <2>. QED  BY <1>1, <2>1, <2>2, RankAnswers
<1>9. CASE ~query.force /\ Send(Nothing)
  <2>1. pc' = "receive" /\ reply'.kind = "nothing"
    BY <1>9 DEF Send, Nothing, Answer
  <2>2. AnswerIsRight'
    BY <1>1, <1>2, <1>3, <1>9, <2>1, AnswerFacts
  <2>. QED  BY <1>1, <2>1, <2>2, RankAnswers
<1>10. CASE Send(Answer(Answering(used)))
  <2>1. pc' = "receive" /\ reply'.docs = Answering(used)
    BY <1>10 DEF Send, Answer
  <2>2. AnswerIsRight'
    BY <1>1, <1>2, <1>3, <2>1, AnswerFacts
  <2>. QED  BY <1>1, <2>1, <2>2, RankAnswers
<1>. QED  BY <1>7, <1>8, <1>9, <1>10

LEMMA RankFoundAnswers ==
    ASSUME Inv, AnswerInv, RefuseFound \/ RankFound \/ RankFoundCosine \/ RankFoundLM
    PROVE  AnswerInv'
<1>1. /\ pc = "search" /\ TakeFound /\ UNCHANGED <<chainVars, collector>>
      /\ UNCHANGED <<query, collected, lost, dated>>
      /\ \/ Die
         \/ Send(Answer(DOMAIN Found))
         \/ Insufficient /\ Send(Nothing)
  BY DEF RefuseFound, RankFound, RankFoundCosine, RankFoundLM, collectorVars, historyVars
<1>2. /\ query \in Queries /\ collected \in Seq(Texts) /\ index.positional /\ step = "found"
      /\ terms \in QueryTerms /\ index' = index /\ SearchInv
      /\ lost = {} /\ ~dated => collected = Filtered(query)
  BY <1>1 DEF AnswerInv, SearchedInv, Inv, EngineTypeOK, TakeFound
<1>3. DOMAIN Found = Answering(terms)
  BY <1>2, FoundIsAnswer
<1>4. CASE Die
  <2>1. pc' = "dead"
    BY <1>4 DEF Die
  <2>2. AnswerIsRight'
    BY <2>1 DEF AnswerIsRight
  <2>. QED  BY <1>1, <2>1, <2>2, RankAnswers
<1>5. CASE Send(Answer(DOMAIN Found))
  <2>1. pc' = "receive" /\ reply'.docs = Answering(terms)
    BY <1>3, <1>5 DEF Send, Answer
  <2>2. AnswerIsRight'
    BY <1>1, <1>2, <2>1, AnswerFacts
  <2>. QED  BY <1>1, <2>1, <2>2, RankAnswers
<1>6. CASE Insufficient /\ Send(Nothing)
  <2>1. pc' = "receive" /\ reply'.docs = {} /\ reply'.kind = "nothing"
    BY <1>6 DEF Send, Nothing, Answer
  <2>2. query.force => DOMAIN Found = {}
    BY <1>6, EmptyIsList DEF Insufficient, Found
  <2>3. AnswerIsRight'
    BY <1>1, <1>2, <1>3, <2>1, <2>2, AnswerFacts
  <2>. QED  BY <1>1, <2>1, <2>3, RankAnswers
<1>. QED  BY <1>1, <1>4, <1>5, <1>6

\* The steps of the search.
LEMMA BeginPhraseAnswers ==
    ASSUME Inv, AnswerInv, BeginPhrase
    PROVE  AnswerInv'
<1>1. /\ pc = "rank" /\ pc' = "search" /\ index.positional /\ UNCHANGED chainVars
      /\ UNCHANGED <<query, collected, lost, dated, collector>>
  BY DEF BeginPhrase, collectorVars, historyVars
<1>2. PICK used \in QueryTerms : BeginSearch(used)
  BY DEF BeginPhrase
<1>3. index' = index /\ terms' = used /\ step' = "terms"
  BY <1>2 DEF BeginSearch
<1>4. QueryTerms' = QueryTerms
  BY <1>1, <1>3, SameQueryTerms
<1>5. SearchedInv' /\ AnswerIsRight'
  <2>1. query \in Queries
    BY <1>1 DEF Inv, EngineInv
  <2>2. SearchedInv'
    BY <1>1, <1>2, <1>3, <1>4, <2>1 DEF SearchedInv
  <2>. QED  BY <1>1, <2>2 DEF AnswerIsRight
<1>6. pipe' = pipe
  BY <1>1 DEF chainVars
<1>7. PICK B : Streams(B)'
  BY <1>1, SameStreams DEF AnswerInv
<1>. QED  BY <1>1, <1>5, <1>6, <1>7 DEF AnswerInv, Filtered

LEMMA SearchAnswers ==
    ASSUME Inv, AnswerInv, Search
    PROVE  AnswerInv'
<1>1. /\ SearchStep /\ UNCHANGED <<chainVars, toPush, hand, filterEnd>>
      /\ UNCHANGED <<pc, query, collected, reply, collector, lost, dated>>
  BY DEF Search, engineVars, collectorVars, historyVars
<1>2. index' = index /\ terms' = terms /\ step' # "idle"
  BY <1>1 DEF SearchStep, SkipUnknown, FirstList, EndSearch, BeginFilter, DropDoc, BeginEntry,
              KeepPosition, PassPosition, EndEntry, EndFilter, NextDoc, InBounds
<1>. QED  BY <1>1, <1>2, StillAnswers

\* The other engines, and FilterTokens' start.
LEMMA OtherAnswers ==
    ASSUME Inv, AnswerInv, OtherQuery \/ Connect \/ Attach
    PROVE  AnswerInv'
<1>1. /\ UNCHANGED <<chainVars, toPush, hand, filterEnd>> /\ UNCHANGED searchVars
      /\ UNCHANGED <<pc, query, collected, reply, lost, dated>>
      /\ collector' # "reading" => collector # "reading"
  BY DEF OtherQuery, Connect, Attach, engineVars, collectorVars, historyVars
<1>2. index' = index /\ terms' = terms /\ step' = step
  BY <1>1 DEF searchVars
<1>3. pc = "search" => step # "idle"
  BY DEF AnswerInv, SearchedInv
<1>. QED  BY <1>1, <1>2, <1>3, StillAnswers

LEMMA AnswerInvInit ==
    ASSUME Init
    PROVE  AnswerInv
<1>1. ChainInit /\ pc = "receive" /\ reply = NoReply
  BY DEF Init
<1>2. PICK C : C = [k \in 1..N + 1 |-> <<>>]
  OBVIOUS
<1>3. Streams(C) /\ pipe[N] = <<>>
  <2>1. \A i \in 0..N : pipe[i] = <<>>
    BY <1>1, InitChain
  <2>. QED  BY <1>1, <1>2, <2>1, InitStreams, ChainConstants
<1>4. SearchedInv /\ AnswerIsRight
  BY <1>1 DEF SearchedInv, AnswerIsRight, NoReply
<1>. QED  BY <1>1, <1>3, <1>4 DEF AnswerInv

LEMMA AnswerInvNext ==
    ASSUME Inv, AnswerInv, [Next]_vars
    PROVE  AnswerInv'
<1>1. CASE UNCHANGED vars
  <2>1. /\ UNCHANGED <<chainVars, toPush, hand, filterEnd>> /\ UNCHANGED searchVars
        /\ UNCHANGED <<pc, query, collected, reply, collector, lost, dated>>
    BY <1>1 DEF vars, engineVars, collectorVars, historyVars
  <2>2. index' = index /\ terms' = terms /\ step' = step
    BY <2>1 DEF searchVars
  <2>3. pc = "search" => step # "idle"
    BY DEF AnswerInv, SearchedInv
  <2>. QED  BY <2>1, <2>2, <2>3, StillAnswers
<1>2. CASE Receive
  BY <1>2, ReceiveAnswers, RefuseAnswers DEF Receive
<1>3. CASE Engine
  BY <1>3, PushAnswers, CollectAnswers, RankTermsAnswers, BeginPhraseAnswers, SearchAnswers,
     RankFoundAnswers DEF Engine
<1>4. CASE OtherQuery \/ FilterTokens
  BY <1>4, OtherAnswers, TakeTokenAnswers, PassOnAnswers DEF FilterTokens
<1>5. CASE \E i \in 1..N : FilterRuns(i)
  BY <1>5, FilterAnswers
<1>. QED  BY <1>1, <1>2, <1>3, <1>4, <1>5 DEF Next

-----------------------------------------------------------------------------
(* What ends the process.                                                  *)

\* What is looked up are some of the texts that were collected.
LEMMA TermsAreCollected ==
    ASSUME query \in Queries, collected \in Seq(Texts), NEW used \in QueryTerms,
           NEW k \in DOMAIN used
    PROVE  \E j \in DOMAIN collected : collected[j] = used[k]
<1>1. CASE used = collected
  BY <1>1
<1>2. CASE used # collected
  <2>1. PICK f \in Rarest(collected) : used = [i \in DOMAIN f |-> collected[f[i]]]
    BY <1>2, TermsAreRarest
  <2>2. PICK n : f \in [1..n -> DOMAIN collected]
    BY <2>1 DEF Rarest
  <2>3. k \in DOMAIN f /\ f[k] \in DOMAIN collected /\ used[k] = collected[f[k]]
    BY <2>1, <2>2
  <2>. QED  BY <2>3
<1>. QED  BY <1>1, <1>2

\* A document of weight 0 in which one of the terms is.
LEMMA WeightlessFound ==
    ASSUME SearchInv, query \in Queries, collected \in Seq(Texts), NEW used \in QueryTerms,
           NEW k \in DOMAIN used, Known(used[k]),
           NEW d \in DOMAIN index.lists[used[k]] \cap index.weightless
    PROVE  d \in 1..index.count /\ Undivided(d)
<1>1. IsIndex(index)
  BY IndexesAssumption DEF SearchInv, SearchTypeOK
<1>2. /\ d \in 1..index.count
      /\ \A t \in DOMAIN index.lists :
            d \in DOMAIN index.lists[t] => Halved(index.lists[t], d)
  BY <1>1 DEF IsIndex
<1>3. \E j \in DOMAIN collected : collected[j] = used[k]
  BY TermsAreCollected
<1>. QED  BY <1>2, <1>3 DEF Undivided

\* The language model with the mean of its own index.
LEMMA OwnMeanFacts ==
    ASSUME NEW f \in Nat \ {0}, NEW t \in Nat \ {0}, NEW n \in Nat \ {0},
           ((f * t) * (f * t)) * n <= t
    PROVE  t = 1 /\ n = 1
<1>1. PICK a \in Nat : a = f * t /\ a >= t
  <2>1. f * t \in Nat /\ f * t = t + (f - 1) * t /\ (f - 1) * t \in Nat
    BY SMT
  <2>. QED  BY <2>1
<1>2. PICK b \in Nat : b = a * a /\ b >= a * t /\ a * t \in Nat
  <2>1. a * a = a * t + a * (a - t) /\ a * (a - t) \in Nat /\ a * t \in Nat /\ a * a \in Nat
    BY <1>1, SMT
  <2>. QED  BY <2>1
<1>3. a * t >= t * t /\ t * t \in Nat
  <2>1. a * t = t * t + (a - t) * t /\ (a - t) * t \in Nat /\ t * t \in Nat
    BY <1>1, SMT
  <2>. QED  BY <2>1
<1>4. b * n >= b /\ b * n \in Nat
  <2>1. b * n = b + b * (n - 1) /\ b * (n - 1) \in Nat /\ b * n \in Nat
    BY <1>2, SMT
  <2>. QED  BY <2>1
<1>5. b * n <= t
  BY <1>1, <1>2
<1>6. t * t <= t
  BY <1>2, <1>3, <1>4, <1>5
<1>7. t = 1
  <2>1. t * t = t + t * (t - 1) /\ t * (t - 1) \in Nat
    BY SMT
  <2>2. t * (t - 1) = 0
    BY <1>6, <2>1
  <2>. QED  BY <2>2, SMT
<1>8. b >= 1 /\ b * n <= 1
  BY <1>2, <1>3, <1>5, <1>7
<1>9. n = 1
  <2>1. b * n = n + (b - 1) * n /\ (b - 1) * n \in Nat
    BY <1>2, <1>8, SMT
  <2>. QED  BY <1>8, <2>1
<1>. QED  BY <1>7, <1>9

LEMMA RankTermsDies ==
    ASSUME Inv, RankTerms, pc' = "dead"
    PROVE  DeathHasItsReason'
<1>1. /\ pc = "rank" /\ UNCHANGED <<query, collected, index>>
  BY DEF RankTerms, searchVars
<1>2. query \in Queries /\ collected \in Seq(Texts) /\ SearchInv
  BY <1>1 DEF Inv, EngineInv, EngineTypeOK
<1>3. ~Send(Nothing) /\ \A docs : ~Send(Answer(docs))
  BY DEF Send
<1>4. PICK used \in QueryTerms :
         LET known == {k \in DOMAIN used : Known(used[k])}
             docs == UNION {DOMAIN index.lists[used[k]] : k \in known}
         IN  /\ query.engine = "COSINE" /\ docs \cap index.weightless # {}
  BY <1>3 DEF RankTerms
<1>5. PICK d \in index.weightless : \E k \in DOMAIN used :
                                       Known(used[k]) /\ d \in DOMAIN index.lists[used[k]]
  BY <1>4
<1>6. d \in 1..index.count /\ Undivided(d)
  BY <1>2, <1>4, <1>5, WeightlessFound
<1>7. d \in 1..index'.count /\ Undivided(d)'
  BY <1>1, <1>6 DEF Undivided, Known
<1>. QED  BY <1>1, <1>4, <1>7 DEF DeathHasItsReason

\* What was found is in the list of one of the terms.
LEMMA FoundInList ==
    ASSUME SearchInv, step = "found", NEW d \in DOMAIN Found
    PROVE  /\ \E k \in DOMAIN terms : Known(terms[k]) /\ d \in DOMAIN index.lists[terms[k]]
           /\ Frequency(Found, d) \in Nat \ {0}
<1>. DEFINE at == next - within
<1>1. pl # <<>> /\ Found = pl[1] /\ IsList(Found)
  BY EmptyIsList DEF Found, SearchInv, SearchTypeOK
<1>2. /\ at \in 1..next - 1 /\ next - 1 = Len(terms) /\ Known(terms[at])
      /\ IsExact(pl[1], terms, at) /\ terms \in Seq(Texts)
  BY <1>1, LenProperties DEF SearchInv, SearchTypeOK, StepInv, ListInv
<1>. HIDE DEF at
<1>3. at \in DOMAIN terms
  BY <1>2, LenProperties
<1>4. d \in DOMAIN index.lists[terms[at]]
  BY <1>1, <1>2 DEF IsExact
<1>. QED  BY <1>1, <1>2, <1>3, <1>4, EntryFacts DEF Frequency

LEMMA RankFoundDies ==
    ASSUME Inv, AnswerInv, RefuseFound \/ RankFound \/ RankFoundCosine \/ RankFoundLM,
           pc' = "dead"
    PROVE  DeathHasItsReason'
<1>1. /\ pc = "search" /\ step = "found" /\ UNCHANGED <<query, collected, index>>
      /\ RankFoundCosine \/ RankFoundLM
  BY DEF RefuseFound, RankFound, RankFoundCosine, RankFoundLM, TakeFound, Send
<1>2. query \in Queries /\ collected \in Seq(Texts) /\ terms \in QueryTerms /\ SearchInv
  BY <1>1 DEF AnswerInv, SearchedInv, Inv, EngineTypeOK
<1>3. CASE RankFoundCosine
  <2>1. query.engine = "COSINE" /\ DOMAIN Found \cap index.weightless # {}
    BY <1>3 DEF RankFoundCosine, Send
  <2>2. PICK d \in DOMAIN Found : d \in index.weightless
    BY <2>1
  <2>3. PICK k \in DOMAIN terms : Known(terms[k]) /\ d \in DOMAIN index.lists[terms[k]]
    BY <1>1, <1>2, <2>2, FoundInList
  <2>4. d \in 1..index.count /\ Undivided(d)
    BY <1>2, <2>2, <2>3, WeightlessFound
  <2>5. d \in 1..index'.count /\ Undivided(d)'
    BY <1>1, <2>4 DEF Undivided, Known
  <2>. QED  BY <1>1, <2>1, <2>5 DEF DeathHasItsReason
<1>4. CASE RankFoundLM
  <2>1. PICK d \in DOMAIN Found : NotPositive(Frequency(Found, d), mu'[1])
    BY <1>4 DEF RankFoundLM, Send
  <2>2. PICK f \in Nat \ {0} : f = Frequency(Found, d)
    BY <1>1, <1>2, <2>1, FoundInList
  <2>3. PICK k \in DOMAIN terms : Known(terms[k])
    BY <1>1, <1>2, <2>1, FoundInList
  <2>4. TermCount(index) \in Nat \ {0} /\ index.count \in Nat \ {0}
    <3>1. IsIndex(index)
      BY <1>2, IndexesAssumption DEF SearchInv, SearchTypeOK
    <3>2. DOMAIN index.lists # {} /\ IsFiniteSet(DOMAIN index.lists)
      BY <2>3, <3>1 DEF Known, IsIndex
    <3>. QED  BY <3>1, <3>2, FS_CardinalityType, FS_EmptySet DEF TermCount, IsIndex
  <2>5. PICK t \in Nat \ {0}, n \in Nat \ {0} : t = TermCount(index) /\ n = index.count
    BY <2>4
  <2>6. ASSUME mu' = <<OwnMean>> PROVE OwnMean = [terms |-> 1, docs |-> 1]
    <3>1. mu'[1].terms = t /\ mu'[1].docs = n
      BY <2>5, <2>6 DEF OwnMean
    <3>2. ((f * t) * (f * t)) * n <= t
      BY <2>1, <2>2, <2>5, <3>1 DEF NotPositive
    <3>3. t = 1 /\ n = 1
      BY <3>2, OwnMeanFacts
    <3>. QED  BY <2>5, <3>3 DEF OwnMean
  <2>7. OwnMean' = OwnMean
    BY <1>1 DEF OwnMean, TermCount
  <2>8. query.engine = "LM"
    BY <1>4 DEF RankFoundLM
  <2>. QED  BY <1>1, <2>6, <2>7, <2>8 DEF DeathHasItsReason
<1>. QED  BY <1>1, <1>3, <1>4

LEMMA DeathStep ==
    ASSUME Inv, AnswerInv, DeathHasItsReason, [Next]_vars
    PROVE  DeathHasItsReason'
<1>. SUFFICES ASSUME pc' = "dead" PROVE DeathHasItsReason'
  BY DEF DeathHasItsReason
<1>1. CASE UNCHANGED vars
  <2>1. pc' = pc /\ UNCHANGED <<query, collected, mu>> /\ index' = index
    BY <1>1 DEF vars, engineVars, searchVars
  <2>2. \A d : Undivided(d)' <=> Undivided(d)
    BY <2>1 DEF Undivided, Known
  <2>3. OwnMean' = OwnMean
    BY <2>1 DEF OwnMean, TermCount
  <2>. QED  BY <2>1, <2>2, <2>3 DEF DeathHasItsReason
<1>2. CASE Next
  <2>1. pc # "dead" /\ (Receive \/ Engine \/ OtherQuery \/ FilterTokens
                        \/ \E i \in 1..N : FilterRuns(i))
    BY <1>2 DEF Next
  <2>2. ~Receive
    BY <2>1 DEF Receive, ReceivePhrase, RefusePhrase, ReceiveStats, ReceiveQuery
  <2>3. ~OtherQuery /\ ~FilterTokens /\ ~\E i \in 1..N : FilterRuns(i)
    BY <2>1 DEF OtherQuery, FilterTokens, Connect, Attach, TakeToken, PassOn, FilterRuns, Run,
                SendOn, SendToNobody, engineVars
  <2>4. ~Push /\ ~Collect /\ ~BeginPhrase /\ ~Search
    BY <2>1 DEF Push, Collect, BeginPhrase, Search, engineVars
  <2>. QED  BY <2>1, <2>2, <2>3, <2>4, RankTermsDies, RankFoundDies DEF Engine
<1>. QED  BY <1>1, <1>2

-----------------------------------------------------------------------------
(* What the inserter builds is an index.                                   *)

Placed == [text : Texts, pos : Nat]

\* Numbers up to a bound have a greatest.
LEMMA GreatestOf ==
    ASSUME NEW L \in Nat, NEW T, T \subseteq 0..L, T # {}
    PROVE  \E n \in T : \A i \in T : i <= n
<1>. DEFINE S == {n \in Nat : \A i \in T : i <= n}
<1>1. S \subseteq Nat /\ L \in S
  OBVIOUS
<1>2. PICK n \in S : \A k \in S : n <= k
  <2>. HIDE DEF S
  <2>1. Min(S) \in S /\ \A k \in S : Min(S) <= k
    BY <1>1, LeastNat
  <2>. QED  BY <2>1
<1>3. CASE n \in T
  BY <1>2, <1>3
<1>4. CASE n \notin T
  <2>1. \A i \in T : i <= n - 1
    BY <1>2, <1>4
  <2>2. n # 0
    <3>1. PICK i \in T : TRUE
      OBVIOUS
    <3>. QED  BY <1>2, <2>1, <3>1
  <2>3. n - 1 \in S
    BY <1>2, <2>1, <2>2
  <2>. HIDE DEF S
  <2>. QED  BY <1>1, <1>2, <2>3
<1>. QED  BY <1>3, <1>4

\* A position is put behind those that are no greater.
LEMMA AddsSorted ==
    ASSUME NEW entry \in Seq(Nat), IsSortedEntry(entry), NEW pos \in Nat
    PROVE  AddPosition(entry, pos) \in Positions /\ IsSortedEntry(AddPosition(entry, pos))
<1>. DEFINE L == Len(entry)
            S == {k \in DOMAIN entry : entry[k] <= pos}
            m == Cardinality(S)
<1>1. L \in Nat /\ DOMAIN entry = 1..L /\ \A k \in 1..L : entry[k] \in Nat
  BY LenProperties, ElementOfSeq
<1>2. \A j, k \in 1..L : j <= k => entry[j] <= entry[k]
  BY DEF IsSortedEntry
<1>. HIDE DEF L
<1>3. m \in 0..L /\ S = 1..m
  <2>1. \E n \in 0..L : S = 1..n
    <3>. DEFINE T == {n \in 0..L : \A k \in 1..n : entry[k] <= pos}
    <3>1. 0 \in T /\ T \subseteq 0..L
      BY <1>1
    <3>2. PICK n \in T : \A i \in T : i <= n
      <4>. HIDE DEF T
      <4>. QED  BY <1>1, <3>1, GreatestOf
    <3>3. n < L => ~(entry[n + 1] <= pos)
      <4>1. ASSUME n < L, entry[n + 1] <= pos PROVE n + 1 \in T
        <5>1. \A k \in 1..n + 1 : k \in 1..n \/ k = n + 1
          BY <1>1
        <5>. QED  BY <1>1, <4>1, <5>1
      <4>. QED  BY <1>1, <3>2, <4>1
    <3>4. ASSUME NEW k \in 1..L, k > n PROVE ~(entry[k] <= pos)
      <4>1. n + 1 \in 1..L /\ n + 1 <= k /\ n < L
        BY <1>1, <3>4
      <4>2. entry[n + 1] <= entry[k] /\ entry[n + 1] \in Nat /\ entry[k] \in Nat
        BY <1>1, <1>2, <4>1
      <4>. QED  BY <3>3, <4>1, <4>2
    <3>5. \A k \in 1..L : k \in 1..n \/ k > n
      BY <1>1
    <3>6. \A k \in 1..n : k \in 1..L /\ entry[k] <= pos
      BY <1>1
    <3>7. S = 1..n
      BY <1>1, <3>4, <3>5, <3>6
    <3>. QED  BY <3>7
  <2>2. PICK n \in 0..L : S = 1..n
    BY <2>1
  <2>3. Cardinality(1..n) = n
    BY <1>1, <2>2, FS_Interval
  <2>. QED  BY <2>2, <2>3
<1>. HIDE DEF S, m
<1>4. PICK a, b : a = SubSeq(entry, 1, m) /\ b = SubSeq(entry, m + 1, L)
  OBVIOUS
<1>5. /\ a \in Seq(Nat) /\ Len(a) = m /\ \A k \in 1..m : a[k] = entry[k]
  <2>1. \A k \in 1..m : k \in 1..L
    BY <1>1, <1>3
  <2>2. a \in Seq(Nat) /\ Len(a) = m /\ \A k \in 1..m : a[k] = entry[k]
    BY <1>3, <1>4, PrefixFacts DEF L
  <2>. QED  BY <2>2
<1>6. /\ b \in Seq(Nat) /\ Len(b) = L - m /\ \A k \in 1..L - m : b[k] = entry[m + k]
  <2>1. \A k \in m + 1..L : entry[k] \in Nat
    BY <1>1, <1>3
  <2>2. /\ b \in Seq(Nat) /\ Len(b) = IF m + 1 <= L THEN L - (m + 1) + 1 ELSE 0
        /\ \A k \in 1..L - (m + 1) + 1 : b[k] = entry[(m + 1) + k - 1]
    BY <1>1, <1>3, <1>4, <2>1, SubSeqProperties
  <2>. QED  BY <1>1, <1>3, <2>2
<1>7. AddPosition(entry, pos) = (a \o <<pos>>) \o b
  BY <1>4 DEF AddPosition, m, S, L
<1>8. PICK c : c = a \o <<pos>>
  OBVIOUS
<1>9. /\ c \in Seq(Nat) /\ Len(c) = m + 1
      /\ \A k \in 1..m + 1 : c[k] = IF k <= m THEN a[k] ELSE pos
  <2>1. <<pos>> \in Seq(Nat) /\ Len(<<pos>>) = 1 /\ <<pos>>[1] = pos
    OBVIOUS
  <2>2. /\ c \in Seq(Nat) /\ Len(c) = m + 1
        /\ \A k \in 1..m + 1 : c[k] = IF k <= m THEN a[k] ELSE <<pos>>[k - m]
    BY <1>5, <1>8, <2>1, ConcatProperties
  <2>3. \A k \in 1..m + 1 : ~(k <= m) => k - m = 1
    BY <1>3
  <2>. QED  BY <2>1, <2>2, <2>3
<1>10. PICK e : e = c \o b
  OBVIOUS
<1>11. /\ e \in Seq(Nat) /\ Len(e) = L + 1
       /\ \A k \in 1..L + 1 : e[k] = IF k <= m + 1 THEN c[k] ELSE b[k - (m + 1)]
  <2>1. /\ e \in Seq(Nat) /\ Len(e) = (m + 1) + (L - m)
        /\ \A k \in 1..(m + 1) + (L - m) : e[k] = IF k <= m + 1 THEN c[k] ELSE b[k - (m + 1)]
    <3>1. Len(e) = Len(c) + Len(b) /\ e \in Seq(Nat)
      <4>1. c \in Seq(Nat) /\ b \in Seq(Nat)
        BY <1>6, <1>9
      <4>. QED  BY <1>10, <4>1, ConcatProperties
    <3>2. \A k \in 1..Len(c) + Len(b) : e[k] = IF k <= Len(c) THEN c[k] ELSE b[k - Len(c)]
      BY <1>6, <1>9, <1>10, ConcatProperties
    <3>. QED  BY <1>6, <1>9, <3>1, <3>2
  <2>2. (m + 1) + (L - m) = L + 1
    BY <1>1, <1>3
  <2>. QED  BY <2>1, <2>2
<1>12. \A k \in 1..L + 1 : e[k] = IF k <= m THEN entry[k]
                                  ELSE IF k = m + 1 THEN pos ELSE entry[k - 1]
  <2>. SUFFICES ASSUME NEW k \in 1..L + 1
                PROVE  e[k] = IF k <= m THEN entry[k]
                              ELSE IF k = m + 1 THEN pos ELSE entry[k - 1]
    OBVIOUS
  <2>1. CASE k <= m
    BY <1>3, <1>5, <1>9, <1>11, <2>1
  <2>2. CASE k = m + 1
    BY <1>3, <1>9, <1>11, <2>2
  <2>3. CASE k > m + 1
    <3>1. k - (m + 1) \in 1..L - m /\ m + (k - (m + 1)) = k - 1
      BY <1>1, <1>3, <2>3
    <3>2. e[k] = b[k - (m + 1)]
      BY <1>3, <1>11, <2>3
    <3>. QED  BY <1>3, <1>6, <2>3, <3>1, <3>2
  <2>. QED  BY <1>3, <2>1, <2>2, <2>3
<1>13. (\A k \in 1..m : k \in 1..L /\ entry[k] <= pos) /\ \A k \in 1..L : k > m => pos <= entry[k]
  BY <1>1, <1>3, SMTT(30) DEF S
<1>14. IsSortedEntry(e)
  <2>. SUFFICES ASSUME NEW j \in 1..L + 1, NEW k \in 1..L + 1, j < k
                PROVE  e[j] <= e[k]
    BY <1>1, <1>11, <1>12 DEF IsSortedEntry
  <2>1. CASE k <= m
    BY <1>1, <1>2, <1>3, <1>12, <2>1
  <2>2. CASE k = m + 1
    BY <1>1, <1>3, <1>12, <1>13, <2>2
  <2>3. CASE k > m + 1 /\ j = m + 1
    BY <1>1, <1>3, <1>12, <1>13, <2>3
  <2>4. CASE k > m + 1 /\ j # m + 1
    <3>1. e[k] = entry[k - 1] /\ k - 1 \in 1..L /\ k - 1 > m
      BY <1>1, <1>3, <1>12, <2>4
    <3>2. e[j] = IF j <= m THEN entry[j] ELSE entry[j - 1]
      BY <1>3, <1>12, <2>4
    <3>3. CASE j <= m
      BY <1>1, <1>2, <1>3, <3>1, <3>2, <3>3
    <3>4. CASE j > m
      BY <1>1, <1>2, <1>3, <2>4, <3>1, <3>2, <3>4
    <3>. QED  BY <1>3, <3>3, <3>4
  <2>. QED  BY <1>3, <2>1, <2>2, <2>3, <2>4
<1>15. e # <<>>
  BY <1>1, <1>11, EmptySeq
<1>. QED  BY <1>7, <1>8, <1>10, <1>11, <1>14, <1>15 DEF Positions

LEMMA InsertsRawEntry ==
    ASSUME NEW list, IsList(list), NEW d \in Nat, NEW pos \in Nat
    PROVE  /\ IsList(InsertRawEntry(list, d, pos))
           /\ DOMAIN InsertRawEntry(list, d, pos) = DOMAIN list \cup {d}
<1>. DEFINE before == IF d \in DOMAIN list THEN list[d] ELSE <<>>
            entry == AddPosition(before, pos)
<1>1. before \in Seq(Nat) /\ IsSortedEntry(before)
  <2>1. CASE d \in DOMAIN list
    BY <2>1 DEF IsList, Positions
  <2>2. CASE d \notin DOMAIN list
    <3>1. before = <<>> /\ <<>> \in Seq(Nat) /\ Len(<<>>) = 0
      BY <2>2
    <3>. HIDE DEF before
    <3>. QED  BY <3>1 DEF IsSortedEntry
  <2>. QED  BY <2>1, <2>2
<1>2. entry \in Positions /\ IsSortedEntry(entry)
  <2>. HIDE DEF before
  <2>. QED  BY <1>1, AddsSorted
<1>3. InsertRawEntry(list, d, pos) = [e \in DOMAIN list \cup {d} |-> IF e = d THEN entry ELSE list[e]]
  BY DEF InsertRawEntry, InsertCompleteEntry
<1>. HIDE DEF entry
<1>4. \A e \in DOMAIN list : list[e] \in Positions
  BY DEF IsList
<1>. QED  BY <1>2, <1>3, <1>4 DEF IsList

\* The lists of the first m documents, and a document whose every weight is 0.
ListsOK(lists, m) ==
    /\ DOMAIN lists \subseteq Texts /\ IsFiniteSet(DOMAIN lists)
    /\ \A t \in DOMAIN lists : IsList(lists[t]) /\ DOMAIN lists[t] \subseteq 1..m
AllHalved(lists, d) == \A t \in DOMAIN lists : d \in DOMAIN lists[t] => Halved(lists[t], d)
WeightlessOK(built) ==
    \A d \in built.weightless : d \in 1..built.count /\ AllHalved(built.lists, d)
Shape(built, n) ==
    /\ built = [positional |-> built.positional, count |-> n, lists |-> built.lists,
                weightless |-> built.weightless]
    /\ built.positional \in BOOLEAN

\* Between two documents, and in the document after the first n.
BuiltOK(built, n) == Shape(built, n) /\ ListsOK(built.lists, n) /\ WeightlessOK(built)
InDocument(done, n) ==
    /\ Shape(done.index, n) /\ ListsOK(done.index.lists, n + 1) /\ WeightlessOK(done.index)
    /\ DOMAIN done.weight = {t \in DOMAIN done.index.lists : n + 1 \in DOMAIN done.index.lists[t]}
    /\ \A t \in DOMAIN done.weight :
          done.weight[t] <=> n + 1 # 2 * Cardinality(DOMAIN done.index.lists[t])

LEMMA BuiltIsIndex ==
    ASSUME NEW n \in Nat, n # 0, NEW built, BuiltOK(built, n)
    PROVE  IsIndex(built)
<1>1. built.count = n
  BY DEF BuiltOK, Shape
<1>. QED  BY <1>1 DEF BuiltOK, Shape, ListsOK, WeightlessOK, AllHalved, IsIndex

\* The next token only adds to the entry its term has of this document.
EntriesOf(lists, text) == IF text \in DOMAIN lists THEN DOMAIN lists[text] ELSE {}
TermAdded(new, lists, m, text) ==
    /\ ListsOK(new, m)
    /\ DOMAIN new = DOMAIN lists \cup {text}
    /\ \A t \in DOMAIN lists : t # text => new[t] = lists[t]
    /\ DOMAIN new[text] = EntriesOf(lists, text) \cup {m}

LEMMA InsertsTerm ==
    ASSUME NEW m \in Nat \ {0}, NEW lists, ListsOK(lists, m), NEW tok \in Placed
    PROVE  TermAdded(InsertTerm(lists, m, tok), lists, m, tok.text)
<1>. DEFINE new == InsertTerm(lists, m, tok)
            list == IF tok.text \in DOMAIN lists THEN lists[tok.text] ELSE EmptyList
            entered == InsertRawEntry(list, m, tok.pos)
<1>1. tok.text \in Texts /\ tok.pos \in Nat
  BY DEF Placed
<1>2. IsList(list) /\ DOMAIN list \subseteq 1..m
  BY EmptyIsList DEF ListsOK
<1>3. DOMAIN list = EntriesOf(lists, tok.text)
  BY EmptyIsList DEF EntriesOf
<1>4. new = [t \in DOMAIN lists \cup {tok.text} |-> IF t = tok.text THEN entered ELSE lists[t]]
  BY DEF InsertTerm
<1>. HIDE DEF list
<1>5. IsList(entered) /\ DOMAIN entered = DOMAIN list \cup {m}
  BY <1>1, <1>2, InsertsRawEntry
<1>. HIDE DEF entered, new
<1>6. IsFiniteSet(DOMAIN lists \cup {tok.text})
  BY FS_AddElement DEF ListsOK
<1>7. DOMAIN new = DOMAIN lists \cup {tok.text} /\ new[tok.text] = entered
  BY <1>4
<1>8. \A t \in DOMAIN lists : t # tok.text => new[t] = lists[t]
  BY <1>4
<1>9. ListsOK(new, m)
  <2>1. \A t \in DOMAIN new : IsList(new[t]) /\ DOMAIN new[t] \subseteq 1..m
    BY <1>2, <1>5, <1>7, <1>8 DEF ListsOK
  <2>. QED  BY <1>1, <1>6, <1>7, <2>1 DEF ListsOK
<1>10. DOMAIN new[tok.text] = EntriesOf(lists, tok.text) \cup {m}
  BY <1>3, <1>5, <1>7
<1>. QED  BY <1>7, <1>8, <1>9, <1>10 DEF TermAdded, new

LEMMA IndexesToken ==
    ASSUME NEW n \in Nat, NEW done, InDocument(done, n), NEW tok \in Placed
    PROVE  InDocument(IndexToken(done, tok), n)
<1>. DEFINE built == done.index
            new == InsertTerm(built.lists, n + 1, tok)
            built2 == [built EXCEPT !.lists = new]
            weight2 == [t \in DOMAIN done.weight \cup {tok.text} |->
                           IF t = tok.text THEN ~ZeroWeight(built2, t, n + 1)
                           ELSE done.weight[t]]
            done2 == [index |-> built2, weight |-> weight2]
<1>1. built.count = n
  BY DEF InDocument, Shape
<1>2. IndexToken(done, tok) = done2
  BY <1>1 DEF IndexToken
<1>3. TermAdded(new, built.lists, n + 1, tok.text)
  <2>1. ListsOK(built.lists, n + 1)
    BY DEF InDocument
  <2>2. n + 1 \in Nat \ {0}
    OBVIOUS
  <2>. QED  BY <2>1, <2>2, InsertsTerm
<1>. HIDE DEF new
<1>4. /\ Shape(built2, n) /\ built2.lists = new
      /\ built2.weightless = built.weightless /\ built2.count = n
  BY DEF InDocument, Shape
<1>. HIDE DEF built2
<1>5. WeightlessOK(built2)
  <2>. SUFFICES ASSUME NEW d \in built.weightless, NEW t \in DOMAIN new, d \in DOMAIN new[t]
                PROVE  Halved(new[t], d)
    BY <1>1, <1>4 DEF InDocument, WeightlessOK, AllHalved
  <2>1. d \in 1..n /\ AllHalved(built.lists, d)
    BY <1>1 DEF InDocument, WeightlessOK
  <2>2. CASE t # tok.text
    BY <1>3, <2>1, <2>2 DEF AllHalved, TermAdded
  <2>3. CASE t = tok.text
    <3>1. t \in DOMAIN built.lists /\ DOMAIN new[t] = DOMAIN built.lists[t] \cup {n + 1}
          /\ d \in DOMAIN built.lists[t]
      BY <1>3, <2>1, <2>3 DEF TermAdded, EntriesOf
    <3>2. {e \in DOMAIN new[t] : e <= d} = {e \in DOMAIN built.lists[t] : e <= d}
      BY <2>1, <3>1
    <3>3. Halved(built.lists[t], d)
      BY <2>1, <3>1 DEF AllHalved
    <3>. QED  BY <3>2, <3>3 DEF Halved
  <2>. QED  BY <2>2, <2>3
<1>6. DOMAIN weight2 = {t \in DOMAIN new : n + 1 \in DOMAIN new[t]}
  <2>1. DOMAIN weight2 = DOMAIN done.weight \cup {tok.text}
    OBVIOUS
  <2>2. DOMAIN done.weight = {t \in DOMAIN built.lists : n + 1 \in DOMAIN built.lists[t]}
    BY DEF InDocument
  <2>. HIDE DEF weight2
  <2>. QED  BY <1>3, <2>1, <2>2 DEF TermAdded, EntriesOf
<1>7. \A t \in DOMAIN weight2 : weight2[t] <=> n + 1 # 2 * Cardinality(DOMAIN new[t])
  <2>. SUFFICES ASSUME NEW t \in DOMAIN weight2
                PROVE  weight2[t] <=> n + 1 # 2 * Cardinality(DOMAIN new[t])
    OBVIOUS
  <2>1. CASE t = tok.text
    <3>1. weight2[t] = ~ZeroWeight(built2, t, n + 1)
      BY <2>1
    <3>. HIDE DEF weight2
    <3>. QED  BY <1>4, <3>1 DEF ZeroWeight, Df
  <2>2. CASE t # tok.text
    <3>1. t \in DOMAIN done.weight /\ weight2[t] = done.weight[t]
      BY <2>2
    <3>. HIDE DEF weight2
    <3>2. t \in DOMAIN built.lists
      BY <3>1 DEF InDocument
    <3>3. new[t] = built.lists[t]
      BY <1>3, <2>2, <3>2 DEF TermAdded
    <3>. QED  BY <3>1, <3>3 DEF InDocument
  <2>. QED  BY <2>1, <2>2
<1>. HIDE DEF weight2
<1>8. done2.index = built2 /\ done2.weight = weight2
  OBVIOUS
<1>. HIDE DEF done2
<1>. QED  BY <1>2, <1>3, <1>4, <1>5, <1>6, <1>7, <1>8 DEF InDocument, TermAdded

LEMMA EndsDocument ==
    ASSUME NEW n \in Nat, NEW done, InDocument(done, n)
    PROVE  BuiltOK(EndDocument(done), n + 1)
<1>. DEFINE built == done.index
            zero == DOMAIN done.weight # {} /\ \A t \in DOMAIN done.weight : ~done.weight[t]
            ended == [built EXCEPT !.count = n + 1,
                                   !.weightless = IF zero THEN @ \cup {n + 1} ELSE @]
<1>1. built.count = n
  BY DEF InDocument, Shape
<1>2. EndDocument(done) = ended
  BY <1>1 DEF EndDocument
<1>3. /\ Shape(ended, n + 1) /\ ended.lists = built.lists /\ ended.count = n + 1
      /\ ended.weightless = IF zero THEN built.weightless \cup {n + 1} ELSE built.weightless
  <2>1. PICK p \in BOOLEAN, lists \in {built.lists}, docs \in {built.weightless} :
            built = [positional |-> p, count |-> n, lists |-> lists, weightless |-> docs]
    BY DEF InDocument, Shape
  <2>. HIDE DEF zero
  <2>2. ended = [positional |-> p, count |-> n + 1, lists |-> lists,
                 weightless |-> IF zero THEN docs \cup {n + 1} ELSE docs]
    <3>1. PICK b : b = built
      OBVIOUS
    <3>2. b = [positional |-> p, count |-> n, lists |-> lists, weightless |-> docs]
      BY <2>1, <3>1
    <3>3. ended = [b EXCEPT !.count = n + 1,
                            !.weightless = IF zero THEN @ \cup {n + 1} ELSE @]
      BY <3>1
    <3>. HIDE DEF ended, built
    <3>. QED  BY <3>2, <3>3
  <2>. HIDE DEF ended, built
  <2>. QED  BY <2>1, <2>2 DEF Shape
<1>. HIDE DEF ended
<1>4. ASSUME zero PROVE AllHalved(built.lists, n + 1)
  <2>. SUFFICES ASSUME NEW t \in DOMAIN built.lists, n + 1 \in DOMAIN built.lists[t]
                PROVE  Halved(built.lists[t], n + 1)
    BY DEF AllHalved
  <2>1. t \in DOMAIN done.weight /\ ~done.weight[t]
    BY <1>4 DEF InDocument
  <2>2. n + 1 = 2 * Cardinality(DOMAIN built.lists[t])
    BY <2>1 DEF InDocument
  <2>3. DOMAIN built.lists[t] \subseteq 1..n + 1
    BY DEF InDocument, ListsOK
  <2>4. {e \in DOMAIN built.lists[t] : e <= n + 1} = DOMAIN built.lists[t]
    BY <2>3
  <2>. QED  BY <2>2, <2>4 DEF Halved
<1>. HIDE DEF zero
<1>5. \A d \in built.weightless : d \in 1..n + 1 /\ AllHalved(built.lists, d)
  BY <1>1 DEF InDocument, WeightlessOK
<1>6. WeightlessOK(ended)
  BY <1>3, <1>4, <1>5 DEF WeightlessOK
<1>. QED  BY <1>2, <1>3, <1>6 DEF InDocument, BuiltOK

\* A document begins without a term.
LEMMA BeginsDocument ==
    ASSUME NEW n \in Nat, NEW built, BuiltOK(built, n)
    PROVE  InDocument([index |-> built, weight |-> [t \in {} |-> FALSE]], n)
<1>. DEFINE done == [index |-> built, weight |-> [t \in {} |-> FALSE]]
<1>1. done.index = built /\ DOMAIN done.weight = {}
  OBVIOUS
<1>. HIDE DEF done
<1>2. \A t \in DOMAIN built.lists : /\ DOMAIN built.lists[t] \subseteq 1..n + 1
                                    /\ n + 1 \notin DOMAIN built.lists[t]
  <2>1. 1..n \subseteq 1..n + 1 /\ n + 1 \notin 1..n
    OBVIOUS
  <2>. QED  BY <2>1 DEF BuiltOK, ListsOK
<1>3. ListsOK(built.lists, n + 1)
  BY <1>2 DEF BuiltOK, ListsOK
<1>. QED  BY <1>1, <1>2, <1>3 DEF BuiltOK, InDocument, done

\* A document is what the inserter has done when it has read the last token.
LEMMA InsertDocumentIs ==
    ASSUME NEW built, NEW tokens, Len(tokens) \in Nat
    PROVE  \E done : /\ done[0] = [index |-> built, weight |-> [t \in {} |-> FALSE]]
                     /\ \A k \in 1..Len(tokens) : done[k] = IndexToken(done[k - 1], tokens[k])
                     /\ InsertDocument(built, tokens) = EndDocument(done[Len(tokens)])
<1>. DEFINE Step(f, k) == IF k = 0 THEN [index |-> built, weight |-> [t \in {} |-> FALSE]]
                          ELSE IndexToken(f[k - 1], tokens[k])
            Is(f, n) == f = [k \in 0..n |-> Step(f, k)]
            T == {n \in Nat : \E f : Is(f, n)}
            done == CHOOSE f : Is(f, Len(tokens))
<1>1. 0 \in T
  <2>1. Is([k \in 0..0 |-> [index |-> built, weight |-> [t \in {} |-> FALSE]]], 0)
    OBVIOUS
  <2>. QED  BY <2>1
<1>2. ASSUME NEW n \in Nat, n \in T PROVE n + 1 \in T
  <2>1. PICK f : Is(f, n)
    BY <1>2
  <2>. DEFINE g == [k \in 0..n + 1 |-> IF k = n + 1 THEN Step(f, k) ELSE f[k]]
  <2>2. \A k \in 0..n : f[k] = Step(f, k)
    <3>. HIDE DEF Step
    <3>. QED  BY <2>1
  <2>3. \A k \in 0..n + 1 : g[k] = Step(g, k)
    <3>1. \A k \in 0..n : g[k] = f[k]
      OBVIOUS
    <3>2. g[n + 1] = Step(f, n + 1)
      OBVIOUS
    <3>. HIDE DEF g
    <3>3. \A k \in 0..n + 1 : Step(g, k) = Step(f, k)
      BY <3>1
    <3>. HIDE DEF Step
    <3>4. \A k \in 0..n + 1 : k \in 0..n \/ k = n + 1
      OBVIOUS
    <3>. QED  BY <2>2, <3>1, <3>2, <3>3, <3>4
  <2>4. Is(g, n + 1)
    <3>1. g = [k \in 0..n + 1 |-> g[k]]
      OBVIOUS
    <3>. HIDE DEF g, Step
    <3>. QED  BY <2>3, <3>1
  <2>. HIDE DEF Is, g
  <2>. QED  BY <2>4
<1>3. Len(tokens) \in T
  <2>. HIDE DEF T
  <2>. QED  BY <1>1, <1>2, NatSetInduction
<1>4. Is(done, Len(tokens))
  <2>1. \E f : Is(f, Len(tokens))
    BY <1>3
  <2>. HIDE DEF Is
  <2>. QED  BY <2>1
<1>5. InsertDocument(built, tokens) = EndDocument(done[Len(tokens)])
  BY DEF InsertDocument
<1>6. \A k \in 0..Len(tokens) : done[k] = Step(done, k)
  <2>. HIDE DEF Step, done
  <2>. QED  BY <1>4
<1>. HIDE DEF done
<1>. QED  BY <1>5, <1>6

LEMMA InsertsDocument ==
    ASSUME NEW n \in Nat, NEW built, BuiltOK(built, n), NEW tokens \in Seq(Placed)
    PROVE  BuiltOK(InsertDocument(built, tokens), n + 1)
<1>1. Len(tokens) \in Nat /\ \A k \in 1..Len(tokens) : tokens[k] \in Placed
  BY LenProperties, ElementOfSeq
<1>2. PICK done :
          /\ done[0] = [index |-> built, weight |-> [t \in {} |-> FALSE]]
          /\ \A k \in 1..Len(tokens) : done[k] = IndexToken(done[k - 1], tokens[k])
          /\ InsertDocument(built, tokens) = EndDocument(done[Len(tokens)])
  BY <1>1, InsertDocumentIs
<1>. DEFINE S == {k \in Nat : k <= Len(tokens) => InDocument(done[k], n)}
<1>3. 0 \in S
  BY <1>2, BeginsDocument
<1>4. ASSUME NEW k \in Nat, k \in S PROVE k + 1 \in S
  <2>. SUFFICES ASSUME k + 1 <= Len(tokens) PROVE InDocument(done[k + 1], n)
    OBVIOUS
  <2>1. k + 1 \in 1..Len(tokens) /\ (k + 1) - 1 = k
    BY <1>1
  <2>2. done[k + 1] = IndexToken(done[k], tokens[k + 1]) /\ tokens[k + 1] \in Placed
    BY <1>1, <1>2, <2>1
  <2>3. InDocument(done[k], n)
    BY <1>1, <1>4
  <2>. QED  BY <2>2, <2>3, IndexesToken
<1>5. Len(tokens) \in S
  <2>. HIDE DEF S
  <2>. QED  BY <1>1, <1>3, <1>4, NatSetInduction
<1>. QED  BY <1>1, <1>2, <1>5, EndsDocument

\* An index is what the inserter has built when it has read the last document.
LEMMA IndexIs ==
    ASSUME NEW positional, NEW documents, Len(documents) \in Nat
    PROVE  \E built : /\ built[0] = EmptyIndex(positional)
                      /\ \A k \in 1..Len(documents) : built[k] = InsertDocument(built[k - 1], documents[k])
                      /\ IndexOf(positional, documents) = built[Len(documents)]
<1>. DEFINE Step(f, k) == IF k = 0 THEN EmptyIndex(positional)
                          ELSE InsertDocument(f[k - 1], documents[k])
            Is(f, n) == f = [k \in 0..n |-> Step(f, k)]
            T == {n \in Nat : \E f : Is(f, n)}
            built == CHOOSE f : Is(f, Len(documents))
<1>1. 0 \in T
  <2>1. Is([k \in 0..0 |-> EmptyIndex(positional)], 0)
    OBVIOUS
  <2>. QED  BY <2>1
<1>2. ASSUME NEW n \in Nat, n \in T PROVE n + 1 \in T
  <2>1. PICK f : Is(f, n)
    BY <1>2
  <2>. DEFINE g == [k \in 0..n + 1 |-> IF k = n + 1 THEN Step(f, k) ELSE f[k]]
  <2>2. \A k \in 0..n : f[k] = Step(f, k)
    <3>. HIDE DEF Step
    <3>. QED  BY <2>1
  <2>3. \A k \in 0..n + 1 : g[k] = Step(g, k)
    <3>1. \A k \in 0..n : g[k] = f[k]
      OBVIOUS
    <3>2. g[n + 1] = Step(f, n + 1)
      OBVIOUS
    <3>. HIDE DEF g
    <3>3. \A k \in 0..n + 1 : Step(g, k) = Step(f, k)
      BY <3>1
    <3>. HIDE DEF Step
    <3>4. \A k \in 0..n + 1 : k \in 0..n \/ k = n + 1
      OBVIOUS
    <3>. QED  BY <2>2, <3>1, <3>2, <3>3, <3>4
  <2>4. Is(g, n + 1)
    <3>1. g = [k \in 0..n + 1 |-> g[k]]
      OBVIOUS
    <3>. HIDE DEF g, Step
    <3>. QED  BY <2>3, <3>1
  <2>. HIDE DEF Is, g
  <2>. QED  BY <2>4
<1>3. Len(documents) \in T
  <2>. HIDE DEF T
  <2>. QED  BY <1>1, <1>2, NatSetInduction
<1>4. Is(built, Len(documents))
  <2>1. \E f : Is(f, Len(documents))
    BY <1>3
  <2>. HIDE DEF Is
  <2>. QED  BY <2>1
<1>5. IndexOf(positional, documents) = built[Len(documents)]
  BY DEF IndexOf
<1>6. \A k \in 0..Len(documents) : built[k] = Step(built, k)
  <2>. HIDE DEF Step, built
  <2>. QED  BY <1>4
<1>. HIDE DEF built
<1>. QED  BY <1>5, <1>6

LEMMA EmptyIsBuilt ==
    ASSUME NEW positional \in BOOLEAN
    PROVE  BuiltOK(EmptyIndex(positional), 0)
<1>. DEFINE built == [positional |-> positional, count |-> 0,
                      lists |-> [t \in {} |-> EmptyList], weightless |-> {}]
<1>1. Shape(built, 0) /\ DOMAIN built.lists = {} /\ built.weightless = {}
  BY DEF Shape
<1>2. built = EmptyIndex(positional)
  BY DEF EmptyIndex
<1>. HIDE DEF built
<1>3. IsFiniteSet({})
  BY FS_EmptySet
<1>. QED  BY <1>1, <1>2, <1>3 DEF BuiltOK, ListsOK, WeightlessOK

LEMMA BuildsIndex ==
    ASSUME NEW positional \in BOOLEAN, NEW documents \in Seq(Seq(Placed))
    PROVE  BuiltOK(IndexOf(positional, documents), Len(documents))
<1>1. Len(documents) \in Nat /\ \A k \in 1..Len(documents) : documents[k] \in Seq(Placed)
  BY LenProperties, ElementOfSeq
<1>2. PICK built :
          /\ built[0] = EmptyIndex(positional)
          /\ \A k \in 1..Len(documents) : built[k] = InsertDocument(built[k - 1], documents[k])
          /\ IndexOf(positional, documents) = built[Len(documents)]
  BY <1>1, IndexIs
<1>. DEFINE S == {k \in Nat : k <= Len(documents) => BuiltOK(built[k], k)}
<1>3. 0 \in S
  BY <1>2, EmptyIsBuilt
<1>4. ASSUME NEW k \in Nat, k \in S PROVE k + 1 \in S
  <2>. SUFFICES ASSUME k + 1 <= Len(documents) PROVE BuiltOK(built[k + 1], k + 1)
    OBVIOUS
  <2>1. k + 1 \in 1..Len(documents) /\ (k + 1) - 1 = k
    BY <1>1
  <2>2. built[k + 1] = InsertDocument(built[k], documents[k + 1])
        /\ documents[k + 1] \in Seq(Placed)
    BY <1>1, <1>2, <2>1
  <2>3. BuiltOK(built[k], k)
    BY <1>1, <1>4
  <2>. QED  BY <2>2, <2>3, InsertsDocument
<1>5. Len(documents) \in S
  <2>. HIDE DEF S
  <2>. QED  BY <1>1, <1>3, <1>4, NatSetInduction
<1>. QED  BY <1>1, <1>2, <1>5

-----------------------------------------------------------------------------
(* The theorems.                                                           *)

THEOREM Invariance == Spec => []Inv
<1>1. Init => Inv
  BY InvInit
<1>2. Inv /\ [Next]_vars => Inv'
  BY InvNext
<1>. QED  BY <1>1, <1>2, PTL DEF Spec

\* Type correctness of the engine: filterStart, filterEnd and the pipes keep to
\* their capacities, what is sent are documents (engine.go:61).
THEOREM TypeCorrect == Spec => []TypeOK
<1>1. ASSUME Inv PROVE TypeOK
  <2>1. ChainTypeOK /\ SearchTypeOK
    BY <1>1 DEF Inv, ChainInv, SearchInv
  <2>2. hand \in Seq(Tokens) /\ Len(hand) <= 1
    <3>1. CASE hand = <<>>
      BY <3>1, EmptySeq
    <3>2. CASE hand # <<>>
      <4>1. PICK tok \in Tokens : hand = <<tok>>
        BY <1>1, <3>2 DEF Inv, HandInv
      <4>. QED  BY <4>1
    <3>. QED  BY <3>1, <3>2
  <2>3. filterEnd \in Seq(Tokens)
    BY <1>1 DEF Inv, HandInv, Good
  <2>. QED  BY <1>1, <2>1, <2>2, <2>3 DEF Inv, TypeOK, EngineTypeOK, CollectorTypeOK
<1>. QED  BY <1>1, Invariance, PTL

\* No token of a query is left for the next one, in whatever order the filters,
\* FilterTokens and the engine ran, and whatever FilterTokens came too late for
\* (getDocTokens, engine.go:172).
THEOREM Separation == Spec => []NothingLeftBehind
<1>1. Inv => NothingLeftBehind
  BY DEF Inv, PcInv, NothingLeftBehind
<1>. QED  BY <1>1, Invariance, PTL

\* The engine searches as PhraseSearch specifies: it begins a search with the
\* terms of a query, and takes what was found when the search has ended
\* (ProcessPositional, bm25.go:67).
THEOREM EngineSearches == Spec => SearchSpec
<1>1. Init => SearchInit
  BY DEF Init
<1>2. Inv /\ [Next]_vars => [SearchNext]_searchVars
  BY InvNext
<1>. QED  BY <1>1, <1>2, Invariance, PTL DEF Spec, SearchSpec

\* So what it finds is exact, and a document that has the phrase is found.
THEOREM AnswersAreExact == Spec => []PhraseIsExact /\ []PhraseIsFound
  BY EngineSearches, Exactness, Completeness, PTL

\* The answer to a query is the one to its tokens when they pass the filters
\* one by one, however the goroutines of the chain, FilterTokens and the engine
\* take turns, unless FilterTokens came too late for some of them or an earlier
\* query left a date unfinished; below the threshold it is the answer to the
\* rarest of the terms (TokenizeToChan and getDocTokens, engine.go:90;
\* ThresholdQueryTerms, threshold.go:49).
THEOREM AnswersAreRight == Spec => []AnswerIsRight
<1>1. Init => AnswerInv
  BY AnswerInvInit
<1>2. Inv /\ AnswerInv /\ [Next]_vars => AnswerInv'
  BY AnswerInvNext
<1>3. AnswerInv => AnswerIsRight
  BY DEF AnswerInv
<1>. QED  BY <1>1, <1>2, <1>3, Invariance, PTL DEF Spec

\* The process ends only of a score that is not a number: the cosine of a
\* document half of the documents before which had each of its terms, and the
\* language model of a phrase with the mu of another index, or on an index of
\* one term and one document (cosine_vsm.go:98 and 165, language_model.go:56).
THEOREM DeathsHaveReasons == Spec => []DeathHasItsReason
<1>1. Init => AnswerInv /\ DeathHasItsReason
  BY AnswerInvInit DEF Init, DeathHasItsReason
<1>2. Inv /\ AnswerInv /\ DeathHasItsReason /\ [Next]_vars => AnswerInv' /\ DeathHasItsReason'
  BY AnswerInvNext, DeathStep
<1>. QED  BY <1>1, <1>2, Invariance, PTL DEF Spec

\* What the inserter makes of one document or more is an index as
\* IndexesAssumption says: the entries of a list are sorted, and a document
\* every weight of which is 0 has only terms half of the documents so far had.
\* So nothing is assumed of an index the inserter built (InsertToken and its
\* loop, single_term.go:322).
THEOREM InsertedIsIndex ==
    \A positional \in BOOLEAN, documents \in Seq(Seq(Placed)) :
        documents # <<>> => IsIndex(IndexOf(positional, documents))
<1>. SUFFICES ASSUME NEW positional \in BOOLEAN, NEW documents \in Seq(Seq(Placed)),
                     documents # <<>>
              PROVE  IsIndex(IndexOf(positional, documents))
  OBVIOUS
<1>1. Len(documents) \in Nat /\ Len(documents) # 0
  BY EmptySeq, LenProperties
<1>2. BuiltOK(IndexOf(positional, documents), Len(documents))
  BY BuildsIndex
<1>. QED  BY <1>1, <1>2, BuiltIsIndex
=============================================================================

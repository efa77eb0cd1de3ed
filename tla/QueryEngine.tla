---------------------------- MODULE QueryEngine ----------------------------
(***************************************************************************)
(* ZeroMQEngine: the goroutine that answers the queries on one index.  It   *)
(* pushes a query's tokens through the index's own filters into filterStart *)
(* and, when it has pushed them all, reads what became of them from         *)
(* filterEnd, to which the goroutine FilterTokens carries the output of the *)
(* last filter.  Then a ranker looks the terms up.                          *)
(*                                                                         *)
(* Of a score only matters whether it is a number: an infinite one cannot   *)
(* be marshalled and ends the process.                                      *)
(***************************************************************************)
EXTENDS FilterChain, PhraseSearch

CONSTANTS
    Queries,        \* what may be asked
    StartCap,       \* of filterStart; 100 in the code
    EndCap,         \* of filterEnd; 100 in the code
    OtherMeans      \* what the language model's mu may be on another engine's index

RankingEngines == {"BM25", "COSINE", "LM"}
Means == [terms : Nat \ {0}, docs : Nat \ {0}]

ASSUME QueriesAssumption ==
    Queries \subseteq
        [type : {"phrase", "stats"}, engine : STRING, force : BOOLEAN,
         thresh : Nat, term : Texts,
         tokens : Seq([text : Texts, type : {"text", "symbol"}, phrase : Nat])]
ASSUME CapsAssumption == StartCap \in Nat \ {0} /\ EndCap \in Nat \ {0}
ASSUME MeansAssumption == OtherMeans \subseteq Means

VARIABLES
    pc,             \* where the engine is: receive, push, collect, rank, search, stats, dead
    query,
    collected,      \* the texts of filteredTokens
    reply,          \* what was sent
    mu,             \* <<>>: 0, or <<the terms and documents it is the root of>>
    collector,      \* FilterTokens: starting, connected or reading
    hand,           \* the token it has in hand
    filterEnd,
    lost,           \* the types of the tokens of this query that were dropped
    dated           \* a date left unfinished by the queries before it

engineVars == <<pc, query, collected, reply, mu>>
collectorVars == <<collector, hand, filterEnd>>
historyVars == <<lost, dated>>
vars == <<chainVars, toPush, searchVars, engineVars, collectorVars, historyVars>>

NoQuery == [type |-> "none"]
NoReply == [kind |-> "none", docs |-> {}]
Answer(docs) == [kind |-> IF docs = {} THEN "nothing" ELSE "documents", docs |-> docs]
\* ExtendUnique takes the results of an ErrorResponse, and leaves its text.
Nothing == Answer({})
Reply(kind) == [kind |-> kind, docs |-> {}]

Init ==
    /\ ChainInit /\ SearchInit
    /\ pc = "receive" /\ query = NoQuery /\ collected = <<>> /\ reply = NoReply
    /\ mu = <<>>
    /\ collector = "starting" /\ hand = <<>> /\ filterEnd = <<>>
    /\ lost = {} /\ dated = FALSE
-----------------------------------------------------------------------------
(* The engine: a query's tokens.                                           *)

\* TokenizeToChan: the query's tokens and a Null token, all of document 0.
TokensOf(q) ==
    Append([k \in DOMAIN q.tokens |->
               [doc |-> 0, text |-> q.tokens[k].text, type |-> q.tokens[k].type,
                phrase |-> q.tokens[k].phrase, final |-> FALSE]],
           NullToken(0))

Supported(q) == q.engine \in RankingEngines

ReceiveQuery(q) ==
    /\ pc = "receive" /\ query' = q /\ lost' = {}
    /\ dated' = (\E i \in 1..N : fstate[i].month # <<>>)
    /\ UNCHANGED <<mu, chainVars, searchVars, collectorVars>>

ReceivePhrase(q) ==
    /\ q.type = "phrase" /\ Supported(q) /\ ReceiveQuery(q)
    /\ pc' = "push" /\ toPush' = TokensOf(q) /\ collected' = <<>> /\ reply' = NoReply

RefusePhrase(q) ==
    /\ q.type = "phrase" /\ ~Supported(q) /\ ReceiveQuery(q)
    /\ reply' = Reply("unsupported") /\ UNCHANGED <<pc, toPush, collected>>

\* LookupStats.
ReceiveStats(q) ==
    /\ q.type = "stats" /\ ReceiveQuery(q)
    /\ reply' = Reply(IF Known(q.term) THEN "stats" ELSE "unknown")
    /\ UNCHANGED <<pc, toPush, collected>>

Push ==
    /\ pc = "push" /\ PushToken(StartCap)
    /\ pc' = IF Len(toPush) = 1 THEN "collect" ELSE "push"
    /\ UNCHANGED <<searchVars, query, collected, reply, mu, collectorVars, historyVars>>

\* Mutant: the first token of all ends the query.
CollectOne ==
    /\ pc = "collect" /\ filterEnd # <<>>
    /\ filterEnd' = Tail(filterEnd)
    /\ IF Head(filterEnd).type = "null" THEN pc' = "rank" /\ UNCHANGED collected
       ELSE pc' = "rank" /\ collected' = Append(collected, Head(filterEnd).text)
    /\ UNCHANGED <<chainVars, toPush, searchVars, query, reply, mu, collector, hand,
                   historyVars>>

\* getDocTokens.
Collect ==
    /\ pc = "collect" /\ filterEnd # <<>>
    /\ filterEnd' = Tail(filterEnd)
    /\ IF Head(filterEnd).type = "null" THEN pc' = "rank" /\ UNCHANGED collected
       ELSE collected' = Append(collected, Head(filterEnd).text) /\ UNCHANGED pc
    /\ UNCHANGED <<chainVars, toPush, searchVars, query, reply, mu, collector, hand,
                   historyVars>>
-----------------------------------------------------------------------------
(* The engine: the answer.                                                 *)

\* Idf of s is higher; a term the index has not is the last.
Rarer(s, t) == Known(s) /\ (Known(t) => Df(index, s) < Df(index, t))

\* Mutant: the tokens are cut before they are sorted.
ThresholdUnsorted(texts) == {SubSeq(texts, 1, (query.thresh * Len(texts) + 99) \div 100)}

\* ThresholdQueryTerms, the first group: the rarest terms, terms that are as
\* rare in any order, and as many as the threshold says.
Threshold(texts) ==
    LET ids == DOMAIN texts
        orders == {f \in [ids -> ids] :
                      \A j, k \in ids : j < k => f[j] # f[k] /\ ~Rarer(texts[f[k]], texts[f[j]])}
        count == (query.thresh * Len(texts) + 99) \div 100
    IN  {[k \in 1..count |-> texts[f[k]]] : f \in orders}

QueryTerms == IF query.thresh < 100 THEN Threshold(collected) ELSE {collected}

\* The language model's mu is set by the first query it gets, on any index.
OwnMean == [terms |-> TermCount(index), docs |-> index.count]
SetMean == mu' = IF mu = <<>> /\ TermCount(index) > 0 THEN <<OwnMean>> ELSE mu

Send(r) == pc' = "receive" /\ reply' = r
Die == pc' = "dead" /\ UNCHANGED reply

\* ProcessQuery on an index that is not positional: every document with one of
\* the terms.  The cosine is divided by the document's weight.
RankTerms ==
    /\ pc = "rank" /\ ~index.positional
    /\ \E used \in QueryTerms :
         LET known == {k \in DOMAIN used : Known(used[k])}
             docs == UNION {DOMAIN index.lists[used[k]] : k \in known}
             avgDf == FoldLeft(LAMBDA n, t : IF Known(t) THEN n + Df(index, t) ELSE n, 0, used)
         IN  \/ ~query.force /\ 100 * avgDf < index.count /\ Send(Nothing)
             \/ /\ query.force \/ 100 * avgDf >= index.count
                /\ IF query.engine = "COSINE" /\ docs \cap index.weightless # {} THEN Die
                   ELSE Send(Answer(docs))
    /\ IF query.engine = "LM" THEN SetMean ELSE UNCHANGED mu
    /\ UNCHANGED <<chainVars, toPush, searchVars, query, collected, collectorVars, historyVars>>

\* ProcessPositional: FilterPositional, and then
BeginPhrase ==
    /\ pc = "rank" /\ index.positional /\ pc' = "search"
    /\ \E used \in QueryTerms : BeginSearch(used)
    /\ UNCHANGED <<chainVars, toPush, query, collected, reply, mu, collectorVars, historyVars>>

Search ==
    /\ pc = "search" /\ SearchStep
    /\ UNCHANGED <<chainVars, toPush, engineVars, collectorVars, historyVars>>

Found == IF pl = <<>> THEN EmptyList ELSE pl[1]
Insufficient ==
    pl = <<>> \/ (~query.force /\ Cardinality(DOMAIN Found) < index.count \div 100)

RefuseFound ==
    /\ pc = "search" /\ TakeFound /\ Insufficient /\ Send(Nothing)
    /\ UNCHANGED <<chainVars, toPush, query, collected, mu, collectorVars, historyVars>>

RankFound ==
    /\ pc = "search" /\ TakeFound /\ ~Insufficient /\ query.engine = "BM25"
    /\ Send(Answer(DOMAIN Found))
    /\ UNCHANGED <<chainVars, toPush, query, collected, mu, collectorVars, historyVars>>

\* doc_weight is not reset between documents, which come in any order: only the
\* weight of the first may be 0.
RankFoundCosine ==
    /\ pc = "search" /\ TakeFound /\ ~Insufficient /\ query.engine = "COSINE"
    /\ \/ DOMAIN Found \cap index.weightless # {} /\ Die
       \/ /\ DOMAIN Found = {} \/ ~(DOMAIN Found \subseteq index.weightless)
          /\ Send(Answer(DOMAIN Found))
    /\ UNCHANGED <<chainVars, toPush, query, collected, mu, collectorVars, historyVars>>

\* Mutant: the phrase's Tf is not divided by the number of terms.
NotPositiveUndivided(f, mean) == (f * f) * mean.docs <= mean.terms

\* The phrase has a Tf of -1: the logarithm is of a number that is not positive
\* where it is no more frequent than mu / TermCount.
NotPositive(f, mean) ==
    LET times == f * TermCount(index)
    IN  (times * times) * mean.docs <= mean.terms

RankFoundLM ==
    /\ pc = "search" /\ TakeFound /\ ~Insufficient /\ query.engine = "LM" /\ SetMean
    /\ IF \E d \in DOMAIN Found : NotPositive(Frequency(Found, d), mu'[1])
       THEN Die ELSE Send(Answer(DOMAIN Found))
    /\ UNCHANGED <<chainVars, toPush, query, collected, collectorVars, historyVars>>

\* The engine of another index in the process gets the first LM query (the
\* dispatcher asks one engine at a time).
OtherQuery ==
    /\ pc = "receive" /\ mu = <<>> /\ \E mean \in OtherMeans : mu' = <<mean>>
    /\ UNCHANGED <<chainVars, toPush, searchVars, pc, query, collected, reply, collectorVars,
                   historyVars>>
-----------------------------------------------------------------------------
(* The filters' goroutines; the head reads filterStart once it is connected. *)

Run(i) ==
    /\ i = 1 => collector # "starting"
    /\ FilterRound(i)
    /\ UNCHANGED <<searchVars, engineVars, collectorVars, historyVars>>

SendOn(i) ==
    /\ i < N \/ collector = "reading"
    /\ SendToken(i)
    /\ UNCHANGED <<searchVars, engineVars, collectorVars, historyVars>>

SendToNobody ==
    /\ collector # "reading" /\ DropHeld
    /\ lost' = lost \cup {tok.type : tok \in ToSet(held[N])}
    /\ UNCHANGED <<searchVars, engineVars, collectorVars, dated>>
-----------------------------------------------------------------------------
(* FilterTokens.                                                           *)

\* SetInput of the head, and Pull.
Connect ==
    /\ collector = "starting" /\ collector' = "connected"
    /\ UNCHANGED <<chainVars, toPush, searchVars, engineVars, hand, filterEnd, historyVars>>

\* Output() of the last filter.
Attach ==
    /\ collector = "connected" /\ collector' = "reading"
    /\ UNCHANGED <<chainVars, toPush, searchVars, engineVars, hand, filterEnd, historyVars>>

TakeToken ==
    /\ collector = "reading" /\ hand = <<>> /\ TakeArrived /\ hand' = <<Arrived>>
    /\ UNCHANGED <<searchVars, engineVars, collector, filterEnd, historyVars>>

\* Mutant: the Null token is not passed on.
PassOnNoNull ==
    /\ hand # <<>> /\ Len(filterEnd) < EndCap /\ hand' = <<>>
    /\ filterEnd' = IF hand[1].type = "null" THEN filterEnd ELSE Append(filterEnd, hand[1])
    /\ UNCHANGED <<chainVars, toPush, searchVars, engineVars, collector, historyVars>>

\* Mutant: filterEnd is never full.
PassOnAnyway ==
    /\ hand # <<>>
    /\ filterEnd' = Append(filterEnd, hand[1]) /\ hand' = <<>>
    /\ UNCHANGED <<chainVars, toPush, searchVars, engineVars, collector, historyVars>>

PassOn ==
    /\ hand # <<>> /\ Len(filterEnd) < EndCap
    /\ filterEnd' = Append(filterEnd, hand[1]) /\ hand' = <<>>
    /\ UNCHANGED <<chainVars, toPush, searchVars, engineVars, collector, historyVars>>
-----------------------------------------------------------------------------
Engine ==
    \/ Push \/ Collect \/ RankTerms \/ BeginPhrase \/ Search
    \/ RefuseFound \/ RankFound \/ RankFoundCosine \/ RankFoundLM
Receive == \E q \in Queries : ReceivePhrase(q) \/ RefusePhrase(q) \/ ReceiveStats(q)
FilterRuns(i) == Run(i) \/ SendOn(i) \/ (i = N /\ SendToNobody)
FilterTokens == Connect \/ Attach \/ TakeToken \/ PassOn

Next ==
    /\ pc # "dead"
    /\ \/ Receive \/ Engine \/ OtherQuery \/ FilterTokens
       \/ \E i \in 1..N : FilterRuns(i)

Spec == Init /\ [][Next]_vars

\* Go runs every goroutine; queries come as they like.
FairSpec ==
    /\ Spec /\ WF_vars(pc # "dead" /\ Engine) /\ WF_vars(pc # "dead" /\ FilterTokens)
    /\ \A i \in 1..N : WF_vars(pc # "dead" /\ FilterRuns(i))
-----------------------------------------------------------------------------
TypeOK ==
    /\ ChainTypeOK /\ SearchTypeOK
    /\ Len(pipe[0]) <= StartCap /\ \A i \in 1..N : Len(pipe[i]) <= Capacity
    /\ pc \in {"receive", "push", "collect", "rank", "search", "dead"}
    /\ query \in Queries \cup {NoQuery} /\ collected \in Seq(Texts)
    /\ reply \in [kind : {"none", "nothing", "documents", "unsupported", "stats", "unknown"},
                  docs : SUBSET Nat]
    /\ mu \in Seq(Means) /\ Len(mu) <= 1
    /\ collector \in {"starting", "connected", "reading"}
    /\ hand \in Seq(Tokens) /\ Len(hand) <= 1
    /\ filterEnd \in Seq(Tokens) /\ Len(filterEnd) <= EndCap
    /\ lost \subseteq {"text", "symbol", "null"} /\ dated \in BOOLEAN

\* A query starts from an empty chain: when the engine is not pushing or
\* collecting a query's tokens, none is left in a pipe, in a filter, in
\* FilterTokens' hand or in filterEnd, whatever was dropped at the start
\* (getDocTokens reads up to the Null token, and nothing tells queries apart).
NothingLeftBehind ==
    pc \notin {"push", "collect"} => Idle /\ hand = <<>> /\ filterEnd = <<>>

\* What a query's tokens become when they pass the filters one by one.
Filtered(q) == TextsOf(0, PassAll(Filter, TokensOf(q)))

\* The documents to answer with: those with one of the terms, or those one can
\* walk through to the last known term of the phrase.
WithATerm(texts) ==
    UNION {DOMAIN index.lists[texts[k]] : k \in KnownUpTo(texts, Len(texts))}
WithPhrase(texts) ==
    {d \in WithATerm(texts) : Walks(texts, d, Len(texts)) # {}}
Answering(texts) == IF index.positional THEN WithPhrase(texts) ELSE WithATerm(texts)

\* As many of the texts as the threshold says, none left out that is rarer.
Rarest(texts) ==
    {f \in UNION {[1..n -> DOMAIN texts] : n \in 0..Len(texts)} :
        /\ 100 * (Len(f) - 1) < query.thresh * Len(texts)
        /\ query.thresh * Len(texts) <= 100 * Len(f)
        /\ \A j, k \in DOMAIN f : f[j] = f[k] => j = k
        /\ \A j \in DOMAIN f, k \in DOMAIN texts \ ToSet(f) : ~Rarer(texts[k], texts[f[j]])}

\* An answer is the one to the query asked, however its tokens were scheduled,
\* unless an unfinished date of an earlier query was in the way or FilterTokens
\* started late; below the threshold it is the answer to the rarest terms, in
\* some order.  (A refusal for want of documents looks like an empty answer.)
AnswerIsRight ==
    /\ pc = "receive" /\ lost = {} /\ ~dated
    /\ reply.kind = "documents" \/ (reply.kind = "nothing" /\ query.force)
    => LET texts == Filtered(query)
       IN  IF query.thresh >= 100 THEN reply.docs = Answering(texts)
           ELSE \E f \in Rarest(texts) :
                    reply.docs = Answering([k \in DOMAIN f |-> texts[f[k]]])

\* A document in front of which Idf was 0 for each of its terms, and in which
\* there is a term of the query.
Undivided(d) ==
    /\ \A t \in DOMAIN index.lists : d \in DOMAIN index.lists[t] => Halved(index.lists[t], d)
    /\ \E k \in DOMAIN collected : Known(collected[k]) /\ d \in DOMAIN index.lists[collected[k]]

\* What ends the process: the cosine of a document each term of which half the
\* documents before it had, and the language model of a phrase with a mu that
\* is another index's, or of an index with one document and one term.
DeathHasItsReason ==
    pc = "dead" =>
        \/ query.engine = "COSINE" /\ \E d \in 1..index.count : Undivided(d)
        \/ query.engine = "LM" /\ (mu # <<OwnMean>> \/ OwnMean = [terms |-> 1, docs |-> 1])

\* A query is answered when its tokens fit in filterStart, or what becomes of
\* them in filterEnd (a date may add one): the engine pushes them all before it
\* reads any.  A longer one may stop the engine for ever, and so does one whose
\* Null token the last filter sent to nobody, for getDocTokens waits for it.
Fits(q) == Len(TokensOf(q)) <= StartCap \/ Len(PassAll(Filter, TokensOf(q))) < EndCap
QueriesAreAnswered ==
    (pc \in {"push", "collect"} /\ Fits(query))
        ~> (pc \in {"receive", "dead"} \/ "null" \in lost)
=============================================================================

------------------------ MODULE QueryDispatchProofs ------------------------
(* For any clients, engines, queries and indexes, every answer a client gets *)
(* is the answer to the query it asked.                                      *)
EXTENDS QueryDispatch, TLAPS

Serving(c) == pc # "receive" /\ peer = c

\* A client's query is in one place: on the wire, at the dispatcher or, as its
\* answer, on the way back.
ClientInv ==
    \A c \in Clients :
        /\ asked[c] = None => request[c] = None /\ reply[c] = None /\ ~Serving(c)
        /\ request[c] # None => /\ request[c] = asked[c]
                                /\ reply[c] = None /\ ~Serving(c)
        /\ reply[c] # None => reply[c] = Best(asked[c]) /\ ~Serving(c)
        /\ Serving(c) => asked[c] = query

\* No preference before the one the loop is at has an answer.
InVain(n) == \A j \in 1 .. n : ~Answers(query, j)

\* What the dispatcher knows where it is.
LoopInv ==
    /\ pc = "route" => ~force /\ InVain(next - 1)
    /\ pc = "await" => Tag \in Engines /\ force = Last /\ InVain(next - 1)
    /\ pc = "send" => response \in Responses /\ Sent(response) = Best(query)

\* What is on the way to and from the engine that is asked.
EngineInv ==
    \A e \in Engines :
        /\ ~(pc = "await" /\ Tag = e) => toEngine[e] = <<>> /\ fromEngine[e] = <<>>
        /\ pc = "await" /\ Tag = e =>
              \/ /\ toEngine[e] = << [query |-> query, force |-> force] >>
                 /\ fromEngine[e] = <<>>
              \/ /\ toEngine[e] = <<>>
                 /\ fromEngine[e] = << EngineReply(e, query, force) >>

IInv == TypeOK /\ ClientInv /\ LoopInv /\ EngineInv
-----------------------------------------------------------------------------
(* The operators.                                                           *)

\* A query of TypeOK has at least one preference, each of them a tag.
LEMMA QueryType ==
    ASSUME NEW q \in Queries
    PROVE  /\ q.text \in Texts /\ q.prefs \in Seq(Tags) /\ q.prefs # <<>>
           /\ Len(q.prefs) \in Nat \ {0}
           /\ \A i \in 1 .. Len(q.prefs) : q.prefs[i] \in Tags
           /\ DOMAIN q.prefs = 1 .. Len(q.prefs)
  BY QueriesAssumption

\* What an engine sends is a response.
LEMMA EngineReplyType ==
    ASSUME NEW e \in Engines, NEW q \in Queries, NEW f \in BOOLEAN
    PROVE  EngineReply(e, q, f) \in Responses
  <1>1. q.text \in Texts  BY QueryType
  <1>2. Found(e, q.text) \in Engines \X Texts  BY <1>1 DEF Found
  <1>3. RankedReply(e, q.text, f) \in Responses
    BY <1>2 DEF RankedReply, Response, Responses, Errors, Nothing
  <1>4. LookupStats(e, q.text) \in Responses
    BY <1>2 DEF LookupStats, ErrorResponse, Response, Responses, Errors, Nothing
  <1>5. ErrorResponse("unsupported") \in Responses
    BY DEF ErrorResponse, Response, Responses, Errors, Nothing
  <1> QED  BY <1>3, <1>4, <1>5 DEF EngineReply

\* The first preference that answers has the best answer.
LEMMA BestIsFirst ==
    ASSUME NEW q \in Queries, NEW n \in 1 .. Len(q.prefs),
           Answers(q, n), \A j \in 1 .. (n - 1) : ~Answers(q, j)
    PROVE  Best(q) = [EngineReply(q.prefs[n], q, n = Len(q.prefs))
                         EXCEPT !.source = q.prefs[n]]
  <1> DEFINE able == {i \in DOMAIN q.prefs : Answers(q, i)}
             i == CHOOSE i \in able : \A j \in able : i <= j
  <1>1. n \in able /\ \A j \in able : n <= j  BY QueryType
  <1>2. i \in able /\ \A j \in able : i <= j  BY <1>1
  <1>3. able \subseteq Int  BY QueryType
  <1>4. i = n  BY <1>1, <1>2, <1>3
  <1>5. able # {}  BY <1>1
  <1> HIDE DEF able
  <1>6. Best(q) = IF able = {} THEN Failure(q)
                  ELSE [EngineReply(q.prefs[i], q, i = Len(q.prefs))
                           EXCEPT !.source = q.prefs[i]]
    BY DEF Best, able
  <1> QED  BY <1>4, <1>5, <1>6

\* When no preference answers, the best answer is the failure.
LEMMA BestIsFailure ==
    ASSUME NEW q \in Queries, \A j \in 1 .. Len(q.prefs) : ~Answers(q, j)
    PROVE  Best(q) = Failure(q)
  <1>1. {i \in DOMAIN q.prefs : Answers(q, i)} = {}  BY QueryType
  <1> QED  BY <1>1 DEF Best
-----------------------------------------------------------------------------
(* Every step keeps IInv.                                                   *)

LEMMA InitOK == Init => IInv
  <1> SUFFICES ASSUME Init PROVE IInv  OBVIOUS
  <1>1. TypeOK
    <2>1. /\ toEngine \in [Engines -> Seq(Messages)]
          /\ fromEngine \in [Engines -> Seq(Responses)]
      BY DEF Init
    <2>2. /\ asked \in [Clients -> Queries \cup {None}]
          /\ request \in [Clients -> Queries \cup {None}]
          /\ got \in [Clients -> Responses \cup {None}]
          /\ reply \in [Clients -> Responses \cup {None}]
      BY DEF Init
    <2>3. pc = "receive" /\ force \in BOOLEAN /\ next = 1 /\ response = None
      BY DEF Init
    <2> QED  BY <2>1, <2>2, <2>3 DEF TypeOK
  <1>2. ClientInv  BY DEF Init, ClientInv, Serving
  <1>3. LoopInv  BY DEF Init, LoopInv
  <1>4. EngineInv  BY DEF Init, EngineInv
  <1> QED  BY <1>1, <1>2, <1>3, <1>4 DEF IInv

\* A client's own steps do not concern the dispatcher.
LEMMA AskStep ==
    ASSUME IInv, NEW c \in Clients, NEW q \in Queries, Ask(c, q) PROVE IInv'
  <1> USE DEF IInv, Ask, dispatcherVars
  <1>1. TypeOK'  BY DEF TypeOK
  <1>2. ClientInv'  BY NoneAssumption DEF TypeOK, ClientInv, Serving
  <1>3. LoopInv'  BY DEF LoopInv, InVain, Tag, Last
  <1>4. EngineInv'  BY DEF EngineInv, Tag
  <1> QED  BY <1>1, <1>2, <1>3, <1>4

LEMMA HearStep == ASSUME IInv, NEW c \in Clients, Hear(c) PROVE IInv'
  <1> USE DEF IInv, Hear, dispatcherVars
  <1>1. TypeOK'  BY DEF TypeOK
  <1>2. ClientInv'
    <2>1. reply[c] # None /\ request[c] = None /\ ~Serving(c)
      BY DEF ClientInv
    <2> QED  BY <2>1 DEF TypeOK, ClientInv, Serving
  <1>3. LoopInv'  BY DEF LoopInv, InVain, Tag, Last
  <1>4. EngineInv'  BY DEF EngineInv, Tag
  <1> QED  BY <1>1, <1>2, <1>3, <1>4

LEMMA ReceiveStep == ASSUME IInv, NEW c \in Clients, Receive(c) PROVE IInv'
  <1> USE DEF IInv, Receive, clientVars
  <1>1. request[c] \in Queries /\ query' \in Queries  BY DEF TypeOK
  <1>2. TypeOK'
    <2>1. 1 <= Len(query'.prefs)  BY <1>1, QueryType
    <2>2. request' \in [Clients -> Queries \cup {None}]  BY DEF TypeOK
    <2>3. peer' = c /\ next' = 1 /\ force' \in BOOLEAN /\ pc' = "route"  OBVIOUS
    <2>4. UNCHANGED <<asked, got, reply, toEngine, fromEngine, response>>
      OBVIOUS
    <2> HIDE DEF Receive
    <2> QED  BY <1>1, <2>1, <2>2, <2>3, <2>4 DEF TypeOK
  <1>3. ClientInv'  BY <1>1, NoneAssumption DEF TypeOK, ClientInv, Serving
  <1>4. LoopInv'  BY DEF LoopInv, InVain
  <1>5. EngineInv'  BY DEF EngineInv
  <1> QED  BY <1>2, <1>3, <1>4, <1>5

\* While the loop is between two preferences only LoopInv and the types change.
LEMMA LoopStep ==
    ASSUME ClientInv, pc # "receive", pc' # "receive",
           UNCHANGED <<asked, request, reply, peer, query>>
    PROVE  ClientInv'
  BY DEF ClientInv, Serving

\* A response without results is sent as the failure when it is the last.
LEMMA ContinueStep ==
    ASSUME IInv, pc \in {"route", "await"}, Continue, ~Answers(query, next),
           InVain(next - 1), UNCHANGED query,
           response' \in Responses, response'.results = Nothing,
           response'.source = IF Tag \in Engines THEN Tag ELSE "nobody",
           pc' = "route" => ~force'
    PROVE  LoopInv' /\ next' \in Nat \ {0} /\ next' <= Len(query.prefs)
  <1>1. query \in Queries /\ next \in Nat /\ next >= 1 /\ next <= Len(query.prefs)
    BY DEF IInv, TypeOK
  <1>2. Len(query.prefs) \in Nat \ {0}  BY <1>1, QueryType
  <1>3. InVain(next)  BY <1>1 DEF InVain
  <1>4. CASE Last
    <2>1. pc' = "send" /\ next' = next  BY <1>4 DEF Continue
    <2>2. Best(query) = Failure(query)
      BY <1>1, <1>3, <1>4, BestIsFailure DEF Last, InVain
    <2>3. Sent(response') = Failure(query)
      BY <1>4 DEF Sent, Failure, Responses, Last, Tag
    <2> QED  BY <1>1, <2>1, <2>2, <2>3 DEF LoopInv, Sent
  <1>5. CASE ~Last
    <2>1. pc' = "route" /\ next' = next + 1  BY <1>5 DEF Continue
    <2>2. next < Len(query.prefs)  BY <1>1, <1>2, <1>5 DEF Last
    <2>3. next' \in Nat \ {0} /\ next' <= Len(query.prefs)
      BY <1>1, <1>2, <2>1, <2>2
    <2>4. next' - 1 = next  BY <1>1, <2>1
    <2>5. InVain(next - 1)'
      <3>1. InVain(next - 1)' <=> \A j \in 1 .. next' - 1 : ~Answers(query', j)
        BY DEF InVain
      <3> QED  BY <1>3, <2>4, <3>1 DEF InVain
    <2> QED  BY <2>1, <2>3, <2>5 DEF LoopInv
  <1> QED  BY <1>4, <1>5

LEMMA SkipUnknownStep == ASSUME IInv, SkipUnknown PROVE IInv'
  <1>1. /\ pc = "route" /\ Tag \notin Engines /\ Continue
        /\ response' = ErrorResponse("unloaded")
        /\ UNCHANGED <<asked, got, request, reply, toEngine, fromEngine,
                       peer, query, force>>
    BY DEF SkipUnknown, clientVars, wires
  <1>2. /\ response' \in Responses /\ response'.results = Nothing
        /\ response'.source = "nobody"
    BY <1>1 DEF ErrorResponse, Response, Responses, Errors
  <1>3. ~force /\ InVain(next - 1)  BY <1>1 DEF IInv, LoopInv
  <1>4. ~Answers(query, next)  BY <1>1 DEF Answers, Tag
  <1>5. LoopInv' /\ next' \in Nat \ {0} /\ next' <= Len(query.prefs)
    BY <1>1, <1>2, <1>3, <1>4, ContinueStep
  <1>6. pc' \in {"send", "route"}  BY <1>1 DEF Continue
  <1>7. TypeOK'
    BY <1>1, <1>2, <1>5, <1>6 DEF IInv, TypeOK
  <1>8. ClientInv'  BY <1>1, <1>6, LoopStep DEF IInv
  <1>9. EngineInv'  BY <1>1, <1>6 DEF IInv, EngineInv
  <1> QED  BY <1>5, <1>7, <1>8, <1>9 DEF IInv

LEMMA ForwardStep == ASSUME IInv, Forward PROVE IInv'
  <1>1. /\ pc = "route" /\ pc' = "await" /\ Tag \in Engines
        /\ force' = (force \/ Last)
        /\ toEngine' = [toEngine EXCEPT ![Tag] =
                           Append(@, [query |-> query, force |-> force'])]
        /\ UNCHANGED <<asked, got, request, reply, fromEngine, peer, query,
                       next, response>>
    BY DEF Forward, clientVars
  <1>2. ~force /\ InVain(next - 1)  BY <1>1 DEF IInv, LoopInv
  <1>3. Tag' = Tag /\ (Last' <=> Last)  BY <1>1 DEF Tag, Last
  <1>4. force' = Last /\ force' \in BOOLEAN  BY <1>1, <1>2 DEF Last
  <1>5. toEngine[Tag] = <<>> /\ fromEngine[Tag] = <<>>
    BY <1>1 DEF IInv, EngineInv
  <1>6. [query |-> query, force |-> force'] \in Messages
    BY <1>1, <1>4 DEF IInv, TypeOK, Messages
  <1>7. toEngine' = [toEngine EXCEPT ![Tag] =
                        << [query |-> query, force |-> force'] >>]
    BY <1>1, <1>5 DEF IInv, TypeOK
  <1>8. TypeOK'
    <2>1. toEngine' \in [Engines -> Seq(Messages)]
      BY <1>1, <1>6, <1>7 DEF IInv, TypeOK
    <2> QED  BY <1>1, <1>4, <2>1 DEF IInv, TypeOK
  <1>9. ClientInv'  BY <1>1, LoopStep DEF IInv
  <1>10. LoopInv'
    <2>1. InVain(next - 1)'  BY <1>1, <1>2 DEF InVain
    <2> QED  BY <1>1, <1>3, <1>4, <2>1 DEF LoopInv
  <1>11. EngineInv'
    <2>1. SUFFICES ASSUME NEW e \in Engines
                   PROVE  IF e = Tag
                          THEN /\ toEngine'[e] = << [query |-> query, force |-> force'] >>
                               /\ fromEngine[e] = <<>>
                          ELSE toEngine'[e] = <<>> /\ fromEngine[e] = <<>>
      BY <1>1, <1>3 DEF EngineInv
    <2> QED  BY <1>1, <1>5, <1>7 DEF IInv, TypeOK, EngineInv
  <1> QED  BY <1>8, <1>9, <1>10, <1>11 DEF IInv

LEMMA TakeReplyStep == ASSUME IInv, TakeReply PROVE IInv'
  <1> DEFINE r == Head(fromEngine[Tag])
  <1>1. /\ pc = "await" /\ fromEngine[Tag] # <<>>
        /\ response' = [r EXCEPT !.source = Tag]
        /\ fromEngine' = [fromEngine EXCEPT ![Tag] = Tail(@)]
        /\ IF response'.results = Nothing THEN Continue
           ELSE pc' = "send" /\ UNCHANGED next
        /\ UNCHANGED <<asked, got, request, reply, toEngine, peer, query, force>>
    BY DEF TakeReply, clientVars
  <1>2. /\ Tag \in Engines /\ force = Last /\ InVain(next - 1)
        /\ query \in Queries /\ next \in Nat \ {0} /\ next <= Len(query.prefs)
        /\ force \in BOOLEAN
    BY <1>1 DEF IInv, LoopInv, TypeOK
  <1>3. toEngine[Tag] = <<>> /\ fromEngine[Tag] = << EngineReply(Tag, query, force) >>
    BY <1>1, <1>2 DEF IInv, EngineInv
  <1>4. r = EngineReply(Tag, query, Last) /\ r \in Responses
    BY <1>2, <1>3, EngineReplyType
  <1>5. Tag \in Tags  BY <1>2, EnginesAssumption
  <1>6. /\ response' \in Responses /\ response'.source = Tag
        /\ response'.results = r.results
    BY <1>1, <1>4, <1>5 DEF Responses
  <1>7. Answers(query, next) <=> response'.results # Nothing
    BY <1>2, <1>4, <1>6 DEF Answers, Tag, Last
  <1>8. pc' \in {"send", "route"}  BY <1>1 DEF Continue
  <1>9. LoopInv' /\ next' \in Nat \ {0} /\ next' <= Len(query.prefs)
    <2>1. CASE response'.results = Nothing
      <3>1. Continue  BY <1>1, <2>1
      <3>2. pc' = "route" => ~force'
        <4>1. pc' = "route" => ~Last  BY <3>1 DEF Continue
        <4> QED  BY <1>1, <1>2, <4>1
      <3> QED  BY <1>1, <1>2, <1>6, <1>7, <2>1, <3>1, <3>2, ContinueStep
    <2>2. CASE response'.results # Nothing
      <3>1. pc' = "send" /\ next' = next  BY <1>1, <2>2
      <3>2. next \in 1 .. Len(query.prefs)  BY <1>2, QueryType
      <3>3. Best(query) = [EngineReply(query.prefs[next], query,
                                       next = Len(query.prefs))
                              EXCEPT !.source = query.prefs[next]]
        BY <1>2, <1>7, <2>2, <3>2, BestIsFirst DEF InVain
      <3>4. response' = Best(query)  BY <1>1, <1>4, <3>3 DEF Tag, Last
      <3>5. Sent(response') = Best(query)  BY <2>2, <3>4 DEF Sent
      <3> QED  BY <1>1, <1>2, <1>6, <3>1, <3>5 DEF LoopInv, Sent
    <2> QED  BY <2>1, <2>2
  <1>10. fromEngine' = [fromEngine EXCEPT ![Tag] = <<>>]
    BY <1>1, <1>3
  <1>11. TypeOK'
    <2>1. fromEngine' \in [Engines -> Seq(Responses)]
      BY <1>2, <1>10 DEF IInv, TypeOK
    <2> QED  BY <1>1, <1>6, <1>8, <1>9, <2>1 DEF IInv, TypeOK
  <1>12. ClientInv'  BY <1>1, <1>8, LoopStep DEF IInv
  <1>13. EngineInv'
    <2>1. SUFFICES ASSUME NEW e \in Engines
                   PROVE  toEngine[e] = <<>> /\ fromEngine'[e] = <<>>
      BY <1>1, <1>8 DEF EngineInv
    <2> QED  BY <1>1, <1>2, <1>3, <1>10 DEF IInv, TypeOK, EngineInv
  <1> QED  BY <1>9, <1>11, <1>12, <1>13 DEF IInv

LEMMA SendAnswerStep == ASSUME IInv, SendAnswer PROVE IInv'
  <1>1. /\ pc = "send" /\ pc' = "receive" /\ response' = Sent(response)
        /\ reply' = [reply EXCEPT ![peer] = response']
        /\ UNCHANGED <<asked, got, request, toEngine, fromEngine, peer, query,
                       force, next>>
    BY DEF SendAnswer, clientVars
  <1>2. /\ response \in Responses /\ response' = Best(query)
        /\ peer \in Clients /\ query \in Queries
    BY <1>1 DEF IInv, LoopInv, TypeOK
  <1>3. response' \in Responses
    BY <1>1, <1>2 DEF Sent, Responses, Errors
  <1>4. TypeOK'
    <2>1. reply' \in [Clients -> Responses \cup {None}]
      BY <1>1, <1>3 DEF IInv, TypeOK
    <2> QED  BY <1>1, <1>3, <2>1 DEF IInv, TypeOK
  <1>5. ClientInv'
    <2>1. asked[peer] = query /\ request[peer] = None
      BY <1>1, <1>2 DEF IInv, ClientInv, Serving
    <2>2. \A c \in Clients : reply'[c] = IF c = peer THEN Best(query) ELSE reply[c]
      BY <1>1, <1>2 DEF IInv, TypeOK
    <2>3. asked[peer] # None  BY <1>2, <2>1, NoneAssumption
    <2>4. \A c \in Clients : ~Serving(c)'  BY <1>1 DEF Serving
    <2> HIDE DEF Serving
    <2>5. \A c \in Clients : Best(asked[c])' = Best(asked[c])  BY <1>1
    <2> QED  BY <1>1, <2>1, <2>2, <2>3, <2>4, <2>5 DEF IInv, ClientInv
  <1>6. LoopInv'  BY <1>1 DEF LoopInv
  <1>7. EngineInv'  BY <1>1 DEF IInv, EngineInv
  <1> QED  BY <1>4, <1>5, <1>6, <1>7 DEF IInv

LEMMA EngineAnswersStep ==
    ASSUME IInv, NEW e \in Engines, EngineAnswers(e) PROVE IInv'
  <1> DEFINE m == Head(toEngine[e])
  <1>1. /\ toEngine[e] # <<>>
        /\ fromEngine' = [fromEngine EXCEPT ![e] =
                             Append(@, EngineReply(e, m.query, m.force))]
        /\ toEngine' = [toEngine EXCEPT ![e] = Tail(@)]
        /\ UNCHANGED <<asked, got, request, reply, pc, peer, query, force,
                       next, response>>
    BY DEF EngineAnswers, clientVars, dispatcherVars
  <1>2. pc = "await" /\ Tag = e  BY <1>1 DEF IInv, EngineInv
  <1>3. /\ toEngine[e] = << [query |-> query, force |-> force] >>
        /\ fromEngine[e] = <<>>
    BY <1>1, <1>2 DEF IInv, EngineInv
  <1>4. m.query = query /\ m.force = force  BY <1>3
  <1>5. toEngine' = [toEngine EXCEPT ![e] = <<>>]  BY <1>1, <1>3
  <1>6. fromEngine' = [fromEngine EXCEPT ![e] = << EngineReply(e, query, force) >>]
    <2>1. EngineReply(e, m.query, m.force) = EngineReply(e, query, force)
      BY <1>4
    <2>2. Append(fromEngine[e], EngineReply(e, query, force))
             = << EngineReply(e, query, force) >>
      BY <1>3
    <2> QED  BY <1>1, <2>1, <2>2
  <1>7. EngineReply(e, query, force) \in Responses
    BY <1>2, EngineReplyType DEF IInv, TypeOK
  <1>8. TypeOK'
    <2>1. toEngine' \in [Engines -> Seq(Messages)]  BY <1>5 DEF IInv, TypeOK
    <2>2. fromEngine' \in [Engines -> Seq(Responses)]
      BY <1>6, <1>7 DEF IInv, TypeOK
    <2> QED  BY <1>1, <2>1, <2>2 DEF IInv, TypeOK
  <1>9. ClientInv'  BY <1>1 DEF IInv, ClientInv, Serving
  <1>10. LoopInv'  BY <1>1 DEF IInv, LoopInv, InVain, Tag, Last
  <1>11. EngineInv'
    <2>1. SUFFICES ASSUME NEW d \in Engines
                   PROVE  IF d = e
                          THEN /\ toEngine'[d] = <<>>
                               /\ fromEngine'[d] = << EngineReply(d, query, force) >>
                          ELSE toEngine'[d] = <<>> /\ fromEngine'[d] = <<>>
      BY <1>1, <1>2 DEF EngineInv, Tag
    <2>2. d # e => toEngine[d] = <<>> /\ fromEngine[d] = <<>>
      BY <1>2 DEF IInv, EngineInv
    <2> QED  BY <1>5, <1>6, <2>2 DEF IInv, TypeOK
  <1> QED  BY <1>8, <1>9, <1>10, <1>11 DEF IInv
-----------------------------------------------------------------------------
(* The theorems.                                                            *)

LEMMA Invariance == Spec => []IInv
  <1>1. IInv /\ [Next]_vars => IInv'
    <2> SUFFICES ASSUME IInv, [Next]_vars PROVE IInv'  OBVIOUS
    <2>1. ASSUME NEW c \in Clients, NEW q \in Queries, Ask(c, q) PROVE IInv'
      BY <2>1, AskStep
    <2>2. ASSUME NEW c \in Clients, Hear(c) PROVE IInv'
      BY <2>2, HearStep
    <2>3. ASSUME NEW c \in Clients, Receive(c) PROVE IInv'
      BY <2>3, ReceiveStep
    <2>4. CASE Dispatch
      BY <2>4, SkipUnknownStep, ForwardStep, TakeReplyStep, SendAnswerStep
      DEF Dispatch
    <2>5. ASSUME NEW e \in Engines, EngineAnswers(e) PROVE IInv'
      BY <2>5, EngineAnswersStep
    <2>6. CASE UNCHANGED vars
      <3>1. UNCHANGED <<asked, got, request, reply, toEngine, fromEngine, pc,
                        peer, query, force, next, response>>
        BY <2>6 DEF vars, clientVars, wires, dispatcherVars
      <3>2. TypeOK'  BY <3>1 DEF IInv, TypeOK
      <3>3. ClientInv'  BY <3>1 DEF IInv, ClientInv, Serving
      <3>4. LoopInv'  BY <3>1 DEF IInv, LoopInv, InVain, Tag, Last
      <3>5. EngineInv'  BY <3>1 DEF IInv, EngineInv, Tag
      <3> QED  BY <3>2, <3>3, <3>4, <3>5 DEF IInv
    <2> QED  BY <2>1, <2>2, <2>3, <2>4, <2>5, <2>6 DEF Next
  <1> QED  BY InitOK, <1>1, PTL DEF Spec

\* Type correctness; the dispatcher's loop never looks beyond the last
\* preference of a query, however many it has.
THEOREM TypeCorrect == Spec => []TypeOK
  <1>1. IInv => TypeOK  BY DEF IInv
  <1> QED  BY Invariance, <1>1, PTL

\* Whatever the clients ask, nothing but the question and the answer the
\* dispatcher waits for is in an engine's sockets: no answer can be taken for
\* the answer to another query.
THEOREM NoLateAnswers == Spec => []OneConversation
  <1>1. IInv => OneConversation
    <2> SUFFICES ASSUME IInv, NEW e \in Engines
                 PROVE  Len(toEngine[e]) + Len(fromEngine[e])
                           = (IF pc = "await" /\ Tag = e THEN 1 ELSE 0)
      BY DEF OneConversation
    <2>1. CASE ~(pc = "await" /\ Tag = e)
      <3>1. toEngine[e] = <<>> /\ fromEngine[e] = <<>>
        BY <2>1 DEF IInv, EngineInv
      <3> QED  BY <2>1, <3>1
    <2>2. CASE pc = "await" /\ Tag = e
      <3> DEFINE m == [query |-> query, force |-> force]
                 r == EngineReply(e, query, force)
      <3>1. \/ toEngine[e] = <<m>> /\ fromEngine[e] = <<>>
            \/ toEngine[e] = <<>> /\ fromEngine[e] = <<r>>
        BY <2>2 DEF IInv, EngineInv
      <3> HIDE DEF m, r
      <3>2. Len(<<m>>) = 1 /\ Len(<<r>>) = 1 /\ Len(<<>>) = 0  OBVIOUS
      <3>3. CASE toEngine[e] = <<m>> /\ fromEngine[e] = <<>>
        <4>1. Len(toEngine[e]) = 1 /\ Len(fromEngine[e]) = 0  BY <3>2, <3>3
        <4> QED  BY <2>2, <4>1
      <3>4. CASE toEngine[e] = <<>> /\ fromEngine[e] = <<r>>
        <4>1. Len(toEngine[e]) = 0 /\ Len(fromEngine[e]) = 1  BY <3>2, <3>4
        <4> QED  BY <2>2, <4>1
      <3> QED  BY <3>1, <3>3, <3>4
    <2> QED  BY <2>1, <2>2
  <1> QED  BY Invariance, <1>1, PTL

\* The dispatcher and its engines implement QueryService: a client gets the
\* answer to the query it asked, from the first of its preferences that has
\* one, and gets it once.
THEOREM Refinement == Spec => ServiceSpec
  <1>1. Init => Service!Init  BY DEF Init, Service!Init
  <1>2. IInv /\ [Next]_vars => [Service!Next]_(Service!vars)
    <2> SUFFICES ASSUME IInv, [Next]_vars
                 PROVE  Service!Next \/ UNCHANGED <<asked, got>>
      BY DEF Service!vars
    <2>1. ASSUME NEW c \in Clients, NEW q \in Queries, Ask(c, q)
          PROVE  Service!Next
      <3>1. Service!Ask(c, q)  BY <2>1 DEF Ask, Service!Ask
      <3> QED  BY <3>1 DEF Service!Next
    <2>2. ASSUME NEW c \in Clients, Hear(c) PROVE Service!Next
      <3>1. reply[c] # None /\ got' = [got EXCEPT ![c] = reply[c]]
               /\ asked' = [asked EXCEPT ![c] = None]
        BY <2>2 DEF Hear
      <3>2. asked[c] # None /\ reply[c] = Best(asked[c])
        BY <3>1 DEF IInv, ClientInv
      <3>3. asked[c] \in Queries  BY <3>2 DEF IInv, TypeOK
      <3>4. Service!Reply(c)  BY <3>1, <3>2, <3>3 DEF Service!Reply
      <3> QED  BY <3>4 DEF Service!Next
    <2>3. ASSUME NEW c \in Clients, Receive(c) PROVE UNCHANGED <<asked, got>>
      BY <2>3 DEF Receive, clientVars
    <2>4. CASE Dispatch
      BY <2>4 DEF Dispatch, SkipUnknown, Forward, TakeReply, SendAnswer, clientVars
    <2>5. ASSUME NEW e \in Engines, EngineAnswers(e) PROVE UNCHANGED <<asked, got>>
      BY <2>5 DEF EngineAnswers, clientVars
    <2>6. CASE UNCHANGED vars
      BY <2>6 DEF vars, clientVars
    <2> QED  BY <2>1, <2>2, <2>3, <2>4, <2>5, <2>6 DEF Next
  <1> QED  BY Invariance, <1>1, <1>2, PTL DEF Spec, ServiceSpec, Service!Spec
=============================================================================

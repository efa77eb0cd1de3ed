--------------------------- MODULE QueryDispatch ---------------------------
(***************************************************************************)
(* start-query-engine: clients send queries to the dispatcher, which asks  *)
(* the engines a query names, in its order of preference, until one has    *)
(* results.  Every hop is a ZeroMQ REQ/REP pair.  The dispatcher and each  *)
(* engine are goroutines that keep one query and one response variable     *)
(* from query to query.                                                    *)
(*                                                                         *)
(* What an index finds for a text is a constant: enough documents, so few  *)
(* that an engine answers only when forced, or none.                       *)
(***************************************************************************)
EXTENDS Integers, Sequences

CONSTANTS
    Clients,
    Engines,        \* tags of the indexes that were loaded
    Tags,           \* what an index preference may name
    Texts,          \* what is asked for
    Finds,          \* engine -> text -> "enough", "few" or "none"
    Queries,        \* what the clients may ask
    None

ASSUME EnginesAssumption == Engines \subseteq Tags /\ "nobody" \notin Tags
ASSUME FindsAssumption == Finds \in [Engines -> [Texts -> {"enough", "few", "none"}]]
\* Split never returns an empty list; ranked: Engine names a registered ranker.
ASSUME QueriesAssumption ==
    Queries \subseteq [text : Texts, type : {"phrase", "stats"}, ranked : BOOLEAN,
                       prefs : Seq(Tags) \ {<<>>}]
ASSUME NoneAssumption == None \notin Queries

VARIABLES
    asked,          \* client -> the query it waits for, or None
    got,            \* client -> the response it had last, or None
    request,        \* client -> its query on the way to the dispatcher, or None
    reply,          \* client -> the response on its way back, or None
    toEngine,       \* engine -> the queries on their way to it
    fromEngine,     \* engine -> its responses on their way to the dispatcher
    pc,             \* where the dispatcher is
    peer,           \* the client it serves
    query, force,   \* its variable query, and the field Force
    next,           \* the preference it is at
    response        \* its variable response

clientVars == <<asked, got>>
wires == <<request, reply, toEngine, fromEngine>>
dispatcherVars == <<pc, peer, query, force, next, response>>
vars == <<clientVars, wires, dispatcherVars>>

\* Response: results are what an engine's index has for a text, or nil.
Found(e, text) == <<e, text>>
Response(results, error) == [results |-> results, error |-> error, source |-> "nobody"]
Nothing == <<>>
ErrorResponse(msg) == Response(Nothing, msg)

\* json.Marshal of what the engine has: an answer that is empty is nil, and
\* the message of a ranker's error response is not passed on.
RankedReply(e, text, forced) ==
    IF Finds[e][text] = "enough" \/ (Finds[e][text] = "few" /\ forced)
    THEN Response(Found(e, text), "none") ELSE Response(Nothing, "none")

LookupStats(e, text) ==
    IF Finds[e][text] = "none" THEN ErrorResponse("absent")
    ELSE [Response(Found(e, text), "none") EXCEPT !.source = "DEFAULT"]

EngineReply(e, q, forced) ==
    IF q.type = "stats" THEN LookupStats(e, q.text)
    ELSE IF ~q.ranked THEN ErrorResponse("unsupported")
         ELSE RankedReply(e, q.text, forced)

Init ==
    /\ asked = [c \in Clients |-> None] /\ got = [c \in Clients |-> None]
    /\ request = [c \in Clients |-> None] /\ reply = [c \in Clients |-> None]
    /\ toEngine = [e \in Engines |-> <<>>] /\ fromEngine = [e \in Engines |-> <<>>]
    /\ pc = "receive" /\ peer = None
    /\ query = None /\ force = FALSE /\ next = 1 /\ response = None
-----------------------------------------------------------------------------
(* A client: runBufferedQueries, lookupStatistics.                         *)

Ask(c, q) ==
    /\ asked[c] = None
    /\ asked' = [asked EXCEPT ![c] = q]
    /\ request' = [request EXCEPT ![c] = q]
    /\ UNCHANGED <<got, reply, toEngine, fromEngine, dispatcherVars>>

Hear(c) ==
    /\ reply[c] # None
    /\ got' = [got EXCEPT ![c] = reply[c]]
    /\ asked' = [asked EXCEPT ![c] = None]
    /\ reply' = [reply EXCEPT ![c] = None]
    /\ UNCHANGED <<request, toEngine, fromEngine, dispatcherVars>>
-----------------------------------------------------------------------------
(* The dispatcher.                                                         *)

\* Mutant: what is decoded into query leaves its Force as it was.
ReceiveKeepingForce(c) ==
    /\ pc = "receive" /\ request[c] # None
    /\ peer' = c /\ query' = request[c] /\ next' = 1 /\ pc' = "route"
    /\ request' = [request EXCEPT ![c] = None]
    /\ UNCHANGED <<clientVars, reply, toEngine, fromEngine, force, response>>

\* ReceiveQuery: the message has every field, and its Force is false.
Receive(c) ==
    /\ pc = "receive" /\ request[c] # None
    /\ peer' = c /\ query' = request[c] /\ force' = FALSE /\ next' = 1
    /\ pc' = "route"
    /\ request' = [request EXCEPT ![c] = None]
    /\ UNCHANGED <<clientVars, reply, toEngine, fromEngine, response>>

Tag == query.prefs[next]
Last == next = Len(query.prefs)

\* Mutant: the loop ends one preference late.
ContinueLate ==
    IF next = Len(query.prefs) + 1 THEN pc' = "send" /\ UNCHANGED next
    ELSE pc' = "route" /\ next' = next + 1

\* Mutant: a query that no index answered is dropped.
ContinueSilently ==
    IF Last THEN pc' = "receive" /\ UNCHANGED next
    ELSE pc' = "route" /\ next' = next + 1

\* On to the next preference, or out of the loop.
Continue == IF Last THEN pc' = "send" /\ UNCHANGED next
            ELSE pc' = "route" /\ next' = next + 1

\* No index of that name.
SkipUnknown ==
    /\ pc = "route" /\ Tag \notin Engines
    /\ response' = ErrorResponse("unloaded")
    /\ Continue
    /\ UNCHANGED <<clientVars, wires, peer, query, force>>

\* Mutant: the response is not waited for.
ForwardWithoutWaiting ==
    /\ pc = "route" /\ Tag \in Engines
    /\ force' = (force \/ Last)
    /\ toEngine' = [toEngine EXCEPT ![Tag] = Append(@, [query |-> query, force |-> force'])]
    /\ pc' = (IF Last THEN "await" ELSE "route")
    /\ next' = (IF Last THEN next ELSE next + 1)
    /\ UNCHANGED <<clientVars, request, reply, fromEngine, peer, query, response>>

\* The last preference is asked to answer whatever little it has.
Forward ==
    /\ pc = "route" /\ Tag \in Engines
    /\ force' = (force \/ Last)
    /\ toEngine' = [toEngine EXCEPT ![Tag] = Append(@, [query |-> query, force |-> force'])]
    /\ pc' = "await"
    /\ UNCHANGED <<clientVars, request, reply, fromEngine, peer, query, next, response>>

\* ReceiveResponse and IsError.
TakeReply ==
    /\ pc = "await" /\ fromEngine[Tag] # <<>>
    /\ response' = [Head(fromEngine[Tag]) EXCEPT !.source = Tag]
    /\ fromEngine' = [fromEngine EXCEPT ![Tag] = Tail(@)]
    /\ IF response'.results = Nothing THEN Continue ELSE pc' = "send" /\ UNCHANGED next
    /\ UNCHANGED <<clientVars, request, reply, toEngine, peer, query, force>>

\* Response.Send: whatever the error was, a response without results is sent
\* as EMPTYRESULTS.
Sent(r) == IF r.results = Nothing THEN [r EXCEPT !.error = "EMPTYRESULTS"] ELSE r
SendAnswer ==
    /\ pc = "send" /\ pc' = "receive"
    /\ response' = Sent(response)
    /\ reply' = [reply EXCEPT ![peer] = response']
    /\ UNCHANGED <<clientVars, request, toEngine, fromEngine, peer, query, force, next>>
-----------------------------------------------------------------------------
\* One round of an engine's loop.
EngineAnswers(e) ==
    /\ toEngine[e] # <<>>
    /\ LET m == Head(toEngine[e])
       IN  fromEngine' = [fromEngine EXCEPT ![e] =
                             Append(@, EngineReply(e, m.query, m.force))]
    /\ toEngine' = [toEngine EXCEPT ![e] = Tail(@)]
    /\ UNCHANGED <<clientVars, request, reply, dispatcherVars>>

Dispatch == SkipUnknown \/ Forward \/ TakeReply \/ SendAnswer

Next ==
    \/ \E c \in Clients : Hear(c) \/ Receive(c) \/ \E q \in Queries : Ask(c, q)
    \/ Dispatch
    \/ \E e \in Engines : EngineAnswers(e)

Spec == Init /\ [][Next]_vars

\* Go and the operating system run every process; a REP socket takes the
\* requests of its peers in turn, so that none of them waits for ever.
FairSpec ==
    /\ Spec /\ WF_vars(Dispatch)
    /\ \A e \in Engines : WF_vars(EngineAnswers(e))
    /\ \A c \in Clients : WF_vars(Hear(c)) /\ SF_vars(Receive(c))
-----------------------------------------------------------------------------
Errors == {"none", "absent", "unsupported", "unloaded", "EMPTYRESULTS"}
Responses == [results : {Nothing} \cup (Engines \X Texts), error : Errors,
              source : Tags \cup {"nobody", "DEFAULT"}]
Messages == [query : Queries, force : BOOLEAN]

\* In particular the loop never looks beyond the last preference.
TypeOK ==
    /\ asked \in [Clients -> Queries \cup {None}]
    /\ request \in [Clients -> Queries \cup {None}]
    /\ got \in [Clients -> Responses \cup {None}]
    /\ reply \in [Clients -> Responses \cup {None}]
    /\ toEngine \in [Engines -> Seq(Messages)]
    /\ fromEngine \in [Engines -> Seq(Responses)]
    /\ pc \in {"receive", "route", "await", "send"}
    /\ force \in BOOLEAN /\ next \in Nat \ {0}
    /\ response \in Responses \cup {None}
    /\ pc # "receive" => /\ peer \in Clients /\ query \in Queries
                         /\ next <= Len(query.prefs)

\* Nothing is left in an engine's sockets but the question and the answer the
\* dispatcher waits for: responses carry no query, and one that came late
\* would be taken for the answer to the next.
OneConversation ==
    \A e \in Engines :
        Len(toEngine[e]) + Len(fromEngine[e])
            = (IF pc = "await" /\ Tag = e THEN 1 ELSE 0)

\* The answer to a query: that of the first index in its order of preference
\* that has one, the last one being forced; otherwise the failure.
Answers(q, i) ==
    q.prefs[i] \in Engines
        /\ EngineReply(q.prefs[i], q, i = Len(q.prefs)).results # Nothing
Failure(q) ==
    LET last == q.prefs[Len(q.prefs)]
    IN  [results |-> Nothing, error |-> "EMPTYRESULTS",
         source |-> IF last \in Engines THEN last ELSE "nobody"]
Best(q) ==
    LET able == {i \in DOMAIN q.prefs : Answers(q, i)}
        i == CHOOSE i \in able : \A j \in able : i <= j
    IN  IF able = {} THEN Failure(q)
        ELSE [EngineReply(q.prefs[i], q, i = Len(q.prefs)) EXCEPT !.source = q.prefs[i]]

\* A client gets the answer to the query it asked, and gets it once, whatever
\* the dispatcher and the engines keep from earlier queries.
Service == INSTANCE QueryService WITH Answer <- [q \in Queries |-> Best(q)]
ServiceSpec == Service!Spec

\* Every query is answered, also one whose preferences name no loaded index or
\* whose engines all fail, and however many other clients ask.
EveryQueryIsAnswered == Service!Fairness
=============================================================================

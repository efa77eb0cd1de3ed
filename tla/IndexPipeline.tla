--------------------------- MODULE IndexPipeline ---------------------------
(***************************************************************************)
(* SingleTermIndex.Insert: the client pushes a document's tokens into the  *)
(* first filter, each filter is a goroutine between two bounded pipes, and *)
(* the inserter goroutine takes what comes out of the last one and puts it *)
(* in the lexicon.  insertLock is taken by the client and released by the  *)
(* inserter when it meets the document's Null token.                       *)
(*                                                                         *)
(* Go ends the process when it catches one goroutine writing a map while   *)
(* another uses it (DocumentMap in Insert, lex.stats in its last lines);   *)
(* it may also not notice.  Both outcomes are behaviours.                  *)
(***************************************************************************)
EXTENDS FilterChain

CONSTANTS
    Documents       \* the documents' tokens, in the order Insert gets them

ASSUME DocumentsAssumption ==
    Documents \in Seq(Seq([text : Texts, type : {"text", "symbol"}, phrase : Nat]))

VARIABLES
    attached,       \* the last filter has an output
    dropped,        \* history: the types of the tokens that were sent to nobody
    inserter,       \* document -> the inserter its Insert started
    running,        \* inserterRunning
    lock,           \* insertLock is held for writing
    index,          \* document -> the texts inserted in the lexicon for it
    counter,        \* termcounter
    termCount,      \* document -> DocumentMap[document].TermCount
    docCount,       \* DocumentCount
    pc,             \* where the client is
    doc,            \* the documents it has passed to Insert
    panic           \* why the process died, or "none"

inserterVars == <<attached, running, inserter, dropped>>
indexVars == <<index, counter, termCount, docCount>>
clientVars == <<pc, doc>>
vars == <<chainVars, toPush, inserterVars, lock, indexVars, clientVars, panic>>

\* The NullFilter of a chain without filters is never pulled.
Pulled == Chain # <<>>
DocIds == DOMAIN Documents

\* Tokens(): the document's tokens, then its Null token.
TokensOf(d) ==
    Append([k \in DOMAIN Documents[d] |->
               [doc |-> d, text |-> Documents[d][k].text, type |-> Documents[d][k].type,
                phrase |-> Documents[d][k].phrase, final |-> FALSE]],
           NullToken(d))

Init ==
    /\ ChainInit
    /\ attached = FALSE /\ running = FALSE /\ dropped = {}
    /\ inserter = [d \in DocIds |-> "none"]
    /\ lock = FALSE
    /\ index = [d \in DocIds |-> <<>>] /\ counter = 0
    /\ termCount = [d \in DocIds |-> 0] /\ docCount = 0
    /\ pc = "idle" /\ doc = 0 /\ panic = "none"
-----------------------------------------------------------------------------
(* The client.                                                             *)

\* Mutant: every document gets an inserter.
BeginInsertAlways ==
    /\ pc = "idle" /\ doc + 1 \in DocIds
    /\ doc' = doc + 1 /\ pc' = "insert"
    /\ inserter' = [inserter EXCEPT ![doc + 1] = "started"]
    /\ UNCHANGED <<chainVars, toPush, attached, running, dropped, lock, indexVars, panic>>

\* Insert, up to the write to DocumentMap.
BeginInsert ==
    /\ pc = "idle" /\ doc + 1 \in DocIds
    /\ doc' = doc + 1 /\ pc' = "insert"
    /\ inserter' = IF running THEN inserter
                   ELSE [inserter EXCEPT ![doc + 1] = "started"]
    /\ UNCHANGED <<chainVars, toPush, attached, running, dropped, lock, indexVars, panic>>

\* DocumentMap holds the document.
WriteInfo ==
    /\ pc = "insert" /\ pc' = "lock"
    /\ UNCHANGED <<chainVars, toPush, inserterVars, lock, indexVars, doc, panic>>

\* Mutant: the lock is not waited for.
LockAnyway ==
    /\ pc = "lock"
    /\ lock' = TRUE /\ pc' = "push" /\ toPush' = TokensOf(doc)
    /\ UNCHANGED <<chainVars, inserterVars, indexVars, doc, panic>>

Lock ==
    /\ pc = "lock" /\ ~lock
    /\ lock' = TRUE /\ pc' = "push" /\ toPush' = TokensOf(doc)
    /\ UNCHANGED <<chainVars, inserterVars, indexVars, doc, panic>>

\* Mutant: Push does not block.
PushAnyway ==
    /\ pc = "push"
    /\ pipe' = [pipe EXCEPT ![0] = Append(@, Head(toPush))]
    /\ toPush' = Tail(toPush)
    /\ pc' = IF Len(toPush) = 1 THEN "stats" ELSE "push"
    /\ UNCHANGED <<held, fstate, inserterVars, lock, indexVars, doc, panic>>

Push ==
    /\ pc = "push" /\ PushToken(Capacity)
    /\ pc' = IF Len(toPush) = 1 THEN "stats" ELSE "push"
    /\ UNCHANGED <<inserterVars, lock, indexVars, doc, panic>>

\* PrintDiskStats and the log line read what the inserter is writing.
EndInsert ==
    /\ pc = "stats" /\ pc' = "idle"
    /\ UNCHANGED <<chainVars, toPush, inserterVars, lock, indexVars, doc, panic>>

\* WaitInsert and PrintLexicon: RLock.
BeginWait ==
    /\ pc = "idle" /\ pc' = "wait"
    /\ UNCHANGED <<chainVars, toPush, inserterVars, lock, indexVars, doc, panic>>

\* RLock was granted: WaitInsert returns.
Waited ==
    /\ pc = "wait" /\ ~lock /\ pc' = "waited"
    /\ UNCHANGED <<chainVars, toPush, inserterVars, lock, indexVars, doc, panic>>

GoOn ==
    /\ pc = "waited" /\ pc' = "idle"
    /\ UNCHANGED <<chainVars, toPush, inserterVars, lock, indexVars, doc, panic>>
-----------------------------------------------------------------------------
(* The filters' goroutines.                                                *)

Read(i) ==
    /\ Pulled /\ ReadToken(i)
    /\ UNCHANGED <<inserterVars, lock, indexVars, clientVars, panic>>

Notify(i) ==
    /\ NotifyRound(i)
    /\ UNCHANGED <<inserterVars, lock, indexVars, clientVars, panic>>

\* Send: to the next filter, or to the output once there is one.
SendOn(i) ==
    /\ i < N \/ attached
    /\ SendToken(i)
    /\ UNCHANGED <<inserterVars, lock, indexVars, clientVars, panic>>

SendToNobody ==
    /\ ~attached /\ DropHeld
    /\ dropped' = dropped \cup {tok.type : tok \in ToSet(held[N])}
    /\ UNCHANGED <<attached, running, inserter, lock, indexVars, clientVars, panic>>
-----------------------------------------------------------------------------
(* The inserter goroutine Insert(d) started.                               *)

SetRunning(d) ==
    /\ inserter[d] = "started"
    /\ inserter' = [inserter EXCEPT ![d] = "set"] /\ running' = TRUE
    /\ UNCHANGED <<chainVars, toPush, attached, dropped, lock, indexVars, clientVars, panic>>

\* Output() panics when the last filter has an output already.
Attach(d) ==
    /\ inserter[d] = "set"
    /\ inserter' = [inserter EXCEPT ![d] = "reading"]
    /\ attached' = TRUE
    /\ panic' = IF attached THEN "output" ELSE panic
    /\ UNCHANGED <<chainVars, toPush, running, dropped, lock, indexVars, clientVars>>

Listening == \E d \in DocIds : inserter[d] = "reading"

\* Mutant: termcounter goes on counting in the next document.
EndDocumentNoReset ==
    /\ Listening /\ TakeArrived /\ Arrived.type = "null"
    /\ docCount' = docCount + 1
    /\ termCount' = [termCount EXCEPT ![Arrived.doc] = counter]
    /\ lock' = FALSE /\ panic' = IF lock THEN panic ELSE "unlock"
    /\ UNCHANGED <<inserterVars, index, counter, clientVars>>

\* Mutant: an empty document keeps the lock.
EndDocumentIfAny ==
    /\ Listening /\ TakeArrived /\ Arrived.type = "null"
    /\ docCount' = docCount + 1
    /\ termCount' = [termCount EXCEPT ![Arrived.doc] = counter] /\ counter' = 0
    /\ lock' = (counter = 0)
    /\ UNCHANGED <<inserterVars, index, clientVars, panic>>

\* Mutant: the document is not counted.
EndDocumentUncounted ==
    /\ Listening /\ TakeArrived /\ Arrived.type = "null"
    /\ UNCHANGED docCount
    /\ termCount' = [termCount EXCEPT ![Arrived.doc] = counter] /\ counter' = 0
    /\ lock' = FALSE /\ panic' = IF lock THEN panic ELSE "unlock"
    /\ UNCHANGED <<inserterVars, index, clientVars>>

\* The Null token: the document is complete and the lock released.
EndDocument ==
    /\ Listening /\ TakeArrived /\ Arrived.type = "null"
    /\ docCount' = docCount + 1
    /\ termCount' = [termCount EXCEPT ![Arrived.doc] = counter] /\ counter' = 0
    /\ lock' = FALSE /\ panic' = IF lock THEN panic ELSE "unlock"
    /\ UNCHANGED <<inserterVars, index, clientVars>>

\* InsertToken and the document's statistics.
InsertToken ==
    /\ Listening /\ TakeArrived /\ Arrived.type = "text"
    /\ index' = [index EXCEPT ![Arrived.doc] = Append(@, Arrived.text)]
    /\ counter' = counter + 1
    /\ UNCHANGED <<inserterVars, lock, termCount, docCount, clientVars, panic>>

\* The inserter reads DocumentMap for every token, and writes lex.stats for
\* every one it inserts: Go may notice that the client is at the same map.
RaceIsCaught ==
    /\ Listening /\ pipe[N] # <<>>
    /\ pc = "insert" \/ (pc = "stats" /\ Arrived.type = "text")
    /\ panic' = "race"
    /\ UNCHANGED <<chainVars, toPush, inserterVars, lock, indexVars, clientVars>>

\* Delete, the last call: it waits for the inserter to take the signal.
BeginDelete ==
    /\ pc = "idle" /\ doc = Len(Documents) /\ pc' = "delete"
    /\ UNCHANGED <<chainVars, toPush, inserterVars, lock, indexVars, doc, panic>>

Shutdown(d) ==
    /\ pc = "delete" /\ inserter[d] = "reading"
    /\ inserter' = [inserter EXCEPT ![d] = "stopped"] /\ pc' = "deleted"
    /\ UNCHANGED <<chainVars, toPush, attached, running, dropped, lock, indexVars, doc, panic>>
-----------------------------------------------------------------------------
Client == WriteInfo \/ Lock \/ Push \/ EndInsert \/ Waited \/ GoOn
FilterRuns(i) == Read(i) \/ Notify(i) \/ SendOn(i) \/ (i = N /\ SendToNobody)
InserterRuns ==
    \/ \E d \in DocIds : SetRunning(d) \/ Attach(d) \/ Shutdown(d)
    \/ EndDocument \/ InsertToken

Next ==
    /\ panic = "none"
    /\ \/ BeginInsert \/ BeginWait \/ BeginDelete
       \/ Client \/ InserterRuns \/ RaceIsCaught
       \/ \E i \in 1..N : FilterRuns(i)

Spec == Init /\ [][Next]_vars

\* Go runs every goroutine; what the client calls is up to it.
FairSpec ==
    /\ Spec /\ WF_vars(panic = "none" /\ Client)
    /\ WF_vars(panic = "none" /\ InserterRuns)
    /\ \A i \in 1..N : WF_vars(panic = "none" /\ FilterRuns(i))
-----------------------------------------------------------------------------
TypeOK ==
    /\ ChainTypeOK /\ \A i \in 0..N : Len(pipe[i]) <= Capacity
    /\ attached \in BOOLEAN /\ running \in BOOLEAN /\ lock \in BOOLEAN
    /\ dropped \subseteq {"text", "symbol", "null"}
    /\ inserter \in [DocIds -> {"none", "started", "set", "reading", "stopped"}]
    /\ index \in [DocIds -> Seq(Texts)] /\ counter \in Nat
    /\ termCount \in [DocIds -> Nat] /\ docCount \in Nat
    /\ pc \in {"idle", "insert", "lock", "push", "stats", "wait", "waited",
               "delete", "deleted"}
    /\ doc \in 0..Len(Documents)
    /\ panic \in {"none", "output", "unlock", "race"}

\* (plumbing.go:43 "Tried to grab output of %s with connected filters: %v".)
\* Output() is asked for once: no second inserter finds the chain connected
\* (Insert, inserter, FilterPlumbing.Output).
OutputIsUnconnected == panic # "output"

\* What Insert's unsynchronised test of inserterRunning can do at worst.  Only
\* the second Insert starts a second inserter, for the lock keeps the third out
\* until an inserter runs; Output() panics only then; no two inserters ever
\* take tokens from the chain; and Unlock() never finds the lock released.
OnlyTheSecondInsertPanics ==
    /\ panic # "unlock"
    /\ \A d \in DocIds : inserter[d] # "none" => d <= 2
    /\ panic = "output" => \E d \in DocIds : d # 1 /\ inserter[d] # "none"
    /\ panic # "output" =>
         \A d, e \in DocIds :
             {inserter[d], inserter[e]} \subseteq {"reading", "stopped"} => d = e

\* The tokens of the document being inserted are alone in the chain: the next
\* document is pushed only after the Null token came out (Insert, inserter).
InChain ==
    UNION ({ToSet(pipe[i]) : i \in 0..N} \cup {ToSet(held[i]) : i \in 1..N}
           \cup {ToSet(fstate[i].buffer \o fstate[i].ended) : i \in 1..N})
OneDocumentAtATime ==
    \A tok \in InChain : lock /\ tok.doc = docCount + 1

\* Idf never takes the logarithm of a negative number: while the inserter
\* works on a document no text occurs in more documents than it has counted,
\* that one included.
WeightsAreFinite ==
    Cardinality({d \in DocIds : index[d] # <<>>})
        <= docCount + (IF lock THEN 1 ELSE 0)

\* What the chain's filters, as they are coded, make of the documents when they
\* are given them one after another (the date filter keeps its date from one
\* document to the next, the phrase filter does not send its last phrase).
Inserted[n \in 0..Len(Documents)] ==
    IF n = 0 THEN <<>> ELSE Inserted[n - 1] \o TokensOf(n)
Expected(d) == TextsOf(d, PassAll(Filter, Inserted[d]))

\* (single_term.go:385 "Forces a block until insertion threads are done".)
\* WaitInsert returns when the documents inserted so far are in the lexicon,
\* whole, and counted (WaitInsert, PrintLexicon; Run prunes and saves after it).
WaitInsertWaits ==
    pc = "waited" =>
        /\ docCount = doc
        /\ \A d \in 1..doc : index[d] = Expected(d) /\ termCount[d] = Len(index[d])

\* WaitInsert returns when every document inserted so far was counted, with as
\* many terms as the lexicon got for it, and every one is there whole: except
\* the first, if some of it was sent before the inserter listened.
WaitInsertIsComplete ==
    pc = "waited" =>
        /\ docCount = doc
        /\ \A d \in 1..doc :
             /\ termCount[d] = Len(index[d])
             /\ d # 1 \/ "text" \notin dropped => index[d] = Expected(d)

\* However late the inserter starts, only the beginning of the first document
\* may be missed: of what the filters send nothing is indexed twice, out of
\* order or under another document, no gap is left, and a document that was
\* counted is there to the last token they send for it.
NothingElseIndexed ==
    \A d \in DocIds :
        \E j, k \in 0..Len(Expected(d)) :
            /\ index[d] = SubSeq(Expected(d), j + 1, k)
            /\ d # 1 => j = 0
            /\ d <= docCount => k = Len(Expected(d))

\* Every call the client makes returns, unless the process dies or the first
\* document's Null token was sent to nobody: then the lock is never released.
CallsReturn ==
    [](pc # "idle" =>
        <>(pc \in {"idle", "deleted"} \/ panic # "none" \/ "null" \in dropped))
=============================================================================

------------------------------ MODULE DocWalker ------------------------------
(***************************************************************************)
(* How index gets its documents: WalkDocuments starts, for every file that *)
(* matches, a reader that parses it and a worker that passes its documents *)
(* on; signal_when_done counts the workers and closes the channel; Run     *)
(* inserts what comes out of it.  All channels are unbuffered: sending and *)
(* receiving are one step.                                                 *)
(***************************************************************************)
EXTENDS TrecReader

CONSTANTS
    N,              \* entries under doc.root, in the order of the walk
    Trees           \* what they may be: a sequence of N entries

ASSUME NAssumption == N \in Nat
Entries == [kind : {"skipped", "locked", "file"}, tokens : Seq(Tokens)]
ASSUME TreesAssumption == Trees \subseteq [1 .. N -> Entries]

Files == 1 .. N

VARIABLES
    tree,
    walked,         \* how many entries read_file has seen
    main,           \* Run: "walk", "loop" over docStream, "done"
    worker_count,
    signal,         \* signal_when_done: "unborn", "waiting" or "returned"
    worker,         \* the goroutine of read_file
    passing,        \* the document it sends
    reader,         \* read_to_chan
    pos,            \* the tokens it has read
    scan,           \* the variables of read_next_doc
    closed,         \* docStream is closed
    panic,          \* what ended the process: "none", "open", "send", "close"
    inserted        \* what Run inserted, in order: <<file, document>>

readers == <<reader, pos, scan>>
workers == <<worker, passing>>
vars == <<tree, walked, main, worker_count, signal, workers, readers, closed,
          panic, inserted>>

Init ==
    /\ tree \in Trees
    /\ walked = 0 /\ main = "walk" /\ worker_count = 0 /\ signal = "unborn"
    /\ worker = [f \in Files |-> "unborn"] /\ passing = [f \in Files |-> NoDoc]
    /\ reader = [f \in Files |-> "unborn"] /\ pos = [f \in Files |-> 0]
    /\ scan = [f \in Files |-> Fresh]
    /\ closed = FALSE /\ panic = "none" /\ inserted = <<>>

Close == IF closed THEN panic' = "close" /\ UNCHANGED closed
         ELSE closed' = TRUE /\ UNCHANGED panic
-----------------------------------------------------------------------------
(* Run, and WalkDocuments in its goroutine.                                *)

\* read_file: a directory, an error of Walk, a name that does not match; a
\* file that cannot be opened; a file.
read_file ==
    /\ panic = "none" /\ main = "walk" /\ walked < N
    /\ walked' = walked + 1
    /\ LET f == walked'
       IN  CASE tree[f].kind = "skipped" ->
                  UNCHANGED <<worker, reader, worker_count, panic>>
             [] tree[f].kind = "locked" ->
                  /\ panic' = "open"
                  /\ UNCHANGED <<worker, reader, worker_count>>
             [] tree[f].kind = "file" ->
                  /\ worker' = [worker EXCEPT ![f] = "receive"]
                  /\ reader' = [reader EXCEPT ![f] = "read"]
                  /\ worker_count' = worker_count + 1
                  /\ UNCHANGED panic
    /\ UNCHANGED <<tree, main, signal, passing, pos, scan, closed, inserted>>

\* Mutant: an empty tree is forgotten.
EndWalkNeverClosing ==
    /\ panic = "none" /\ main = "walk" /\ walked = N
    /\ UNCHANGED <<closed, panic>>
    /\ signal' = "waiting" /\ main' = "loop"
    /\ UNCHANGED <<tree, walked, worker_count, workers, readers, inserted>>

EndWalk ==
    /\ panic = "none" /\ main = "walk" /\ walked = N
    /\ IF worker_count = 0 THEN Close ELSE UNCHANGED <<closed, panic>>
    /\ signal' = "waiting" /\ main' = "loop"
    /\ UNCHANGED <<tree, walked, worker_count, workers, readers, inserted>>

\* A worker sends its document; Run receives and inserts it.  On a channel
\* that is closed sending panics.
Insert(f) ==
    /\ panic = "none" /\ worker[f] = "send"
    /\ IF closed THEN panic' = "send" /\ UNCHANGED <<inserted, worker>>
       ELSE /\ main = "loop"
            /\ inserted' = Append(inserted, <<f, passing[f]>>)
            /\ worker' = [worker EXCEPT ![f] = "receive"]
            /\ UNCHANGED panic
    /\ UNCHANGED <<tree, walked, main, worker_count, signal, passing, readers,
                   closed>>

EndLoop ==
    /\ panic = "none" /\ main = "loop" /\ closed
    /\ main' = "done"
    /\ UNCHANGED <<tree, walked, worker_count, signal, workers, readers,
                   closed, panic, inserted>>
-----------------------------------------------------------------------------
(* read_to_chan and read_next_doc.                                         *)

token(f) == tree[f].tokens[pos[f] + 1]
HasToken(f) == pos[f] < Len(tree[f].tokens) /\ token(f) # "endless"
Reads(f) == panic = "none" /\ reader[f] = "read"

\* The tokens of a document, which tell nobody anything, up to its end.
ReadToken(f) ==
    /\ Reads(f) /\ HasToken(f) /\ ~Panics(scan[f], token(f)) /\ token(f) # "/DOC"
    /\ scan' = [scan EXCEPT ![f] = After(@, token(f))]
    /\ pos' = [pos EXCEPT ![f] = @ + 1]
    /\ UNCHANGED <<tree, walked, main, worker_count, signal, workers, reader,
                   closed, panic, inserted>>

\* Mutant: no look at doc.
EndDocumentAnyway(f) ==
    /\ Reads(f) /\ HasToken(f) /\ token(f) = "/DOC"
    /\ pos' = [pos EXCEPT ![f] = @ + 1]
    /\ reader' = [reader EXCEPT ![f] = "send"]
    /\ UNCHANGED <<tree, walked, main, worker_count, signal, workers, scan,
                   closed, panic, inserted>>

EndDocument(f) ==
    /\ Reads(f) /\ HasToken(f) /\ ~Panics(scan[f], token(f)) /\ token(f) = "/DOC"
    /\ pos' = [pos EXCEPT ![f] = @ + 1]
    /\ reader' = [reader EXCEPT ![f] = "send"]
    /\ UNCHANGED <<tree, walked, main, worker_count, signal, workers, scan,
                   closed, panic, inserted>>

\* Mutant: the channel is closed all the same.
ReaderRecoversClosing(f) ==
    /\ Reads(f) /\ HasToken(f) /\ Panics(scan[f], token(f))
    /\ reader' = [reader EXCEPT ![f] = "closed"]
    /\ UNCHANGED <<tree, walked, main, worker_count, signal, workers, pos, scan,
                   closed, panic, inserted>>

\* The panic is logged; the channel stays open.
ReaderRecovers(f) ==
    /\ Reads(f) /\ HasToken(f) /\ Panics(scan[f], token(f))
    /\ reader' = [reader EXCEPT ![f] = "recovered"]
    /\ UNCHANGED <<tree, walked, main, worker_count, signal, workers, pos, scan,
                   closed, panic, inserted>>

\* io.EOF, within a document or not.
EndFile(f) ==
    /\ Reads(f) /\ pos[f] = Len(tree[f].tokens)
    /\ reader' = [reader EXCEPT ![f] = "closed"]
    /\ UNCHANGED <<tree, walked, main, worker_count, signal, workers, pos, scan,
                   closed, panic, inserted>>
-----------------------------------------------------------------------------
(* The worker of read_file, and signal_when_done.                          *)

\* A document passes from the reader to the worker, and the reader goes on
\* with the next.
HandOver(f) ==
    /\ panic = "none" /\ reader[f] = "send" /\ worker[f] = "receive"
    /\ passing' = [passing EXCEPT ![f] = scan[f].doc]
    /\ worker' = [worker EXCEPT ![f] = "send"]
    /\ reader' = [reader EXCEPT ![f] = "read"]
    /\ scan' = [scan EXCEPT ![f] = Fresh]
    /\ UNCHANGED <<tree, walked, main, worker_count, signal, pos, closed, panic,
                   inserted>>

EndRange(f) ==
    /\ panic = "none" /\ reader[f] = "closed" /\ worker[f] = "receive"
    /\ worker' = [worker EXCEPT ![f] = "report"]
    /\ UNCHANGED <<tree, walked, main, worker_count, signal, passing, readers,
                   closed, panic, inserted>>

\* Mutant: off by one.
ReportEarly(f) ==
    /\ panic = "none" /\ worker[f] = "report" /\ signal = "waiting"
    /\ worker' = [worker EXCEPT ![f] = "gone"]
    /\ worker_count' = worker_count - 1
    /\ IF worker_count' <= 1 THEN signal' = "returned" /\ Close
       ELSE UNCHANGED <<signal, closed, panic>>
    /\ UNCHANGED <<tree, walked, main, passing, readers, inserted>>

Report(f) ==
    /\ panic = "none" /\ worker[f] = "report" /\ signal = "waiting"
    /\ worker' = [worker EXCEPT ![f] = "gone"]
    /\ worker_count' = worker_count - 1
    /\ IF worker_count' <= 0 THEN signal' = "returned" /\ Close
       ELSE UNCHANGED <<signal, closed, panic>>
    /\ UNCHANGED <<tree, walked, main, passing, readers, inserted>>
-----------------------------------------------------------------------------
Run == read_file \/ EndWalk \/ EndLoop
ReaderRuns(f) ==
    \/ ReadToken(f) \/ EndDocument(f) \/ ReaderRecovers(f) \/ EndFile(f)
WorkerRuns(f) ==
    \/ HandOver(f) \/ EndRange(f) \/ Insert(f) \/ Report(f)

Next == Run \/ \E f \in Files : ReaderRuns(f) \/ WorkerRuns(f)
Spec == Init /\ [][Next]_vars

\* Every goroutine runs while it can.
FairSpec ==
    /\ Spec /\ WF_vars(Run)
    /\ \A f \in Files : WF_vars(ReaderRuns(f)) /\ WF_vars(WorkerRuns(f))
-----------------------------------------------------------------------------
TypeOK ==
    /\ tree \in Trees /\ walked \in 0 .. N
    /\ main \in {"walk", "loop", "done"} /\ worker_count \in 0 .. N
    /\ signal \in {"unborn", "waiting", "returned"}
    /\ worker \in [Files -> {"unborn", "receive", "send", "report", "gone"}]
    /\ reader \in [Files -> {"unborn", "read", "send", "closed", "recovered"}]
    /\ passing \in [Files -> Documents \cup {NoDoc}]
    /\ pos \in [Files -> Nat] /\ scan \in [Files -> Scans]
    /\ closed \in BOOLEAN /\ panic \in {"none", "open", "send", "close"}
    /\ inserted \in Seq(Files \X Documents)

\* docStream is closed once, when every file was read to its end and the last
\* document sent; no worker is left that could send on it.
ClosedLast ==
    /\ panic \notin {"send", "close"}
    /\ closed => \A f \in Files : /\ reader[f] \in {"unborn", "closed"}
                                  /\ worker[f] \in {"unborn", "gone"}

\* What was inserted of a file.
From(f) == At([i \in DOMAIN inserted |-> inserted[i][2]],
              {i \in DOMAIN inserted : inserted[i][1] = f})

\* However the files interleave, documents of one file are inserted in their
\* order, once, each with its own name and tokens and without the next one's.
InOrder ==
    \A f \in Files :
        LET docs == DocsOf(tree[f].tokens)
        IN  Len(From(f)) <= Len(docs) /\ From(f) = SubSeq(docs, 1, Len(From(f)))

\* Run goes on to prune and save only when every document of every matching
\* file is in the index, and never when part of one was skipped for a fault.
AllIndexed ==
    main = "done" =>
        \A f \in Files :
            tree[f].kind = "file" => /\ ~Faulty(tree[f].tokens)
                                     /\ From(f) = DocsOf(tree[f].tokens)

\* With files that can be opened and parsed, indexing comes to its end, also
\* when no file matches and when one holds no document.
Sound == \A f \in Files : /\ tree[f].kind # "locked"
                          /\ tree[f].kind = "file" => ~Faulty(tree[f].tokens)
IndexingEnds == Sound ~> main = "done"
=============================================================================

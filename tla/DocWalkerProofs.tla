-------------------------- MODULE DocWalkerProofs --------------------------
(* For any tree of files and any contents, docStream is closed once, after *)
(* every file was read to its end and its last document was sent; what was *)
(* inserted of a file is always its first documents, in order and each with *)
(* its own name and tokens, and all of them when Run goes on to save.      *)
EXTENDS DocWalker, FiniteSetTheorems, TLAPS

\* A reader that ends a document has one, and so has a worker that sends.
ScanOK(s) == s \in Scans /\ (s.in_text => s.doc # NoDoc)
ScanInv ==
    \A f \in Files :
        /\ ScanOK(scan[f])
        /\ reader[f] = "send" => scan[f].doc \in Documents
        /\ worker[f] = "send" => passing[f] \in Documents

\* The workers that have still to report.
Alive == {f \in Files : worker[f] \in {"receive", "send", "report"}}

\* What is known of a file before and after its worker's life.
LifeInv ==
    \A f \in Files :
        /\ worker[f] = "unborn" <=> reader[f] = "unborn"
        /\ worker[f] \in {"report", "gone"} => reader[f] = "closed"
        /\ f > walked => worker[f] = "unborn"
        /\ reader[f] # "unborn" => tree[f].kind = "file"

\* The channel is open until the workers have all reported.
CloseInv ==
    /\ worker_count = Cardinality(Alive)
    /\ main = "walk" => ~closed /\ signal = "unborn"
    /\ closed => Alive = {}
    /\ panic \notin {"send", "close"}

IInv == TypeOK /\ ScanInv /\ LifeInv /\ CloseInv

\* The variables of read_next_doc before token i, by position.
ScanAt(file, i, s) ==
    /\ s.doc # NoDoc <=> Named(file, i)
    /\ s.in_text = Within(file, i, "TEXT", "/TEXT")
    /\ s.in_title = Within(file, i, "DOCNO", "/DOCNO")
    /\ s.titlebuf = At(file, TitleBefore(file, i))
    /\ Named(file, i) => s.doc = DocumentAt(file, i)

\* The documents of a file that end in its first p tokens.
Given(file, p) ==
    At([i \in DOMAIN file |-> DocumentAt(file, i)], {i \in EndsOf(file) : i <= p})

\* Where a reader is, and what it and its worker hold.
ReadInv(f) ==
    LET file == tree[f].tokens
    IN  /\ pos[f] <= Len(file)
        /\ \A j \in 1 .. pos[f] : ~FaultAt(file, j)
        /\ reader[f] = "unborn" => pos[f] = 0 /\ scan[f] = Fresh
        /\ reader[f] = "read" => ScanAt(file, pos[f] + 1, scan[f])
        /\ reader[f] = "send" => /\ pos[f] # 0 /\ file[pos[f]] = "/DOC"
                                /\ scan[f].doc = DocumentAt(file, pos[f])
        /\ reader[f] = "closed" => pos[f] = Len(file)
Parsed(f) == IF reader[f] = "send" THEN <<scan[f].doc>> ELSE <<>>
Passing(f) == IF worker[f] = "send" THEN <<passing[f]>> ELSE <<>>
FileInv(f) ==
    /\ ReadInv(f)
    /\ From(f) \o Passing(f) \o Parsed(f) = Given(tree[f].tokens, pos[f])
OrderInv == \A f \in Files : FileInv(f)

\* Every matching file that read_file has seen has its reader.
WalkInv ==
    /\ main # "walk" => walked = N
    /\ main = "done" => closed
    /\ \A f \in Files : f <= walked /\ tree[f].kind = "file" => reader[f] # "unborn"

JInv == IInv /\ OrderInv /\ WalkInv

\* A token that goes into the document.
IsText(file, i) ==
    /\ file[i] \in Words \cup Symbols
    /\ Within(file, i, "TEXT", "/TEXT") /\ ~InTitle(file, i)
-----------------------------------------------------------------------------
(* read_next_doc.                                                           *)

\* The tokens of a file are tokens; a token of a kind is of no other.
LEMMA TreeType ==
    ASSUME NEW t \in Trees, NEW f \in Files
    PROVE  t[f].kind \in {"skipped", "locked", "file"} /\ t[f].tokens \in Seq(Tokens)
  BY TreesAssumption DEF Files, Entries

\* A token that does not panic keeps the variables of read_next_doc in order.
LEMMA AfterOK ==
    ASSUME NEW s, ScanOK(s), NEW t \in Tokens, t # "endless", t # "/DOC",
           ~Panics(s, t)
    PROVE  ScanOK(After(s, t))
  <1>1. CASE t \in Tags
    <2>1. After(s, t) = AfterTag(s, t)  BY <1>1 DEF After
    <2>2. CASE t = "TEXT"
      BY <2>1, <2>2 DEF ScanOK, Scans, AfterTag, Panics
    <2>3. CASE t = "/TEXT"
      BY <2>1, <2>3 DEF ScanOK, Scans, AfterTag
    <2>4. CASE t = "DOCNO"
      <3>1. After(s, t) = [s EXCEPT !.in_title = TRUE, !.titlebuf = <<>>]
        BY <2>1, <2>4 DEF AfterTag
      <3>2. <<>> \in Seq(Words)  OBVIOUS
      <3> QED  BY <3>1, <3>2 DEF ScanOK, Scans
    <2>5. CASE t = "/DOCNO"
      <3>1. NewTrecDocument(s.titlebuf) \in Documents
        BY DEF ScanOK, Scans, NewTrecDocument, Documents
      <3>2. After(s, t) = [s EXCEPT !.doc = NewTrecDocument(s.titlebuf),
                                    !.in_title = FALSE]
        BY <2>1, <2>5 DEF AfterTag
      <3> QED  BY <3>1, <3>2, NoDocAssumption DEF ScanOK, Scans
    <2>6. CASE t \in {"DOC", "OTHER"}
      BY <2>1, <2>6 DEF ScanOK, AfterTag
    <2> QED  BY <1>1, <2>2, <2>3, <2>4, <2>5, <2>6 DEF Tags
  <1>2. CASE t \notin Tags
    <2>1. t \in Words \cup Symbols /\ After(s, t) = AfterWord(s, t)
      BY <1>2 DEF Tokens, Panics, After
    <2>2. CASE s.in_title /\ t \in Words
      <3>1. Append(s.titlebuf, t) \in Seq(Words)  BY <2>2 DEF ScanOK, Scans
      <3>2. After(s, t) = [s EXCEPT !.titlebuf = Append(s.titlebuf, t)]
        BY <2>1, <2>2 DEF AfterWord
      <3> QED  BY <3>1, <3>2 DEF ScanOK, Scans
    <2>3. CASE ~(s.in_title /\ t \in Words) /\ s.in_text
      <3>1. s.doc \in Documents  BY <2>3 DEF ScanOK, Scans
      <3> DEFINE d == [s.doc EXCEPT !.tokens = Append(@, t)]
      <3>2. d \in Documents
        <4>1. s.doc.tokens \in Seq(Words \cup Symbols)  BY <3>1 DEF Documents
        <4>2. Append(s.doc.tokens, t) \in Seq(Words \cup Symbols)  BY <2>1, <4>1
        <4>3. d = [s.doc EXCEPT !.tokens = Append(s.doc.tokens, t)]  OBVIOUS
        <4> HIDE DEF d
        <4> QED  BY <3>1, <4>2, <4>3 DEF Documents
      <3>3. After(s, t) = [s EXCEPT !.doc = d]  BY <2>1, <2>3 DEF AfterWord
      <3> HIDE DEF d
      <3> QED  BY <3>2, <3>3, NoDocAssumption DEF ScanOK, Scans
    <2>4. CASE ~(s.in_title /\ t \in Words) /\ ~s.in_text
      BY <2>1, <2>4 DEF ScanOK, AfterWord
    <2> QED  BY <2>2, <2>3, <2>4
  <1> QED  BY <1>1, <1>2

LEMMA FreshOK == ScanOK(Fresh)
  BY DEF ScanOK, Scans, Fresh
-----------------------------------------------------------------------------
(* The workers are counted.                                                 *)

\* Any set of files is finite and has at most N members.
LEMMA Counted ==
    ASSUME NEW S \in SUBSET Files
    PROVE  IsFiniteSet(S) /\ Cardinality(S) \in 0 .. N
  <1>1. IsFiniteSet(1 .. N) /\ Cardinality(1 .. N) = N
    BY NAssumption, FS_Interval
  <1>2. IsFiniteSet(S) /\ Cardinality(S) <= N
    BY <1>1, FS_Subset DEF Files
  <1>3. Cardinality(S) \in Nat  BY <1>2, FS_CardinalityType
  <1> QED  BY <1>2, <1>3, NAssumption

\* Steps that keep every worker on its side of the count keep CloseInv.
LEMMA SameAlive ==
    ASSUME CloseInv, Alive' = Alive, UNCHANGED <<worker_count, closed, signal>>,
           main' = main \/ main' # "walk", panic' \notin {"send", "close"}
    PROVE  CloseInv'
  <1>1. Cardinality(Alive') = Cardinality(Alive)  OBVIOUS
  <1> QED  BY <1>1 DEF CloseInv

\* A worker that goes from one state of its life to another stays alive.
LEMMA StaysAlive ==
    ASSUME TypeOK, NEW f \in Files, NEW w \in {"receive", "send", "report"},
           worker[f] \in {"receive", "send", "report"},
           worker' = [worker EXCEPT ![f] = w]
    PROVE  Alive' = Alive
  <1>1. \A g \in Files : worker'[g] = IF g = f THEN w ELSE worker[g]
    BY DEF TypeOK
  <1> QED  BY <1>1 DEF Alive
-----------------------------------------------------------------------------
(* Every step keeps IInv.                                                   *)

LEMMA InitOK == Init => IInv
  <1> SUFFICES ASSUME Init PROVE IInv  OBVIOUS
  <1>1. TypeOK
    <2>1. Fresh \in Scans  BY FreshOK DEF ScanOK
    <2>2. scan \in [Files -> Scans] /\ pos \in [Files -> Nat]
      BY <2>1 DEF Init
    <2>3. <<>> \in Seq(Files \X Documents)  OBVIOUS
    <2>4. walked \in 0 .. N /\ worker_count \in 0 .. N  BY NAssumption DEF Init
    <2>5. closed \in BOOLEAN  BY DEF Init
    <2> QED  BY <2>2, <2>3, <2>4, <2>5 DEF Init, TypeOK
  <1>2. ScanInv  BY FreshOK DEF Init, ScanInv
  <1>3. LifeInv  BY DEF Init, LifeInv
  <1>4. CloseInv
    <2>1. Alive = {}  BY DEF Init, Alive
    <2> QED  BY <2>1, FS_EmptySet DEF Init, CloseInv
  <1> QED  BY <1>1, <1>2, <1>3, <1>4 DEF IInv

LEMMA ReadFileStep == ASSUME IInv, read_file PROVE IInv'
  <1> DEFINE f == walked + 1
  <1>1. /\ panic = "none" /\ main = "walk" /\ walked < N /\ walked' = f
        /\ UNCHANGED <<tree, main, signal, passing, pos, scan, closed, inserted>>
    BY DEF read_file
  <1>2. f \in Files /\ walked \in Nat /\ f > walked
    BY <1>1, NAssumption DEF IInv, TypeOK, Files
  <1>3. worker[f] = "unborn" /\ reader[f] = "unborn"
    BY <1>2 DEF IInv, LifeInv
  <1>4. tree[f].kind \in {"skipped", "locked", "file"}
    BY <1>2, TreeType DEF IInv, TypeOK
  <1>5. ~closed  BY <1>1 DEF IInv, CloseInv
  <1>6. CASE tree[f].kind # "file"
    <2>1. UNCHANGED <<worker, reader, worker_count>> /\ panic' \in {panic, "open"}
      BY <1>1, <1>4, <1>6 DEF read_file
    <2>2. TypeOK'
      <3>1. walked' \in 0 .. N  BY <1>1, <1>2 DEF Files
      <3> QED  BY <1>1, <2>1, <3>1 DEF IInv, TypeOK
    <2>3. ScanInv'  BY <1>1, <2>1 DEF IInv, ScanInv
    <2>4. LifeInv'
      <3>1. \A g \in Files : g > walked' => g > walked
        BY <1>1, <1>2 DEF Files
      <3> QED  BY <1>1, <2>1, <3>1 DEF IInv, LifeInv
    <2>5. CloseInv'
      <3>1. Alive' = Alive  BY <2>1 DEF Alive
      <3> QED  BY <1>1, <2>1, <3>1, SameAlive DEF IInv
    <2> QED  BY <2>2, <2>3, <2>4, <2>5 DEF IInv
  <1>7. CASE tree[f].kind = "file"
    <2>1. /\ worker' = [worker EXCEPT ![f] = "receive"]
          /\ reader' = [reader EXCEPT ![f] = "read"]
          /\ worker_count' = worker_count + 1 /\ UNCHANGED panic
      BY <1>1, <1>7 DEF read_file
    <2>2. \A g \in Files :
             /\ worker'[g] = IF g = f THEN "receive" ELSE worker[g]
             /\ reader'[g] = IF g = f THEN "read" ELSE reader[g]
      BY <2>1 DEF IInv, TypeOK
    <2>3. Alive' = Alive \cup {f} /\ f \notin Alive
      BY <1>2, <1>3, <2>2 DEF Alive
    <2>4. Cardinality(Alive') = Cardinality(Alive) + 1
      <3>1. IsFiniteSet(Alive)  BY Counted DEF Alive
      <3> QED  BY <2>3, <3>1, FS_AddElement
    <2>5. Cardinality(Alive') \in 0 .. N
      <3>1. Alive' \in SUBSET Files  BY DEF Alive
      <3> QED  BY <3>1, Counted
    <2>6. worker_count' = Cardinality(Alive')  BY <2>1, <2>4 DEF IInv, CloseInv
    <2>7. TypeOK'
      <3>1. walked' \in 0 .. N  BY <1>1, <1>2 DEF Files
      <3>2. worker' \in [Files -> {"unborn", "receive", "send", "report", "gone"}]
        BY <2>1 DEF IInv, TypeOK
      <3>3. reader' \in [Files -> {"unborn", "read", "send", "closed", "recovered"}]
        BY <2>1 DEF IInv, TypeOK
      <3> QED  BY <1>1, <2>1, <2>5, <2>6, <3>1, <3>2, <3>3 DEF IInv, TypeOK
    <2>8. ScanInv'  BY <1>1, <2>2 DEF IInv, ScanInv
    <2>9. LifeInv'
      <3>1. \A g \in Files : g > walked' => g > walked /\ g # f
        BY <1>1, <1>2 DEF Files
      <3> QED  BY <1>1, <1>7, <2>2, <3>1 DEF IInv, LifeInv
    <2>10. CloseInv'  BY <1>1, <1>5, <2>1, <2>6 DEF IInv, CloseInv
    <2> QED  BY <2>7, <2>8, <2>9, <2>10 DEF IInv
  <1> QED  BY <1>6, <1>7

LEMMA EndWalkStep == ASSUME IInv, EndWalk PROVE IInv'
  <1>1. /\ main = "walk" /\ main' = "loop" /\ signal' = "waiting"
        /\ UNCHANGED <<tree, walked, worker_count, worker, passing, reader, pos,
                       scan, inserted>>
    BY DEF EndWalk, workers, readers
  <1>2. ~closed  BY <1>1 DEF IInv, CloseInv
  <1>3. panic' = panic /\ (closed' => worker_count = 0) /\ closed' \in BOOLEAN
    BY <1>2 DEF EndWalk, Close, IInv, TypeOK
  <1>4. TypeOK'  BY <1>1, <1>3 DEF IInv, TypeOK
  <1>5. ScanInv'  BY <1>1 DEF IInv, ScanInv
  <1>6. LifeInv'  BY <1>1 DEF IInv, LifeInv
  <1>7. CloseInv'
    <2>1. Alive' = Alive  BY <1>1 DEF Alive
    <2>2. IsFiniteSet(Alive)  BY Counted DEF Alive
    <2>3. worker_count = 0 => Alive = {}
      BY <2>2, FS_EmptySet DEF IInv, CloseInv
    <2> QED  BY <1>1, <1>3, <2>1, <2>3 DEF IInv, CloseInv
  <1> QED  BY <1>4, <1>5, <1>6, <1>7 DEF IInv

LEMMA EndLoopStep == ASSUME IInv, EndLoop PROVE IInv'
  <1>1. /\ main' = "done"
        /\ UNCHANGED <<tree, walked, worker_count, signal, worker, passing,
                       reader, pos, scan, closed, panic, inserted>>
    BY DEF EndLoop, workers, readers
  <1>2. TypeOK'  BY <1>1 DEF IInv, TypeOK
  <1>3. ScanInv'  BY <1>1 DEF IInv, ScanInv
  <1>4. LifeInv'  BY <1>1 DEF IInv, LifeInv
  <1>5. CloseInv'
    <2>1. Alive' = Alive  BY <1>1 DEF Alive
    <2> QED  BY <1>1, <2>1, SameAlive DEF IInv, CloseInv
  <1> QED  BY <1>2, <1>3, <1>4, <1>5 DEF IInv

\* A worker that sends is alive, and while one is the channel is open.
LEMMA InsertStep == ASSUME IInv, NEW f \in Files, Insert(f) PROVE IInv'
  <1>1. worker[f] = "send" /\ f \in Alive  BY DEF Insert, Alive
  <1>2. ~closed  BY <1>1 DEF IInv, CloseInv
  <1>3. /\ inserted' = Append(inserted, <<f, passing[f]>>)
        /\ worker' = [worker EXCEPT ![f] = "receive"]
        /\ UNCHANGED <<tree, walked, main, worker_count, signal, passing,
                       reader, pos, scan, closed, panic>>
    BY <1>2 DEF Insert, readers
  <1>4. \A g \in Files : worker'[g] = IF g = f THEN "receive" ELSE worker[g]
    BY <1>3 DEF IInv, TypeOK
  <1>5. TypeOK'
    <2>1. <<f, passing[f]>> \in Files \X Documents
      BY <1>1 DEF IInv, ScanInv
    <2>2. inserted' \in Seq(Files \X Documents)
      BY <1>3, <2>1 DEF IInv, TypeOK
    <2>3. worker' \in [Files -> {"unborn", "receive", "send", "report", "gone"}]
      BY <1>3 DEF IInv, TypeOK
    <2> QED  BY <1>3, <2>2, <2>3 DEF IInv, TypeOK
  <1>6. ScanInv'  BY <1>3, <1>4 DEF IInv, ScanInv
  <1>7. LifeInv'  BY <1>1, <1>3, <1>4 DEF IInv, LifeInv
  <1>8. CloseInv'
    <2>1. Alive' = Alive  BY <1>1, <1>3, StaysAlive DEF IInv
    <2> QED  BY <1>3, <2>1, SameAlive DEF IInv, CloseInv
  <1> QED  BY <1>5, <1>6, <1>7, <1>8 DEF IInv

\* The token a reader is at.
LEMMA TokenType ==
    ASSUME TypeOK, NEW f \in Files, HasToken(f)
    PROVE  token(f) \in Tokens /\ token(f) # "endless"
  <1>1. tree[f].tokens \in Seq(Tokens)  BY TreeType DEF TypeOK
  <1>2. pos[f] + 1 \in 1 .. Len(tree[f].tokens)
    BY <1>1 DEF TypeOK, HasToken
  <1> QED  BY <1>1, <1>2 DEF HasToken, token

\* What a reader does by itself leaves the workers and the channel alone.
LEMMA ReaderStep ==
    ASSUME IInv, NEW f \in Files, reader[f] # "unborn",
           NEW r \in {"read", "send", "closed", "recovered"},
           reader[f] = "closed" => r = "closed",
           reader' = [reader EXCEPT ![f] = r],
           UNCHANGED <<tree, walked, main, worker_count, signal, worker, closed,
                       panic>>
    PROVE  LifeInv' /\ CloseInv'
  <1>1. \A g \in Files : reader'[g] = IF g = f THEN r ELSE reader[g]
    BY DEF IInv, TypeOK
  <1>2. LifeInv'  BY <1>1 DEF IInv, LifeInv
  <1>3. CloseInv'
    <2>1. Alive' = Alive  BY DEF Alive
    <2> QED  BY <2>1, SameAlive DEF IInv, CloseInv
  <1> QED  BY <1>2, <1>3

LEMMA ReadTokenStep == ASSUME IInv, NEW f \in Files, ReadToken(f) PROVE IInv'
  <1>1. /\ reader[f] = "read" /\ HasToken(f) /\ token(f) # "/DOC"
        /\ ~Panics(scan[f], token(f))
        /\ scan' = [scan EXCEPT ![f] = After(scan[f], token(f))]
        /\ pos' = [pos EXCEPT ![f] = pos[f] + 1]
        /\ UNCHANGED <<tree, walked, main, worker_count, signal, worker, passing,
                       reader, closed, panic, inserted>>
    BY DEF ReadToken, Reads, workers
  <1>2. ScanOK(After(scan[f], token(f)))
    <2>1. ScanOK(scan[f])  BY DEF IInv, ScanInv
    <2>2. token(f) \in Tokens /\ token(f) # "endless"
      BY <1>1, TokenType DEF IInv
    <2> QED  BY <1>1, <2>1, <2>2, AfterOK
  <1>3. \A g \in Files : scan'[g] = IF g = f THEN After(scan[f], token(f)) ELSE scan[g]
    BY <1>1 DEF IInv, TypeOK
  <1>4. TypeOK'
    <2>1. scan' \in [Files -> Scans]  BY <1>1, <1>2 DEF IInv, TypeOK, ScanOK
    <2>2. pos' \in [Files -> Nat]  BY <1>1 DEF IInv, TypeOK
    <2> QED  BY <1>1, <2>1, <2>2 DEF IInv, TypeOK
  <1>5. ScanInv'
    <2> SUFFICES ASSUME NEW g \in Files
                 PROVE  /\ ScanOK(scan'[g])
                        /\ reader[g] = "send" => scan'[g].doc \in Documents
                        /\ worker[g] = "send" => passing[g] \in Documents
      BY <1>1 DEF ScanInv
    <2> QED  BY <1>1, <1>2, <1>3 DEF IInv, ScanInv
  <1>6. LifeInv'  BY <1>1 DEF IInv, LifeInv
  <1>7. CloseInv'
    <2>1. Alive' = Alive  BY <1>1 DEF Alive
    <2> QED  BY <1>1, <2>1, SameAlive DEF IInv, CloseInv
  <1> QED  BY <1>4, <1>5, <1>6, <1>7 DEF IInv

LEMMA EndDocumentStep == ASSUME IInv, NEW f \in Files, EndDocument(f) PROVE IInv'
  <1>1. /\ reader[f] = "read" /\ token(f) = "/DOC" /\ ~Panics(scan[f], token(f))
        /\ pos' = [pos EXCEPT ![f] = pos[f] + 1]
        /\ reader' = [reader EXCEPT ![f] = "send"]
        /\ UNCHANGED <<tree, walked, main, worker_count, signal, worker, passing,
                       scan, closed, panic, inserted>>
    BY DEF EndDocument, Reads, workers
  <1>2. scan[f].doc \in Documents
    BY <1>1 DEF Panics, IInv, TypeOK, Scans
  <1>3. \A g \in Files : reader'[g] = IF g = f THEN "send" ELSE reader[g]
    BY <1>1 DEF IInv, TypeOK
  <1>4. TypeOK'
    <2>1. pos' \in [Files -> Nat]  BY <1>1 DEF IInv, TypeOK
    <2>2. reader' \in [Files -> {"unborn", "read", "send", "closed", "recovered"}]
      BY <1>1 DEF IInv, TypeOK
    <2> QED  BY <1>1, <2>1, <2>2 DEF IInv, TypeOK
  <1>5. ScanInv'  BY <1>1, <1>2, <1>3 DEF IInv, ScanInv
  <1>6. LifeInv' /\ CloseInv'  BY <1>1, ReaderStep
  <1> QED  BY <1>4, <1>5, <1>6 DEF IInv

\* ReaderRecovers and EndFile.
LEMMA ReaderEndsStep ==
    ASSUME IInv, NEW f \in Files, ReaderRecovers(f) \/ EndFile(f) PROVE IInv'
  <1>1. PICK r \in {"closed", "recovered"} :
           /\ reader[f] = "read" /\ reader' = [reader EXCEPT ![f] = r]
           /\ UNCHANGED <<tree, walked, main, worker_count, signal, worker,
                          passing, pos, scan, closed, panic, inserted>>
    BY DEF ReaderRecovers, EndFile, Reads, workers
  <1>2. \A g \in Files : reader'[g] = IF g = f THEN r ELSE reader[g]
    BY <1>1 DEF IInv, TypeOK
  <1>3. TypeOK'
    <2>1. reader' \in [Files -> {"unborn", "read", "send", "closed", "recovered"}]
      BY <1>1 DEF IInv, TypeOK
    <2> QED  BY <1>1, <2>1 DEF IInv, TypeOK
  <1>4. ScanInv'  BY <1>1, <1>2 DEF IInv, ScanInv
  <1>5. LifeInv' /\ CloseInv'  BY <1>1, ReaderStep
  <1> QED  BY <1>3, <1>4, <1>5 DEF IInv

LEMMA HandOverStep == ASSUME IInv, NEW f \in Files, HandOver(f) PROVE IInv'
  <1>1. /\ reader[f] = "send" /\ worker[f] = "receive"
        /\ passing' = [passing EXCEPT ![f] = scan[f].doc]
        /\ worker' = [worker EXCEPT ![f] = "send"]
        /\ reader' = [reader EXCEPT ![f] = "read"]
        /\ scan' = [scan EXCEPT ![f] = Fresh]
        /\ UNCHANGED <<tree, walked, main, worker_count, signal, pos, closed,
                       panic, inserted>>
    BY DEF HandOver
  <1>2. scan[f].doc \in Documents  BY <1>1 DEF IInv, ScanInv
  <1>3. \A g \in Files :
           /\ passing'[g] = IF g = f THEN scan[f].doc ELSE passing[g]
           /\ worker'[g] = IF g = f THEN "send" ELSE worker[g]
           /\ reader'[g] = IF g = f THEN "read" ELSE reader[g]
           /\ scan'[g] = IF g = f THEN Fresh ELSE scan[g]
    BY <1>1 DEF IInv, TypeOK
  <1>4. TypeOK'
    <2>1. passing' \in [Files -> Documents \cup {NoDoc}]
      BY <1>1, <1>2 DEF IInv, TypeOK
    <2>2. /\ worker' \in [Files -> {"unborn", "receive", "send", "report", "gone"}]
          /\ reader' \in [Files -> {"unborn", "read", "send", "closed", "recovered"}]
      BY <1>1 DEF IInv, TypeOK
    <2>3. scan' \in [Files -> Scans]  BY <1>1, FreshOK DEF IInv, TypeOK, ScanOK
    <2> QED  BY <1>1, <2>1, <2>2, <2>3 DEF IInv, TypeOK
  <1>5. ScanInv'  BY <1>2, <1>3, FreshOK DEF IInv, ScanInv
  <1>6. LifeInv'  BY <1>1, <1>3 DEF IInv, LifeInv
  <1>7. CloseInv'
    <2>1. Alive' = Alive  BY <1>1, StaysAlive DEF IInv
    <2> QED  BY <1>1, <2>1, SameAlive DEF IInv, CloseInv
  <1> QED  BY <1>4, <1>5, <1>6, <1>7 DEF IInv

LEMMA EndRangeStep == ASSUME IInv, NEW f \in Files, EndRange(f) PROVE IInv'
  <1>1. /\ reader[f] = "closed" /\ worker[f] = "receive"
        /\ worker' = [worker EXCEPT ![f] = "report"]
        /\ UNCHANGED <<tree, walked, main, worker_count, signal, passing, reader,
                       pos, scan, closed, panic, inserted>>
    BY DEF EndRange, readers
  <1>2. \A g \in Files : worker'[g] = IF g = f THEN "report" ELSE worker[g]
    BY <1>1 DEF IInv, TypeOK
  <1>3. TypeOK'
    <2>1. worker' \in [Files -> {"unborn", "receive", "send", "report", "gone"}]
      BY <1>1 DEF IInv, TypeOK
    <2> QED  BY <1>1, <2>1 DEF IInv, TypeOK
  <1>4. ScanInv'  BY <1>1, <1>2 DEF IInv, ScanInv
  <1>5. LifeInv'  BY <1>1, <1>2 DEF IInv, LifeInv
  <1>6. CloseInv'
    <2>1. Alive' = Alive  BY <1>1, StaysAlive DEF IInv
    <2> QED  BY <1>1, <2>1, SameAlive DEF IInv, CloseInv
  <1> QED  BY <1>3, <1>4, <1>5, <1>6 DEF IInv

\* The last worker's report, and no other, closes the channel.
LEMMA ReportStep == ASSUME IInv, NEW f \in Files, Report(f) PROVE IInv'
  <1>1. /\ worker[f] = "report" /\ signal = "waiting"
        /\ worker' = [worker EXCEPT ![f] = "gone"]
        /\ worker_count' = worker_count - 1
        /\ UNCHANGED <<tree, walked, main, passing, reader, pos, scan, inserted>>
    BY DEF Report, readers
  <1>2. f \in Alive  BY <1>1 DEF Alive
  <1>3. ~closed  BY <1>2 DEF IInv, CloseInv
  <1>4. /\ panic' = panic /\ closed' \in BOOLEAN
        /\ signal' \in {"waiting", "returned"}
        /\ closed' => worker_count' <= 0
    BY <1>1, <1>3 DEF Report, Close, IInv, TypeOK
  <1>5. \A g \in Files : worker'[g] = IF g = f THEN "gone" ELSE worker[g]
    BY <1>1 DEF IInv, TypeOK
  <1>6. Alive' = Alive \ {f}  BY <1>5 DEF Alive
  <1>7. IsFiniteSet(Alive) /\ IsFiniteSet(Alive')
    <2>1. Alive \in SUBSET Files /\ Alive' \in SUBSET Files  BY DEF Alive
    <2> QED  BY <2>1, Counted
  <1>8. Cardinality(Alive') = Cardinality(Alive) - 1
    BY <1>2, <1>6, <1>7, FS_RemoveElement
  <1>9. worker_count' = Cardinality(Alive') /\ worker_count' \in 0 .. N
    <2>1. Alive' \in SUBSET Files  BY DEF Alive
    <2>2. Cardinality(Alive') \in 0 .. N  BY <2>1, Counted
    <2> QED  BY <1>1, <1>8, <2>2 DEF IInv, CloseInv
  <1>10. TypeOK'
    <2>1. worker' \in [Files -> {"unborn", "receive", "send", "report", "gone"}]
      BY <1>1 DEF IInv, TypeOK
    <2> QED  BY <1>1, <1>4, <1>9, <2>1 DEF IInv, TypeOK
  <1>11. ScanInv'  BY <1>1, <1>5 DEF IInv, ScanInv
  <1>12. LifeInv'  BY <1>1, <1>5 DEF IInv, LifeInv
  <1>13. CloseInv'
    <2>1. closed' => Alive' = {}
      <3>1. worker_count' = 0 => Alive' = {}  BY <1>7, <1>9, FS_EmptySet
      <3>2. worker_count' <= 0 => worker_count' = 0  BY <1>9
      <3> QED  BY <1>4, <3>1, <3>2
    <2>2. main' # "walk"  BY <1>1 DEF IInv, CloseInv
    <2> QED  BY <1>4, <1>9, <2>1, <2>2 DEF IInv, CloseInv
  <1> QED  BY <1>10, <1>11, <1>12, <1>13 DEF IInv
-----------------------------------------------------------------------------
(* Sets of positions, and what a sequence has there.                        *)

\* Induction over the naturals, with a set for the statement: of a smallest
\* counterexample n the interval 0 .. n is a least one by inclusion.
LEMMA NatSetInduction ==
    ASSUME NEW T, 0 \in T, \A n \in Nat : n \in T => n + 1 \in T
    PROVE  Nat \subseteq T
  <1> DEFINE B == {n \in Nat : n \notin T}
             R == StrictSubsetOrdering(Nat)
             U == {0 .. n : n \in B}
             F == FiniteSubsetsOf(Nat)
  <1> SUFFICES ASSUME B # {} PROVE FALSE  OBVIOUS
  <1>1. IsWellFoundedOn(R, F)  BY FS_StrictSubsetOrderingWellFounded
  <1>2. U \subseteq F
    <2> SUFFICES ASSUME NEW n \in B PROVE 0 .. n \in F  OBVIOUS
    <2>1. IsFiniteSet(0 .. n)  BY FS_Interval
    <2> QED  BY <2>1 DEF FiniteSubsetsOf
  <1>3. \E x \in U : \A y \in U : ~(<<y, x>> \in R)
    <2>1. U # {}  OBVIOUS
    <2> HIDE DEF U, R, F
    <2> QED  BY <1>1, <1>2, <2>1, WFMin
  <1>4. PICK n \in B : \A y \in U : ~(<<y, 0 .. n>> \in R)  BY <1>3
  <1>5. n \in Nat /\ n # 0  OBVIOUS
  <1>6. n - 1 \in B  BY <1>5
  <1>7. 0 .. (n - 1) \in U  BY <1>6
  <1>8. <<0 .. (n - 1), 0 .. n>> \in R
    <2>1. 0 .. (n - 1) \subseteq 0 .. n /\ n \in 0 .. n /\ n \notin 0 .. (n - 1)
      BY <1>5
    <2>2. 0 .. (n - 1) # 0 .. n  BY <2>1
    <2> HIDE DEF B, U
    <2> QED  BY <2>1, <2>2, <1>5 DEF StrictSubsetOrdering
  <1> QED  BY <1>4, <1>7, <1>8

\* A set of positions is finite.
LEMMA FinitePositions ==
    ASSUME NEW n \in Nat, NEW S \in SUBSET (1 .. n)
    PROVE  IsFiniteSet(S) /\ Cardinality(S) \in 0 .. n
  <1>1. IsFiniteSet(1 .. n) /\ Cardinality(1 .. n) = n  BY FS_Interval
  <1>2. IsFiniteSet(S) /\ Cardinality(S) <= n  BY <1>1, FS_Subset
  <1> QED  BY <1>2, FS_CardinalityType

\* It has a greatest member, its Latest.
LEMMA LatestIn ==
    ASSUME NEW n \in Nat, NEW S \in SUBSET (1 .. n), S # {}
    PROVE  Latest(S) \in S /\ \A j \in S : j <= Latest(S)
  <1> DEFINE T == {m \in Nat : \A Q \in SUBSET (1 .. m) :
                                  Q # {} => \E i \in Q : \A j \in Q : j <= i}
  <1>1. 0 \in T
    <2>1. \A Q \in SUBSET (1 .. 0) : Q = {}  OBVIOUS
    <2> QED  BY <2>1
  <1>2. ASSUME NEW m \in Nat, m \in T PROVE m + 1 \in T
    <2> SUFFICES ASSUME NEW Q \in SUBSET (1 .. m + 1), Q # {}
                 PROVE  \E i \in Q : \A j \in Q : j <= i
      BY <1>2
    <2>1. CASE m + 1 \in Q  BY <2>1
    <2>2. CASE m + 1 \notin Q
      <3>1. Q \subseteq 1 .. m  BY <2>2
      <3> QED  BY <1>2, <3>1
    <2> QED  BY <2>1, <2>2
  <1>3. n \in T
    <2> HIDE DEF T
    <2> QED  BY <1>1, <1>2, NatSetInduction
  <1>4. \E i \in S : \A j \in S : j <= i  BY <1>3
  <1> QED  BY <1>4 DEF Latest

LEMMA LatestIs ==
    ASSUME NEW S \in SUBSET Int, NEW m \in S, \A j \in S : j <= m
    PROVE  Latest(S) = m
  <1>1. \A i \in S : (\A j \in S : j <= i) => i = m  OBVIOUS
  <1> QED  BY <1>1 DEF Latest

\* The k-th of a set of positions exists.
LEMMA NthExists ==
    ASSUME NEW n \in Nat, NEW S \in SUBSET (1 .. n), NEW k \in 1 .. Cardinality(S)
    PROVE  \E i \in S : Cardinality({j \in S : j < i}) = k - 1
  <1> DEFINE P(Q) == \A l \in 1 .. Cardinality(Q) :
                        \E i \in Q : Cardinality({j \in Q : j < i}) = l - 1
             T == {m \in Nat : \A Q \in SUBSET (1 .. m) : P(Q)}
  <1>1. 0 \in T
    <2>1. \A Q \in SUBSET (1 .. 0) : Cardinality(Q) = 0
      <3>1. \A Q \in SUBSET (1 .. 0) : Q = {}  OBVIOUS
      <3> QED  BY <3>1, FS_EmptySet
    <2> QED  BY <2>1
  <1>2. ASSUME NEW m \in Nat, m \in T PROVE m + 1 \in T
    <2> SUFFICES ASSUME NEW Q \in SUBSET (1 .. m + 1) PROVE P(Q)
      <3>1. m + 1 \in Nat  OBVIOUS
      <3> HIDE DEF P
      <3> QED  BY <3>1
    <2> SUFFICES ASSUME NEW l \in 1 .. Cardinality(Q)
                 PROVE  \E i \in Q : Cardinality({j \in Q : j < i}) = l - 1
      OBVIOUS
    <2> DEFINE U == Q \ {m + 1}
    <2>1. U \in SUBSET (1 .. m) /\ Q \in SUBSET (1 .. m + 1)  OBVIOUS
    <2>2. P(U)  BY <1>2, <2>1
    <2>3. CASE l \in 1 .. Cardinality(U)
      <3>1. PICK i \in U : Cardinality({j \in U : j < i}) = l - 1  BY <2>2, <2>3
      <3>2. {j \in Q : j < i} = {j \in U : j < i}  BY <2>1
      <3> QED  BY <3>1, <3>2
    <2>4. CASE l \notin 1 .. Cardinality(U)
      <3>1. IsFiniteSet(Q) /\ Cardinality(Q) \in Nat
        <4>1. m + 1 \in Nat  OBVIOUS
        <4>2. IsFiniteSet(Q) /\ Cardinality(Q) \in 0 .. m + 1
          BY <2>1, <4>1, FinitePositions
        <4> QED  BY <4>1, <4>2
      <3>2. Cardinality(U) = IF m + 1 \in Q THEN Cardinality(Q) - 1 ELSE Cardinality(Q)
        BY <3>1, FS_RemoveElement
      <3>3. m + 1 \in Q /\ l = Cardinality(Q)  BY <2>4, <3>1, <3>2
      <3>4. {j \in Q : j < m + 1} = U
        <4>1. \A j \in Q : j \in 1 .. m + 1  BY <2>1
        <4>2. \A j \in Q : j < m + 1 <=> j # m + 1  BY <4>1
        <4> QED  BY <4>2
      <3>5. Cardinality(U) = l - 1  BY <3>2, <3>3
      <3> QED  BY <3>3, <3>4, <3>5
    <2> QED  BY <2>3, <2>4
  <1>3. n \in T
    <2> HIDE DEF T
    <2> QED  BY <1>1, <1>2, NatSetInduction
  <1> QED  BY <1>3

\* And there is only one.
LEMMA NthIs ==
    ASSUME NEW n \in Nat, NEW S \in SUBSET (1 .. n), NEW i \in S, NEW k \in Int,
           Cardinality({j \in S : j < i}) = k - 1
    PROVE  Nth(S, k) = i
  <1> DEFINE C(h) == Cardinality({j \in S : j < h})
  <1>1. \A h \in S, g \in S : h < g => C(h) < C(g)
    <2> SUFFICES ASSUME NEW h \in S, NEW g \in S, h < g PROVE C(h) < C(g)  OBVIOUS
    <2> DEFINE A == {j \in S : j < h}
               B == {j \in S : j < g}
    <2>1. A \in SUBSET (1 .. n) /\ B \in SUBSET (1 .. n)  OBVIOUS
    <2>2. IsFiniteSet(A) /\ IsFiniteSet(B) /\ Cardinality(A) \in Nat
      BY <2>1, FinitePositions
    <2>3. h \notin A /\ A \cup {h} \in SUBSET B
      <3>1. \A j \in S : j \in Int  OBVIOUS
      <3>2. \A j \in S : j < h => j < g  BY <3>1
      <3>3. ~(h < h)  BY <3>1
      <3> QED  BY <3>2, <3>3
    <2> HIDE DEF A, B
    <2>4. Cardinality(A \cup {h}) = Cardinality(A) + 1  BY <2>2, <2>3, FS_AddElement
    <2>5. Cardinality(A \cup {h}) <= Cardinality(B)  BY <2>2, <2>3, FS_Subset
    <2>6. Cardinality(B) \in Nat  BY <2>2, FS_CardinalityType
    <2>7. Cardinality(A) < Cardinality(B)  BY <2>2, <2>4, <2>5, <2>6
    <2> QED  BY <2>7 DEF A, B
  <1>2. \A h \in S : C(h) = k - 1 => h = i
    <2> SUFFICES ASSUME NEW h \in S, C(h) = k - 1, h # i PROVE FALSE  OBVIOUS
    <2>1. C(i) = k - 1  OBVIOUS
    <2>2. h < i \/ i < h  OBVIOUS
    <2>3. ~(C(h) < C(i)) /\ ~(C(i) < C(h))  BY <2>1
    <2> HIDE DEF C
    <2> QED  BY <1>1, <2>2, <2>3
  <1> HIDE DEF C
  <1>3. Nth(S, k) = CHOOSE h \in S : C(h) = k - 1  BY DEF Nth, C
  <1>4. C(i) = k - 1  BY DEF C
  <1> QED  BY <1>2, <1>3, <1>4

LEMMA NthIn ==
    ASSUME NEW n \in Nat, NEW S \in SUBSET (1 .. n), NEW k \in 1 .. Cardinality(S)
    PROVE  Nth(S, k) \in S /\ Cardinality({j \in S : j < Nth(S, k)}) = k - 1
  BY NthExists DEF Nth

\* What is chosen of a sequence depends on nothing else of it.
LEMMA AtSame ==
    ASSUME NEW n \in Nat, NEW S \in SUBSET (1 .. n), NEW a, NEW b,
           \A i \in S : a[i] = b[i]
    PROVE  At(a, S) = At(b, S)
  BY NthIn DEF At

LEMMA AtEmpty == ASSUME NEW a PROVE At(a, {}) = <<>>
  BY FS_EmptySet DEF At

LEMMA AtType ==
    ASSUME NEW n \in Nat, NEW S \in SUBSET (1 .. n), NEW a, NEW V,
           \A i \in S : a[i] \in V
    PROVE  At(a, S) \in Seq(V) /\ Len(At(a, S)) = Cardinality(S)
  <1>1. Cardinality(S) \in Nat  BY FinitePositions
  <1>2. \A k \in 1 .. Cardinality(S) : a[Nth(S, k)] \in V  BY NthIn
  <1> QED  BY <1>1, <1>2 DEF At

\* The set with a new last position.
LEMMA AtAppend ==
    ASSUME NEW n \in Nat, NEW S \in SUBSET (1 .. n), NEW a, NEW V,
           \A i \in S \cup {n + 1} : a[i] \in V
    PROVE  At(a, S \cup {n + 1}) = Append(At(a, S), a[n + 1])
  <1> DEFINE Q == S \cup {n + 1}
             c == Cardinality(S)
  <1>1. Q \in SUBSET (1 .. n + 1) /\ n + 1 \notin S  OBVIOUS
  <1>2. IsFiniteSet(S) /\ c \in Nat  BY FinitePositions
  <1>3. Cardinality(Q) = c + 1  BY <1>1, <1>2, FS_AddElement
  <1>4. At(a, S) \in Seq(V) /\ Len(At(a, S)) = c  BY AtType
  <1>5. At(a, Q) \in Seq(V) /\ Len(At(a, Q)) = c + 1
    <2>1. \A i \in Q : a[i] \in V  OBVIOUS
    <2>2. n + 1 \in Nat  OBVIOUS
    <2> HIDE DEF Q, c
    <2> QED  BY <1>1, <1>3, <2>1, <2>2, AtType
  <1>6. Nth(Q, c + 1) = n + 1
    <2>1. {j \in Q : j < n + 1} = S
      <3>1. \A j \in S : j \in 1 .. n  OBVIOUS
      <3>2. (\A j \in S : j < n + 1) /\ ~(n + 1 < n + 1)  BY <3>1
      <3> QED  BY <3>2
    <2>2. Cardinality({j \in Q : j < n + 1}) = (c + 1) - 1
      <3>1. Cardinality({j \in Q : j < n + 1}) = c  BY <2>1
      <3> HIDE DEF c, Q
      <3> QED  BY <1>2, <3>1
    <2>3. n + 1 \in Q /\ c + 1 \in Int /\ n + 1 \in Nat  BY <1>2
    <2> HIDE DEF Q, c
    <2> QED  BY <1>1, <2>2, <2>3, NthIs
  <1>7. ASSUME NEW k \in 1 .. c PROVE Nth(Q, k) = Nth(S, k)
    <2> DEFINE i == Nth(S, k)
    <2>1. i \in S /\ Cardinality({j \in S : j < i}) = k - 1  BY NthIn
    <2> HIDE DEF i
    <2>2. {j \in Q : j < i} = {j \in S : j < i}  BY <1>1, <2>1
    <2>3. i \in Q /\ k \in Int /\ n + 1 \in Nat  BY <1>2, <2>1
    <2>4. Nth(Q, k) = i
      <3> HIDE DEF Q
      <3>1. Cardinality({j \in Q : j < i}) = k - 1  BY <2>1, <2>2
      <3> QED  BY <1>1, <2>3, <3>1, NthIs
    <2> QED  BY <2>4 DEF i
  <1> HIDE DEF Q, c
  <1>8. \A k \in 1 .. c : At(a, Q)[k] = At(a, S)[k]
    <2>1. \A k \in 1 .. c : At(a, S)[k] = a[Nth(S, k)]  BY DEF At, c
    <2>2. \A k \in 1 .. c + 1 : At(a, Q)[k] = a[Nth(Q, k)]  BY <1>3 DEF At
    <2> QED  BY <1>2, <1>7, <2>1, <2>2
  <1>9. At(a, Q)[c + 1] = a[n + 1]  BY <1>2, <1>3, <1>6 DEF At
  <1>10. a[n + 1] \in V  OBVIOUS
  <1>11. At(a, Q) = Append(At(a, S), a[n + 1])
    <2> DEFINE x == At(a, S)
               y == At(a, Q)
               e == a[n + 1]
    <2>1. x \in Seq(V) /\ y \in Seq(V) /\ e \in V /\ Len(x) = c /\ Len(y) = c + 1
      BY <1>4, <1>5, <1>10
    <2>2. \A k \in 1 .. c : y[k] = x[k]  BY <1>8
    <2>3. y[c + 1] = e  BY <1>9
    <2> HIDE DEF x, y, e
    <2>4. Append(x, e) \in Seq(V) /\ Len(Append(x, e)) = c + 1  BY <2>1, <1>2
    <2>5. \A k \in 1 .. c + 1 : Append(x, e)[k] = y[k]
      BY <1>2, <2>1, <2>2, <2>3
    <2>6. y = Append(x, e)  BY <2>1, <2>4, <2>5
    <2> QED  BY <2>6 DEF x, y, e
  <1> QED  BY <1>11 DEF Q

\* What is chosen up to a position is a prefix.
LEMMA AtPrefix ==
    ASSUME NEW n \in Nat, NEW S \in SUBSET (1 .. n), NEW a, NEW p \in Int
    PROVE  LET Q == {i \in S : i <= p}
           IN  /\ Cardinality(Q) <= Cardinality(S)
               /\ \A k \in 1 .. Cardinality(Q) : At(a, Q)[k] = At(a, S)[k]
  <1> DEFINE Q == {i \in S : i <= p}
  <1>1. Q \in SUBSET (1 .. n) /\ Q \in SUBSET S  OBVIOUS
  <1>2. IsFiniteSet(S) /\ Cardinality(S) \in Nat /\ Cardinality(Q) \in Nat
    BY <1>1, FinitePositions
  <1>3. Cardinality(Q) <= Cardinality(S)  BY <1>1, <1>2, FS_Subset
  <1>4. ASSUME NEW k \in 1 .. Cardinality(Q) PROVE At(a, Q)[k] = At(a, S)[k]
    <2> DEFINE i == Nth(Q, k)
    <2>1. i \in Q /\ Cardinality({j \in Q : j < i}) = k - 1  BY <1>1, NthIn
    <2> HIDE DEF i
    <2>2. {j \in S : j < i} = {j \in Q : j < i}
      <3>1. i <= p /\ i \in Int /\ \A j \in S : j \in Int  BY <2>1
      <3>2. \A j \in S : j < i => j <= p  BY <3>1
      <3> QED  BY <3>2
    <2>3. Nth(S, k) = i
      <3>1. i \in S /\ k \in Int  BY <2>1, <1>2
      <3>2. Cardinality({j \in S : j < i}) = k - 1  BY <2>1, <2>2
      <3> HIDE DEF Q
      <3> QED  BY <3>1, <3>2, NthIs
    <2>4. k \in 1 .. Cardinality(S)  BY <1>2, <1>3
    <2> QED  BY <2>3, <2>4 DEF At, i
  <1> QED  BY <1>3, <1>4
-----------------------------------------------------------------------------
(* Positions before and after a token.                                      *)

LEMMA BeforeType ==
    ASSUME NEW file, NEW i \in Nat \ {0}, NEW tags
    PROVE  /\ i - 1 \in Nat
           /\ Before(file, i, tags) \in SUBSET (1 .. i - 1)
  BY DEF Before

\* Nothing comes before the first token, or just after the end of a document.
LEMMA BeforeNone ==
    ASSUME NEW file, NEW i \in Nat \ {0}, i = 1 \/ file[i - 1] = "/DOC", NEW tags
    PROVE  Before(file, i, tags) = {}
  <1>1. CASE i = 1  BY <1>1 DEF Before
  <1>2. CASE file[i - 1] = "/DOC"
    <2>1. \A j \in 1 .. i - 1 : i - 1 \in j .. i - 1  OBVIOUS
    <2> QED  BY <1>2, <2>1 DEF Before
  <1> QED  BY <1>1, <1>2

\* A token that does not end a document is added to those of its kind.
LEMMA BeforeNext ==
    ASSUME NEW file, NEW i \in Nat \ {0}, file[i] # "/DOC", NEW tags
    PROVE  Before(file, i + 1, tags) =
             IF file[i] \in tags THEN Before(file, i, tags) \cup {i}
             ELSE Before(file, i, tags)
  <1> DEFINE Since(j, h) == \A k \in j .. h : file[k] # "/DOC"
  <1>1. \A j \in 1 .. i - 1 : Since(j, i) <=> Since(j, i - 1)
    <2> SUFFICES ASSUME NEW j \in 1 .. i - 1 PROVE Since(j, i) <=> Since(j, i - 1)
      OBVIOUS
    <2>1. \A k : k \in j .. i <=> k \in j .. i - 1 \/ k = i  OBVIOUS
    <2> QED  BY <2>1
  <1>2. Since(i, i)
    <2>1. \A k \in i .. i : k = i  OBVIOUS
    <2> QED  BY <2>1
  <1>3. Before(file, i, tags) = {j \in 1 .. i - 1 : file[j] \in tags /\ Since(j, i - 1)}
    BY DEF Before
  <1>4. Before(file, i + 1, tags) = {j \in 1 .. i : file[j] \in tags /\ Since(j, i)}
    <2>1. (i + 1) - 1 = i  OBVIOUS
    <2> QED  BY <2>1 DEF Before
  <1>5. \A j : j \in 1 .. i <=> j \in 1 .. i - 1 \/ j = i  OBVIOUS
  <1> HIDE DEF Since
  <1>6. \A j : j \in Before(file, i + 1, tags) <=>
               j \in Before(file, i, tags) \/ (j = i /\ file[i] \in tags)
    BY <1>1, <1>2, <1>3, <1>4, <1>5
  <1>7. CASE file[i] \in tags  BY <1>6, <1>7
  <1>8. CASE file[i] \notin tags  BY <1>6, <1>8
  <1> QED  BY <1>7, <1>8

\* The last mark before the next token.
LEMMA LatestNext ==
    ASSUME NEW file, NEW i \in Nat \ {0}, file[i] # "/DOC", NEW tags, file[i] \in tags
    PROVE  Latest(Before(file, i + 1, tags)) = i
  <1> DEFINE S == Before(file, i + 1, tags)
  <1>1. S = Before(file, i, tags) \cup {i}  BY BeforeNext
  <1>2. Before(file, i, tags) \in SUBSET (1 .. i - 1)  BY BeforeType
  <1>3. S \in SUBSET Int /\ i \in S /\ \A j \in S : j <= i  BY <1>1, <1>2
  <1> HIDE DEF S
  <1>4. Latest(S) = i  BY <1>3, LatestIs
  <1> QED  BY <1>4 DEF S

LEMMA WithinNone ==
    ASSUME NEW file, NEW i \in Nat \ {0}, i = 1 \/ file[i - 1] = "/DOC",
           NEW open, NEW close
    PROVE  Within(file, i, open, close) = FALSE
  BY BeforeNone DEF Within

LEMMA WithinNext ==
    ASSUME NEW file, NEW i \in Nat \ {0}, file[i] # "/DOC", NEW open, NEW close
    PROVE  Within(file, i + 1, open, close) =
             IF file[i] \in {open, close} THEN file[i] = open
             ELSE Within(file, i, open, close)
  <1> DEFINE tags == {open, close}
  <1>1. CASE file[i] \in tags
    <2>1. Before(file, i + 1, tags) = Before(file, i, tags) \cup {i}
      BY <1>1, BeforeNext
    <2>2. Latest(Before(file, i + 1, tags)) = i  BY <1>1, LatestNext
    <2>3. Before(file, i + 1, tags) # {}  BY <2>1
    <2> QED  BY <1>1, <2>2, <2>3 DEF Within
  <1>2. CASE file[i] \notin tags
    <2>1. Before(file, i + 1, tags) = Before(file, i, tags)  BY <1>2, BeforeNext
    <2> QED  BY <1>2, <2>1 DEF Within
  <1> QED  BY <1>1, <1>2

\* Within an element is after the mark that opens it.
LEMMA WithinOpened ==
    ASSUME NEW file, NEW i \in Nat \ {0}, NEW open, NEW close,
           Within(file, i, open, close)
    PROVE  Before(file, i, {open}) # {}
  <1> DEFINE S == Before(file, i, {open, close})
  <1>1. S # {} /\ file[Latest(S)] = open  BY DEF Within
  <1>2. S \in SUBSET (1 .. i - 1) /\ i - 1 \in Nat  BY BeforeType
  <1>3. Latest(S) \in S
    <2> HIDE DEF S
    <2> QED  BY <1>1, <1>2, LatestIn
  <1>4. Latest(S) \in Before(file, i, {open})
    <2> DEFINE l == Latest(S)
    <2>1. l \in Before(file, i, {open, close}) /\ file[l] = open  BY <1>1, <1>3
    <2> HIDE DEF l
    <2>2. l \in Before(file, i, {open})  BY <2>1 DEF Before
    <2> QED  BY <2>2 DEF l
  <1> QED  BY <1>4

LEMMA NamedNext ==
    ASSUME NEW file, NEW i \in Nat \ {0}, file[i] # "/DOC"
    PROVE  Named(file, i + 1) <=> Named(file, i) \/ file[i] = "/DOCNO"
  <1> DEFINE S == Before(file, i, {"/DOCNO"})
             Q == Before(file, i + 1, {"/DOCNO"})
  <1>1. Q = IF file[i] \in {"/DOCNO"} THEN S \cup {i} ELSE S  BY BeforeNext
  <1>2. Q # {} <=> S # {} \/ file[i] = "/DOCNO"
    <2> HIDE DEF S, Q
    <2> QED  BY <1>1
  <1> QED  BY <1>2 DEF Named

LEMMA TitleNone ==
    ASSUME NEW file, NEW i \in Nat \ {0}, i = 1 \/ file[i - 1] = "/DOC"
    PROVE  TitleBefore(file, i) = {}
  BY BeforeNone DEF TitleBefore

LEMMA TitleType ==
    ASSUME NEW file, NEW i \in Nat \ {0}
    PROVE  /\ i - 1 \in Nat
           /\ TitleBefore(file, i) \in SUBSET (1 .. i - 1)
           /\ \A j \in TitleBefore(file, i) : file[j] \in Words
  BY DEF TitleBefore, InTitle

LEMMA TitleNext ==
    ASSUME NEW file, NEW i \in Nat \ {0}, file[i] # "/DOC"
    PROVE  TitleBefore(file, i + 1) =
             IF file[i] = "DOCNO" THEN {}
             ELSE IF InTitle(file, i) THEN TitleBefore(file, i) \cup {i}
             ELSE TitleBefore(file, i)
  <1> DEFINE S == Before(file, i, {"DOCNO"})
             Q == Before(file, i + 1, {"DOCNO"})
  <1>1. TitleBefore(file, i) =
          {j \in 1 .. i - 1 : S # {} /\ j > Latest(S) /\ InTitle(file, j)}
    BY DEF TitleBefore
  <1>2. TitleBefore(file, i + 1) =
          {j \in 1 .. i : Q # {} /\ j > Latest(Q) /\ InTitle(file, j)}
    <2>1. (i + 1) - 1 = i  OBVIOUS
    <2> QED  BY <2>1 DEF TitleBefore
  <1>3. CASE file[i] = "DOCNO"
    <2>1. Latest(Q) = i  BY <1>3, LatestNext
    <2>2. \A j \in 1 .. i : ~(j > i)  OBVIOUS
    <2> HIDE DEF Q
    <2> QED  BY <1>2, <1>3, <2>1, <2>2
  <1>4. CASE file[i] # "DOCNO"
    <2>1. Q = S  BY <1>4, BeforeNext
    <2>2. InTitle(file, i) => S # {} /\ i > Latest(S)
      <3> SUFFICES ASSUME InTitle(file, i) PROVE S # {} /\ i > Latest(S)  OBVIOUS
      <3>1. S # {}  BY WithinOpened DEF InTitle
      <3>2. S \in SUBSET (1 .. i - 1) /\ i - 1 \in Nat  BY BeforeType
      <3>3. Latest(S) \in S
        <4> HIDE DEF S
        <4> QED  BY <3>1, <3>2, LatestIn
      <3>4. Latest(S) \in 1 .. i - 1  BY <3>2, <3>3
      <3> HIDE DEF S
      <3> QED  BY <3>1, <3>4
    <2>3. \A j : j \in 1 .. i <=> j \in 1 .. i - 1 \/ j = i  OBVIOUS
    <2> HIDE DEF S, Q
    <2>4. \A j : j \in TitleBefore(file, i + 1) <=>
                 j \in TitleBefore(file, i) \/ (j = i /\ InTitle(file, i))
      BY <1>1, <1>2, <2>1, <2>2, <2>3
    <2>5. CASE InTitle(file, i)  BY <1>4, <2>4, <2>5
    <2>6. CASE ~InTitle(file, i)  BY <1>4, <2>4, <2>6
    <2> QED  BY <2>5, <2>6
  <1> QED  BY <1>3, <1>4

LEMMA TextType ==
    ASSUME NEW file, NEW i \in Nat \ {0}, NEW from \in Nat \ {0}
    PROVE  /\ i - 1 \in Nat
           /\ TextBefore(file, from, i) \in SUBSET (1 .. i - 1)
           /\ \A j \in TextBefore(file, from, i) : file[j] \in Words \cup Symbols
  BY DEF TextBefore

LEMMA TextNext ==
    ASSUME NEW file, NEW i \in Nat \ {0}, NEW from \in 1 .. i
    PROVE  TextBefore(file, from, i + 1) =
             IF IsText(file, i) THEN TextBefore(file, from, i) \cup {i}
             ELSE TextBefore(file, from, i)
  <1>1. TextBefore(file, from, i) = {j \in from .. i - 1 : IsText(file, j)}
    BY DEF TextBefore, IsText
  <1>2. TextBefore(file, from, i + 1) = {j \in from .. i : IsText(file, j)}
    <2>1. (i + 1) - 1 = i  OBVIOUS
    <2> QED  BY <2>1 DEF TextBefore, IsText
  <1>3. \A j : j \in from .. i <=> j \in from .. i - 1 \/ j = i  OBVIOUS
  <1>4. \A j : j \in TextBefore(file, from, i + 1) <=>
               j \in TextBefore(file, from, i) \/ (j = i /\ IsText(file, i))
    BY <1>1, <1>2, <1>3
  <1> QED  BY <1>4
-----------------------------------------------------------------------------
(* read_next_doc keeps its variables as the positions say.                  *)

LEMMA ScanFresh ==
    ASSUME NEW file, NEW i \in Nat \ {0}, i = 1 \/ file[i - 1] = "/DOC"
    PROVE  ScanAt(file, i, Fresh)
  <1>1. ~Named(file, i)  BY BeforeNone DEF Named
  <1>2. Fresh.titlebuf = At(file, TitleBefore(file, i))
    BY TitleNone, AtEmpty DEF Fresh
  <1>3. /\ Fresh.in_text = Within(file, i, "TEXT", "/TEXT")
        /\ Fresh.in_title = Within(file, i, "DOCNO", "/DOCNO")
    BY WithinNone DEF Fresh
  <1>4. Fresh.doc = NoDoc  BY DEF Fresh
  <1> QED  BY <1>1, <1>2, <1>3, <1>4 DEF ScanAt

\* A token that is no fault does not panic, and one that is one does.
LEMMA FaultPanics ==
    ASSUME NEW file, NEW i, NEW s, ScanAt(file, i, s), file[i] # "endless"
    PROVE  FaultAt(file, i) <=> Panics(s, file[i])
  BY DEF FaultAt, Panics, ScanAt

LEMMA TitlebufNext ==
    ASSUME NEW file, NEW i \in Nat \ {0}, NEW s, ScanOK(s), ScanAt(file, i, s),
           NEW t \in Tokens, file[i] = t, t # "endless", t # "/DOC", ~Panics(s, t)
    PROVE  After(s, t).titlebuf = At(file, TitleBefore(file, i + 1))
  <1>1. TitleBefore(file, i + 1) =
             IF t = "DOCNO" THEN {}
             ELSE IF InTitle(file, i) THEN TitleBefore(file, i) \cup {i}
             ELSE TitleBefore(file, i)
    BY TitleNext
  <1>2. s.titlebuf = At(file, TitleBefore(file, i))  BY DEF ScanAt
  <1>3. InTitle(file, i) <=> s.in_title /\ t \in Words
    BY DEF ScanAt, InTitle
  <1>4. CASE t = "DOCNO"
    <2>1. After(s, t).titlebuf = <<>>
      BY <1>4 DEF After, AfterTag, Tags, ScanOK, Scans
    <2> QED  BY <1>1, <1>4, <2>1, AtEmpty
  <1>5. CASE t \in Tags \ {"DOCNO"}
    <2>1. t \notin Words
      BY <1>5, TokensAssumption
    <2>2. After(s, t).titlebuf = s.titlebuf
      BY <1>5 DEF After, AfterTag, Tags, ScanOK, Scans
    <2> QED  BY <1>1, <1>2, <1>3, <1>5, <2>1, <2>2
  <1>6. CASE t \notin Tags /\ s.in_title /\ t \in Words
    <2>1. After(s, t).titlebuf = Append(s.titlebuf, t)
      BY <1>6 DEF After, AfterWord, ScanOK, Scans
    <2>2. At(file, TitleBefore(file, i) \cup {i}) =
            Append(At(file, TitleBefore(file, i)), file[i])
      <3> DEFINE S == TitleBefore(file, i)
                 n == i - 1
      <3>1. n \in Nat /\ S \in SUBSET (1 .. n) /\ n + 1 = i  BY TitleType
      <3>2. \A j \in S \cup {i} : file[j] \in Words  BY <1>6, TitleType
      <3> HIDE DEF S, n
      <3>3. At(file, S \cup {n + 1}) = Append(At(file, S), file[n + 1])
        BY <3>1, <3>2, AtAppend
      <3> QED  BY <3>1, <3>3 DEF S
    <2>3. t # "DOCNO"  BY <1>6 DEF Tags
    <2> QED  BY <1>1, <1>2, <1>3, <1>6, <2>1, <2>2, <2>3
  <1>7. CASE t \notin Tags /\ ~(s.in_title /\ t \in Words)
    <2>1. After(s, t).titlebuf = s.titlebuf
      BY <1>7 DEF After, AfterWord, ScanOK, Scans
    <2>2. t # "DOCNO"  BY <1>7 DEF Tags
    <2> QED  BY <1>1, <1>2, <1>3, <1>7, <2>1, <2>2
  <1> QED  BY <1>4, <1>5, <1>6, <1>7

\* The name and the tokens of a document grow with the file.
LEMMA DocumentBegins ==
    ASSUME NEW file, NEW i \in Nat \ {0}, file[i] = "/DOCNO"
    PROVE  DocumentAt(file, i + 1) = NewTrecDocument(At(file, TitleBefore(file, i)))
  <1>1. Latest(Before(file, i + 1, {"/DOCNO"})) = i  BY LatestNext
  <1>2. TextBefore(file, i, i + 1) = {}
    <2>1. file[i] \notin Words \cup Symbols  BY TokensAssumption DEF Tags
    <2>2. \A j \in i .. (i + 1) - 1 : j = i  OBVIOUS
    <2> QED  BY <2>1, <2>2 DEF TextBefore
  <1> QED  BY <1>1, <1>2, AtEmpty DEF DocumentAt, NewTrecDocument

LEMMA DocumentNext ==
    ASSUME NEW file, NEW i \in Nat \ {0}, Named(file, i), file[i] # "/DOCNO",
           file[i] # "/DOC"
    PROVE  LET d == DocumentAt(file, i)
           IN  DocumentAt(file, i + 1) =
                 IF IsText(file, i) THEN [d EXCEPT !.tokens = Append(@, file[i])]
                 ELSE d
  <1> DEFINE named == Latest(Before(file, i, {"/DOCNO"}))
             text == TextBefore(file, named, i)
             title == At(file, TitleBefore(file, named))
  <1>1. Latest(Before(file, i + 1, {"/DOCNO"})) = named
    BY BeforeNext
  <1>2. named \in 1 .. i - 1
    <2> DEFINE S == Before(file, i, {"/DOCNO"})
    <2>1. S # {}  BY DEF Named
    <2>2. S \in SUBSET (1 .. i - 1) /\ i - 1 \in Nat  BY BeforeType
    <2> HIDE DEF S
    <2>3. Latest(S) \in 1 .. i - 1  BY <2>1, <2>2, LatestIn
    <2> QED  BY <2>3 DEF S
  <1>3. named \in Nat \ {0} /\ named \in 1 .. i  BY <1>2
  <1>4. DocumentAt(file, i) = [id |-> title, tokens |-> At(file, text)]
    BY DEF DocumentAt
  <1>5. DocumentAt(file, i + 1) =
          [id |-> title, tokens |-> At(file, TextBefore(file, named, i + 1))]
    BY <1>1 DEF DocumentAt
  <1> HIDE DEF named, title
  <1>6. TextBefore(file, named, i + 1) = IF IsText(file, i) THEN text \cup {i} ELSE text
    BY <1>3, TextNext
  <1>7. IsText(file, i) => At(file, text \cup {i}) = Append(At(file, text), file[i])
    <2> SUFFICES ASSUME IsText(file, i)
                 PROVE  At(file, text \cup {i}) = Append(At(file, text), file[i])
      OBVIOUS
    <2> DEFINE n == i - 1
               V == Words \cup Symbols
    <2>1. n \in Nat /\ text \in SUBSET (1 .. n) /\ n + 1 = i
      BY <1>3, TextType
    <2>2. \A j \in text \cup {i} : file[j] \in V  BY <1>3, TextType DEF IsText
    <2> HIDE DEF text, n, V
    <2>3. At(file, text \cup {n + 1}) = Append(At(file, text), file[n + 1])
      BY <2>1, <2>2, AtAppend
    <2> QED  BY <2>1, <2>3
  <1> HIDE DEF text
  <1>8. CASE IsText(file, i)
    <2>1. DocumentAt(file, i + 1) =
            [id |-> title, tokens |-> Append(At(file, text), file[i])]
      BY <1>5, <1>6, <1>7, <1>8
    <2> DEFINE x == At(file, text)
               d == DocumentAt(file, i)
               e == file[i]
    <2>2. d = [id |-> title, tokens |-> x]  BY <1>4
    <2>3. DocumentAt(file, i + 1) = [id |-> title, tokens |-> Append(x, e)]  BY <2>1
    <2> HIDE DEF x, d, e
    <2>4. d.tokens = x /\ d.id = title  BY <2>2
    <2>5. [d EXCEPT !.tokens = Append(@, e)] = DocumentAt(file, i + 1)
      BY <2>2, <2>3, <2>4, SMTT(30)
    <2> QED  BY <1>8, <2>5 DEF d, e
  <1>9. CASE ~IsText(file, i)
    BY <1>4, <1>5, <1>6, <1>9
  <1> QED  BY <1>8, <1>9

LEMMA ScanNext ==
    ASSUME NEW file, NEW i \in Nat \ {0}, NEW s, ScanOK(s), ScanAt(file, i, s),
           NEW t \in Tokens, file[i] = t, t # "endless", t # "/DOC", ~Panics(s, t)
    PROVE  ScanAt(file, i + 1, After(s, t))
  <1> DEFINE r == After(s, t)
  <1>1. r.titlebuf = At(file, TitleBefore(file, i + 1))  BY TitlebufNext
  <1>2. r.in_text = IF t \in {"TEXT", "/TEXT"} THEN t = "TEXT" ELSE s.in_text
    BY DEF After, AfterTag, AfterWord, Tags, ScanOK, Scans
  <1>3. r.in_title = IF t \in {"DOCNO", "/DOCNO"} THEN t = "DOCNO" ELSE s.in_title
    BY DEF After, AfterTag, AfterWord, Tags, ScanOK, Scans
  <1>4. r.in_text = Within(file, i + 1, "TEXT", "/TEXT")
    BY <1>2, WithinNext DEF ScanAt
  <1>5. r.in_title = Within(file, i + 1, "DOCNO", "/DOCNO")
    BY <1>3, WithinNext DEF ScanAt
  <1>6. IsText(file, i) <=>
          t \in Words \cup Symbols /\ s.in_text /\ ~(s.in_title /\ t \in Words)
    BY DEF IsText, InTitle, ScanAt
  <1>7. Named(file, i + 1) <=> Named(file, i) \/ t = "/DOCNO"  BY NamedNext
  <1>8. r.doc = IF t = "/DOCNO" THEN NewTrecDocument(s.titlebuf)
                ELSE IF IsText(file, i) THEN [s.doc EXCEPT !.tokens = Append(@, t)]
                ELSE s.doc
    <2>1. CASE t \in Tags
      <3>1. t \notin Words \cup Symbols  BY <2>1, TokensAssumption
      <3> QED  BY <1>6, <2>1, <3>1 DEF After, AfterTag, Tags, ScanOK, Scans
    <2>2. CASE t \notin Tags
      <3>1. t \in Words \cup Symbols  BY <2>2 DEF Tokens, Panics
      <3>2. t # "/DOCNO"  BY <2>2 DEF Tags
      <3>3. r = AfterWord(s, t)  BY <2>2 DEF After
      <3> QED  BY <1>6, <3>1, <3>2, <3>3 DEF AfterWord, ScanOK, Scans
    <2> QED  BY <2>1, <2>2
  <1>9. CASE t = "/DOCNO"
    <2>1. NewTrecDocument(s.titlebuf) # NoDoc
      <3>1. NewTrecDocument(s.titlebuf) \in Documents
        BY DEF ScanOK, Scans, NewTrecDocument, Documents
      <3> QED  BY <3>1, NoDocAssumption
    <2>2. r.doc = DocumentAt(file, i + 1)
      BY <1>8, <1>9, DocumentBegins DEF ScanAt
    <2>3. r.doc # NoDoc /\ Named(file, i + 1)  BY <1>7, <1>8, <1>9, <2>1
    <2>4. ScanAt(file, i + 1, r)
      <3> HIDE DEF r
      <3> QED  BY <1>1, <1>4, <1>5, <2>2, <2>3 DEF ScanAt
    <2> QED  BY <2>4
  <1>10. CASE t # "/DOCNO" /\ Named(file, i)
    <2>1. s.doc = DocumentAt(file, i) /\ s.doc # NoDoc  BY <1>10 DEF ScanAt
    <2>2. r.doc = DocumentAt(file, i + 1)
      BY <1>8, <1>10, <2>1, DocumentNext
    <2>3. r.doc # NoDoc
      <3>1. s.doc \in Documents  BY <2>1 DEF ScanOK, Scans
      <3>2. t \in Words \cup Symbols => [s.doc EXCEPT !.tokens = Append(@, t)] \in Documents
        <4> SUFFICES ASSUME t \in Words \cup Symbols
                     PROVE  [s.doc EXCEPT !.tokens = Append(@, t)] \in Documents
          OBVIOUS
        <4>1. s.doc.tokens \in Seq(Words \cup Symbols)  BY <3>1 DEF Documents
        <4>2. Append(s.doc.tokens, t) \in Seq(Words \cup Symbols)  BY <4>1
        <4> QED  BY <3>1, <4>2 DEF Documents
      <3>3. r.doc \in Documents
        <4> HIDE DEF r
        <4> QED  BY <1>6, <1>8, <1>10, <3>1, <3>2
      <3> QED  BY <3>3, NoDocAssumption
    <2>4. ScanAt(file, i + 1, r)
      <3> HIDE DEF r
      <3> QED  BY <1>1, <1>4, <1>5, <1>7, <1>10, <2>2, <2>3 DEF ScanAt
    <2> QED  BY <2>4
  <1>11. CASE t # "/DOCNO" /\ ~Named(file, i)
    <2>1. s.doc = NoDoc /\ ~s.in_text  BY <1>11 DEF ScanAt, ScanOK
    <2>2. r.doc = NoDoc  BY <1>6, <1>8, <1>11, <2>1
    <2>3. ScanAt(file, i + 1, r)
      <3> HIDE DEF r
      <3> QED  BY <1>1, <1>4, <1>5, <1>7, <1>11, <2>2 DEF ScanAt
    <2> QED  BY <2>3
  <1> QED  BY <1>9, <1>10, <1>11
-----------------------------------------------------------------------------
(* Documents leave a file in their order.                                   *)

LEMMA GivenNone == ASSUME NEW file \in Seq(Tokens) PROVE Given(file, 0) = <<>>
  <1>1. {i \in EndsOf(file) : i <= 0} = {}
    <2>1. \A i \in EndsOf(file) : i \in Nat \ {0}  BY DEF EndsOf
    <2>2. \A i \in EndsOf(file) : ~(i <= 0)  BY <2>1
    <2> QED  BY <2>2
  <1> QED  BY <1>1, AtEmpty DEF Given

\* A token that does not end a document adds none; one that ends a document,
\* with no fault so far, adds that.
LEMMA GivenSame ==
    ASSUME NEW file \in Seq(Tokens), NEW p \in Nat, file[p + 1] # "/DOC"
    PROVE  Given(file, p + 1) = Given(file, p)
  <1>1. \A i \in EndsOf(file) : i \in Nat /\ i # p + 1  BY DEF EndsOf
  <1>2. \A i \in EndsOf(file) : i <= p + 1 <=> i <= p  BY <1>1
  <1>3. {i \in EndsOf(file) : i <= p + 1} = {i \in EndsOf(file) : i <= p}  BY <1>2
  <1> QED  BY <1>3 DEF Given

LEMMA GivenNext ==
    ASSUME NEW file \in Seq(Tokens), NEW p \in Nat, p < Len(file),
           file[p + 1] = "/DOC", \A j \in 1 .. p + 1 : ~FaultAt(file, j)
    PROVE  /\ Given(file, p) \in Seq({DocumentAt(file, i) : i \in DOMAIN file})
           /\ Given(file, p + 1) = Append(Given(file, p), DocumentAt(file, p + 1))
  <1> DEFINE a == [i \in DOMAIN file |-> DocumentAt(file, i)]
             V == {DocumentAt(file, i) : i \in DOMAIN file}
             S == {i \in EndsOf(file) : i <= p}
  <1>1. \A i \in EndsOf(file) : i \in DOMAIN file /\ i \in Nat \ {0}  BY DEF EndsOf
  <1>2. p + 1 \in DOMAIN file  OBVIOUS
  <1>3. p + 1 \in EndsOf(file)  BY <1>2 DEF EndsOf
  <1>4. {i \in EndsOf(file) : i <= p + 1} = S \cup {p + 1}
    <2>1. \A i \in EndsOf(file) : i <= p + 1 <=> i <= p \/ i = p + 1  BY <1>1
    <2>2. p + 1 <= p + 1  OBVIOUS
    <2> QED  BY <1>3, <2>1, <2>2
  <1>5. S \in SUBSET (1 .. p)  BY <1>1
  <1>6. \A i \in S \cup {p + 1} : i \in DOMAIN file  BY <1>1, <1>2
  <1>7. \A i \in S \cup {p + 1} : a[i] \in V  BY <1>6
  <1>8. a[p + 1] = DocumentAt(file, p + 1)  BY <1>2
  <1>9. Given(file, p) = At(a, S)  BY DEF Given
  <1>10. Given(file, p + 1) = At(a, S \cup {p + 1})  BY <1>4 DEF Given
  <1> HIDE DEF a, S, V
  <1>11. At(a, S \cup {p + 1}) = Append(At(a, S), a[p + 1])
    BY <1>5, <1>7, AtAppend
  <1>12. At(a, S) \in Seq(V)  BY <1>5, <1>7, AtType
  <1> QED  BY <1>8, <1>9, <1>10, <1>11, <1>12 DEF V

\* Of a file's documents, those that end so far are the first.
LEMMA GivenPrefix ==
    ASSUME NEW file \in Seq(Tokens), NEW p \in Nat
    PROVE  LET docs == DocsOf(file)
               given == Given(file, p)
               V == {DocumentAt(file, i) : i \in DOMAIN file}
           IN  /\ docs \in Seq(V) /\ given \in Seq(V) /\ Len(given) <= Len(docs)
               /\ \A k \in 1 .. Len(given) : given[k] = docs[k]
               /\ p = Len(file) => given = docs
  <1> DEFINE a == [i \in DOMAIN file |-> DocumentAt(file, i)]
             V == {DocumentAt(file, i) : i \in DOMAIN file}
             S == EndsOf(file)
             Q == {i \in S : i <= p}
             n == Len(file)
  <1>1. n \in Nat /\ DOMAIN file = 1 .. n  OBVIOUS
  <1>2. S \in SUBSET (1 .. n)  BY <1>1 DEF EndsOf
  <1>3. Q \in SUBSET (1 .. n)  BY <1>2
  <1>4. \A i \in S : a[i] \in V  BY <1>1, <1>2
  <1>5. \A i \in Q : a[i] \in V  BY <1>4
  <1>6. DocsOf(file) = At(a, S) /\ Given(file, p) = At(a, Q)  BY DEF DocsOf, Given
  <1>7. p = n => Q = S  BY <1>1, <1>2
  <1>8. /\ Cardinality(Q) <= Cardinality(S)
        /\ \A k \in 1 .. Cardinality(Q) : At(a, Q)[k] = At(a, S)[k]
    <2>1. p \in Int  OBVIOUS
    <2> HIDE DEF a, S, n
    <2> QED  BY <1>1, <1>2, <2>1, AtPrefix
  <1> HIDE DEF a, S, V, Q, n
  <1>9. At(a, S) \in Seq(V) /\ Len(At(a, S)) = Cardinality(S)
    BY <1>1, <1>2, <1>4, AtType
  <1>10. At(a, Q) \in Seq(V) /\ Len(At(a, Q)) = Cardinality(Q)
    BY <1>1, <1>3, <1>5, AtType
  <1> QED  BY <1>6, <1>7, <1>8, <1>9, <1>10 DEF V, n

\* What is inserted of one file leaves the others alone.
LEMMA FromType ==
    ASSUME TypeOK, NEW f \in Files PROVE From(f) \in Seq(Documents)
  <1> DEFINE a == [i \in DOMAIN inserted |-> inserted[i][2]]
             S == {i \in DOMAIN inserted : inserted[i][1] = f}
             n == Len(inserted)
  <1>1. inserted \in Seq(Files \X Documents)  BY DEF TypeOK
  <1>2. n \in Nat /\ DOMAIN inserted = 1 .. n  BY <1>1
  <1>3. \A i \in S : a[i] \in Documents  BY <1>1, <1>2
  <1>4. S \in SUBSET (1 .. n)  BY <1>2
  <1>5. From(f) = At(a, S)  BY DEF From
  <1> HIDE DEF a, S, n
  <1> QED  BY <1>2, <1>3, <1>4, <1>5, AtType

LEMMA FromAppend ==
    ASSUME TypeOK, NEW f \in Files, NEW d \in Documents, NEW g \in Files,
           inserted' = Append(inserted, <<f, d>>)
    PROVE  From(g)' = IF g = f THEN Append(From(g), d) ELSE From(g)
  <1> DEFINE a == [i \in DOMAIN inserted |-> inserted[i][2]]
             b == [i \in DOMAIN inserted' |-> inserted'[i][2]]
             S == {i \in DOMAIN inserted : inserted[i][1] = g}
             Q == {i \in DOMAIN inserted' : inserted'[i][1] = g}
             n == Len(inserted)
  <1>1. inserted \in Seq(Files \X Documents)  BY DEF TypeOK
  <1>2. n \in Nat /\ DOMAIN inserted = 1 .. n  BY <1>1
  <1>3. /\ DOMAIN inserted' = 1 .. n + 1
        /\ \A i \in 1 .. n : inserted'[i] = inserted[i]
        /\ inserted'[n + 1] = <<f, d>>
    BY <1>1, <1>2
  <1>4. S \in SUBSET (1 .. n)  BY <1>2
  <1>5. \A i \in S : a[i] = b[i]  BY <1>2, <1>3
  <1>6. \A i : i \in 1 .. n + 1 <=> i \in 1 .. n \/ i = n + 1  BY <1>2
  <1>7. Q = IF g = f THEN S \cup {n + 1} ELSE S
    <2>1. \A i : i \in Q <=> i \in S \/ (i = n + 1 /\ f = g)
      BY <1>2, <1>3, <1>6
    <2>2. CASE g = f  BY <2>1, <2>2
    <2>3. CASE g # f  BY <2>1, <2>3
    <2> QED  BY <2>2, <2>3
  <1>8. \A i \in S : a[i] \in Documents  BY <1>1, <1>2
  <1>9. b[n + 1] = d  BY <1>2, <1>3
  <1>10. From(g) = At(a, S) /\ From(g)' = At(b, Q)  BY DEF From
  <1> HIDE DEF a, b, S, Q, n
  <1>11. At(a, S) = At(b, S)  BY <1>2, <1>4, <1>5, AtSame
  <1>12. CASE g = f
    <2>1. \A i \in S \cup {n + 1} : b[i] \in Documents  BY <1>5, <1>8, <1>9
    <2>2. At(b, S \cup {n + 1}) = Append(At(b, S), b[n + 1])
      BY <1>2, <1>4, <2>1, AtAppend
    <2> QED  BY <1>7, <1>9, <1>10, <1>11, <1>12, <2>2
  <1>13. CASE g # f  BY <1>7, <1>10, <1>11, <1>13
  <1> QED  BY <1>12, <1>13

LEMMA FromSame ==
    ASSUME inserted' = inserted, NEW f \in Files PROVE From(f)' = From(f)
  BY DEF From

\* A step that leaves a file alone.
LEMMA FileSame ==
    ASSUME NEW f \in Files, FileInv(f), tree' = tree, pos'[f] = pos[f],
           scan'[f] = scan[f], reader'[f] = reader[f], worker'[f] = worker[f],
           passing'[f] = passing[f], From(f)' = From(f)
    PROVE  FileInv(f)'
  <1>1. Parsed(f)' = Parsed(f) /\ Passing(f)' = Passing(f)  BY DEF Parsed, Passing
  <1>2. ReadInv(f)'  BY DEF FileInv, ReadInv
  <1> QED  BY <1>1, <1>2 DEF FileInv
-----------------------------------------------------------------------------
(* Every step keeps OrderInv and WalkInv.                                   *)

LEMMA ReadFileOrder == ASSUME JInv, IInv', read_file PROVE OrderInv' /\ WalkInv'
  <1> DEFINE f == walked + 1
  <1>1. /\ main = "walk" /\ walked < N /\ walked' = f
        /\ UNCHANGED <<tree, main, passing, pos, scan, closed, inserted>>
    BY DEF read_file
  <1>2. f \in Files /\ walked \in Nat
    BY <1>1, NAssumption DEF JInv, IInv, TypeOK, Files
  <1>3. worker[f] = "unborn" /\ reader[f] = "unborn"
    <2>1. f > walked  BY <1>2
    <2> QED  BY <1>2, <2>1 DEF JInv, IInv, LifeInv
  <1>4. tree[f].kind \in {"skipped", "locked", "file"}
    BY <1>2, TreeType DEF JInv, IInv, TypeOK
  <1>5. \A g \in Files : FileInv(g) /\ From(g)' = From(g)
    BY <1>1, FromSame DEF JInv, OrderInv
  <1>6. /\ \A g \in Files : g # f => worker'[g] = worker[g] /\ reader'[g] = reader[g]
        /\ IF tree[f].kind = "file" THEN worker'[f] = "receive" /\ reader'[f] = "read"
           ELSE worker'[f] = worker[f] /\ reader'[f] = reader[f]
    <2>1. CASE tree[f].kind = "file"
      <3>1. /\ worker' = [worker EXCEPT ![f] = "receive"]
            /\ reader' = [reader EXCEPT ![f] = "read"]
        BY <1>1, <2>1 DEF read_file
      <3> HIDE DEF f
      <3> QED  BY <1>2, <2>1, <3>1 DEF JInv, IInv, TypeOK
    <2>2. CASE tree[f].kind # "file"
      <3>1. UNCHANGED <<worker, reader>>  BY <1>1, <1>4, <2>2 DEF read_file
      <3> QED  BY <2>2, <3>1
    <2> QED  BY <2>1, <2>2
  <1> HIDE DEF f
  <1>7. ASSUME NEW g \in Files PROVE FileInv(g)'
    <2>1. CASE g # f \/ tree[f].kind # "file"
      <3>1. worker'[g] = worker[g] /\ reader'[g] = reader[g]  BY <1>6, <2>1
      <3> QED  BY <1>1, <1>5, <3>1, FileSame
    <2>2. CASE g = f /\ tree[f].kind = "file"
      <3>1. /\ worker'[g] = "receive" /\ reader'[g] = "read"
            /\ worker[g] = "unborn" /\ reader[g] = "unborn"
        BY <1>3, <1>6, <2>2
      <3>2. pos[g] = 0 /\ scan[g] = Fresh
        BY <1>5, <3>1 DEF FileInv, ReadInv
      <3>3. ScanAt(tree[g].tokens, pos[g] + 1, scan[g])
        <4>1. ScanAt(tree[g].tokens, 1, Fresh)  BY ScanFresh
        <4>2. pos[g] + 1 = 1  BY <3>2
        <4> QED  BY <3>2, <4>1, <4>2
      <3>4. ReadInv(g)'  BY <1>1, <1>5, <3>1, <3>3 DEF FileInv, ReadInv
      <3>5. Parsed(g)' = Parsed(g) /\ Passing(g)' = Passing(g)
        BY <3>1 DEF Parsed, Passing
      <3> QED  BY <1>1, <1>5, <3>4, <3>5 DEF FileInv
    <2> QED  BY <2>1, <2>2
  <1>8. WalkInv'
    <2>1. ASSUME NEW g \in Files, g <= walked', tree[g].kind = "file"
          PROVE  reader'[g] # "unborn"
      <3>1. CASE g = f  BY <1>6, <2>1, <3>1
      <3>2. CASE g # f
        <4>1. g <= walked  BY <1>1, <1>2, <2>1, <3>2 DEF f, Files
        <4> QED  BY <1>6, <2>1, <3>2, <4>1 DEF JInv, WalkInv
      <3> QED  BY <3>1, <3>2
    <2> QED  BY <1>1, <2>1 DEF WalkInv
  <1> QED  BY <1>7, <1>8 DEF OrderInv

\* EndWalk and EndLoop.
LEMMA MainOrder == ASSUME JInv, IInv', EndWalk \/ EndLoop PROVE OrderInv' /\ WalkInv'
  <1>1. UNCHANGED <<tree, walked, worker, passing, reader, pos, scan, inserted>>
    BY DEF EndWalk, EndLoop, workers, readers
  <1>2. OrderInv'
    <2> SUFFICES ASSUME NEW g \in Files PROVE FileInv(g)'  BY DEF OrderInv
    <2>1. FileInv(g) /\ From(g)' = From(g)
      BY <1>1, FromSame DEF JInv, OrderInv
    <2> QED  BY <1>1, <2>1, FileSame
  <1>3. walked' = N /\ (main' = "done" => closed')
    BY DEF EndWalk, EndLoop, JInv, WalkInv
  <1> QED  BY <1>1, <1>2, <1>3 DEF JInv, WalkInv

\* A step of one file's reader or worker leaves the others and Run alone.
LEMMA OneFile ==
    ASSUME JInv, NEW f \in Files, FileInv(f)',
           UNCHANGED <<tree, walked, main>>, closed => closed', reader'[f] # "unborn",
           \A g \in Files : g # f =>
             /\ pos'[g] = pos[g] /\ scan'[g] = scan[g] /\ reader'[g] = reader[g]
             /\ worker'[g] = worker[g] /\ passing'[g] = passing[g]
             /\ From(g)' = From(g)
    PROVE  OrderInv' /\ WalkInv'
  <1>1. \A g \in Files : FileInv(g)'
    <2> SUFFICES ASSUME NEW g \in Files, g # f PROVE FileInv(g)'  OBVIOUS
    <2>1. FileInv(g)  BY DEF JInv, OrderInv
    <2> QED  BY <2>1, FileSame
  <1>2. \A g \in Files : reader[g] # "unborn" => reader'[g] # "unborn"  OBVIOUS
  <1> QED  BY <1>1, <1>2 DEF OrderInv, JInv, WalkInv

LEMMA ReadTokenOrder ==
    ASSUME JInv, IInv', NEW f \in Files, ReadToken(f) PROVE OrderInv' /\ WalkInv'
  <1> DEFINE file == tree[f].tokens
             t == token(f)
  <1>1. /\ reader[f] = "read" /\ HasToken(f) /\ t # "/DOC"
        /\ ~Panics(scan[f], t)
        /\ scan' = [scan EXCEPT ![f] = After(scan[f], t)]
        /\ pos' = [pos EXCEPT ![f] = pos[f] + 1]
        /\ UNCHANGED <<tree, walked, main, worker, passing, reader, closed, inserted>>
    BY DEF ReadToken, Reads, workers
  <1>2. t \in Tokens /\ t # "endless"  BY <1>1, TokenType DEF JInv, IInv
  <1>3. /\ pos[f] \in Nat /\ pos'[f] = pos[f] + 1 /\ scan'[f] = After(scan[f], t)
        /\ \A g \in Files : g # f => pos'[g] = pos[g] /\ scan'[g] = scan[g]
    BY <1>1 DEF JInv, IInv, TypeOK
  <1>4. FileInv(f) /\ ReadInv(f)  BY DEF JInv, OrderInv, FileInv
  <1>5. file[pos[f] + 1] = t /\ pos[f] < Len(file) /\ file \in Seq(Tokens)
    BY <1>1, TreeType DEF HasToken, token, JInv, IInv, TypeOK
  <1>6. ScanOK(scan[f])  BY DEF JInv, IInv, ScanInv
  <1>7. ScanAt(file, pos[f] + 1, scan[f])  BY <1>1, <1>4 DEF ReadInv
  <1> HIDE DEF file, t
  <1>8. ScanAt(file, pos[f] + 1 + 1, After(scan[f], t))
    <2>1. pos[f] + 1 \in Nat \ {0}  BY <1>3
    <2> QED  BY <1>1, <1>2, <1>5, <1>6, <1>7, <2>1, ScanNext
  <1>9. ~FaultAt(file, pos[f] + 1)  BY <1>1, <1>2, <1>5, <1>7, FaultPanics
  <1>10. ReadInv(f)'
    <2>1. \A j \in 1 .. pos[f] + 1 : ~FaultAt(file, j)
      <3>1. \A j \in 1 .. pos[f] : ~FaultAt(file, j)  BY <1>4 DEF ReadInv, file
      <3>2. \A j \in 1 .. pos[f] + 1 : j \in 1 .. pos[f] \/ j = pos[f] + 1
        BY <1>3
      <3> QED  BY <1>9, <3>1, <3>2
    <2>2. pos[f] + 1 <= Len(file)  BY <1>3, <1>5
    <2>3. reader'[f] = "read" /\ file' = file  BY <1>1 DEF file
    <2> QED  BY <1>3, <1>8, <2>1, <2>2, <2>3 DEF ReadInv, file
  <1>11. FileInv(f)'
    <2>1. From(f)' = From(f)  BY <1>1, FromSame
    <2>2. Passing(f)' = Passing(f) /\ Parsed(f)' = Parsed(f)
      BY <1>1 DEF Passing, Parsed
    <2>3. Given(file, pos[f] + 1) = Given(file, pos[f])
      BY <1>1, <1>3, <1>5, GivenSame
    <2>4. Given(tree[f].tokens, pos[f])' = Given(tree[f].tokens, pos[f])
      BY <1>1, <1>3, <2>3 DEF file
    <2> QED  BY <1>4, <1>10, <2>1, <2>2, <2>4 DEF FileInv
  <1>12. \A g \in Files : From(g)' = From(g)  BY <1>1, FromSame
  <1> QED  BY <1>1, <1>3, <1>11, <1>12, OneFile

LEMMA EndDocumentOrder ==
    ASSUME JInv, IInv', NEW f \in Files, EndDocument(f) PROVE OrderInv' /\ WalkInv'
  <1> DEFINE file == tree[f].tokens
             d == scan[f].doc
  <1>1. /\ reader[f] = "read" /\ HasToken(f) /\ token(f) = "/DOC"
        /\ ~Panics(scan[f], token(f))
        /\ pos' = [pos EXCEPT ![f] = pos[f] + 1]
        /\ reader' = [reader EXCEPT ![f] = "send"]
        /\ UNCHANGED <<tree, walked, main, worker, passing, scan, closed, inserted>>
    BY DEF EndDocument, Reads, workers
  <1>2. /\ pos[f] \in Nat /\ pos'[f] = pos[f] + 1 /\ reader'[f] = "send"
        /\ \A g \in Files : g # f => pos'[g] = pos[g] /\ reader'[g] = reader[g]
    BY <1>1 DEF JInv, IInv, TypeOK
  <1>3. FileInv(f) /\ ReadInv(f)  BY DEF JInv, OrderInv, FileInv
  <1>4. file[pos[f] + 1] = "/DOC" /\ pos[f] < Len(file) /\ file \in Seq(Tokens)
    BY <1>1, TreeType DEF HasToken, token, JInv, IInv, TypeOK
  <1>5. ScanAt(file, pos[f] + 1, scan[f])  BY <1>1, <1>3 DEF ReadInv
  <1>6. ~FaultAt(file, pos[f] + 1)
    BY <1>1, <1>4, <1>5, FaultPanics
  <1>7. d = DocumentAt(file, pos[f] + 1)
    <2>1. d # NoDoc  BY <1>1 DEF Panics
    <2> QED  BY <1>5, <2>1 DEF ScanAt
  <1> HIDE DEF file, d
  <1>8. \A j \in 1 .. pos[f] + 1 : ~FaultAt(file, j)
    <2>1. \A j \in 1 .. pos[f] : ~FaultAt(file, j)  BY <1>3 DEF ReadInv, file
    <2>2. \A j \in 1 .. pos[f] + 1 : j \in 1 .. pos[f] \/ j = pos[f] + 1  BY <1>2
    <2> QED  BY <1>6, <2>1, <2>2
  <1>9. ReadInv(f)'
    <2>1. pos[f] + 1 <= Len(file) /\ pos[f] + 1 # 0  BY <1>2, <1>4
    <2>2. file' = file /\ d' = d  BY <1>1 DEF file, d
    <2> QED  BY <1>2, <1>4, <1>7, <1>8, <2>1, <2>2 DEF ReadInv, file, d
  <1>10. FileInv(f)'
    <2>1. From(f)' = From(f)  BY <1>1, FromSame
    <2>2. Passing(f)' = Passing(f) /\ Parsed(f)' = <<d>> /\ Parsed(f) = <<>>
      BY <1>1, <1>2 DEF Passing, Parsed, d
    <2> DEFINE V == {DocumentAt(file, i) : i \in DOMAIN file}
    <2>3. /\ Given(file, pos[f]) \in Seq(V)
          /\ Given(file, pos[f] + 1) = Append(Given(file, pos[f]), d)
      BY <1>2, <1>4, <1>7, <1>8, GivenNext
    <2>4. From(f) \o Passing(f) \o <<>> = Given(file, pos[f])
      BY <1>3, <2>2 DEF FileInv, file
    <2>5. From(f) \in Seq(Documents) /\ Passing(f) \in Seq(Documents)
      BY FromType DEF JInv, IInv, ScanInv, Passing
    <2>6. From(f) \o Passing(f) \o <<d>> = Append(From(f) \o Passing(f) \o <<>>, d)
      <3> DEFINE x == From(f) \o Passing(f)
      <3>1. x \in Seq(Documents)  BY <2>5
      <3> HIDE DEF x
      <3>2. x \o <<>> = x  BY <3>1
      <3>3. x \o <<d>> = Append(x, d)
        <4>1. d \in Documents  BY <1>1 DEF JInv, IInv, TypeOK, Scans, Panics, d
        <4> QED  BY <3>1, <4>1
      <3> QED  BY <3>2, <3>3 DEF x
    <2>7. Given(tree[f].tokens, pos[f])' = Given(file, pos[f] + 1)
      BY <1>1, <1>2 DEF file
    <2> QED  BY <1>9, <2>1, <2>2, <2>3, <2>4, <2>6, <2>7 DEF FileInv
  <1>11. \A g \in Files : From(g)' = From(g)  BY <1>1, FromSame
  <1> QED  BY <1>1, <1>2, <1>10, <1>11, OneFile

\* ReaderRecovers and EndFile.
LEMMA ReaderEndsOrder ==
    ASSUME JInv, IInv', NEW f \in Files, ReaderRecovers(f) \/ EndFile(f)
    PROVE  OrderInv' /\ WalkInv'
  <1>1. PICK r \in {"closed", "recovered"} :
           /\ reader[f] = "read" /\ reader' = [reader EXCEPT ![f] = r]
           /\ r = "closed" => pos[f] = Len(tree[f].tokens)
           /\ UNCHANGED <<tree, walked, main, worker, passing, pos, scan, closed,
                          inserted>>
    BY DEF ReaderRecovers, EndFile, Reads, workers
  <1>2. /\ reader'[f] = r /\ \A g \in Files : g # f => reader'[g] = reader[g]
    BY <1>1 DEF JInv, IInv, TypeOK
  <1>3. FileInv(f)  BY DEF JInv, OrderInv
  <1>4. \A g \in Files : From(g)' = From(g)  BY <1>1, FromSame
  <1>5. FileInv(f)'
    <2>1. ReadInv(f)'  BY <1>1, <1>2, <1>3 DEF FileInv, ReadInv
    <2>2. Passing(f)' = Passing(f) /\ Parsed(f)' = Parsed(f)
      BY <1>1, <1>2 DEF Passing, Parsed
    <2> QED  BY <1>1, <1>3, <1>4, <2>1, <2>2 DEF FileInv
  <1> QED  BY <1>1, <1>2, <1>4, <1>5, OneFile

LEMMA HandOverOrder ==
    ASSUME JInv, IInv', NEW f \in Files, HandOver(f) PROVE OrderInv' /\ WalkInv'
  <1> DEFINE file == tree[f].tokens
             d == scan[f].doc
  <1>1. /\ reader[f] = "send" /\ worker[f] = "receive"
        /\ passing' = [passing EXCEPT ![f] = d]
        /\ worker' = [worker EXCEPT ![f] = "send"]
        /\ reader' = [reader EXCEPT ![f] = "read"]
        /\ scan' = [scan EXCEPT ![f] = Fresh]
        /\ UNCHANGED <<tree, walked, main, pos, closed, inserted>>
    BY DEF HandOver
  <1>2. /\ passing'[f] = d /\ worker'[f] = "send" /\ reader'[f] = "read"
        /\ scan'[f] = Fresh
        /\ \A g \in Files : g # f =>
             /\ passing'[g] = passing[g] /\ worker'[g] = worker[g]
             /\ reader'[g] = reader[g] /\ scan'[g] = scan[g]
    BY <1>1 DEF JInv, IInv, TypeOK
  <1>3. FileInv(f) /\ ReadInv(f) /\ pos[f] \in Nat
    BY DEF JInv, IInv, TypeOK, OrderInv, FileInv
  <1>4. \A g \in Files : From(g)' = From(g)  BY <1>1, FromSame
  <1>5. ReadInv(f)'
    <2>1. ScanAt(file, pos[f] + 1, Fresh)
      <3>1. pos[f] + 1 \in Nat \ {0} /\ (pos[f] + 1) - 1 = pos[f]  BY <1>3
      <3>2. file[(pos[f] + 1) - 1] = "/DOC"  BY <1>1, <1>3, <3>1 DEF ReadInv
      <3> QED  BY <3>1, <3>2, ScanFresh
    <2> QED  BY <1>1, <1>2, <1>3, <2>1 DEF ReadInv
  <1>6. FileInv(f)'
    <2>1. Passing(f) = <<>> /\ Parsed(f) = <<d>> /\ Passing(f)' = <<d>> /\ Parsed(f)' = <<>>
      BY <1>1, <1>2 DEF Passing, Parsed
    <2>2. From(f) \in Seq(Documents) /\ d \in Documents
      BY <1>1, FromType DEF JInv, IInv, ScanInv
    <2> HIDE DEF d
    <2>3. (From(f) \o <<>>) \o <<d>> = (From(f) \o <<d>>) \o <<>>
      <3> DEFINE x == From(f)
      <3>1. x \in Seq(Documents) /\ <<d>> \in Seq(Documents)  BY <2>2
      <3> HIDE DEF x
      <3>2. x \o <<>> = x /\ x \o <<d>> \in Seq(Documents)  BY <3>1
      <3>3. (x \o <<d>>) \o <<>> = x \o <<d>>  BY <3>2
      <3> QED  BY <3>2, <3>3 DEF x
    <2> QED  BY <1>1, <1>3, <1>4, <1>5, <2>1, <2>3 DEF FileInv
  <1> QED  BY <1>1, <1>2, <1>4, <1>6, OneFile

LEMMA InsertOrder ==
    ASSUME JInv, IInv', NEW f \in Files, Insert(f) PROVE OrderInv' /\ WalkInv'
  <1> DEFINE d == passing[f]
  <1>1. worker[f] = "send" /\ f \in Alive  BY DEF Insert, Alive
  <1>2. ~closed  BY <1>1 DEF JInv, IInv, CloseInv
  <1>3. /\ inserted' = Append(inserted, <<f, d>>)
        /\ worker' = [worker EXCEPT ![f] = "receive"]
        /\ UNCHANGED <<tree, walked, main, passing, reader, pos, scan, closed>>
    BY <1>2 DEF Insert, readers
  <1>4. worker'[f] = "receive" /\ \A g \in Files : g # f => worker'[g] = worker[g]
    BY <1>3 DEF JInv, IInv, TypeOK
  <1>5. d \in Documents  BY <1>1 DEF JInv, IInv, ScanInv
  <1>6. FileInv(f)  BY DEF JInv, OrderInv
  <1>7. \A g \in Files : From(g)' = IF g = f THEN Append(From(g), d) ELSE From(g)
    <2> HIDE DEF d
    <2> QED  BY <1>3, <1>5, FromAppend DEF JInv, IInv
  <1>8. reader[f] # "unborn"  BY <1>1 DEF JInv, IInv, LifeInv
  <1>9. FileInv(f)'
    <2>1. ReadInv(f)'  BY <1>3, <1>6 DEF FileInv, ReadInv
    <2>2. /\ Passing(f) = <<d>> /\ Passing(f)' = <<>> /\ Parsed(f)' = Parsed(f)
          /\ From(f)' = Append(From(f), d)
      BY <1>1, <1>3, <1>4, <1>7 DEF Passing, Parsed
    <2>3. From(f) \in Seq(Documents)  BY FromType DEF JInv, IInv
    <2> HIDE DEF d
    <2>4. Append(From(f), d) \o <<>> = From(f) \o <<d>>
      <3> DEFINE x == From(f)
      <3>1. x \in Seq(Documents)  BY <2>3
      <3> HIDE DEF x
      <3>2. Append(x, d) \in Seq(Documents) /\ Append(x, d) = x \o <<d>>
        BY <1>5, <3>1
      <3>3. Append(x, d) \o <<>> = Append(x, d)  BY <3>2
      <3> QED  BY <3>2, <3>3 DEF x
    <2> QED  BY <1>3, <1>6, <2>1, <2>2, <2>4 DEF FileInv
  <1> QED  BY <1>3, <1>4, <1>7, <1>8, <1>9, OneFile

\* EndRange and Report.
LEMMA WorkerEndsOrder ==
    ASSUME JInv, IInv', NEW f \in Files, EndRange(f) \/ Report(f)
    PROVE  OrderInv' /\ WalkInv'
  <1>1. PICK w \in {"report", "gone"} :
           /\ worker[f] \in {"receive", "report"}
           /\ worker' = [worker EXCEPT ![f] = w]
           /\ UNCHANGED <<tree, walked, main, passing, reader, pos, scan, inserted>>
    BY DEF EndRange, Report, readers
  <1>2. closed => closed'  BY DEF EndRange, Report, Close
  <1>3. worker'[f] = w /\ \A g \in Files : g # f => worker'[g] = worker[g]
    BY <1>1 DEF JInv, IInv, TypeOK
  <1>4. FileInv(f) /\ reader[f] # "unborn"
    BY <1>1 DEF JInv, IInv, LifeInv, OrderInv
  <1>5. \A g \in Files : From(g)' = From(g)  BY <1>1, FromSame
  <1>6. FileInv(f)'
    <2>1. ReadInv(f)'  BY <1>1, <1>4 DEF FileInv, ReadInv
    <2>2. Passing(f)' = Passing(f) /\ Parsed(f)' = Parsed(f)
      BY <1>1, <1>3 DEF Passing, Parsed
    <2> QED  BY <1>1, <1>4, <1>5, <2>1, <2>2 DEF FileInv
  <1> QED  BY <1>1, <1>2, <1>3, <1>4, <1>5, <1>6, OneFile

LEMMA InitOrder == Init => OrderInv /\ WalkInv
  <1> SUFFICES ASSUME Init PROVE OrderInv /\ WalkInv  OBVIOUS
  <1>1. IInv  BY InitOK
  <1>2. ASSUME NEW f \in Files PROVE FileInv(f)
    <2>1. /\ reader[f] = "unborn" /\ worker[f] = "unborn" /\ pos[f] = 0
          /\ scan[f] = Fresh /\ inserted = <<>>
      BY DEF Init
    <2>2. tree[f].tokens \in Seq(Tokens)  BY <1>1, TreeType DEF IInv, TypeOK
    <2>3. ReadInv(f)  BY <2>1, <2>2 DEF ReadInv
    <2>4. From(f) = <<>>
      <3>1. {i \in DOMAIN inserted : inserted[i][1] = f} = {}
        <4>1. DOMAIN inserted = {}  BY <2>1
        <4> QED  BY <4>1
      <3> QED  BY <3>1, AtEmpty DEF From
    <2>5. Passing(f) = <<>> /\ Parsed(f) = <<>>  BY <2>1 DEF Passing, Parsed
    <2>6. Given(tree[f].tokens, pos[f]) = <<>>  BY <2>1, <2>2, GivenNone
    <2>7. (<<>> \o <<>>) \o <<>> = <<>>  OBVIOUS
    <2> QED  BY <2>3, <2>4, <2>5, <2>6, <2>7 DEF FileInv
  <1>3. WalkInv  BY NAssumption DEF Init, WalkInv, Files
  <1> QED  BY <1>2, <1>3 DEF OrderInv
-----------------------------------------------------------------------------
(* The theorems.                                                            *)

LEMMA Invariance == Spec => []IInv
  <1>1. IInv /\ [Next]_vars => IInv'
    <2> SUFFICES ASSUME IInv, [Next]_vars PROVE IInv'  OBVIOUS
    <2>1. CASE Run
      BY <2>1, ReadFileStep, EndWalkStep, EndLoopStep DEF Run
    <2>2. ASSUME NEW f \in Files, ReaderRuns(f) PROVE IInv'
      BY <2>2, ReadTokenStep, EndDocumentStep, ReaderEndsStep DEF ReaderRuns
    <2>3. ASSUME NEW f \in Files, WorkerRuns(f) PROVE IInv'
      BY <2>3, HandOverStep, EndRangeStep, InsertStep, ReportStep DEF WorkerRuns
    <2>4. CASE UNCHANGED vars
      <3>1. UNCHANGED <<tree, walked, main, worker_count, signal, worker, passing,
                        reader, pos, scan, closed, panic, inserted>>
        BY <2>4 DEF vars, workers, readers
      <3>2. TypeOK'  BY <3>1 DEF IInv, TypeOK
      <3>3. ScanInv' /\ LifeInv'  BY <3>1 DEF IInv, ScanInv, LifeInv
      <3>4. CloseInv'
        <4>1. Alive' = Alive  BY <3>1 DEF Alive
        <4> QED  BY <3>1, <4>1, SameAlive DEF IInv, CloseInv
      <3> QED  BY <3>2, <3>3, <3>4 DEF IInv
    <2> QED  BY <2>1, <2>2, <2>3, <2>4 DEF Next
  <1> QED  BY InitOK, <1>1, PTL DEF Spec

\* Type correctness, for every tree; a document is handed on, and inserted,
\* only when its name was read (the reader's nil document goes nowhere).
THEOREM TypeCorrect == Spec => []TypeOK
  <1>1. IInv => TypeOK  BY DEF IInv
  <1> QED  BY Invariance, <1>1, PTL

\* For any number of files, whatever they contain and however the goroutines
\* interleave: WalkDocuments and signal_when_done close docStream once between
\* them, when all files were read to the end and no worker can send any more.
THEOREM ChannelClosedLast == Spec => []ClosedLast
  <1>1. IInv => ClosedLast
    <2> SUFFICES ASSUME IInv, closed, NEW f \in Files
                 PROVE  reader[f] \in {"unborn", "closed"}
                           /\ worker[f] \in {"unborn", "gone"}
      BY DEF ClosedLast, IInv, CloseInv
    <2>1. worker[f] \in {"unborn", "gone"}
      BY DEF IInv, CloseInv, TypeOK, Alive
    <2> QED  BY <2>1 DEF IInv, LifeInv
  <1> QED  BY Invariance, <1>1, PTL

LEMMA OrderInvariance == Spec => []JInv
  <1>1. Init => JInv  BY InitOK, InitOrder DEF JInv
  <1>2. JInv /\ IInv' /\ [Next]_vars => JInv'
    <2> SUFFICES ASSUME JInv, IInv', [Next]_vars PROVE OrderInv' /\ WalkInv'
      BY DEF JInv
    <2>1. CASE Run  BY <2>1, ReadFileOrder, MainOrder DEF Run
    <2>2. ASSUME NEW f \in Files, ReaderRuns(f) PROVE OrderInv' /\ WalkInv'
      BY <2>2, ReadTokenOrder, EndDocumentOrder, ReaderEndsOrder DEF ReaderRuns
    <2>3. ASSUME NEW f \in Files, WorkerRuns(f) PROVE OrderInv' /\ WalkInv'
      BY <2>3, HandOverOrder, InsertOrder, WorkerEndsOrder DEF WorkerRuns
    <2>4. CASE UNCHANGED vars
      <3>1. UNCHANGED <<tree, walked, main, worker, passing, reader, pos, scan,
                        closed, inserted>>
        BY <2>4 DEF vars, workers, readers
      <3>2. OrderInv'
        <4> SUFFICES ASSUME NEW g \in Files PROVE FileInv(g)'  BY DEF OrderInv
        <4>1. FileInv(g) /\ From(g)' = From(g)
          BY <3>1, FromSame DEF JInv, OrderInv
        <4> QED  BY <3>1, <4>1, FileSame
      <3>3. WalkInv'  BY <3>1 DEF JInv, WalkInv
      <3> QED  BY <3>2, <3>3
    <2> QED  BY <2>1, <2>2, <2>3, <2>4 DEF Next
  <1> QED  BY <1>1, <1>2, Invariance, PTL DEF Spec

\* What was inserted of a file is a prefix of what was read of it.
LEMMA FromFirst ==
    ASSUME TypeOK, NEW f \in Files, FileInv(f)
    PROVE  LET file == tree[f].tokens
               docs == DocsOf(file)
               from == From(f)
           IN  /\ from \in Seq(Documents) /\ docs \in Seq({docs[i] : i \in DOMAIN docs})
               /\ Len(from) <= Len(docs)
               /\ \A k \in 1 .. Len(from) : from[k] = docs[k]
  <1> DEFINE file == tree[f].tokens
             docs == DocsOf(file)
             given == Given(file, pos[f])
             x == From(f)
             y == Passing(f)
             z == Parsed(f)
             V == {DocumentAt(file, i) : i \in DOMAIN file}
  <1>1. file \in Seq(Tokens) /\ pos[f] \in Nat  BY TreeType DEF TypeOK
  <1>2. /\ docs \in Seq(V) /\ given \in Seq(V) /\ Len(given) <= Len(docs)
        /\ \A k \in 1 .. Len(given) : given[k] = docs[k]
    <2> HIDE DEF file
    <2> QED  BY <1>1, GivenPrefix
  <1>3. x \in Seq(Documents)  BY FromType
  <1>4. x \o y \o z = given  BY DEF FileInv
  <1> DEFINE W == Documents \cup {NoDoc}
  <1>6. x \in Seq(W) /\ y \in Seq(W) /\ z \in Seq(W)
    <2>1. scan[f].doc \in W /\ passing[f] \in W  BY DEF TypeOK, Scans
    <2> HIDE DEF W
    <2>2. y \in Seq(W) /\ z \in Seq(W)  BY <2>1 DEF Passing, Parsed
    <2>3. Documents \subseteq W  BY DEF W
    <2> HIDE DEF x
    <2>4. x \in Seq(W)  BY <1>3, <2>3
    <2> QED  BY <2>2, <2>4
  <1> HIDE DEF file, docs, given, x, y, z, V, W
  <1>7. Len(x) <= Len(given) /\ \A k \in 1 .. Len(x) : given[k] = x[k]
    <2>1. x \o y \in Seq(W) /\ Len(x \o y) = Len(x) + Len(y)  BY <1>6
    <2>2. \A k \in 1 .. Len(x) : (x \o y)[k] = x[k]  BY <1>6
    <2>3. Len(given) = Len(x \o y) + Len(z)  BY <1>4, <1>6, <2>1
    <2>4. \A k \in 1 .. Len(x \o y) : given[k] = (x \o y)[k]  BY <1>4, <1>6, <2>1
    <2>5. Len(x) \in Nat /\ Len(y) \in Nat /\ Len(z) \in Nat  BY <1>6
    <2> QED  BY <2>1, <2>2, <2>3, <2>4, <2>5
  <1>8. Len(x) \in Nat /\ Len(given) \in Nat /\ Len(docs) \in Nat  BY <1>2, <1>3
  <1>9. Len(x) <= Len(docs) /\ \A k \in 1 .. Len(x) : x[k] = docs[k]
    BY <1>2, <1>7, <1>8
  <1>10. docs \in Seq({docs[i] : i \in DOMAIN docs})  BY <1>2
  <1> QED  BY <1>3, <1>9, <1>10 DEF x, docs, file

\* For any number of files with any tokens, and however their readers and
\* workers interleave: what Run has inserted of a file are its first documents,
\* in their order, each once, with its own name and its own tokens.
THEOREM DocumentsInOrder == Spec => []InOrder
  <1>1. JInv => InOrder
    <2> SUFFICES ASSUME JInv, NEW f \in Files
                 PROVE  LET docs == DocsOf(tree[f].tokens)
                        IN  /\ Len(From(f)) <= Len(docs)
                            /\ From(f) = SubSeq(docs, 1, Len(From(f)))
      BY DEF InOrder
    <2> DEFINE docs == DocsOf(tree[f].tokens)
               x == From(f)
               V == {docs[i] : i \in DOMAIN docs}
    <2>1. FileInv(f) /\ TypeOK  BY DEF JInv, IInv, OrderInv
    <2>2. /\ x \in Seq(Documents) /\ docs \in Seq(V) /\ Len(x) <= Len(docs)
          /\ \A k \in 1 .. Len(x) : x[k] = docs[k]
      BY <2>1, FromFirst
    <2> HIDE DEF docs, x, V
    <2>3. Len(x) \in Nat /\ Len(docs) \in Nat  BY <2>2
    <2> DEFINE y == SubSeq(docs, 1, Len(x))
    <2>4. y \in Seq(V) /\ Len(y) = Len(x) /\ \A k \in 1 .. Len(x) : y[k] = docs[k]
      BY <2>2, <2>3
    <2> HIDE DEF y
    <2>5. x = y  BY <2>2, <2>3, <2>4
    <2> QED  BY <2>2, <2>5 DEF docs, x, y
  <1> QED  BY OrderInvariance, <1>1, PTL

\* When Run goes on to prune and to save, every document of every matching
\* file was inserted, and no file had a fault that would have cut it short.
THEOREM EveryDocumentIndexed == Spec => []AllIndexed
  <1>1. JInv => AllIndexed
    <2> SUFFICES ASSUME JInv, main = "done", NEW f \in Files, tree[f].kind = "file"
                 PROVE  /\ ~Faulty(tree[f].tokens)
                        /\ From(f) = DocsOf(tree[f].tokens)
      BY DEF AllIndexed
    <2> DEFINE file == tree[f].tokens
    <2>1. closed /\ walked = N  BY DEF JInv, WalkInv
    <2>2. reader[f] # "unborn"
      <3>1. f <= N  BY NAssumption DEF Files
      <3> QED  BY <2>1, <3>1 DEF JInv, WalkInv
    <2>3. worker[f] = "gone" /\ reader[f] = "closed"
      <3>1. worker[f] \notin {"receive", "send", "report"}
        BY <2>1 DEF JInv, IInv, CloseInv, Alive
      <3> QED  BY <2>2, <3>1 DEF JInv, IInv, TypeOK, LifeInv
    <2>4. FileInv(f) /\ ReadInv(f) /\ TypeOK  BY DEF JInv, IInv, OrderInv, FileInv
    <2>5. pos[f] = Len(file) /\ \A j \in 1 .. pos[f] : ~FaultAt(file, j)
      BY <2>3, <2>4 DEF ReadInv
    <2>6. file \in Seq(Tokens) /\ pos[f] \in Nat  BY <2>4, TreeType DEF TypeOK
    <2>7. ~Faulty(file)  BY <2>5, <2>6 DEF Faulty
    <2>8. Given(file, pos[f]) = DocsOf(file)
      <3> HIDE DEF file
      <3> QED  BY <2>5, <2>6, GivenPrefix
    <2>9. From(f) = Given(file, pos[f])
      <3>1. Passing(f) = <<>> /\ Parsed(f) = <<>>  BY <2>3 DEF Passing, Parsed
      <3>2. From(f) \in Seq(Documents)  BY <2>4, FromType
      <3>3. (From(f) \o <<>>) \o <<>> = From(f)
        <4> DEFINE x == From(f)
        <4>1. x \in Seq(Documents)  BY <3>2
        <4> HIDE DEF x
        <4>2. x \o <<>> = x  BY <4>1
        <4> QED  BY <4>2 DEF x
      <3> QED  BY <2>4, <3>1, <3>3 DEF FileInv
    <2> QED  BY <2>7, <2>8, <2>9
  <1> QED  BY OrderInvariance, <1>1, PTL
=============================================================================

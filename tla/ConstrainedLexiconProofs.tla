---------------------- MODULE ConstrainedLexiconProofs ----------------------
(***************************************************************************)
(* Proofs about ConstrainedLexicon for every value of its constants.       *)
(***************************************************************************)
EXTENDS ConstrainedLexicon, FiniteSetTheorems, SequenceTheorems, TLAPS

-----------------------------------------------------------------------------
(* Facts about the sequences and sets the model is built from.             *)

\* AddPLS: appending a container adds it and nothing else.
LEMMA AppendFacts ==
    ASSUME NEW S, NEW s \in Seq(S), NEW c \in S
    PROVE  /\ Append(s, c) \in Seq(S)
           /\ Range(Append(s, c)) = Range(s) \cup {c}
           /\ IsInjective(s) /\ c \notin Range(s) => IsInjective(Append(s, c))
<1>. DEFINE u == Append(s, c)
<1>1. /\ u \in Seq(S) /\ Len(u) = Len(s) + 1 /\ Len(s) \in Nat
      /\ \A i \in 1..Len(s) : u[i] = s[i]
      /\ u[Len(s) + 1] = c
  OBVIOUS
<1>2. DOMAIN s = 1..Len(s) /\ DOMAIN u = 1..(Len(s) + 1)
  BY <1>1
<1>3. Range(u) = Range(s) \cup {c}
  BY <1>1, <1>2 DEF Range
<1>4. ASSUME IsInjective(s), c \notin Range(s) PROVE IsInjective(u)
  BY <1>1, <1>2, <1>4 DEF IsInjective, Range
<1>. QED  BY <1>1, <1>3, <1>4

\* RemoveOldest: the tail of a duplicate-free sequence loses exactly its head.
LEMMA TailFacts ==
    ASSUME NEW S, NEW s \in Seq(S), s # <<>>, IsInjective(s)
    PROVE  /\ Tail(s) \in Seq(S) /\ Head(s) \in S
           /\ Range(Tail(s)) = Range(s) \ {Head(s)}
           /\ Head(s) \in Range(s)
           /\ IsInjective(Tail(s))
<1>. DEFINE u == Tail(s)
<1>1. /\ u \in Seq(S) /\ Len(s) \in Nat /\ Len(s) >= 1 /\ Len(u) = Len(s) - 1
      /\ \A i \in 1..Len(u) : u[i] = s[i + 1]
      /\ Head(s) = s[1] /\ s[1] \in S
  OBVIOUS
<1>2. DOMAIN s = 1..Len(s) /\ DOMAIN u = 1..(Len(s) - 1)
  BY <1>1
<1>3. IsInjective(u)
  BY <1>1, <1>2 DEF IsInjective
<1>4. Range(u) = Range(s) \ {s[1]}
  <2>1. ASSUME NEW x \in Range(u) PROVE x \in Range(s) \ {s[1]}
    <3>1. PICK i \in 1..(Len(s) - 1) : x = u[i]
      BY <1>2, <2>1 DEF Range
    <3>2. i + 1 \in DOMAIN s /\ i + 1 # 1 /\ 1 \in DOMAIN s /\ x = s[i + 1]
      BY <1>1, <1>2, <3>1
    <3>. QED  BY <3>2 DEF Range, IsInjective
  <2>2. ASSUME NEW x \in Range(s) \ {s[1]} PROVE x \in Range(u)
    <3>1. PICK i \in 1..Len(s) : x = s[i]
      BY <1>2, <2>2 DEF Range
    <3>2. i - 1 \in 1..(Len(s) - 1) /\ x = u[i - 1]
      BY <1>1, <2>2, <3>1
    <3>. QED  BY <1>2, <3>2 DEF Range
  <2>. QED  BY <2>1, <2>2
<1>5. 1 \in DOMAIN s /\ s[1] \in Range(s)
  BY <1>1, <1>2 DEF Range
<1>. QED  BY <1>1, <1>3, <1>4, <1>5

\* makeRecent only reorders the LRU.
LEMMA MakeRecentFacts ==
    ASSUME NEW S, NEW s \in Seq(S), NEW c, IsInjective(s)
    PROVE  /\ MakeRecent(s, c) \in Seq(S)
           /\ Range(MakeRecent(s, c)) = Range(s)
           /\ IsInjective(MakeRecent(s, c))
<1>1. CASE c \notin Range(s)
  BY <1>1 DEF MakeRecent
<1>2. CASE c \in Range(s)
  <2>. DEFINE n == Len(s)
              k == CHOOSE i \in DOMAIN s : s[i] = c
              u == [i \in DOMAIN s |-> IF i < k THEN s[i]
                                       ELSE IF i < Len(s) THEN s[i + 1] ELSE c]
  <2>1. n \in Nat /\ DOMAIN s = 1..n /\ \A i \in 1..n : s[i] \in S
    OBVIOUS
  <2>2. k \in 1..n /\ s[k] = c
    <3>1. \E i \in DOMAIN s : s[i] = c
      BY <1>2 DEF Range
    <3>. QED  BY <2>1, <3>1
  <2>3. MakeRecent(s, c) = u
    BY <1>2 DEF MakeRecent
  <2>. HIDE DEF k
  <2>4. /\ \A i \in 1..n : i < k => u[i] = s[i]
        /\ \A i \in 1..n : i >= k /\ i < n => u[i] = s[i + 1]
        /\ u[n] = c
        /\ DOMAIN u = 1..n
    BY <2>1, <2>2
  <2>. HIDE DEF u
  <2>5. \A i \in 1..n : u[i] \in S
    BY <2>1, <2>2, <2>4
  <2>6. u \in Seq(S)
    <3>1. u = [i \in 1..n |-> u[i]]
      BY <2>1, <2>4 DEF u
    <3>2. u \in [1..n -> S]
      BY <2>5, <3>1
    <3>. QED  BY <2>1, <3>2, SeqDef
  <2>7. Range(u) = Range(s)
    <3>1. ASSUME NEW x \in Range(u) PROVE x \in Range(s)
      <4>1. PICK i \in 1..n : x = u[i]
        BY <2>4, <3>1 DEF Range
      <4>2. \E j \in 1..n : x = s[j]
        BY <2>1, <2>2, <2>4, <4>1
      <4>. QED  BY <2>1, <4>2 DEF Range
    <3>2. ASSUME NEW x \in Range(s) PROVE x \in Range(u)
      <4>1. PICK j \in 1..n : x = s[j]
        BY <2>1, <3>2 DEF Range
      <4>2. CASE j < k
        BY <2>2, <2>4, <4>1, <4>2 DEF Range
      <4>3. CASE j = k
        BY <2>1, <2>2, <2>4, <4>1, <4>3 DEF Range
      <4>4. CASE j > k
        <5>1. j - 1 \in 1..n /\ j - 1 >= k /\ j - 1 < n
          BY <2>1, <2>2, <4>1, <4>4
        <5>2. u[j - 1] = x
          BY <2>4, <4>1, <5>1
        <5>. QED  BY <2>4, <5>1, <5>2 DEF Range
      <4>. QED  BY <2>1, <2>2, <4>1, <4>2, <4>3, <4>4
    <3>. QED  BY <3>1, <3>2
  <2>8. IsInjective(u)
    <3>. SUFFICES ASSUME NEW i \in 1..n, NEW j \in 1..n, u[i] = u[j]
                  PROVE  i = j
      BY <2>4 DEF IsInjective
    <3>. DEFINE old(m) == IF m < k THEN m ELSE IF m < n THEN m + 1 ELSE k
    <3>1. \A m \in 1..n : old(m) \in 1..n /\ u[m] = s[old(m)]
      BY <2>1, <2>2, <2>4
    <3>2. old(i) = old(j)
      BY <2>1, <3>1 DEF IsInjective
    <3>. QED  BY <2>1, <2>2, <3>2
  <2>. QED  BY <2>3, <2>6, <2>7, <2>8
<1>. QED  BY <1>1, <1>2
-----------------------------------------------------------------------------
(* The inductive invariant.                                                *)

InEvict == pc \in {"evict", "swapOut"}
\* The client is at a step, or will be when evict() returns.
At(step) == pc = step \/ (InEvict /\ job.then = step)
JobTag == dataTag[job.term]

\* What the call under way knows about the container it works on: the caller's
\* set stays resident, because evict() only ever takes members of the LRU.
JobInv ==
    /\ At("retrieve") \/ At("create") \/ At("use") \/ pc = "swapIn" =>
         /\ job.term \in Terms /\ JobTag \in Tags
         /\ job.kind \in {"register", "fetch", "prune"}
    /\ At("create") => JobTag \notin cache
    /\ pc = "use" => JobTag \in resident
    /\ pc = "swapIn" \/ (InEvict /\ job.then = "use") =>
         JobTag \in resident \ Range(lru)
    /\ At("dump") => job.tag \in resident \ Range(lru)
    /\ pc = "save" \/ At("dump") => job.kind = "save"
    /\ At("load") => job.kind = "load" /\ phase = "serve" /\ todo \cap cache = {}
    /\ job.kind = "load" => At("load")
    /\ job.kind = "register" => job.doc \in Docs /\ phase = "build"
    /\ job.kind = "prune" => phase = "prune"
    /\ job.kind = "save" => phase \in {"build", "prune"} /\ todo \subseteq cache
    /\ InEvict => job.then \in Continuations
    /\ pc = "idle" => job.kind = "none"
    /\ phase = "prune" => \A t \in unpruned : dataTag[t] \in Tags

\* Containers, files and the LRU: what is not in memory is on disk, and what
\* the LRU lists is in memory, listed once and correctly sized.
CacheInv ==
    /\ resident \subseteq cache
    /\ cache \ resident \subseteq onDisk
    /\ IsInjective(lru)
    /\ Range(lru) \subseteq cache
    /\ pc # "swapOut" => Range(lru) \subseteq resident
    /\ pc = "swapOut" => lru # <<>> /\ Range(lru) \ {Head(lru)} \subseteq resident
                         /\ Head(lru) \notin resident
    /\ \A c \in Range(lru) : size[c] = plsSize[c]
    /\ pc \notin {"panicSize", "panicOpen", "panicDump"}

IInv == TypeOK /\ JobInv /\ CacheInv /\ OneHome

LEMMA InitIInv == Init => IInv
<1>. SUFFICES ASSUME Init PROVE IInv
  OBVIOUS
<1>1. TypeOK
  BY DEF Init, TypeOK, Jobs, NoJob, Steps, Phases
<1>2. lru = <<>> /\ Range(lru) = {} /\ IsInjective(lru)
  BY DEF Init, Range, IsInjective
<1>3. JobInv /\ CacheInv /\ OneHome
  BY <1>2 DEF Init, JobInv, CacheInv, OneHome, At, InEvict, NoJob
<1>. QED  BY <1>1, <1>3 DEF IInv

\* The counts the model takes are numbers: every set of postings is finite.
LEMMA PostingsAreFinite ==
    ASSUME NEW S \in SUBSET (Terms \X Docs)
    PROVE  Cardinality(S) \in Nat
<1>1. IsFiniteSet(Terms \X Docs)
  BY FiniteAssumption, FS_Product
<1>2. IsFiniteSet(S)
  BY <1>1, FS_Subset
<1>. QED  BY <1>2, FS_CardinalityType

LEMMA EntriesType ==
    ASSUME NEW S \in SUBSET (Terms \X Docs), NEW t
    PROVE  /\ EntriesOf(S, t) \in SUBSET (Terms \X Docs)
           /\ EntriesOf(S, t) \subseteq S
           /\ TermsOf(S) \in SUBSET Terms
  BY DEF EntriesOf, TermsOf

\* LeastUsedPLS only offers tags, and only unused ones are FreshTags.
LEMMA LeastUsedType == TypeOK => LeastUsedPLS \subseteq Tags
<1>. SUFFICES ASSUME TypeOK PROVE LeastUsedPLS \subseteq Tags
  OBVIOUS
<1>1. /\ \A i \in DOMAIN lru : lru[i] \in Tags
      /\ \A i \in DOMAIN swapped : swapped[i] \in Tags
  BY DEF TypeOK
<1>. QED  BY <1>1 DEF LeastUsedPLS, First, FreshTags

\* SwappedWorker's removal keeps a sequence of tags, whichever element goes.
LEMMA UnswapType ==
    ASSUME NEW S, NEW s \in Seq(S), NEW i \in DOMAIN s
    PROVE  Unswap(s, i) \in Seq(S)
<1>1. Len(s) \in Nat /\ i \in 1..Len(s)
  OBVIOUS
<1>2. CASE i = 1
  <2>1. s # <<>>
    BY <1>1, <1>2
  <2>. QED  BY <1>2, <2>1 DEF Unswap
<1>3. CASE i # 1
  <2>1. SubSeq(s, 1, i - 2) \in Seq(S) /\ SubSeq(s, i + 1, Len(s)) \in Seq(S)
    BY <1>1, <1>3, SubSeqProperties
  <2>. QED  BY <1>3, <2>1 DEF Unswap
<1>. QED  BY <1>2, <1>3
-----------------------------------------------------------------------------
(* Each action preserves the invariant.                                    *)

\* Beginning a call changes none of the containers.
LEMMA CallStep ==
    ASSUME IInv, Call
    PROVE  IInv'
<1>. USE DEF memory, queues, disk, control, life
<1>1. TypeOK /\ JobInv /\ CacheInv /\ OneHome
  BY DEF IInv
<1>2. ASSUME NEW t \in Terms, NEW d \in Docs, InsertKnown(t, d) PROVE IInv'
  <2>1. TypeOK'
    BY <1>1, <1>2, DocsAssumption
       DEF TypeOK, InsertKnown, Begin, Jobs, NoJob, Steps
  <2>2. JobInv'
    BY <1>1, <1>2, <2>1 DEF TypeOK, JobInv, InsertKnown, Begin, NoJob, At, InEvict, JobTag
  <2>3. CacheInv' /\ OneHome'
    BY <1>1, <1>2 DEF CacheInv, OneHome, Current, TermsOf, InsertKnown, Begin
  <2>. QED  BY <2>1, <2>2, <2>3 DEF IInv
<1>3. ASSUME NEW t \in Terms, NEW d \in Docs, InsertNew(t, d) PROVE IInv'
  <2>0. PICK c \in LeastUsedPLS : dataTag' = [dataTag EXCEPT ![t] = c]
    BY <1>3 DEF InsertNew
  <2>1. c \in Tags
    BY <1>1, LeastUsedType
  <2>2. TypeOK'
    BY <1>1, <1>3, <2>0, <2>1, DocsAssumption
       DEF TypeOK, InsertNew, Begin, Jobs, NoJob, Steps
  <2>3. JobInv'
    BY <1>1, <1>3, <2>0, <2>1, <2>2
       DEF TypeOK, JobInv, InsertNew, Begin, NoJob, At, InEvict, JobTag
  <2>4. CacheInv'
    BY <1>1, <1>3 DEF CacheInv, InsertNew, Begin
  <2>5. OneHome'
    BY <1>1, <1>3, <2>0, NoneAssumption
       DEF TypeOK, OneHome, Current, TermsOf, InsertNew, Begin
  <2>. QED  BY <2>2, <2>3, <2>4, <2>5 DEF IInv
<1>4. ASSUME NEW t \in Terms, Fetch(t) PROVE IInv'
  <2>1. TypeOK'
    BY <1>1, <1>4 DEF TypeOK, Fetch, Begin, Jobs, NoJob, Steps
  <2>2. JobInv'
    BY <1>1, <1>4, <2>1 DEF TypeOK, JobInv, Fetch, Begin, NoJob, At, InEvict, JobTag
  <2>3. CacheInv' /\ OneHome'
    BY <1>1, <1>4 DEF CacheInv, OneHome, Current, TermsOf, Fetch, Begin
  <2>. QED  BY <2>1, <2>2, <2>3 DEF IInv
<1>5. ASSUME NEW t \in Terms, PruneTerm(t) PROVE IInv'
  <2>1. TypeOK'
    BY <1>1, <1>5 DEF TypeOK, PruneTerm, Begin, Jobs, NoJob, Steps
  <2>2. JobInv'
    BY <1>1, <1>5, <2>1
       DEF TypeOK, JobInv, PruneTerm, Begin, NoJob, At, InEvict, JobTag
  <2>3. CacheInv' /\ OneHome'
    BY <1>1, <1>5 DEF CacheInv, OneHome, Current, TermsOf, PruneTerm, Begin
  <2>. QED  BY <2>1, <2>2, <2>3 DEF IInv
<1>6. CASE BeginPrune
  <2>1. TypeOK'
    BY <1>1, <1>6 DEF TypeOK, BeginPrune, Phases
  <2>2. JobInv'
    BY <1>1, <1>6, NoneAssumption DEF TypeOK, JobInv, BeginPrune, At, InEvict, JobTag
  <2>3. CacheInv' /\ OneHome'
    BY <1>1, <1>6 DEF CacheInv, OneHome, Current, TermsOf, BeginPrune
  <2>. QED  BY <2>1, <2>2, <2>3 DEF IInv
<1>7. CASE BeginSave
  <2>1. TypeOK'
    BY <1>1, <1>7 DEF TypeOK, BeginSave, Jobs, NoJob, Steps
  <2>2. JobInv'
    BY <1>1, <1>7 DEF TypeOK, JobInv, BeginSave, NoJob, At, InEvict, JobTag
  <2>3. CacheInv' /\ OneHome'
    BY <1>1, <1>7 DEF CacheInv, OneHome, Current, TermsOf, BeginSave
  <2>. QED  BY <2>1, <2>2, <2>3 DEF IInv
<1>. QED  BY <1>2, <1>3, <1>4, <1>5, <1>6, <1>7 DEF Call

LEMMA RetrieveStep ==
    ASSUME IInv, \/ RetrieveUnknown \/ Create \/ RetrieveSplit
                 \/ RetrieveHit \/ RetrieveSwapped \/ SendLoaded
    PROVE  IInv'
<1>. USE DEF memory, queues, disk, control, life
<1>1. TypeOK /\ JobInv /\ CacheInv /\ OneHome
  BY DEF IInv
<1>. DEFINE t == job.term
            c == dataTag[job.term]
<1>2. CASE RetrieveUnknown
  <2>1. TypeOK'
    BY <1>1, <1>2 DEF TypeOK, RetrieveUnknown, Evicting, Jobs, Steps, Continuations
  <2>2. JobInv'
    BY <1>1, <1>2 DEF TypeOK, JobInv, RetrieveUnknown, Evicting, Jobs,
                      At, InEvict, JobTag, Continuations
  <2>3. CacheInv' /\ OneHome'
    BY <1>1, <1>2 DEF CacheInv, OneHome, Current, TermsOf, RetrieveUnknown, Evicting
  <2>. QED  BY <2>1, <2>2, <2>3 DEF IInv
<1>3. CASE Create
  <2>0. /\ t \in Terms /\ c \in Tags /\ c \notin cache
        /\ lru \in Seq(Tags) /\ lru' = Append(lru, c)
        /\ IsInjective(lru) /\ c \notin Range(lru)
    BY <1>1, <1>3 DEF TypeOK, JobInv, CacheInv, At, JobTag, Create, AddPLS
  <2>1. /\ lru' \in Seq(Tags) /\ Range(lru') = Range(lru) \cup {c} /\ IsInjective(lru')
    BY <2>0, AppendFacts
  <2>2. TypeOK'
    BY <1>1, <1>3, <2>0, <2>1 DEF TypeOK, Create, AddPLS, Steps
  <2>3. JobInv'
    BY <1>1, <1>3, <2>0 DEF TypeOK, JobInv, Create, AddPLS, At, InEvict, JobTag
  <2>4. CacheInv'
    BY <1>1, <1>3, <2>0, <2>1 DEF TypeOK, CacheInv, Create, AddPLS
  <2>5. OneHome'
    BY <1>1, <1>3, <2>0 DEF TypeOK, CacheInv, OneHome, Current, TermsOf, Create, AddPLS
  <2>. QED  BY <2>2, <2>3, <2>4, <2>5 DEF IInv
<1>4. CASE RetrieveHit
  <2>0. /\ t \in Terms /\ c \in Tags /\ c \in resident
        /\ lru \in Seq(Tags) /\ lru' = MakeRecent(lru, c) /\ IsInjective(lru)
    BY <1>1, <1>4 DEF TypeOK, JobInv, CacheInv, At, JobTag, RetrieveHit
  <2>1. /\ lru' \in Seq(Tags) /\ Range(lru') = Range(lru) /\ IsInjective(lru')
    BY <2>0, MakeRecentFacts
  <2>2. TypeOK'
    BY <1>1, <1>4, <2>1 DEF TypeOK, RetrieveHit, Steps
  <2>3. JobInv'
    BY <1>1, <1>4, <2>0 DEF TypeOK, JobInv, RetrieveHit, At, InEvict, JobTag
  <2>4. CacheInv' /\ OneHome'
    BY <1>1, <1>4, <2>1 DEF CacheInv, OneHome, Current, TermsOf, RetrieveHit
  <2>. QED  BY <2>2, <2>3, <2>4 DEF IInv
<1>5. CASE RetrieveSwapped
  <2>0. /\ t \in Terms /\ c \in Tags /\ c \in cache \ resident /\ c \in onDisk
        /\ c \notin Range(lru) /\ file[c] \in SUBSET (Terms \X Docs)
    BY <1>1, <1>5 DEF TypeOK, JobInv, CacheInv, At, JobTag, RetrieveSwapped
  <2>1. Cardinality(file[c]) \in Nat /\ TermsOf(file[c]) \in SUBSET Terms
    BY <2>0, PostingsAreFinite, EntriesType
  <2>2. TypeOK'
    BY <1>1, <1>5, <2>0, <2>1 DEF TypeOK, RetrieveSwapped, LoadEntries, Steps
  <2>3. JobInv'
    BY <1>1, <1>5, <2>0
       DEF TypeOK, JobInv, RetrieveSwapped, LoadEntries, At, InEvict, JobTag
  <2>4. CacheInv'
    BY <1>1, <1>5, <2>0 DEF TypeOK, CacheInv, RetrieveSwapped, LoadEntries
  <2>5. OneHome'
    BY <1>1, <1>5, <2>0
       DEF TypeOK, OneHome, Current, TermsOf, RetrieveSwapped, LoadEntries
  <2>. QED  BY <2>2, <2>3, <2>4, <2>5 DEF IInv
<1>6. CASE SendLoaded
  <2>1. TypeOK'
    BY <1>1, <1>6 DEF TypeOK, JobInv, SendLoaded, Evicting, Jobs, Steps,
                      Continuations, JobTag
  <2>2. JobInv'
    BY <1>1, <1>6 DEF TypeOK, JobInv, SendLoaded, Evicting, Jobs, At, InEvict,
                      JobTag, Continuations
  <2>3. CacheInv' /\ OneHome'
    BY <1>1, <1>6 DEF CacheInv, OneHome, Current, TermsOf, SendLoaded, Evicting
  <2>. QED  BY <2>1, <2>2, <2>3 DEF IInv
<1>7. CASE RetrieveSplit
  <2>. DEFINE moved == Cardinality(EntriesOf(postings[c], t))
  <2>0. PICK n \in FreshTags :
          /\ dataTag' = [dataTag EXCEPT ![t] = n]
          /\ TransferPL(c, n, t, moved) /\ AddPLS(n)
          /\ size' = [size EXCEPT ![c] = @ - moved, ![n] = moved]
    BY <1>7 DEF RetrieveSplit
  <2>1. /\ t \in Terms /\ c \in Tags /\ c \in resident
        /\ n \in Tags /\ n \notin cache /\ n # c /\ n \notin Range(lru)
        /\ \A u \in Terms : dataTag[u] # n
    BY <1>1, <1>7, <2>0
       DEF TypeOK, JobInv, CacheInv, At, JobTag, FreshTags, RetrieveSplit, Range
  <2>2. /\ EntriesOf(postings[c], t) \in SUBSET (Terms \X Docs)
        /\ moved \in Nat
    BY <1>1, <2>1, EntriesType, PostingsAreFinite DEF TypeOK
  <2>3. /\ lru' = Append(lru, n) /\ lru' \in Seq(Tags)
        /\ Range(lru') = Range(lru) \cup {n} /\ IsInjective(lru')
    BY <1>1, <2>0, <2>1, AppendFacts DEF TypeOK, CacheInv, AddPLS
  <2>. HIDE DEF moved
  <2>4. \/ pc' = "evict" /\ job' = [job EXCEPT !.then = "retrieve"]
        \/ pc' = "panicTransfer" /\ job' = job
    BY <1>7 DEF RetrieveSplit, Evicting
  <2>5. /\ job' \in Jobs /\ job'.kind = job.kind /\ job'.term = t
        /\ job'.doc = job.doc /\ job'.tag = job.tag
        /\ pc' = "evict" => job'.then = "retrieve"
    BY <1>1, <2>4 DEF TypeOK, Jobs, Continuations
  <2>6. /\ pc = "retrieve" /\ cache' = cache \cup {n} /\ resident' = resident \cup {n}
        /\ UNCHANGED <<currentLoad, swapped, worker, file, onDisk, todo, unpruned,
                       phase, lastDoc, restarts>>
    BY <1>7, <2>0 DEF RetrieveSplit, AddPLS
  <2>7. /\ dataTag' \in [Terms -> Tags \cup {None}]
        /\ listed' \in [Tags -> SUBSET Terms]
        /\ postings' \in [Tags -> SUBSET (Terms \X Docs)]
        /\ size' \in [Tags -> Int] /\ plsSize' \in [Tags -> Int]
    <3>1. postings[c] \ EntriesOf(postings[c], t) \in SUBSET (Terms \X Docs)
      BY <1>1, <2>1 DEF TypeOK
    <3>2. dataTag' \in [Terms -> Tags \cup {None}]
      BY <1>1, <2>0, <2>1 DEF TypeOK
    <3>3. listed' \in [Tags -> SUBSET Terms]
      BY <1>1, <2>0, <2>1 DEF TypeOK, TransferPL
    <3>4. postings' \in [Tags -> SUBSET (Terms \X Docs)]
      BY <1>1, <2>0, <2>1, <2>2, <3>1 DEF TypeOK, TransferPL
    <3>5. size' \in [Tags -> Int]
      BY <1>1, <2>0, <2>1, <2>2 DEF TypeOK
    <3>6. plsSize' \in [Tags -> Int]
      BY <1>1, <2>0, <2>1, <2>2 DEF TypeOK, TransferPL
    <3>. QED  BY <3>2, <3>3, <3>4, <3>5, <3>6
  <2>8. TypeOK'
    BY <1>1, <2>1, <2>3, <2>4, <2>5, <2>6, <2>7 DEF TypeOK, Steps, Panics
  <2>9. JobInv'
    BY <1>1, <2>0, <2>1, <2>4, <2>5, <2>6
       DEF TypeOK, JobInv, At, InEvict, JobTag, Continuations
  <2>10. CacheInv'
    <3>1. \A b \in Range(lru') : size'[b] = plsSize'[b]
      <4>. SUFFICES ASSUME NEW b \in Range(lru') PROVE size'[b] = plsSize'[b]
        OBVIOUS
      <4>1. b \in Tags /\ (b = n \/ size[b] = plsSize[b])
        BY <1>1, <2>1, <2>3 DEF TypeOK, CacheInv
      <4>. QED  BY <1>1, <2>0, <2>1, <2>2, <4>1 DEF TypeOK, TransferPL
    <3>2. pc' \in {"evict", "panicTransfer"}
      BY <2>4
    <3>3. /\ resident' \subseteq cache' /\ cache' \ resident' \subseteq onDisk'
          /\ Range(lru') \subseteq resident'
      BY <1>1, <2>1, <2>3, <2>6 DEF CacheInv
    <3>. QED  BY <2>3, <3>1, <3>2, <3>3 DEF CacheInv
  <2>11. OneHome'
    <3>1. \A e \in postings'[c] : e \in postings[c] /\ e[1] # t
      BY <1>1, <2>0, <2>1 DEF TypeOK, TransferPL, EntriesOf
    <3>2. \A e \in postings'[n] : e[1] = t
      BY <1>1, <2>0, <2>1 DEF TypeOK, TransferPL, EntriesOf
    <3>3. \A b \in Tags : b # c /\ b # n => postings'[b] = postings[b]
      BY <1>1, <2>0, <2>1 DEF TypeOK, TransferPL
    <3>. SUFFICES ASSUME phase' # "serve", NEW b \in cache', NEW u \in TermsOf(Current(b))'
                  PROVE  dataTag'[u] = b
      BY DEF OneHome
    <3>0. phase # "serve"
      BY <2>6
    <3>9. PICK e \in Current(b)' : u = e[1]
      BY DEF TermsOf
    <3>4. e[1] \in Terms
      BY <1>1, <2>6, <2>7, <2>8, <3>9 DEF TypeOK, Current
    <3>5. CASE b = n
      BY <1>1, <2>0, <2>1, <2>6, <3>2, <3>5, <3>9 DEF TypeOK, Current
    <3>6. CASE b = c
      <4>1. e \in postings'[c]
        BY <2>1, <2>6, <3>6, <3>9 DEF Current
      <4>2. e \in Current(c) /\ e[1] # t /\ c \in cache
        BY <1>1, <2>1, <3>1, <4>1 DEF Current, CacheInv
      <4>. QED  BY <1>1, <2>0, <2>1, <3>0, <3>4, <3>6, <3>9, <4>2 DEF TypeOK, OneHome, TermsOf
    <3>7. CASE b # n /\ b # c
      <4>1. b \in cache /\ e \in Current(b)
        BY <1>1, <2>6, <3>3, <3>7, <3>9 DEF TypeOK, Current
      <4>2. dataTag[e[1]] = b
        BY <1>1, <3>0, <4>1 DEF OneHome, TermsOf
      <4>. QED  BY <1>1, <2>0, <2>1, <3>4, <3>7, <3>9, <4>2 DEF TypeOK
    <3>. QED  BY <3>5, <3>6, <3>7
  <2>. QED  BY <2>8, <2>9, <2>10, <2>11 DEF IInv
<1>. QED  BY <1>2, <1>3, <1>4, <1>5, <1>6, <1>7

\* Eviction: what leaves memory has just been written to its file.
LEMMA EvictStep ==
    ASSUME IInv, EvictDone \/ EvictOldest \/ SendEvicted
    PROVE  IInv'
<1>. USE DEF memory, queues, disk, control, life
<1>1. TypeOK /\ JobInv /\ CacheInv /\ OneHome
  BY DEF IInv
<1>2. CASE EvictDone
  <2>1. job.then \in Continuations
    BY <1>1, <1>2 DEF JobInv, EvictDone, InEvict
  <2>2. TypeOK'
    BY <1>1, <1>2, <2>1 DEF TypeOK, EvictDone, LoadAfterCheck, Steps, Continuations
  <2>3. JobInv'
    BY <1>1, <1>2, <2>1 DEF TypeOK, JobInv, EvictDone, At, InEvict, JobTag, Continuations
  <2>4. CacheInv' /\ OneHome'
    BY <1>1, <1>2, <2>1 DEF CacheInv, OneHome, Current, TermsOf, EvictDone, Continuations
  <2>. QED  BY <2>2, <2>3, <2>4 DEF IInv
<1>3. CASE EvictOldest
  <2>. DEFINE c == Head(lru)
  <2>1. lru # <<>> /\ lru \in Seq(Tags) /\ IsInjective(lru) /\ pc = "evict"
    BY <1>1, <1>3 DEF TypeOK, CacheInv, EvictOldest, OverLoaded
  <2>2. c \in Tags /\ c \in Range(lru)
    BY <2>1, TailFacts
  <2>3. c \in resident /\ c \in cache /\ size[c] = plsSize[c]
    BY <1>1, <2>1, <2>2 DEF CacheInv
  <2>. HIDE DEF c
  <2>4. /\ pc' = "swapOut" /\ resident' = resident \ {c} /\ DumpEntries(c)
        /\ listed' = [listed EXCEPT ![c] = {}]
        /\ postings' = [postings EXCEPT ![c] = {}]
        /\ currentLoad' = currentLoad - size[c]
        /\ UNCHANGED <<dataTag, cache, size, plsSize, lru, swapped, worker, job,
                       todo, unpruned, phase, lastDoc, restarts>>
    BY <1>3, <2>3 DEF EvictOldest, c
  <2>5. TypeOK'
    BY <1>1, <2>2, <2>4 DEF TypeOK, DumpEntries, Steps
  <2>6. JobInv'
    BY <1>1, <2>1, <2>2, <2>3, <2>4 DEF JobInv, At, InEvict, JobTag
  <2>7. CacheInv'
    BY <1>1, <2>1, <2>2, <2>3, <2>4 DEF CacheInv, DumpEntries, c
  <2>8. OneHome'
    BY <1>1, <2>2, <2>3, <2>4 DEF TypeOK, OneHome, Current, TermsOf, DumpEntries
  <2>. QED  BY <2>5, <2>6, <2>7, <2>8 DEF IInv
<1>4. CASE SendEvicted
  <2>1. lru # <<>> /\ lru \in Seq(Tags) /\ IsInjective(lru) /\ pc = "swapOut"
    BY <1>1, <1>4 DEF TypeOK, CacheInv, SendEvicted
  <2>2. /\ Head(lru) \in Tags /\ lru' = Tail(lru) /\ lru' \in Seq(Tags)
        /\ Range(lru') = Range(lru) \ {Head(lru)} /\ IsInjective(lru')
    BY <1>4, <2>1, TailFacts DEF SendEvicted
  <2>3. TypeOK'
    BY <1>1, <1>4, <2>2 DEF TypeOK, SendEvicted, Steps
  <2>4. JobInv'
    BY <1>1, <1>4, <2>1, <2>2 DEF JobInv, SendEvicted, At, InEvict, JobTag
  <2>5. CacheInv'
    BY <1>1, <1>4, <2>1, <2>2 DEF CacheInv, SendEvicted
  <2>6. OneHome'
    BY <1>1, <1>4 DEF OneHome, Current, TermsOf, SendEvicted
  <2>. QED  BY <2>3, <2>4, <2>5, <2>6 DEF IInv
<1>. QED  BY <1>2, <1>3, <1>4

\* The caller's own write: it goes to the set its term is tagged with.
LEMMA UseStep ==
    ASSUME IInv, UseRegister \/ UseFetch \/ UsePrune
    PROVE  IInv'
<1>. USE DEF memory, queues, disk, control, life
<1>1. TypeOK /\ JobInv /\ CacheInv /\ OneHome
  BY DEF IInv
<1>. DEFINE t == job.term
            c == dataTag[job.term]
<1>2. /\ pc = "use" /\ t \in Terms /\ c \in Tags /\ c \in resident /\ c \in cache
  BY <1>1 DEF JobInv, CacheInv, At, JobTag, UseRegister, UseFetch, UsePrune
<1>3. CASE UseRegister
  <2>. DEFINE new == IF <<t, job.doc>> \in postings[c] THEN 0 ELSE 1
  <2>1. job.doc \in Docs /\ new \in Int
    BY <1>1, <1>3 DEF JobInv, UseRegister
  <2>. HIDE DEF new
  <2>2. /\ listed' = [listed EXCEPT ![c] = @ \cup {t}]
        /\ postings' = [postings EXCEPT ![c] = @ \cup {<<t, job.doc>>}]
        /\ size' = [size EXCEPT ![c] = @ + new]
        /\ plsSize' = [plsSize EXCEPT ![c] = @ + new]
        /\ currentLoad' = currentLoad + new
        /\ pc' = "idle" /\ job' = NoJob
    BY <1>3 DEF UseRegister, Return, new
  <2>3. UNCHANGED <<dataTag, cache, resident, lru, swapped, worker, file, onDisk,
                    todo, unpruned, phase, lastDoc, restarts>>
    BY <1>3 DEF UseRegister
  <2>4. TypeOK'
    BY <1>1, <1>2, <2>1, <2>2, <2>3 DEF TypeOK, NoJob, Jobs, Steps
  <2>5. JobInv'
    BY <1>1, <2>2, <2>3 DEF JobInv, NoJob, At, InEvict, JobTag
  <2>6. CacheInv'
    BY <1>1, <1>2, <2>1, <2>2, <2>3 DEF TypeOK, CacheInv
  <2>7. OneHome'
    BY <1>1, <1>2, <2>2, <2>3 DEF TypeOK, OneHome, Current, TermsOf
  <2>. QED  BY <2>4, <2>5, <2>6, <2>7 DEF IInv
<1>4. CASE UseFetch
  <2>1. TypeOK'
    BY <1>1, <1>2, <1>4 DEF TypeOK, UseFetch, Return, NoJob, Jobs, Steps
  <2>2. JobInv'
    BY <1>1, <1>4 DEF JobInv, UseFetch, Return, NoJob, At, InEvict, JobTag
  <2>3. CacheInv' /\ OneHome'
    BY <1>1, <1>2, <1>4 DEF CacheInv, OneHome, Current, TermsOf, UseFetch, Return
  <2>. QED  BY <2>1, <2>2, <2>3 DEF IInv
<1>5. CASE UsePrune
  <2>0. PICK gone \in SUBSET EntriesOf(postings[c], t) :
               postings' = [postings EXCEPT ![c] = @ \ gone]
    BY <1>5 DEF UsePrune
  <2>1. TypeOK'
    BY <1>1, <1>2, <1>5, <2>0 DEF TypeOK, UsePrune, Return, NoJob, Jobs, Steps
  <2>2. JobInv'
    BY <1>1, <1>5 DEF JobInv, UsePrune, Return, NoJob, At, InEvict, JobTag
  <2>3. CacheInv'
    BY <1>1, <1>2, <1>5 DEF CacheInv, UsePrune, Return
  <2>4. OneHome'
    BY <1>1, <1>2, <1>5, <2>0 DEF TypeOK, OneHome, Current, TermsOf, UsePrune, Return
  <2>. QED  BY <2>1, <2>2, <2>3, <2>4 DEF IInv
<1>. QED  BY <1>3, <1>4, <1>5

LEMMA SaveStep ==
    ASSUME IInv, (\E c \in Tags : SaveReload(c) \/ SaveDump(c)) \/ EndSave
    PROVE  IInv'
<1>. USE DEF memory, queues, disk, control, life
<1>1. TypeOK /\ JobInv /\ CacheInv /\ OneHome
  BY DEF IInv
<1>2. ASSUME NEW c \in Tags, SaveReload(c) PROVE IInv'
  <2>1. /\ pc = "save" /\ c \in cache \ resident /\ c \notin Range(lru)
        /\ job.kind = "save" /\ phase # "serve"
    BY <1>1, <1>2 DEF JobInv, CacheInv, At, SaveReload
  <2>2. Cardinality(file[c]) \in Nat /\ TermsOf(file[c]) \in SUBSET Terms
    BY <1>1, PostingsAreFinite, EntriesType DEF TypeOK
  <2>2a. job' \in Jobs
    BY <1>1, <1>2 DEF TypeOK, SaveReload, Jobs, Continuations
  <2>2b. /\ postings' \in [Tags -> SUBSET (Terms \X Docs)]
         /\ listed' \in [Tags -> SUBSET Terms]
         /\ plsSize' \in [Tags -> Int]
    <3>1. LoadEntries(c)
      BY <1>2 DEF SaveReload
    <3>. QED  BY <1>1, <2>2, <3>1 DEF TypeOK, LoadEntries
  <2>3. TypeOK'
    BY <1>1, <1>2, <2>2a, <2>2b DEF TypeOK, SaveReload, Steps
  <2>3a. /\ pc' = "evict" /\ job'.kind = "save" /\ job'.tag = c /\ job'.then = "dump"
         /\ resident' = resident \cup {c}
         /\ UNCHANGED <<cache, lru, todo, phase, dataTag, unpruned>>
    BY <1>1, <1>2, <2>1 DEF TypeOK, Jobs, SaveReload
  <2>4. JobInv'
    BY <1>1, <2>1, <2>3a DEF JobInv, At, InEvict, JobTag, Continuations
  <2>5. CacheInv'
    BY <1>1, <1>2, <2>1 DEF TypeOK, CacheInv, SaveReload, LoadEntries
  <2>6. OneHome'
    BY <1>1, <1>2, <2>1 DEF TypeOK, OneHome, Current, TermsOf, SaveReload, LoadEntries
  <2>. QED  BY <2>3, <2>4, <2>5, <2>6 DEF IInv
<1>3. ASSUME NEW c \in Tags, SaveDump(c) PROVE IInv'
  <2>1. /\ c \in resident /\ c \in cache /\ pc \in {"save", "dump"}
        /\ job.kind = "save" /\ phase \in {"build", "prune"} /\ pc' = "save"
    BY <1>1, <1>3 DEF JobInv, CacheInv, At, SaveDump
  <2>2. TypeOK'
    BY <1>1, <1>3, <2>1 DEF TypeOK, SaveDump, DumpEntries, Steps
  <2>3. JobInv'
    BY <1>1, <1>3, <2>1 DEF JobInv, SaveDump, At, InEvict, JobTag
  <2>4. CacheInv'
    BY <1>1, <1>3, <2>1 DEF CacheInv, SaveDump, DumpEntries
  <2>5. OneHome'
    BY <1>1, <1>3, <2>1 DEF TypeOK, OneHome, Current, TermsOf, SaveDump, DumpEntries
  <2>. QED  BY <2>2, <2>3, <2>4, <2>5 DEF IInv
<1>4. CASE EndSave
  <2>1. TypeOK'
    BY <1>1, <1>4 DEF TypeOK, EndSave, Return, NoJob, Jobs, Steps, Phases
  <2>2. JobInv'
    BY <1>1, <1>4 DEF JobInv, EndSave, Return, NoJob, At, InEvict, JobTag
  <2>3. CacheInv' /\ OneHome'
    BY <1>1, <1>4 DEF CacheInv, OneHome, Current, TermsOf, JobInv, At, EndSave, Return
  <2>. QED  BY <2>1, <2>2, <2>3 DEF IInv
<1>. QED  BY <1>2, <1>3, <1>4

\* A new process reads files no container of its own comes from.
LEMMA LoadStep ==
    ASSUME IInv, (\E c \in Tags : LoadFile(c)) \/ EndLoad
    PROVE  IInv'
<1>. USE DEF memory, queues, disk, control, life
<1>1. TypeOK /\ JobInv /\ CacheInv /\ OneHome
  BY DEF IInv
<1>2. ASSUME NEW c \in Tags, LoadFile(c) PROVE IInv'
  <2>1. /\ pc = "load" /\ c \in todo /\ c \notin cache /\ todo \cap cache = {}
        /\ job.kind = "load" /\ phase = "serve"
    BY <1>1, <1>2 DEF JobInv, At, LoadFile
  <2>2. /\ lru \in Seq(Tags) /\ IsInjective(lru) /\ c \notin Range(lru)
        /\ Range(lru) \subseteq resident /\ lru' = Append(lru, c)
    BY <1>1, <1>2, <2>1 DEF TypeOK, CacheInv, LoadFile, AddPLS
  <2>3. /\ lru' \in Seq(Tags) /\ IsInjective(lru')
        /\ Range(lru') = Range(lru) \cup {c}
    BY <2>2, AppendFacts
  <2>4. Cardinality(file[c]) \in Nat /\ TermsOf(file[c]) \in SUBSET Terms
    BY <1>1, PostingsAreFinite, EntriesType DEF TypeOK
  <2>5. dataTag' \in [Terms -> Tags \cup {None}]
    BY <1>1, <1>2 DEF TypeOK, LoadFile
  <2>5a. job' \in Jobs
    BY <1>1, <1>2 DEF TypeOK, LoadFile, Evicting, Jobs, Continuations
  <2>5b. /\ postings' \in [Tags -> SUBSET (Terms \X Docs)]
         /\ listed' \in [Tags -> SUBSET Terms]
         /\ plsSize' \in [Tags -> Int] /\ size' \in [Tags -> Int]
         /\ currentLoad' \in Int
    BY <1>1, <1>2, <2>4 DEF TypeOK, LoadFile, LoadEntries
  <2>6. TypeOK'
    BY <1>1, <1>2, <2>3, <2>5, <2>5a, <2>5b DEF TypeOK, LoadFile, AddPLS, Evicting, Steps
  <2>6a. /\ pc' = "evict" /\ job'.kind = "load" /\ job'.then = "load"
         /\ cache' = cache \cup {c} /\ todo' = todo \ {c} /\ phase' = phase
    BY <1>1, <1>2, <2>1 DEF TypeOK, Jobs, LoadFile, AddPLS, Evicting
  <2>7. JobInv'
    BY <2>1, <2>6a DEF JobInv, At, InEvict, Continuations
  <2>8. CacheInv'
    BY <1>1, <1>2, <2>1, <2>2, <2>3, <2>4
       DEF TypeOK, CacheInv, LoadFile, AddPLS, LoadEntries, Evicting
  <2>9. OneHome'
    BY <1>2, <2>1 DEF OneHome, LoadFile
  <2>. QED  BY <2>6, <2>7, <2>8, <2>9 DEF IInv
<1>3. CASE EndLoad
  <2>1. TypeOK'
    BY <1>1, <1>3 DEF TypeOK, EndLoad, Return, NoJob, Jobs, Steps
  <2>2. JobInv'
    BY <1>1, <1>3 DEF JobInv, EndLoad, Return, NoJob, At, InEvict, JobTag
  <2>3. CacheInv' /\ OneHome'
    BY <1>1, <1>3 DEF CacheInv, OneHome, Current, TermsOf, EndLoad, Return
  <2>. QED  BY <2>1, <2>2, <2>3 DEF IInv
<1>. QED  BY <1>2, <1>3

\* SwappedWorker touches swapped_cache only; whatever its removal takes out,
\* no lookup depends on it.
LEMMA WorkerStep ==
    ASSUME IInv, SwappedWorker
    PROVE  IInv'
<1>. USE DEF memory, queues, disk, control, life
<1>1. TypeOK /\ JobInv /\ CacheInv /\ OneHome
  BY DEF IInv
<1>2. /\ swapped \in Seq(Tags) /\ worker \in Tags
      /\ UNCHANGED <<memory, lru, currentLoad, disk, control, life>>
  BY <1>1 DEF TypeOK, SwappedWorker
<1>3. swapped' \in Seq(Tags) /\ worker' = None
  <2>1. CASE worker \notin resident
    BY <1>2, <2>1, AppendFacts DEF SwappedWorker
  <2>2. CASE worker \in resident /\ worker \notin Range(swapped)
    BY <1>2, <2>2 DEF SwappedWorker
  <2>3. CASE worker \in resident /\ worker \in Range(swapped)
    <3>1. \E i \in DOMAIN swapped : swapped[i] = worker
      BY <2>3 DEF Range
    <3>2. swapped' = Unswap(swapped, CHOOSE i \in DOMAIN swapped : swapped[i] = worker)
      BY <2>3 DEF SwappedWorker
    <3>. QED  BY <1>2, <3>1, <3>2, UnswapType DEF SwappedWorker
  <2>. QED  BY <2>1, <2>2, <2>3 DEF SwappedWorker
<1>4. TypeOK'
  BY <1>1, <1>2, <1>3 DEF TypeOK
<1>5. JobInv' /\ CacheInv' /\ OneHome'
  BY <1>1, <1>2 DEF JobInv, CacheInv, OneHome, Current, TermsOf, At, InEvict, JobTag
<1>. QED  BY <1>4, <1>5 DEF IInv

LEMMA RestartStep ==
    ASSUME IInv, Restart
    PROVE  IInv'
<1>. USE DEF memory, queues, disk, control, life
<1>1. TypeOK /\ JobInv /\ CacheInv /\ OneHome
  BY DEF IInv
<1>2. TypeOK'
  BY <1>1, MaxRestartsAssumption DEF TypeOK, Restart, NoJob, Jobs, Steps, Phases
<1>3. lru' = <<>> /\ Range(lru') = {} /\ IsInjective(lru')
  BY DEF Restart, Range, IsInjective
<1>4. JobInv' /\ CacheInv' /\ OneHome'
  BY <1>3 DEF Restart, JobInv, CacheInv, OneHome, At, InEvict, NoJob
<1>. QED  BY <1>2, <1>4 DEF IInv

LEMMA Inductive == IInv /\ [Next]_vars => IInv'
<1>. SUFFICES ASSUME IInv, [Next]_vars PROVE IInv'
  OBVIOUS
<1>1. CASE UNCHANGED vars
  BY <1>1, SMTT(30) DEF IInv, TypeOK, JobInv, CacheInv, OneHome, Current, TermsOf, At, InEvict,
              JobTag, vars, memory, queues, disk, control, life
<1>2. CASE Proceed
  BY <1>2, RetrieveStep, EvictStep, UseStep, SaveStep, LoadStep DEF Proceed
<1>. QED  BY <1>1, <1>2, CallStep, WorkerStep, RestartStep DEF Next
-----------------------------------------------------------------------------
(* The invariants the runs check, for every value of the constants.        *)

\* The client, the worker, the containers and the files only ever hold what
\* their types allow.
THEOREM TypeCorrect == Spec => []TypeOK
<1>1. IInv => TypeOK
  BY DEF IInv
<1>. QED  BY <1>1, InitIInv, Inductive, PTL DEF Spec

\* Whatever is evicted, split, saved or reloaded in between, the posting list
\* RetrievePLS returned still belongs to a set in memory when it is used, so
\* that no registered posting is written to a detached set.
THEOREM LiveSets == Spec => []ReturnedSetIsLive
<1>1. IInv => ReturnedSetIsLive
  BY DEF IInv, JobInv, ReturnedSetIsLive, JobTag
<1>. QED  BY <1>1, InitIInv, Inductive, PTL DEF Spec

\* The process that builds the index holds each posting in one set only, the
\* one its term is tagged with.
THEOREM SingleHome == Spec => []OneHome
<1>1. IInv => OneHome
  BY DEF IInv
<1>. QED  BY <1>1, InitIInv, Inductive, PTL DEF Spec
-----------------------------------------------------------------------------
(* The caches SwappedWorker and evict keep.                                *)

LEMMA ConcatFacts ==
    ASSUME NEW S, NEW s \in Seq(S), NEW u \in Seq(S)
    PROVE  /\ s \o u \in Seq(S) /\ Range(s \o u) = Range(s) \cup Range(u)
           /\ IsInjective(s) /\ IsInjective(u) /\ Range(s) \cap Range(u) = {}
              => IsInjective(s \o u)
<1>. DEFINE v == s \o u
            m == Len(s)
            n == Len(u)
<1>1. /\ v \in Seq(S) /\ Len(v) = m + n /\ m \in Nat /\ n \in Nat
      /\ \A i \in 1..m : v[i] = s[i]
      /\ \A i \in 1..n : v[m + i] = u[i]
  OBVIOUS
<1>2. DOMAIN s = 1..m /\ DOMAIN u = 1..n /\ DOMAIN v = 1..m + n
  BY <1>1
<1>. HIDE DEF v, m, n
<1>3. \A i \in m + 1..m + n : i - m \in 1..n /\ v[i] = u[i - m]
  BY <1>1
<1>4. Range(v) = Range(s) \cup Range(u)
  <2>1. ASSUME NEW i \in 1..m + n PROVE v[i] \in Range(s) \cup Range(u)
    <3>1. CASE i \in 1..m
      BY <1>1, <1>2, <3>1 DEF Range
    <3>2. CASE i \in m + 1..m + n
      BY <1>2, <1>3, <3>2 DEF Range
    <3>. QED  BY <1>1, <3>1, <3>2
  <2>2. ASSUME NEW i \in 1..m PROVE s[i] \in Range(v)
    <3>1. i \in 1..m + n /\ v[i] = s[i]
      BY <1>1
    <3>. QED  BY <1>2, <3>1 DEF Range
  <2>3. ASSUME NEW i \in 1..n PROVE u[i] \in Range(v)
    <3>1. m + i \in 1..m + n /\ v[m + i] = u[i]
      BY <1>1
    <3>. QED  BY <1>2, <3>1 DEF Range
  <2>. QED  BY <1>2, <2>1, <2>2, <2>3 DEF Range
<1>5. ASSUME IsInjective(s), IsInjective(u), Range(s) \cap Range(u) = {}
      PROVE  IsInjective(v)
  <2>. SUFFICES ASSUME NEW i \in 1..m + n, NEW j \in 1..m + n, v[i] = v[j] PROVE i = j
    BY <1>2 DEF IsInjective
  <2>0. \A k \in 1..m, l \in 1..n : s[k] # u[l]
    BY <1>2, <1>5 DEF Range
  <2>1. CASE i \in 1..m /\ j \in 1..m
    BY <1>1, <1>2, <1>5, <2>1 DEF IsInjective
  <2>2. CASE i \in m + 1..m + n /\ j \in m + 1..m + n
    <3>1. i - m = j - m
      BY <1>2, <1>3, <1>5, <2>2 DEF IsInjective
    <3>. QED  BY <1>1, <2>2, <3>1
  <2>3. CASE i \in 1..m /\ j \in m + 1..m + n
    BY <1>1, <1>3, <2>0, <2>3
  <2>4. CASE i \in m + 1..m + n /\ j \in 1..m
    BY <1>1, <1>3, <2>0, <2>4
  <2>. QED  BY <1>1, <2>1, <2>2, <2>3, <2>4
<1>. QED  BY <1>1, <1>4, <1>5 DEF v

\* The removal drops elements and never doubles one.
LEMMA UnswapFacts ==
    ASSUME NEW S, NEW s \in Seq(S), NEW i \in DOMAIN s, IsInjective(s)
    PROVE  Range(Unswap(s, i)) \subseteq Range(s) /\ IsInjective(Unswap(s, i))
<1>1. Len(s) \in Nat /\ i \in 1..Len(s) /\ DOMAIN s = 1..Len(s)
  OBVIOUS
<1>2. CASE i = 1
  <2>1. s # <<>>
    BY <1>1, <1>2
  <2>. QED  BY <1>2, <2>1, TailFacts DEF Unswap
<1>3. CASE i # 1
  <2>. DEFINE a == SubSeq(s, 1, i - 2)
              b == SubSeq(s, i + 1, Len(s))
  <2>1. /\ a \in Seq(S) /\ Len(a) = i - 2 /\ \A k \in 1..i - 2 : a[k] = s[k]
        /\ b \in Seq(S) /\ Len(b) = Len(s) - i /\ \A k \in 1..Len(s) - i : b[k] = s[i + k]
    <3>1. i - 2 \in 0..Len(s) /\ \A k \in 1..i - 2 : k \in 1..Len(s) /\ 1 + k - 1 = k
      BY <1>1, <1>3
    <3>2. /\ \A k \in 1..i - 2 : s[k] \in S
          /\ \A k \in i + 1..Len(s) : s[k] \in S
      BY <1>1
    <3>3. a \in Seq(S) /\ Len(a) = i - 2 /\ \A k \in 1..i - 2 : a[k] = s[k]
      BY <1>1, <3>1, <3>2, SubSeqProperties
    <3>4. b \in Seq(S) /\ Len(b) = Len(s) - i
      BY <1>1, SubSeqProperties
    <3>5. \A k \in 1..Len(s) - i : b[k] = s[i + k]
      BY <1>1, SubSeqProperties
    <3>. QED  BY <3>3, <3>4, <3>5
  <2>2. DOMAIN a = 1..i - 2 /\ DOMAIN b = 1..Len(s) - i
    BY <2>1
  <2>3. Unswap(s, i) = a \o b
    BY <1>3 DEF Unswap
  <2>. HIDE DEF a, b
  <2>4. \A k \in 1..i - 2 : k \in 1..Len(s)
    BY <1>1
  <2>5. \A k \in 1..Len(s) - i : i + k \in 1..Len(s)
    BY <1>1
  <2>6. Range(a) \subseteq Range(s) /\ Range(b) \subseteq Range(s)
    BY <1>1, <2>1, <2>2, <2>4, <2>5 DEF Range
  <2>7. IsInjective(a)
    BY <1>1, <2>1, <2>2, <2>4 DEF IsInjective
  <2>8. IsInjective(b)
    <3>. SUFFICES ASSUME NEW j \in 1..Len(s) - i, NEW k \in 1..Len(s) - i, b[j] = b[k]
                  PROVE  j = k
      BY <2>2 DEF IsInjective
    <3>1. i + j = i + k
      BY <1>1, <2>1, <2>5 DEF IsInjective
    <3>. QED  BY <1>1, <3>1
  <2>9. Range(a) \cap Range(b) = {}
    <3>1. ASSUME NEW j \in 1..i - 2, NEW k \in 1..Len(s) - i PROVE a[j] # b[k]
      <4>1. j \in 1..Len(s) /\ i + k \in 1..Len(s) /\ j # i + k
        BY <1>1, <2>4, <2>5
      <4>. QED  BY <1>1, <2>1, <4>1, SMTT(30) DEF IsInjective
    <3>. QED  BY <2>2, <3>1 DEF Range
  <2>. QED  BY <2>1, <2>3, <2>6, <2>7, <2>8, <2>9, ConcatFacts
<1>. QED  BY <1>2, <1>3

\* A container that has left the LRU never comes back to it: it is with the
\* worker, in swapped_cache, or nowhere.
TrackInv ==
    /\ Range(swapped) \subseteq cache /\ worker \in cache \cup {None}
    /\ Range(swapped) \cap Range(lru) = {} /\ worker \notin Range(lru)
    /\ IsInjective(swapped)
    /\ worker \notin resident => worker \notin Range(swapped)

\* A step that leaves the worker alone, puts nothing but new containers in the
\* LRU and takes nothing but the LRU's out of memory.
LEMMA UntouchedCaches ==
    ASSUME TypeOK, CacheInv, TrackInv, UNCHANGED <<swapped, worker>>,
           cache \subseteq cache', Range(lru') \subseteq Range(lru) \cup (Tags \ cache),
           resident \ Range(lru) \subseteq resident'
    PROVE  TrackInv'
<1>1. None \notin Tags
  BY NoneAssumption
<1>2. worker \in cache \/ worker = None
  BY DEF TrackInv
<1>. QED  BY <1>1, <1>2 DEF TrackInv, TypeOK

LEMMA TrackStep == IInv /\ TrackInv /\ [Next]_vars => TrackInv'
<1>. SUFFICES ASSUME IInv, TrackInv, [Next]_vars PROVE TrackInv'
  OBVIOUS
<1>. USE DEF memory, queues, disk, control, life
<1>1. TypeOK /\ JobInv /\ CacheInv
  BY DEF IInv
<1>2. None \notin Tags /\ lru \in Seq(Tags) /\ swapped \in Seq(Tags) /\ cache \subseteq Tags
  BY <1>1, NoneAssumption DEF TypeOK
\* Calls and what callers do with a set, and the steps of SaveToDisk.
<1>3. CASE \/ UNCHANGED vars \/ Call \/ RetrieveUnknown \/ RetrieveSwapped \/ EvictDone
           \/ UseRegister \/ UseFetch \/ UsePrune \/ EndSave \/ EndLoad
           \/ \E c \in Tags : SaveReload(c) \/ SaveDump(c)
  <2>1. /\ UNCHANGED <<swapped, worker, lru, cache>> /\ resident \subseteq resident'
    BY <1>3 DEF vars, Call, InsertKnown, InsertNew, Fetch, BeginPrune, PruneTerm, BeginSave,
                RetrieveUnknown, RetrieveSwapped, EvictDone, UseRegister, UseFetch, UsePrune,
                EndSave, EndLoad, SaveReload, SaveDump
  <2>. QED  BY <1>1, <2>1, UntouchedCaches
\* A new container becomes the most recent one.
<1>4. ASSUME NEW c \in Tags \ cache, AddPLS(c), UNCHANGED <<swapped, worker>> PROVE TrackInv'
  <2>1. Range(lru') = Range(lru) \cup {c}
    BY <1>2, <1>4, AppendFacts DEF AddPLS
  <2>. QED  BY <1>1, <1>4, <2>1, UntouchedCaches DEF AddPLS
<1>5. CASE Create
  <2>1. JobTag \in Tags \ cache /\ AddPLS(JobTag) /\ UNCHANGED <<swapped, worker>>
    BY <1>1, <1>5 DEF JobInv, At, JobTag, Create
  <2>. QED  BY <1>4, <2>1
<1>6. CASE RetrieveSplit
  <2>1. PICK n \in FreshTags : AddPLS(n)
    BY <1>6 DEF RetrieveSplit
  <2>2. n \in Tags \ cache /\ UNCHANGED <<swapped, worker>>
    BY <1>6, <2>1 DEF FreshTags, RetrieveSplit
  <2>. QED  BY <1>4, <2>1, <2>2
<1>7. ASSUME NEW c \in Tags, LoadFile(c) PROVE TrackInv'
  <2>1. c \in Tags \ cache /\ AddPLS(c) /\ UNCHANGED <<swapped, worker>>
    BY <1>1, <1>7 DEF JobInv, At, LoadFile
  <2>. QED  BY <1>4, <2>1
<1>8. CASE RetrieveHit
  <2>1. /\ Range(lru') = Range(lru) /\ UNCHANGED <<swapped, worker, cache, resident>>
    BY <1>1, <1>2, <1>8, MakeRecentFacts DEF RetrieveHit, CacheInv
  <2>. QED  BY <1>1, <2>1, UntouchedCaches
<1>9. CASE EvictOldest
  <2>1. lru # <<>> /\ Head(lru) \in Range(lru)
    BY <1>1, <1>2, <1>9, TailFacts DEF EvictOldest, OverLoaded, CacheInv
  <2>2. UNCHANGED <<swapped, worker, lru, cache>> /\ resident' = resident \ {Head(lru)}
    BY <1>9 DEF EvictOldest
  <2>. QED  BY <1>1, <2>1, <2>2, UntouchedCaches
\* The worker is given a container that is in memory ...
<1>10. CASE SendLoaded
  <2>1. JobTag \in resident \ Range(lru) /\ JobTag \in cache /\ worker' = JobTag
        /\ UNCHANGED <<swapped, lru, cache, resident>>
    BY <1>1, <1>10 DEF JobInv, CacheInv, SendLoaded, JobTag
  <2>. QED  BY <2>1 DEF TrackInv
\* ... or one that has just left the LRU and is in no other place.
<1>11. CASE SendEvicted
  <2>1. lru # <<>> /\ IsInjective(lru) /\ Range(lru) \subseteq cache
    BY <1>1, <1>11 DEF CacheInv, SendEvicted
  <2>2. Range(lru') = Range(lru) \ {Head(lru)} /\ Head(lru) \in Range(lru)
        /\ worker' = Head(lru) /\ UNCHANGED <<swapped, cache, resident>>
    BY <1>2, <1>11, <2>1, TailFacts DEF SendEvicted
  <2>. QED  BY <2>1, <2>2 DEF TrackInv
<1>12. CASE SwappedWorker
  <2>1. worker \in cache /\ worker \in Tags /\ worker' = None
        /\ UNCHANGED <<lru, cache, resident>>
    BY <1>2, <1>12 DEF SwappedWorker, TrackInv
  <2>2. Range(swapped') \subseteq Range(swapped) \cup {worker} /\ IsInjective(swapped')
    <3>1. CASE worker \notin resident
      BY <1>2, <1>12, <2>1, <3>1, AppendFacts DEF SwappedWorker, TrackInv
    <3>2. CASE worker \in resident /\ worker \notin Range(swapped)
      BY <1>12, <3>2 DEF SwappedWorker, TrackInv
    <3>3. CASE worker \in resident /\ worker \in Range(swapped)
      <4>. DEFINE i == CHOOSE i \in DOMAIN swapped : swapped[i] = worker
      <4>1. i \in DOMAIN swapped
        BY <3>3 DEF Range
      <4>2. swapped' = Unswap(swapped, i)
        BY <1>12, <3>3 DEF SwappedWorker
      <4>. HIDE DEF i
      <4>. QED  BY <1>2, <4>1, <4>2, UnswapFacts DEF TrackInv
    <3>. QED  BY <3>1, <3>2, <3>3
  <2>3. Range(lru) \subseteq cache /\ None \notin cache
    BY <1>1, <1>2 DEF CacheInv
  <2>4. Range(swapped') \subseteq cache /\ Range(swapped') \cap Range(lru) = {}
    BY <2>1, <2>2 DEF TrackInv
  <2>. QED  BY <2>1, <2>2, <2>3, <2>4 DEF TrackInv
<1>13. CASE Restart
  <2>1. swapped' = <<>> /\ worker' = None /\ lru' = <<>>
    BY <1>13 DEF Restart
  <2>2. Range(swapped') = {} /\ Range(lru') = {} /\ IsInjective(swapped')
    BY <2>1 DEF Range, IsInjective
  <2>. QED  BY <1>2, <2>1, <2>2 DEF TrackInv
<1>. QED  BY <1>3, <1>5, <1>6, <1>7, <1>8, <1>9, <1>10, <1>11, <1>12, <1>13 DEF Next, Proceed

\* A container is accounted for once, whatever the worker has not yet seen of
\* what the client did to it (RetrievePLS, evict, SwappedWorker).
THEOREM AccountedForOnce == Spec => []TrackedOnce
<1>1. IInv /\ TrackInv => TrackedOnce
  <2>. SUFFICES ASSUME IInv, TrackInv PROVE TrackedOnce
    OBVIOUS
  <2>. DEFINE sent == IF worker = None \/ worker \in resident THEN <<>> ELSE <<worker>>
              inLru == IF pc = "swapOut" THEN Tail(lru) ELSE lru
  <2>1. /\ TypeOK /\ CacheInv /\ lru \in Seq(Tags) /\ swapped \in Seq(Tags)
        /\ worker \in Tags \cup {None}
    BY DEF IInv, TypeOK
  <2>2. inLru \in Seq(Tags) /\ IsInjective(inLru) /\ Range(inLru) \subseteq Range(lru)
    <3>1. CASE pc = "swapOut"
      BY <2>1, <3>1, TailFacts DEF CacheInv
    <3>2. CASE pc # "swapOut"
      BY <2>1, <3>2 DEF CacheInv
    <3>. QED  BY <3>1, <3>2
  <2>3. /\ sent \in Seq(Tags) /\ IsInjective(sent)
        /\ Range(sent) \cap Range(lru) = {} /\ Range(sent) \cap Range(swapped) = {}
    <3>1. CASE worker = None \/ worker \in resident
      BY <3>1 DEF Range, IsInjective
    <3>2. CASE worker # None /\ worker \notin resident
      <4>1. sent = <<worker>> /\ worker \in Tags
        BY <2>1, <3>2
      <4>2. DOMAIN <<worker>> = {1} /\ <<worker>>[1] = worker
        OBVIOUS
      <4>3. <<worker>> \in Seq(Tags) /\ Range(<<worker>>) = {worker} /\ IsInjective(<<worker>>)
        BY <4>1, <4>2 DEF Range, IsInjective
      <4>. QED  BY <3>2, <4>1, <4>3 DEF TrackInv
    <3>. QED  BY <3>1, <3>2
  <2>. HIDE DEF sent, inLru
  <2>4. /\ inLru \o sent \in Seq(Tags) /\ IsInjective(inLru \o sent)
        /\ Range(inLru \o sent) = Range(inLru) \cup Range(sent)
    BY <2>2, <2>3, ConcatFacts
  <2>5. Range(inLru \o sent) \cap Range(swapped) = {} /\ IsInjective(swapped)
    BY <2>2, <2>3, <2>4 DEF TrackInv
  <2>6. IsInjective((inLru \o sent) \o swapped)
    BY <2>1, <2>4, <2>5, ConcatFacts
  <2>. QED  BY <2>6 DEF TrackedOnce, sent, inLru
<1>2. Init => TrackInv
  <2>1. Range(<<>>) = {} /\ IsInjective(<<>>)
    BY DEF Range, IsInjective
  <2>. QED  BY <2>1 DEF Init, TrackInv
<1>. QED  BY <1>1, <1>2, InitIInv, Inductive, TrackStep, PTL DEF Spec

=============================================================================

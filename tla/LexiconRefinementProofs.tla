---------------------- MODULE LexiconRefinementProofs ----------------------
(***************************************************************************)
(* ConstrainedLexicon implements Lexicon in the process that builds the    *)
(* index, and across restarts as long as no set is split after the save;   *)
(* it never panics, saves every posting and splits the sets that several   *)
(* terms share: what follows from the inductive invariant of               *)
(* ConstrainedLexiconProofs once the sets, their lists, their sizes and    *)
(* their files are related to each other.                                  *)
(***************************************************************************)
EXTENDS ConstrainedLexiconProofs

\* t has an entry in the current copy of the set it is tagged with.
Indexed(t) == t \in TermsOf(Current(dataTag[t]))

\* Every list that has entries is in its set's listMap, and every term the
\* trie holds has an entry, but for the one whose first token is being
\* registered; that one is in a set that has room.
ListInv ==
    /\ pc # "panicTransfer"
    /\ \A c \in resident : TermsOf(postings[c]) \subseteq listed[c]
    /\ \A t \in Terms : dataTag[t] # None =>
            Indexed(t) \/ (job.kind = "register" /\ job.term = t)
    /\ At("retrieve") => Indexed(job.term) \/ JobTag \notin cache \/ ~OverSize(JobTag)

\* Files belong to containers, and those SaveToDisk has visited are current.
SaveInv ==
    /\ phase # "serve" => onDisk \subseteq cache
    /\ job.kind = "save" =>
         \A c \in cache \ todo : c \in onDisk /\ file[c] = Current(c)
-----------------------------------------------------------------------------
(* Which steps change what a set holds.                                    *)

\* The steps that move a set, or start or end a call: creating an empty set,
\* loading, dumping, evicting, reordering.
Moving ==
    \/ RetrieveUnknown \/ Create \/ RetrieveHit \/ RetrieveSwapped \/ SendLoaded
    \/ EvictDone \/ EvictOldest \/ SendEvicted \/ UseFetch
    \/ \E c \in Tags : SaveReload(c) \/ SaveDump(c)
    \/ EndSave \/ EndLoad \/ SwappedWorker

\* No move changes the current copy of any set, nor the tag of any term: the
\* file evict() writes is what it drops, the file RetrievePLS reads is current.
LEMMA MovesKeepContents ==
    ASSUME IInv, Moving
    PROVE  /\ \A c \in Tags : Current(c)' = Current(c)
           /\ dataTag' = dataTag /\ restarts' = restarts
<1>. USE DEF memory, queues, disk, control, life
<1>1. TypeOK /\ JobInv /\ CacheInv
  BY DEF IInv
<1>2. CASE RetrieveUnknown \/ RetrieveHit \/ SendLoaded \/ EvictDone \/ SendEvicted
           \/ UseFetch \/ EndSave \/ EndLoad \/ SwappedWorker
  BY <1>2 DEF RetrieveUnknown, RetrieveHit, SendLoaded, EvictDone, SendEvicted,
              UseFetch, EndSave, EndLoad, SwappedWorker, Current
<1>3. CASE Create
  <2>. DEFINE c == dataTag[job.term]
  <2>1. c \in Tags /\ c \notin cache
    BY <1>1, <1>3 DEF JobInv, At, JobTag, Create
  <2>. QED  BY <1>1, <1>3, <2>1 DEF TypeOK, CacheInv, Create, AddPLS, Current
<1>4. CASE RetrieveSwapped
  <2>1. LoadEntries(dataTag[job.term])
        /\ dataTag[job.term] \in cache \ resident
        /\ resident' = resident \cup {dataTag[job.term]}
        /\ UNCHANGED <<dataTag, cache, file, restarts>>
    BY <1>4 DEF RetrieveSwapped
  <2>. QED  BY <1>1, <2>1 DEF TypeOK, LoadEntries, Current
<1>5. CASE EvictOldest
  <2>. DEFINE c == Head(lru)
  <2>1. lru # <<>> /\ lru \in Seq(Tags) /\ IsInjective(lru) /\ pc = "evict"
    BY <1>1, <1>5 DEF TypeOK, CacheInv, EvictOldest, OverLoaded
  <2>2. c \in Tags /\ c \in resident /\ c \in cache
    BY <1>1, <2>1, TailFacts DEF CacheInv
  <2>3. /\ DumpEntries(c) /\ resident' = resident \ {c}
        /\ postings' = [postings EXCEPT ![c] = {}]
        /\ UNCHANGED <<dataTag, cache, restarts>>
    BY <1>5 DEF EvictOldest
  <2>. QED  BY <1>1, <2>2, <2>3 DEF TypeOK, DumpEntries, Current
<1>6. ASSUME NEW c \in Tags, SaveReload(c) \/ SaveDump(c)
      PROVE  /\ \A b \in Tags : Current(b)' = Current(b)
             /\ dataTag' = dataTag /\ restarts' = restarts
  <2>1. CASE SaveReload(c)
    <3>1. job.kind = "save" /\ c \in cache \ resident /\ LoadEntries(c)
          /\ resident' = resident \cup {c}
          /\ UNCHANGED <<dataTag, cache, file, restarts>>
      BY <1>1, <2>1 DEF JobInv, At, SaveReload
    <3>. QED  BY <1>1, <3>1 DEF TypeOK, LoadEntries, Current
  <2>2. CASE SaveDump(c)
    <3>1. c \in resident /\ DumpEntries(c)
          /\ UNCHANGED <<dataTag, cache, resident, postings, restarts>>
      BY <1>1, <2>2 DEF JobInv, At, SaveDump
    <3>. QED  BY <1>1, <3>1 DEF TypeOK, DumpEntries, Current
  <2>. QED  BY <1>6, <2>1, <2>2
<1>. QED  BY <1>2, <1>3, <1>4, <1>5, <1>6 DEF Moving

\* A split takes the entries of one term from one current copy to another.
LEMMA SplitFacts ==
    ASSUME IInv, ListInv, RetrieveSplit
    PROVE  \E t \in Terms, c \in resident, n \in Tags \ cache :
             /\ t = job.term /\ c = dataTag[t] /\ t \in listed[c]
             /\ dataTag' = [dataTag EXCEPT ![t] = n]
             /\ Current(c)' = Current(c) \ EntriesOf(Current(c), t)
             /\ Current(n)' = EntriesOf(Current(c), t)
             /\ \A b \in Tags \ {c, n} : Current(b)' = Current(b)
             /\ postings' = [postings EXCEPT ![c] = @ \ EntriesOf(@, t),
                                             ![n] = EntriesOf(postings[c], t)]
             /\ listed' = [listed EXCEPT ![c] = @ \ {t}, ![n] = {t}]
             /\ resident' = resident \cup {n} /\ cache' = cache \cup {n}
             /\ pc' = "evict" /\ job' = [job EXCEPT !.then = "retrieve"]
             /\ UNCHANGED <<disk, todo, life>>
<1>. USE DEF memory, queues, disk, control, life
<1>1. TypeOK /\ JobInv /\ CacheInv
  BY DEF IInv
<1>2a. PICK t \in Terms, c \in resident : t = job.term /\ c = dataTag[t]
  BY <1>1 DEF JobInv, At, JobTag, RetrieveSplit
<1>2. /\ pc = "retrieve" /\ t \in Terms /\ c \in Tags /\ c \in resident /\ c \in cache
      /\ OverSize(c)
  BY <1>1, <1>2a DEF TypeOK, CacheInv, RetrieveSplit
<1>3. t \in listed[c]
  BY <1>2, <1>2a DEF ListInv, At, JobTag, Indexed, Current
<1>4. PICK n \in FreshTags :
        /\ dataTag' = [dataTag EXCEPT ![t] = n]
        /\ TransferPL(c, n, t, Cardinality(EntriesOf(postings[c], t))) /\ AddPLS(n)
  BY <1>2a DEF RetrieveSplit
<1>5. n \in Tags \ cache /\ n # c /\ n \notin resident
  BY <1>1, <1>2 DEF FreshTags, CacheInv
<1>6. Evicting("retrieve") /\ UNCHANGED <<disk, todo, life>>
  BY <1>2a, <1>3 DEF RetrieveSplit
<1>7. /\ postings' = [postings EXCEPT ![c] = @ \ EntriesOf(@, t),
                                      ![n] = EntriesOf(postings[c], t)]
      /\ listed' = [listed EXCEPT ![c] = @ \ {t}, ![n] = {t}]
      /\ resident' = resident \cup {n} /\ cache' = cache \cup {n}
  BY <1>4 DEF TransferPL, AddPLS
<1>8. /\ postings'[c] = postings[c] \ EntriesOf(postings[c], t)
      /\ postings'[n] = EntriesOf(postings[c], t)
      /\ \A b \in Tags \ {c, n} : postings'[b] = postings[b]
  BY <1>1, <1>2, <1>5, <1>7 DEF TypeOK
<1>9. /\ Current(c)' = Current(c) \ EntriesOf(Current(c), t)
      /\ Current(n)' = EntriesOf(Current(c), t)
      /\ \A b \in Tags \ {c, n} : Current(b)' = Current(b)
  <2>1. c \in resident' /\ n \in resident' /\ c \in resident /\ file' = file
    BY <1>2, <1>6, <1>7
  <2>2. Current(c) = postings[c] /\ Current(c)' = postings'[c] /\ Current(n)' = postings'[n]
    BY <2>1 DEF Current
  <2>3. \A b \in Tags \ {c, n} : Current(b)' = Current(b)
    BY <1>7, <1>8, <2>1 DEF Current
  <2>. QED  BY <1>8, <2>2, <2>3
<1>. QED
  <2>1. job' = [job EXCEPT !.then = "retrieve"] /\ pc' = "evict"
    BY <1>6 DEF Evicting
  <2>. QED  BY <1>2, <1>2a, <1>3, <1>4, <1>5, <1>6, <1>7, <1>9, <2>1
-----------------------------------------------------------------------------
(* Lists and entries stay together.                                        *)

LEMMA InitList == Init => ListInv /\ SaveInv
<1>. SUFFICES ASSUME Init PROVE ListInv /\ SaveInv
  OBVIOUS
<1>1. ListInv
  BY DEF Init, ListInv, At, InEvict
<1>2. SaveInv
  BY DEF Init, SaveInv, NoJob
<1>. QED  BY <1>1, <1>2

\* A term that is picked up by a call has an entry, unless it is new; then
\* LeastUsedPLS has given it a set with room or one that does not exist yet.
LEMMA CallKeepsLists ==
    ASSUME IInv, ListInv, Call
    PROVE  ListInv'
<1>. USE DEF memory, queues, disk, control, life
<1>1. TypeOK /\ JobInv /\ CacheInv
  BY DEF IInv
<1>2. pc = "idle" /\ job.kind = "none"
  BY <1>1 DEF JobInv, Call, InsertKnown, InsertNew, Fetch, PruneTerm, BeginPrune, BeginSave
<1>3. \A t \in Terms : dataTag[t] # None => Indexed(t)
  BY <1>2 DEF ListInv
<1>4. ASSUME NEW t \in Terms, NEW d, InsertKnown(t, d) \/ Fetch(t) \/ PruneTerm(t)
      PROVE  ListInv'
  <2>1. /\ pc' = "retrieve" /\ job'.term = t /\ dataTag[t] # None
        /\ UNCHANGED memory /\ UNCHANGED file
    BY <1>1, <1>4, NoneAssumption DEF JobInv, InsertKnown, Fetch, PruneTerm, Begin, NoJob
  <2>. QED  BY <1>3, <2>1 DEF ListInv, Indexed, Current, TermsOf, At, InEvict, JobTag
<1>5. ASSUME NEW t \in Terms, NEW d, InsertNew(t, d) PROVE ListInv'
  <2>1. PICK c \in LeastUsedPLS : dataTag' = [dataTag EXCEPT ![t] = c]
    BY <1>5 DEF InsertNew
  <2>2. c \in Tags
    BY <1>1, LeastUsedType
  <2>3. c \notin cache \/ ~OverSize(c)
    <3>1. PerPLS \in Int /\ size[c] \in Int
      BY <1>1, <2>2, MaxLoadAssumption DEF PerPLS, TypeOK
    <3>2. c \in FreshTags \/ HasRoom(c, 100) \/ HasRoom(c, 95) \/ HasRoom(c, 75)
      BY <2>1 DEF LeastUsedPLS, First
    <3>3. MaxLoad > 0 => PerPLS >= 0
      BY MaxLoadAssumption DEF PerPLS
    <3>. QED  BY <3>1, <3>2, <3>3, MaxLoadAssumption DEF FreshTags, HasRoom, OverSize
  <2>4. /\ pc' = "retrieve" /\ job'.kind = "register" /\ job'.term = t
        /\ UNCHANGED <<cache, resident, listed, postings, size, file>>
    BY <1>5 DEF InsertNew, Begin, NoJob
  <2>5. dataTag'[t] = c /\ \A u \in Terms : u # t => dataTag'[u] = dataTag[u]
    BY <1>1, <2>1, <2>2 DEF TypeOK
  <2>. QED  BY <1>3, <2>3, <2>4, <2>5 
            DEF ListInv, Indexed, Current, TermsOf, At, InEvict, JobTag, OverSize
<1>6. CASE BeginPrune \/ BeginSave
  BY <1>2, <1>3, <1>6
     DEF ListInv, Indexed, Current, TermsOf, At, InEvict, JobTag, BeginPrune, BeginSave
<1>. QED  BY <1>4, <1>5, <1>6 DEF Call

\* Moving sets about leaves every entry where a lookup finds it.
LEMMA MovesKeepLists ==
    ASSUME IInv, ListInv, Moving
    PROVE  ListInv'
<1>. USE DEF memory, queues, disk, control, life
<1>1. TypeOK /\ JobInv /\ CacheInv
  BY DEF IInv
<1>2. /\ \A c \in Tags : Current(c)' = Current(c)
      /\ dataTag' = dataTag
  BY MovesKeepContents
<1>3. \A t \in Terms : dataTag[t] \in Tags /\ Indexed(t) => Indexed(t)'
  <2>. SUFFICES ASSUME NEW t \in Terms, dataTag[t] \in Tags, Indexed(t)
                PROVE  Indexed(t)'
    OBVIOUS
  <2>1. PICK c \in Tags : c = dataTag[t]
    OBVIOUS
  <2>. QED  BY <1>2, <2>1 DEF Indexed, TermsOf, Current
<1>4. \/ job'.kind = job.kind /\ job'.term = job.term
      \/ job.kind # "register"
  <2>1. job \in Jobs
    BY <1>1 DEF TypeOK
  <2>2. CASE EndSave \/ EndLoad
    BY <1>1, <2>2 DEF JobInv, At, EndSave, EndLoad
  <2>3. CASE ~(EndSave \/ EndLoad)
    BY <2>1, <2>3 DEF Moving, Jobs, RetrieveUnknown, Create, RetrieveHit, RetrieveSwapped,
          SendLoaded, EvictDone, EvictOldest, SendEvicted, UseFetch, SaveReload,
          SaveDump, SwappedWorker, Evicting
  <2>. QED  BY <2>2, <2>3
<1>5. \A t \in Terms : dataTag'[t] # None =>
           Indexed(t)' \/ (job'.kind = "register" /\ job'.term = t)
  BY <1>1, <1>2, <1>3, <1>4 DEF TypeOK, ListInv
<1>6. \A c \in resident' : TermsOf(postings[c])' \subseteq listed'[c]
  <2>1. CASE RetrieveUnknown \/ RetrieveHit \/ SendLoaded \/ EvictDone \/ SendEvicted
             \/ EndSave \/ EndLoad \/ SwappedWorker \/ \E c \in Tags : SaveDump(c)
    BY <2>1 DEF ListInv, RetrieveUnknown, RetrieveHit, SendLoaded, EvictDone, SendEvicted,
                EndSave, EndLoad, SwappedWorker, SaveDump, TermsOf
  <2>2. CASE Create
    <3>1. PICK c \in Tags : c = dataTag[job.term] /\ c \notin resident
      BY <1>1, <2>2 DEF JobInv, CacheInv, At, JobTag, Create
    <3>2. /\ resident' = resident \cup {c}
          /\ listed' = [listed EXCEPT ![c] = {}] /\ postings' = [postings EXCEPT ![c] = {}]
      BY <2>2, <3>1 DEF Create, AddPLS
    <3>. QED  BY <1>1, <3>1, <3>2 DEF TypeOK, ListInv, TermsOf
  <2>3. CASE RetrieveSwapped \/ \E c \in Tags : SaveReload(c)
    <3>1. PICK c \in Tags : resident' = resident \cup {c} /\ LoadEntries(c)
      BY <1>1, <2>3 DEF JobInv, At, JobTag, RetrieveSwapped, SaveReload
    <3>. QED  BY <1>1, <3>1 DEF TypeOK, ListInv, LoadEntries, TermsOf
  <2>4. CASE EvictOldest
    <3>1. PICK c : /\ resident' = resident \ {c}
                   /\ listed' = [listed EXCEPT ![c] = {}]
                   /\ postings' = [postings EXCEPT ![c] = {}]
      BY <2>4 DEF EvictOldest
    <3>. QED  BY <1>1, <3>1 DEF TypeOK, ListInv, TermsOf
  <2>5. CASE UseFetch
    BY <1>1, <2>5 DEF TypeOK, ListInv, UseFetch, TermsOf
  <2>. QED  BY <2>1, <2>2, <2>3, <2>4, <2>5 DEF Moving
<1>7. At("retrieve")' => /\ At("retrieve") /\ job'.term = job.term
                         /\ UNCHANGED <<size, cache>>
  <2>1. CASE EvictDone \/ EvictOldest \/ SendEvicted \/ SwappedWorker
    BY <1>1, <2>1 DEF JobInv, At, InEvict, Continuations, EvictDone, EvictOldest,
                      SendEvicted, SwappedWorker
  <2>2. CASE ~(EvictDone \/ EvictOldest \/ SendEvicted \/ SwappedWorker)
    <3>1. ~At("retrieve")'
      BY <1>1, <2>2 DEF TypeOK, Jobs, Moving, JobInv, At, InEvict, RetrieveUnknown, Create, RetrieveHit,
            RetrieveSwapped, SendLoaded, UseFetch, SaveReload, SaveDump, EndSave,
            EndLoad, Evicting, Return, NoJob
    <3>. QED  BY <3>1
  <2>. QED  BY <2>1, <2>2
<1>8. At("retrieve")' =>
        Indexed(job.term)' \/ JobTag' \notin cache' \/ ~OverSize(JobTag)'
  <2>. SUFFICES ASSUME At("retrieve")'
                PROVE  Indexed(job.term)' \/ JobTag' \notin cache' \/ ~OverSize(JobTag)'
    OBVIOUS
  <2>1. PICK t \in Terms : t = job.term /\ t = job'.term /\ dataTag[t] \in Tags
    BY <1>1, <1>7 DEF JobInv, JobTag
  <2>2. Indexed(t) \/ dataTag[t] \notin cache \/ ~OverSize(dataTag[t])
    BY <1>7, <2>1 DEF ListInv, JobTag
  <2>3. Indexed(t)' \/ dataTag'[t] \notin cache' \/ ~OverSize(dataTag[t])'
    BY <1>2, <1>3, <1>7, <2>1, <2>2 DEF OverSize
  <2>. QED  BY <2>1, <2>3 DEF JobTag, Indexed, OverSize, TermsOf, Current
<1>9. pc' # "panicTransfer"
  BY <1>1 DEF ListInv, Moving, JobInv, InEvict, Continuations, RetrieveUnknown, Create, RetrieveHit,
        RetrieveSwapped, SendLoaded, EvictDone, EvictOldest, SendEvicted, UseFetch,
        SaveReload, SaveDump, EndSave, EndLoad, SwappedWorker, Evicting, Return
<1>. QED  BY <1>5, <1>6, <1>8, <1>9 DEF ListInv

\* A split moves a list with its entries; a caller adds to the list it was
\* given; a pruner leaves one entry.
LEMMA WritesKeepLists ==
    ASSUME IInv, ListInv, RetrieveSplit \/ UseRegister \/ UsePrune
    PROVE  ListInv'
<1>. USE DEF memory, queues, disk, control, life
<1>1. TypeOK /\ JobInv /\ CacheInv
  BY DEF IInv
<1>2. CASE RetrieveSplit
  <2>1. PICK t \in Terms, c \in resident, n \in Tags \ cache :
             /\ t = job.term /\ c = dataTag[t] /\ t \in listed[c]
             /\ dataTag' = [dataTag EXCEPT ![t] = n]
             /\ Current(c)' = Current(c) \ EntriesOf(Current(c), t)
             /\ Current(n)' = EntriesOf(Current(c), t)
             /\ \A b \in Tags \ {c, n} : Current(b)' = Current(b)
             /\ postings' = [postings EXCEPT ![c] = @ \ EntriesOf(@, t),
                                             ![n] = EntriesOf(postings[c], t)]
             /\ listed' = [listed EXCEPT ![c] = @ \ {t}, ![n] = {t}]
             /\ resident' = resident \cup {n} /\ cache' = cache \cup {n}
             /\ pc' = "evict" /\ job' = [job EXCEPT !.then = "retrieve"]
             /\ UNCHANGED <<disk, todo, life>>
    BY <1>2, SplitFacts
  <2>2. /\ c \in Tags /\ c # n /\ pc = "retrieve" /\ OverSize(c)
        /\ job'.term = t /\ job'.kind = job.kind /\ n \notin resident /\ c \in cache
    BY <1>1, <1>2, <2>1 DEF TypeOK, Jobs, CacheInv, RetrieveSplit
  <2>3. t \in TermsOf(Current(c))
    BY <2>1, <2>2 DEF ListInv, At, JobTag, Indexed
  <2>4. dataTag'[t] = n /\ \A u \in Terms \ {t} : dataTag'[u] = dataTag[u]
    BY <1>1, <2>1 DEF TypeOK
  <2>5. t \in TermsOf(Current(n))'
    BY <2>1, <2>3 DEF TermsOf, EntriesOf
  <2>6. Indexed(t)'
    BY <2>4, <2>5 DEF Indexed, TermsOf, Current
  <2>7. ASSUME NEW u \in Terms \ {t}, dataTag'[u] # None
        PROVE  Indexed(u)' \/ (job'.kind = "register" /\ job'.term = u)
    <3>1. PICK b \in Tags : b = dataTag[u] /\ b = dataTag'[u]
      BY <1>1, <2>4, <2>7 DEF TypeOK
    <3>2. u \in TermsOf(Current(b))
      BY <2>1, <2>4, <2>7, <3>1 DEF ListInv, Indexed
    <3>3. CASE b = n
      <4>1. Current(n) = {}
        BY <2>1, <2>2 DEF Current
      <4>. QED  BY <3>2, <3>3, <4>1 DEF TermsOf
    <3>4. CASE b = c
      <4>1. u \in TermsOf(Current(c))'
        BY <2>1, <2>7, <3>2, <3>4 DEF TermsOf, EntriesOf
      <4>. QED  BY <3>1, <3>4, <4>1 DEF Indexed, TermsOf, Current
    <3>5. CASE b # n /\ b # c
      <4>1. u \in TermsOf(Current(b))'
        BY <2>1, <3>2, <3>5 DEF TermsOf
      <4>. QED  BY <3>1, <4>1 DEF Indexed, TermsOf, Current
    <3>. QED  BY <3>3, <3>4, <3>5
  <2>8. ASSUME NEW b \in resident' PROVE TermsOf(postings'[b]) \subseteq listed'[b]
    <3>1. CASE b = n
      BY <1>1, <2>1, <2>2, <3>1 DEF TypeOK, TermsOf, EntriesOf
    <3>2. CASE b = c
      <4>1. \A e \in postings'[c] : e \in postings[c] /\ e[1] # t
        BY <1>1, <2>1, <2>2 DEF TypeOK, EntriesOf
      <4>2. listed'[c] = listed[c] \ {t} /\ TermsOf(postings[c]) \subseteq listed[c]
        BY <1>1, <2>1, <2>2 DEF TypeOK, ListInv
      <4>. QED  BY <3>2, <4>1, <4>2 DEF TermsOf
    <3>3. CASE b # n /\ b # c
      BY <1>1, <2>1, <2>2, <3>3 DEF TypeOK, ListInv
    <3>. QED  BY <3>1, <3>2, <3>3
  <2>9. \A b \in resident' : TermsOf(postings[b])' \subseteq listed'[b]
    BY <2>8 DEF TermsOf
  <2>10. \A u \in Terms : dataTag'[u] # None =>
              Indexed(u)' \/ (job'.kind = "register" /\ job'.term = u)
    BY <2>6, <2>7
  <2>11. Indexed(job.term)'
    BY <2>2, <2>6 DEF Indexed, TermsOf, Current
  <2>. QED  BY <2>1, <2>9, <2>10, <2>11 DEF ListInv
<1>3. CASE UseRegister \/ UsePrune
  <2>1. PICK t \in Terms, c \in resident : t = job.term /\ c = dataTag[t] /\ pc = "use"
    BY <1>1, <1>3 DEF JobInv, At, JobTag, UseRegister, UsePrune
  <2>2. PICK S \in SUBSET (Terms \X Docs) :
          /\ postings' = [postings EXCEPT ![c] = S]
          /\ TermsOf(S) \subseteq TermsOf(postings[c]) \cup {t}
          /\ \A u \in TermsOf(postings[c]) : u \in TermsOf(S)
          /\ UseRegister => t \in TermsOf(S)
    <3>0. postings[c] \in SUBSET (Terms \X Docs)
      BY <1>1, <2>1 DEF TypeOK
    <3>1. CASE UseRegister
      <4>. DEFINE p == <<t, job.doc>>
                  S == postings[c] \cup {p}
      <4>1. postings' = [postings EXCEPT ![c] = S] /\ job.doc \in Docs
        BY <1>1, <2>1, <3>1 DEF JobInv, UseRegister
      <4>2. S \in SUBSET (Terms \X Docs)
        BY <3>0, <4>1
      <4>3. TermsOf(S) = TermsOf(postings[c]) \cup {t}
        <5>1. S = postings[c] \cup {p} /\ p[1] = t
          OBVIOUS
        <5>. HIDE DEF S, p
        <5>2. \A u : u \in TermsOf(S) <=> u \in TermsOf(postings[c]) \/ u = t
          BY <5>1 DEF TermsOf
        <5>. QED  BY <5>2
      <4>. QED  BY <4>1, <4>2, <4>3
    <3>2. CASE UsePrune
      <4>1. PICK gone \in SUBSET EntriesOf(postings[c], t) :
                /\ gone = EntriesOf(postings[c], t) => gone = {}
                /\ postings' = [postings EXCEPT ![c] = @ \ gone]
        BY <2>1, <3>2 DEF UsePrune
      <4>. DEFINE S == postings[c] \ gone
      <4>2. S \in SUBSET (Terms \X Docs) /\ TermsOf(S) \subseteq TermsOf(postings[c])
        BY <3>0 DEF TermsOf
      <4>3. \A u \in TermsOf(postings[c]) : u \in TermsOf(S)
        BY <4>1 DEF TermsOf, EntriesOf
      <4>4. ~UseRegister
        BY <3>2 DEF UsePrune, UseRegister
      <4>. QED  BY <4>1, <4>2, <4>3, <4>4
    <3>. QED  BY <1>3, <3>1, <3>2
  <2>3. /\ listed' = [listed EXCEPT ![c] = @ \cup {t}]
        /\ pc' = "idle" /\ job' = NoJob
        /\ UNCHANGED <<dataTag, cache, resident, file>>
    BY <1>3, <2>1 DEF UseRegister, UsePrune, Return
  <2>4. \A b \in resident' : TermsOf(postings[b])' \subseteq listed'[b]
    <3>. SUFFICES ASSUME NEW b \in resident PROVE TermsOf(postings'[b]) \subseteq listed'[b]
      BY <2>3 DEF TermsOf
    <3>1. CASE b = c
      BY <1>1, <2>1, <2>2, <2>3, <3>1 DEF TypeOK, ListInv
    <3>2. CASE b # c
      BY <1>1, <2>1, <2>2, <2>3, <3>2 DEF TypeOK, ListInv
    <3>. QED  BY <3>1, <3>2
  <2>5. ASSUME NEW u \in Terms, dataTag'[u] # None PROVE Indexed(u)'
    <3>1. PICK b \in Tags : b = dataTag[u] /\ b = dataTag'[u]
      BY <1>1, <2>3, <2>5 DEF TypeOK
    <3>2. b \notin resident \/ b # c => Current(b)' = Current(b)
      BY <1>1, <2>1, <2>2, <2>3 DEF TypeOK, Current
    <3>3. b = c => Current(b)' = S /\ Current(b) = postings[c]
      BY <1>1, <2>1, <2>2, <2>3 DEF TypeOK, Current
    <3>4. CASE u = t
      <4>1. t \in TermsOf(S)
        BY <1>3, <2>1, <2>2, <2>5, <3>1, <3>3, <3>4 DEF ListInv, Indexed, UsePrune
      <4>. QED  BY <2>1, <3>1, <3>3, <3>4, <4>1 DEF Indexed, Current, TermsOf
    <3>5. CASE u # t
      <4>1. u \in TermsOf(Current(b))
        BY <2>1, <2>5, <3>1, <3>5 DEF ListInv, Indexed
      <4>2. u \in TermsOf(Current(b))'
        BY <2>2, <3>2, <3>3, <4>1 DEF TermsOf
      <4>. QED  BY <3>1, <4>2 DEF Indexed, Current, TermsOf
    <3>. QED  BY <3>4, <3>5
  <2>. QED  BY <2>3, <2>4, <2>5 DEF ListInv, NoJob, At, InEvict
<1>. QED  BY <1>2, <1>3

\* What a new process reads from a file it finds again under that file's tag.
LEMMA LoadKeepsLists ==
    ASSUME IInv, ListInv, NEW c \in Tags, LoadFile(c)
    PROVE  ListInv'
<1>. USE DEF memory, queues, disk, control, life
<1>1. TypeOK /\ JobInv /\ CacheInv
  BY DEF IInv
<1>2. /\ pc = "load" /\ c \notin cache /\ c \notin resident /\ job.kind = "load"
  BY <1>1 DEF JobInv, CacheInv, At, LoadFile
<1>3. /\ pc' = "evict" /\ job'.then = "load" /\ job'.kind = "load"
      /\ cache' = cache \cup {c} /\ resident' = resident \cup {c} /\ file' = file
      /\ LoadEntries(c)
  BY <1>1, <1>2 DEF TypeOK, Jobs, LoadFile, AddPLS, Evicting
<1>4. /\ postings'[c] = file[c] /\ listed'[c] = TermsOf(file[c])
      /\ \A b \in Tags \ {c} : postings'[b] = postings[b] /\ listed'[b] = listed[b]
  BY <1>1, <1>3 DEF TypeOK, LoadEntries
<1>5. \A b \in resident' : TermsOf(postings[b])' \subseteq listed'[b]
  <2>. SUFFICES ASSUME NEW b \in resident' PROVE TermsOf(postings'[b]) \subseteq listed'[b]
    BY DEF TermsOf
  <2>. QED  BY <1>1, <1>3, <1>4 DEF TypeOK, ListInv
<1>6. Current(c)' = file[c] /\ \A b \in Tags \ {c} : Current(b)' = Current(b)
  BY <1>3, <1>4 DEF Current
<1>7. ASSUME NEW u \in Terms, dataTag'[u] # None PROVE Indexed(u)'
  <2>1. \/ dataTag'[u] = c /\ u \in TermsOf(file[c])
        \/ dataTag'[u] = dataTag[u]
    BY <1>1 DEF TypeOK, LoadFile
  <2>2. CASE dataTag'[u] = c /\ u \in TermsOf(file[c])
    <3>1. u \in TermsOf(Current(c))'
      BY <1>6, <2>2 DEF TermsOf
    <3>. QED  BY <2>2, <3>1 DEF Indexed, Current, TermsOf
  <2>3. CASE dataTag'[u] = dataTag[u]
    <3>1. PICK b \in Tags : b = dataTag[u] /\ b = dataTag'[u]
      BY <1>1, <1>7, <2>3 DEF TypeOK
    <3>2. u \in TermsOf(Current(b))
      BY <1>2, <1>7, <3>1 DEF ListInv, Indexed
    <3>3. b # c
      BY <1>2, <3>2 DEF Current, TermsOf
    <3>4. u \in TermsOf(Current(b))'
      BY <1>6, <3>2, <3>3 DEF TermsOf
    <3>. QED  BY <3>1, <3>4 DEF Indexed, Current, TermsOf
  <2>. QED  BY <2>1, <2>2, <2>3
<1>. QED  BY <1>3, <1>5, <1>7 DEF ListInv, At, InEvict

LEMMA ListStep == IInv /\ ListInv /\ [Next]_vars => ListInv'
<1>. USE DEF memory, queues, disk, control, life
<1>. SUFFICES ASSUME IInv, ListInv, [Next]_vars PROVE ListInv'
  OBVIOUS
<1>1. CASE UNCHANGED vars
  BY <1>1 DEF vars, ListInv, Indexed, Current, TermsOf, At, InEvict, JobTag, OverSize
<1>2. CASE Restart
  BY <1>2 DEF Restart, ListInv, At, InEvict
<1>3. CASE Proceed \/ SwappedWorker
  BY <1>3, MovesKeepLists, WritesKeepLists, LoadKeepsLists DEF Proceed, Moving
<1>. QED  BY <1>1, <1>2, <1>3, CallKeepsLists DEF Next
-----------------------------------------------------------------------------
(* SaveToDisk.                                                             *)

\* evict() may drop a set before or after SaveToDisk has visited it: either
\* way its file is rewritten with what the set holds.
LEMMA SaveInvStep == IInv /\ ListInv /\ SaveInv /\ [Next]_vars => SaveInv'
<1>. USE DEF memory, queues, disk, control, life
<1>. SUFFICES ASSUME IInv, ListInv, SaveInv, [Next]_vars PROVE SaveInv'
  OBVIOUS
<1>1. TypeOK /\ JobInv /\ CacheInv
  BY DEF IInv
<1>2. CASE UNCHANGED vars
  BY <1>2 DEF vars, SaveInv, Current
<1>3. CASE Call \/ Restart
  BY <1>1, <1>3 DEF Call, InsertKnown, InsertNew, Fetch, PruneTerm, BeginPrune, BeginSave,
                    Restart, Begin, NoJob, SaveInv, JobInv
<1>4. CASE RetrieveSplit \/ UseRegister \/ UsePrune \/ \E c \in Tags : LoadFile(c)
  <2>1. CASE RetrieveSplit
    <3>1. /\ job.kind # "save" /\ job'.kind = job.kind /\ onDisk' = onDisk
          /\ cache \subseteq cache' /\ phase' = phase
      BY <1>1, <2>1 DEF TypeOK, Jobs, JobInv, At, RetrieveSplit, AddPLS, Evicting
    <3>. QED  BY <3>1 DEF SaveInv
  <2>2. CASE UseRegister \/ UsePrune
    BY <2>2 DEF UseRegister, UsePrune, Return, NoJob, SaveInv
  <2>3. ASSUME NEW c \in Tags, LoadFile(c) PROVE SaveInv'
    <3>1. job'.kind = "load" /\ phase' = "serve"
      BY <1>1, <2>3 DEF TypeOK, Jobs, JobInv, At, LoadFile, Evicting
    <3>. QED  BY <3>1 DEF SaveInv
  <2>. QED  BY <1>4, <2>1, <2>2, <2>3
<1>5. CASE Moving
  <2>1. \A c \in Tags : Current(c)' = Current(c)
    BY <1>5, MovesKeepContents
  <2>2. CASE RetrieveUnknown \/ RetrieveHit \/ RetrieveSwapped \/ SendLoaded \/ EvictDone
             \/ SendEvicted \/ SwappedWorker
    <3>1. job'.kind = job.kind /\ UNCHANGED <<cache, file, onDisk, todo, phase>>
      BY <1>1, <2>2 DEF TypeOK, Jobs, RetrieveUnknown, RetrieveHit, RetrieveSwapped, SendLoaded,
            EvictDone, SendEvicted, SwappedWorker, Evicting
    <3>. QED  BY <1>1, <2>1, <3>1 DEF TypeOK, SaveInv
  <2>3. CASE Create
    <3>1. job.kind # "save" /\ job' = job /\ onDisk' = onDisk /\ phase' = phase
          /\ cache \subseteq cache'
      BY <1>1, <2>3 DEF JobInv, At, Create, AddPLS
    <3>. QED  BY <3>1 DEF SaveInv
  <2>4. CASE EvictOldest
    <3>1. lru # <<>> /\ lru \in Seq(Tags) /\ IsInjective(lru) /\ pc = "evict"
      BY <1>1, <2>4 DEF TypeOK, CacheInv, EvictOldest, OverLoaded
    <3>2. PICK c \in Tags : c = Head(lru) /\ c \in resident /\ c \in cache
      BY <1>1, <3>1, TailFacts DEF CacheInv
    <3>3. /\ file' = [file EXCEPT ![c] = postings[c]] /\ onDisk' = onDisk \cup {c}
          /\ job' = job /\ UNCHANGED <<cache, todo, phase>>
      BY <2>4, <3>2 DEF EvictOldest, DumpEntries
    <3>4. file'[c] = Current(c) /\ \A b \in Tags \ {c} : file'[b] = file[b]
      BY <1>1, <3>2, <3>3 DEF TypeOK, Current
    <3>. QED  BY <1>1, <2>1, <3>2, <3>3, <3>4 DEF TypeOK, SaveInv
  <2>5. CASE UseFetch \/ EndSave \/ EndLoad
    BY <1>1, <2>5 DEF JobInv, At, UseFetch, EndSave, EndLoad, Return, NoJob, SaveInv
  <2>6. ASSUME NEW c \in Tags, SaveReload(c) PROVE SaveInv'
    <3>1. job'.kind = job.kind /\ UNCHANGED <<cache, file, onDisk, todo, phase>>
      BY <1>1, <2>6 DEF TypeOK, Jobs, SaveReload
    <3>. QED  BY <1>1, <2>1, <3>1 DEF TypeOK, SaveInv
  <2>7. ASSUME NEW c \in Tags, SaveDump(c) PROVE SaveInv'
    <3>1. /\ c \in resident /\ c \in cache /\ job.kind = "save" /\ job' = job
          /\ file' = [file EXCEPT ![c] = postings[c]] /\ onDisk' = onDisk \cup {c}
          /\ todo' = todo \ {c} /\ UNCHANGED <<cache, phase>>
      BY <1>1, <2>7 DEF JobInv, CacheInv, At, SaveDump, DumpEntries
    <3>2. file'[c] = Current(c) /\ \A b \in Tags \ {c} : file'[b] = file[b]
      BY <1>1, <3>1 DEF TypeOK, Current
    <3>. QED  BY <1>1, <2>1, <3>1, <3>2 DEF TypeOK, SaveInv
  <2>. QED  BY <1>5, <2>2, <2>3, <2>4, <2>5, <2>6, <2>7 DEF Moving
<1>. QED  BY <1>2, <1>3, <1>4, <1>5 DEF Next, Proceed, Moving

AllInv == IInv /\ ListInv /\ SaveInv

LEMMA AllInvHolds == Spec => []AllInv
<1>1. Init => AllInv
  BY InitIInv, InitList DEF AllInv
<1>2. AllInv /\ [Next]_vars => AllInv'
  BY Inductive, ListStep, SaveInvStep DEF AllInv
<1>. QED  BY <1>1, <1>2, PTL DEF Spec

\* None of the panics of evict, TransferPL, RetrievePLS and dump_pls can be
\* reached: sizes agree when a set is evicted, a list that is split off is
\* there, a set that is dumped is in memory and one that is not has a file.
THEOREM NeverPanics == Spec => []NoPanic
<1>1. AllInv => NoPanic
  BY DEF AllInv, IInv, CacheInv, ListInv, NoPanic, Panics
<1>. QED  BY <1>1, AllInvHolds, PTL

\* When SaveToDisk ends, the files hold for each term exactly what a lookup of
\* the term answers, wherever its set was evicted to in the meantime.
THEOREM SavesAreComplete == Spec => SaveIsComplete
<1>1. AllInv /\ [Next]_vars =>
        [EndSave => \A t \in Terms : Contents(t)
                    = UNION {DocsOf(file[c], t) : c \in onDisk}]_vars
  <2>. SUFFICES ASSUME AllInv, EndSave, NEW t \in Terms
                PROVE  Contents(t) = UNION {DocsOf(file[c], t) : c \in onDisk}
    OBVIOUS
  <2>1. /\ TypeOK /\ OneHome /\ CacheInv /\ SaveInv /\ ListInv /\ job.kind = "save" /\ todo = {}
        /\ phase \in {"build", "prune"}
    BY DEF AllInv, IInv, JobInv, At, EndSave
  <2>2. onDisk = cache /\ \A c \in cache : file[c] = Current(c)
    BY <2>1 DEF SaveInv
  <2>3. \A c \in cache : DocsOf(file[c], t) # {} => dataTag[t] = c
    BY <2>1, <2>2 DEF OneHome, DocsOf, EntriesOf, TermsOf
  <2>4. Contents(t) = IF dataTag[t] # None THEN DocsOf(Current(dataTag[t]), t) ELSE {}
    BY <2>1 DEF Contents, Unread
  <2>5. CASE dataTag[t] = None
    <3>1. \A c \in cache : c # None
      BY <2>1, NoneAssumption DEF TypeOK
    <3>. QED  BY <2>2, <2>3, <2>4, <2>5, <3>1
  <2>6. CASE dataTag[t] # None
    <3>1. dataTag[t] \in cache
      BY <2>1, <2>6 DEF ListInv, Indexed, TermsOf, Current, OneHome, CacheInv
    <3>. QED  BY <2>2, <2>3, <2>4, <2>6, <3>1
  <2>. QED  BY <2>5, <2>6
<1>. QED  BY <1>1, AllInvHolds, PTL DEF Spec, SaveIsComplete
-----------------------------------------------------------------------------
(* How large a set that is shared may grow.                                *)

\* Entries of more than one term.
Crowd(S) == \E e, f \in S : e[1] # f[1]
Slack(c) == IF c \in resident \ Range(lru) \/ phase = "serve" THEN 2 ELSE 1

\* A container's Size covers its entries; while a list is fetched to register
\* in it, it has room for one more, unless the term has the set to itself.
SizeInv ==
    /\ \A c \in resident : listed[c] \subseteq TermsOf(postings[c])
    /\ \A c \in cache : Cardinality(Current(c)) <= size[c]
    /\ \A c \in cache : Crowd(Current(c)) => size[c] <= PerPLS + Slack(c)
    /\ \A c \in Tags : Crowd(file[c]) => Cardinality(file[c]) <= PerPLS + 2
    /\ job.kind = "register" =>
         Indexed(job.term) \/ JobTag \notin cache \/ size[JobTag] <= PerPLS
    /\ job.kind = "register" /\ (At("use") \/ pc = "swapIn") /\ Crowd(Current(JobTag)) =>
         size[JobTag] <= PerPLS + IF JobTag \in Range(lru) THEN 0 ELSE 1

LEMMA PerPLSType ==
    ASSUME MaxLoad > 0
    PROVE  PerPLS \in Nat
  BY MaxLoadAssumption DEF PerPLS

\* A set of terms with two elements, by its size and by their being there.
LEMMA SharedFacts ==
    ASSUME NEW S \in SUBSET Terms
    PROVE  Cardinality(S) > 1 <=> \E t, u \in S : t # u
<1>1. IsFiniteSet(S) /\ Cardinality(S) \in Nat
  BY FiniteAssumption, FS_Subset, FS_CardinalityType
<1>2. Cardinality(S) = 0 <=> S = {}
  BY <1>1, FS_EmptySet
<1>3. Cardinality(S) = 1 <=> \E t : S = {t}
  BY <1>1, FS_Singleton
<1>4. ASSUME NEW t \in S, NEW u \in S, t # u PROVE S # {} /\ ~\E v : S = {v}
  BY <1>4
<1>5. ASSUME ~\E t, u \in S : t # u PROVE S = {} \/ \E v : S = {v}
  <2>1. ASSUME NEW v \in S PROVE S = {v}
    BY <1>5, <2>1
  <2>. QED  BY <2>1
<1>6. Cardinality(S) > 1 <=> Cardinality(S) # 0 /\ Cardinality(S) # 1
  BY <1>1
<1>. QED  BY <1>2, <1>3, <1>4, <1>5, <1>6

LEMMA CrowdFacts ==
    ASSUME NEW S
    PROVE  /\ Crowd(S) <=> \E t, u \in TermsOf(S) : t # u
           /\ ~Crowd({})
  BY DEF Crowd, TermsOf

\* Where every current copy of a set stays as it is.
LEMMA MovesKeepSizes ==
    ASSUME IInv, ListInv, SizeInv, Moving, MaxLoad > 0
    PROVE  SizeInv'
<1>. USE DEF memory, queues, disk, control, life
<1>1. TypeOK /\ JobInv /\ CacheInv
  BY DEF IInv
<1>1a. TypeOK' /\ CacheInv'
  BY Inductive DEF IInv, Next, Proceed, Moving
<1>2. (\A c : Current(c)' = Current(c)) /\ dataTag' = dataTag
  <2>1. \A c : c \notin Tags => Current(c) = {} /\ Current(c)' = {}
    BY <1>1, <1>1a DEF TypeOK, CacheInv, Current
  <2>. QED  BY <2>1, MovesKeepContents
<1>2a. job'.kind = "register" =>
         job.kind = "register" /\ job'.term = job.term /\ phase = "build"
  <2>1. job \in Jobs /\ (job.kind = "register" => phase = "build")
    BY <1>1 DEF TypeOK, JobInv
  <2>2. CASE EndSave \/ EndLoad \/ UseFetch
    BY <2>2 DEF EndSave, EndLoad, UseFetch, Return, NoJob
  <2>3. CASE ~(EndSave \/ EndLoad \/ UseFetch)
    BY <2>1, <2>3 DEF Moving, Jobs, RetrieveUnknown, Create, RetrieveHit, RetrieveSwapped,
          SendLoaded, EvictDone, EvictOldest, SendEvicted, SaveReload,
          SaveDump, SwappedWorker, Evicting
  <2>. QED  BY <2>2, <2>3
<1>3. PerPLS \in Nat /\ \A c \in Tags : size[c] \in Int /\ Current(c) \in SUBSET (Terms \X Docs)
  BY <1>1, PerPLSType DEF TypeOK, Current
<1>4. \A c \in Tags : Cardinality(Current(c)) \in Nat
  BY <1>3, PostingsAreFinite
<1>5. \A c \in Tags \ cache : Current(c) = {}
  BY <1>1 DEF Current, CacheInv
<1>6. Cardinality({}) = 0
  BY FS_EmptySet
\* A container's Size is set to 0 when it is new, to the number of entries
\* when they are read.
<1>7. /\ \A c \in cache : size'[c] <= size[c] /\ Cardinality(Current(c)) <= size'[c]
      /\ \A c \in cache' \ cache : size'[c] = 0
  <2>1. CASE Create
    <3>1. JobTag \in Tags \ cache /\ cache' = cache \cup {JobTag}
          /\ size' = [size EXCEPT ![JobTag] = 0]
      BY <1>1, <2>1 DEF JobInv, At, JobTag, Create, AddPLS
    <3>. QED  BY <1>1, <1>3, <3>1 DEF TypeOK, SizeInv
  <2>2. CASE RetrieveSwapped
    <3>1. JobTag \in cache \ resident /\ cache' = cache
          /\ size' = [size EXCEPT ![JobTag] = Cardinality(file[JobTag])]
      BY <2>2 DEF JobTag, RetrieveSwapped
    <3>2. Current(JobTag) = file[JobTag]
      BY <3>1 DEF Current
    <3>. QED  BY <1>1, <1>3, <1>4, <3>1, <3>2 DEF TypeOK, SizeInv
  <2>3. CASE ~Create /\ ~RetrieveSwapped
    <3>1. UNCHANGED <<size, cache>>
      BY <2>3 DEF Moving, RetrieveUnknown, RetrieveHit, SendLoaded, EvictDone, EvictOldest,
            SendEvicted, UseFetch, SaveReload, SaveDump, EndSave, EndLoad, SwappedWorker
    <3>. QED  BY <1>1, <1>3, <3>1 DEF TypeOK, SizeInv
  <2>. QED  BY <2>1, <2>2, <2>3
\* Nothing in memory enters the LRU.
<1>8. /\ Range(lru') \subseteq Range(lru) \cup (Tags \ cache)
      /\ resident \ Range(lru) \subseteq resident'
  <2>0. lru \in Seq(Tags) /\ IsInjective(lru)
    BY <1>1 DEF TypeOK, CacheInv
  <2>1. CASE Create
    <3>1. JobTag \in Tags \ cache /\ lru' = Append(lru, JobTag) /\ resident \subseteq resident'
      BY <1>1, <2>1 DEF JobInv, At, JobTag, Create, AddPLS
    <3>. QED  BY <2>0, <3>1, AppendFacts
  <2>2. CASE RetrieveHit
    BY <2>0, <2>2, MakeRecentFacts DEF RetrieveHit
  <2>3. CASE SendEvicted
    BY <1>1, <2>0, <2>3, TailFacts DEF SendEvicted, CacheInv
  <2>4. CASE EvictOldest
    <3>1. lru # <<>> /\ lru' = lru /\ resident' = resident \ {Head(lru)}
      BY <2>4 DEF EvictOldest, OverLoaded
    <3>. QED  BY <2>0, <3>1, TailFacts
  <2>5. CASE ~(Create \/ RetrieveHit \/ SendEvicted \/ EvictOldest)
    BY <2>5 DEF Moving, RetrieveUnknown, RetrieveSwapped, SendLoaded, EvictDone,
            UseFetch, SaveReload, SaveDump, EndSave, EndLoad, SwappedWorker
  <2>. QED  BY <2>1, <2>2, <2>3, <2>4, <2>5
<1>9. phase = "serve" => phase' = "serve"
  BY <1>1 DEF Moving, JobInv, RetrieveUnknown, Create, RetrieveHit, RetrieveSwapped, SendLoaded,
        EvictDone, EvictOldest, SendEvicted, UseFetch, SaveReload, SaveDump, EndSave, EndLoad,
        SwappedWorker, At
<1>10. cache' \subseteq Tags /\ cache \subseteq cache' /\ resident \subseteq cache
       /\ resident \subseteq Tags
  BY <1>1 DEF TypeOK, CacheInv, Moving, RetrieveUnknown, Create, RetrieveHit, RetrieveSwapped, SendLoaded,
        EvictDone, EvictOldest, SendEvicted, UseFetch, SaveReload, SaveDump, EndSave, EndLoad,
        SwappedWorker, AddPLS, JobInv, At, JobTag
<1>11. \A c \in cache : Slack(c) <= Slack(c)'
  BY <1>8, <1>9, <1>10 DEF Slack
<1>12. \A c \in Tags : Slack(c) \in 1..2
  BY DEF Slack
<1>13. \A c \in resident' : listed'[c] \subseteq TermsOf(postings[c])'
  <2>1. CASE RetrieveUnknown \/ RetrieveHit \/ SendLoaded \/ EvictDone \/ SendEvicted
             \/ EndSave \/ EndLoad \/ SwappedWorker \/ \E c \in Tags : SaveDump(c)
    BY <2>1 DEF SizeInv, RetrieveUnknown, RetrieveHit, SendLoaded, EvictDone, SendEvicted,
                EndSave, EndLoad, SwappedWorker, SaveDump, TermsOf
  <2>2. CASE Create
    <3>1. PICK c \in Tags : c = dataTag[job.term] /\ c \notin resident
      BY <1>1, <2>2 DEF JobInv, CacheInv, At, JobTag, Create
    <3>2. /\ resident' = resident \cup {c}
          /\ listed' = [listed EXCEPT ![c] = {}] /\ postings' = [postings EXCEPT ![c] = {}]
      BY <2>2, <3>1 DEF Create, AddPLS
    <3>. QED  BY <1>1, <3>1, <3>2 DEF TypeOK, SizeInv, TermsOf
  <2>3. CASE RetrieveSwapped \/ \E c \in Tags : SaveReload(c)
    <3>1. PICK c \in Tags : resident' = resident \cup {c} /\ LoadEntries(c)
      BY <1>1, <2>3 DEF JobInv, At, JobTag, RetrieveSwapped, SaveReload
    <3>. QED  BY <1>1, <3>1 DEF TypeOK, SizeInv, LoadEntries, TermsOf
  <2>4. CASE EvictOldest
    <3>1. PICK c : /\ resident' = resident \ {c}
                   /\ listed' = [listed EXCEPT ![c] = {}]
                   /\ postings' = [postings EXCEPT ![c] = {}]
      BY <2>4 DEF EvictOldest
    <3>. QED  BY <1>1, <3>1 DEF TypeOK, SizeInv, TermsOf
  <2>5. CASE UseFetch
    <3>1. PICK t \in Terms, c \in resident : t = job.term /\ c = dataTag[t] /\ job.kind = "fetch"
      BY <1>1, <2>5 DEF JobInv, At, JobTag, UseFetch
    <3>2. t \in TermsOf(postings[c])
      BY <1>1, <3>1, NoneAssumption DEF TypeOK, CacheInv, ListInv, Indexed, Current
    <3>3. listed' = [listed EXCEPT ![c] = @ \cup {t}] /\ UNCHANGED <<resident, postings>>
      BY <2>5, <3>1 DEF UseFetch
    <3>. QED  BY <1>1, <3>2, <3>3 DEF TypeOK, SizeInv, TermsOf
  <2>. QED  BY <2>1, <2>2, <2>3, <2>4, <2>5 DEF Moving
<1>14. \A c \in cache' : Cardinality(Current(c)') <= size'[c]
  BY <1>2, <1>5, <1>6, <1>7, <1>10
<1>15. ASSUME NEW c \in cache', Crowd(Current(c)') PROVE size'[c] <= PerPLS + Slack(c)'
  <2>1. c \in cache /\ c \in Tags /\ Crowd(Current(c))
    BY <1>2, <1>5, <1>10, <1>15, CrowdFacts
  <2>2. size[c] <= PerPLS + Slack(c) /\ size'[c] <= size[c] /\ Slack(c) <= Slack(c)'
    BY <1>7, <1>11, <2>1 DEF SizeInv
  <2>3. size'[c] \in Int /\ Slack(c)' \in 1..2
    BY <1>1a, <2>1 DEF TypeOK, Slack
  <2>. QED  BY <1>3, <1>12, <2>1, <2>2, <2>3
\* A file is written from a set in memory.
<1>16. \A c \in Tags :
          \/ file'[c] = file[c]
          \/ c \in cache /\ file'[c] = Current(c)
  <2>1. CASE EvictOldest
    <3>1. lru # <<>> /\ lru \in Seq(Tags) /\ IsInjective(lru) /\ pc = "evict"
      BY <1>1, <2>1 DEF TypeOK, CacheInv, EvictOldest, OverLoaded
    <3>2. PICK c \in Tags : c = Head(lru) /\ c \in resident /\ c \in cache
      BY <1>1, <3>1, TailFacts DEF CacheInv
    <3>3. file' = [file EXCEPT ![c] = postings[c]]
      BY <2>1, <3>2 DEF EvictOldest, DumpEntries
    <3>. QED  BY <1>1, <3>2, <3>3 DEF TypeOK, Current
  <2>2. ASSUME NEW c \in Tags, SaveDump(c)
        PROVE  \A b \in Tags :
                  file'[b] = file[b] \/ (b \in cache /\ file'[b] = Current(b))
    <3>1. /\ c \in resident /\ c \in cache
          /\ file' = [file EXCEPT ![c] = postings[c]]
      BY <1>1, <2>2 DEF JobInv, CacheInv, At, SaveDump, DumpEntries
    <3>2. file'[c] = Current(c) /\ \A b \in Tags \ {c} : file'[b] = file[b]
      BY <1>1, <2>2, <3>1 DEF TypeOK, Current
    <3>3. ASSUME NEW b \in Tags
          PROVE  file'[b] = file[b] \/ (b \in cache /\ file'[b] = Current(b))
      <4>1. CASE b = c
        BY <3>1, <3>2, <4>1
      <4>2. CASE b # c
        BY <3>2, <4>2
      <4>. QED  BY <4>1, <4>2
    <3>. QED  BY <3>3
  <2>3. CASE ~EvictOldest /\ ~\E c \in Tags : SaveDump(c)
    BY <2>3 DEF Moving, RetrieveUnknown, Create, RetrieveHit, RetrieveSwapped, SendLoaded,
          EvictDone, SendEvicted, UseFetch, SaveReload, EndSave, EndLoad, SwappedWorker
  <2>. QED  BY <2>1, <2>2, <2>3
<1>17. ASSUME NEW c \in Tags, Crowd(file'[c]) PROVE Cardinality(file'[c]) <= PerPLS + 2
  <2>1. CASE file'[c] = file[c]
    BY <1>17, <2>1 DEF SizeInv
  <2>2. CASE c \in cache /\ file'[c] = Current(c)
    <3>1. Cardinality(Current(c)) <= size[c] /\ size[c] <= PerPLS + Slack(c) /\ c \in Tags
      BY <1>10, <1>17, <2>2 DEF SizeInv
    <3>. QED  BY <1>3, <1>4, <1>12, <2>2, <3>1
  <2>. QED  BY <1>16, <2>1, <2>2
<1>18. job'.kind = "register" =>
         Indexed(job.term)' \/ JobTag' \notin cache' \/ size'[JobTag'] <= PerPLS
  <2>. SUFFICES ASSUME job'.kind = "register"
                PROVE  Indexed(job.term)' \/ JobTag' \notin cache' \/ size'[JobTag'] <= PerPLS
    OBVIOUS
  <2>1. job.kind = "register" /\ job'.term = job.term
    BY <1>2a
  <2>2. JobTag' = JobTag
    BY <1>2, <2>1 DEF JobTag
  <2>3. Indexed(job.term) => Indexed(job.term)'
    BY <1>2, <2>1 DEF Indexed, TermsOf, Current
  <2>4. CASE JobTag \in cache /\ size[JobTag] <= PerPLS
    BY <1>1, <1>1a, <1>3, <1>7, <1>10, <2>2, <2>4 DEF TypeOK
  <2>5. CASE JobTag \notin cache
    BY <1>3, <1>7, <2>2, <2>5
  <2>. QED  BY <2>1, <2>3, <2>4, <2>5 DEF SizeInv
<1>19. job'.kind = "register" /\ (At("use")' \/ pc' = "swapIn") /\ Crowd(Current(JobTag)') =>
         size'[JobTag'] <= PerPLS + IF JobTag' \in Range(lru') THEN 0 ELSE 1
  <2>. SUFFICES ASSUME job'.kind = "register", At("use")' \/ pc' = "swapIn", Crowd(Current(JobTag)')
                PROVE  size'[JobTag'] <= PerPLS + IF JobTag' \in Range(lru') THEN 0 ELSE 1
    OBVIOUS
  <2>1. job.kind = "register" /\ job'.term = job.term /\ phase = "build"
    BY <1>2a
  <2>2. JobTag' = JobTag /\ Crowd(Current(JobTag)) /\ JobTag \in cache /\ JobTag \in Tags
    BY <1>1, <1>2, <1>5, <2>1, CrowdFacts DEF JobTag, TypeOK, Current, CacheInv
  <2>3. size[JobTag] \in Int /\ size'[JobTag] \in Int /\ size'[JobTag] <= size[JobTag]
    BY <1>1, <1>1a, <1>7, <2>2 DEF TypeOK
  <2>4. CASE RetrieveHit
    <3>1. JobTag \in resident /\ ~(OverSize(JobTag) /\ Shared(JobTag)) /\ listed[JobTag] \in SUBSET Terms
      BY <1>1, <2>2, <2>4 DEF JobTag, RetrieveHit, TypeOK
    <3>2. Shared(JobTag)
      BY <2>2, <3>1, CrowdFacts, SharedFacts DEF ListInv, Current, Shared
    <3>3. size[JobTag] <= PerPLS
      BY <1>3, <2>3, <3>1, <3>2 DEF OverSize
    <3>. QED  BY <1>3, <2>2, <2>3, <3>3
  <2>5. CASE RetrieveSwapped
    <3>1. JobTag \notin resident /\ pc = "retrieve"
      BY <2>5 DEF JobTag, RetrieveSwapped
    <3>2. Slack(JobTag) = 1 /\ JobTag \notin Range(lru)
      BY <1>1, <2>1, <3>1 DEF Slack, CacheInv
    <3>3. size[JobTag] <= PerPLS + 1 /\ JobTag \notin Range(lru')
      BY <1>8, <2>2, <3>2 DEF SizeInv
    <3>. QED  BY <1>3, <2>2, <2>3, <3>3
  <2>6. CASE ~(RetrieveHit \/ RetrieveSwapped \/ Create)
    <3>1. (At("use") \/ pc = "swapIn") /\ (JobTag \notin Range(lru) \/ lru' = lru)
      <4>1. CASE SendLoaded
        BY <1>1, <4>1 DEF JobInv, SendLoaded
      <4>2. CASE EvictDone \/ EvictOldest \/ SendEvicted
        <5>1. InEvict /\ job.then = "use" /\ pc # "swapIn"
          BY <1>1, <4>2 DEF JobInv, At, InEvict, Continuations, EvictDone, EvictOldest, SendEvicted
        <5>. QED  BY <1>1, <5>1 DEF JobInv, At
      <4>3. CASE SwappedWorker
        BY <4>3 DEF SwappedWorker, At, InEvict
      <4>4. ~(RetrieveUnknown \/ UseFetch \/ EndSave \/ EndLoad)
        BY <1>1 DEF TypeOK, Jobs, RetrieveUnknown, UseFetch, EndSave, EndLoad, Evicting, Return,
                    At, InEvict
      <4>5. ASSUME NEW c \in Tags PROVE ~(SaveReload(c) \/ SaveDump(c))
        BY <1>1, <2>1 DEF JobInv, At, InEvict, SaveReload, SaveDump
      <4>. QED  BY <2>6, <4>1, <4>2, <4>3, <4>4, <4>5 DEF Moving
    <3>2. size[JobTag] <= PerPLS + IF JobTag \in Range(lru) THEN 0 ELSE 1
      BY <2>1, <2>2, <3>1 DEF SizeInv
    <3>3. JobTag \in Range(lru') => JobTag \in Range(lru)
      BY <1>8, <2>2
    <3>. QED  BY <1>3, <2>2, <2>3, <3>1, <3>2, <3>3
  <2>7. ~Create
    BY <1>1, <2>2 DEF JobInv, At, Create
  <2>. QED  BY <2>4, <2>5, <2>6, <2>7
<1>. QED
  BY <1>13, <1>14, <1>15, <1>17, <1>18, <1>19 DEF SizeInv, TermsOf

\* Removing some entries of a set leaves the others to be counted.
LEMMA CountFacts ==
    ASSUME NEW S \in SUBSET (Terms \X Docs), NEW T \in SUBSET S
    PROVE  /\ Cardinality(S \ T) = Cardinality(S) - Cardinality(T)
           /\ Cardinality(T) <= Cardinality(S)
           /\ Cardinality(S) \in Nat /\ Cardinality(T) \in Nat
           /\ \A p \in (Terms \X Docs) \ S : Cardinality(S \cup {p}) = Cardinality(S) + 1
<1>1. IsFiniteSet(S)
  BY FiniteAssumption, FS_Product, FS_Subset
<1>2. IsFiniteSet(T) /\ Cardinality(T) <= Cardinality(S)
  BY <1>1, FS_Subset
<1>3. Cardinality(S) \in Nat /\ Cardinality(T) \in Nat
  BY <1>1, <1>2, FS_CardinalityType
<1>4. Cardinality(S \ T) = Cardinality(S) - Cardinality(S \cap T) /\ S \cap T = T
  BY <1>1, FS_Difference
<1>5. \A p \in (Terms \X Docs) \ S : Cardinality(S \cup {p}) = Cardinality(S) + 1
  BY <1>1, FS_AddElement
<1>. QED  BY <1>2, <1>3, <1>4, <1>5

\* A split takes from a set's Size what it takes from its entries; the term
\* has its new set to itself.
LEMMA SplitKeepsSizes ==
    ASSUME IInv, ListInv, SizeInv, RetrieveSplit, MaxLoad > 0
    PROVE  SizeInv'
<1>. USE DEF memory, queues, disk, control, life
<1>1. TypeOK /\ JobInv /\ CacheInv
  BY DEF IInv
<1>1a. TypeOK' /\ CacheInv'
  BY Inductive DEF IInv, Next, Proceed
<1>2. PICK t \in Terms, c \in resident, n \in Tags \ cache :
             /\ t = job.term /\ c = dataTag[t] /\ t \in listed[c]
             /\ dataTag' = [dataTag EXCEPT ![t] = n]
             /\ Current(c)' = Current(c) \ EntriesOf(Current(c), t)
             /\ Current(n)' = EntriesOf(Current(c), t)
             /\ \A b \in Tags \ {c, n} : Current(b)' = Current(b)
             /\ postings' = [postings EXCEPT ![c] = @ \ EntriesOf(@, t),
                                             ![n] = EntriesOf(postings[c], t)]
             /\ listed' = [listed EXCEPT ![c] = @ \ {t}, ![n] = {t}]
             /\ resident' = resident \cup {n} /\ cache' = cache \cup {n}
             /\ pc' = "evict" /\ job' = [job EXCEPT !.then = "retrieve"]
             /\ UNCHANGED <<disk, todo, life>>
  BY SplitFacts
<1>3. /\ c \in Tags /\ c \in cache /\ n # c /\ n \notin resident /\ pc = "retrieve"
      /\ OverSize(c) /\ Current(c) = postings[c]
  BY <1>1, <1>2, SMTT(30) DEF TypeOK, CacheInv, RetrieveSplit, Current
<1>. DEFINE E == EntriesOf(Current(c), t)
            moved == Cardinality(E)
<1>4. t \in TermsOf(Current(c))
  BY <1>1, <1>2, <1>3 DEF ListInv, At, JobTag, Indexed
<1>5. PICK m \in FreshTags :
         /\ dataTag' = [dataTag EXCEPT ![t] = m] /\ AddPLS(m)
         /\ size' = [size EXCEPT ![c] = @ - Cardinality(EntriesOf(postings[c], t)),
                                 ![m] = Cardinality(EntriesOf(postings[c], t))]
  BY <1>2 DEF RetrieveSplit
<1>6. m = n /\ lru' = Append(lru, n) /\ size' = [size EXCEPT ![c] = @ - moved, ![n] = moved]
  <2>1. dataTag'[t] = n /\ dataTag'[t] = m
    BY <1>1, <1>2, <1>5 DEF TypeOK
  <2>. QED  BY <1>3, <1>5, <2>1 DEF AddPLS
<1>7. /\ Current(c) \in SUBSET (Terms \X Docs) /\ E \in SUBSET Current(c)
      /\ Cardinality(Current(c) \ E) = Cardinality(Current(c)) - moved
      /\ moved \in Nat /\ Cardinality(Current(c)) \in Nat
  <2>1. Current(c) \in SUBSET (Terms \X Docs) /\ E \in SUBSET Current(c)
    BY <1>1, <1>3 DEF TypeOK, EntriesOf
  <2>. QED  BY <2>1, CountFacts
<1>. HIDE DEF moved
<1>8. /\ size'[c] = size[c] - moved /\ size'[n] = moved /\ size[c] \in Int
      /\ \A b \in Tags \ {c, n} : size'[b] = size[b]
  BY <1>1, <1>2, <1>3, <1>6, <1>7 DEF TypeOK
<1>9. PerPLS \in Nat
  BY PerPLSType
<1>10. \A b \in cache : Slack(b)' = Slack(b) /\ Slack(b) \in 1..2
  <2>1. Range(lru') = Range(lru) \cup {n}
    BY <1>1, <1>2, <1>6, AppendFacts DEF TypeOK
  <2>. QED  BY <1>1, <1>2, <2>1 DEF Slack
<1>11. \A b \in resident' : listed'[b] \subseteq TermsOf(postings'[b])
  <2>. SUFFICES ASSUME NEW b \in resident' PROVE listed'[b] \subseteq TermsOf(postings'[b])
    OBVIOUS
  <2>1. CASE b = n
    <3>1. listed'[n] = {t} /\ postings'[n] = E
      BY <1>1, <1>2, <1>3 DEF TypeOK
    <3>2. t \in TermsOf(E)
      BY <1>4 DEF TermsOf, EntriesOf
    <3>. QED  BY <2>1, <3>1, <3>2
  <2>2. CASE b = c
    <3>1. listed'[c] = listed[c] \ {t} /\ postings'[c] = postings[c] \ EntriesOf(postings[c], t)
      BY <1>1, <1>2, <1>3 DEF TypeOK
    <3>2. \A u \in listed[c] \ {t} : \E e \in postings[c] : e[1] = u
      BY <1>2 DEF SizeInv, TermsOf
    <3>3. \A u \in listed[c] \ {t} : u \in TermsOf(postings'[c])
      BY <3>1, <3>2 DEF TermsOf, EntriesOf
    <3>. QED  BY <2>2, <3>1, <3>3
  <2>3. CASE b # n /\ b # c
    BY <1>1, <1>2, <1>3, <2>3 DEF TypeOK, SizeInv
  <2>. QED  BY <2>1, <2>2, <2>3
<1>12. ASSUME NEW b \in cache'
       PROVE  /\ Cardinality(Current(b)') <= size'[b]
              /\ Crowd(Current(b)') => size'[b] <= PerPLS + Slack(b)'
  <2>1. CASE b = n
    <3>1. Current(b)' = E /\ ~Crowd(E)
      BY <1>2, <2>1 DEF Crowd, EntriesOf
    <3>. QED  BY <1>7, <1>8, <2>1, <3>1 DEF moved
  <2>2. CASE b = c
    <3>1. Crowd(Current(c)') => Crowd(Current(c))
      BY <1>2 DEF Crowd
    <3>2. /\ Cardinality(Current(c)) <= size[c]
          /\ Crowd(Current(c)) => size[c] <= PerPLS + Slack(c)
      BY <1>3 DEF SizeInv
    <3>3. Slack(c)' = Slack(c) /\ Slack(c) \in 1..2 /\ Cardinality(Current(c)') = Cardinality(Current(c)) - moved
      BY <1>2, <1>3, <1>7, <1>10
    <3>. QED  BY <1>7, <1>8, <1>9, <2>2, <3>1, <3>2, <3>3
  <2>3. CASE b # n /\ b # c
    <3>1. b \in cache /\ b \in Tags \ {c, n}
      BY <1>1a, <1>2, <2>3 DEF TypeOK
    <3>2. Current(b)' = Current(b) /\ size'[b] = size[b] /\ Slack(b)' = Slack(b)
      BY <1>2, <1>8, <1>10, <3>1
    <3>. QED  BY <3>1, <3>2 DEF SizeInv
  <2>. QED  BY <2>1, <2>2, <2>3
<1>13. Indexed(job.term)'
  <2>1. job'.term = t /\ dataTag'[t] = n
    BY <1>1, <1>2 DEF TypeOK, Jobs
  <2>2. t \in TermsOf(Current(n)')
    BY <1>2, <1>4 DEF TermsOf, EntriesOf
  <2>. QED  BY <2>1, <2>2 DEF Indexed, TermsOf, Current
<1>14. job'.then = "retrieve"
  BY <1>1, <1>2 DEF TypeOK, Jobs
<1>15. \A b \in Tags : Crowd(file'[b]) => Cardinality(file'[b]) <= PerPLS + 2
  BY <1>2 DEF SizeInv
<1>. QED
  BY <1>2, <1>11, <1>12, <1>13, <1>14, <1>15 DEF SizeInv, At, InEvict, TermsOf

\* A set only grows while it has room for one more, or has a single term.
LEMMA RegisterKeepsSizes ==
    ASSUME IInv, ListInv, SizeInv, UseRegister, MaxLoad > 0
    PROVE  SizeInv'
<1>. USE DEF memory, queues, disk, control, life
<1>1. TypeOK /\ JobInv /\ CacheInv
  BY DEF IInv
<1>2. PICK t \in Terms, c \in resident : t = job.term /\ c = dataTag[t]
  BY <1>1 DEF JobInv, At, JobTag, UseRegister
<1>3. /\ c \in Tags /\ c \in cache /\ job.doc \in Docs /\ pc = "use" /\ job.kind = "register"
      /\ Current(c) = postings[c] /\ Current(c) \in SUBSET (Terms \X Docs)
  BY <1>1, <1>2 DEF TypeOK, CacheInv, JobInv, UseRegister, Current
<1>. DEFINE p == <<t, job.doc>>
            new == IF p \in Current(c) THEN 0 ELSE 1
<1>4. /\ listed' = [listed EXCEPT ![c] = @ \cup {t}]
      /\ postings' = [postings EXCEPT ![c] = @ \cup {p}]
      /\ size' = [size EXCEPT ![c] = @ + new]
      /\ UNCHANGED <<dataTag, cache, resident, lru, disk, life>>
      /\ pc' = "idle" /\ job' = NoJob
  BY <1>2, <1>3 DEF UseRegister, Return
<1>5. p \in Terms \X Docs /\ p[1] = t
  BY <1>2, <1>3
<1>6. /\ Current(c)' = Current(c) \cup {p}
      /\ \A b \in Tags \ {c} : Current(b)' = Current(b)
      /\ size'[c] = size[c] + new /\ size[c] \in Int
      /\ \A b \in Tags \ {c} : size'[b] = size[b]
      /\ \A b \in Tags : Slack(b)' = Slack(b) /\ Slack(b) \in 1..2
  BY <1>1, <1>2, <1>3, <1>4 DEF TypeOK, Current, Slack
<1>6a. new \in 0..1 /\ Slack(c)' = Slack(c) /\ Slack(c) \in 1..2 /\ size[c] \in Int
  BY <1>3, <1>6
<1>6b. size'[c] = size[c] + new
  BY <1>6
<1>. HIDE DEF p
<1>7. Cardinality(Current(c)') = Cardinality(Current(c)) + new /\ Cardinality(Current(c)) \in Nat
  <2>1. Cardinality(Current(c)) \in Nat
    BY <1>3, PostingsAreFinite
  <2>2. CASE p \in Current(c)
    <3>1. Current(c)' = Current(c)
      BY <1>6, <2>2
    <3>. QED  BY <2>1, <2>2, <3>1
  <2>3. CASE p \notin Current(c)
    <3>1. p \in (Terms \X Docs) \ Current(c) /\ {} \in SUBSET Current(c)
      BY <1>5, <2>3
    <3>2. Cardinality(Current(c) \cup {p}) = Cardinality(Current(c)) + 1
      BY <1>3, <3>1, CountFacts
    <3>. QED  BY <1>6, <2>1, <2>3, <3>2
  <2>. QED  BY <2>2, <2>3
<1>8. \A b \in resident' : listed'[b] \subseteq TermsOf(postings'[b])
  <2>. SUFFICES ASSUME NEW b \in resident PROVE listed'[b] \subseteq TermsOf(postings'[b])
    BY <1>4
  <2>1. CASE b = c
    <3>1. listed'[c] = listed[c] \cup {t} /\ postings'[c] = postings[c] \cup {p}
      BY <1>1, <1>3, <1>4 DEF TypeOK
    <3>2. \A u \in listed[c] : \E e \in postings[c] : e[1] = u
      BY <1>2 DEF SizeInv, TermsOf
    <3>. QED  BY <1>5, <2>1, <3>1, <3>2 DEF TermsOf
  <2>2. CASE b # c
    BY <1>1, <1>4, <2>2 DEF TypeOK, CacheInv, SizeInv
  <2>. QED  BY <2>1, <2>2
<1>9. PerPLS \in Nat
  BY PerPLSType
<1>10. Crowd(Current(c)') => size'[c] <= PerPLS + Slack(c)
  <2>. SUFFICES ASSUME Crowd(Current(c)') PROVE size[c] + new <= PerPLS + Slack(c)
    BY <1>6b
  <2>0. p \notin Current(c) => new = 1
    OBVIOUS
  <2>. HIDE DEF new
  <2>1. CASE p \in Current(c)
    <3>1. Crowd(Current(c))
      <4>1. Current(c)' = Current(c)
        BY <1>6, <2>1
      <4>. QED  BY <4>1
    <3>2. size[c] <= PerPLS + Slack(c)
      BY <1>3, <3>1 DEF SizeInv
    <3>3. new = 0
      BY <2>1 DEF new
    <3>. QED  BY <1>6a, <3>2, <3>3
  <2>2. CASE Crowd(Current(c))
    <3>1. At("use") /\ JobTag = c
      BY <1>2, <1>3 DEF At, JobTag
    <3>2. size[c] <= PerPLS + IF c \in Range(lru) THEN 0 ELSE 1
      BY <1>3, <2>2, <3>1 DEF SizeInv
    <3>3. c \notin Range(lru) => Slack(c) = 2
      BY <1>2 DEF Slack
    <3>. QED  BY <1>6a, <1>9, <3>2, <3>3
  <2>3. CASE ~Crowd(Current(c)) /\ p \notin Current(c)
    <3>1. t \notin TermsOf(Current(c))
      <4>1. PICK e \in Current(c)', f \in Current(c)' : e[1] # f[1]
        BY DEF Crowd
      <4>2. \E g \in Current(c) : g[1] # t
        BY <1>5, <1>6, <4>1
      <4>3. \A g \in Current(c), h \in Current(c) : g[1] = h[1]
        BY <2>3 DEF Crowd
      <4>. QED  BY <4>2, <4>3 DEF TermsOf
    <3>2. ~Indexed(job.term) /\ JobTag = c
      BY <1>2, <3>1 DEF Indexed, JobTag
    <3>3. size[c] <= PerPLS
      BY <1>3, <3>2 DEF SizeInv
    <3>. QED  BY <1>6a, <1>9, <3>3
  <2>. QED  BY <2>1, <2>2, <2>3
<1>11. ASSUME NEW b \in cache
       PROVE  /\ Cardinality(Current(b)') <= size'[b]
              /\ Crowd(Current(b)') => size'[b] <= PerPLS + Slack(b)'
  <2>1. CASE b = c
    <3>1. Cardinality(Current(c)) <= size[c]
      BY <1>3 DEF SizeInv
    <3>2. Cardinality(Current(c)') <= size'[c]
      <4>. HIDE DEF new
      <4>. QED  BY <1>6a, <1>6b, <1>7, <3>1
    <3>. QED  BY <1>6a, <1>10, <2>1, <3>2
  <2>2. CASE b # c
    <3>1. b \in Tags \ {c}
      BY <1>1, <2>2 DEF TypeOK
    <3>2. Current(b)' = Current(b) /\ size'[b] = size[b] /\ Slack(b)' = Slack(b)
      BY <1>6, <3>1
    <3>. QED  BY <3>2 DEF SizeInv
  <2>. QED  BY <2>1, <2>2
<1>12. \A b \in Tags : Crowd(file'[b]) => Cardinality(file'[b]) <= PerPLS + 2
  BY <1>4 DEF SizeInv
<1>13. job'.kind = "none"
  BY <1>4 DEF NoJob
<1>. QED  BY <1>4, <1>8, <1>11, <1>12, <1>13 DEF SizeInv, TermsOf

\* A pruner takes entries and leaves the Size.
LEMMA PruneKeepsSizes ==
    ASSUME IInv, ListInv, SizeInv, UsePrune, MaxLoad > 0
    PROVE  SizeInv'
<1>. USE DEF memory, queues, disk, control, life
<1>1. TypeOK /\ JobInv /\ CacheInv
  BY DEF IInv
<1>2. PICK t \in Terms, c \in resident : t = job.term /\ c = dataTag[t]
  BY <1>1 DEF JobInv, At, JobTag, UsePrune
<1>3. /\ c \in Tags /\ c \in cache /\ Current(c) = postings[c]
      /\ Current(c) \in SUBSET (Terms \X Docs) /\ t \in TermsOf(postings[c])
  <2>1. c \in Tags /\ c \in cache /\ Current(c) = postings[c]
    BY <1>1 DEF TypeOK, CacheInv, Current
  <2>2. Current(c) \in SUBSET (Terms \X Docs)
    BY <1>1, <2>1 DEF TypeOK
  <2>3. dataTag[t] # None /\ job.kind = "prune"
    BY <1>2, <2>1, NoneAssumption DEF UsePrune
  <2>4. t \in TermsOf(Current(c))
    BY <1>2, <2>3 DEF ListInv, Indexed
  <2>. QED  BY <2>1, <2>2, <2>4
<1>4. PICK gone \in SUBSET EntriesOf(postings[c], t) :
        /\ gone = EntriesOf(postings[c], t) => gone = {}
        /\ postings' = [postings EXCEPT ![c] = @ \ gone]
  BY <1>2 DEF UsePrune
<1>5. /\ listed' = [listed EXCEPT ![c] = @ \cup {t}]
      /\ UNCHANGED <<dataTag, cache, resident, size, lru, disk, life>>
      /\ pc' = "idle" /\ job' = NoJob
  BY <1>2 DEF UsePrune, Return
<1>6. /\ Current(c)' = Current(c) \ gone
      /\ \A b \in Tags \ {c} : Current(b)' = Current(b)
      /\ \A b \in Tags : Slack(b)' = Slack(b) /\ Slack(b) \in 1..2
  BY <1>1, <1>2, <1>3, <1>4, <1>5 DEF TypeOK, Current, Slack
<1>7. \A b \in resident' : listed'[b] \subseteq TermsOf(postings'[b])
  <2>. SUFFICES ASSUME NEW b \in resident PROVE listed'[b] \subseteq TermsOf(postings'[b])
    BY <1>5
  <2>1. CASE b = c
    <3>1. listed'[c] = listed[c] \cup {t} /\ postings'[c] = postings[c] \ gone
      BY <1>1, <1>3, <1>4, <1>5 DEF TypeOK
    <3>2. \A u \in listed[c] \cup {t} : u \in TermsOf(postings[c])
      BY <1>2, <1>3 DEF SizeInv
    <3>3. \A u \in TermsOf(postings[c]) : u \in TermsOf(postings[c] \ gone)
      BY <1>4 DEF TermsOf, EntriesOf
    <3>. QED  BY <2>1, <3>1, <3>2, <3>3
  <2>2. CASE b # c
    BY <1>1, <1>4, <1>5, <2>2 DEF TypeOK, CacheInv, SizeInv
  <2>. QED  BY <2>1, <2>2
<1>8. Cardinality(Current(c)') <= Cardinality(Current(c)) /\ Cardinality(Current(c)') \in Nat
      /\ Cardinality(Current(c)) \in Nat
  <2>1. Current(c)' \in SUBSET Current(c)
    BY <1>6
  <2>. QED  BY <1>3, <2>1, CountFacts
<1>9. ASSUME NEW b \in cache
      PROVE  /\ Cardinality(Current(b)') <= size'[b]
             /\ Crowd(Current(b)') => size'[b] <= PerPLS + Slack(b)'
  <2>1. CASE b = c
    <3>1. Crowd(Current(c)') => Crowd(Current(c))
      BY <1>6 DEF Crowd
    <3>2. size[c] \in Int
      BY <1>1, <1>3 DEF TypeOK
    <3>3. Cardinality(Current(c)) <= size[c] /\ (Crowd(Current(c)) => size[c] <= PerPLS + Slack(c))
      BY <1>3 DEF SizeInv
    <3>4. Slack(c)' = Slack(c) /\ size'[c] = size[c]
      BY <1>3, <1>5, <1>6
    <3>. QED  BY <1>8, <2>1, <3>1, <3>2, <3>3, <3>4
  <2>2. CASE b # c
    <3>1. b \in Tags \ {c}
      BY <1>1, <2>2 DEF TypeOK
    <3>2. Current(b)' = Current(b) /\ size'[b] = size[b] /\ Slack(b)' = Slack(b)
      BY <1>5, <1>6, <3>1
    <3>. QED  BY <3>2 DEF SizeInv
  <2>. QED  BY <2>1, <2>2
<1>10. \A b \in Tags : Crowd(file'[b]) => Cardinality(file'[b]) <= PerPLS + 2
  BY <1>5 DEF SizeInv
<1>11. job'.kind = "none"
  BY <1>5 DEF NoJob
<1>. QED  BY <1>5, <1>7, <1>9, <1>10, <1>11 DEF SizeInv, TermsOf

\* A new process reads a set no larger than it was written.
LEMMA LoadKeepsSizes ==
    ASSUME IInv, SizeInv, NEW c \in Tags, LoadFile(c), MaxLoad > 0
    PROVE  SizeInv'
<1>. USE DEF memory, queues, disk, control, life
<1>1. TypeOK /\ JobInv /\ CacheInv
  BY DEF IInv
<1>2. c \notin cache /\ c \notin resident /\ phase = "serve" /\ job.kind = "load"
  BY <1>1 DEF JobInv, CacheInv, At, LoadFile
<1>3. /\ postings' = [postings EXCEPT ![c] = file[c]]
      /\ listed' = [listed EXCEPT ![c] = TermsOf(file[c])]
      /\ size' = [size EXCEPT ![c] = Cardinality(file[c])]
      /\ cache' = cache \cup {c} /\ resident' = resident \cup {c}
      /\ file' = file /\ phase' = phase /\ job'.kind = "load"
  BY <1>1, <1>2 DEF TypeOK, Jobs, LoadFile, AddPLS, LoadEntries, Evicting
<1>4. /\ Current(c)' = file[c] /\ size'[c] = Cardinality(file[c])
      /\ \A b \in Tags \ {c} : Current(b)' = Current(b) /\ size'[b] = size[b]
      /\ \A b \in Tags : Slack(b)' = 2 /\ Slack(b) = 2
  BY <1>1, <1>2, <1>3 DEF TypeOK, Current, Slack
<1>5. \A b \in resident' : listed'[b] \subseteq TermsOf(postings'[b])
  <2>. SUFFICES ASSUME NEW b \in resident' PROVE listed'[b] \subseteq TermsOf(postings'[b])
    OBVIOUS
  <2>1. CASE b = c
    BY <1>1, <1>3, <2>1 DEF TypeOK
  <2>2. CASE b # c
    BY <1>1, <1>3, <2>2 DEF TypeOK, CacheInv, SizeInv
  <2>. QED  BY <2>1, <2>2
<1>6. ASSUME NEW b \in cache'
      PROVE  /\ Cardinality(Current(b)') <= size'[b]
             /\ Crowd(Current(b)') => size'[b] <= PerPLS + Slack(b)'
  <2>1. CASE b = c
    <3>1. Cardinality(file[c]) \in Nat
      BY <1>1, PostingsAreFinite DEF TypeOK
    <3>2. Crowd(file[c]) => Cardinality(file[c]) <= PerPLS + 2
      BY DEF SizeInv
    <3>. QED  BY <1>4, <2>1, <3>1, <3>2
  <2>2. CASE b # c
    <3>1. b \in cache /\ b \in Tags \ {c}
      BY <1>1, <1>3, <2>2 DEF TypeOK
    <3>2. Current(b)' = Current(b) /\ size'[b] = size[b] /\ Slack(b)' = Slack(b)
      BY <1>4, <3>1
    <3>. QED  BY <3>1, <3>2 DEF SizeInv
  <2>. QED  BY <2>1, <2>2
<1>7. \A b \in Tags : Crowd(file'[b]) => Cardinality(file'[b]) <= PerPLS + 2
  BY <1>3 DEF SizeInv
<1>. QED  BY <1>3, <1>5, <1>6, <1>7 DEF SizeInv, TermsOf

\* A term that is new goes to a set with room for it.
LEMMA CallKeepsSizes ==
    ASSUME IInv, ListInv, SizeInv, Call, MaxLoad > 0
    PROVE  SizeInv'
<1>. USE DEF memory, queues, disk, control, life
<1>1. TypeOK /\ JobInv /\ CacheInv
  BY DEF IInv
<1>2. pc = "idle" /\ job.kind = "none"
  BY <1>1 DEF JobInv, Call, InsertKnown, InsertNew, Fetch, PruneTerm, BeginPrune, BeginSave
<1>3. /\ UNCHANGED <<cache, resident, listed, postings, size, file, lru>>
      /\ phase' = "serve" <=> phase = "serve"
  BY DEF Call, InsertKnown, InsertNew, Fetch, PruneTerm, BeginPrune, BeginSave
<1>4. \A c : Current(c)' = Current(c) /\ Slack(c)' = Slack(c)
  BY <1>3 DEF Current, Slack
<1>5. ~At("use")' /\ pc' # "swapIn"
  BY <1>2 DEF Call, InsertKnown, InsertNew, Fetch, PruneTerm, BeginPrune, BeginSave, Begin, At,
              InEvict
<1>6. job'.kind = "register" =>
         Indexed(job.term)' \/ JobTag' \notin cache' \/ size'[JobTag'] <= PerPLS
  <2>1. ASSUME NEW t \in Terms, NEW d, InsertKnown(t, d) PROVE Indexed(job.term)'
    <3>1. Indexed(t) /\ dataTag' = dataTag /\ job'.term = t
      BY <1>2, <2>1 DEF ListInv, InsertKnown, Begin, NoJob
    <3>. QED  BY <1>4, <3>1 DEF Indexed, TermsOf, Current
  <2>2. ASSUME NEW t \in Terms, NEW d, InsertNew(t, d)
        PROVE  JobTag' \notin cache' \/ size'[JobTag'] <= PerPLS
    <3>1. PICK c \in LeastUsedPLS : dataTag' = [dataTag EXCEPT ![t] = c]
      BY <2>2 DEF InsertNew
    <3>2. JobTag' = c
      BY <1>1, <2>2, <3>1 DEF TypeOK, InsertNew, Begin, NoJob, JobTag
    <3>3. PerPLS \in Nat /\ c \in Tags /\ size[c] \in Int
      BY <1>1, <3>1, LeastUsedType, PerPLSType DEF TypeOK
    <3>4. c \in FreshTags \/ HasRoom(c, 100) \/ HasRoom(c, 95) \/ HasRoom(c, 75)
      BY <3>1 DEF LeastUsedPLS, First
    <3>5. c \notin cache \/ size[c] <= PerPLS
      BY <3>3, <3>4 DEF FreshTags, HasRoom
    <3>. QED  BY <1>3, <3>2, <3>5
  <2>3. ASSUME NEW t \in Terms, Fetch(t) \/ PruneTerm(t) PROVE job'.kind # "register"
    BY <2>3 DEF Fetch, PruneTerm, Begin, NoJob
  <2>4. CASE BeginPrune \/ BeginSave
    BY <1>2, <2>4 DEF BeginPrune, BeginSave, NoJob
  <2>. QED  BY <2>1, <2>2, <2>3, <2>4 DEF Call
<1>. QED  BY <1>3, <1>4, <1>5, <1>6 DEF SizeInv, TermsOf

LEMMA SizeStep ==
    ASSUME IInv, ListInv, SizeInv, [Next]_vars, MaxLoad > 0
    PROVE  SizeInv'
<1>. USE DEF memory, queues, disk, control, life
<1>1. CASE UNCHANGED vars
  BY <1>1 DEF vars, SizeInv, Indexed, Current, Crowd, Slack, TermsOf, At, InEvict, JobTag
<1>2. CASE Restart
  BY <1>2 DEF Restart, SizeInv, NoJob
<1>3. CASE Proceed \/ SwappedWorker
  BY <1>3, MovesKeepSizes, SplitKeepsSizes, RegisterKeepsSizes, PruneKeepsSizes, LoadKeepsSizes
     DEF Proceed, Moving
<1>. QED  BY <1>1, <1>2, <1>3, CallKeepsSizes DEF Next

\* A set that several terms share exceeds PerPLS by one posting, and by two
\* once it was read back: RetrievePLS splits it before it can grow any more.
THEOREM SharedSetsAreSplit == Spec => []SharedSetsFit
<1>. DEFINE Sized == AllInv /\ (MaxLoad > 0 => SizeInv)
<1>1. Init => Sized
  <2>. SUFFICES ASSUME Init PROVE Sized
    OBVIOUS
  <2>1. AllInv
    BY InitIInv, InitList DEF AllInv
  <2>2. SizeInv
    BY CrowdFacts DEF Init, SizeInv, NoJob
  <2>. QED  BY <2>1, <2>2
<1>2. Sized /\ [Next]_vars => Sized'
  <2>. SUFFICES ASSUME Sized, [Next]_vars PROVE Sized'
    OBVIOUS
  <2>1. AllInv'
    BY Inductive, ListStep, SaveInvStep DEF AllInv
  <2>2. MaxLoad > 0 => SizeInv'
    BY SizeStep DEF AllInv
  <2>. QED  BY <2>1, <2>2
<1>3. Sized => SharedSetsFit
  <2>. SUFFICES ASSUME Sized, MaxLoad > 0, NEW c \in resident, Cardinality(listed[c]) > 1
                PROVE  size[c] <= PerPLS + (IF c \in Range(lru) /\ phase # "serve" THEN 1 ELSE 2)
    BY DEF SharedSetsFit
  <2>1. TypeOK /\ CacheInv /\ SizeInv
    BY DEF AllInv, IInv
  <2>2. c \in cache /\ Current(c) = postings[c] /\ listed[c] \in SUBSET Terms
    BY <2>1 DEF TypeOK, CacheInv, Current
  <2>3. Crowd(Current(c))
    BY <2>1, <2>2, SharedFacts, CrowdFacts DEF SizeInv
  <2>. QED  BY <2>1, <2>2, <2>3 DEF SizeInv, Slack
<1>. QED  BY <1>1, <1>2, <1>3, PTL DEF Spec
-----------------------------------------------------------------------------
(* In the process that builds the index the lexicon implements Lexicon.    *)

\* No file of an earlier process plays a part until the index is reloaded.
LEMMA Building ==
    ASSUME MaxRestarts = 0
    PROVE  Spec => [](restarts = 0 /\ phase # "serve")
<1>. DEFINE Inv == restarts = 0 /\ phase # "serve"
<1>. USE DEF memory, queues, disk, control, life
<1>1. Init => Inv
  BY DEF Init
<1>2. Inv /\ [Next]_vars => Inv'
  <2>. SUFFICES ASSUME Inv, [Next]_vars PROVE Inv'
    OBVIOUS
  <2>1. CASE UNCHANGED vars
    BY <2>1 DEF vars
  <2>2. CASE Call
    BY <2>2 DEF Call, InsertKnown, InsertNew, Fetch, PruneTerm, BeginPrune, BeginSave
  <2>3. CASE Proceed
    BY <2>3 DEF Proceed, RetrieveUnknown, Create, RetrieveSplit, RetrieveHit, RetrieveSwapped,
          SendLoaded, EvictDone, EvictOldest, SendEvicted, UseRegister, UseFetch, UsePrune,
          SaveReload, SaveDump, LoadFile, EndSave, EndLoad
  <2>4. CASE SwappedWorker
    BY <2>4 DEF SwappedWorker
  <2>5. ~Restart
    BY DEF Restart
  <2>. QED  BY <2>1, <2>2, <2>3, <2>4, <2>5 DEF Next
<1>. QED  BY <1>1, <1>2, PTL DEF Spec

\* Then a lookup is answered from the set its term is tagged with.
Answer(t) == IF dataTag[t] = None THEN {} ELSE DocsOf(Current(dataTag[t]), t)

LEMMA ContentsAreAnswers ==
    IInv /\ phase # "serve" => \A t \in Terms : Contents(t) = Answer(t)
<1>. SUFFICES ASSUME IInv, phase # "serve", NEW t \in Terms PROVE Contents(t) = Answer(t)
  OBVIOUS
<1>1. job.kind # "load"
  BY DEF IInv, JobInv, At
<1>. QED  BY <1>1 DEF Contents, Answer, Unread

\* Answers only depend on the term's tag and on that tag's current copy.
LEMMA SameAnswer ==
    ASSUME IInv, NEW t \in Terms, dataTag'[t] = dataTag[t],
           \A c \in Tags : c = dataTag[t] => DocsOf(Current(c), t)' = DocsOf(Current(c), t)
    PROVE  Answer(t)' = Answer(t)
<1>1. CASE dataTag[t] = None
  BY <1>1 DEF Answer
<1>2. CASE dataTag[t] # None
  <2>1. PICK c \in Tags : c = dataTag[t] /\ c = dataTag'[t] /\ c # None
    BY <1>2 DEF IInv, TypeOK
  <2>. QED  BY <2>1 DEF Answer, DocsOf, EntriesOf, Current
<1>. QED  BY <1>1, <1>2

\* Starting a call answers nothing new: the tag a new term gets, of an empty
\* set or of one that other terms share, holds no entry of it.
LEMMA CallsAnswerTheSame ==
    ASSUME IInv, phase # "serve", Call, NEW t \in Terms
    PROVE  Answer(t)' = Answer(t)
<1>. USE DEF memory, queues, disk, control, life
<1>1. TypeOK /\ JobInv /\ CacheInv /\ OneHome
  BY DEF IInv
<1>2. UNCHANGED <<cache, resident, postings, file>>
  BY DEF Call, InsertKnown, InsertNew, Fetch, PruneTerm, BeginPrune, BeginSave
<1>3. \A c \in Tags : DocsOf(Current(c), t)' = DocsOf(Current(c), t)
  BY <1>2 DEF DocsOf, EntriesOf, Current
<1>4. CASE dataTag'[t] = dataTag[t]
  BY <1>3, <1>4, SameAnswer
<1>5. CASE dataTag'[t] # dataTag[t]
  <2>1. PICK u \in Terms, c \in Tags : /\ dataTag[u] = None
                                       /\ dataTag' = [dataTag EXCEPT ![u] = c]
    <3>1. PICK u \in Terms, d \in Docs : InsertNew(u, d)
      BY <1>5 DEF Call, InsertKnown, Fetch, PruneTerm, BeginPrune, BeginSave
    <3>. QED  BY <1>1, <3>1, LeastUsedType DEF InsertNew
  <2>2. u = t /\ dataTag'[t] = c /\ dataTag[t] = None /\ c # None
    BY <1>1, <1>5, <2>1, NoneAssumption DEF TypeOK
  <2>3. t \notin TermsOf(Current(c))
    BY <1>1, <2>2 DEF OneHome, Current, CacheInv, TermsOf
  <2>4. DocsOf(Current(c), t) = {}
    BY <2>3 DEF DocsOf, EntriesOf, TermsOf
  <2>5. DocsOf(Current(c), t)' = {}
    BY <1>3, <2>4
  <2>. QED  BY <2>2, <2>5 DEF Answer, DocsOf, EntriesOf, Current
<1>. QED  BY <1>4, <1>5

\* Nor does moving a list to a set of its own.
LEMMA SplitsAnswerTheSame ==
    ASSUME IInv, ListInv, RetrieveSplit, NEW u \in Terms
    PROVE  Answer(u)' = Answer(u)
<1>1. PICK t \in Terms, c \in resident, n \in Tags \ cache :
             /\ t = job.term /\ c = dataTag[t] /\ t \in listed[c]
             /\ dataTag' = [dataTag EXCEPT ![t] = n]
             /\ Current(c)' = Current(c) \ EntriesOf(Current(c), t)
             /\ Current(n)' = EntriesOf(Current(c), t)
             /\ \A b \in Tags \ {c, n} : Current(b)' = Current(b)
  BY SplitFacts
<1>2. TypeOK /\ CacheInv /\ c \in Tags /\ c # None /\ n # None
  BY <1>1, NoneAssumption DEF IInv, TypeOK
<1>3. CASE u = t
  <2>1. dataTag'[u] = n /\ dataTag[u] = c
    BY <1>1, <1>2, <1>3 DEF TypeOK
  <2>2. DocsOf(Current(n), u)' = DocsOf(Current(c), u)
    BY <1>1, <1>3 DEF DocsOf, EntriesOf
  <2>. QED  BY <1>2, <2>1, <2>2 DEF Answer, DocsOf, EntriesOf, Current
<1>4. CASE u # t
  <2>1. dataTag'[u] = dataTag[u]
    BY <1>1, <1>2, <1>4 DEF TypeOK
  <2>2. dataTag[u] # n
    <3>1. dataTag[u] = n => Indexed(u)
      BY <1>1, <1>2, <1>4 DEF ListInv
    <3>2. Current(n) = {}
      BY <1>1, <1>2 DEF CacheInv, Current
    <3>. QED  BY <3>1, <3>2 DEF Indexed, TermsOf, Current
  <2>3. DocsOf(Current(c), u)' = DocsOf(Current(c), u)
    BY <1>1, <1>4 DEF DocsOf, EntriesOf
  <2>4. \A b \in Tags \ {c, n} : DocsOf(Current(b), u)' = DocsOf(Current(b), u)
    BY <1>1 DEF DocsOf, EntriesOf
  <2>. QED  BY <2>1, <2>2, <2>3, <2>4, SameAnswer
<1>. QED  BY <1>3, <1>4

\* What a caller writes to the list it was given, to the set that holds it.
LEMMA WriteAnswers ==
    ASSUME IInv, UseRegister \/ UsePrune
    PROVE  \E t \in Terms, c \in resident, gone \in SUBSET Docs :
             /\ t = job.term /\ c = dataTag[t] /\ c # None
             /\ UseRegister => /\ job.doc \in Docs
                               /\ Answer(t)' = Answer(t) \cup {job.doc}
             /\ UsePrune => /\ Answer(t)' = Answer(t) \ gone
                            /\ Answer(t) \subseteq gone => Answer(t) = {}
             /\ \A u \in Terms \ {t} : Answer(u)' = Answer(u)
<1>. USE DEF memory, queues, disk, control, life
<1>1. TypeOK /\ JobInv /\ CacheInv
  BY DEF IInv
<1>2. PICK t \in Terms, c \in resident :
        t = job.term /\ c = dataTag[t] /\ c \in Tags /\ c # None
  BY <1>1, NoneAssumption DEF TypeOK, JobInv, At, JobTag, UseRegister, UsePrune
<1>3. UNCHANGED <<dataTag, cache, resident, file>>
  BY DEF UseRegister, UsePrune
<1>4. /\ Current(c) = postings[c] /\ Current(c)' = postings'[c]
      /\ Answer(t) = DocsOf(postings[c], t) /\ Answer(t)' = DocsOf(postings'[c], t)
  BY <1>2, <1>3 DEF Current, Answer, DocsOf, EntriesOf
<1>5. postings[c] \in SUBSET (Terms \X Docs)
  BY <1>1, <1>2 DEF TypeOK
<1>6. PICK S : /\ postings' = [postings EXCEPT ![c] = S]
               /\ \A e \in S : e \in postings[c] \/ e[1] = t
               /\ \A e \in postings[c] : e \in S \/ e[1] = t
  <2>1. CASE UseRegister
    <3>. DEFINE new == postings[c] \cup {<<t, job.doc>>}
    <3>1. postings' = [postings EXCEPT ![c] = new]
      BY <1>2, <2>1 DEF UseRegister
    <3>2. /\ \A e \in new : e \in postings[c] \/ e[1] = t
          /\ \A e \in postings[c] : e \in new
      OBVIOUS
    <3>. HIDE DEF new
    <3>. QED  BY <3>1, <3>2
  <2>2. CASE UsePrune
    <3>1. PICK gone \in SUBSET EntriesOf(postings[c], t) :
                postings' = [postings EXCEPT ![c] = postings[c] \ gone]
      BY <1>2, <2>2 DEF UsePrune
    <3>. DEFINE new == postings[c] \ gone
    <3>2. /\ \A e \in new : e \in postings[c]
          /\ \A e \in postings[c] : e \in new \/ e[1] = t
      BY DEF EntriesOf
    <3>3. postings' = [postings EXCEPT ![c] = new]
      BY <3>1
    <3>. HIDE DEF new
    <3>. QED  BY <3>2, <3>3
  <2>. QED  BY <2>1, <2>2
<1>7. postings'[c] = S /\ \A b \in Tags \ {c} : postings'[b] = postings[b]
  BY <1>1, <1>2, <1>6 DEF TypeOK
<1>8. ASSUME NEW u \in Terms \ {t} PROVE Answer(u)' = Answer(u)
  <2>1. DocsOf(S, u) = DocsOf(postings[c], u)
    BY <1>6 DEF DocsOf, EntriesOf
  <2>2. DocsOf(Current(c), u)' = DocsOf(Current(c), u)
    BY <1>4, <1>7, <2>1 DEF DocsOf, EntriesOf
  <2>3. \A b \in Tags \ {c} : DocsOf(Current(b), u)' = DocsOf(Current(b), u)
    BY <1>3, <1>7 DEF DocsOf, EntriesOf, Current
  <2>4. dataTag'[u] = dataTag[u]
    BY <1>3
  <2>. QED  BY <2>2, <2>3, <2>4, SameAnswer
<1>9. CASE UseRegister
  <2>1. /\ job.doc \in Docs
        /\ postings' = [postings EXCEPT ![c] = postings[c] \cup {<<t, job.doc>>}]
    BY <1>1, <1>2, <1>9 DEF JobInv, UseRegister
  <2>2. postings'[c] = postings[c] \cup {<<t, job.doc>>}
    BY <1>1, <1>2, <2>1 DEF TypeOK
  <2>3. DocsOf(postings'[c], t) = DocsOf(postings[c], t) \cup {job.doc}
    <3>. DEFINE p == <<t, job.doc>>
    <3>1. p[1] = t /\ p[2] = job.doc /\ postings'[c] = postings[c] \cup {p}
      BY <2>2
    <3>. HIDE DEF p
    <3>2. EntriesOf(postings'[c], t) = EntriesOf(postings[c], t) \cup {p}
      BY <3>1 DEF EntriesOf
    <3>. QED  BY <3>1, <3>2 DEF DocsOf
  <2>4. ~UsePrune
    BY <1>9 DEF UseRegister, UsePrune
  <2>. QED  BY <1>2, <1>4, <1>8, <2>1, <2>3, <2>4
<1>10. CASE UsePrune
  <2>1. PICK gone \in SUBSET EntriesOf(postings[c], t) :
                /\ gone = EntriesOf(postings[c], t) => gone = {}
                /\ postings' = [postings EXCEPT ![c] = postings[c] \ gone]
    BY <1>2, <1>10 DEF UsePrune
  <2>2. postings'[c] = postings[c] \ gone
    BY <1>1, <1>2, <2>1 DEF TypeOK
  <2>. DEFINE D == {e[2] : e \in gone}
  <2>3. D \in SUBSET Docs
    BY <1>5 DEF EntriesOf
  <2>4. \A e, f \in EntriesOf(postings[c], t) : e[2] = f[2] => e = f
    BY <1>5 DEF EntriesOf
  <2>5. DocsOf(postings'[c], t) = DocsOf(postings[c], t) \ D
    <3>1. EntriesOf(postings'[c], t) = EntriesOf(postings[c], t) \ gone
      BY <2>2 DEF EntriesOf
    <3>2. ASSUME NEW e \in EntriesOf(postings[c], t) PROVE e \in gone <=> e[2] \in D
      BY <2>4
    <3>. HIDE DEF D
    <3>. QED  BY <3>1, <3>2 DEF DocsOf
  <2>6. DocsOf(postings[c], t) \subseteq D => DocsOf(postings[c], t) = {}
    <3>1. DocsOf(postings[c], t) \subseteq D => gone = EntriesOf(postings[c], t)
      <4>. SUFFICES ASSUME DocsOf(postings[c], t) \subseteq D,
                           NEW e \in EntriesOf(postings[c], t)
                    PROVE  e \in gone
        OBVIOUS
      <4>1. e[2] \in D
        BY DEF DocsOf
      <4>2. PICK f \in gone : f[2] = e[2]
        BY <4>1
      <4>. QED  BY <2>4, <4>2
    <3>. QED  BY <2>1, <3>1 DEF DocsOf
  <2>7. ~UseRegister
    BY <1>10 DEF UseRegister, UsePrune
  <2>. HIDE DEF D
  <2>. QED  BY <1>2, <1>4, <1>8, <2>3, <2>5, <2>6, <2>7
<1>. QED  BY <1>9, <1>10

\* Every step of the lexicon, seen through what lookups answer, is a step of
\* Lexicon or none: registering and pruning happen when the caller writes,
\* saving when SaveToDisk ends.
LEMMA StepRefines ==
    ASSUME IInv, ListInv, phase # "serve", IInv', phase' # "serve", [Next]_vars
    PROVE  [Lex!Next]_(Lex!vars)
<1>. USE DEF memory, queues, disk, control, life
<1>. DEFINE index == [t \in Terms |-> Contents(t)]
            open == phase \in {"build", "prune"}
<1>1. TypeOK /\ JobInv /\ CacheInv /\ OneHome
  BY DEF IInv
<1>2. \A t \in Terms : Contents(t) = Answer(t)
  BY ContentsAreAnswers
<1>3. \A t \in Terms : Contents(t)' = Answer(t)'
  <2>1. job'.kind # "load"
    BY DEF IInv, JobInv, At
  <2>. QED  BY <2>1 DEF Contents, Answer, Unread
<1>4. ASSUME \A t \in Terms : Answer(t)' = Answer(t), open' = open
      PROVE  UNCHANGED Lex!vars
  BY <1>2, <1>3, <1>4 DEF Lex!vars
<1>5. CASE UNCHANGED vars
  <2>1. (\A t \in Terms : Answer(t)' = Answer(t)) /\ open' = open
    BY <1>5 DEF vars, Answer, DocsOf, EntriesOf, Current
  <2>. QED  BY <1>4, <2>1
<1>6. CASE Call
  <2>1. open' = open
    BY <1>6 DEF Call, InsertKnown, InsertNew, Fetch, PruneTerm, BeginPrune, BeginSave
  <2>. QED  BY <1>4, <1>6, <2>1, CallsAnswerTheSame
<1>7. CASE Moving /\ ~EndSave
  <2>1. open' = open
    BY <1>7 DEF Moving, RetrieveUnknown, Create, RetrieveHit, RetrieveSwapped, SendLoaded,
          EvictDone, EvictOldest, SendEvicted, UseFetch, SaveReload, SaveDump, EndLoad,
          SwappedWorker
  <2>2. \A t \in Terms : Answer(t)' = Answer(t)
    <3>1. (\A c \in Tags : Current(c)' = Current(c)) /\ dataTag' = dataTag
      BY <1>7, MovesKeepContents
    <3>2. \A t \in Terms, c \in Tags : DocsOf(Current(c), t)' = DocsOf(Current(c), t)
      BY <3>1 DEF DocsOf, EntriesOf
    <3>. QED  BY <3>1, <3>2, SameAnswer
  <2>. QED  BY <1>4, <2>1, <2>2
<1>8. CASE EndSave
  <2>1. open /\ ~open'
    BY <1>1, <1>8 DEF JobInv, At, EndSave
  <2>2. \A t \in Terms : Answer(t)' = Answer(t)
    BY <1>8 DEF EndSave, Answer, DocsOf, EntriesOf, Current
  <2>3. index' = index
    BY <1>2, <1>3, <2>2
  <2>4. Lex!Save
    BY <2>1, <2>3 DEF Lex!Save
  <2>. QED  BY <2>4 DEF Lex!Next
<1>9. CASE RetrieveSplit
  <2>1. open' = open
    BY <1>9 DEF RetrieveSplit
  <2>. QED  BY <1>4, <1>9, <2>1, SplitsAnswerTheSame
<1>10. CASE UseRegister \/ UsePrune
  <2>1. PICK t \in Terms, gone \in SUBSET Docs :
             /\ UseRegister => /\ job.doc \in Docs
                               /\ Answer(t)' = Answer(t) \cup {job.doc}
             /\ UsePrune => /\ Answer(t)' = Answer(t) \ gone
                            /\ Answer(t) \subseteq gone => Answer(t) = {}
             /\ \A u \in Terms \ {t} : Answer(u)' = Answer(u)
    BY <1>10, WriteAnswers
  <2>2. open /\ open' = open
    BY <1>1, <1>10 DEF JobInv, UseRegister, UsePrune
  <2>3. CASE UseRegister
    <3>1. index' = [index EXCEPT ![t] = @ \cup {job.doc}]
      BY <1>2, <1>3, <2>1, <2>3
    <3>2. Lex!Register(t, job.doc)
      BY <2>2, <3>1 DEF Lex!Register
    <3>. QED  BY <2>1, <2>3, <3>2 DEF Lex!Next
  <2>4. CASE UsePrune
    <3>1. /\ index' = [index EXCEPT ![t] = @ \ gone]
          /\ index[t] \subseteq gone => index[t] = {}
      BY <1>2, <1>3, <2>1, <2>4
    <3>2. Lex!Prune(t, gone)
      BY <2>2, <3>1 DEF Lex!Prune
    <3>. QED  BY <3>2 DEF Lex!Next
  <2>. QED  BY <1>10, <2>3, <2>4
<1>11. ~Restart
  BY DEF Restart
<1>12. ~(\E c \in Tags : LoadFile(c))
  BY <1>1 DEF JobInv, At, LoadFile
<1>. QED
  BY <1>5, <1>6, <1>7, <1>8, <1>9, <1>10, <1>11, <1>12 DEF Next, Proceed, Moving

\* Within one process the memory-constrained lexicon implements the abstract
\* one: its containers, its LRU and its files are invisible to its callers.
THEOREM Refinement ==
    ASSUME MaxRestarts = 0
    PROVE  Spec => LexSpec
<1>1. Init => Lex!Init
  BY DEF Init, Lex!Init, Contents, Unread, NoJob
<1>2. AllInv => IInv /\ ListInv
  BY DEF AllInv
<1>3. /\ IInv /\ ListInv /\ (restarts = 0 /\ phase # "serve")
      /\ IInv' /\ (restarts = 0 /\ phase # "serve")' /\ [Next]_vars
      => [Lex!Next]_(Lex!vars)
  BY StepRefines
<1>. QED  BY <1>1, <1>2, <1>3, AllInvHolds, Building, PTL DEF Spec, LexSpec, Lex!Spec
-----------------------------------------------------------------------------
(* Across restarts, as long as no set is split once the index is saved.    *)

\* A saved index is what its files hold: no term is in two of them, every set
\* in memory is a copy of one, and the terms of a file that has been read are
\* tagged with it.
SavedInv ==
    phase \in {"saved", "serve"} =>
        /\ cache \cup Unread \subseteq onDisk /\ cache \cap Unread = {}
        /\ \A c \in cache : Current(c) = file[c]
        /\ \A c \in onDisk \ Unread : \A t \in TermsOf(file[c]) : dataTag[t] = c
        /\ \A b, c \in onDisk : TermsOf(file[b]) \cap TermsOf(file[c]) # {} => b = c

\* The documents the files give for t.
SavedDocs(t) == UNION {DocsOf(file[c], t) : c \in onDisk}

\* What a lookup answers is what the files hold, also while they are read.
Answered ==
    phase \in {"saved", "serve"} => \A t \in Terms : Contents(t) = SavedDocs(t)

\* Splits belong to the process that builds the index.
NoLateSplit == RetrieveSplit => phase \in {"build", "prune"}

\* A term that is tagged in a reloaded index has its entries in that set.
LEMMA TaggedTerms ==
    ASSUME IInv, ListInv, phase \in {"saved", "serve"}, NEW t \in Terms, dataTag[t] # None
    PROVE  dataTag[t] \in cache /\ dataTag[t] \in Tags /\ Indexed(t)
<1>1. TypeOK /\ JobInv /\ CacheInv
  BY DEF IInv
<1>2. job.kind # "register" /\ dataTag[t] \in Tags
  BY <1>1 DEF JobInv, TypeOK
<1>3. Indexed(t)
  BY <1>2 DEF ListInv
<1>. QED  BY <1>1, <1>2, <1>3 DEF Indexed, TermsOf, Current, CacheInv

LEMMA SavedAnswers == IInv /\ ListInv /\ SavedInv => Answered
<1>. SUFFICES ASSUME IInv, ListInv, SavedInv, phase \in {"saved", "serve"}, NEW t \in Terms
              PROVE  Contents(t) = SavedDocs(t)
  BY DEF Answered
<1>1. TypeOK /\ SavedInv /\ None \notin Tags
  BY NoneAssumption DEF IInv
<1>2. \A c : t \notin TermsOf(file[c]) => DocsOf(file[c], t) = {}
  BY DEF DocsOf, EntriesOf, TermsOf
<1>3. CASE dataTag[t] = None
  <2>1. \A c \in onDisk \ Unread : t \notin TermsOf(file[c])
    BY <1>1, <1>3 DEF SavedInv, TypeOK
  <2>2. Unread \subseteq onDisk
    BY <1>1 DEF SavedInv
  <2>. QED  BY <1>2, <1>3, <2>1, <2>2 DEF Contents, SavedDocs
<1>4. CASE dataTag[t] # None
  <2>1. PICK c \in cache : c = dataTag[t] /\ t \in TermsOf(Current(c))
    BY <1>4, TaggedTerms DEF Indexed
  <2>2. c \in onDisk /\ Current(c) = file[c] /\ t \in TermsOf(file[c])
    BY <1>1, <2>1 DEF SavedInv
  <2>3. \A b \in onDisk : t \in TermsOf(file[b]) => b = c
    BY <1>1, <2>2 DEF SavedInv
  <2>4. SavedDocs(t) = DocsOf(file[c], t)
    BY <1>2, <2>2, <2>3 DEF SavedDocs
  <2>5. Contents(t) = DocsOf(file[c], t)
    BY <1>4, <2>1, <2>2 DEF Contents
  <2>. QED  BY <2>4, <2>5
<1>. QED  BY <1>3, <1>4

\* SaveToDisk leaves every set in the file of its own, and nothing else.
LEMMA SaveEstablishes ==
    ASSUME AllInv, EndSave
    PROVE  SavedInv'
<1>1. /\ TypeOK /\ OneHome /\ SaveInv /\ job.kind = "save" /\ todo = {}
      /\ phase \in {"build", "prune"}
  BY DEF AllInv, IInv, JobInv, At, EndSave
<1>2. onDisk = cache /\ \A c \in cache : file[c] = Current(c)
  BY <1>1 DEF SaveInv
<1>3. \A c \in onDisk : \A t \in TermsOf(file[c]) : dataTag[t] = c
  BY <1>1, <1>2 DEF OneHome
<1>4. /\ UNCHANGED <<memory, disk>> /\ Unread' = {}
      /\ \A c : Current(c)' = Current(c)
  BY DEF EndSave, Return, NoJob, Unread, Current, memory, disk
<1>5. \A c : TermsOf(file[c])' = TermsOf(file[c])
  BY <1>4 DEF disk, TermsOf
<1>. QED  BY <1>2, <1>3, <1>4, <1>5 DEF SavedInv, memory, disk

\* Moving the sets of a saved index writes to its files what is in them.
LEMMA MovesKeepSaved ==
    ASSUME AllInv, SavedInv, phase \in {"saved", "serve"}, Moving
    PROVE  SavedInv' /\ UNCHANGED <<disk, phase>>
<1>. USE DEF memory, queues, disk, control, life
<1>1. TypeOK /\ JobInv /\ CacheInv /\ ListInv /\ IInv
  BY DEF AllInv, IInv
<1>2. (\A c \in Tags : Current(c)' = Current(c)) /\ dataTag' = dataTag
  BY <1>1, MovesKeepContents
<1>3. ~RetrieveUnknown /\ ~Create
  <2>1. ASSUME RetrieveUnknown \/ Create PROVE FALSE
    <3>1. job.term \in Terms /\ JobTag \in Tags /\ JobTag \notin cache
      BY <1>1, <2>1 DEF JobInv, At, JobTag, RetrieveUnknown, Create
    <3>. QED  BY <1>1, <3>1, TaggedTerms, NoneAssumption DEF JobTag
  <2>. QED  BY <2>1
<1>4. ~EndSave /\ \A c \in Tags : ~SaveReload(c) /\ ~SaveDump(c)
  BY <1>1 DEF JobInv, At, EndSave, SaveReload, SaveDump
<1>5. UNCHANGED <<disk, cache, phase>>
  <2>1. CASE EvictOldest
    <3>1. lru # <<>> /\ lru \in Seq(Tags) /\ IsInjective(lru) /\ pc = "evict"
      BY <1>1, <2>1 DEF TypeOK, CacheInv, EvictOldest, OverLoaded
    <3>2. PICK c \in Tags : c = Head(lru) /\ c \in resident /\ c \in cache
      BY <1>1, <3>1, TailFacts DEF CacheInv
    <3>3. /\ file' = [file EXCEPT ![c] = postings[c]] /\ onDisk' = onDisk \cup {c}
          /\ UNCHANGED <<cache, phase>>
      BY <2>1, <3>2 DEF EvictOldest, DumpEntries
    <3>4. c \in onDisk /\ postings[c] = file[c]
      BY <3>2 DEF SavedInv, Current
    <3>. QED  BY <1>1, <3>3, <3>4 DEF TypeOK
  <2>2. CASE ~EvictOldest
    BY <1>3, <1>4, <2>2 DEF Moving, RetrieveHit, RetrieveSwapped, SendLoaded, EvictDone,
          SendEvicted, UseFetch, EndLoad, SwappedWorker
  <2>. QED  BY <2>1, <2>2
<1>6. Unread' = Unread
  <2>1. CASE UseFetch \/ EndLoad
    BY <2>1 DEF UseFetch, EndLoad, Return, NoJob, Unread
  <2>2. CASE ~UseFetch /\ ~EndLoad
    <3>1. job'.kind = job.kind /\ todo' = todo
      BY <1>1, <1>3, <1>4, <2>2
         DEF TypeOK, Jobs, Moving, RetrieveHit, RetrieveSwapped, SendLoaded, EvictDone,
             EvictOldest, SendEvicted, SwappedWorker, Evicting
    <3>. QED  BY <3>1 DEF Unread
  <2>. QED  BY <2>1, <2>2
<1>7. \A c : TermsOf(file[c])' = TermsOf(file[c])
  BY <1>5 DEF TermsOf
<1>8. \A c \in cache : Current(c)' = Current(c)
  BY <1>1, <1>2 DEF TypeOK
<1>. QED  BY <1>2, <1>5, <1>6, <1>7, <1>8 DEF SavedInv

\* The terms of a file that is read had no tag yet, and now have its own.
LEMMA LoadedTags ==
    ASSUME AllInv, SavedInv, NEW c \in Tags, LoadFile(c), NEW t \in Terms
    PROVE  dataTag'[t] = IF t \in TermsOf(file[c]) THEN c ELSE dataTag[t]
<1>1. TypeOK /\ JobInv /\ CacheInv /\ ListInv /\ IInv
  BY DEF AllInv, IInv
<1>2. phase = "serve" /\ c \notin cache /\ c \in onDisk
  BY <1>1 DEF JobInv, At, LoadFile, Unread, SavedInv
<1>3. t \in TermsOf(file[c]) => dataTag[t] = None
  <2>. SUFFICES ASSUME t \in TermsOf(file[c]), dataTag[t] # None PROVE FALSE
    OBVIOUS
  <2>1. PICK b \in cache : b = dataTag[t] /\ t \in TermsOf(Current(b))
    BY <1>1, <1>2, TaggedTerms DEF Indexed
  <2>2. b \in onDisk /\ t \in TermsOf(file[b])
    BY <1>2, <2>1 DEF SavedInv
  <2>. QED  BY <1>2, <2>1, <2>2 DEF SavedInv
<1>. QED  BY <1>1, <1>3 DEF TypeOK, LoadFile

\* Reading one more file: its terms are in no file that was read before.
LEMMA LoadKeepsSaved ==
    ASSUME AllInv, SavedInv, NEW c \in Tags, LoadFile(c)
    PROVE  SavedInv' /\ UNCHANGED <<disk, phase>>
<1>. USE DEF memory, queues, disk, control, life
<1>1. TypeOK /\ JobInv /\ CacheInv /\ ListInv /\ IInv
  BY DEF AllInv, IInv
<1>2. /\ phase = "serve" /\ job.kind = "load" /\ c \in todo /\ Unread = todo
      /\ c \notin cache /\ c \notin resident /\ c \in onDisk
  BY <1>1 DEF JobInv, CacheInv, At, LoadFile, Unread, SavedInv
<1>3. /\ postings' = [postings EXCEPT ![c] = file[c]]
      /\ cache' = cache \cup {c} /\ resident' = resident \cup {c}
      /\ UNCHANGED <<disk, phase>> /\ Unread' = todo \ {c}
  BY <1>1, <1>2 DEF TypeOK, Jobs, LoadFile, AddPLS, LoadEntries, Evicting, Unread
<1>4. Current(c)' = file[c] /\ \A b \in Tags \ {c} : Current(b)' = Current(b)
  BY <1>1, <1>3 DEF TypeOK, Current
<1>5. \A b : TermsOf(file[b])' = TermsOf(file[b])
  BY <1>3 DEF TermsOf
<1>6. \A t \in Terms : dataTag'[t] = IF t \in TermsOf(file[c]) THEN c ELSE dataTag[t]
  BY LoadedTags
<1>7. \A b \in cache' : Current(b)' = file[b]
  BY <1>1, <1>2, <1>3, <1>4 DEF TypeOK, SavedInv
<1>8. ASSUME NEW b \in onDisk \ Unread', NEW t \in TermsOf(file[b]) PROVE dataTag'[t] = b
  <2>1. t \in Terms
    BY <1>1, EntriesType DEF TypeOK
  <2>2. CASE b = c
    BY <1>6, <2>1, <2>2
  <2>3. CASE b # c
    <3>1. dataTag[t] = b
      BY <1>2, <1>3, <2>3 DEF SavedInv
    <3>2. t \notin TermsOf(file[c])
      BY <1>2, <2>3 DEF SavedInv
    <3>. QED  BY <1>6, <2>1, <3>1, <3>2
  <2>. QED  BY <2>2, <2>3
<1>. QED  BY <1>2, <1>3, <1>5, <1>7, <1>8 DEF SavedInv

\* Once the index is saved no step changes a file, whatever is read back,
\* evicted or reloaded.
LEMMA SavedStep ==
    ASSUME AllInv, SavedInv, NoLateSplit, [Next]_vars
    PROVE  /\ SavedInv'
           /\ phase \in {"saved", "serve"} =>
                 UNCHANGED disk /\ phase' \in {"saved", "serve"}
<1>. USE DEF memory, queues, disk, control, life
<1>1. TypeOK /\ JobInv /\ CacheInv /\ ListInv /\ IInv
  BY DEF AllInv, IInv
<1>2. CASE phase \in {"saved", "serve"}
  <2>1. CASE UNCHANGED vars
    BY <1>2, <2>1 DEF vars, SavedInv, Unread, Current, TermsOf
  <2>2. CASE Call
    <3>1. UNCHANGED <<memory, disk, phase>> /\ Unread = {} /\ Unread' = {}
      BY <1>1, <1>2, <2>2 DEF JobInv, Call, InsertKnown, InsertNew, Fetch, PruneTerm,
            BeginPrune, BeginSave, Begin, NoJob, Unread
    <3>. QED  BY <1>2, <3>1 DEF SavedInv, Current, TermsOf
  <2>3. CASE Moving
    BY <1>2, <2>3, MovesKeepSaved
  <2>4. CASE RetrieveSplit \/ UseRegister \/ UsePrune
    BY <1>1, <1>2, <2>4 DEF NoLateSplit, JobInv, UseRegister, UsePrune
  <2>5. CASE \E c \in Tags : LoadFile(c)
    BY <1>2, <2>5, LoadKeepsSaved
  <2>6. CASE Restart
    <3>1. /\ phase' = "serve" /\ cache' = {} /\ Unread' = onDisk /\ UNCHANGED disk
      BY <2>6 DEF Restart, NoJob, Unread
    <3>2. \A c : TermsOf(file[c])' = TermsOf(file[c])
      BY <3>1 DEF TermsOf
    <3>. QED  BY <1>2, <3>1, <3>2 DEF SavedInv
  <2>. QED  BY <2>1, <2>2, <2>3, <2>4, <2>5, <2>6 DEF Next, Proceed, Moving
<1>3. CASE phase \notin {"saved", "serve"}
  <2>1. CASE EndSave
    BY <1>3, <2>1, SaveEstablishes
  <2>2. CASE ~EndSave
    <3>1. phase' \notin {"saved", "serve"}
      <4>1. CASE UNCHANGED vars \/ SwappedWorker
        BY <1>3, <4>1 DEF vars, SwappedWorker
      <4>2. CASE Call
        BY <1>3, <4>2 DEF Call, InsertKnown, InsertNew, Fetch, PruneTerm, BeginPrune, BeginSave
      <4>3. CASE Proceed
        BY <1>3, <2>2, <4>3 DEF Proceed, RetrieveUnknown, Create, RetrieveSplit, RetrieveHit,
              RetrieveSwapped, SendLoaded, EvictDone, EvictOldest, SendEvicted, UseRegister,
              UseFetch, UsePrune, SaveReload, SaveDump, LoadFile, EndLoad
      <4>4. ~Restart
        BY <1>3 DEF Restart
      <4>. QED  BY <4>1, <4>2, <4>3, <4>4 DEF Next
    <3>. QED  BY <1>3, <3>1 DEF SavedInv
  <2>. QED  BY <2>1, <2>2
<1>. QED  BY <1>2, <1>3

LEMMA NextNoLateSplit == [NoLateSplit]_vars => NoLateSplit
  BY DEF NoLateSplit, RetrieveSplit, Evicting, vars, control

LEMMA SavedInvHolds == Spec /\ [][NoLateSplit]_vars => [](AllInv /\ SavedInv)
<1>1. Init => AllInv /\ SavedInv
  <2>. SUFFICES ASSUME Init PROVE AllInv /\ SavedInv
    OBVIOUS
  <2>1. AllInv
    BY InitIInv, InitList DEF AllInv
  <2>. QED  BY <2>1 DEF Init, SavedInv
<1>2. AllInv /\ SavedInv /\ [Next]_vars /\ [NoLateSplit]_vars => (AllInv /\ SavedInv)'
  <2>. SUFFICES ASSUME AllInv, SavedInv, [Next]_vars, NoLateSplit PROVE (AllInv /\ SavedInv)'
    BY NextNoLateSplit
  <2>1. AllInv'
    BY Inductive, ListStep, SaveInvStep DEF AllInv
  <2>. QED  BY <2>1, SavedStep
<1>. QED  BY <1>1, <1>2, PTL DEF Spec

\* A step of a saved index, or of one that is reloaded, answers every lookup
\* as before.
LEMMA SavedStepRefines ==
    ASSUME AllInv, SavedInv, Answered, AllInv', Answered', NoLateSplit, [Next]_vars
    PROVE  [Lex!Next]_(Lex!vars)
<1>1. CASE phase \notin {"saved", "serve"}
  <2>1. phase # "serve" /\ phase' # "serve"
    <3>1. CASE UNCHANGED vars \/ SwappedWorker
      BY <1>1, <3>1 DEF vars, life, SwappedWorker
    <3>2. CASE Call
      BY <1>1, <3>2 DEF Call, InsertKnown, InsertNew, Fetch, PruneTerm, BeginPrune, BeginSave, life
    <3>3. CASE Proceed
      BY <1>1, <3>3 DEF Proceed, RetrieveUnknown, Create, RetrieveSplit, RetrieveHit, life,
            RetrieveSwapped, SendLoaded, EvictDone, EvictOldest, SendEvicted, UseRegister,
            UseFetch, UsePrune, SaveReload, SaveDump, LoadFile, EndSave, EndLoad
    <3>4. ~Restart
      BY <1>1 DEF Restart
    <3>. QED  BY <1>1, <3>1, <3>2, <3>3, <3>4 DEF Next
  <2>. QED  BY <2>1, StepRefines DEF AllInv
<1>2. CASE phase \in {"saved", "serve"}
  <2>1. UNCHANGED disk /\ phase' \in {"saved", "serve"}
    BY <1>2, SavedStep
  <2>2. \A t \in Terms : Contents(t) = SavedDocs(t)
    BY <1>2 DEF Answered
  <2>3. \A t \in Terms : Contents(t)' = SavedDocs(t)'
    BY <2>1 DEF Answered
  <2>4. \A t \in Terms : SavedDocs(t)' = SavedDocs(t)
    BY <2>1 DEF SavedDocs, DocsOf, EntriesOf, disk
  <2>. QED  BY <1>2, <2>1, <2>2, <2>3, <2>4 DEF Lex!vars
<1>. QED  BY <1>1, <1>2

\* As long as RetrievePLS splits no set after SaveToDisk, the lexicon implements
\* the abstract one over any number of processes: whatever of it was saved,
\* reloaded, evicted and read back, lookups are answered with what was built.
\* (A split after that leaves the file it split out of date.)
THEOREM ReloadRefinement == Spec /\ [][NoLateSplit]_vars => LexSpec
<1>1. Init => Lex!Init
  BY DEF Init, Lex!Init, Contents, Unread, NoJob
<1>2. AllInv /\ SavedInv => Answered
  BY SavedAnswers DEF AllInv
<1>3. /\ AllInv /\ SavedInv /\ Answered /\ AllInv' /\ Answered'
      /\ [NoLateSplit]_vars /\ [Next]_vars
      => [Lex!Next]_(Lex!vars)
  BY SavedStepRefines, NextNoLateSplit
<1>. QED  BY <1>1, <1>2, <1>3, SavedInvHolds, PTL DEF Spec, LexSpec, Lex!Spec
-----------------------------------------------------------------------------
(* A limit below ten postings, or none at all, leaves nothing to split.    *)

\* With such a limit a set holds the list of one term, and so does its file.
SoleInv ==
    /\ phase = "build" => \A c \in cache : \E t \in Terms : dataTag[t] = c
    /\ \A t, u \in Terms : dataTag[t] = dataTag[u] /\ dataTag[t] # None => t = u
    /\ phase \in {"saved", "serve"} => \A c \in onDisk : ~Crowd(file[c])

\* A set with an entry in it has no room for another.
LEMMA NoRoom ==
    ASSUME AllInv, TrackInv, SizeInv, SoleInv, MaxLoad \in 1..9, pc = "idle", phase = "build"
    PROVE  LeastUsedPLS \subseteq FreshTags
<1>1. TypeOK /\ JobInv /\ CacheInv /\ ListInv
  BY DEF AllInv, IInv
<1>2. PerPLS \in {0, 1} /\ MaxLoad > 0
  BY MaxLoadAssumption DEF PerPLS
<1>3. ASSUME NEW c \in cache PROVE ~HasRoom(c, 100) /\ ~HasRoom(c, 95) /\ ~HasRoom(c, 75)
  <2>1. c \in Tags /\ size[c] \in Int /\ Current(c) \in SUBSET (Terms \X Docs)
    BY <1>1 DEF TypeOK, Current
  <2>2. PICK t \in Terms : dataTag[t] = c
    BY DEF SoleInv
  <2>3. Current(c) # {}
    BY <1>1, <2>1, <2>2, NoneAssumption DEF ListInv, JobInv, Indexed, TermsOf
  <2>4. Cardinality(Current(c)) \in Nat /\ Cardinality(Current(c)) # 0
    <3>1. IsFiniteSet(Current(c))
      BY <2>1, FiniteAssumption, FS_Product, FS_Subset
    <3>. QED  BY <2>3, <3>1, FS_CardinalityType, FS_EmptySet
  <2>5. size[c] >= 1
    <3>1. Cardinality(Current(c)) <= size[c]
      BY DEF SizeInv
    <3>. QED  BY <2>1, <2>4, <3>1
  <2>. QED  BY <1>2, <2>1, <2>5 DEF HasRoom
<1>4. /\ \A i \in DOMAIN lru : lru[i] \in cache
      /\ \A i \in DOMAIN swapped : swapped[i] \in cache
  BY <1>1 DEF CacheInv, TrackInv, Range
<1>. QED  BY <1>3, <1>4 DEF LeastUsedPLS

\* So no set is ever shared, and none is split.
LEMMA NothingToSplit ==
    ASSUME AllInv, SavedInv, SizeInv, SoleInv
    PROVE  ~RetrieveSplit
<1>. SUFFICES ASSUME RetrieveSplit PROVE FALSE
  OBVIOUS
<1>1. TypeOK /\ JobInv /\ CacheInv /\ OneHome
  BY DEF AllInv, IInv
<1>2. PICK c \in resident : Shared(c) /\ c \in Tags
  BY <1>1 DEF RetrieveSplit, TypeOK
<1>3. listed[c] \in SUBSET Terms /\ c \in cache /\ Current(c) = postings[c]
  BY <1>1, <1>2 DEF TypeOK, CacheInv, Current
<1>4. PICK t, u \in listed[c] : t # u
  BY <1>2, <1>3, SharedFacts DEF Shared
<1>5. t \in TermsOf(Current(c)) /\ u \in TermsOf(Current(c))
  BY <1>2, <1>3 DEF SizeInv
<1>6. dataTag[t] = c /\ dataTag[u] = c
  <2>1. CASE phase # "serve"
    BY <1>1, <1>3, <1>5, <2>1 DEF OneHome
  <2>2. CASE phase = "serve"
    BY <1>3, <1>5, <2>2 DEF SavedInv
  <2>. QED  BY <2>1, <2>2
<1>7. t \in Terms /\ u \in Terms /\ c # None
  BY <1>1, <1>2, <1>3, NoneAssumption
<1>. QED  BY <1>4, <1>6, <1>7 DEF SoleInv

\* Reading a file of one term tags that term only, with a tag no other has.
LEMMA LoadKeepsSole ==
    ASSUME AllInv, SavedInv, SoleInv, NEW c \in Tags, LoadFile(c)
    PROVE  SoleInv'
<1>1. TypeOK /\ JobInv /\ CacheInv /\ ListInv /\ IInv
  BY DEF AllInv, IInv
<1>2. phase = "serve" /\ c \notin cache /\ c \in onDisk
  BY <1>1 DEF JobInv, At, LoadFile, SavedInv, Unread
<1>3. UNCHANGED disk /\ phase' = "serve"
  BY <1>2, LoadKeepsSaved DEF life
<1>4. \A t \in Terms : dataTag'[t] = IF t \in TermsOf(file[c]) THEN c ELSE dataTag[t]
  BY LoadedTags
<1>5. \A t \in Terms : dataTag[t] # c
  BY <1>1, <1>2, TaggedTerms, NoneAssumption
<1>6. \A t, u \in TermsOf(file[c]) : t = u
  BY <1>2, CrowdFacts DEF SoleInv
<1>7. \A t, u \in Terms : dataTag'[t] = dataTag'[u] /\ dataTag'[t] # None => t = u
  BY <1>4, <1>5, <1>6 DEF SoleInv
<1>. QED  BY <1>2, <1>3, <1>7 DEF SoleInv, disk, Crowd

LEMMA SoleStep ==
    ASSUME AllInv, TrackInv, SavedInv, SizeInv, SoleInv, SavedInv', [Next]_vars, MaxLoad \in 1..9
    PROVE  SoleInv'
<1>. USE DEF memory, queues, disk, control, life
<1>1. TypeOK /\ JobInv /\ CacheInv /\ IInv
  BY DEF AllInv, IInv
<1>2. ~RetrieveSplit
  BY NothingToSplit
<1>3. phase \in {"saved", "serve"} => UNCHANGED disk /\ phase' \in {"saved", "serve"}
  BY <1>2, SavedStep DEF NoLateSplit
<1>4. CASE UNCHANGED vars \/ SwappedWorker
  BY <1>4 DEF vars, SwappedWorker, SoleInv, Crowd
<1>5. ASSUME NEW t \in Terms, NEW d \in Docs, InsertNew(t, d) PROVE SoleInv'
  <2>1. PICK c \in FreshTags : dataTag' = [dataTag EXCEPT ![t] = c]
    BY <1>5, NoRoom DEF InsertNew
  <2>2. /\ \A u \in Terms : dataTag[u] # c
        /\ dataTag'[t] = c /\ \A u \in Terms \ {t} : dataTag'[u] = dataTag[u]
    BY <1>1, <2>1 DEF TypeOK, FreshTags, Range
  <2>3. cache' = cache /\ phase = "build" /\ phase' = "build" /\ dataTag[t] = None
    BY <1>5 DEF InsertNew
  <2>4. \A b \in cache : \E u \in Terms : dataTag'[u] = b
    <3>. SUFFICES ASSUME NEW b \in cache PROVE \E u \in Terms : dataTag'[u] = b
      OBVIOUS
    <3>1. PICK u \in Terms : dataTag[u] = b
      BY <2>3 DEF SoleInv
    <3>2. b # None
      BY <1>1, NoneAssumption DEF TypeOK
    <3>. QED  BY <2>2, <2>3, <3>1, <3>2
  <2>5. \A u, v \in Terms : dataTag'[u] = dataTag'[v] /\ dataTag'[u] # None => u = v
    BY <2>2 DEF SoleInv
  <2>. QED  BY <2>3, <2>4, <2>5 DEF SoleInv
<1>6. CASE Call /\ ~(\E d \in Docs, t \in Terms : InsertNew(t, d))
  <2>1. /\ UNCHANGED <<dataTag, cache, file, onDisk>>
        /\ phase' = phase \/ (phase = "build" /\ phase' = "prune")
    BY <1>6 DEF Call, InsertKnown, Fetch, PruneTerm, BeginPrune, BeginSave
  <2>. QED  BY <2>1 DEF SoleInv, Crowd
<1>7. CASE \/ RetrieveUnknown \/ RetrieveHit \/ RetrieveSwapped \/ SendLoaded \/ EvictDone
           \/ EvictOldest \/ SendEvicted \/ UseRegister \/ UseFetch \/ UsePrune \/ EndLoad
           \/ \E c \in Tags : SaveReload(c) \/ SaveDump(c)
  <2>1. UNCHANGED <<dataTag, cache, phase>>
    BY <1>7 DEF RetrieveUnknown, RetrieveHit, RetrieveSwapped, SendLoaded, EvictDone,
          EvictOldest, SendEvicted, UseRegister, UseFetch, UsePrune, EndLoad, SaveReload,
          SaveDump
  <2>. QED  BY <1>3, <2>1 DEF SoleInv, Crowd
<1>8. CASE Create
  <2>1. /\ cache' = cache \cup {JobTag} /\ job.term \in Terms /\ UNCHANGED <<dataTag, phase>>
    BY <1>1, <1>8 DEF JobInv, At, JobTag, Create, AddPLS
  <2>. QED  BY <1>3, <2>1 DEF SoleInv, Crowd, JobTag
<1>9. CASE EndSave
  <2>1. /\ UNCHANGED <<dataTag, file, onDisk>> /\ phase' = "saved" /\ Unread' = {}
    BY <1>9 DEF EndSave, Return, NoJob, Unread
  <2>2. \A c \in onDisk : \A t \in TermsOf(file[c]) : dataTag[t] = c
    BY <2>1 DEF SavedInv, TermsOf
  <2>3. \A c \in onDisk : c # None /\ TermsOf(file[c]) \in SUBSET Terms
    BY <1>1, EntriesType, NoneAssumption DEF TypeOK
  <2>4. \A c \in onDisk : ~Crowd(file[c])
    BY <2>2, <2>3, CrowdFacts DEF SoleInv
  <2>. QED  BY <2>1, <2>4 DEF SoleInv, Crowd
<1>10. CASE \E c \in Tags : LoadFile(c)
  BY <1>10, LoadKeepsSole
<1>11. CASE Restart
  <2>1. phase' = "serve" /\ phase \in {"saved", "serve"} /\ dataTag' = [t \in Terms |-> None]
    BY <1>11 DEF Restart
  <2>. QED  BY <1>3, <2>1 DEF SoleInv, Crowd
<1>. QED
  BY <1>2, <1>4, <1>5, <1>6, <1>7, <1>8, <1>9, <1>10, <1>11 DEF Next, Call, Proceed

\* With -index.memlimit below ten, or no limit, RetrievePLS never splits a set:
\* LeastUsedPLS only ever offers a new term a set of its own.
THEOREM SmallLimitsNeverSplit ==
    ASSUME MaxLoad < 10
    PROVE  Spec => [][~RetrieveSplit]_vars
<1>. DEFINE Inv == AllInv /\ TrackInv /\ (MaxLoad > 0 => SavedInv /\ SizeInv /\ SoleInv)
<1>1. Init => Inv
  <2>. SUFFICES ASSUME Init PROVE Inv
    OBVIOUS
  <2>1. AllInv
    BY InitIInv, InitList DEF AllInv
  <2>2. TrackInv
    <3>1. Range(<<>>) = {} /\ IsInjective(<<>>)
      BY DEF Range, IsInjective
    <3>. QED  BY <3>1 DEF Init, TrackInv
  <2>3. SavedInv /\ SizeInv /\ SoleInv
    BY CrowdFacts DEF Init, SavedInv, SizeInv, SoleInv, NoJob
  <2>. QED  BY <2>1, <2>2, <2>3
<1>2. Inv => ~RetrieveSplit
  <2>. SUFFICES ASSUME Inv PROVE ~RetrieveSplit
    OBVIOUS
  <2>1. CASE MaxLoad > 0
    BY <2>1, NothingToSplit
  <2>2. CASE ~(MaxLoad > 0)
    BY <2>2 DEF RetrieveSplit, OverSize
  <2>. QED  BY <2>1, <2>2
<1>3. Inv /\ [Next]_vars => Inv'
  <2>. SUFFICES ASSUME Inv, [Next]_vars PROVE Inv'
    OBVIOUS
  <2>1. AllInv'
    BY Inductive, ListStep, SaveInvStep DEF AllInv
  <2>2. TrackInv'
    BY TrackStep DEF AllInv
  <2>3. ASSUME MaxLoad > 0 PROVE SavedInv' /\ SizeInv' /\ SoleInv'
    <3>1. MaxLoad \in 1..9
      BY <2>3, MaxLoadAssumption
    <3>2. SavedInv'
      BY <1>2, <2>3, SavedStep DEF NoLateSplit
    <3>3. SizeInv'
      BY <2>3, SizeStep DEF AllInv
    <3>. QED  BY <2>3, <3>1, <3>2, <3>3, SoleStep
  <2>. QED  BY <2>1, <2>2, <2>3
<1>. QED  BY <1>1, <1>2, <1>3, PTL DEF Spec

\* With such a limit, as with the default of -index.memlimit, an index that
\* SaveToDisk wrote answers the same in every process that LoadFromDisk reads
\* it in, however much of it evict() and RetrievePLS move about.
THEOREM SmallLimitsReload ==
    ASSUME MaxLoad < 10
    PROVE  Spec => LexSpec
<1>1. [~RetrieveSplit]_vars => [NoLateSplit]_vars
  BY DEF NoLateSplit
<1>. QED  BY <1>1, SmallLimitsNeverSplit, ReloadRefinement, PTL
=============================================================================

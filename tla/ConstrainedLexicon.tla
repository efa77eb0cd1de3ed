------------------------- MODULE ConstrainedLexicon -------------------------
(***************************************************************************)
(* The memory-constrained lexicon of indexer/constrained.  Posting lists   *)
(* are grouped in posting list sets (PLS), one per tag; a PLS is kept in   *)
(* memory by its container or swapped out to the file pls_<tag>.  Two      *)
(* goroutines: the client (InsertToken, PostingList, Prune, SaveToDisk,    *)
(* LoadFromDisk) and SwappedWorker, which maintains swapped_cache and is   *)
(* fed through the unbuffered channel swapped_worker_q.  The client's code *)
(* is cut where it blocks on that channel and where it loops.              *)
(*                                                                         *)
(* A posting is a pair <<term, document>>; the frequency and the positions *)
(* inside an entry never decide anything here.  Tags drawn by generateTag  *)
(* are assumed new.                                                        *)
(***************************************************************************)
EXTENDS Integers, Sequences, FiniteSets, Functions

CONSTANTS
    Terms,          \* token texts
    Docs,           \* document numbers, in the order they are inserted
    Tags,           \* DatastoreTag values; bounds the PLSs ever created
    Words,          \* the terms of each document
    MaxLoad,        \* -index.memlimit; not positive: no limit
    MaxRestarts,    \* bound on process restarts
    Pruning,        \* whether -index.pruning asks for a pruner
    None

ASSUME DocsAssumption == Docs \subseteq Nat
ASSUME WordsAssumption == Words \in [Docs -> SUBSET Terms]
ASSUME MaxLoadAssumption == MaxLoad \in Int
ASSUME MaxRestartsAssumption == MaxRestarts \in Nat
ASSUME PruningAssumption == Pruning \in BOOLEAN
ASSUME NoneAssumption == None \notin Terms \cup Docs \cup Tags
ASSUME FiniteAssumption == IsFiniteSet(Terms) /\ IsFiniteSet(Docs)

VARIABLES
    dataTag,        \* persistent_term.DataTag; None: the term is not in the trie
    cache,          \* keys of pl_set_cache
    resident,       \* containers whose PLS is not nil
    listed,         \* tag -> keys of the resident PLS's listMap
    postings,       \* tag -> entries of those lists
    size,           \* PLSContainer.Size
    plsSize,        \* PostingListSet.Size
    lru,            \* lru_cache, oldest first
    currentLoad,
    swapped,        \* swapped_cache
    worker,         \* the container SwappedWorker has received, None: waiting
    file,           \* tag -> entries in pls_<tag>
    onDisk,         \* tags whose file exists
    pc,             \* where the client is
    job,            \* the call it executes
    todo,           \* tags SaveToDisk or LoadFromDisk has still to visit
    unpruned,       \* terms Prune has still to visit
    phase,          \* "build", "prune", "saved" or "serve" (reloaded)
    lastDoc,        \* the document being inserted
    restarts

memory == <<dataTag, cache, resident, listed, postings, size, plsSize>>
queues == <<lru, currentLoad, swapped, worker>>
disk == <<file, onDisk>>
control == <<pc, job, todo>>
life == <<unpruned, phase, lastDoc, restarts>>
vars == <<memory, queues, disk, control, life>>

Phases == {"build", "prune", "saved", "serve"}
\* What the client does when evict() returns.
Continuations == {"create", "retrieve", "use", "dump", "load"}
\* The panics of evict, TransferPL, RetrievePLS and dump_pls.
Panics == {"panicSize", "panicTransfer", "panicOpen", "panicDump"}
Steps == {"idle", "retrieve", "create", "use", "evict", "swapOut", "swapIn",
          "save", "dump", "load"} \cup Panics
Jobs == [kind : {"none", "register", "fetch", "prune", "save", "load"},
         term : Terms \cup {None}, doc : Docs \cup {None},
         tag : Tags \cup {None}, then : Continuations \cup {None}]
NoJob == [kind |-> "none", term |-> None, doc |-> None, tag |-> None, then |-> None]

TypeOK ==
    /\ dataTag \in [Terms -> Tags \cup {None}]
    /\ cache \in SUBSET Tags /\ resident \in SUBSET Tags
    /\ listed \in [Tags -> SUBSET Terms]
    /\ postings \in [Tags -> SUBSET (Terms \X Docs)]
    /\ size \in [Tags -> Int] /\ plsSize \in [Tags -> Int]
    /\ lru \in Seq(Tags) /\ swapped \in Seq(Tags)
    /\ currentLoad \in Int
    /\ worker \in Tags \cup {None}
    /\ file \in [Tags -> SUBSET (Terms \X Docs)] /\ onDisk \in SUBSET Tags
    /\ pc \in Steps /\ job \in Jobs
    /\ todo \in SUBSET Tags /\ unpruned \in SUBSET Terms
    /\ phase \in Phases /\ lastDoc \in Nat /\ restarts \in Nat
-----------------------------------------------------------------------------
\* setMaxLoad: how many postings a PLS should hold when the load is limited.
PerPLS == IF MaxLoad > 20000 THEN 5000 ELSE MaxLoad \div 5
\* Mutant: off by one.
OverSizeLate(c) == MaxLoad > 0 /\ size[c] > PerPLS + 1
OverSize(c) == MaxLoad > 0 /\ size[c] > PerPLS
\* DocCount() > 1: the set holds the lists of several terms.
SharedOrNot(c) == Cardinality(listed[c]) >= 1  \* Mutant: off by one.
Shared(c) == Cardinality(listed[c]) > 1
HasRoom(c, percent) == MaxLoad > 0 => 100 * size[c] < percent * PerPLS

\* load_factor() > 0.8, and its reset of currentLoad when nothing is in the LRU.
OverLoaded == MaxLoad >= 0 /\ lru # <<>> /\ 10 * currentLoad > 8 * MaxLoad
LoadAfterCheck == IF MaxLoad >= 0 /\ lru = <<>> THEN 0 ELSE currentLoad

TermsOfSwapped(entries) == {e[2] : e \in entries}  \* Mutant: the wrong field.
TermsOf(entries) == {e[1] : e \in entries}
EntriesOf(entries, t) == {e \in entries : e[1] = t}
DocsOf(entries, t) == {e[2] : e \in EntriesOf(entries, t)}

\* generateTag: a tag nothing in memory or on disk has used.
FreshTags == Tags \ (cache \cup onDisk \cup Range(dataTag))

\* LeastUsedPLS: the first set in the LRU with room, else a swapped-out one
\* (the first with room, or a later one if it is loaded more often: Hits is
\* abstracted to a choice), else a new tag.
First(I) == {i \in I : \A j \in I : i <= j}
LeastUsedPLS ==
    LET roomy == {i \in DOMAIN lru : HasRoom(lru[i], 100)}
        able == {i \in DOMAIN swapped : HasRoom(swapped[i], 95)}
        busier == {i \in able \ First(able) : HasRoom(swapped[i], 75)}
    IN  IF roomy # {} THEN {lru[i] : i \in First(roomy)}
        ELSE IF able # {} THEN {swapped[i] : i \in First(able) \cup busier}
        ELSE FreshTags

\* Mutant: the element is not taken from its old place.
MakeRecentTwice(s, c) == Append(s, c)

\* makeRecent: shift what follows c to the left, put c last.
MakeRecent(s, c) ==
    IF c \notin Range(s) THEN s
    ELSE LET k == CHOOSE i \in DOMAIN s : s[i] = c
         IN  [i \in DOMAIN s |-> IF i < k THEN s[i]
                                 ELSE IF i < Len(s) THEN s[i + 1] ELSE c]

\* SwappedWorker's removal of element i: unless i is the first, the slice
\* [:i-1] also leaves out its predecessor.
Unswap(s, i) == IF i = 1 THEN Tail(s)
                ELSE SubSeq(s, 1, i - 2) \o SubSeq(s, i + 1, Len(s))
-----------------------------------------------------------------------------
Init ==
    /\ dataTag = [t \in Terms |-> None]
    /\ cache = {} /\ resident = {}
    /\ listed = [c \in Tags |-> {}] /\ postings = [c \in Tags |-> {}]
    /\ size = [c \in Tags |-> 0] /\ plsSize = [c \in Tags |-> 0]
    /\ lru = <<>> /\ currentLoad = 0 /\ swapped = <<>> /\ worker = None
    /\ file = [c \in Tags |-> {}] /\ onDisk = {}
    /\ pc = "idle" /\ job = NoJob /\ todo = {} /\ unpruned = {}
    /\ phase = "build" /\ lastDoc = 0 /\ restarts = 0

\* The client goes on in evict(), which returns to `then`.
Evicting(then) == pc' = "evict" /\ job' = [job EXCEPT !.then = then]

Begin(kind, t, d) ==
    /\ job' = [NoJob EXCEPT !.kind = kind, !.term = t, !.doc = d]
    /\ pc' = "retrieve"
-----------------------------------------------------------------------------
(* The calls the client makes.                                             *)

\* InsertToken of a term the trie holds: Register, from RetrievePLS on.
InsertKnown(t, d) ==
    /\ pc = "idle" /\ phase = "build" /\ t \in Words[d] /\ d >= lastDoc
    /\ dataTag[t] # None
    /\ Begin("register", t, d) /\ lastDoc' = d
    /\ UNCHANGED <<memory, queues, disk, todo, unpruned, phase, restarts>>

\* InsertToken of a new term: TermInit, with the tag LeastUsedPLS picks.
InsertNew(t, d) ==
    /\ pc = "idle" /\ phase = "build" /\ t \in Words[d] /\ d >= lastDoc
    /\ dataTag[t] = None
    /\ \E c \in LeastUsedPLS : dataTag' = [dataTag EXCEPT ![t] = c]
    /\ Begin("register", t, d) /\ lastDoc' = d
    /\ UNCHANGED <<cache, resident, listed, postings, size, plsSize, queues,
                   disk, todo, unpruned, phase, restarts>>

\* PostingList() of a term: weights while inserting, Print, queries.
Fetch(t) ==
    /\ pc = "idle" /\ phase # "prune" /\ dataTag[t] # None
    /\ Begin("fetch", t, None)
    /\ UNCHANGED <<memory, queues, disk, todo, life>>

\* SingleTermIndex.Prune: walk over the terms the trie holds, each once (Run
\* returns before it prunes or saves when nothing was inserted).
BeginPrune ==
    /\ Pruning /\ pc = "idle" /\ phase = "build" /\ cache # {}
    /\ phase' = "prune" /\ unpruned' = {t \in Terms : dataTag[t] # None}
    /\ UNCHANGED <<memory, queues, disk, control, lastDoc, restarts>>

PruneTerm(t) ==
    /\ pc = "idle" /\ phase = "prune" /\ t \in unpruned
    /\ unpruned' = unpruned \ {t}
    /\ Begin("prune", t, None)
    /\ UNCHANGED <<memory, queues, disk, todo, phase, lastDoc, restarts>>
-----------------------------------------------------------------------------
(* RetrievePLS.                                                            *)

\* AddPLS: the container of a new set, which becomes the most recent one.
AddPLS(c) ==
    /\ cache' = cache \cup {c} /\ resident' = resident \cup {c}
    /\ lru' = Append(lru, c)

\* PostingListSet.Load of c's file into an empty set.
LoadEntries(c) ==
    /\ postings' = [postings EXCEPT ![c] = file[c]]
    /\ listed' = [listed EXCEPT ![c] = TermsOf(file[c])]
    /\ plsSize' = [plsSize EXCEPT ![c] = Cardinality(file[c])]

\* Mutants: the buffered writer is not flushed; a file that exists is kept.
DumpUnflushed(c) ==
    /\ file' = [file EXCEPT ![c] = {}]
    /\ onDisk' = onDisk \cup {c}

DumpIfAbsent(c) ==
    /\ file' = IF c \in onDisk THEN file ELSE [file EXCEPT ![c] = postings[c]]
    /\ onDisk' = onDisk \cup {c}

\* dump_pls: one line for each entry, so that an empty list leaves none.
DumpEntries(c) ==
    /\ file' = [file EXCEPT ![c] = postings[c]]
    /\ onDisk' = onDisk \cup {c}

\* No container has this tag yet: make room, then create one.
RetrieveUnknown ==
    /\ pc = "retrieve" /\ dataTag[job.term] \notin cache
    /\ Evicting("create")
    /\ UNCHANGED <<memory, queues, disk, todo, life>>

Create ==
    /\ pc = "create" /\ pc' = "use"
    /\ LET c == dataTag[job.term]
       IN  /\ AddPLS(c)
           /\ listed' = [listed EXCEPT ![c] = {}]
           /\ postings' = [postings EXCEPT ![c] = {}]
           /\ size' = [size EXCEPT ![c] = 0] /\ plsSize' = [plsSize EXCEPT ![c] = 0]
    /\ UNCHANGED <<dataTag, currentLoad, swapped, worker, disk, job, todo, life>>

\* Mutants: the source keeps its Size; it keeps the list.
TransferUncounted(c, n, t, moved) ==
    /\ listed' = [listed EXCEPT ![c] = @ \ {t}, ![n] = {t}]
    /\ postings' = [postings EXCEPT ![c] = @ \ EntriesOf(@, t),
                                   ![n] = EntriesOf(postings[c], t)]
    /\ plsSize' = [plsSize EXCEPT ![n] = moved]

TransferCopied(c, n, t, moved) ==
    /\ listed' = [listed EXCEPT ![n] = {t}]
    /\ postings' = [postings EXCEPT ![n] = EntriesOf(postings[c], t)]
    /\ plsSize' = [plsSize EXCEPT ![c] = @ - moved, ![n] = moved]

\* TransferPL: t's list goes from c's set to the empty set of n.
TransferPL(c, n, t, moved) ==
    /\ listed' = [listed EXCEPT ![c] = @ \ {t}, ![n] = {t}]
    /\ postings' = [postings EXCEPT ![c] = @ \ EntriesOf(@, t),
                                   ![n] = EntriesOf(postings[c], t)]
    /\ plsSize' = [plsSize EXCEPT ![c] = @ - moved, ![n] = moved]

\* In memory, over size and shared: the term moves to a set of its own.
RetrieveSplit ==
    /\ pc = "retrieve" /\ dataTag[job.term] \in resident
    /\ LET t == job.term
           c == dataTag[t]
           moved == Cardinality(EntriesOf(postings[c], t))
       IN  /\ OverSize(c) /\ Shared(c)
           /\ IF t \in listed[c]
              THEN Evicting("retrieve")
              ELSE pc' = "panicTransfer" /\ UNCHANGED job
           /\ \E n \in FreshTags :
                /\ dataTag' = [dataTag EXCEPT ![t] = n]
                /\ TransferPL(c, n, t, moved) /\ AddPLS(n)
                /\ size' = [size EXCEPT ![c] = @ - moved, ![n] = moved]
    \* currentLoad loses what TransferPL moved and AddPLS adds it again.
    /\ UNCHANGED <<currentLoad, swapped, worker, disk, todo, life>>

RetrieveHit ==
    /\ pc = "retrieve" /\ dataTag[job.term] \in resident
    /\ LET c == dataTag[job.term]
       IN  /\ ~(OverSize(c) /\ Shared(c))
           /\ lru' = MakeRecent(lru, c)
    /\ pc' = "use"
    /\ UNCHANGED <<memory, currentLoad, swapped, worker, disk, job, todo, life>>

\* Swapped out: read the file back and tell the worker.  The container is
\* not put back in the LRU, nor its size in currentLoad.
RetrieveSwapped ==
    /\ pc = "retrieve"
    /\ LET c == dataTag[job.term]
       IN  /\ c \in cache \ resident
           /\ pc' = IF c \in onDisk THEN "swapIn" ELSE "panicOpen"
           /\ resident' = resident \cup {c} /\ LoadEntries(c)
           /\ size' = [size EXCEPT ![c] = Cardinality(file[c])]
    /\ UNCHANGED <<dataTag, cache, queues, disk, job, todo, life>>

\* Mutant: the set goes back in the LRU and in the load, but at the wrong end.
SendLoadedAsOldest ==
    /\ pc = "swapIn" /\ worker = None
    /\ worker' = dataTag[job.term]
    /\ lru' = <<dataTag[job.term]>> \o lru
    /\ currentLoad' = currentLoad + size[dataTag[job.term]]
    /\ Evicting("use")
    /\ UNCHANGED <<memory, swapped, disk, todo, life>>

SendLoaded ==
    /\ pc = "swapIn" /\ worker = None
    /\ worker' = dataTag[job.term]
    /\ Evicting("use")
    /\ UNCHANGED <<memory, lru, currentLoad, swapped, disk, todo, life>>
-----------------------------------------------------------------------------
(* evict.                                                                  *)

EvictDone ==
    /\ pc = "evict" /\ ~OverLoaded
    /\ currentLoad' = LoadAfterCheck
    /\ pc' = job.then
    /\ UNCHANGED <<memory, lru, swapped, worker, disk, job, todo, life>>

\* Dump the oldest set of the LRU and drop it from memory ...
EvictOldest ==
    /\ pc = "evict" /\ OverLoaded
    /\ LET c == Head(lru)
       IN  /\ DumpEntries(c)
           /\ pc' = IF size[c] = plsSize[c] THEN "swapOut" ELSE "panicSize"
           /\ resident' = resident \ {c}
           /\ listed' = [listed EXCEPT ![c] = {}]
           /\ postings' = [postings EXCEPT ![c] = {}]
           /\ currentLoad' = currentLoad - size[c]
    /\ UNCHANGED <<dataTag, cache, size, plsSize, lru, swapped, worker, job,
                   todo, life>>

\* ... and only when the worker has taken it, drop it from the LRU.
SendEvicted ==
    /\ pc = "swapOut" /\ worker = None
    /\ worker' = Head(lru) /\ lru' = Tail(lru)
    /\ pc' = "evict"
    /\ UNCHANGED <<memory, currentLoad, swapped, disk, job, todo, life>>

\* SwappedWorker looks at the container's PLS when it gets round to it.
SwappedWorker ==
    /\ worker # None /\ worker' = None
    /\ swapped' = IF worker \notin resident THEN Append(swapped, worker)
                  ELSE IF worker \notin Range(swapped) THEN swapped
                  ELSE Unswap(swapped, CHOOSE i \in DOMAIN swapped :
                                                    swapped[i] = worker)
    /\ UNCHANGED <<memory, lru, currentLoad, disk, control, life>>
-----------------------------------------------------------------------------
(* What the caller does with the posting list it was given.                *)

Return == pc' = "idle" /\ job' = NoJob

UseRegister ==
    /\ pc = "use" /\ job.kind = "register"
    /\ LET c == dataTag[job.term]
           p == <<job.term, job.doc>>
           new == IF p \in postings[c] THEN 0 ELSE 1
       IN  /\ listed' = [listed EXCEPT ![c] = @ \cup {job.term}]
           /\ postings' = [postings EXCEPT ![c] = @ \cup {p}]
           /\ size' = [size EXCEPT ![c] = @ + new]
           /\ plsSize' = [plsSize EXCEPT ![c] = @ + new]
           /\ currentLoad' = currentLoad + new
    /\ Return
    /\ UNCHANGED <<dataTag, cache, resident, lru, swapped, worker, disk, todo, life>>

\* PostingListSet.Get creates an empty list when the term has none.
UseFetch ==
    /\ pc = "use" /\ job.kind = "fetch"
    /\ listed' = [listed EXCEPT ![dataTag[job.term]] = @ \cup {job.term}]
    /\ Return
    /\ UNCHANGED <<dataTag, cache, resident, postings, size, plsSize, queues,
                   disk, todo, life>>

\* Mutant: the pruner counts what it removes off the set, not the container.
UsePruneCounted ==
    /\ pc = "use" /\ job.kind = "prune"
    /\ LET c == dataTag[job.term]
       IN  /\ listed' = [listed EXCEPT ![c] = @ \cup {job.term}]
           /\ \E gone \in SUBSET EntriesOf(postings[c], job.term) :
                /\ gone = EntriesOf(postings[c], job.term) => gone = {}
                /\ postings' = [postings EXCEPT ![c] = @ \ gone]
                /\ plsSize' = [plsSize EXCEPT ![c] = @ - Cardinality(gone)]
    /\ Return
    /\ UNCHANGED <<dataTag, cache, resident, size, queues, disk, todo, life>>

\* A pruner removes entries from the list, never all of them (TFPruner, and
\* DocCountPruner with a positive count); no size is adjusted.
UsePrune ==
    /\ pc = "use" /\ job.kind = "prune"
    /\ LET c == dataTag[job.term]
       IN  /\ listed' = [listed EXCEPT ![c] = @ \cup {job.term}]
           /\ \E gone \in SUBSET EntriesOf(postings[c], job.term) :
                /\ gone = EntriesOf(postings[c], job.term) => gone = {}
                /\ postings' = [postings EXCEPT ![c] = @ \ gone]
    /\ Return
    /\ UNCHANGED <<dataTag, cache, resident, size, plsSize, queues, disk, todo, life>>
-----------------------------------------------------------------------------
(* SaveToDisk.                                                             *)

BeginSave ==
    /\ pc = "idle" /\ phase = (IF Pruning THEN "prune" ELSE "build")
    /\ unpruned = {} /\ cache # {}
    /\ pc' = "save" /\ job' = [NoJob EXCEPT !.kind = "save"] /\ todo' = cache
    /\ UNCHANGED <<memory, queues, disk, life>>

\* A swapped-out set is read back first; its container's Size stays.
SaveReload(c) ==
    /\ pc = "save" /\ c \in todo \ resident
    /\ resident' = resident \cup {c} /\ LoadEntries(c)
    /\ pc' = "evict" /\ job' = [job EXCEPT !.tag = c, !.then = "dump"]
    /\ UNCHANGED <<dataTag, cache, size, queues, disk, todo, life>>

SaveDump(c) ==
    /\ \/ pc = "save" /\ c \in todo \cap resident
       \/ pc = "dump" /\ c = job.tag
    /\ DumpEntries(c) /\ todo' = todo \ {c}
    /\ pc' = IF c \in resident THEN "save" ELSE "panicDump"
    /\ UNCHANGED <<memory, queues, job, life>>

EndSave ==
    /\ pc = "save" /\ todo = {}
    /\ Return /\ phase' = "saved"
    /\ UNCHANGED <<memory, queues, disk, todo, unpruned, lastDoc, restarts>>
-----------------------------------------------------------------------------
(* The process ends and another one opens what it left: LoadFromDisk.      *)

Restart ==
    /\ phase \in {"saved", "serve"} /\ restarts < MaxRestarts
    /\ restarts' = restarts + 1 /\ phase' = "serve"
    /\ dataTag' = [t \in Terms |-> None] /\ cache' = {} /\ resident' = {}
    /\ listed' = [c \in Tags |-> {}] /\ postings' = [c \in Tags |-> {}]
    /\ size' = [c \in Tags |-> 0] /\ plsSize' = [c \in Tags |-> 0]
    /\ lru' = <<>> /\ currentLoad' = 0 /\ swapped' = <<>> /\ worker' = None
    /\ pc' = "load" /\ job' = [NoJob EXCEPT !.kind = "load"] /\ todo' = onDisk
    /\ UNCHANGED <<disk, unpruned, lastDoc>>

\* The files come in the order of their random names.  A term met in a
\* second file is inserted in the trie again: the trie is not part of this
\* repository, so it may keep the old entry or take the new one.
LoadFile(c) ==
    /\ pc = "load" /\ c \in todo /\ todo' = todo \ {c}
    /\ AddPLS(c) /\ LoadEntries(c)
    /\ size' = [size EXCEPT ![c] = Cardinality(file[c])]
    /\ currentLoad' = currentLoad + Cardinality(file[c])
    /\ \E replace \in BOOLEAN :
         dataTag' = [t \in Terms |->
             IF t \in TermsOf(file[c]) /\ (dataTag[t] = None \/ replace)
             THEN c ELSE dataTag[t]]
    /\ Evicting("load")
    /\ UNCHANGED <<swapped, worker, disk, life>>

EndLoad ==
    /\ pc = "load" /\ todo = {}
    /\ Return
    /\ UNCHANGED <<memory, queues, disk, todo, life>>
-----------------------------------------------------------------------------
Call ==
    \/ \E d \in Docs, t \in Terms : InsertKnown(t, d) \/ InsertNew(t, d)
    \/ \E t \in Terms : Fetch(t) \/ PruneTerm(t)
    \/ BeginPrune \/ BeginSave

Proceed ==
    \/ RetrieveUnknown \/ Create \/ RetrieveSplit \/ RetrieveHit
    \/ RetrieveSwapped \/ SendLoaded
    \/ EvictDone \/ EvictOldest \/ SendEvicted
    \/ UseRegister \/ UseFetch \/ UsePrune
    \/ \E c \in Tags : SaveReload(c) \/ SaveDump(c) \/ LoadFile(c)
    \/ EndSave \/ EndLoad

Next == Call \/ Proceed \/ SwappedWorker \/ Restart

Spec == Init /\ [][Next]_vars

\* The Go scheduler runs both goroutines; nothing makes a client call.
FairSpec == Spec /\ WF_vars(Proceed) /\ WF_vars(SwappedWorker)
-----------------------------------------------------------------------------
(* Properties.                                                             *)

\* The entries of tag c's set wherever its current copy is.
Current(c) == IF c \in resident THEN postings[c]
              ELSE IF c \in cache THEN file[c] ELSE {}

\* The documents a lookup of t answers with; while LoadFromDisk is under way
\* a term may still be in a file not read yet.
Unread == IF job.kind = "load" THEN todo ELSE {}
Contents(t) ==
    IF dataTag[t] # None THEN DocsOf(Current(dataTag[t]), t)
    ELSE UNION {DocsOf(file[c], t) : c \in Unread}

\* Moving lists between sets, memory and disk is invisible: only InsertToken
\* and Prune change what the lexicon maps a term to, and nothing does once
\* the index is saved (Register, TransferPL, evict, RetrievePLS, SaveToDisk).
Lex == INSTANCE Lexicon WITH
    index <- [t \in Terms |-> Contents(t)], open <- phase \in {"build", "prune"}
LexSpec == Lex!Spec

\* None of the panics in evict, TransferPL, RetrievePLS and dump_pls is ever
\* reached, whatever was evicted, split or pruned before.
NoPanic == pc \notin Panics

\* The set RetrievePLS hands to its caller is still the container's own when
\* the caller writes to it: no eviction has detached it in between.
ReturnedSetIsLive == pc = "use" => dataTag[job.term] \in resident

\* In the process that builds the index a posting is in one set only, so
\* that SaveToDisk leaves it in one file only.
OneHome ==
    phase # "serve" =>
        \A c \in cache : \A t \in TermsOf(Current(c)) : dataTag[t] = c

\* A set that outgrows PerPLS is split before it grows again: one shared by
\* several terms exceeds the bound by one posting at most, and by two when it
\* was read back, which RetrievePLS does without a look at its size (after a
\* restart such a set is in the LRU).
SharedSetsFit ==
    MaxLoad > 0 =>
        \A c \in resident : Cardinality(listed[c]) > 1 =>
            size[c] <= PerPLS + (IF c \in Range(lru) /\ phase # "serve" THEN 1 ELSE 2)

\* A container is accounted for once: never in the LRU and swapped_cache (or
\* on its way there) together, and in neither of them twice.
TrackedOnce ==
    LET sent == IF worker = None \/ worker \in resident THEN <<>> ELSE <<worker>>
        inLru == IF pc = "swapOut" THEN Tail(lru) ELSE lru
    IN  IsInjective(inLru \o sent \o swapped)

\* SaveToDisk ends with every posting in the file of its set, whatever evict
\* dropped while the sets were being visited.
SaveIsComplete ==
    [][EndSave => \A t \in Terms : Contents(t)
                    = UNION {DocsOf(file[c], t) : c \in onDisk}]_vars

\* The client always comes back from the lexicon: evict ends, a split is not
\* retried for ever, and it never waits for a worker that waits for it.
CallsReturn == pc # "idle" ~> pc = "idle"
-----------------------------------------------------------------------------
(* What comments, flags and tests say, and the code does not do.           *)

\* lexicon.go:421 "Remove the element from the swapped cache": when both
\* goroutines are at rest swapped_cache holds every swapped-out container.
SwappedCacheIsComplete ==
    pc = "idle" /\ worker = None => cache \ resident \subseteq Range(swapped)

\* constrained_test.go:229 "Re-loaded lexicon (%d terms) is not the right
\* size (%d)": what a saved index answers can be loaded from its directory.
SavedIndexCanBeReloaded ==
    phase \in {"saved", "serve"} /\ pc = "idle" =>
        \A t \in Terms : Contents(t) # {} =>
            \E c \in onDisk : t \in TermsOf(file[c])
=============================================================================

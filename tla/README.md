# irengine in TLA+

irengine is an information-retrieval engine in Go: `index` builds an inverted
index from TREC files, `start-query-engine` serves queries from saved indexes,
`query` asks them.  The modules here model its code, TLC checks them on small
instances, and TLAPS proves what matters most for every value of the constants.
`PROJECT.json` maps every definition to the lines it models.

## The system

| Component | State | Operations | Modelled in |
|---|---|---|---|
| constrained lexicon (`indexer/constrained`) | trie of terms with tags, containers, posting list sets (PLS) in memory or in `pls_<tag>` files, `lru_cache`, `swapped_cache`, `currentLoad`, the worker's channel | InsertToken/Register, PostingList, RetrievePLS (create, split, hit, swap in), evict, SwappedWorker, SaveToDisk, LoadFromDisk | `ConstrainedLexicon` |
| lexicon interface and pruning (`indexer/lexicon.go`, `pruning.go`, `indexer.go`) | a map from terms to posting lists | InsertToken, FindTerm, Prune | `Lexicon` (the promise), `ConstrainedLexicon` |
| posting lists (`positional_postinglist.go`) | entries by document, positions | InsertEntry, Remove, FilterSequential, Serialize | `InvertedIndex`, `PhraseSearch`; as sets of documents in `ConstrainedLexicon` |
| index pipeline (`single_term.go`, `filters/plumbing.go`, `filters/filter.go`) | chain of filters and their bounded pipes, `insertLock`, `inserterRunning`, `DocumentMap`, `DocumentCount` | Insert, inserter, WaitInsert, PrintLexicon, Delete, AddFilter; FilterTokens; Prune, Save | `FilterChain`, `IndexPipeline`; FilterTokens in `QueryEngine`; Prune and Save in `ConstrainedLexicon` |
| token filters (`indexer/filters`) | the date filter's partial date, the phrase filter's buffer and frequencies | Apply, NotifyDocComplete | `Filters` |
| query engine (`query_engine/engine.go`, `query.go`, `response.go`, `threshold.go`) | index, filter channels, the answer | Start, ProcessQuery, LookupStats, Stop | `QueryEngine`; as the dispatcher sees it, `QueryDispatch` |
| rankers (`bm25.go`, `cosine_vsm.go`, `language_model.go`) | per-query scores; the language model's `mu` | ProcessQuery, ProcessPositional, FilterPositional | `QueryEngine`, `PhraseSearch`: which documents, and whether their scores are finite |
| dispatcher and client (`actions/query_engine.go`, `query.go`, `print.go`) | engine map, the query and response variables of the loop | one REQ/REP exchange per query, preferences in order | `QueryDispatch`, promise in `QueryService` |
| document walker (`actions/defaults.go`, `index.go`) | worker count, document channel | WalkDocuments, read_file, signal_when_done, Run | `DocWalker`; Run's calls after its loop in `ConstrainedLexicon` |
| TREC reader and tokenizer (`scanner/filereader`) | document channel, scanner | ReadAll, read_to_chan, read_next_doc, Tokens | `TrecReader`, `DocWalker`; `Tokens` in `IndexPipeline` |
| command line, logging | none after start-up | | not modelled |

How they interact.  The walker starts a goroutine per file, which sends
documents on one channel.  `Run` takes them one by one and calls `Insert`, which
pushes the document's tokens into the head of the filter chain; each filter is a
goroutine between two channels of ten tokens; the inserter goroutine reads the
last channel and registers each token in the lexicon.  The lexicon calls
`RetrievePLS` for every access, which may evict other sets to files and hands
containers to `SwappedWorker` over an unbuffered channel.  After the last
document `Run` calls `WaitInsert`, prunes, saves, and prints.  The query engine
loads a saved index and runs queries through the index's own filters: its
goroutine pushes all tokens of a query into `filterStart`, the filters work as
when indexing, the goroutine `FilterTokens` carries what comes out of the last
one to `filterEnd`, and only then does the engine read that up to the Null token,
cut it to the query's threshold and call a ranker.  Queries follow each other in
the same chain.  The dispatcher asks one engine after another and answers the
client.

What is hard, and where the properties aim:

* the lexicon moves posting lists between sets, memory and files in the middle
  of lookups, and callers keep pointers to sets that may be evicted under them;
* sizes are kept in three places (container, set, `currentLoad`) by code that is
  not always told of a change (pruning, reloading while saving);
* `insertLock` is taken by the client and released by the inserter, two
  goroutines and a chain of channels away;
* `inserterRunning`, `DocumentMap` and `lex.stats` are shared without a lock;
* filters keep state from token to token, reset per document or not at all;
* the engine pushes a whole query before it reads any of the result, `FilterTokens`
  may not yet listen when the first query comes, and only the Null token tells
  where a query ends;
* `FilterSequential` walks two entries of a document at once, within a distance
  that grows with unknown terms and is reset after a known one;
* one language model, with one `mu`, serves the indexes of a process;
* a file is written by one process and read by the next;
* the dispatcher's query and response variables serve all clients in turn, and
  a response does not say which query it answers;
* the document channel has many senders and is closed from one of two places,
  on a count.

What makes each component correct:

* lexicon: where a list is kept is invisible; no posting is lost, doubled or
  found under another term; saving and reopening changes no answer; the internal
  consistency checks (panics) cannot fire; every call returns;
* pipeline: every document ends up in the lexicon, with its own tokens only, in
  order, complete when WaitInsert returns; no panic of `Unlock` or `Output`;
  no deadlock of full channels (the start of the inserter breaks the second and
  the third of these for the first two documents, see the findings);
* dispatcher: one answer per query, to the client that asked it, from the first
  preference that has one; an engine's late answer is never taken for another's;
* query engine: the answer to a query is the answer to its own tokens, whatever
  was asked before and however the goroutines ran; a query that fits in the
  channels is answered; the process dies only of a score that is not finite;
* phrase search: the documents found are exactly those the pairwise filtering of
  the lists means, and every document that has the phrase is among them;
* walker and reader: the document channel is closed exactly once, after the last
  document; every document is inserted once, with its own words; the index is
  saved only when all are.

## Modules

**`Lexicon`** is the abstract specification: a map from terms to sets of
documents, changed by `Register` and `Prune` only, and by nothing once `Save`
has closed it.

**`ConstrainedLexicon`** models `indexer/constrained`.  Two processes: the
client, whose code is cut where it blocks on the worker's channel and where it
loops (`pc` says where it is, `job` what it was called for), and
`SwappedWorker`.  `RetrievePLS` is `RetrieveUnknown`/`Create`, `RetrieveSplit`,
`RetrieveHit` and `RetrieveSwapped`/`SendLoaded`; `evict` is `EvictDone`,
`EvictOldest`/`SendEvicted`; what the caller then does with the set it was given
is `UseRegister`, `UseFetch`, `UsePrune`.  `Restart` ends a process that has
saved and opens its directory in another.  It instantiates `Lexicon` with the
refinement mapping `Contents`: what a lookup of a term would answer.

**`Filters`** has one operator per filter, from a filter's state and a token to
its new state and the tokens it sends.  Texts are sequences of words; what a
regular expression, the stemmer or a list recognises is given by constants.
`React` is one round of `apply()`.  `After` and `PassAll` are the reference
definition: what a filter, and a chain of them, make of a whole sequence of
tokens when the filters take it one after the other.  `Phrases` says by position
what the phrase filter's loop over slices (`Visit`, `Flush`) sends: no phrase for the
last token, and no stop words below `ShortBuffer` tokens.  The run `phrases_test`
compares that with what the filter's test expects.

**`FilterChain`** is the chain: a goroutine per filter, `pipe[i]` the channel after
filter i (`pipe[0]` the head's input), `held[i]` what filter i has still to send,
`fstate[i]` its state.  A filter reads a token (`ReadToken`) or goes through
`NotifyDocComplete`'s loop (`NotifyRound`), and sends one token at a time; at a last
filter without an output the result is dropped (`DropHeld`).  It has no
specification of its own: documents and queries are pushed through it by the
two modules that extend it.

**`IndexPipeline`** models `Insert`, the filters' goroutines and the inserter.  The start of the
inserter is in three steps (`BeginInsert` starts it, `SetRunning`, `Attach`), as
the window between them is where the code goes wrong.  Nothing in the code makes
`Insert` wait for any of them, and nothing in the model does.  `dropped` is a history
variable, the types of the tokens the last filter sent to nobody.
`RaceIsCaught` is the Go runtime noticing concurrent use of a map: it ends the
process, or is not taken.  `Expected` is the reference: what the filters, as they
are coded, make of the documents when they take them one after another, so that a
date begun in one may be completed in the next.

**`InvertedIndex`** is the data of an index: posting lists as functions from
documents to sorted positions, and what the inserter makes of the tokens it
reads (`IndexToken`, `EndDocument`, and over documents `InsertDocument` and
`IndexOf`).  The indexes of the query runs are built with it.

**`PhraseSearch`** models `FilterPositional` with `FilterSequential`, loop by loop:
`SkipUnknown`, `FirstList`, `BeginFilter` over the terms, `DropDoc`, `BeginEntry`,
`EndEntry` over the documents of the list so far, `KeepPosition` and `PassPosition`
over the positions of a document in the two lists.  Its reference is `Walks`: the
ways through a document, a position of every known term, each at most as far
after the one before as it is in the phrase, or anywhere before that one, which is
what the code keeps and its comment does not say (`phrase_within`).

**`QueryEngine`** composes `FilterChain` and `PhraseSearch`: the engine's goroutine
(`ReceivePhrase`, `Push`, `Collect`, `RankTerms`, or `BeginPhrase`, `Search` and the
four ways to end a search), `FilterTokens` (`Connect`, `Attach`, `TakeToken`,
`PassOn`), and the filters.  `Threshold` is `ThresholdQueryTerms`' first group, the
only one that is used; the order in which an unstable sort leaves terms that
are as rare is any.  A score is represented by whether it is finite: `Die` is the
panic on json.Marshal's error.  `OtherQuery` is the first language model query on
another index of the process.  `lost` (the types of the query's tokens that were
sent to nobody) and `dated` are history variables.

**`QueryService`** is the abstract specification of the query service: a client
that waits is answered with `Answer` of its query.  **`QueryDispatch`** models the
dispatcher's loop (`Receive`, `SkipUnknown`, `Forward`, `TakeReply`, `SendAnswer`),
the clients (`Ask`, `Hear`) and one round of each engine (`EngineAnswers`), with
every hop of a ZeroMQ REQ/REP pair as its own variable.  `query`, `force` and
`response` are the variables that live from query to query.  What an index finds
is a constant.  `Best` is the reference: the answer of the first preference that
has one.

**`TrecReader`** has one operator per case of `read_next_doc`, over the tokens of
a file, and `DocsOf`, which says by position what the documents of a file are.
**`DocWalker`** models the goroutines between the directory and `Insert`: the walk,
a reader and a worker per file, `signal_when_done`, `Run`'s loop.  A send on an
unbuffered channel and its receive are one step (`HandOver`, `Insert`, `Report`).

**`MCConstrainedLexicon`**, **`MCIndexPipeline`**, **`MCQueryEngine`**,
**`MCQueryDispatch`**, **`MCDocWalker`** give the constants values for TLC.
**`ConstrainedLexiconProofs`**, **`LexiconRefinementProofs`**, **`FilterChainProofs`**,
**`IndexPipelineProofs`**, **`PhraseSearchProofs`**, **`QueryEngineProofs`**,
**`QueryDispatchProofs`**, **`DocWalkerProofs`** hold the theorems.

## Runs

| Run | Shows |
|---|---|
| `lexicon_restart` | ReturnedSetIsLive, TrackedOnce, NoPanic, SaveIsComplete, and that the lexicon, pruned or not, implements `Lexicon` across two restarts |
| `lexicon_sharing` | TypeOK, NoPanic, OneHome, SharedSetsFit with sets that are shared, split, swapped out and read back; and every call returns (CallsReturn) |
| `lexicon_swapped_cache` | violation: `SwappedWorker` removes an element's predecessor too |
| `lexicon_reload` | violation: a lookup after saving splits a set and can leave a term in no file |
| `pipeline` | TypeOK, OneDocumentAtATime, OnlyTheSecondInsertPanics, WeightsAreFinite, WaitInsertIsComplete, NothingElseIndexed, CallsReturn: what holds however late the inserters start; only the first document may lack its beginning |
| `pipeline_lost` | violation: started late, tokens are lost and WaitInsert returns all the same |
| `pipeline_second_inserter` | violation: the second Insert starts a second inserter, and `Output()` panics |
| `phrases_test` | violation: the test's document is indexed with its frequent words and without its last phrase |
| `phrase_within` | violation: FilterSequential keeps a position that is not less than `within` after |
| `query_engine` | TypeOK, NothingLeftBehind, PhraseIsExact, PhraseIsFound, AnswerIsRight, DeathHasItsReason, QueriesAreAnswered: one engine and its filters, any sequence of eleven queries on any of five indexes |
| `query_dispatch` | TypeOK, OneConversation, and that the dispatcher implements `QueryService`, its liveness included (EveryQueryIsAnswered) |
| `doc_walker` | TypeOK, ClosedLast, InOrder, AllIndexed, IndexingEnds |

### Bounds, and why they are enough

Lexicon: three terms (four in `lexicon_swapped_cache` and `lexicon_sharing`), four
tags, three to ten documents.  `MaxLoad = 5` gives sets of one posting (`PerPLS = 1`): every
term has a set of its own and the fifth posting evicts.  `MaxLoad = 10` gives
sets of two: two terms share a set, the third posting splits it, and the ninth
evicts; runs at this limit do all three and go through a reloaded and a dumped
set.  In `lexicon_sharing` a fourth term makes evict drop a shared set that is over
its size, which is then read back and grows once more.  `lexicon_restart` prunes sets of
one term, and has nine postings for its limit of five, so that a set that was
pruned can be evicted while another term is read back to be pruned; a pruner and
shared sets together are left to the theorems, which hold for any combination
of the constants.  Four tags allow a set per term and one split.  Documents come in
order, each with its terms in any order and any number of times.  Two restarts
let a process read what another one both read and served.  Tags are symmetric:
they are only compared.  `lexicon_sharing` checks liveness, where TLC allows no
symmetry sets; its action constraint `OneFreshTag` has a new set take one tag of
those that are new instead of any, which leaves out behaviours that differ from
the rest in the names of tags only: a step that is possible stays possible with
another tag, so that fairness means what it did.

Pipeline: channels of two tokens instead of ten, shorter than a document, so
that every place in the chain is full at times.  `pipeline` has three documents
and a chain with the filter that sends everything at the end of a document; one
document is at least `ShortBuffer` long, so that stop words are computed, one is
empty and one is shorter.  The chain of `pipeline_second_inserter` has the date filter,
one that splits a token, one that ignores `Final` and one that drops tokens.  Behind
the phrase filter all tokens are final, so that a date filter there does nothing:
what it carries from one document to the next is in `Expected`, in the theorem
`WaitInsertIsRight`, which holds for any chain `SetupIndex` builds, and between queries in `query_engine`.
`phrases_test` has the document, the phrase length, the frequency limit and the 25
tokens of `phrases_test.go`, and channels of ten.

Engine: five indexes: terms only; positions, with a document that has a term
twice, one with a word between two terms and one with a date; a positional index
of one document and term; 101 documents that have next to nothing of the query,
with and (200) without positions.  Eleven queries: phrases with stop words or an
unknown word inside and at the front, a thresholded query with a symbol, one
that ends within a date and one that begins with what completes it, one with an
unknown ranker, two for statistics, and one of eleven words.
`StartCap = EndCap = 3` and `Capacity = 1`: a query of two words fits in `filterStart`
with its Null token; "the a the" does not, but fits in `filterEnd` when its stop
words are gone; of three words and more none fits, so that the engine, the filters and
`FilterTokens` all wait for each other; and the twelve tokens of the longest are one more
than all the places between the engine and itself, so that it stops the engine
(without `Fits`, QueriesAreAnswered is violated).  The chain has the
date filter, whose state outlasts a query, and one that drops words.  No phrase
filter: that it leaves nothing behind is checked with documents (`pipeline`)
and proved for every chain (`Separation`).

Dispatcher: two clients, so that one waits while the other is served and what
was kept from one query meets the next; two engines and an index that is not
loaded, in first and in last place; texts that are found at once, only when
forced, or not at all, one that a forced engine lacks, a query without a ranker
and a statistics query.

Walker: up to three files, so that a worker reports while another still sends
and a third still reads.  The trees include no matching file, files without a
document, a name inside a text and given twice, a text that is not closed, an
end of file within a document, and each way in which parsing fails.

Deadlock: `CHECK_DEADLOCK FALSE` in the walker, which ends, in the pipeline, which
may really stop (the client calls `Delete`, the process dies, or the tokens were
lost), and in the engine, which dies of an infinite score and may be stopped by
a query that is too long or a lost Null token; the lexicon's and the dispatcher's runs keep the
deadlock check.

### Fairness

`ConstrainedLexicon`: weak fairness of `Proceed` (the client inside a call) and
of `SwappedWorker`; both are goroutines that the Go scheduler runs, and nothing
obliges the client to call.  `IndexPipeline`: weak fairness of the client inside
a call, of the inserter and of each filter's goroutine, for the same reason.
The lock needs no strong fairness: one client waits for it.  `QueryEngine`: weak
fairness of the engine within a query, of `FilterTokens` and of each filter's
goroutine; nothing obliges a query to come.  `DocWalker`: weak
fairness of every goroutine.  `QueryDispatch`: weak fairness of the dispatcher,
the engines and the clients that have a reply; strong fairness of `Receive` per
client, because a REP socket takes requests from its peers in turn: with weak
fairness one client could be passed over for ever while others keep asking.

No run and no theorem assumes that a goroutine is ready before another needs it.
Where that matters the history variables say so: CallsReturn excepts a first
document whose Null token was dropped, WaitInsertIsComplete the texts of a first
document of which some were, QueriesAreAnswered a query whose Null token was lost, and
AnswerIsRight one of which anything was.

## What the runs found

* `SwappedWorker` (`lexicon.go:449`) removes element i with `[:i-1]`: the element
  before it goes as well, and its set is never chosen for a new term again.
  Nothing is lost, sets are only used less well.
* `RetrievePLS` splits over-size sets on any lookup, also after `SaveToDisk`.
  The list that moved is in memory only; evicting the remainder rewrites the
  file without it.  A process that opens the directory later lacks the term.
  This is why `lexicon_restart` (which passes) keeps to sets of a single term:
  there the saved index is the one that is served.
* `Insert` starts pushing before the inserter listens; what leaves the chain
  before that is dropped (`pipeline_lost`).  When the first document's Null token is
  among it, the lock is never released and WaitInsert never returns: CallsReturn
  is violated without its exception for that.
* The first Insert may be over before its inserter has set `inserterRunning`.  The
  second then starts another, and the later of the two to call `Output()` panics in
  a goroutine where nothing recovers it (`pipeline_second_inserter`).  The
  third Insert starts none: the second had the lock, which an inserter released.
* The phrase filter sends a phrase when the next token ends it, and so never
  sends the last phrase of a document; and it ignores stop words in a document of
  less than 25 tokens.  Its test has a document of 19 and expects the last phrase,
  and the stop words dropped (`phrases_test`).
* `FilterSequential` keeps a position exactly `within` after one it is compared with,
  where its comment says "less than" (`phrase_within`); the caller's distances (1
  for neighbours) rely on the code, not on the comment.  It also keeps any position
  before one, where the comment says "after": "b a" finds a document with "a b".

One more disagreement has no run: `-index.memlimit`, "the maximum number of triples
that can be loaded in to memory", does not bound the postings in memory.  The load
is checked before a set is created, after a split and after a swap-in, not when a
posting is added to a set that is there.

Not disagreements with anything the repository states, but worth knowing:

* a set that several terms share is split when it is over `perPLSLoad`, but not by
  the lookup that reads it back from its file: it may hold two postings more than
  that, one more while it stays in memory;
* a query with more tokens than `filterStart`, the chain and `filterEnd` hold stops
  its engine for ever, because the engine pushes it all before it reads any;
* positions in the index keep the gaps of removed stop words, while the distance
  in a query does not count words its filters removed: a phrase with a stop word
  inside misses the documents it was copied from;
* a thresholded phrase is looked for in the order of rarity;
* COSINE's score is infinite in a document all of whose terms had half of the
  documents, LM's for a phrase with a `mu` from another index; json.Marshal then
  fails and the process ends.  ProcessPositional does not reset `doc_weight`
  between documents, ProcessQuery does;
* `ExtendUnique` keeps the results of a ranker's ErrorResponse and loses its text:
  a refusal looks like an empty answer;
* nothing calls `Stop` or signals `watch_for_exit`.

## Proofs

All theorems are proved for arbitrary constants under the named assumptions of
the modules (finite sets of terms and documents, `MaxLoad` an integer, tags new;
for the pipeline and the engine any documents or queries, any chain in which the
phrase filter comes first, as `SetupIndex` builds it, and any positive
capacities; for the search and the engine any index that `IsIndex` holds of, and
`InsertedIsIndex` proves that it holds of what the inserter builds).

**`ConstrainedLexiconProofs`**.  `TypeCorrect`, `LiveSets` (ReturnedSetIsLive),
`SingleHome` (OneHome), `AccountedForOnce` (TrackedOnce).  The inductive invariant `IInv` is TypeOK with three more
parts.  `JobInv` says what the call under way knows of the container it works
on, through the evict it may be in: the set about to be used or dumped is
resident and, when it was just read back, not in the LRU.  `CacheInv` says that
what is not in memory is on disk, and that the LRU lists containers once, in
memory (but for the one on its way to the worker) and with the size of their set.
`OneHome` is the third.  ReturnedSetIsLive is not inductive by itself: a set that
was read back survives the evict that follows because evict only takes members
of the LRU.  TrackedOnce needs `TrackInv` besides: a container that has left the
LRU never enters it again, so that the LRU, the worker's hand and `swapped_cache`
stay disjoint, and one that the worker is to add to `swapped_cache` is not there yet.

**`LexiconRefinementProofs`**.  `NeverPanics` (NoPanic), `SavesAreComplete`
(SaveIsComplete), `Refinement`: with `MaxRestarts = 0` every step of
`ConstrainedLexicon` is a `Register`, a `Prune`, a `Save` or a stutter of `Lexicon`;
`SharedSetsAreSplit` (SharedSetsFit); and, over any number of processes,
`ReloadRefinement`, `SmallLimitsNeverSplit` and `SmallLimitsReload`, below.  Two more invariants are needed:
`ListInv`, which ties the lists of a set to its entries and a term to the entry
it has in its set, and `SaveInv`, which says of each container that `SaveToDisk`
has visited that its file holds what a lookup answers.  `SizeInv`, for
SharedSetsFit, follows a set through every place it can be in: its Size covers
its entries, a file of several terms has at most two entries too many, and while
a token is being registered its set has room for one, or no entry of another
term.

Across restarts `LexSpec` is false in general, which is the second finding above.
`ReloadRefinement` says that this is the only reason: a behaviour in which no set
is split once the index is saved (`NoLateSplit`) implements `Lexicon` for any number
of restarts, whatever is fetched, evicted and read back in each process.  Its
invariant, `SavedInv`, is what `SaveToDisk` leaves and `LoadFromDisk` finds: no term
is in two files, every set in memory is a copy of its file, and the terms of a file
that has been read are tagged with it, so that the trie is never given a term
twice.  A lookup is then answered with what the files hold (`Answered`), and no
step changes the files.  `SmallLimitsReload` discharges the hypothesis where it can
be: with `MaxLoad < 10`, which includes the default of the flag, -1, there is no
split at all (`SmallLimitsNeverSplit`).  Without a limit nothing is over size.  With
one, `perPLSLoad` is at most 1 and every set in memory or swapped out has an entry,
so that `LeastUsedPLS` always draws a new tag and no set has two terms (`SoleInv`).  Ten is
the least limit for which sets are shared, and with it `lexicon_reload` finds its violation.

**`IndexPipelineProofs`**.  `TypeCorrect`, `Separation` (OneDocumentAtATime),
`FiniteWeights` (WeightsAreFinite), `PanicNeedsTheSecondInsert`
(OnlyTheSecondInsertPanics), `WaitInsertIsRight` (WaitInsertIsComplete),
`OnlyTheBeginningIsLost` (NothingElseIndexed).  The invariant of the first three says of every place of the chain that its tokens are of document
`docCount + 1`, that a Null token is the last in its place and that nothing of
the document is in any place before it (`ChainInv`); that the chain is empty
when the lock is free (`LockInv`); how many documents the client is ahead of the
inserter (`ClientInv`); and that nothing is indexed for a later document
(`IndexInv`).  `StartInv`, for `PanicNeedsTheSecondInsert`, adds that
an inserter that holds the output has set `inserterRunning`, and that it is set once a
document was counted: before a third Insert begins the second has had the lock, so
that an inserter has counted the first document.  The last two need to know what is indexed, not only where.  `ContentInv`
says that there are streams `C[1]`..`C[N + 1]`, what each filter has read and what
has left the last one, such that those read and `pipe[0]` are the tokens of the
documents pushed so far, and each determines the next (`Streams`, below).
`C[N + 1]` is P followed by Q: P was dropped for want of an output, Q was
taken, and the lexicon holds the texts of Q, document by document.  A token is only
dropped before the inserter attaches, and then nothing has been taken, so P is the
beginning of the stream and, as no document is counted before, of the first document; P
has a text only when `dropped` has the type.  When the client has waited the chain is empty, and an empty
chain has `C[N + 1]` equal to `PassAll` of all that was inserted.

**`FilterChainProofs`** has the lemmas the two compositions of the chain share.
First, what a step of a filter does to tokens of one document, followed by one Null
token.  Second, what the filters make of a whole stream: a filter in state st
that has read c has sent and holds `After(kind, c)` (`SentBy`, `Streams`), and every
step of every filter keeps that, `VisitSends` being the one that has content: the
phrase filter's loop, with its start, its counts and its slice, sends the
`Phrases` that are defined by position, and no other.  A filter that gets more
sends more (`BeginsWith`), which relates what is indexed so far to what a document
is to become.  These are proved by induction on numbers and on sequences.  The
library's induction theorems take a predicate and cannot be used here, so
`NatSetInduction` and `SeqSetInduction` state induction for a set; they follow from
the library's theorem that strict inclusion is well-founded on finite sets.  That a
recursive function over `0..n` satisfies its equations (`AfterIs`, `TextsIs`, ...) is
proved the same way.

**`PhraseSearchProofs`**.  `SearchTypeCorrect`, `Exactness` (PhraseIsExact),
`Completeness` (PhraseIsFound).  The invariant of `FilterSequential`'s inner loop says
that the positions kept are those before `fIdx`, each within the distance of some
position of the list so far, and that no position of the list before `plIdx` is
near enough to the next; because both entries are sorted the first position it
drops is followed by none it should keep.  The outer invariant says that
`filtered` is right for the documents looked at.  That a filtered list is what
walks one term longer end in is proved by extending a walk, and cutting one, at
the last known term; no induction over the phrase is needed, the search makes it.

**`QueryEngineProofs`**.  `TypeCorrect`, `Separation` (NothingLeftBehind),
`EngineSearches` (the engine implements `SearchSpec`) and, from it,
`AnswersAreExact`; `AnswersAreRight` (AnswerIsRight), `DeathsHaveReasons`
(DeathHasItsReason), `InsertedIsIndex`.  The invariant of the first four is that of the chain, with two more places in it,
`FilterTokens`' hand and `filterEnd`: while a query is pushed or collected a Null
token is the last in its place and everything before it is empty; otherwise all
places are.  It does not depend on when `FilterTokens` attaches: a Null token that
was dropped leaves the engine waiting in `collect`, with nothing behind it.
`AnswersAreRight` adds the streams of the chain (`Flow`): as long as nothing was lost,
what left the last filter is what was collected, then `filterEnd`, then
`FilterTokens`' hand, and when the chain is idle the first of these is the texts of
`PassAll` of the query's tokens.  It holds for a chain whose filters
start a query as if nothing had been before it, which is all of them but a date
filter with a date left (`dated` says so).  No symbol leaves the chain, so that
what is collected has only texts; below the threshold the loop that cuts the
query takes the rarest; and a walk to the last known term is a walk through the
whole phrase.  `DeathsHaveReasons` goes from the score to the statistics: the LM
dies of a logarithm, and with the `mu` of its own index only when it has one
term and one document; COSINE dies of a weightless document that was found, and it was
found for a term of the query that it has, which `IsIndex` says half of the
documents so far had.  `InsertedIsIndex` closes that argument.  Inside a document,
the terms with a weight are those with an entry of it, the last weight of a term is 0
exactly when half of the documents so far have it, and later documents do not change
how many of the earlier ones have it (`InDocument`, `BuiltOK`).

**`QueryDispatchProofs`**.  `TypeCorrect`, `NoLateAnswers` (OneConversation),
`Refinement` (ServiceSpec).  The invariant says that a client's query is in one
place (`ClientInv`), that no preference before the present one has an answer and
that what is about to be sent is `Best` of the query (`LoopInv`), and what is in
each engine's sockets (`EngineInv`).  That `force` is false again when the loop
starts is what makes `LoopInv` inductive: it is the point at which a query
variable that kept its `Force` would break the refinement.

**`DocWalkerProofs`**.  `TypeCorrect`, `ChannelClosedLast` (ClosedLast), for any
number of files with any contents.  `CloseInv` says that `worker_count` is the
number of workers that have still to report and that the channel is open while
there is one; `LifeInv` ties a worker's state to its reader's; `ScanInv` says
that a reader that ends a document has one.  `DocumentsInOrder` (InOrder) and
`EveryDocumentIndexed` (AllIndexed) compare with a reference that is stated by
position: the document that ends at token i of a file is its title and its words
since the `<DOC>` before it, whatever the variables of `read_next_doc` were
(`TrecReader.DocumentAt`).  `ScanAt` says that those variables are, before token i,
what the tokens before it make them; `FileInv` that what was inserted, what is in
the channel, in the worker's hand and in the reader's are together, in this
order, the documents that end in the part of the file that was read; `WalkInv`
that every file the walk has passed has its reader.  The lemmas are about `At`, the elements
of a sequence at a set of positions: it takes one more when the set gets a
position behind the others, and the next position belongs to the title, to the text or to
none by the tag before it.

Only model-checked: `CallsReturn`, `EveryQueryIsAnswered`, `IndexingEnds`,
`QueriesAreAnswered` (liveness under fairness, which with ENABLED is out of the
prover's reach).  Every invariant and action property that a passing run checks, and
every refinement, is stated by a theorem; `LexSpec` across restarts under the
hypothesis of `ReloadRefinement` or of `SmallLimitsReload`, which the run
`lexicon_restart` satisfies.

## Assumptions and what is left out

* `generateTag` draws new tags; a dump of a file is one step; `lexicon.mdt` can
  be read.
* Frequencies and positions in an entry, `Hits` of a container (a choice in
  `LeastUsedPLS`), terms' statistics and all printing are left out.
* A pruner leaves a term at least one entry (TFPruner always, DocCountPruner
  with a positive count; `-index.pruning 'hard 0'` is not modelled).
* The trie is not part of the repository: a second insertion of a key may keep
  or replace the first.
* The stemmer's recovered panic, which passes the token on unchanged, is not
  modelled.  A chain without filters is never pulled; it is in the model but in
  no run.
* Sockets and JSON: an error panics and ends the process; lost and duplicated
  messages cannot occur between connected REQ and REP sockets and are not
  modelled, nor is the crash of a client.
* The tokenizer is what it returns; `Run`'s early exits for profiling are left out.
* Document numbers are distinct (they are random 32-bit numbers in the code).
* Scores, but for whether they are finite; the order of results; the text of a
  serialised entry; the files of an index's metadata.
* JSON decoding reuses one query variable; every client sends all fields.

## Plan

1. done: `Lexicon`, `ConstrainedLexicon`; runs `lexicon_*`; the refinement.
2. done: `Filters`, `FilterChain`, `IndexPipeline`; runs `pipeline*` and `phrases_test`; the separation
   theorem.
3. done: `QueryService`, `QueryDispatch`, `TrecReader`, `DocWalker`; the runs
   `query_dispatch` and `doc_walker`; the refinement and the closing of the channel.
4. done: `InvertedIndex`, `PhraseSearch`, `QueryEngine`; the runs `query_engine` and
   `phrase_within`; the    exactness of the phrase search and the separation of queries.
5. left: serialisation of entries against a reference, the pruners' choice of
   entries; a process that dies in the middle of a dump, should the code come to
   promise something about it.
6. done: the proofs of TrackedOnce and SharedSetsFit; of InOrder and AllIndexed; of
   WaitInsertIsComplete, NothingElseIndexed and AnswerIsRight, with the streams of the
   chain; of DeathHasItsReason, with InsertedIsIndex; of LexSpec across restarts.

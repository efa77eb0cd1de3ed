---------------------------- MODULE PhraseSearch ----------------------------
(***************************************************************************)
(* FilterPositional: a phrase is looked for by reducing the posting list of *)
(* its first known term with that of each term after it (FilterSequential). *)
(* It runs in the goroutine of the query engine and only reads the index.   *)
(***************************************************************************)
EXTENDS Filters, InvertedIndex

CONSTANT Indexes    \* the indexes that may be searched

Positions == Seq(Nat) \ {<<>>}
IsSortedEntry(entry) == \A j, k \in 1..Len(entry) : j <= k => entry[j] <= entry[k]
IsList(list) ==
    /\ DOMAIN list \subseteq Nat /\ list \in [DOMAIN list -> Positions]
    /\ \A d \in DOMAIN list : IsSortedEntry(list[d])

\* Half of the documents up to d have the term.
Halved(list, d) == 2 * Cardinality({e \in DOMAIN list : e <= d}) = d

\* What the inserter builds of some documents; the weight of one is 0 only
\* where half of those up to it had each of its terms.
IsIndex(built) ==
    /\ built.positional \in BOOLEAN /\ built.count \in Nat \ {0}
    /\ DOMAIN built.lists \subseteq Texts /\ IsFiniteSet(DOMAIN built.lists)
    /\ \A t \in DOMAIN built.lists : IsList(built.lists[t])
    /\ \A d \in built.weightless :
          /\ d \in 1..built.count
          /\ \A t \in DOMAIN built.lists :
                d \in DOMAIN built.lists[t] => Halved(built.lists[t], d)

ASSUME IndexesAssumption == \A built \in Indexes : IsIndex(built)

VARIABLES
    index,          \* the index; never written
    step,           \* where the search is: idle, terms, docs, positions, found
    terms,          \* the texts of query_terms
    next,           \* the next of them
    within,
    pl,             \* <<>>: nil, or <<the posting list so far>>
    filtered,       \* FilterSequential's result so far
    todo,           \* the documents of pl it has not looked at
    doc,            \* the one it is looking at
    plIdx, fIdx,    \* where it is in pl's positions and the term's (from 1)
    newEntry        \* the positions kept

filterVars == <<filtered, todo, doc, plIdx, fIdx, newEntry>>
searchVars == <<index, step, terms, next, within, pl, filterVars>>

Known(t) == t \in DOMAIN index.lists
Other == index.lists[terms[next]]

SearchInit ==
    /\ index \in Indexes
    /\ step = "idle" /\ terms = <<>> /\ next = 1 /\ within = 1 /\ pl = <<>>
    /\ filtered = EmptyList /\ todo = {} /\ doc = 0
    /\ plIdx = 1 /\ fIdx = 1 /\ newEntry = <<>>
-----------------------------------------------------------------------------
(* FilterPositional.                                                       *)

BeginSearch(phrase) ==
    /\ step = "idle" /\ step' = "terms"
    /\ terms' = phrase /\ next' = 1 /\ within' = 1 /\ pl' = <<>>
    /\ UNCHANGED <<index, filterVars>>

\* Mutant: the gap an unknown term leaves is not counted.
SkipUnknownUncounted ==
    /\ step = "terms" /\ next <= Len(terms) /\ ~Known(terms[next])
    /\ next' = next + 1
    /\ UNCHANGED <<index, step, terms, within, pl, filterVars>>

\* An unknown term is looked past; it counts once there is a list.
SkipUnknown ==
    /\ step = "terms" /\ next <= Len(terms) /\ ~Known(terms[next])
    /\ next' = next + 1 /\ within' = IF pl = <<>> THEN within ELSE within + 1
    /\ UNCHANGED <<index, step, terms, pl, filterVars>>

FirstList ==
    /\ step = "terms" /\ next <= Len(terms) /\ Known(terms[next]) /\ pl = <<>>
    /\ pl' = <<Other>> /\ next' = next + 1
    /\ UNCHANGED <<index, step, terms, within, filterVars>>

EndSearch ==
    /\ step = "terms" /\ next > Len(terms) /\ step' = "found"
    /\ UNCHANGED <<index, terms, next, within, pl, filterVars>>
-----------------------------------------------------------------------------
(* FilterSequential(Other, within).                                        *)

BeginFilter ==
    /\ step = "terms" /\ next <= Len(terms) /\ Known(terms[next]) /\ pl # <<>>
    /\ step' = "docs" /\ filtered' = EmptyList /\ todo' = DOMAIN pl[1]
    /\ UNCHANGED <<index, terms, next, within, pl, doc, plIdx, fIdx, newEntry>>

\* The list is walked in the order of the document ids.
NextDoc(d) == step = "docs" /\ d \in todo /\ \A e \in todo : d <= e

DropDoc ==
    \E d \in todo :
        /\ NextDoc(d) /\ d \notin DOMAIN Other
        /\ todo' = todo \ {d}
        /\ UNCHANGED <<index, step, terms, next, within, pl, filtered, doc, plIdx, fIdx, newEntry>>

BeginEntry ==
    \E d \in todo :
        /\ NextDoc(d) /\ d \in DOMAIN Other
        /\ todo' = todo \ {d} /\ doc' = d
        /\ newEntry' = <<>> /\ plIdx' = 1 /\ fIdx' = 1 /\ step' = "positions"
        /\ UNCHANGED <<index, terms, next, within, pl, filtered>>

plPos == pl[1][doc]
filterPos == Other[doc]
InBounds == step = "positions" /\ fIdx <= Len(filterPos) /\ plIdx <= Len(plPos)

KeepPosition ==
    /\ InBounds /\ plPos[plIdx] + within >= filterPos[fIdx]
    /\ newEntry' = AddPosition(newEntry, filterPos[fIdx]) /\ fIdx' = fIdx + 1
    /\ UNCHANGED <<index, step, terms, next, within, pl, filtered, todo, doc, plIdx>>

PassPosition ==
    /\ InBounds /\ plPos[plIdx] + within < filterPos[fIdx]
    /\ plIdx' = plIdx + 1
    /\ UNCHANGED <<index, step, terms, next, within, pl, filtered, todo, doc, fIdx, newEntry>>

\* An entry with a position in it is inserted.
EndEntry ==
    /\ step = "positions" /\ ~InBounds /\ step' = "docs"
    /\ filtered' = IF newEntry = <<>> THEN filtered
                   ELSE InsertCompleteEntry(filtered, doc, newEntry)
    /\ UNCHANGED <<index, terms, next, within, pl, todo, doc, plIdx, fIdx, newEntry>>

\* Mutant: the gap left by unknown terms goes on widening.
EndFilterStillWithin ==
    /\ step = "docs" /\ todo = {}
    /\ step' = "terms" /\ pl' = <<filtered>> /\ next' = next + 1
    /\ filtered' = EmptyList /\ doc' = 0 /\ plIdx' = 1 /\ fIdx' = 1 /\ newEntry' = <<>>
    /\ UNCHANGED <<index, terms, within, todo>>

EndFilter ==
    /\ step = "docs" /\ todo = {}
    /\ step' = "terms" /\ pl' = <<filtered>> /\ within' = 1 /\ next' = next + 1
    /\ filtered' = EmptyList /\ doc' = 0 /\ plIdx' = 1 /\ fIdx' = 1 /\ newEntry' = <<>>
    /\ UNCHANGED <<index, terms, todo>>
-----------------------------------------------------------------------------
SearchStep ==
    \/ SkipUnknown \/ FirstList \/ EndSearch
    \/ BeginFilter \/ DropDoc \/ BeginEntry \/ KeepPosition \/ PassPosition
    \/ EndEntry \/ EndFilter

\* The caller takes what was found.
TakeFound ==
    /\ step = "found" /\ step' = "idle"
    /\ terms' = <<>> /\ next' = 1 /\ within' = 1 /\ pl' = <<>>
    /\ UNCHANGED <<index, filterVars>>

SearchNext == SearchStep \/ TakeFound \/ \E phrase \in Seq(Texts) : BeginSearch(phrase)
SearchSpec == SearchInit /\ [][SearchNext]_searchVars
-----------------------------------------------------------------------------
SearchTypeOK ==
    /\ index \in Indexes
    /\ step \in {"idle", "terms", "docs", "positions", "found"}
    /\ terms \in Seq(Texts) /\ next \in 1..Len(terms) + 1 /\ within \in Nat \ {0}
    /\ pl # <<>> => pl = <<pl[1]>> /\ IsList(pl[1])
    /\ IsList(filtered) /\ todo \in SUBSET Nat /\ doc \in Nat
    /\ plIdx \in Nat \ {0} /\ fIdx \in Nat \ {0} /\ newEntry \in Seq(Nat)

\* A walk through a document to a term of a phrase: a position of every known
\* term on the way, each at most as far after the one before as in the phrase,
\* or anywhere before it: how FilterSequential compares two terms' positions.
KnownUpTo(phrase, at) == {k \in 1..at : Known(phrase[k])}
PositionsIn(t, d) ==
    IF d \in DOMAIN index.lists[t] THEN ToSet(index.lists[t][d]) ELSE {}
AllPositions(phrase, d) ==
    UNION {PositionsIn(phrase[k], d) : k \in KnownUpTo(phrase, Len(phrase))}
Walks(phrase, d, at) ==
    {walk \in [KnownUpTo(phrase, at) -> AllPositions(phrase, d)] :
        /\ \A k \in KnownUpTo(phrase, at) : walk[k] \in PositionsIn(phrase[k], d)
        /\ \A j, k \in KnownUpTo(phrase, at) :
               j < k /\ (\A i \in j + 1..k - 1 : ~Known(phrase[i]))
               => walk[k] <= walk[j] + (k - j)}

\* Term after term, FilterPositional and FilterSequential come to what comparing
\* each pair of neighbouring known terms gives: the list that is left after a term
\* has exactly the documents one can walk through to it, and the term's positions
\* that end a walk, in their order.
PhraseIsExact ==
    step \in {"terms", "found"} =>
        /\ pl = <<>> <=> KnownUpTo(terms, next - 1) = {}
        /\ pl # <<>> =>
             LET at == next - within
                 list == index.lists[terms[at]]
             IN  /\ Known(terms[at])
                 /\ DOMAIN pl[1] = {d \in DOMAIN list : Walks(terms, d, at) # {}}
                 /\ \A d \in DOMAIN pl[1] :
                      /\ ToSet(pl[1][d]) = {walk[at] : walk \in Walks(terms, d, at)}
                      /\ pl[1][d] = SubSeq(list[d], 1, Len(pl[1][d]))

\* What the rankers rely on: a document that has the phrase's known terms one
\* after the other, at the distances they have in the phrase, is found.
HasPhrase(phrase, d) ==
    \E first \in KnownUpTo(phrase, Len(phrase)) : \E p \in PositionsIn(phrase[first], d) :
        \A k \in KnownUpTo(phrase, Len(phrase)) : p + (k - first) \in PositionsIn(phrase[k], d)
PhraseIsFound ==
    step = "found" =>
        \A d \in {d \in 1..index.count : HasPhrase(terms, d)} : pl # <<>> /\ d \in DOMAIN pl[1]

\* (indexer.go:77 "returning a posting list containing the positions for terms
\* which occur less that 'within' positions after those in p".)  Every position
\* FilterSequential keeps is after one in the list it is compared with, and less
\* than within after it.
KeptPositionsAreWithin ==
    step = "positions" =>
        \A q \in ToSet(newEntry) : \E p \in ToSet(plPos) : p < q /\ q - p < within
=============================================================================

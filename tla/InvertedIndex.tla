--------------------------- MODULE InvertedIndex ---------------------------
(***************************************************************************)
(* What is in an index: positional_pl and the statistics of a               *)
(* SingleTermIndex, and what the inserter makes of the tokens it reads.     *)
(*                                                                         *)
(* A posting list is a function from documents to the positions of a term   *)
(* in them, in order.  A basic entry has only their number, which is the    *)
(* length of the sequence here; who has an index that is not positional     *)
(* looks at nothing else.                                                   *)
(***************************************************************************)
EXTENDS Integers, Sequences, FiniteSets, SequencesExt

EmptyList == [d \in {} |-> <<>>]

\* AddPosition: append and sort.
AddPosition(entry, pos) ==
    LET before == Cardinality({k \in DOMAIN entry : entry[k] <= pos})
    IN  SubSeq(entry, 1, before) \o <<pos>> \o SubSeq(entry, before + 1, Len(entry))

InsertCompleteEntry(list, d, entry) ==
    [e \in DOMAIN list \cup {d} |-> IF e = d THEN entry ELSE list[e]]

\* A document that has no entry yet gets one with that position.
InsertRawEntry(list, d, pos) ==
    InsertCompleteEntry(list, d,
                        AddPosition(IF d \in DOMAIN list THEN list[d] ELSE <<>>, pos))

Frequency(list, d) == Len(list[d])
-----------------------------------------------------------------------------
(* An index: whether its lists are positional, the number of documents, the *)
(* posting list of each term, and the documents every weight of which is 0. *)

EmptyIndex(positional) ==
    [positional |-> positional, count |-> 0, lists |-> [t \in {} |-> EmptyList],
     weightless |-> {}]

Df(index, t) == Cardinality(DOMAIN index.lists[t])
TermCount(index) == Cardinality(DOMAIN index.lists)

\* InsertToken: the term is found or created, and the token registered in it.
InsertTerm(lists, d, tok) ==
    [t \in DOMAIN lists \cup {tok.text} |->
        IF t = tok.text
        THEN InsertRawEntry(IF t \in DOMAIN lists THEN lists[t] ELSE EmptyList, d, tok.pos)
        ELSE lists[t]]

\* The weight of a term the inserter puts in a document: Idf is 0 when half of
\* the documents so far, this one included, have the term.
ZeroWeight(index, t, d) == d = 2 * Df(index, t)

\* The inserter: a token of the document after those counted.
IndexToken(done, tok) ==
    LET d == done.index.count + 1
        new == [done.index EXCEPT !.lists = InsertTerm(@, d, tok)]
    IN  [index |-> new,
         weight |-> [t \in DOMAIN done.weight \cup {tok.text} |->
                        IF t = tok.text THEN ~ZeroWeight(new, t, d) ELSE done.weight[t]]]

\* Its Null token.
EndDocument(done) ==
    LET d == done.index.count + 1
        weightless == DOMAIN done.weight # {} /\ \A t \in DOMAIN done.weight : ~done.weight[t]
    IN  [done.index EXCEPT !.count = d,
                           !.weightless = IF weightless THEN @ \cup {d} ELSE @]

InsertDocument(index, tokens) ==
    LET done[k \in 0..Len(tokens)] ==
            IF k = 0 THEN [index |-> index, weight |-> [t \in {} |-> FALSE]]
            ELSE IndexToken(done[k - 1], tokens[k])
    IN  EndDocument(done[Len(tokens)])

IndexOf(positional, documents) ==
    LET built[k \in 0..Len(documents)] ==
            IF k = 0 THEN EmptyIndex(positional)
            ELSE InsertDocument(built[k - 1], documents[k])
    IN  built[Len(documents)]
=============================================================================

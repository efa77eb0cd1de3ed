------------------------------ MODULE Lexicon ------------------------------
(***************************************************************************)
(* What a lexicon promises (indexer/lexicon.go, indexer/pruning.go): it    *)
(* maps every term to the set of documents it was registered in.  While an *)
(* index is being built, registering a token and pruning are the only      *)
(* things that change the map; once the index has been saved nothing does. *)
(* Where a posting list is kept, and when it is moved between memory and   *)
(* disk, is no part of the promise.  ConstrainedLexicon implements it.     *)
(***************************************************************************)
CONSTANTS
    Terms,      \* the texts of the tokens
    Docs        \* the documents they occur in

VARIABLES
    index,      \* term -> the documents in its posting list
    open        \* the index is still being built

vars == <<index, open>>

TypeOK ==
    /\ index \in [Terms -> SUBSET Docs]
    /\ open \in BOOLEAN

Init ==
    /\ index = [t \in Terms |-> {}]
    /\ open = TRUE

\* InsertToken: the entry of d in t's list, created if it is not there.
Register(t, d) ==
    /\ open
    /\ index' = [index EXCEPT ![t] = @ \cup {d}]
    /\ UNCHANGED open

\* PostingListPruner.Prune on one term: some entries of its list go, but an
\* indexed term keeps one.
Prune(t, gone) ==
    /\ open
    /\ index[t] \subseteq gone => index[t] = {}
    /\ index' = [index EXCEPT ![t] = @ \ gone]
    /\ UNCHANGED open

\* Save: what was built is what every later reader sees.
Save ==
    /\ open
    /\ open' = FALSE
    /\ UNCHANGED index

Next ==
    \/ \E t \in Terms, d \in Docs : Register(t, d)
    \/ \E t \in Terms, gone \in SUBSET Docs : Prune(t, gone)
    \/ Save

Spec == Init /\ [][Next]_vars
=============================================================================

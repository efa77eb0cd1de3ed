------------------------ MODULE MCConstrainedLexicon ------------------------
(* Small instances of ConstrainedLexicon for TLC. *)
EXTENDS ConstrainedLexicon, TLC

CONSTANTS t1, t2, t3, t4    \* terms

\* A limit of five postings, as in constrained_test.go: every term gets a set
\* of its own and five postings already cause an eviction.  A set that was
\* pruned can be evicted, when the next term to be pruned is read back.
TightDocs == 1..4
TightWords == <<{t1, t2, t3}, {t1, t2, t3}, {t1, t3}, {t1}>>

\* A limit of ten: sets are shared by two terms, and split at three postings.
SharedDocs == 1..6
SharedWords == <<{t1, t2, t3}, {t2, t3}, {t3}, {t3}, {t3}, {t3}>>

\* The same limit, and a fourth term for which a shared set that is over its
\* size is swapped out; then it is read back and grows.
GrownDocs == 1..10
GrownWords == <<{t3}, {t3}, {t3}, {t3}, {t3}, {t3}, {t1, t2}, {t1}, {t4}, {t1}>>

\* As tight, with a fourth term: more than one set is swapped out at a time.
WideDocs == 1..3
WideWords == <<{t1, t2, t3, t4}, {t2, t3, t4}, {t3, t4, t1}>>

\* One new tag is as good as another, for tags are only compared: of the
\* steps that differ in the tag they draw it is enough to look at one.
OneFreshTag ==
    \A c \in (cache' \cup Range(dataTag')) \ (cache \cup onDisk \cup Range(dataTag) \cup {None}) :
        c = CHOOSE d \in FreshTags : TRUE

TagSymmetry == Permutations(Tags)
=============================================================================

------------------------ MODULE PhraseSearchProofs ------------------------
(***************************************************************************)
(* Proofs about PhraseSearch for every index, every phrase and every        *)
(* document: FilterSequential keeps what a walk can reach, a term extends   *)
(* the walks to the term before it, and so what FilterPositional finds is   *)
(* what the walks through the whole phrase end in.                          *)
(***************************************************************************)
EXTENDS PhraseSearch, FiniteSetTheorems, SequenceTheorems, TLAPS

-----------------------------------------------------------------------------
(* Entries and posting lists.                                              *)

LEMMA EntryFacts ==
    ASSUME NEW list, IsList(list), NEW d \in DOMAIN list
    PROVE  /\ d \in Nat /\ list[d] \in Positions /\ list[d] \in Seq(Nat) /\ list[d] # <<>>
           /\ Len(list[d]) \in Nat \ {0} /\ DOMAIN list[d] = 1..Len(list[d])
           /\ \A k \in 1..Len(list[d]) : list[d][k] \in Nat
           /\ IsSortedEntry(list[d])
<1>1. d \in Nat /\ list[d] \in Positions /\ IsSortedEntry(list[d])
  BY DEF IsList
<1>2. list[d] \in Seq(Nat) /\ list[d] # <<>>
  BY <1>1 DEF Positions
<1>3. Len(list[d]) \in Nat \ {0} /\ DOMAIN list[d] = 1..Len(list[d])
  BY <1>2, EmptySeq, LenProperties
<1>. QED  BY <1>1, <1>2, <1>3, ElementOfSeq

\* The first positions of an entry are in order.
LEMMA PrefixFacts ==
    ASSUME NEW f \in Seq(Nat), NEW n \in 0..Len(f)
    PROVE  /\ SubSeq(f, 1, n) \in Seq(Nat) /\ Len(SubSeq(f, 1, n)) = n
           /\ DOMAIN SubSeq(f, 1, n) = 1..n
           /\ \A k \in 1..n : SubSeq(f, 1, n)[k] = f[k]
           /\ SubSeq(f, 1, n) = <<>> <=> n = 0
           /\ IsSortedEntry(f) => IsSortedEntry(SubSeq(f, 1, n))
<1>. DEFINE s == SubSeq(f, 1, n)
<1>1. n \in Nat /\ Len(f) \in Nat /\ \A k \in 1..n : k \in 1..Len(f) /\ f[k] \in Nat
  BY LenProperties, ElementOfSeq
<1>2. s \in Seq(Nat) /\ Len(s) = n /\ \A k \in 1..n : s[k] = f[k]
  BY <1>1, SubSeqProperties
<1>3. DOMAIN s = 1..n /\ (s = <<>> <=> n = 0)
  <2>1. DOMAIN s = 1..Len(s)
    BY <1>2, LenProperties
  <2>2. s # <<>> => Len(s) # 0
    BY <1>2, EmptySeq
  <2>3. s = <<>> => Len(s) = 0
    BY EmptySeq
  <2>. QED  BY <1>2, <2>1, <2>2, <2>3
<1>. HIDE DEF s
<1>4. IsSortedEntry(f) => IsSortedEntry(s)
  BY <1>1, <1>2 DEF IsSortedEntry
<1>. QED  BY <1>2, <1>3, <1>4 DEF s

\* The next position of an entry is added behind those before it.
LEMMA AppendsPosition ==
    ASSUME NEW f \in Seq(Nat), IsSortedEntry(f), NEW n \in 1..Len(f)
    PROVE  AddPosition(SubSeq(f, 1, n - 1), f[n]) = SubSeq(f, 1, n)
<1>. DEFINE s == SubSeq(f, 1, n - 1)
<1>1. /\ n - 1 \in 0..Len(f) /\ Len(f) \in Nat /\ n \in Nat /\ f[n] \in Nat
      /\ \A k \in 1..n - 1 : k \in 1..Len(f) /\ f[k] <= f[n]
  BY LenProperties, ElementOfSeq DEF IsSortedEntry
<1>2. /\ s \in Seq(Nat) /\ Len(s) = n - 1 /\ DOMAIN s = 1..n - 1
      /\ \A k \in 1..n - 1 : s[k] = f[k]
  BY <1>1, PrefixFacts
<1>. HIDE DEF s
<1>3. {k \in DOMAIN s : s[k] <= f[n]} = 1..n - 1
  BY <1>1, <1>2
<1>4. Cardinality(1..n - 1) = n - 1
  BY <1>1, FS_Interval
<1>5. SubSeq(s, 1, n - 1) = s /\ SubSeq(s, n - 1 + 1, Len(s)) = <<>>
  BY <1>1, <1>2, SubSeqFull, SubSeqEmpty
<1>6. AddPosition(s, f[n]) = s \o <<f[n]>> \o <<>>
  BY <1>3, <1>4, <1>5 DEF AddPosition
<1>7. s \o <<f[n]>> \o <<>> = s \o <<f[n]>>
  <2>1. <<f[n]>> \in Seq(Nat)
    BY <1>1
  <2>2. s \o <<f[n]>> \in Seq(Nat)
    BY <1>2, <2>1, ConcatProperties
  <2>. QED  BY <2>2, ConcatEmptySeq
<1>8. SubSeq(f, 1, n) = SubSeq(f, 1, n - 1) \o <<f[n]>>
  BY <1>1, SubSeqRecursiveSecond
<1>. QED  BY <1>6, <1>7, <1>8 DEF s

-----------------------------------------------------------------------------
(* What FilterSequential makes of two entries.                             *)

Reached(p, entry, w) == \E j \in 1..Len(entry) : p <= entry[j] + w

\* The positions of f at most w after one of entry's.
IsReduced(out, entry, f, w) ==
    \E n \in 0..Len(f) :
        /\ out = SubSeq(f, 1, n)
        /\ \A k \in 1..n : Reached(f[k], entry, w)
        /\ \A k \in n + 1..Len(f) : ~Reached(f[k], entry, w)

LEMMA ReducedFacts ==
    ASSUME NEW entry \in Seq(Nat), NEW f \in Seq(Nat), NEW w \in Nat, NEW out,
           IsReduced(out, entry, f, w), IsSortedEntry(f)
    PROVE  /\ out \in Seq(Nat) /\ IsSortedEntry(out)
           /\ ToSet(out) = {p \in ToSet(f) : \E q \in ToSet(entry) : p <= q + w}
           /\ out = SubSeq(f, 1, Len(out))
           /\ out = <<>> <=> ToSet(out) = {}
<1>1. PICK n \in 0..Len(f) :
        /\ out = SubSeq(f, 1, n)
        /\ \A k \in 1..n : Reached(f[k], entry, w)
        /\ \A k \in n + 1..Len(f) : ~Reached(f[k], entry, w)
  BY DEF IsReduced
<1>2. Len(f) \in Nat /\ n \in Nat /\ DOMAIN f = 1..Len(f) /\ DOMAIN entry = 1..Len(entry)
  BY LenProperties
<1>3. /\ out \in Seq(Nat) /\ Len(out) = n /\ DOMAIN out = 1..n
      /\ \A k \in 1..n : out[k] = f[k]
      /\ out = <<>> <=> n = 0
      /\ IsSortedEntry(out)
  BY <1>1, PrefixFacts
<1>4. \A p : Reached(p, entry, w) <=> \E q \in ToSet(entry) : p <= q + w
  BY <1>2 DEF Reached, ToSet
<1>5. \A k \in 1..Len(f) : k \in 1..n <=> Reached(f[k], entry, w)
  BY <1>1, <1>2
<1>6. ToSet(out) = {out[k] : k \in 1..n} /\ ToSet(f) = {f[k] : k \in 1..Len(f)}
  BY <1>2, <1>3 DEF ToSet
<1>7. ToSet(out) = {p \in ToSet(f) : Reached(p, entry, w)}
  BY <1>2, <1>3, <1>5, <1>6
<1>8. out = <<>> <=> ToSet(out) = {}
  <2>1. n = 0 => {out[k] : k \in 1..n} = {}
    OBVIOUS
  <2>2. n # 0 => out[1] \in {out[k] : k \in 1..n}
    BY <1>2
  <2>. QED  BY <1>3, <1>6, <2>1, <2>2
<1>9. ToSet(out) = {p \in ToSet(f) : \E q \in ToSet(entry) : p <= q + w}
  BY <1>4, <1>7
<1>10. out = SubSeq(f, 1, Len(out))
  BY <1>1, <1>3
<1>. QED  BY <1>3, <1>8, <1>9, <1>10

-----------------------------------------------------------------------------
(* Walks.                                                                  *)

Ends(phrase, d, at) == {walk[at] : walk \in Walks(phrase, d, at)}

LEMMA PositionsFacts ==
    ASSUME NEW phrase \in Seq(Texts), NEW d, NEW k \in KnownUpTo(phrase, Len(phrase))
    PROVE  PositionsIn(phrase[k], d) \subseteq AllPositions(phrase, d)
  BY DEF AllPositions

\* To the first known term one walks by being there.
LEMMA FirstWalks ==
    ASSUME NEW phrase \in Seq(Texts), NEW at \in 1..Len(phrase), NEW d,
           KnownUpTo(phrase, at) = {at}
    PROVE  Ends(phrase, d, at) = PositionsIn(phrase[at], d)
<1>1. at \in KnownUpTo(phrase, Len(phrase)) /\ at \in Nat
  BY LenProperties DEF KnownUpTo
<1>2. ASSUME NEW walk \in Walks(phrase, d, at)
      PROVE  walk[at] \in PositionsIn(phrase[at], d)
  BY DEF Walks
<1>3. ASSUME NEW p \in PositionsIn(phrase[at], d)
      PROVE  p \in Ends(phrase, d, at)
  <2>. DEFINE walk == [k \in {at} |-> p]
  <2>1. walk \in [KnownUpTo(phrase, at) -> AllPositions(phrase, d)]
    BY <1>1, <1>3, PositionsFacts
  <2>2. walk \in Walks(phrase, d, at)
    BY <1>1, <2>1 DEF Walks
  <2>. QED  BY <2>2 DEF Ends
<1>. QED  BY <1>2, <1>3 DEF Ends

\* To the next known term one walks from the end of a walk to the one before.
LEMMA NextWalks ==
    ASSUME NEW phrase \in Seq(Texts), NEW i \in 1..Len(phrase), NEW at \in 1..Len(phrase),
           i < at, Known(phrase[i]), Known(phrase[at]),
           \A m \in i + 1..at - 1 : ~Known(phrase[m]), NEW d,
           NEW gap, gap = at - i
    PROVE  \A p : p \in Ends(phrase, d, at) <=>
                   /\ p \in PositionsIn(phrase[at], d)
                   /\ \E q \in Ends(phrase, d, i) : p <= q + gap
<1>. DEFINE K == KnownUpTo(phrase, i)
            KK == KnownUpTo(phrase, at)
            A == AllPositions(phrase, d)
            P(k) == PositionsIn(phrase[k], d)
<1>1. /\ Len(phrase) \in Nat /\ i \in Nat /\ at \in Nat
      /\ K \subseteq 1..i /\ KK \subseteq 1..at /\ KK = K \cup {at} /\ i \in K
      /\ \A k \in KK : k \in KnownUpTo(phrase, Len(phrase))
  BY LenProperties DEF KnownUpTo
<1>2. \A k \in KK : P(k) \subseteq A
  BY <1>1, PositionsFacts
<1>3. ASSUME NEW walk \in Walks(phrase, d, at)
      PROVE  /\ walk[at] \in P(at)
             /\ \E q \in Ends(phrase, d, i) : walk[at] <= q + gap
  <2>. DEFINE shorter == [k \in K |-> walk[k]]
  <2>1. /\ walk \in [KK -> A] /\ \A k \in KK : walk[k] \in P(k)
        /\ \A j, k \in KK : j < k /\ (\A m \in j + 1..k - 1 : ~Known(phrase[m]))
                            => walk[k] <= walk[j] + (k - j)
    BY DEF Walks
  <2>2. shorter \in [K -> A]
    BY <1>1, <2>1
  <2>3. \A k \in K : shorter[k] = walk[k] /\ k \in KK
    BY <1>1
  <2>. HIDE DEF shorter
  <2>4. shorter \in Walks(phrase, d, i)
    BY <2>1, <2>2, <2>3 DEF Walks
  <2>5. walk[at] <= shorter[i] + gap
    BY <1>1, <2>1, <2>3
  <2>6. shorter[i] \in Ends(phrase, d, i)
    BY <2>4 DEF Ends
  <2>. QED  BY <1>1, <2>1, <2>5, <2>6
<1>4. ASSUME NEW w \in Walks(phrase, d, i), NEW p \in P(at), p <= w[i] + gap
      PROVE  p \in Ends(phrase, d, at)
  <2>. DEFINE longer == [k \in KK |-> IF k = at THEN p ELSE w[k]]
  <2>1. /\ w \in [K -> A] /\ \A k \in K : w[k] \in P(k)
        /\ \A j, k \in K : j < k /\ (\A m \in j + 1..k - 1 : ~Known(phrase[m]))
                            => w[k] <= w[j] + (k - j)
    BY DEF Walks
  <2>2. at \in KK /\ at \notin K /\ \A k \in KK : k # at => k \in K
    BY <1>1
  <2>3. longer \in [KK -> A]
    BY <1>1, <1>2, <1>4, <2>1
  <2>4. longer[at] = p /\ \A k \in K : longer[k] = w[k]
    BY <1>1, <2>2
  <2>. HIDE DEF longer
  <2>5. \A k \in KK : longer[k] \in P(k)
    BY <1>4, <2>1, <2>2, <2>4
  <2>6. ASSUME NEW j \in KK, NEW k \in KK, j < k,
               \A m \in j + 1..k - 1 : ~Known(phrase[m])
        PROVE  longer[k] <= longer[j] + (k - j)
    <3>1. CASE k = at
      <4>1. j \in K /\ j <= i
        BY <1>1, <2>2, <2>6, <3>1
      <4>2. j = i
        <5>1. ASSUME j < i PROVE FALSE
          <6>1. i \in j + 1..k - 1
            BY <1>1, <3>1, <4>1, <5>1
          <6>. QED  BY <2>6, <6>1
        <5>. QED  BY <1>1, <4>1, <5>1
      <4>. QED  BY <1>1, <1>4, <2>4, <3>1, <4>2
    <3>2. CASE k # at
      <4>1. k \in K /\ j \in K
        BY <1>1, <2>2, <2>6, <3>2
      <4>. QED  BY <2>1, <2>4, <2>6, <4>1
    <3>. QED  BY <3>1, <3>2
  <2>7. longer \in Walks(phrase, d, at)
    BY <2>3, <2>5, <2>6 DEF Walks
  <2>. QED  BY <2>4, <2>7 DEF Ends
<1>. HIDE DEF K, KK, A
<1>5. ASSUME NEW p \in Ends(phrase, d, at)
      PROVE  p \in P(at) /\ \E q \in Ends(phrase, d, i) : p <= q + gap
  BY <1>3, <1>5 DEF Ends
<1>6. ASSUME NEW p \in P(at), NEW q \in Ends(phrase, d, i), p <= q + gap
      PROVE  p \in Ends(phrase, d, at)
  BY <1>4, <1>6 DEF Ends
<1>. QED  BY <1>5, <1>6

-----------------------------------------------------------------------------
(* The inductive invariant.                                                *)

InFilter == step \in {"docs", "positions"}

\* FilterSequential runs for a known term once there is a list.
StepInv ==
    /\ step = "idle" => terms = <<>> /\ next = 1 /\ pl = <<>>
    /\ step = "found" => next = Len(terms) + 1
    /\ InFilter => next \in 1..Len(terms) /\ Known(terms[next]) /\ pl # <<>>

\* The entries it has made, of the documents it has looked at.
FilteredInv ==
    InFilter =>
        /\ todo \subseteq DOMAIN pl[1]
        /\ \A d \in DOMAIN filtered :
              d \in DOMAIN pl[1] /\ d \in DOMAIN Other /\ filtered[d] # <<>>
              /\ IsReduced(filtered[d], pl[1][d], Other[d], within)
        /\ \A d \in DOMAIN pl[1] :
              d \in DOMAIN Other /\ d \notin DOMAIN filtered /\ d \notin todo
              /\ ~(step = "positions" /\ d = doc)
              => IsReduced(<<>>, pl[1][d], Other[d], within)

\* The entry it is making: the positions before fIdx are within reach, and
\* what is before plIdx does not reach the one at fIdx.
EntryInv ==
    step = "positions" =>
        /\ doc \in DOMAIN pl[1] /\ doc \in DOMAIN Other
        /\ fIdx \in 1..Len(filterPos) + 1 /\ plIdx \in 1..Len(plPos) + 1
        /\ newEntry = SubSeq(filterPos, 1, fIdx - 1)
        /\ \A k \in 1..fIdx - 1 : Reached(filterPos[k], plPos, within)
        /\ fIdx <= Len(filterPos) =>
              \A j \in 1..plIdx - 1 : plPos[j] + within < filterPos[fIdx]

\* The list left after the term at a place of the phrase.
IsExact(list, phrase, at) ==
    /\ DOMAIN list = {d \in DOMAIN index.lists[phrase[at]] : Walks(phrase, d, at) # {}}
    /\ \A d \in DOMAIN list :
          /\ ToSet(list[d]) = Ends(phrase, d, at)
          /\ list[d] = SubSeq(index.lists[phrase[at]][d], 1, Len(list[d]))

\* The last known term is within terms behind the next.
ListInv ==
    /\ pl = <<>> => within = 1 /\ \A m \in 1..next - 1 : ~Known(terms[m])
    /\ pl # <<>> =>
          /\ next - within \in 1..next - 1 /\ Known(terms[next - within])
          /\ \A m \in next - within + 1..next - 1 : ~Known(terms[m])
    /\ \A list, phrase, at :
          pl = <<list>> /\ phrase = terms /\ at = next - within => IsExact(list, phrase, at)

SearchInv == SearchTypeOK /\ StepInv /\ FilteredInv /\ EntryInv /\ ListInv

\* Walks depend on the index only, which is never written.
LEMMA SameExact ==
    ASSUME index' = index
    PROVE  /\ \A list, phrase, at : IsExact(list, phrase, at)' <=> IsExact(list, phrase, at)
           /\ \A t : Known(t)' <=> Known(t)
  BY DEF IsExact, Ends, Walks, KnownUpTo, AllPositions, PositionsIn, Known

\* What is known of a search that is reducing a list.
LEMMA FilterFacts ==
    ASSUME SearchTypeOK, StepInv, InFilter
    PROVE  /\ pl = <<pl[1]>> /\ IsList(pl[1]) /\ IsList(Other) /\ within \in Nat \ {0}
           /\ index \in Indexes /\ terms[next] \in DOMAIN index.lists
           /\ next \in 1..Len(terms) /\ terms \in Seq(Texts) /\ Len(terms) \in Nat
  BY IndexesAssumption, LenProperties DEF IsIndex, SearchTypeOK, StepInv, InFilter, Known, Other

LEMMA EmptyIsList == IsList(EmptyList) /\ DOMAIN EmptyList = {}
  BY DEF EmptyList, IsList

\* FilterPositional: a phrase is begun.
LEMMA BeginSearchStep ==
    ASSUME SearchInv, NEW phrase \in Seq(Texts), BeginSearch(phrase)
    PROVE  SearchInv'
<1>1. /\ step' = "terms" /\ terms' = phrase /\ next' = 1 /\ within' = 1 /\ pl' = <<>>
      /\ UNCHANGED <<index, filtered, todo, doc, plIdx, fIdx, newEntry>>
  BY DEF BeginSearch, filterVars
<1>2. 1 \in 1..Len(phrase) + 1
  BY LenProperties
<1>3. SearchTypeOK'
  BY <1>1, <1>2 DEF SearchInv, SearchTypeOK
<1>4. StepInv' /\ FilteredInv' /\ EntryInv'
  BY <1>1 DEF StepInv, FilteredInv, EntryInv, InFilter
<1>5. ListInv'
  BY <1>1 DEF ListInv
<1>. QED  BY <1>3, <1>4, <1>5 DEF SearchInv

LEMMA TakeFoundStep ==
    ASSUME SearchInv, TakeFound
    PROVE  SearchInv'
<1>1. /\ step' = "idle" /\ terms' = <<>> /\ next' = 1 /\ within' = 1 /\ pl' = <<>>
      /\ UNCHANGED <<index, filtered, todo, doc, plIdx, fIdx, newEntry>>
  BY DEF TakeFound, filterVars
<1>2. <<>> \in Seq(Texts) /\ 1 \in 1..Len(<<>>) + 1
  BY EmptySeq
<1>3. SearchTypeOK'
  BY <1>1, <1>2 DEF SearchInv, SearchTypeOK
<1>4. StepInv' /\ FilteredInv' /\ EntryInv'
  BY <1>1 DEF StepInv, FilteredInv, EntryInv, InFilter
<1>5. ListInv'
  BY <1>1 DEF ListInv
<1>. QED  BY <1>3, <1>4, <1>5 DEF SearchInv

\* An unknown term is behind the last known one, or there is none.
LEMMA SkipStep ==
    ASSUME SearchInv, SkipUnknown
    PROVE  SearchInv'
<1>1. /\ step = "terms" /\ step' = "terms" /\ next <= Len(terms) /\ ~Known(terms[next])
      /\ next' = next + 1 /\ within' = IF pl = <<>> THEN within ELSE within + 1
      /\ UNCHANGED <<index, terms, pl, filtered, todo, doc, plIdx, fIdx, newEntry>>
  BY DEF SkipUnknown, filterVars
<1>2. next \in Nat /\ within \in Nat \ {0} /\ Len(terms) \in Nat /\ next >= 1
  BY LenProperties DEF SearchInv, SearchTypeOK
<1>3. SearchTypeOK'
  BY <1>1, <1>2 DEF SearchInv, SearchTypeOK
<1>4. StepInv' /\ FilteredInv' /\ EntryInv'
  BY <1>1 DEF StepInv, FilteredInv, EntryInv, InFilter
<1>5. \A m \in 1..next' - 1 : m \in 1..next - 1 \/ m = next
  BY <1>1, <1>2
<1>6. ListInv'
  <2>1. CASE pl = <<>>
    <3>1. within' = 1 /\ \A m \in 1..next' - 1 : ~Known(terms[m])'
      BY <1>1, <1>5, <2>1, SameExact DEF SearchInv, ListInv
    <3>. QED  BY <1>1, <2>1, <3>1 DEF ListInv
  <2>2. CASE pl # <<>>
    <3>1. next' - within' = next - within
      BY <1>1, <1>2, <2>2
    <3>2. /\ next - within \in 1..next - 1 /\ Known(terms[next - within])
          /\ \A m \in next - within + 1..next - 1 : ~Known(terms[m])
          /\ \A list, phrase, at :
                pl = <<list>> /\ phrase = terms /\ at = next - within => IsExact(list, phrase, at)
      BY <2>2 DEF SearchInv, ListInv
    <3>3. /\ next' - within' \in 1..next' - 1 /\ Known(terms[next - within])'
          /\ \A m \in next - within + 1..next' - 1 : ~Known(terms[m])'
      <4>1. \A m \in next - within + 1..next' - 1 : m \in next - within + 1..next - 1 \/ m = next
        BY <1>1, <1>2
      <4>. QED  BY <1>1, <1>2, <3>1, <3>2, <4>1, SameExact
    <3>. QED  BY <1>1, <2>2, <3>1, <3>2, <3>3, SameExact DEF ListInv
  <2>. QED  BY <2>1, <2>2
<1>. QED  BY <1>3, <1>4, <1>6 DEF SearchInv

\* The first known term: its own list.
LEMMA FirstListStep ==
    ASSUME SearchInv, FirstList
    PROVE  SearchInv'
<1>1. /\ step = "terms" /\ step' = "terms" /\ next <= Len(terms) /\ Known(terms[next])
      /\ pl = <<>> /\ pl' = <<Other>> /\ next' = next + 1
      /\ UNCHANGED <<index, terms, within, filtered, todo, doc, plIdx, fIdx, newEntry>>
  BY DEF FirstList, filterVars
<1>2. /\ next \in 1..Len(terms) /\ within = 1 /\ Len(terms) \in Nat /\ terms \in Seq(Texts)
      /\ \A m \in 1..next - 1 : ~Known(terms[m])
      /\ index \in Indexes
  BY <1>1, LenProperties DEF SearchInv, SearchTypeOK, ListInv
<1>3. IsList(Other)
  BY <1>1, <1>2, IndexesAssumption DEF Known, Other, IsIndex
<1>4. SearchTypeOK'
  <2>1. pl'[1] = Other /\ pl' = <<pl'[1]>> /\ next' \in 1..Len(terms) + 1
    BY <1>1, <1>2
  <2>. QED  BY <1>1, <1>3, <2>1 DEF SearchInv, SearchTypeOK
<1>5. StepInv' /\ FilteredInv' /\ EntryInv'
  BY <1>1 DEF StepInv, FilteredInv, EntryInv, InFilter
<1>6. IsExact(Other, terms, next)
  <2>1. KnownUpTo(terms, next) = {next}
    BY <1>1, <1>2 DEF KnownUpTo
  <2>2. \A d : Ends(terms, d, next) = PositionsIn(terms[next], d)
    BY <1>2, <2>1, FirstWalks
  <2>3. \A d \in DOMAIN Other : PositionsIn(terms[next], d) = ToSet(Other[d])
    BY DEF PositionsIn, Other
  <2>4. ASSUME NEW d \in DOMAIN Other
        PROVE  Walks(terms, d, next) # {} /\ Other[d] = SubSeq(Other[d], 1, Len(Other[d]))
    <3>1. Other[d] \in Seq(Nat) /\ 1 \in DOMAIN Other[d]
      BY <1>3, <2>4, EntryFacts
    <3>2. ToSet(Other[d]) # {}
      BY <3>1 DEF ToSet
    <3>. QED  BY <2>2, <2>3, <2>4, <3>1, <3>2, SubSeqFull DEF Ends
  <2>. QED  BY <2>2, <2>3, <2>4 DEF IsExact, Other
<1>7. ListInv'
  <2>1. next' - within' = next
    BY <1>1, <1>2
  <2>3. ASSUME NEW list, NEW phrase, NEW at,
               pl' = <<list>>, phrase = terms', at = next' - within'
        PROVE  IsExact(list, phrase, at)'
    <3>1. list = Other /\ phrase = terms /\ at = next
      BY <1>1, <2>1, <2>3
    <3>2. IsExact(list, phrase, at)
      BY <1>6, <3>1
    <3>. QED  BY <1>1, <3>2, SameExact
  <2>4. /\ (next - within \in 1..next - 1)' /\ (Known(terms[next - within]))'
        /\ (next - within + 1..next - 1 = {})'
    BY <1>1, <1>2, <2>1 DEF Known
  <2>. QED  BY <1>1, <2>1, <2>3, <2>4 DEF ListInv
<1>. QED  BY <1>4, <1>5, <1>7 DEF SearchInv

LEMMA SameList ==
    ASSUME SearchInv, UNCHANGED <<index, terms, next, within, pl>>
    PROVE  ListInv'
<1>1. \A m : Known(terms[m])' <=> Known(terms[m])
  BY SameExact
<1>. QED  BY <1>1, SameExact DEF SearchInv, ListInv

LEMMA EndSearchStep ==
    ASSUME SearchInv, EndSearch
    PROVE  SearchInv'
<1>1. /\ next > Len(terms) /\ step' = "found"
      /\ UNCHANGED <<index, terms, next, within, pl, filtered, todo, doc, plIdx, fIdx, newEntry>>
  BY DEF EndSearch, filterVars
<1>2. next = Len(terms) + 1
  BY <1>1, LenProperties DEF SearchInv, SearchTypeOK
<1>3. SearchTypeOK' /\ ListInv'
  BY <1>1, SameList DEF SearchInv, SearchTypeOK
<1>4. StepInv' /\ FilteredInv' /\ EntryInv'
  BY <1>1, <1>2 DEF StepInv, FilteredInv, EntryInv, InFilter
<1>. QED  BY <1>3, <1>4 DEF SearchInv

\* FilterSequential begins with no entry.
LEMMA BeginFilterStep ==
    ASSUME SearchInv, BeginFilter
    PROVE  SearchInv'
<1>1. /\ next <= Len(terms) /\ Known(terms[next]) /\ pl # <<>> /\ step' = "docs"
      /\ filtered' = EmptyList /\ todo' = DOMAIN pl[1]
      /\ UNCHANGED <<index, terms, next, within, pl, doc, plIdx, fIdx, newEntry>>
  BY DEF BeginFilter
<1>2. /\ next \in 1..Len(terms) /\ pl = <<pl[1]>> /\ IsList(pl[1])
  BY <1>1, LenProperties DEF SearchInv, SearchTypeOK
<1>3. SearchTypeOK' /\ ListInv'
  BY <1>1, <1>2, EmptyIsList, SameList DEF SearchInv, SearchTypeOK, IsList
<1>4. StepInv'
  BY <1>1, <1>2, SameExact DEF StepInv, InFilter
<1>5. FilteredInv' /\ EntryInv'
  BY <1>1, EmptyIsList DEF FilteredInv, EntryInv
<1>. QED  BY <1>3, <1>4, <1>5 DEF SearchInv

\* A document the term is not in.
LEMMA DropDocStep ==
    ASSUME SearchInv, DropDoc
    PROVE  SearchInv'
<1>1. PICK d \in todo : /\ NextDoc(d) /\ d \notin DOMAIN Other /\ todo' = todo \ {d}
                        /\ UNCHANGED <<index, step, terms, next, within, pl, filtered, doc,
                                      plIdx, fIdx, newEntry>>
  BY DEF DropDoc
<1>2. Other' = Other /\ step = "docs"
  BY <1>1 DEF Other, NextDoc
<1>3. SearchTypeOK' /\ ListInv'
  BY <1>1, SameList DEF SearchInv, SearchTypeOK
<1>4. StepInv'
  BY <1>1, <1>2, SameExact DEF SearchInv, StepInv, InFilter
<1>5. FilteredInv'
  <2>1. \A e \in DOMAIN Other : e \notin todo' => e \notin todo
    BY <1>1
  <2>. QED  BY <1>1, <1>2, <2>1 DEF SearchInv, FilteredInv, InFilter
<1>6. EntryInv'
  BY <1>1, <1>2 DEF EntryInv
<1>. QED  BY <1>3, <1>4, <1>5, <1>6 DEF SearchInv

LEMMA BeginEntryStep ==
    ASSUME SearchInv, BeginEntry
    PROVE  SearchInv'
<1>1. PICK d \in todo : /\ NextDoc(d) /\ d \in DOMAIN Other /\ todo' = todo \ {d} /\ doc' = d
                        /\ newEntry' = <<>> /\ plIdx' = 1 /\ fIdx' = 1 /\ step' = "positions"
                        /\ UNCHANGED <<index, terms, next, within, pl, filtered>>
  BY DEF BeginEntry
<1>2. Other' = Other /\ step = "docs" /\ InFilter
  BY <1>1 DEF Other, NextDoc, InFilter
<1>3. /\ d \in DOMAIN pl[1] /\ IsList(pl[1]) /\ IsList(Other) /\ d \in Nat
  BY <1>1, <1>2, FilterFacts DEF SearchInv, FilteredInv, SearchTypeOK
<1>4. SearchTypeOK' /\ ListInv'
  <2>1. <<>> \in Seq(Nat)
    BY EmptySeq
  <2>. QED  BY <1>1, <1>3, <2>1, SameList DEF SearchInv, SearchTypeOK
<1>5. StepInv'
  BY <1>1, <1>2, SameExact DEF SearchInv, StepInv, InFilter
<1>6. FilteredInv'
  <2>1. \A e : e \notin todo' => e \notin todo \/ e = d
    BY <1>1
  <2>. QED  BY <1>1, <1>2, <2>1 DEF SearchInv, FilteredInv, InFilter
<1>7. EntryInv'
  <2>1. plPos' = pl[1][d] /\ filterPos' = Other[d]
    BY <1>1, <1>2 DEF plPos, filterPos
  <2>2. /\ Len(Other[d]) \in Nat /\ Len(pl[1][d]) \in Nat
        /\ SubSeq(Other[d], 1, 0) = <<>>
    BY <1>1, <1>3, EntryFacts, SubSeqEmpty
  <2>. QED  BY <1>1, <1>2, <1>3, <2>1, <2>2 DEF EntryInv
<1>. QED  BY <1>4, <1>5, <1>6, <1>7 DEF SearchInv

\* What is known of an entry that is being made.
LEMMA EntryStepFacts ==
    ASSUME SearchInv, step = "positions"
    PROVE  /\ plPos \in Seq(Nat) /\ filterPos \in Seq(Nat) /\ IsSortedEntry(filterPos)
           /\ Len(plPos) \in Nat /\ Len(filterPos) \in Nat
           /\ \A k \in 1..Len(plPos) : plPos[k] \in Nat
           /\ \A k \in 1..Len(filterPos) : filterPos[k] \in Nat
           /\ within \in Nat \ {0} /\ plIdx \in Nat \ {0} /\ fIdx \in Nat \ {0}
           /\ doc \in Nat /\ InFilter
<1>1. InFilter /\ IsList(pl[1]) /\ IsList(Other) /\ within \in Nat \ {0}
  BY FilterFacts DEF SearchInv, InFilter
<1>. QED  BY <1>1, EntryFacts DEF SearchInv, EntryInv, plPos, filterPos, SearchTypeOK

\* A position within reach of pl's at plIdx is kept.
LEMMA KeepStep ==
    ASSUME SearchInv, KeepPosition
    PROVE  SearchInv'
<1>1. /\ step = "positions" /\ step' = step /\ fIdx <= Len(filterPos) /\ plIdx <= Len(plPos)
      /\ plPos[plIdx] + within >= filterPos[fIdx]
      /\ newEntry' = AddPosition(newEntry, filterPos[fIdx]) /\ fIdx' = fIdx + 1
      /\ UNCHANGED <<index, terms, next, within, pl, filtered, todo, doc, plIdx>>
  BY DEF KeepPosition, InBounds
<1>2. Other' = Other /\ plPos' = plPos /\ filterPos' = filterPos
  BY <1>1 DEF Other, plPos, filterPos
<1>3. /\ plPos \in Seq(Nat) /\ filterPos \in Seq(Nat) /\ IsSortedEntry(filterPos)
      /\ Len(plPos) \in Nat /\ Len(filterPos) \in Nat
      /\ \A k \in 1..Len(plPos) : plPos[k] \in Nat
      /\ \A k \in 1..Len(filterPos) : filterPos[k] \in Nat
      /\ within \in Nat \ {0} /\ plIdx \in Nat \ {0} /\ fIdx \in Nat \ {0}
  BY <1>1, EntryStepFacts
<1>4. /\ newEntry = SubSeq(filterPos, 1, fIdx - 1) /\ plIdx \in 1..Len(plPos)
      /\ fIdx \in 1..Len(filterPos)
      /\ doc \in DOMAIN pl[1] /\ doc \in DOMAIN Other
      /\ \A k \in 1..fIdx - 1 : Reached(filterPos[k], plPos, within)
      /\ \A j \in 1..plIdx - 1 : plPos[j] + within < filterPos[fIdx]
  BY <1>1, <1>3 DEF SearchInv, EntryInv
<1>5. newEntry' = SubSeq(filterPos, 1, fIdx)
  <2>1. AddPosition(SubSeq(filterPos, 1, fIdx - 1), filterPos[fIdx]) = SubSeq(filterPos, 1, fIdx)
    BY <1>3, <1>4, AppendsPosition
  <2>. QED  BY <1>1, <1>4, <2>1
<1>6. SearchTypeOK' /\ ListInv'
  <2>1. newEntry' \in Seq(Nat) /\ fIdx' \in Nat \ {0}
    BY <1>1, <1>3, <1>5, PrefixFacts, SMTT(30)
  <2>. QED  BY <1>1, <2>1, SameList DEF SearchInv, SearchTypeOK
<1>7. StepInv' /\ FilteredInv'
  BY <1>1, <1>2, SameExact DEF SearchInv, StepInv, FilteredInv, InFilter
<1>8. EntryInv'
  <2>1. \A k \in 1..fIdx' - 1 : Reached(filterPos[k], plPos, within)
    <3>1. Reached(filterPos[fIdx], plPos, within)
      BY <1>1, <1>3 DEF Reached
    <3>2. \A k \in 1..fIdx' - 1 : k \in 1..fIdx - 1 \/ k = fIdx
      BY <1>1, <1>3
    <3>. QED  BY <1>1, <1>4, <3>1, <3>2
  <2>2. fIdx' <= Len(filterPos) =>
            \A j \in 1..plIdx - 1 : plPos[j] + within < filterPos[fIdx']
    <3>1. ASSUME fIdx' <= Len(filterPos), NEW j \in 1..plIdx - 1
          PROVE  plPos[j] + within < filterPos[fIdx']
      <4>1. plPos[j] + within < filterPos[fIdx] /\ j \in 1..Len(plPos)
        BY <1>3, <1>4
      <4>2. /\ filterPos[fIdx] <= filterPos[fIdx + 1] /\ filterPos[fIdx] \in Nat
            /\ filterPos[fIdx + 1] \in Nat /\ plPos[j] \in Nat
        <5>1. fIdx + 1 \in 1..Len(filterPos) /\ DOMAIN filterPos = 1..Len(filterPos)
          BY <1>1, <1>3, <3>1, LenProperties
        <5>2. fIdx <= fIdx + 1 /\ filterPos[fIdx] <= filterPos[fIdx + 1]
          BY <1>3, <1>4, <5>1 DEF IsSortedEntry
        <5>3. filterPos[fIdx] \in Nat /\ filterPos[fIdx + 1] \in Nat
          BY <1>3, <1>4, <5>1
        <5>4. plPos[j] \in Nat
          BY <1>3, <4>1
        <5>. QED  BY <5>2, <5>3, <5>4
      <4>3. fIdx' = fIdx + 1 /\ within \in Nat
        BY <1>1, <1>3
      <4>. QED  BY <4>1, <4>2, <4>3
    <3>. QED  BY <3>1
  <2>3. fIdx' \in 1..Len(filterPos) + 1 /\ newEntry' = SubSeq(filterPos, 1, fIdx' - 1)
    BY <1>1, <1>3, <1>5
  <2>4. UNCHANGED <<doc, pl, plIdx, within>> /\ plIdx \in 1..Len(plPos) + 1
    BY <1>1, <1>3, <1>4
  <2>. QED  BY <1>2, <1>4, <2>1, <2>2, <2>3, <2>4 DEF EntryInv
<1>. QED  BY <1>6, <1>7, <1>8 DEF SearchInv

\* A position of pl that does not reach the term's next one is done with.
LEMMA PassStep ==
    ASSUME SearchInv, PassPosition
    PROVE  SearchInv'
<1>1. /\ step = "positions" /\ step' = step /\ fIdx <= Len(filterPos) /\ plIdx <= Len(plPos)
      /\ plPos[plIdx] + within < filterPos[fIdx] /\ plIdx' = plIdx + 1
      /\ UNCHANGED <<index, terms, next, within, pl, filtered, todo, doc, fIdx, newEntry>>
  BY DEF PassPosition, InBounds
<1>2. Other' = Other /\ plPos' = plPos /\ filterPos' = filterPos
  BY <1>1 DEF Other, plPos, filterPos
<1>3. Len(plPos) \in Nat /\ plIdx \in Nat \ {0}
  BY <1>1, EntryStepFacts
<1>4. SearchTypeOK' /\ ListInv'
  <2>1. plIdx' \in Nat \ {0}
    BY <1>1, <1>3
  <2>. QED  BY <1>1, <2>1, SameList DEF SearchInv, SearchTypeOK
<1>5. StepInv' /\ FilteredInv'
  BY <1>1, <1>2, SameExact DEF SearchInv, StepInv, FilteredInv, InFilter
<1>6. EntryInv'
  <2>1. \A j \in 1..plIdx' - 1 : j \in 1..plIdx - 1 \/ j = plIdx
    BY <1>1, <1>3
  <2>2. plIdx' \in 1..Len(plPos) + 1
    BY <1>1, <1>3
  <2>. QED  BY <1>1, <1>2, <2>1, <2>2 DEF SearchInv, EntryInv
<1>. QED  BY <1>4, <1>5, <1>6 DEF SearchInv

\* What is before fIdx when the loop ends is all that is within reach.
LEMMA EntryIsReduced ==
    ASSUME SearchInv, step = "positions", ~InBounds
    PROVE  IsReduced(newEntry, plPos, filterPos, within)
<1>1. /\ plPos \in Seq(Nat) /\ filterPos \in Seq(Nat) /\ IsSortedEntry(filterPos)
      /\ Len(plPos) \in Nat /\ Len(filterPos) \in Nat
      /\ \A k \in 1..Len(plPos) : plPos[k] \in Nat
      /\ \A k \in 1..Len(filterPos) : filterPos[k] \in Nat
      /\ within \in Nat \ {0}
  BY EntryStepFacts
<1>2. /\ fIdx \in 1..Len(filterPos) + 1 /\ plIdx \in 1..Len(plPos) + 1
      /\ newEntry = SubSeq(filterPos, 1, fIdx - 1)
      /\ \A k \in 1..fIdx - 1 : Reached(filterPos[k], plPos, within)
      /\ fIdx <= Len(filterPos) => \A j \in 1..plIdx - 1 : plPos[j] + within < filterPos[fIdx]
  BY DEF SearchInv, EntryInv
<1>3. fIdx <= Len(filterPos) => plIdx = Len(plPos) + 1
  BY <1>1, <1>2 DEF InBounds
<1>4. ASSUME NEW k \in fIdx..Len(filterPos), Reached(filterPos[k], plPos, within)
      PROVE  FALSE
  <2>1. PICK j \in 1..Len(plPos) : filterPos[k] <= plPos[j] + within
    BY <1>4 DEF Reached
  <2>2. fIdx \in 1..Len(filterPos) /\ k \in 1..Len(filterPos) /\ fIdx <= k
    BY <1>1, <1>2, <1>4
  <2>3. plPos[j] + within < filterPos[fIdx]
    BY <1>1, <1>2, <1>3, <2>1, <2>2
  <2>4. filterPos[fIdx] <= filterPos[k]
    <3>1. DOMAIN filterPos = 1..Len(filterPos)
      BY <1>1, LenProperties
    <3>. QED  BY <1>1, <2>2, <3>1 DEF IsSortedEntry
  <2>5. filterPos[fIdx] \in Nat /\ filterPos[k] \in Nat /\ plPos[j] \in Nat
    BY <1>1, <2>1, <2>2
  <2>. QED  BY <1>1, <2>1, <2>3, <2>4, <2>5, SMTT(30)
<1>5. /\ fIdx - 1 \in 0..Len(filterPos)
      /\ \A k \in fIdx - 1 + 1..Len(filterPos) : k \in fIdx..Len(filterPos)
  BY <1>1, <1>2
<1>. QED  BY <1>2, <1>4, <1>5 DEF IsReduced

LEMMA EndEntryStep ==
    ASSUME SearchInv, EndEntry
    PROVE  SearchInv'
<1>1. /\ step = "positions" /\ ~InBounds /\ step' = "docs"
      /\ filtered' = IF newEntry = <<>> THEN filtered
                     ELSE InsertCompleteEntry(filtered, doc, newEntry)
      /\ UNCHANGED <<index, terms, next, within, pl, todo, doc, plIdx, fIdx, newEntry>>
  BY DEF EndEntry
<1>2. Other' = Other
  BY <1>1 DEF Other
<1>3. /\ IsReduced(newEntry, pl[1][doc], Other[doc], within)
      /\ plPos \in Seq(Nat) /\ filterPos \in Seq(Nat) /\ IsSortedEntry(filterPos)
      /\ within \in Nat /\ doc \in Nat /\ InFilter
      /\ doc \in DOMAIN pl[1] /\ doc \in DOMAIN Other
  <2>1. IsReduced(newEntry, plPos, filterPos, within)
    BY <1>1, EntryIsReduced
  <2>. QED  BY <1>1, <2>1, EntryStepFacts DEF plPos, filterPos, SearchInv, EntryInv
<1>4. newEntry \in Seq(Nat) /\ IsSortedEntry(newEntry)
  <2>1. IsReduced(newEntry, plPos, filterPos, within)
    BY <1>3 DEF plPos, filterPos
  <2>. QED  BY <1>3, <2>1, ReducedFacts
<1>5. CASE newEntry = <<>>
  <2>1. filtered' = filtered
    BY <1>1, <1>5
  <2>2. SearchTypeOK' /\ ListInv'
    BY <1>1, <2>1, SameList DEF SearchInv, SearchTypeOK
  <2>3. StepInv' /\ EntryInv'
    BY <1>1, <1>2, SameExact DEF SearchInv, StepInv, EntryInv, InFilter
  <2>4. FilteredInv'
    BY <1>1, <1>2, <1>3, <1>5, <2>1 DEF SearchInv, FilteredInv, InFilter
  <2>. QED  BY <2>2, <2>3, <2>4 DEF SearchInv
<1>6. CASE newEntry # <<>>
  <2>1. /\ DOMAIN filtered' = DOMAIN filtered \cup {doc} /\ filtered'[doc] = newEntry
        /\ \A d \in DOMAIN filtered : d # doc => filtered'[d] = filtered[d]
        /\ filtered' = [d \in DOMAIN filtered \cup {doc} |->
                            IF d = doc THEN newEntry ELSE filtered[d]]
    BY <1>1, <1>6 DEF InsertCompleteEntry
  <2>2. IsList(filtered')
    <3>1. IsList(filtered) /\ newEntry \in Positions
      BY <1>4, <1>6 DEF SearchInv, SearchTypeOK, Positions
    <3>. QED  BY <1>3, <1>4, <2>1, <3>1 DEF IsList
  <2>3. SearchTypeOK' /\ ListInv'
    BY <1>1, <2>2, SameList DEF SearchInv, SearchTypeOK
  <2>4. StepInv' /\ EntryInv'
    BY <1>1, <1>2, SameExact DEF SearchInv, StepInv, EntryInv, InFilter
  <2>5. FilteredInv'
    BY <1>1, <1>2, <1>3, <1>6, <2>1 DEF SearchInv, FilteredInv, InFilter
  <2>. QED  BY <2>3, <2>4, <2>5 DEF SearchInv
<1>. QED  BY <1>5, <1>6

\* The term's walks end where the list's walks reach.
LEMMA FilteredIsExact ==
    ASSUME SearchInv, step = "docs", todo = {}
    PROVE  IsExact(filtered, terms, next)
<1>. DEFINE at == next - within
<1>1. /\ pl = <<pl[1]>> /\ IsList(pl[1]) /\ IsList(Other) /\ within \in Nat \ {0}
      /\ index \in Indexes /\ terms[next] \in DOMAIN index.lists
      /\ next \in 1..Len(terms) /\ terms \in Seq(Texts) /\ Len(terms) \in Nat
  BY FilterFacts DEF SearchInv, InFilter
<1>2. /\ at \in 1..next - 1 /\ Known(terms[at])
      /\ \A m \in at + 1..next - 1 : ~Known(terms[m])
      /\ IsExact(pl[1], terms, at)
  BY <1>1 DEF SearchInv, ListInv, StepInv, InFilter
<1>3. /\ \A d \in DOMAIN filtered :
            d \in DOMAIN pl[1] /\ d \in DOMAIN Other /\ filtered[d] # <<>>
            /\ IsReduced(filtered[d], pl[1][d], Other[d], within)
      /\ \A d \in DOMAIN pl[1] :
            d \in DOMAIN Other /\ d \notin DOMAIN filtered
            => IsReduced(<<>>, pl[1][d], Other[d], within)
  BY DEF SearchInv, FilteredInv, InFilter
<1>4. at \in 1..Len(terms) /\ at < next /\ within = next - at /\ Known(terms[next])
  BY <1>1, <1>2 DEF Known
<1>. HIDE DEF at
<1>5. \A d, p : p \in Ends(terms, d, next) <=>
                  /\ p \in PositionsIn(terms[next], d)
                  /\ \E q \in Ends(terms, d, at) : p <= q + within
  BY <1>1, <1>2, <1>4, NextWalks, ZenonT(60)
<1>6. \A d \in DOMAIN Other : PositionsIn(terms[next], d) = ToSet(Other[d])
  BY DEF PositionsIn, Other
<1>7. \A d : d \notin DOMAIN pl[1] => Ends(terms, d, at) = {}
  <2>. SUFFICES ASSUME NEW d, d \notin DOMAIN pl[1], NEW walk \in Walks(terms, d, at)
                PROVE  FALSE
    BY DEF Ends
  <2>1. d \notin DOMAIN index.lists[terms[at]]
    BY <1>2 DEF IsExact
  <2>2. at \in KnownUpTo(terms, at)
    BY <1>2, <1>4 DEF KnownUpTo
  <2>3. walk[at] \in PositionsIn(terms[at], d)
    BY <2>2 DEF Walks
  <2>. QED  BY <2>1, <2>3 DEF PositionsIn
<1>8. \A d \in DOMAIN pl[1] : Ends(terms, d, at) = ToSet(pl[1][d])
  BY <1>2 DEF IsExact
<1>9. ASSUME NEW d \in DOMAIN pl[1], d \in DOMAIN Other, NEW out,
             IsReduced(out, pl[1][d], Other[d], within)
      PROVE  /\ ToSet(out) = Ends(terms, d, next) /\ out = SubSeq(Other[d], 1, Len(out))
             /\ out = <<>> <=> Ends(terms, d, next) = {}
  <2>1. pl[1][d] \in Seq(Nat) /\ Other[d] \in Seq(Nat) /\ IsSortedEntry(Other[d])
    BY <1>1, <1>9, EntryFacts
  <2>2. /\ ToSet(out) = {p \in ToSet(Other[d]) : \E q \in ToSet(pl[1][d]) : p <= q + within}
        /\ out = SubSeq(Other[d], 1, Len(out))
        /\ out = <<>> <=> ToSet(out) = {}
    BY <1>1, <1>9, <2>1, ReducedFacts
  <2>3. ToSet(out) = Ends(terms, d, next)
    BY <1>5, <1>6, <1>8, <1>9, <2>2
  <2>. QED  BY <2>2, <2>3
<1>10. \A d \in DOMAIN Other : Ends(terms, d, next) # {} <=> d \in DOMAIN filtered
  <2>1. \A d \in DOMAIN Other : d \notin DOMAIN pl[1] => Ends(terms, d, next) = {}
    BY <1>5, <1>7
  <2>. QED  BY <1>3, <1>9, <2>1
<1>11. DOMAIN filtered = {d \in DOMAIN Other : Walks(terms, d, next) # {}}
  <2>1. \A d : Ends(terms, d, next) # {} <=> Walks(terms, d, next) # {}
    BY DEF Ends
  <2>. QED  BY <1>3, <1>10, <2>1
<1>12. \A d \in DOMAIN filtered :
          ToSet(filtered[d]) = Ends(terms, d, next)
          /\ filtered[d] = SubSeq(Other[d], 1, Len(filtered[d]))
  BY <1>3, <1>9
<1>. QED  BY <1>11, <1>12 DEF IsExact, Other

LEMMA EndFilterStep ==
    ASSUME SearchInv, EndFilter
    PROVE  SearchInv'
<1>1. /\ step = "docs" /\ todo = {} /\ step' = "terms" /\ pl' = <<filtered>> /\ within' = 1
      /\ next' = next + 1 /\ filtered' = EmptyList /\ doc' = 0 /\ plIdx' = 1 /\ fIdx' = 1
      /\ newEntry' = <<>> /\ UNCHANGED <<index, terms, todo>>
  BY DEF EndFilter
<1>2. /\ next \in 1..Len(terms) /\ Len(terms) \in Nat /\ Known(terms[next])
      /\ IsList(filtered)
  BY <1>1, FilterFacts DEF SearchInv, InFilter, Known, SearchTypeOK
<1>3. SearchTypeOK'
  <2>1. next' \in 1..Len(terms) + 1 /\ <<>> \in Seq(Nat) /\ pl'[1] = filtered
    BY <1>1, <1>2, EmptySeq
  <2>. QED  BY <1>1, <1>2, <2>1, EmptyIsList DEF SearchInv, SearchTypeOK
<1>4. StepInv' /\ FilteredInv' /\ EntryInv'
  BY <1>1 DEF StepInv, FilteredInv, EntryInv, InFilter
<1>5. ListInv'
  <2>1. /\ (next - within \in 1..next - 1)' /\ (Known(terms[next - within]))'
        /\ (next - within + 1..next - 1 = {})' /\ next' - within' = next
    BY <1>1, <1>2 DEF Known
  <2>2. IsExact(filtered, terms, next)
    BY <1>1, FilteredIsExact
  <2>3. ASSUME NEW list, NEW phrase, NEW at,
               pl' = <<list>>, phrase = terms', at = next' - within'
        PROVE  IsExact(list, phrase, at)'
    <3>1. list = filtered /\ phrase = terms /\ at = next
      BY <1>1, <2>1, <2>3
    <3>2. IsExact(list, phrase, at)
      BY <2>2, <3>1
    <3>. QED  BY <1>1, <3>2, SameExact
  <2>. QED  BY <1>1, <2>1, <2>3 DEF ListInv
<1>. QED  BY <1>3, <1>4, <1>5 DEF SearchInv

LEMMA SearchInvInit ==
    ASSUME SearchInit
    PROVE  SearchInv
<1>1. /\ index \in Indexes /\ step = "idle" /\ terms = <<>> /\ next = 1 /\ within = 1
      /\ pl = <<>> /\ filtered = EmptyList /\ todo = {} /\ doc = 0
      /\ plIdx = 1 /\ fIdx = 1 /\ newEntry = <<>>
  BY DEF SearchInit
<1>2. <<>> \in Seq(Texts) /\ 1 \in 1..Len(<<>>) + 1 /\ <<>> \in Seq(Nat)
  BY EmptySeq
<1>3. SearchTypeOK
  BY <1>1, <1>2, EmptyIsList DEF SearchTypeOK
<1>4. StepInv /\ FilteredInv /\ EntryInv /\ ListInv
  BY <1>1 DEF StepInv, FilteredInv, EntryInv, ListInv, InFilter
<1>. QED  BY <1>3, <1>4 DEF SearchInv

LEMMA SearchInvSame ==
    ASSUME SearchInv, UNCHANGED searchVars
    PROVE  SearchInv'
<1>1. UNCHANGED <<index, step, terms, next, within, pl, filtered, todo, doc, plIdx, fIdx,
                  newEntry>>
  BY DEF searchVars, filterVars
<1>2. Other' = Other /\ plPos' = plPos /\ filterPos' = filterPos
  BY <1>1 DEF Other, plPos, filterPos
<1>3. SearchTypeOK' /\ ListInv'
  BY <1>1, SameList DEF SearchInv, SearchTypeOK
<1>4. StepInv' /\ FilteredInv' /\ EntryInv'
  BY <1>1, <1>2, SameExact DEF SearchInv, StepInv, FilteredInv, EntryInv, InFilter
<1>. QED  BY <1>3, <1>4 DEF SearchInv

LEMMA SearchInvNext ==
    ASSUME SearchInv, [SearchNext]_searchVars
    PROVE  SearchInv'
<1>1. CASE SearchStep
  BY <1>1, SkipStep, FirstListStep, EndSearchStep, BeginFilterStep, DropDocStep,
     BeginEntryStep, KeepStep, PassStep, EndEntryStep, EndFilterStep DEF SearchStep
<1>2. CASE TakeFound
  BY <1>2, TakeFoundStep
<1>3. CASE \E phrase \in Seq(Texts) : BeginSearch(phrase)
  BY <1>3, BeginSearchStep
<1>4. CASE UNCHANGED searchVars
  BY <1>4, SearchInvSame
<1>. QED  BY <1>1, <1>2, <1>3, <1>4 DEF SearchNext

LEMMA SearchInvExact ==
    ASSUME SearchInv
    PROVE  PhraseIsExact
<1>. DEFINE at == next - within
<1>1. next \in 1..Len(terms) + 1 /\ Len(terms) \in Nat
  BY LenProperties DEF SearchInv, SearchTypeOK
<1>2. CASE pl = <<>>
  <2>1. KnownUpTo(terms, next - 1) = {}
    BY <1>2 DEF SearchInv, ListInv, KnownUpTo
  <2>. QED  BY <1>2, <2>1 DEF PhraseIsExact
<1>3. CASE pl # <<>>
  <2>1. pl = <<pl[1]>> /\ at \in 1..next - 1 /\ Known(terms[at]) /\ IsExact(pl[1], terms, at)
    BY <1>3 DEF SearchInv, SearchTypeOK, ListInv
  <2>2. KnownUpTo(terms, next - 1) # {}
    BY <2>1 DEF KnownUpTo
  <2>. QED  BY <1>3, <2>1, <2>2 DEF PhraseIsExact, IsExact, Ends
<1>. QED  BY <1>2, <1>3

\* The places of the phrase itself are a walk.
LEMMA SearchInvFound ==
    ASSUME SearchInv
    PROVE  PhraseIsFound
<1>. DEFINE at == next - within
            K == KnownUpTo(terms, Len(terms))
<1>. SUFFICES ASSUME step = "found", NEW d \in 1..index.count, HasPhrase(terms, d)
              PROVE  pl # <<>> /\ d \in DOMAIN pl[1]
  BY DEF PhraseIsFound
<1>1. terms \in Seq(Texts) /\ Len(terms) \in Nat /\ next = Len(terms) + 1
  BY LenProperties DEF SearchInv, SearchTypeOK, StepInv
<1>0. PICK first \in K : \E p \in PositionsIn(terms[first], d) :
          \A k \in K : p + (k - first) \in PositionsIn(terms[k], d)
  BY DEF HasPhrase
<1>2. PICK p \in PositionsIn(terms[first], d) :
          \A k \in K : p + (k - first) \in PositionsIn(terms[k], d)
  BY <1>0
<1>3. pl # <<>>
  <2>1. first \in 1..next - 1 /\ Known(terms[first])
    BY <1>1, <1>2 DEF KnownUpTo
  <2>. QED  BY <2>1 DEF SearchInv, ListInv
<1>4. /\ at \in 1..Len(terms) /\ Known(terms[at]) /\ IsExact(pl[1], terms, at)
  BY <1>1, <1>3 DEF SearchInv, SearchTypeOK, ListInv
<1>. HIDE DEF at
<1>5. at \in KnownUpTo(terms, at) /\ at \in K /\ KnownUpTo(terms, at) \subseteq K
      /\ first \in Nat /\ \A k \in K : k \in Nat
  BY <1>1, <1>2, <1>4 DEF KnownUpTo
<1>6. p \in Nat
  <2>1. terms[first] \in DOMAIN index.lists /\ index \in Indexes
    BY <1>2 DEF KnownUpTo, Known, SearchInv, SearchTypeOK
  <2>2. IsList(index.lists[terms[first]])
    BY <2>1, IndexesAssumption DEF IsIndex
  <2>. QED  BY <1>2, <2>2, EntryFacts DEF PositionsIn, ToSet
<1>7. [k \in KnownUpTo(terms, at) |-> p + (k - first)] \in Walks(terms, d, at)
  <2>. DEFINE walk == [k \in KnownUpTo(terms, at) |-> p + (k - first)]
  <2>1. \A k \in KnownUpTo(terms, at) : walk[k] = p + (k - first) /\ k \in K
    BY <1>5
  <2>2. \A k \in KnownUpTo(terms, at) : walk[k] \in PositionsIn(terms[k], d)
    BY <1>2, <2>1
  <2>3. walk \in [KnownUpTo(terms, at) -> AllPositions(terms, d)]
    BY <1>1, <2>1, <2>2, PositionsFacts
  <2>4. \A j, k \in KnownUpTo(terms, at) : walk[k] <= walk[j] + (k - j)
    BY <1>5, <1>6, <2>1
  <2>. HIDE DEF walk
  <2>5. walk \in Walks(terms, d, at)
    BY <2>2, <2>3, <2>4 DEF Walks
  <2>. QED  BY <2>5 DEF walk
<1>8. d \in DOMAIN index.lists[terms[at]]
  BY <1>2, <1>5 DEF PositionsIn
<1>. QED  BY <1>3, <1>4, <1>7, <1>8 DEF IsExact
-----------------------------------------------------------------------------
(* The theorems.                                                           *)

\* The invariant FilterPositional and FilterSequential's loops keep.
THEOREM SearchInvariance == SearchSpec => []SearchInv
<1>1. SearchInit => SearchInv
  BY SearchInvInit
<1>2. SearchInv /\ [SearchNext]_searchVars => SearchInv'
  BY SearchInvNext
<1>. QED  BY <1>1, <1>2, PTL DEF SearchSpec

\* Type correctness of the search: the lists it makes are posting lists with
\* sorted entries that are not empty (FilterSequential inserts no other).
THEOREM SearchTypeCorrect == SearchSpec => []SearchTypeOK
<1>1. SearchInv => SearchTypeOK
  BY DEF SearchInv
<1>. QED  BY <1>1, SearchInvariance, PTL

\* FilterPositional leaves exactly the documents one can walk through, whatever
\* terms of the phrase are unknown and whatever the positions (bm25.go:20).
THEOREM Exactness == SearchSpec => []PhraseIsExact
<1>1. SearchInv => PhraseIsExact
  BY SearchInvExact
<1>. QED  BY <1>1, SearchInvariance, PTL

\* A document that has the phrase is found (bm25.go:20).
THEOREM Completeness == SearchSpec => []PhraseIsFound
<1>1. SearchInv => PhraseIsFound
  BY SearchInvFound
<1>. QED  BY <1>1, SearchInvariance, PTL
=============================================================================

------------------------- MODULE FilterChainProofs -------------------------
(***************************************************************************)
(* What holds of a chain of filters while the tokens of one document pass  *)
(* it, for every chain, every capacity and every document: the Null token  *)
(* is the last, and when it is out nothing is left behind.  The lemmas are *)
(* used for documents (IndexPipelineProofs) and queries (QueryEngineProofs).*)
(***************************************************************************)
EXTENDS FilterChain, FiniteSetTheorems, SequenceTheorems, TLAPS

-----------------------------------------------------------------------------
(* What the filters send on.                                               *)

\* The output of a filter for a text token: text tokens of the same document.
FromToken(out, tok) ==
    /\ out \in Seq(Tokens)
    /\ \A k \in 1..Len(out) : out[k].doc = tok.doc /\ out[k].type = "text"

TextTokens == {tok \in Tokens : tok.type = "text"}

\* CloneWithText: the copy keeps the document.
LEMMA CloneFacts ==
    ASSUME NEW tok \in TextTokens, NEW text \in Texts
    PROVE  /\ CloneWithText(tok, text) \in TextTokens
           /\ CloneWithText(tok, text).doc = tok.doc
  BY DEF CloneWithText, Tokens, TextTokens

LEMMA ShortOutputs ==
    ASSUME NEW tok \in Tokens, NEW a \in TextTokens, NEW b \in TextTokens,
           a.doc = tok.doc, b.doc = tok.doc
    PROVE  FromToken(<<>>, tok) /\ FromToken(<<a>>, tok) /\ FromToken(<<a, b>>, tok)
<1>1. /\ a \in Tokens /\ b \in Tokens
      /\ a.type = "text" /\ b.type = "text"
  BY DEF TextTokens
<1>2. FromToken(<<>>, tok) /\ FromToken(<<a>>, tok)
  BY <1>1 DEF FromToken
<1>3. FromToken(<<a, b>>, tok)
  BY <1>1 DEF FromToken
<1>. QED  BY <1>2, <1>3

LEMMA ConcatOutputs ==
    ASSUME NEW tok \in Tokens, NEW s, NEW t, FromToken(s, tok), FromToken(t, tok)
    PROVE  FromToken(s \o t, tok)
<1>1. s \in Seq(Tokens) /\ t \in Seq(Tokens) /\ Len(s) \in Nat /\ Len(t) \in Nat
  BY LenProperties DEF FromToken
<1>2. /\ s \o t \in Seq(Tokens) /\ Len(s \o t) = Len(s) + Len(t)
      /\ \A i \in 1..Len(s) + Len(t) :
            (s \o t)[i] = IF i <= Len(s) THEN s[i] ELSE t[i - Len(s)]
  BY <1>1, ConcatProperties
<1>3. ASSUME NEW k \in 1..Len(s \o t)
      PROVE  (s \o t)[k].doc = tok.doc /\ (s \o t)[k].type = "text"
  <2>1. CASE k <= Len(s)
    BY <1>1, <1>2, <2>1 DEF FromToken
  <2>2. CASE k > Len(s)
    <3>1. k - Len(s) \in 1..Len(t)
      BY <1>1, <1>2, <2>2
    <3>. QED  BY <1>1, <1>2, <2>2, <3>1 DEF FromToken
  <2>. QED  BY <1>1, <2>1, <2>2
<1>. QED  BY <1>2, <1>3 DEF FromToken

\* The states of a filter other than the phrase filter hold no tokens.
Empty(st) == /\ st \in FilterStates /\ st.buffer = <<>> /\ st.ended = <<>>
             /\ st.next = 1 /\ st.start = 1

LEMMA FreshFacts == Fresh \in FilterStates /\ Empty(Fresh)
<1>1. <<>> \in Seq(Words) /\ <<>> \in Seq(Tokens)
  BY EmptySeq
<1>. QED  BY <1>1 DEF Fresh, FilterStates, Empty

LEMMA DateTokenFacts ==
    ASSUME NEW st \in FilterStates, st.month # <<>>, NEW tok \in TextTokens,
           NEW year \in Seq(Words)
    PROVE  /\ DateToken(st, tok, year) \in TextTokens
           /\ DateToken(st, tok, year).doc = tok.doc
<1>1. st.month \in Seq(Words) /\ st.day \in Seq(Words)
  BY DEF FilterStates
<1>2. \A s \in Seq(Words) : s # <<>> => s[1] \in Words
  OBVIOUS
<1>3. /\ st.month[1] \in Words /\ OrZeros(st.day, "00") \in Words
      /\ OrZeros(year, "0000") \in Words
  <2>1. st.month[1] \in Words
    BY <1>1, <1>2
  <2>2. OrZeros(st.day, "00") \in Words
    BY <1>1, <1>2, WordsAssumption DEF OrZeros
  <2>3. OrZeros(year, "0000") \in Words
    BY <1>2, WordsAssumption DEF OrZeros
  <2>. QED  BY <2>1, <2>2, <2>3
<1>4. <<st.month[1], OrZeros(st.day, "00"), OrZeros(year, "0000")>> \in Texts
  BY <1>3 DEF Texts
<1>. QED  BY <1>4, CloneFacts DEF DateToken

LEMMA BeginDateFacts ==
    ASSUME NEW st, Empty(st), NEW tok \in TextTokens
    PROVE  LET r == BeginDate(st, tok)
           IN  Empty(r.st) /\ FromToken(r.out, tok)
<1>1. FromToken(<<tok>>, tok)
  BY ShortOutputs DEF TextTokens
<1>2. \A text \in Texts : FromToken(<<CloneWithText(tok, text)>>, tok)
  BY CloneFacts, ShortOutputs DEF TextTokens
<1>3. CASE tok.text \in DOMAIN FullDates
  <2>1. FromToken(<<CloneWithText(tok, FullDates[tok.text])>>, tok)
    BY <1>2, <1>3, DatesAssumption
  <2>. QED  BY <1>3, <2>1, FreshFacts DEF BeginDate, Result
<1>4. CASE tok.text \notin DOMAIN FullDates /\ tok.text \in DOMAIN MonthNames
  <2>1. FromToken(<<CloneWithText(tok, MonthNames[tok.text])>>, tok)
    BY <1>2, <1>4, DatesAssumption
  <2>2. <<MonthNumbers[tok.text]>> \in Seq(Words)
    BY <1>4, DatesAssumption
  <2>3. Empty([st EXCEPT !.month = <<MonthNumbers[tok.text]>>])
    BY <2>2 DEF Empty, FilterStates
  <2>. QED  BY <1>4, <2>1, <2>3 DEF BeginDate, Result
<1>5. CASE tok.text \notin DOMAIN FullDates /\ tok.text \notin DOMAIN MonthNames
  BY <1>1, <1>5 DEF BeginDate, Result
<1>. QED  BY <1>3, <1>4, <1>5

\* DateFilter.Apply keeps to the token's document and stores no token.
LEMMA DatesFacts ==
    ASSUME NEW st, Empty(st), NEW tok \in TextTokens
    PROVE  LET r == ApplyDates(st, tok) IN Empty(r.st) /\ FromToken(r.out, tok)
<1>1. st \in FilterStates /\ tok.text \in Seq(Words)
  BY DEF Empty, TextTokens, Tokens, Texts
<1>2. CASE st.month = <<>>
  BY <1>2, BeginDateFacts DEF ApplyDates
<1>3. CASE st.month # <<>> /\ st.day = <<>>
  <2>1. ApplyDates(st, tok) = AfterMonth(st, tok)
    BY <1>3 DEF ApplyDates
  <2>2. FromToken(<<>>, tok) /\ FromToken(<<tok>>, tok)
    BY ShortOutputs DEF TextTokens
  <2>3. CASE tok.text \in DOMAIN DayNumbers
    <3>1. <<DayNumbers[tok.text]>> \in Seq(Words)
      BY <2>3, DatesAssumption
    <3>2. Empty([st EXCEPT !.day = <<DayNumbers[tok.text]>>])
      BY <3>1 DEF Empty, FilterStates
    <3>. QED  BY <2>1, <2>2, <2>3, <3>2 DEF AfterMonth, Result
  <2>4. CASE tok.text \in DOMAIN Years \ DOMAIN DayNumbers
    <3>1. <<Years[tok.text]>> \in Seq(Words)
      BY <2>4, DatesAssumption
    <3>2. /\ DateToken(st, tok, <<Years[tok.text]>>) \in TextTokens
          /\ DateToken(st, tok, <<Years[tok.text]>>).doc = tok.doc
      BY <1>1, <1>3, <3>1, DateTokenFacts
    <3>3. FromToken(<<tok, DateToken(st, tok, <<Years[tok.text]>>)>>, tok)
      BY <3>2, ShortOutputs DEF TextTokens
    <3>. QED  BY <2>1, <2>4, <3>3, FreshFacts DEF AfterMonth, Result
  <2>5. CASE tok.text \notin DOMAIN DayNumbers /\ tok.text \notin DOMAIN Years \ DOMAIN DayNumbers
    BY <2>1, <2>2, <2>5, FreshFacts DEF AfterMonth, Result
  <2>. QED  BY <2>3, <2>4, <2>5
<1>4. CASE st.month # <<>> /\ st.day # <<>>
  <2>1. ApplyDates(st, tok) = AfterDay(st, tok)
    BY <1>4 DEF ApplyDates
  <2>2. \A y \in Seq(Words) : /\ DateToken(st, tok, y) \in TextTokens
                               /\ DateToken(st, tok, y).doc = tok.doc
    BY <1>1, <1>4, DateTokenFacts
  <2>3. CASE tok.text \in DOMAIN Years
    <3>. <<Years[tok.text]>> \in Seq(Words)
      BY <2>3, DatesAssumption
    <3>1. FromToken(<<tok, DateToken(st, tok, <<Years[tok.text]>>)>>, tok)
      BY <2>2, ShortOutputs DEF TextTokens
    <3>. QED  BY <2>1, <2>3, <3>1, FreshFacts DEF AfterDay, Result
  <2>4. CASE tok.text \notin DOMAIN Years
    <3>. DEFINE again == BeginDate(Fresh, tok)
    <3>1. Empty(again.st) /\ FromToken(again.out, tok)
      BY FreshFacts, BeginDateFacts
    <3>2. <<>> \in Seq(Words)
      BY EmptySeq
    <3>3. FromToken(<<DateToken(st, tok, <<>>)>>, tok)
      BY <2>2, <3>2, ShortOutputs DEF TextTokens
    <3>4. FromToken(<<DateToken(st, tok, <<>>)>> \o again.out, tok)
      BY <3>1, <3>3, ConcatOutputs DEF TextTokens
    <3>. QED  BY <2>1, <2>4, <3>1, <3>4 DEF AfterDay, Result
  <2>. QED  BY <2>3, <2>4
<1>. QED  BY <1>2, <1>3, <1>4

-----------------------------------------------------------------------------
(* Sequences of tokens: whose they are, and where their Null token is.     *)

\* Tokens of document d.
Good(s, d) == s \in Seq(Tokens) /\ \A k \in 1..Len(s) : s[k].doc = d
HasNull(s) == \E k \in 1..Len(s) : s[k].type = "null"
NullLast(s) == \A k \in 1..Len(s) : s[k].type = "null" => k = Len(s)

LEMMA EmptyFacts ==
    ASSUME NEW d
    PROVE  Good(<<>>, d) /\ ~HasNull(<<>>) /\ NullLast(<<>>)
  BY DEF Good, HasNull, NullLast

\* A sequence without its first element, whatever else it is.
LEMMA ShiftFacts ==
    ASSUME NEW s, NEW t, Len(s) \in Nat \ {0}, Len(t) = Len(s) - 1,
           \A k \in 1..Len(t) : t[k] = s[k + 1], NullLast(s)
    PROVE  /\ NullLast(t) /\ (HasNull(t) => HasNull(s))
           /\ s[1].type = "null" => Len(s) = 1 /\ HasNull(s)
<1>1. ASSUME NEW k \in 1..Len(t), t[k].type = "null"
      PROVE  k = Len(t) /\ HasNull(s)
  <2>1. k + 1 \in 1..Len(s) /\ s[k + 1].type = "null"
    BY <1>1
  <2>2. k + 1 = Len(s) /\ HasNull(s)
    BY <2>1 DEF NullLast, HasNull
  <2>. QED  BY <2>2
<1>2. NullLast(t)
  BY <1>1 DEF NullLast
<1>3. HasNull(t) => HasNull(s)
  BY <1>1 DEF HasNull
<1>4. s[1].type = "null" => 1 = Len(s) /\ HasNull(s)
  <2>1. 1 \in 1..Len(s)
    OBVIOUS
  <2>. QED  BY <2>1 DEF NullLast, HasNull
<1>. QED  BY <1>2, <1>3, <1>4

LEMMA TailFacts ==
    ASSUME NEW d, NEW s, Good(s, d), NullLast(s), s # <<>>
    PROVE  /\ Good(Tail(s), d) /\ NullLast(Tail(s))
           /\ Len(Tail(s)) = Len(s) - 1 /\ Len(s) \in Nat
           /\ Head(s) \in Tokens /\ Head(s).doc = d
           /\ HasNull(Tail(s)) => HasNull(s)
           /\ Head(s).type = "null" => Tail(s) = <<>> /\ HasNull(s)
           /\ Tail(s) = <<>> => Len(s) = 1
<1>1. s \in Seq(Tokens) /\ Len(s) \in Nat \ {0}
  BY EmptySeq, LenProperties DEF Good
<1>2. /\ Head(s) \in Tokens /\ Head(s) = s[1] /\ Tail(s) \in Seq(Tokens)
      /\ Len(Tail(s)) = Len(s) - 1
      /\ \A k \in 1..Len(Tail(s)) : Tail(s)[k] = s[k + 1]
  BY <1>1, HeadTailProperties
<1>3. \A k \in 1..Len(Tail(s)) : k + 1 \in 1..Len(s)
  BY <1>1, <1>2
<1>4. Good(Tail(s), d) /\ Head(s).doc = d
  BY <1>1, <1>2, <1>3 DEF Good
<1>5. /\ NullLast(Tail(s)) /\ (HasNull(Tail(s)) => HasNull(s))
      /\ s[1].type = "null" => Len(s) = 1 /\ HasNull(s)
  BY <1>1, <1>2, ShiftFacts
<1>6. Head(s).type = "null" => Len(s) = 1 /\ HasNull(s)
  BY <1>2, <1>5
<1>7. Len(s) = 1 <=> Tail(s) = <<>>
  <2>1. Tail(s) = <<>> => Len(Tail(s)) = 0
    BY EmptySeq
  <2>2. Tail(s) # <<>> => Len(Tail(s)) \in Nat \ {0}
    BY <1>2, EmptySeq
  <2>. QED  BY <1>1, <1>2, <2>1, <2>2
<1>. QED  BY <1>1, <1>2, <1>4, <1>5, <1>6, <1>7

LEMMA AppendFacts ==
    ASSUME NEW d, NEW s, Good(s, d), ~HasNull(s),
           NEW tok \in Tokens, tok.doc = d
    PROVE  /\ Good(Append(s, tok), d) /\ NullLast(Append(s, tok))
           /\ Len(Append(s, tok)) = Len(s) + 1 /\ Len(s) \in Nat
           /\ HasNull(Append(s, tok)) => tok.type = "null"
           /\ Append(s, tok) # <<>>
<1>1. s \in Seq(Tokens) /\ Len(s) \in Nat
  BY LenProperties DEF Good
<1>2. /\ Append(s, tok) \in Seq(Tokens) /\ Len(Append(s, tok)) = Len(s) + 1
      /\ \A k \in 1..Len(s) : Append(s, tok)[k] = s[k]
      /\ Append(s, tok)[Len(s) + 1] = tok /\ Append(s, tok) # <<>>
  BY <1>1, AppendProperties
<1>3. \A k \in 1..Len(s) + 1 : k \in 1..Len(s) \/ k = Len(s) + 1
  BY <1>1
<1>4. Good(Append(s, tok), d)
  BY <1>1, <1>2, <1>3 DEF Good
<1>5. NullLast(Append(s, tok)) /\ (HasNull(Append(s, tok)) => tok.type = "null")
  BY <1>1, <1>2, <1>3 DEF NullLast, HasNull
<1>. QED  BY <1>1, <1>2, <1>4, <1>5

LEMMA OutputFacts ==
    ASSUME NEW tok \in Tokens, NEW out, FromToken(out, tok)
    PROVE  Good(out, tok.doc) /\ ~HasNull(out) /\ NullLast(out)
  BY DEF FromToken, Good, HasNull, NullLast

LEMMA SingleFacts ==
    ASSUME NEW tok \in Tokens
    PROVE  Good(<<tok>>, tok.doc) /\ NullLast(<<tok>>) /\ <<tok>> # <<>>
  BY DEF Good, NullLast
-----------------------------------------------------------------------------
(* One round of a filter.                                                  *)

StateOK(kind, st) ==
    /\ st \in FilterStates /\ (kind # "phrases" => Empty(st))
    /\ st.next \in 1..Len(st.buffer) + 1 /\ st.start \in 1..st.next

LEMMA EmptyIsOK == \A kind, st : Empty(st) => StateOK(kind, st)
  BY DEF Empty, StateOK

\* The tokens a filter makes of one by its Rewrite are of its document.
LEMMA ClonesFacts ==
    ASSUME NEW kind \in Rewriters, NEW tok \in TextTokens
    PROVE  FromToken(Clones(kind, tok), tok)
<1>1. CASE tok.text \in DOMAIN Rewrite[kind]
  <2>. DEFINE texts == Rewrite[kind][tok.text]
  <2>1. texts \in Seq(Texts) /\ Len(texts) \in Nat /\ DOMAIN texts = 1..Len(texts)
    BY <1>1, RewriteAssumption, LenProperties
  <2>2. \A k \in 1..Len(texts) : texts[k] \in Texts
    BY <2>1, ElementOfSeq
  <2>. DEFINE out == [k \in 1..Len(texts) |-> CloneWithText(tok, texts[k])]
  <2>3. \A k \in 1..Len(texts) : out[k] \in TextTokens /\ out[k].doc = tok.doc
    BY <2>2, CloneFacts
  <2>4. out \in Seq(Tokens) /\ Len(out) = Len(texts)
    <3>1. \A k \in 1..Len(texts) : out[k] \in Tokens
      BY <2>3 DEF TextTokens
    <3>2. out \in [1..Len(texts) -> Tokens]
      BY <3>1
    <3>. QED  BY <2>1, <3>2, SeqDef, LenProperties
  <2>5. Clones(kind, tok) = out
    BY <1>1, <2>1 DEF Clones
  <2>6. \A k \in 1..Len(out) : out[k].doc = tok.doc /\ out[k].type = "text"
    BY <2>3, <2>4 DEF TextTokens
  <2>7. FromToken(out, tok)
    <3>. HIDE DEF out
    <3>. QED  BY <2>4, <2>6 DEF FromToken
  <2>. QED  BY <2>5, <2>7
<1>2. CASE tok.text \notin DOMAIN Rewrite[kind]
  BY <1>2, EmptySeq DEF Clones, FromToken
<1>. QED  BY <1>1, <1>2

\* Apply of a filter without state for the next token, and of the date filter.
LEMMA ApplyFacts ==
    ASSUME NEW kind \in Kinds \ {"phrases"}, NEW st, Empty(st), NEW tok \in TextTokens
    PROVE  LET r == Apply(kind, st, tok) IN Empty(r.st) /\ FromToken(r.out, tok)
<1>1. tok \in Tokens /\ tok.text \in Texts /\ tok.type = "text"
  BY DEF TextTokens, Tokens
<1>2. FromToken(<<>>, tok) /\ FromToken(<<tok>>, tok)
  BY <1>1, ShortOutputs
<1>3. \A k \in Rewriters : FromToken(Clones(k, tok), tok)
  BY ClonesFacts
<1>4. CASE kind \in {"digits", "acronyms", "hyphens", "slashes"}
  <2>1. FromToken(Clones(kind, tok), tok)
    BY <1>3, <1>4 DEF Rewriters
  <2>2. Apply(kind, st, tok) = Result(Replace(kind, tok), st)
    BY <1>4 DEF Apply
  <2>. QED  BY <1>2, <2>1, <2>2 DEF Replace, Result
<1>5. CASE kind = "filename"
  <2>1. FromToken(ApplyFilename(tok), tok)
    BY <1>1, <1>2, <1>3, ConcatOutputs DEF Rewriters, ApplyFilename
  <2>. QED  BY <1>5, <2>1 DEF Apply, Result
<1>6. CASE kind = "lower"
  <2>. DEFINE text == IF tok.text \in DOMAIN Rewrite[kind]
                      THEN Rewrite[kind][tok.text][1] ELSE tok.text
  <2>1. text \in Texts
    <3>1. CASE tok.text \in DOMAIN Rewrite[kind]
      <4>1. /\ Rewrite[kind][tok.text] \in Seq(Texts)
            /\ Rewrite[kind][tok.text] # <<>>
        BY <1>6, <3>1, RewriteAssumption DEF Rewriters
      <4>2. Len(Rewrite[kind][tok.text]) \in Nat \ {0}
        BY <4>1, EmptySeq
      <4>. QED  BY <3>1, <4>1, <4>2, ElementOfSeq
    <3>2. CASE tok.text \notin DOMAIN Rewrite[kind]
      BY <1>1, <3>2
    <3>. QED  BY <3>1, <3>2
  <2>2. /\ [tok EXCEPT !.text = text] \in TextTokens
        /\ [tok EXCEPT !.text = text].doc = tok.doc
    <3>. HIDE DEF text
    <3>. QED  BY <2>1 DEF Tokens, TextTokens
  <2>3. FromToken(<<[tok EXCEPT !.text = text]>>, tok)
    <3>. HIDE DEF text
    <3>. QED  BY <1>1, <2>2, ShortOutputs
  <2>4. Apply(kind, st, tok) = Result(<<[tok EXCEPT !.text = text]>>, st)
    BY <1>6 DEF Apply, ApplyLower
  <2>. QED  BY <2>3, <2>4 DEF Result
<1>7. CASE kind = "porter"
  <2>1. FromToken(Clones("porter", tok), tok)
    BY <1>3 DEF Rewriters
  <2>2. FromToken(<<CloneWithText(tok, tok.text)>>, tok)
    BY <1>1, CloneFacts, ShortOutputs
  <2>3. FromToken(ApplyPorter(tok), tok)
    BY <2>1, <2>2 DEF ApplyPorter
  <2>. QED  BY <1>7, <2>3 DEF Apply, Result
<1>8. CASE kind = "dates"
  <2>1. Apply(kind, st, tok) = ApplyDates(st, tok)
    BY <1>8 DEF Apply
  <2>. QED  BY <2>1, DatesFacts
<1>9. CASE kind \in {"stopwords", "null"}
  BY <1>2, <1>9 DEF Apply, ApplyStopWords, Result
<1>. QED  BY <1>4, <1>5, <1>6, <1>7, <1>8, <1>9 DEF Kinds

\* What React leaves: tokens of the document, the Null token last and only
\* from a filter that keeps nothing.
Reaction(kind, out, st, tok, d) ==
    /\ StateOK(kind, st)
    /\ Good(out, d) /\ NullLast(out)
    /\ Good(st.buffer, d) /\ Good(st.ended, d) /\ ~HasNull(st.buffer)
    /\ HasNull(out) => tok.type = "null" /\ st.buffer = <<>> /\ st.ended = <<>>
    /\ st.ended # <<>> => st.ended = <<tok>> /\ tok.type = "null"

LEMMA ReactFacts ==
    ASSUME NEW kind \in Kinds, NEW d, NEW tok \in Tokens, tok.doc = d,
           NEW st, StateOK(kind, st), Good(st.buffer, d), ~HasNull(st.buffer),
           st.ended = <<>>
    PROVE  LET r == React(kind, st, tok) IN Reaction(kind, r.out, r.st, tok, d)
<1>. DEFINE r == React(kind, st, tok)
<1>1. /\ Good(<<>>, d) /\ NullLast(<<>>) /\ ~HasNull(<<>>)
      /\ Good(<<tok>>, d) /\ NullLast(<<tok>>)
  BY EmptyFacts, SingleFacts
<1>2. tok.type \in {"text", "symbol", "null"}
  BY DEF Tokens
<1>3. CASE tok.type = "symbol"
  <2>1. r.out = <<>> /\ r.st = st
    BY <1>3 DEF React, Result
  <2>. QED  BY <1>1, <2>1 DEF Reaction
<1>4. CASE tok.type = "null" /\ kind = "phrases"
  <2>. DEFINE st1 == [st EXCEPT !.ended = <<tok>>]
  <2>1. r.out = <<>> /\ r.st = st1
    BY <1>4 DEF React, Result
  <2>2. /\ st1 \in FilterStates /\ st1.buffer = st.buffer /\ st1.ended = <<tok>>
        /\ st1.next = st.next /\ st1.start = st.start
    BY <1>1 DEF StateOK, FilterStates, Good
  <2>. HIDE DEF st1
  <2>3. StateOK(kind, st1)
    BY <1>4, <2>2 DEF StateOK
  <2>. QED  BY <1>1, <1>4, <2>1, <2>2, <2>3 DEF Reaction
<1>5. CASE tok.type = "null" /\ kind # "phrases"
  <2>1. r.out = <<tok>> /\ r.st = st
    BY <1>5 DEF React, Result
  <2>2. st.buffer = <<>>
    BY <1>5 DEF StateOK, Empty
  <2>. QED  BY <1>1, <1>5, <2>1, <2>2 DEF Reaction
<1>6. CASE tok.type = "text"
  <2>. /\ tok \in TextTokens /\ FromToken(<<tok>>, tok) /\ FromToken(<<>>, tok)
    BY <1>6, ShortOutputs DEF TextTokens
  <2>1. \A out : FromToken(out, tok) => Good(out, d) /\ NullLast(out) /\ ~HasNull(out)
    BY OutputFacts
  <2>2. CASE tok.final /\ kind # "lower"
    <3>1. r.out = <<tok>> /\ r.st = st
      BY <1>6, <2>2 DEF React, Result
    <3>. QED  BY <1>1, <2>1, <3>1 DEF Reaction
  <2>3. CASE ~(tok.final /\ kind # "lower") /\ kind # "phrases"
    <3>1. r = Apply(kind, st, tok)
      BY <1>6, <2>3 DEF React
    <3>2. Empty(st)
      BY <2>3 DEF StateOK
    <3>3. Empty(r.st) /\ FromToken(r.out, tok)
      BY <2>3, <3>1, <3>2, ApplyFacts
    <3>4. StateOK(kind, r.st) /\ r.st.buffer = <<>> /\ r.st.ended = <<>>
      BY <3>3, EmptyIsOK DEF Empty
    <3>. QED  BY <1>1, <2>1, <3>3, <3>4 DEF Reaction
  <2>4. CASE ~(tok.final /\ kind # "lower") /\ kind = "phrases"
    <3>. DEFINE st1 == [st EXCEPT !.buffer = Append(st.buffer, tok)]
    <3>1. r.out = <<>> /\ r.st = st1
      BY <1>6, <2>4 DEF React, Apply, ApplyPhrases, Result
    <3>2. /\ Good(Append(st.buffer, tok), d) /\ ~HasNull(Append(st.buffer, tok))
          /\ Len(Append(st.buffer, tok)) = Len(st.buffer) + 1 /\ Len(st.buffer) \in Nat
      BY <1>6, AppendFacts
    <3>3. /\ st1 \in FilterStates /\ st1.buffer = Append(st.buffer, tok)
          /\ st1.ended = <<>> /\ st1.next = st.next /\ st1.start = st.start
      BY <3>2 DEF StateOK, FilterStates, Good
    <3>. HIDE DEF st1
    <3>4. StateOK(kind, st1)
      BY <2>4, <3>2, <3>3 DEF StateOK
    <3>. QED  BY <1>1, <3>1, <3>2, <3>3, <3>4 DEF Reaction
  <2>. QED  BY <2>2, <2>3, <2>4
<1>. QED  BY <1>2, <1>3, <1>4, <1>5, <1>6

\* makePhrase of a run of the buffer: a text token of its first term's document.
LEMMA MakePhraseType ==
    ASSUME NEW terms \in Seq(Tokens), terms # <<>>
    PROVE  /\ MakePhrase(terms) \in TextTokens
           /\ MakePhrase(terms).doc = terms[1].doc /\ 1 \in 1..Len(terms)
<1>1. /\ Len(terms) \in Nat \ {0}
      /\ \A k \in 1..Len(terms) : terms[k] \in Tokens
  BY EmptySeq, ElementOfSeq
<1>. DEFINE text == [k \in 1..Len(terms) |-> terms[k].text[1]]
<1>2. \A k \in 1..Len(terms) : terms[k].text[1] \in Words
  <2>1. \A w \in Texts : w[1] \in Words
    BY DEF Texts
  <2>. QED  BY <1>1, <2>1 DEF Tokens
<1>3. text \in [1..Len(terms) -> Words]
  BY <1>2
<1>4. text \in Seq(Words)
  BY <1>1, <1>3, SeqDef
<1>5. text # <<>>
  BY <1>1
<1>. HIDE DEF text
<1>6. text \in Texts
  BY <1>4, <1>5 DEF Texts
<1>7. terms[1] \in Tokens /\ 1 \in 1..Len(terms)
  BY <1>1
<1>8. MakePhrase(terms) = [doc |-> terms[1].doc, text |-> text, type |-> "text",
                           phrase |-> 0, final |-> TRUE]
  BY DEF MakePhrase, text
<1>9. terms[1].doc \in Nat
  BY <1>7 DEF Tokens
<1>. QED  BY <1>6, <1>7, <1>8, <1>9 DEF Tokens, TextTokens

LEMMA MakePhraseFacts ==
    ASSUME NEW d, NEW terms, Good(terms, d), terms # <<>>
    PROVE  /\ MakePhrase(terms) \in TextTokens /\ MakePhrase(terms).doc = d
  BY MakePhraseType DEF Good

\* What a round of NotifyDocComplete leaves.
Flushed(kind, out, st, old, d) ==
    /\ StateOK(kind, st)
    /\ Good(out, d) /\ NullLast(out) /\ Good(st.buffer, d) /\ ~HasNull(st.buffer)
    /\ \/ ~HasNull(out) /\ st.ended = old.ended
       \/ out = old.ended /\ st = Fresh

LEMMA FlushFacts ==
    ASSUME NEW kind \in Kinds, NEW d, NEW st, StateOK(kind, st),
           Good(st.buffer, d), ~HasNull(st.buffer), Good(st.ended, d), NullLast(st.ended),
           st.ended # <<>>
    PROVE  LET r == Flush(st) IN Flushed(kind, r.out, r.st, st, d)
<1>. DEFINE r == Flush(st)
<1>1. kind = "phrases" /\ st \in FilterStates
  BY DEF StateOK, Empty
<1>2. CASE st.next > Len(st.buffer)
  <2>1. r.out = st.ended /\ r.st = Fresh
    BY <1>1, <1>2 DEF Flush, Result, StateOK
  <2>2. StateOK(kind, Fresh) /\ Fresh.buffer = <<>>
    BY FreshFacts, EmptyIsOK DEF Fresh
  <2>. QED  BY <2>1, <2>2, EmptyFacts DEF Flushed
<1>3. CASE st.next <= Len(st.buffer)
  <2>. DEFINE tok == st.buffer[st.next]
              terms == SubSeq(st.buffer, st.start, st.next - 1)
              stops == tok.text \in Frequent(st.buffer)
              differs == ~stops /\ terms # <<>> /\ terms[1].phrase # tok.phrase
              full == ~stops /\ ~differs /\ Len(terms) >= PhraseLen
              sends == terms # <<>> /\ (stops \/ differs \/ full)
              begin == CASE stops -> st.next + 1
                         [] differs -> st.next
                         [] full -> st.start + 1
                         [] OTHER -> st.start
              st1 == [st EXCEPT !.next = st.next + 1, !.start = begin]
  <2>1. /\ r.out = IF sends THEN <<MakePhrase(terms)>> ELSE <<>>
        /\ r.st = st1
    BY <1>1, <1>3 DEF Flush, Visit, Result
  <2>2. /\ st.next \in Nat \ {0} /\ st.start \in Nat \ {0} /\ st.start <= st.next
        /\ st.next <= Len(st.buffer) /\ Len(st.buffer) \in Nat
        /\ st.buffer \in Seq(Tokens)
    BY <1>1, <1>3, LenProperties DEF StateOK, Good
  <2>3. Good(terms, d) /\ Len(terms) = st.next - st.start
    <3>1. \A i \in st.start .. st.next - 1 : i \in 1..Len(st.buffer)
      BY <2>2
    <3>2. \A i \in st.start .. st.next - 1 : st.buffer[i] \in Tokens
      BY <2>2, <3>1, ElementOfSeq
    <3>3. /\ terms \in Seq(Tokens)
          /\ Len(terms) = IF st.start <= st.next - 1 THEN st.next - 1 - st.start + 1 ELSE 0
          /\ \A i \in 1 .. st.next - 1 - st.start + 1 :
                terms[i] = st.buffer[st.start + i - 1]
      <4>. DEFINE s == st.buffer
                  a == st.start
                  b == st.next - 1
      <4>1. s \in Seq(Tokens) /\ a \in Int /\ b \in Int
        BY <2>2
      <4>2. \A i \in a..b : s[i] \in Tokens
        BY <3>2
      <4>. HIDE DEF s, a, b
      <4>3. /\ SubSeq(s, a, b) \in Seq(Tokens)
            /\ Len(SubSeq(s, a, b)) = IF a <= b THEN b - a + 1 ELSE 0
            /\ \A i \in 1..b - a + 1 : SubSeq(s, a, b)[i] = s[a + i - 1]
        BY <4>1, <4>2, SubSeqProperties
      <4>. QED  BY <4>3 DEF s, a, b
    <3>4. \A i \in 1 .. st.next - 1 - st.start + 1 :
            st.start + i - 1 \in 1..Len(st.buffer)
      BY <2>2
    <3>5. Len(terms) = st.next - st.start
      BY <2>2, <3>3
    <3>6. ASSUME NEW i \in 1..Len(terms)
          PROVE  terms[i].doc = d
      <4>1. i \in 1 .. st.next - 1 - st.start + 1
        BY <2>2, <3>5
      <4>2. terms[i] = st.buffer[st.start + i - 1]
        BY <3>3, <4>1
      <4>3. st.start + i - 1 \in 1..Len(st.buffer)
        BY <3>4, <4>1
      <4>4. st.buffer[st.start + i - 1].doc = d
        BY <1>1, <4>3 DEF StateOK, Good
      <4>. HIDE DEF terms
      <4>. QED  BY <4>2, <4>4
    <3>. HIDE DEF terms
    <3>. QED  BY <3>3, <3>5, <3>6 DEF Good
  <2>4. begin \in 1..st.next + 1
    <3>1. full => st.start + 1 <= st.next + 1
      BY <2>2
    <3>. HIDE DEF stops, differs, full
    <3>. QED  BY <2>2, <3>1
  <2>5. /\ Good(r.out, d) /\ NullLast(r.out) /\ ~HasNull(r.out)
    <3>1. CASE sends
      <4>1. terms # <<>>
        BY <3>1
      <4>2. MakePhrase(terms) \in TextTokens /\ MakePhrase(terms).doc = d
        <5>. HIDE DEF terms
        <5>. QED  BY <2>3, <4>1, MakePhraseFacts
      <4>3. r.out = <<MakePhrase(terms)>>
        BY <2>1, <3>1
      <4>. DEFINE p == MakePhrase(terms)
      <4>4. p \in Tokens /\ p.doc = d /\ p.type # "null"
        BY <4>2 DEF TextTokens
      <4>. HIDE DEF p
      <4>5. <<p>> \in Seq(Tokens) /\ Len(<<p>>) = 1 /\ <<p>>[1] = p
        BY <4>4
      <4>6. Good(<<p>>, d) /\ NullLast(<<p>>) /\ ~HasNull(<<p>>)
        BY <4>4, <4>5 DEF Good, NullLast, HasNull
      <4>. QED  BY <4>3, <4>6 DEF p
    <3>2. CASE ~sends
      <4>1. r.out = <<>>
        BY <2>1, <3>2
      <4>. QED  BY <4>1, EmptyFacts
    <3>. QED  BY <3>1, <3>2
  <2>6. /\ st1 \in FilterStates /\ st1.buffer = st.buffer /\ st1.ended = st.ended
        /\ st1.next = st.next + 1 /\ st1.start = begin
    <3>. HIDE DEF begin
    <3>1. begin \in Nat
      BY <2>4
    <3>2. st.next + 1 \in Nat
      BY <2>2
    <3>3. \A n, m \in Nat :
             LET new == [st EXCEPT !.next = n, !.start = m]
             IN  /\ new \in FilterStates /\ new.buffer = st.buffer
                 /\ new.ended = st.ended /\ new.next = n /\ new.start = m
      BY <1>1 DEF FilterStates
    <3>. QED  BY <3>1, <3>2, <3>3
  <2>. HIDE DEF st1, begin, sends, r
  <2>7. StateOK(kind, st1)
    BY <1>1, <2>2, <2>4, <2>6 DEF StateOK
  <2>. QED  BY <2>1, <2>5, <2>6, <2>7 DEF Flushed, r
<1>4. st.next \in Int /\ Len(st.buffer) \in Int
  BY LenProperties DEF StateOK, Good
<1>. QED  BY <1>2, <1>3, <1>4

-----------------------------------------------------------------------------
(* The chain's invariant.                                                  *)

\* The tokens of a place are document d's, and its Null token has nothing
\* behind it.
PipeOK(i, d) ==
    /\ Good(pipe[i], d) /\ NullLast(pipe[i])
    /\ HasNull(pipe[i]) => Before(i)
HeldOK(i, d) ==
    /\ Good(held[i], d) /\ NullLast(held[i])
    /\ HasNull(held[i]) => /\ Before(i - 1) /\ pipe[i - 1] = <<>>
                           /\ fstate[i].buffer = <<>> /\ fstate[i].ended = <<>>
FilterOK(i, d) ==
    /\ StateOK(Filter[i], fstate[i])
    /\ Good(fstate[i].buffer, d) /\ ~HasNull(fstate[i].buffer)
    /\ Good(fstate[i].ended, d) /\ NullLast(fstate[i].ended)
    /\ fstate[i].ended # <<>> => Before(i - 1) /\ pipe[i - 1] = <<>>

ChainInv(d) ==
    /\ ChainTypeOK
    /\ \A i \in 0..N : PipeOK(i, d)
    /\ \A i \in 1..N : HeldOK(i, d) /\ FilterOK(i, d)
    /\ Good(toPush, d) /\ NullLast(toPush)

LEMMA ChainConstants ==
    /\ N \in Nat \ {0} /\ Filter \in Seq(Kinds) /\ \A i \in 1..N : Filter[i] \in Kinds
    /\ Capacity \in Nat \ {0}
<1>1. Filter \in Seq(Kinds) /\ Filter # <<>>
  <2>1. CASE Chain = <<>>
    BY <2>1 DEF Filter, Kinds
  <2>2. CASE Chain # <<>>
    BY <2>2, ChainAssumption DEF Filter
  <2>. QED  BY <2>1, <2>2
<1>2. N \in Nat \ {0}
  BY <1>1, EmptySeq DEF N
<1>3. \A i \in 1..N : Filter[i] \in Kinds
  BY <1>1, ElementOfSeq DEF N
<1>. QED  BY <1>1, <1>2, <1>3, CapacityAssumption

\* What a filter leaves when it reads a token.
LEMMA ReadChain ==
    ASSUME NEW d, ChainInv(d), NEW i \in 1..N, ReadToken(i)
    PROVE  /\ ChainInv(d)' /\ ~Idle
           /\ \A j \in 0..N : Len(pipe'[j]) \in Nat /\ Len(pipe'[j]) <= Len(pipe[j])
<1>. DEFINE tok == Head(pipe[i - 1])
            r == React(Filter[i], fstate[i], tok)
<1>1. /\ i - 1 \in 0..N /\ N \in Nat /\ i \in Nat /\ Filter[i] \in Kinds
      /\ pipe[i - 1] # <<>> /\ held[i] = <<>> /\ fstate[i].ended = <<>>
      /\ PipeOK(i - 1, d) /\ HeldOK(i, d) /\ FilterOK(i, d)
  BY ChainConstants DEF ChainInv, ReadToken
<1>2. /\ Good(Tail(pipe[i - 1]), d) /\ NullLast(Tail(pipe[i - 1]))
      /\ Len(Tail(pipe[i - 1])) = Len(pipe[i - 1]) - 1 /\ Len(pipe[i - 1]) \in Nat
      /\ tok \in Tokens /\ tok.doc = d
      /\ HasNull(Tail(pipe[i - 1])) => HasNull(pipe[i - 1])
      /\ tok.type = "null" => Tail(pipe[i - 1]) = <<>> /\ HasNull(pipe[i - 1])
  BY <1>1, TailFacts DEF PipeOK
<1>3. Reaction(Filter[i], r.out, r.st, tok, d)
  BY <1>1, <1>2, ReactFacts DEF FilterOK
<1>4. /\ DOMAIN pipe = 0..N /\ DOMAIN held = 1..N /\ DOMAIN fstate = 1..N
      /\ toPush' = toPush
  BY DEF ChainInv, ChainTypeOK, ReadToken
<1>5. /\ pipe' = [pipe EXCEPT ![i - 1] = Tail(pipe[i - 1])]
      /\ held' = [held EXCEPT ![i] = r.out]
      /\ fstate' = [fstate EXCEPT ![i] = r.st]
  BY DEF ReadToken
<1>. HIDE DEF r, tok
<1>6. /\ pipe'[i - 1] = Tail(pipe[i - 1]) /\ held'[i] = r.out /\ fstate'[i] = r.st
      /\ \A j \in 0..N : j # i - 1 => pipe'[j] = pipe[j]
      /\ \A j \in 1..N : j # i => held'[j] = held[j] /\ fstate'[j] = fstate[j]
  BY <1>1, <1>4, <1>5
<1>7. \A j \in 0..i - 1 : Before(j) => Before(j)'
  BY <1>1, <1>4, <1>6 DEF Before, Quiet
<1>8. \A j \in i..N : ~Before(j)
  BY <1>1 DEF Before
<1>9. ASSUME NEW j \in 0..N PROVE PipeOK(j, d)'
  <2>1. CASE j = i - 1
    <3>1. HasNull(Tail(pipe[i - 1])) => Before(i - 1)'
      BY <1>1, <1>2, <1>7 DEF PipeOK
    <3>. QED  BY <1>2, <1>4, <1>6, <2>1, <3>1 DEF PipeOK
  <2>2. CASE j # i - 1
    BY <1>1, <1>4, <1>6, <1>7, <1>8, <2>2 DEF PipeOK, ChainInv
  <2>. QED  BY <2>1, <2>2
<1>10. ASSUME NEW j \in 1..N PROVE HeldOK(j, d)'
  <2>1. CASE j = i
    <3>1. HasNull(r.out) => Before(i - 1)' /\ pipe'[i - 1] = <<>>
      BY <1>1, <1>2, <1>3, <1>6, <1>7 DEF Reaction, PipeOK
    <3>. QED  BY <1>3, <1>4, <1>6, <2>1, <3>1 DEF HeldOK, Reaction
  <2>2. CASE j # i
    <3>1. HeldOK(j, d) /\ j - 1 \in 0..N
      BY <1>1 DEF ChainInv
    <3>2. CASE j < i
      BY <1>1, <1>4, <1>6, <1>7, <2>2, <3>1, <3>2 DEF HeldOK
    <3>3. CASE j > i
      BY <1>1, <1>4, <1>6, <1>8, <2>2, <3>1, <3>3 DEF HeldOK
    <3>. QED  BY <1>1, <2>2, <3>2, <3>3
  <2>. QED  BY <2>1, <2>2
<1>11. ASSUME NEW j \in 1..N PROVE FilterOK(j, d)'
  <2>1. CASE j = i
    <3>1. r.st.ended # <<>> => Before(i - 1)' /\ pipe'[i - 1] = <<>>
      BY <1>1, <1>2, <1>3, <1>6, <1>7 DEF Reaction, PipeOK
    <3>2. NullLast(r.st.ended)
      <4>1. r.st.ended = <<>> \/ r.st.ended = <<tok>>
        BY <1>3 DEF Reaction
      <4>. QED  BY <1>2, <4>1, EmptyFacts, SingleFacts
    <3>. QED  BY <1>3, <1>4, <1>6, <2>1, <3>1, <3>2 DEF FilterOK, Reaction
  <2>2. CASE j # i
    <3>1. FilterOK(j, d) /\ j - 1 \in 0..N
      BY <1>1 DEF ChainInv
    <3>2. CASE j < i
      BY <1>1, <1>4, <1>6, <1>7, <2>2, <3>1, <3>2 DEF FilterOK
    <3>3. CASE j > i
      BY <1>1, <1>4, <1>6, <1>8, <2>2, <3>1, <3>3 DEF FilterOK
    <3>. QED  BY <1>1, <2>2, <3>2, <3>3
  <2>. QED  BY <2>1, <2>2
<1>12. ChainTypeOK'
  <2>1. /\ Tail(pipe[i - 1]) \in Seq(Tokens) /\ r.out \in Seq(Tokens)
        /\ r.st \in FilterStates
    BY <1>2, <1>3 DEF Good, Reaction, StateOK
  <2>. QED  BY <1>1, <1>4, <1>5, <2>1 DEF ChainInv, ChainTypeOK
<1>13. ChainInv(d)'
  BY <1>4, <1>9, <1>10, <1>11, <1>12 DEF ChainInv
<1>14. ~Idle
  BY <1>1, <1>8 DEF Idle
<1>15. ASSUME NEW j \in 0..N
       PROVE  Len(pipe'[j]) \in Nat /\ Len(pipe'[j]) <= Len(pipe[j])
  <2>1. pipe[j] \in Seq(Tokens) /\ Len(pipe[j]) \in Nat /\ Len(pipe'[j]) \in Nat
    BY <1>12, LenProperties DEF ChainInv, ChainTypeOK
  <2>2. CASE j # i - 1
    BY <1>6, <2>1, <2>2
  <2>3. CASE j = i - 1
    <3>1. Len(pipe'[j]) = Len(Tail(pipe[i - 1])) /\ Len(pipe[j]) = Len(pipe[i - 1])
      BY <1>6, <2>3
    <3>. QED  BY <1>2, <2>1, <3>1
  <2>. QED  BY <2>1, <2>2, <2>3
<1>. QED  BY <1>13, <1>14, <1>15

\* A round of NotifyDocComplete.
LEMMA NotifyChain ==
    ASSUME NEW d, ChainInv(d), NEW i \in 1..N, NotifyRound(i)
    PROVE  ChainInv(d)' /\ ~Idle /\ pipe' = pipe
<1>. DEFINE r == Flush(fstate[i])
<1>1. /\ i - 1 \in 0..N /\ N \in Nat /\ i \in Nat /\ Filter[i] \in Kinds
      /\ held[i] = <<>> /\ fstate[i].ended # <<>> /\ FilterOK(i, d)
      /\ Before(i - 1) /\ pipe[i - 1] = <<>>
  BY ChainConstants DEF ChainInv, NotifyRound, FilterOK
<1>2. Flushed(Filter[i], r.out, r.st, fstate[i], d)
  BY <1>1, FlushFacts DEF FilterOK
<1>3. /\ DOMAIN held = 1..N /\ DOMAIN fstate = 1..N /\ pipe' = pipe /\ toPush' = toPush
  BY DEF ChainInv, ChainTypeOK, NotifyRound
<1>4. held' = [held EXCEPT ![i] = r.out] /\ fstate' = [fstate EXCEPT ![i] = r.st]
  BY DEF NotifyRound
<1>. HIDE DEF r
<1>5. /\ held'[i] = r.out /\ fstate'[i] = r.st
      /\ \A j \in 1..N : j # i => held'[j] = held[j] /\ fstate'[j] = fstate[j]
  BY <1>1, <1>3, <1>4
<1>6. \A j \in 0..i - 1 : Before(j) => Before(j)'
  BY <1>1, <1>3, <1>5 DEF Before, Quiet
<1>7. \A j \in i..N : ~Before(j)
  BY <1>1 DEF Before, Quiet
<1>8. Before(i - 1)' /\ pipe'[i - 1] = <<>>
  BY <1>1, <1>3, <1>6
<1>9. ASSUME NEW j \in 0..N PROVE PipeOK(j, d)'
  BY <1>1, <1>3, <1>6, <1>7 DEF PipeOK, ChainInv
<1>10. ASSUME NEW j \in 1..N PROVE HeldOK(j, d)' /\ FilterOK(j, d)'
  <2>1. CASE j = i
    <3>1. CASE ~HasNull(r.out) /\ r.st.ended = fstate[i].ended
      <4>1. HeldOK(j, d)'
        BY <1>2, <1>3, <1>5, <2>1, <3>1 DEF HeldOK, Flushed
      <4>2. FilterOK(j, d)'
        BY <1>1, <1>2, <1>3, <1>5, <1>8, <2>1, <3>1 DEF FilterOK, Flushed
      <4>. QED  BY <4>1, <4>2
    <3>2. CASE r.out = fstate[i].ended /\ r.st = Fresh
      <4>1. Fresh.buffer = <<>> /\ Fresh.ended = <<>>
        BY DEF Fresh
      <4>2. HeldOK(j, d)'
        BY <1>2, <1>3, <1>5, <1>8, <2>1, <3>2, <4>1 DEF HeldOK, Flushed
      <4>3. FilterOK(j, d)'
        BY <1>2, <1>3, <1>5, <2>1, <3>2, <4>1, EmptyFacts DEF FilterOK, Flushed
      <4>. QED  BY <4>2, <4>3
    <3>. QED  BY <1>2, <3>1, <3>2 DEF Flushed
  <2>2. CASE j # i
    <3>1. HeldOK(j, d) /\ FilterOK(j, d) /\ j - 1 \in 0..N
      BY <1>1 DEF ChainInv
    <3>2. CASE j < i
      BY <1>1, <1>3, <1>5, <1>6, <2>2, <3>1, <3>2 DEF HeldOK, FilterOK
    <3>3. CASE j > i
      BY <1>1, <1>3, <1>5, <1>7, <2>2, <3>1, <3>3 DEF HeldOK, FilterOK
    <3>. QED  BY <1>1, <2>2, <3>2, <3>3
  <2>. QED  BY <2>1, <2>2
<1>11. ChainTypeOK'
  <2>1. r.out \in Seq(Tokens) /\ r.st \in FilterStates
    BY <1>2 DEF Good, Flushed, StateOK
  <2>. QED  BY <1>1, <1>3, <1>4, <2>1 DEF ChainInv, ChainTypeOK
<1>12. ChainInv(d)'
  BY <1>3, <1>9, <1>10, <1>11 DEF ChainInv
<1>. QED  BY <1>1, <1>3, <1>7, <1>12 DEF Idle

\* Send: a token moves from filter i to the pipe behind it.
LEMMA SendChain ==
    ASSUME NEW d, ChainInv(d), NEW i \in 1..N, SendToken(i)
    PROVE  /\ ChainInv(d)' /\ ~Idle
           /\ \A j \in 0..N : pipe'[j] = pipe[j] \/ (j = i /\ Len(pipe'[j]) <= Capacity)
<1>. DEFINE tok == Head(held[i])
<1>1. /\ i \in 0..N /\ i - 1 \in 0..N /\ N \in Nat /\ i \in Nat
      /\ held[i] # <<>> /\ PipeOK(i, d) /\ HeldOK(i, d) /\ Len(pipe[i]) < Capacity
  BY ChainConstants DEF ChainInv, SendToken
<1>2. /\ Good(Tail(held[i]), d) /\ NullLast(Tail(held[i]))
      /\ tok \in Tokens /\ tok.doc = d
      /\ HasNull(Tail(held[i])) => HasNull(held[i])
      /\ tok.type = "null" => Tail(held[i]) = <<>> /\ HasNull(held[i])
  BY <1>1, TailFacts DEF HeldOK
<1>3. \A j \in i..N : ~Before(j)
  BY <1>1 DEF Before, Quiet
<1>4. /\ ~HasNull(pipe[i]) /\ Good(Append(pipe[i], tok), d) /\ NullLast(Append(pipe[i], tok))
      /\ HasNull(Append(pipe[i], tok)) => tok.type = "null"
      /\ Len(Append(pipe[i], tok)) = Len(pipe[i]) + 1 /\ Len(pipe[i]) \in Nat
  <2>1. ~HasNull(pipe[i]) /\ Good(pipe[i], d)
    BY <1>1, <1>3 DEF PipeOK
  <2>. QED  BY <1>2, <2>1, AppendFacts
<1>5. /\ DOMAIN pipe = 0..N /\ DOMAIN held = 1..N /\ fstate' = fstate /\ toPush' = toPush
  BY DEF ChainInv, ChainTypeOK, SendToken
<1>6. /\ pipe' = [pipe EXCEPT ![i] = Append(pipe[i], tok)]
      /\ held' = [held EXCEPT ![i] = Tail(held[i])]
  BY DEF SendToken
<1>7. /\ pipe'[i] = Append(pipe[i], tok) /\ held'[i] = Tail(held[i])
      /\ \A j \in 0..N : j # i => pipe'[j] = pipe[j]
      /\ \A j \in 1..N : j # i => held'[j] = held[j]
  BY <1>1, <1>5, <1>6
<1>. HIDE DEF tok
<1>8. \A j \in 0..i - 1 : Before(j) => Before(j)'
  BY <1>1, <1>5, <1>7 DEF Before, Quiet
<1>9. ASSUME NEW j \in 0..N PROVE PipeOK(j, d)'
  <2>1. CASE j = i
    <3>1. ASSUME tok.type = "null" PROVE Before(i)'
      <4>1. /\ Before(i - 1) /\ pipe[i - 1] = <<>> /\ Tail(held[i]) = <<>>
            /\ fstate[i].buffer = <<>> /\ fstate[i].ended = <<>>
        BY <1>1, <1>2, <3>1 DEF HeldOK
      <4>2. Before(i - 1)' /\ pipe'[i - 1] = <<>> /\ Quiet(i)'
        BY <1>1, <1>5, <1>7, <1>8, <4>1 DEF Quiet
      <4>3. \A k \in 1..i : k \in 1..i - 1 \/ k = i
        BY <1>1
      <4>. QED  BY <4>2, <4>3 DEF Before
    <3>. QED  BY <1>4, <1>5, <1>7, <2>1, <3>1 DEF PipeOK
  <2>2. CASE j # i
    BY <1>1, <1>3, <1>5, <1>7, <1>8, <2>2 DEF PipeOK, ChainInv
  <2>. QED  BY <2>1, <2>2
<1>10. ASSUME NEW j \in 1..N PROVE HeldOK(j, d)' /\ FilterOK(j, d)'
  <2>1. HeldOK(j, d) /\ FilterOK(j, d) /\ j - 1 \in 0..N
    BY <1>1 DEF ChainInv
  <2>2. CASE j = i
    <3>1. HasNull(Tail(held[i])) => Before(i - 1)' /\ pipe'[i - 1] = <<>>
      BY <1>1, <1>2, <1>7, <1>8 DEF HeldOK
    <3>2. HeldOK(j, d)'
      BY <1>1, <1>2, <1>5, <1>7, <2>2, <3>1 DEF HeldOK
    <3>3. FilterOK(j, d)'
      BY <1>1, <1>5, <1>7, <1>8, <2>1, <2>2 DEF FilterOK
    <3>. QED  BY <3>2, <3>3
  <2>3. CASE j < i
    BY <1>1, <1>5, <1>7, <1>8, <2>1, <2>3 DEF HeldOK, FilterOK
  <2>4. CASE j > i
    <3>1. ~HasNull(held[j]) /\ fstate[j].ended = <<>>
      BY <1>1, <1>3, <2>1, <2>4 DEF HeldOK, FilterOK
    <3>. QED  BY <1>5, <1>7, <2>1, <2>4, <3>1 DEF HeldOK, FilterOK
  <2>. QED  BY <1>1, <2>2, <2>3, <2>4
<1>11. ChainTypeOK'
  <2>1. Tail(held[i]) \in Seq(Tokens) /\ Append(pipe[i], tok) \in Seq(Tokens)
    BY <1>2, <1>4 DEF Good
  <2>. QED  BY <1>1, <1>5, <1>6, <2>1 DEF ChainInv, ChainTypeOK
<1>12. ChainInv(d)'
  BY <1>5, <1>9, <1>10, <1>11 DEF ChainInv
<1>13. Len(pipe'[i]) <= Capacity
  BY <1>1, <1>4, <1>7, ChainConstants
<1>. QED  BY <1>1, <1>3, <1>7, <1>12, <1>13 DEF Idle

\* A last filter without an output drops what it holds.
LEMMA DropChain ==
    ASSUME NEW d, ChainInv(d), DropHeld
    PROVE  ChainInv(d)' /\ ~Idle /\ pipe' = pipe
<1>1. /\ N \in 1..N /\ N - 1 \in 0..N /\ N \in Nat /\ held[N] # <<>>
      /\ DOMAIN held = 1..N /\ pipe' = pipe /\ fstate' = fstate /\ toPush' = toPush
  BY ChainConstants DEF ChainInv, ChainTypeOK, DropHeld
<1>2. /\ held'[N] = <<>> /\ \A j \in 1..N : j # N => held'[j] = held[j]
      /\ held' = [held EXCEPT ![N] = <<>>]
  BY <1>1 DEF DropHeld
<1>3. \A j \in 0..N - 1 : Before(j) => Before(j)'
  BY <1>1, <1>2 DEF Before, Quiet
<1>4. ~Before(N)
  BY <1>1 DEF Before, Quiet
<1>5. ASSUME NEW j \in 0..N PROVE PipeOK(j, d)'
  BY <1>1, <1>3, <1>4 DEF PipeOK, ChainInv
<1>6. ASSUME NEW j \in 1..N PROVE HeldOK(j, d)' /\ FilterOK(j, d)'
  <2>1. HeldOK(j, d) /\ FilterOK(j, d) /\ j - 1 \in 0..N - 1
    BY <1>1 DEF ChainInv
  <2>2. FilterOK(j, d)'
    BY <1>1, <1>3, <2>1 DEF FilterOK
  <2>3. HeldOK(j, d)'
    <3>1. CASE j = N
      BY <1>2, <3>1, EmptyFacts DEF HeldOK
    <3>2. CASE j # N
      BY <1>1, <1>2, <1>3, <2>1, <3>2 DEF HeldOK
    <3>. QED  BY <3>1, <3>2
  <2>. QED  BY <2>2, <2>3
<1>7. ChainTypeOK'
  BY <1>1, <1>2, EmptySeq DEF ChainInv, ChainTypeOK
<1>8. ChainInv(d)'
  BY <1>1, <1>5, <1>6, <1>7 DEF ChainInv
<1>. QED  BY <1>1, <1>4, <1>8 DEF Idle

\* The next token of the document goes into the first filter's pipe.
LEMMA PushChain ==
    ASSUME NEW d, ChainInv(d), NEW capacity \in Nat, PushToken(capacity)
    PROVE  /\ ChainInv(d)' /\ ~Idle
           /\ \A j \in 0..N : pipe'[j] = pipe[j] \/ (j = 0 /\ Len(pipe'[j]) <= capacity)
<1>. DEFINE tok == Head(toPush)
<1>1. /\ 0 \in 0..N /\ N \in Nat /\ toPush # <<>> /\ Good(toPush, d) /\ NullLast(toPush)
      /\ PipeOK(0, d) /\ Len(pipe[0]) < capacity
  BY ChainConstants DEF ChainInv, PushToken
<1>2. /\ Good(Tail(toPush), d) /\ NullLast(Tail(toPush)) /\ tok \in Tokens /\ tok.doc = d
      /\ tok.type = "null" => Tail(toPush) = <<>>
  BY <1>1, TailFacts
<1>3. \A j \in 0..N : ~Before(j)
  BY <1>1 DEF Before
<1>4. /\ Good(Append(pipe[0], tok), d) /\ NullLast(Append(pipe[0], tok))
      /\ HasNull(Append(pipe[0], tok)) => tok.type = "null"
      /\ Len(Append(pipe[0], tok)) = Len(pipe[0]) + 1 /\ Len(pipe[0]) \in Nat
  <2>1. ~HasNull(pipe[0]) /\ Good(pipe[0], d)
    BY <1>1, <1>3 DEF PipeOK
  <2>. QED  BY <1>2, <2>1, AppendFacts
<1>5. /\ DOMAIN pipe = 0..N /\ held' = held /\ fstate' = fstate /\ toPush' = Tail(toPush)
      /\ pipe' = [pipe EXCEPT ![0] = Append(pipe[0], tok)]
  BY DEF ChainInv, ChainTypeOK, PushToken
<1>6. /\ pipe'[0] = Append(pipe[0], tok)
      /\ \A j \in 0..N : j # 0 => pipe'[j] = pipe[j]
  BY <1>1, <1>5
<1>. HIDE DEF tok
<1>7. ASSUME NEW j \in 0..N PROVE PipeOK(j, d)'
  <2>1. CASE j = 0
    <3>1. tok.type = "null" => Before(0)'
      BY <1>2, <1>5 DEF Before
    <3>. QED  BY <1>4, <1>5, <1>6, <2>1, <3>1 DEF PipeOK
  <2>2. CASE j # 0
    BY <1>3, <1>5, <1>6, <2>2 DEF PipeOK, ChainInv
  <2>. QED  BY <2>1, <2>2
<1>8. ASSUME NEW j \in 1..N PROVE HeldOK(j, d)' /\ FilterOK(j, d)'
  <2>1. HeldOK(j, d) /\ FilterOK(j, d) /\ j - 1 \in 0..N
    BY <1>1 DEF ChainInv
  <2>2. ~HasNull(held[j]) /\ fstate[j].ended = <<>>
    BY <1>3, <2>1 DEF HeldOK, FilterOK
  <2>. QED  BY <1>5, <2>1, <2>2 DEF HeldOK, FilterOK
<1>9. ChainTypeOK'
  <2>1. Tail(toPush) \in Seq(Tokens) /\ Append(pipe[0], tok) \in Seq(Tokens)
    BY <1>2, <1>4 DEF Good
  <2>. QED  BY <1>1, <1>5, <2>1 DEF ChainInv, ChainTypeOK
<1>10. ChainInv(d)'
  BY <1>2, <1>5, <1>7, <1>8, <1>9 DEF ChainInv
<1>11. Len(pipe'[0]) <= capacity
  BY <1>1, <1>4, <1>6
<1>. QED  BY <1>1, <1>3, <1>6, <1>10, <1>11 DEF Idle

\* What comes out of the chain: the Null token only when all of it is idle.
LEMMA ArrivedChain ==
    ASSUME NEW d, ChainInv(d), TakeArrived
    PROVE  /\ ChainInv(d)' /\ ~Idle
           /\ Arrived \in Tokens /\ Arrived.doc = d
           /\ Arrived.type = "null" => Idle'
           /\ \A j \in 0..N : Len(pipe'[j]) \in Nat /\ Len(pipe'[j]) <= Len(pipe[j])
<1>1. /\ N \in 0..N /\ N \in Nat /\ pipe[N] # <<>> /\ PipeOK(N, d) /\ DOMAIN pipe = 0..N
      /\ pipe' = [pipe EXCEPT ![N] = Tail(pipe[N])]
      /\ held' = held /\ fstate' = fstate /\ toPush' = toPush
  BY ChainConstants DEF ChainInv, ChainTypeOK, TakeArrived
<1>2. /\ Good(Tail(pipe[N]), d) /\ NullLast(Tail(pipe[N]))
      /\ Len(Tail(pipe[N])) = Len(pipe[N]) - 1 /\ Len(pipe[N]) \in Nat
      /\ Arrived \in Tokens /\ Arrived.doc = d
      /\ HasNull(Tail(pipe[N])) => HasNull(pipe[N])
      /\ Arrived.type = "null" => Tail(pipe[N]) = <<>> /\ HasNull(pipe[N])
  BY <1>1, TailFacts DEF PipeOK, Arrived
<1>. HIDE DEF Arrived
<1>3. /\ pipe'[N] = Tail(pipe[N])
      /\ \A j \in 0..N : j # N => pipe'[j] = pipe[j]
  BY <1>1
<1>4. \A j \in 0..N : Before(j) => Before(j)'
  <2>. SUFFICES ASSUME NEW j \in 0..N, Before(j) PROVE Before(j)'
    OBVIOUS
  <2>1. ASSUME NEW k \in 1..j PROVE pipe'[k - 1] = <<>> /\ Quiet(k)'
    <3>1. pipe[k - 1] = <<>> /\ Quiet(k)
      BY <2>1 DEF Before
    <3>2. k - 1 \in 0..N /\ k - 1 # N
      BY <1>1
    <3>. QED  BY <1>1, <1>3, <3>1, <3>2 DEF Quiet
  <2>. QED  BY <1>1, <2>1 DEF Before
<1>5. ASSUME NEW j \in 0..N PROVE PipeOK(j, d)'
  <2>1. PipeOK(j, d)
    BY DEF ChainInv
  <2>2. CASE j = N
    BY <1>2, <1>3, <1>4, <2>1, <2>2 DEF PipeOK
  <2>3. CASE j # N
    BY <1>3, <1>4, <2>1, <2>3 DEF PipeOK
  <2>. QED  BY <2>2, <2>3
<1>6. ASSUME NEW j \in 1..N PROVE HeldOK(j, d)' /\ FilterOK(j, d)'
  <2>1. HeldOK(j, d) /\ FilterOK(j, d) /\ j - 1 \in 0..N /\ j - 1 # N
    BY <1>1 DEF ChainInv
  <2>. QED  BY <1>1, <1>3, <1>4, <2>1 DEF HeldOK, FilterOK
<1>7. ChainTypeOK'
  BY <1>1, <1>2 DEF ChainInv, ChainTypeOK, Good
<1>8. ChainInv(d)'
  BY <1>1, <1>5, <1>6, <1>7 DEF ChainInv
<1>9. Arrived.type = "null" => Idle'
  BY <1>1, <1>2, <1>3, <1>4 DEF PipeOK, Idle
<1>10. ASSUME NEW j \in 0..N
       PROVE  Len(pipe'[j]) \in Nat /\ Len(pipe'[j]) <= Len(pipe[j])
  <2>1. Len(pipe[j]) \in Nat /\ Len(pipe'[j]) \in Nat
    BY <1>7, LenProperties DEF ChainInv, ChainTypeOK
  <2>2. CASE j = N
    <3>1. Len(pipe'[j]) = Len(Tail(pipe[N])) /\ Len(pipe[j]) = Len(pipe[N])
      BY <1>3, <2>2
    <3>. QED  BY <1>2, <2>1, <3>1
  <2>3. CASE j # N
    BY <1>3, <2>1, <2>3
  <2>. QED  BY <2>2, <2>3
<1>. QED  BY <1>1, <1>2, <1>8, <1>9, <1>10 DEF Idle

\* An idle chain holds nothing, and may start with the tokens of any document.
LEMMA IdleChain ==
    ASSUME NEW d, ChainInv(d), Idle
    PROVE  /\ \A i \in 0..N : pipe[i] = <<>>
           /\ \A i \in 1..N : Quiet(i)
           /\ toPush = <<>>
<1>1. N \in Nat /\ Before(N) /\ pipe[N] = <<>>
  BY ChainConstants DEF Idle
<1>2. \A i \in 0..N : i = N \/ (i + 1 \in 1..N /\ (i + 1) - 1 = i)
  BY <1>1
<1>. QED  BY <1>1, <1>2 DEF Before

LEMMA StartChain ==
    ASSUME NEW d, ChainInv(d), Idle, NEW e,
           UNCHANGED chainVars, Good(toPush', e), NullLast(toPush')
    PROVE  ChainInv(e)'
<1>1. /\ pipe' = pipe /\ held' = held /\ fstate' = fstate
  BY DEF chainVars
<1>2. /\ \A i \in 0..N : pipe[i] = <<>>
      /\ \A i \in 1..N : Quiet(i)
  BY IdleChain
<1>3. \A i \in 0..N : PipeOK(i, e)'
  BY <1>1, <1>2, EmptyFacts DEF PipeOK
<1>4. \A i \in 1..N : HeldOK(i, e)' /\ FilterOK(i, e)'
  BY <1>1, <1>2, EmptyFacts DEF HeldOK, FilterOK, Quiet, ChainInv
<1>5. ChainTypeOK'
  BY <1>1 DEF ChainInv, ChainTypeOK, Good
<1>. QED  BY <1>3, <1>4, <1>5 DEF ChainInv

LEMMA SameChain ==
    ASSUME NEW d, ChainInv(d), UNCHANGED <<chainVars, toPush>>
    PROVE  ChainInv(d)' /\ (Idle' <=> Idle)
<1>1. /\ pipe' = pipe /\ held' = held /\ fstate' = fstate /\ toPush' = toPush
  BY DEF chainVars
<1>2. \A j : Before(j)' <=> Before(j)
  BY <1>1 DEF Before, Quiet
<1>. QED  BY <1>1, <1>2 DEF ChainInv, ChainTypeOK, PipeOK, HeldOK, FilterOK, Idle

LEMMA InitChain ==
    ASSUME NEW d, ChainInit
    PROVE  ChainInv(d) /\ Idle /\ \A i \in 0..N : pipe[i] = <<>>
<1>1. /\ pipe = [i \in 0..N |-> <<>>] /\ held = [i \in 1..N |-> <<>>]
      /\ fstate = [i \in 1..N |-> Fresh] /\ toPush = <<>>
  BY DEF ChainInit
<1>2. /\ N \in 0..N /\ \A j \in 1..N : j - 1 \in 0..N
      /\ <<>> \in Seq(Tokens)
  BY ChainConstants, EmptySeq
<1>3. Fresh \in FilterStates /\ Fresh.buffer = <<>> /\ Fresh.ended = <<>>
      /\ \A kind : StateOK(kind, Fresh)
  BY FreshFacts, EmptyIsOK DEF Empty
<1>4. ChainTypeOK
  BY <1>1, <1>2, <1>3 DEF ChainTypeOK
<1>5. \A j \in 0..N : PipeOK(j, d)
  BY <1>1, EmptyFacts DEF PipeOK
<1>6. \A j \in 1..N : HeldOK(j, d) /\ FilterOK(j, d)
  BY <1>1, <1>3, EmptyFacts DEF HeldOK, FilterOK
<1>7. ChainInv(d)
  BY <1>1, <1>4, <1>5, <1>6, EmptyFacts DEF ChainInv
<1>8. Idle
  BY <1>1, <1>2, <1>3 DEF Idle, Before, Quiet
<1>. QED  BY <1>1, <1>7, <1>8
-----------------------------------------------------------------------------
(* What a filter makes of all the tokens it gets, by recursion on them.     *)

\* Induction over a set of numbers.
LEMMA NatSetInduction ==
    ASSUME NEW T, 0 \in T, \A n \in Nat : n \in T => n + 1 \in T
    PROVE  Nat \subseteq T
  <1> DEFINE B == {n \in Nat : n \notin T}
             R == StrictSubsetOrdering(Nat)
             U == {0 .. n : n \in B}
             F == FiniteSubsetsOf(Nat)
  <1> SUFFICES ASSUME B # {} PROVE FALSE  OBVIOUS
  <1>1. IsWellFoundedOn(R, F)  BY FS_StrictSubsetOrderingWellFounded
  <1>2. U \subseteq F
    <2> SUFFICES ASSUME NEW n \in B PROVE 0 .. n \in F  OBVIOUS
    <2>1. IsFiniteSet(0 .. n)  BY FS_Interval
    <2> QED  BY <2>1 DEF FiniteSubsetsOf
  <1>3. \E x \in U : \A y \in U : ~(<<y, x>> \in R)
    <2>1. U # {}  OBVIOUS
    <2> HIDE DEF U, R, F
    <2> QED  BY <1>1, <1>2, <2>1, WFMin
  <1>4. PICK n \in B : \A y \in U : ~(<<y, 0 .. n>> \in R)  BY <1>3
  <1>5. n \in Nat /\ n # 0  OBVIOUS
  <1>6. n - 1 \in B  BY <1>5
  <1>7. 0 .. (n - 1) \in U  BY <1>6
  <1>8. <<0 .. (n - 1), 0 .. n>> \in R
    <2>1. 0 .. (n - 1) \subseteq 0 .. n /\ n \in 0 .. n /\ n \notin 0 .. (n - 1)
      BY <1>5
    <2>2. 0 .. (n - 1) # 0 .. n  BY <2>1
    <2> HIDE DEF B, U
    <2> QED  BY <2>1, <2>2, <1>5 DEF StrictSubsetOrdering
  <1> QED  BY <1>4, <1>7, <1>8

\* The phrases sent before token k, and the one that is sent at k.
LEMMA PhrasesStep ==
    ASSUME NEW buffer, Len(buffer) \in Nat
    PROVE  /\ Phrases(buffer)[0] = <<>>
           /\ \A k \in 1..Len(buffer) :
                Phrases(buffer)[k] =
                    IF k <= 1 THEN <<>>
                    ELSE IF PhraseEnds(buffer, k - 1)
                         THEN Append(Phrases(buffer)[k - 1], PhraseTo(buffer, k - 1))
                         ELSE Phrases(buffer)[k - 1]
<1>. DEFINE Step(f, k) == IF k <= 1 THEN <<>>
                          ELSE IF PhraseEnds(buffer, k - 1)
                               THEN Append(f[k - 1], PhraseTo(buffer, k - 1)) ELSE f[k - 1]
            Is(f, n) == f = [k \in 0..n |-> Step(f, k)]
            T == {n \in Nat : \E f : Is(f, n)}
            sent == CHOOSE f : Is(f, Len(buffer))
<1>1. 0 \in T
  <2>1. Is([k \in 0..0 |-> <<>>], 0)
    OBVIOUS
  <2>. QED  BY <2>1
<1>2. ASSUME NEW n \in Nat, n \in T PROVE n + 1 \in T
  <2>1. PICK f : Is(f, n)
    BY <1>2
  <2>. DEFINE g == [k \in 0..n + 1 |-> IF k = n + 1 THEN Step(f, k) ELSE f[k]]
  <2>2. \A k \in 0..n : f[k] = Step(f, k)
    <3>. HIDE DEF Step
    <3>. QED  BY <2>1
  <2>3. \A k \in 0..n + 1 : g[k] = Step(g, k)
    <3>1. \A k \in 0..n : g[k] = f[k]
      OBVIOUS
    <3>2. g[n + 1] = Step(f, n + 1)
      OBVIOUS
    <3>. HIDE DEF g
    <3>3. \A k \in 0..n + 1 : Step(g, k) = Step(f, k)
      BY <3>1
    <3>. HIDE DEF Step
    <3>4. \A k \in 0..n + 1 : k \in 0..n \/ k = n + 1
      OBVIOUS
    <3>. QED  BY <2>2, <3>1, <3>2, <3>3, <3>4
  <2>4. Is(g, n + 1)
    <3>1. g = [k \in 0..n + 1 |-> g[k]]
      OBVIOUS
    <3>. HIDE DEF g, Step
    <3>. QED  BY <2>3, <3>1
  <2>. HIDE DEF Is, g
  <2>. QED  BY <2>4
<1>3. Len(buffer) \in T
  <2>. HIDE DEF T
  <2>. QED  BY <1>1, <1>2, NatSetInduction
<1>4. Is(sent, Len(buffer))
  <2>1. \E f : Is(f, Len(buffer))
    BY <1>3
  <2>. HIDE DEF Is
  <2>. QED  BY <2>1
<1>5. Phrases(buffer) = sent
  BY DEF Phrases
<1>6. \A k \in 0..Len(buffer) : sent[k] = Step(sent, k)
  <2>. HIDE DEF Step, sent
  <2>. QED  BY <1>4
<1>. HIDE DEF sent
<1>. QED  BY <1>5, <1>6
\* The tokens behind a filter are what it makes of those behind the one before.
LEMMA StagesStep ==
    ASSUME NEW chain, Len(chain) \in Nat, NEW tokens
    PROVE  /\ Stages(chain, tokens)[0] = tokens
           /\ \A k \in 1..Len(chain) :
                Stages(chain, tokens)[k] = After(chain[k], Stages(chain, tokens)[k - 1]).out
<1>. DEFINE Step(f, k) == IF k = 0 THEN tokens ELSE After(chain[k], f[k - 1]).out
            Is(f, n) == f = [k \in 0..n |-> Step(f, k)]
            T == {n \in Nat : \E f : Is(f, n)}
            stage == CHOOSE f : Is(f, Len(chain))
<1>1. 0 \in T
  <2>1. Is([k \in 0..0 |-> tokens], 0)
    OBVIOUS
  <2>. QED  BY <2>1
<1>2. ASSUME NEW n \in Nat, n \in T PROVE n + 1 \in T
  <2>1. PICK f : Is(f, n)
    BY <1>2
  <2>. DEFINE g == [k \in 0..n + 1 |-> IF k = n + 1 THEN Step(f, k) ELSE f[k]]
  <2>2. \A k \in 0..n : f[k] = Step(f, k)
    <3>. HIDE DEF Step
    <3>. QED  BY <2>1
  <2>3. \A k \in 0..n + 1 : g[k] = Step(g, k)
    <3>1. \A k \in 0..n : g[k] = f[k]
      OBVIOUS
    <3>2. g[n + 1] = Step(f, n + 1)
      OBVIOUS
    <3>. HIDE DEF g
    <3>3. \A k \in 0..n + 1 : Step(g, k) = Step(f, k)
      BY <3>1
    <3>. HIDE DEF Step
    <3>4. \A k \in 0..n + 1 : k \in 0..n \/ k = n + 1
      OBVIOUS
    <3>. QED  BY <2>2, <3>1, <3>2, <3>3, <3>4
  <2>4. Is(g, n + 1)
    <3>1. g = [k \in 0..n + 1 |-> g[k]]
      OBVIOUS
    <3>. HIDE DEF g, Step
    <3>. QED  BY <2>3, <3>1
  <2>. HIDE DEF Is, g
  <2>. QED  BY <2>4
<1>3. Len(chain) \in T
  <2>. HIDE DEF T
  <2>. QED  BY <1>1, <1>2, NatSetInduction
<1>4. Is(stage, Len(chain))
  <2>1. \E f : Is(f, Len(chain))
    BY <1>3
  <2>. HIDE DEF Is
  <2>. QED  BY <2>1
<1>5. Stages(chain, tokens) = stage
  BY DEF Stages
<1>6. \A k \in 0..Len(chain) : stage[k] = Step(stage, k)
  <2>. HIDE DEF Step, stage
  <2>. QED  BY <1>4
<1>. HIDE DEF stage
<1>. QED  BY <1>5, <1>6
\* What a filter has done is the last of a sequence of what it had done.
LEMMA AfterIs ==
    ASSUME NEW kind, NEW tokens, Len(tokens) \in Nat
    PROVE  \E did : /\ did[0] = Result(<<>>, Fresh)
                    /\ \A k \in 1..Len(tokens) : did[k] = AfterNext(kind, did[k - 1], tokens[k])
                    /\ After(kind, tokens) = did[Len(tokens)]
<1>. DEFINE Step(f, k) == IF k = 0 THEN Result(<<>>, Fresh)
                          ELSE AfterNext(kind, f[k - 1], tokens[k])
            Is(f, n) == f = [k \in 0..n |-> Step(f, k)]
            T == {n \in Nat : \E f : Is(f, n)}
            did == CHOOSE f : Is(f, Len(tokens))
<1>1. 0 \in T
  <2>1. Is([k \in 0..0 |-> Result(<<>>, Fresh)], 0)
    OBVIOUS
  <2>. QED  BY <2>1
<1>2. ASSUME NEW n \in Nat, n \in T PROVE n + 1 \in T
  <2>1. PICK f : Is(f, n)
    BY <1>2
  <2>. DEFINE g == [k \in 0..n + 1 |-> IF k = n + 1 THEN Step(f, k) ELSE f[k]]
  <2>2. \A k \in 0..n : f[k] = Step(f, k)
    <3>. HIDE DEF Step
    <3>. QED  BY <2>1
  <2>3. \A k \in 0..n + 1 : g[k] = Step(g, k)
    <3>1. \A k \in 0..n : g[k] = f[k]
      OBVIOUS
    <3>2. g[n + 1] = Step(f, n + 1)
      OBVIOUS
    <3>. HIDE DEF g
    <3>3. \A k \in 0..n + 1 : Step(g, k) = Step(f, k)
      BY <3>1
    <3>. HIDE DEF Step
    <3>4. \A k \in 0..n + 1 : k \in 0..n \/ k = n + 1
      OBVIOUS
    <3>. QED  BY <2>2, <3>1, <3>2, <3>3, <3>4
  <2>4. Is(g, n + 1)
    <3>1. g = [k \in 0..n + 1 |-> g[k]]
      OBVIOUS
    <3>. HIDE DEF g, Step
    <3>. QED  BY <2>3, <3>1
  <2>. HIDE DEF Is, g
  <2>. QED  BY <2>4
<1>3. Len(tokens) \in T
  <2>. HIDE DEF T
  <2>. QED  BY <1>1, <1>2, NatSetInduction
<1>4. Is(did, Len(tokens))
  <2>1. \E f : Is(f, Len(tokens))
    BY <1>3
  <2>. HIDE DEF Is
  <2>. QED  BY <2>1
<1>5. After(kind, tokens) = did[Len(tokens)]
  BY DEF After
<1>6. \A k \in 0..Len(tokens) : did[k] = Step(did, k)
  <2>. HIDE DEF Step, did
  <2>. QED  BY <1>4
<1>. HIDE DEF did
<1>. QED  BY <1>5, <1>6
\* The texts of a document are the last of a sequence of longer and longer ones.
LEMMA TextsIs ==
    ASSUME NEW d, NEW tokens, Len(tokens) \in Nat
    PROVE  \E texts : /\ texts[0] = <<>>
                      /\ \A k \in 1..Len(tokens) :
                            texts[k] = IF tokens[k].doc = d /\ tokens[k].type = "text"
                                       THEN Append(texts[k - 1], tokens[k].text) ELSE texts[k - 1]
                      /\ TextsOf(d, tokens) = texts[Len(tokens)]
<1>. DEFINE Step(f, k) == IF k = 0 THEN <<>>
                          ELSE IF tokens[k].doc = d /\ tokens[k].type = "text"
                               THEN Append(f[k - 1], tokens[k].text) ELSE f[k - 1]
            Is(f, n) == f = [k \in 0..n |-> Step(f, k)]
            T == {n \in Nat : \E f : Is(f, n)}
            texts == CHOOSE f : Is(f, Len(tokens))
<1>1. 0 \in T
  <2>1. Is([k \in 0..0 |-> <<>>], 0)
    OBVIOUS
  <2>. QED  BY <2>1
<1>2. ASSUME NEW n \in Nat, n \in T PROVE n + 1 \in T
  <2>1. PICK f : Is(f, n)
    BY <1>2
  <2>. DEFINE g == [k \in 0..n + 1 |-> IF k = n + 1 THEN Step(f, k) ELSE f[k]]
  <2>2. \A k \in 0..n : f[k] = Step(f, k)
    <3>. HIDE DEF Step
    <3>. QED  BY <2>1
  <2>3. \A k \in 0..n + 1 : g[k] = Step(g, k)
    <3>1. \A k \in 0..n : g[k] = f[k]
      OBVIOUS
    <3>2. g[n + 1] = Step(f, n + 1)
      OBVIOUS
    <3>. HIDE DEF g
    <3>3. \A k \in 0..n + 1 : Step(g, k) = Step(f, k)
      BY <3>1
    <3>. HIDE DEF Step
    <3>4. \A k \in 0..n + 1 : k \in 0..n \/ k = n + 1
      OBVIOUS
    <3>. QED  BY <2>2, <3>1, <3>2, <3>3, <3>4
  <2>4. Is(g, n + 1)
    <3>1. g = [k \in 0..n + 1 |-> g[k]]
      OBVIOUS
    <3>. HIDE DEF g, Step
    <3>. QED  BY <2>3, <3>1
  <2>. HIDE DEF Is, g
  <2>. QED  BY <2>4
<1>3. Len(tokens) \in T
  <2>. HIDE DEF T
  <2>. QED  BY <1>1, <1>2, NatSetInduction
<1>4. Is(texts, Len(tokens))
  <2>1. \E f : Is(f, Len(tokens))
    BY <1>3
  <2>. HIDE DEF Is
  <2>. QED  BY <2>1
<1>5. TextsOf(d, tokens) = texts[Len(tokens)]
  BY DEF TextsOf
<1>6. \A k \in 0..Len(tokens) : texts[k] = Step(texts, k)
  <2>. HIDE DEF Step, texts
  <2>. QED  BY <1>4
<1>. HIDE DEF texts
<1>. QED  BY <1>5, <1>6

\* Induction over the sequences of a set.
LEMMA SeqSetInduction ==
    ASSUME NEW V, NEW T, <<>> \in T,
           \A s \in Seq(V), v \in V : s \in T => Append(s, v) \in T
    PROVE  Seq(V) \subseteq T
<1>. DEFINE L == {n \in Nat : \A s \in Seq(V) : Len(s) = n => s \in T}
<1>1. 0 \in L
  BY EmptySeq
<1>2. ASSUME NEW n \in Nat, n \in L PROVE n + 1 \in L
  <2>1. ASSUME NEW s \in Seq(V), Len(s) = n + 1 PROVE s \in T
    <3>1. s # <<>>
      BY <2>1, EmptySeq
    <3>2. PICK t \in Seq(V), v \in V : s = Append(t, v)
      BY <3>1, SequenceEmptyOrAppend
    <3>3. Len(s) = Len(t) + 1 /\ Len(t) \in Nat
      BY <3>2, AppendProperties, LenProperties
    <3>4. Len(t) = n
      BY <2>1, <3>3
    <3>. QED  BY <1>2, <3>2, <3>4
  <2>. QED  BY <2>1
<1>3. Nat \subseteq L
  <2>. HIDE DEF L
  <2>. QED  BY <1>1, <1>2, NatSetInduction
<1>. QED  BY <1>3, LenProperties

LEMMA AfterNothing == \A kind : After(kind, <<>>) = Result(<<>>, Fresh)
<1>. SUFFICES ASSUME NEW kind PROVE After(kind, <<>>) = Result(<<>>, Fresh)
  OBVIOUS
<1>1. Len(<<>>) = 0
  OBVIOUS
<1>2. PICK did : did[0] = Result(<<>>, Fresh) /\ After(kind, <<>>) = did[Len(<<>>)]
  <2>1. Len(<<>>) \in Nat
    OBVIOUS
  <2>. QED  BY <2>1, AfterIs
<1>. QED  BY <1>1, <1>2

\* One token more is one step more.
LEMMA AfterAppend ==
    ASSUME NEW kind, NEW s \in Seq(Tokens), NEW tok \in Tokens
    PROVE  After(kind, Append(s, tok)) = AfterNext(kind, After(kind, s), tok)
<1>. DEFINE t == Append(s, tok)
<1>1. /\ Len(s) \in Nat /\ Len(t) = Len(s) + 1 /\ t[Len(s) + 1] = tok
      /\ \A k \in 1..Len(s) : t[k] = s[k]
  BY AppendProperties, LenProperties
<1>. HIDE DEF t
<1>2. PICK f : /\ f[0] = Result(<<>>, Fresh)
               /\ \A k \in 1..Len(s) : f[k] = AfterNext(kind, f[k - 1], s[k])
               /\ After(kind, s) = f[Len(s)]
  BY <1>1, AfterIs
<1>3. PICK g : /\ g[0] = Result(<<>>, Fresh)
               /\ \A k \in 1..Len(t) : g[k] = AfterNext(kind, g[k - 1], t[k])
               /\ After(kind, t) = g[Len(t)]
  <2>1. Len(t) \in Nat
    BY <1>1
  <2>. QED  BY <2>1, AfterIs
<1>. DEFINE T == {n \in Nat : n <= Len(s) => f[n] = g[n]}
<1>4. 0 \in T
  BY <1>2, <1>3
<1>5. ASSUME NEW n \in Nat, n \in T PROVE n + 1 \in T
  <2>. SUFFICES ASSUME n + 1 <= Len(s) PROVE f[n + 1] = g[n + 1]
    OBVIOUS
  <2>1. f[n] = g[n] /\ n + 1 \in 1..Len(s) /\ n + 1 \in 1..Len(t) /\ (n + 1) - 1 = n
    BY <1>1, <1>5
  <2>. QED  BY <1>1, <1>2, <1>3, <2>1
<1>6. Nat \subseteq T
  <2>. HIDE DEF T
  <2>. QED  BY <1>4, <1>5, NatSetInduction
<1>7. f[Len(s)] = g[Len(s)]
  BY <1>1, <1>6
<1>8. Len(s) + 1 \in 1..Len(t) /\ (Len(s) + 1) - 1 = Len(s)
  BY <1>1
<1>. QED  BY <1>1, <1>2, <1>3, <1>7, <1>8 DEF t

LEMMA TextsOfNothing == \A d : TextsOf(d, <<>>) = <<>>
<1>. SUFFICES ASSUME NEW d PROVE TextsOf(d, <<>>) = <<>>
  OBVIOUS
<1>1. Len(<<>>) = 0
  OBVIOUS
<1>2. PICK texts : texts[0] = <<>> /\ TextsOf(d, <<>>) = texts[Len(<<>>)]
  <2>1. Len(<<>>) \in Nat
    OBVIOUS
  <2>. QED  BY <2>1, TextsIs
<1>. QED  BY <1>1, <1>2

LEMMA TextsOfAppend ==
    ASSUME NEW d, NEW s \in Seq(Tokens), NEW tok \in Tokens
    PROVE  TextsOf(d, Append(s, tok)) =
               IF tok.doc = d /\ tok.type = "text" THEN Append(TextsOf(d, s), tok.text)
               ELSE TextsOf(d, s)
<1>. DEFINE t == Append(s, tok)
            Next1(x, u) == IF u.doc = d /\ u.type = "text" THEN Append(x, u.text) ELSE x
<1>1. /\ Len(s) \in Nat /\ Len(t) = Len(s) + 1 /\ t[Len(s) + 1] = tok
      /\ \A k \in 1..Len(s) : t[k] = s[k]
  BY AppendProperties, LenProperties
<1>. HIDE DEF t
<1>2. PICK f : /\ f[0] = <<>>
               /\ \A k \in 1..Len(s) : f[k] = Next1(f[k - 1], s[k])
               /\ TextsOf(d, s) = f[Len(s)]
  BY <1>1, TextsIs
<1>3. PICK g : /\ g[0] = <<>>
               /\ \A k \in 1..Len(t) : g[k] = Next1(g[k - 1], t[k])
               /\ TextsOf(d, t) = g[Len(t)]
  <2>1. Len(t) \in Nat
    BY <1>1
  <2>. QED  BY <2>1, TextsIs
<1>. HIDE DEF Next1
<1>. DEFINE T == {n \in Nat : n <= Len(s) => f[n] = g[n]}
<1>4. 0 \in T
  BY <1>2, <1>3
<1>5. ASSUME NEW n \in Nat, n \in T PROVE n + 1 \in T
  <2>. SUFFICES ASSUME n + 1 <= Len(s) PROVE f[n + 1] = g[n + 1]
    OBVIOUS
  <2>1. f[n] = g[n] /\ n + 1 \in 1..Len(s) /\ n + 1 \in 1..Len(t) /\ (n + 1) - 1 = n
    BY <1>1, <1>5
  <2>. QED  BY <1>1, <1>2, <1>3, <2>1
<1>6. Nat \subseteq T
  <2>. HIDE DEF T
  <2>. QED  BY <1>4, <1>5, NatSetInduction
<1>7. f[Len(s)] = g[Len(s)]
  BY <1>1, <1>6
<1>8. Len(s) + 1 \in 1..Len(t) /\ (Len(s) + 1) - 1 = Len(s)
  BY <1>1
<1>9. TextsOf(d, t) = Next1(TextsOf(d, s), tok)
  BY <1>1, <1>2, <1>3, <1>7, <1>8
<1>. QED  BY <1>9 DEF t, Next1

\* The texts of two sequences one after the other, and of one without the document.
LEMMA TextsOfType ==
    ASSUME NEW d, NEW s \in Seq(Tokens)
    PROVE  TextsOf(d, s) \in Seq(Texts)
<1>. DEFINE T == {t \in Seq(Tokens) : TextsOf(d, t) \in Seq(Texts)}
<1>1. <<>> \in T
  BY TextsOfNothing, EmptySeq
<1>2. ASSUME NEW t \in Seq(Tokens), NEW tok \in Tokens, t \in T PROVE Append(t, tok) \in T
  <2>1. tok.text \in Texts /\ TextsOf(d, t) \in Seq(Texts) /\ Append(t, tok) \in Seq(Tokens)
    BY <1>2, AppendProperties DEF Tokens
  <2>2. Append(TextsOf(d, t), tok.text) \in Seq(Texts)
    BY <2>1, AppendProperties
  <2>. QED  BY <2>1, <2>2, TextsOfAppend
<1>. HIDE DEF T
<1>3. Seq(Tokens) \subseteq T
  BY <1>1, <1>2, SeqSetInduction
<1>. QED  BY <1>3 DEF T

LEMMA TextsOfConcat ==
    ASSUME NEW d, NEW s \in Seq(Tokens), NEW u \in Seq(Tokens)
    PROVE  TextsOf(d, s \o u) = TextsOf(d, s) \o TextsOf(d, u)
<1>. DEFINE T == {t \in Seq(Tokens) : TextsOf(d, s \o t) = TextsOf(d, s) \o TextsOf(d, t)}
<1>1. <<>> \in T
  BY TextsOfNothing, TextsOfType, ConcatEmptySeq, EmptySeq
<1>2. ASSUME NEW t \in Seq(Tokens), NEW tok \in Tokens, t \in T PROVE Append(t, tok) \in T
  <2>1. /\ Append(t, tok) \in Seq(Tokens) /\ s \o t \in Seq(Tokens)
        /\ Append(t, tok) = t \o <<tok>> /\ <<tok>> \in Seq(Tokens)
    BY AppendProperties, ConcatProperties, AppendIsConcat
  <2>2. s \o Append(t, tok) = Append(s \o t, tok)
    BY <2>1, ConcatAssociative, AppendIsConcat
  <2>3. TextsOf(d, s) \in Seq(Texts) /\ TextsOf(d, t) \in Seq(Texts) /\ tok.text \in Texts
    BY TextsOfType DEF Tokens
  <2>4. TextsOf(d, s \o t) = TextsOf(d, s) \o TextsOf(d, t)
    BY <1>2
  <2>5. Append(TextsOf(d, s) \o TextsOf(d, t), tok.text)
            = TextsOf(d, s) \o Append(TextsOf(d, t), tok.text)
    <3>. DEFINE a == TextsOf(d, s)
                b == TextsOf(d, t)
                c == tok.text
    <3>1. a \in Seq(Texts) /\ b \in Seq(Texts) /\ c \in Texts /\ <<c>> \in Seq(Texts)
      BY <2>3
    <3>. HIDE DEF a, b, c
    <3>2. Append(a \o b, c) = (a \o b) \o <<c>> /\ Append(b, c) = b \o <<c>>
      BY <3>1, ConcatProperties, AppendIsConcat
    <3>3. (a \o b) \o <<c>> = a \o (b \o <<c>>)
      BY <3>1, ConcatAssociative
    <3>4. Append(a \o b, c) = a \o Append(b, c)
      BY <3>2, <3>3
    <3>. QED  BY <3>4 DEF a, b, c
  <2>6. TextsOf(d, s \o Append(t, tok)) = TextsOf(d, s) \o TextsOf(d, Append(t, tok))
    <3>1. CASE tok.doc = d /\ tok.type = "text"
      BY <2>1, <2>2, <2>4, <2>5, <3>1, TextsOfAppend
    <3>2. CASE ~(tok.doc = d /\ tok.type = "text")
      BY <2>1, <2>2, <2>4, <3>2, TextsOfAppend
    <3>. QED  BY <3>1, <3>2
  <2>. QED  BY <2>1, <2>6
<1>. HIDE DEF T
<1>3. Seq(Tokens) \subseteq T
  BY <1>1, <1>2, SeqSetInduction
<1>. QED  BY <1>3 DEF T

LEMMA TextsOfOther ==
    ASSUME NEW d, NEW s \in Seq(Tokens),
           \A k \in 1..Len(s) : s[k].doc # d \/ s[k].type # "text"
    PROVE  TextsOf(d, s) = <<>>
<1>. DEFINE Other(tok) == tok.doc # d \/ tok.type # "text"
            T == {t \in Seq(Tokens) : (\A k \in 1..Len(t) : Other(t[k])) => TextsOf(d, t) = <<>>}
<1>1. <<>> \in T
  BY TextsOfNothing, EmptySeq
<1>2. ASSUME NEW t \in Seq(Tokens), NEW tok \in Tokens, t \in T PROVE Append(t, tok) \in T
  <2>. DEFINE a == Append(t, tok)
  <2>1. /\ a \in Seq(Tokens) /\ Len(a) = Len(t) + 1 /\ Len(t) \in Nat
        /\ \A k \in 1..Len(t) : a[k] = t[k]
        /\ a[Len(t) + 1] = tok
    BY AppendProperties, LenProperties
  <2>. HIDE DEF a
  <2>2. ASSUME \A k \in 1..Len(a) : Other(a[k]) PROVE TextsOf(d, a) = <<>>
    <3>1. /\ \A k \in 1..Len(t) : k \in 1..Len(a)
          /\ Len(t) + 1 \in 1..Len(a)
      BY <2>1
    <3>2. Other(tok) /\ TextsOf(d, t) = <<>>
      BY <1>2, <2>1, <2>2, <3>1
    <3>3. TextsOf(d, a) = TextsOf(d, t)
      BY <3>2, TextsOfAppend DEF a
    <3>. QED  BY <3>2, <3>3
  <2>. QED  BY <2>1, <2>2 DEF a
<1>. HIDE DEF T
<1>3. Seq(Tokens) \subseteq T
  BY <1>1, <1>2, SeqSetInduction
<1>. QED  BY <1>3 DEF T

-----------------------------------------------------------------------------
(* The loop of NotifyDocComplete sends Phrases.                            *)

\* The least element of a set of numbers.
LEMMA LeastNat ==
    ASSUME NEW S, S \subseteq Nat, S # {}
    PROVE  Min(S) \in S /\ \A k \in S : Min(S) <= k
<1>. DEFINE T == {n \in Nat : \A k \in 0..n : k \notin S}
<1>1. ASSUME \A m \in S : \E k \in S : k < m PROVE FALSE
  <2>1. 0 \in T
    <3>1. 0 \notin S
      BY <1>1
    <3>. QED  BY <3>1
  <2>2. ASSUME NEW n \in Nat, n \in T PROVE n + 1 \in T
    <3>1. n + 1 \notin S
      <4>1. \A k \in S : k < n + 1 => k \in 0..n
        OBVIOUS
      <4>. QED  BY <1>1, <2>2, <4>1
    <3>2. \A k \in 0..n + 1 : k \in 0..n \/ k = n + 1
      OBVIOUS
    <3>. QED  BY <2>2, <3>1, <3>2
  <2>. HIDE DEF T
  <2>3. Nat \subseteq T
    BY <2>1, <2>2, NatSetInduction
  <2>4. \A n \in Nat : n \in 0..n
    OBVIOUS
  <2>. QED  BY <2>3, <2>4 DEF T
<1>2. \E m \in S : \A k \in S : m <= k
  BY <1>1
<1>. QED  BY <1>2 DEF Min

\* A phrase that ends at b begins somewhere.
LEMMA BeginsFacts ==
    ASSUME NEW buffer, NEW b \in Nat \ {0}, ~Apart(buffer, b, b)
    PROVE  /\ b \in Begins(buffer, b) /\ Min(Begins(buffer, b)) \in Begins(buffer, b)
           /\ Min(Begins(buffer, b)) \in 1..b
<1>1. b \in Begins(buffer, b)
  <2>1. b - b < PhraseLen
    BY PhraseAssumption
  <2>2. \A k \in b..b : k = b
    OBVIOUS
  <2>. QED  BY <2>1, <2>2 DEF Begins
<1>2. Begins(buffer, b) \subseteq 1..b
  BY DEF Begins
<1>3. Begins(buffer, b) \subseteq Nat /\ Begins(buffer, b) # {}
  BY <1>1, <1>2
<1>4. Min(Begins(buffer, b)) \in Begins(buffer, b)
  BY <1>3, LeastNat
<1>. QED  BY <1>1, <1>2, <1>4

LEMMA PhraseToType ==
    ASSUME NEW buffer \in Seq(Tokens), NEW b \in 1..Len(buffer), ~Apart(buffer, b, b)
    PROVE  PhraseTo(buffer, b) \in TextTokens
<1>. DEFINE a == Min(Begins(buffer, b))
<1>1. b \in Nat \ {0} /\ Len(buffer) \in Nat
  BY LenProperties
<1>2. a \in 1..b
  BY <1>1, BeginsFacts
<1>. DEFINE terms == SubSeq(buffer, a, b)
<1>. HIDE DEF a
<1>3. a \in Int /\ b \in Int /\ a <= b
  BY <1>2
<1>4. \A i \in a..b : buffer[i] \in Tokens
  <2>1. \A i \in a..b : i \in 1..Len(buffer)
    BY <1>1, <1>2
  <2>. QED  BY <2>1, ElementOfSeq
<1>5. terms \in Seq(Tokens) /\ Len(terms) = b - a + 1
  BY <1>3, <1>4, SubSeqProperties
<1>6. terms # <<>>
  BY <1>3, <1>5, EmptySeq
<1>. HIDE DEF terms
<1>7. MakePhrase(terms) \in TextTokens
  BY <1>5, <1>6, MakePhraseType
<1>. QED  BY <1>7 DEF PhraseTo, terms, a

LEMMA PhrasesType ==
    ASSUME NEW buffer \in Seq(Tokens)
    PROVE  \A k \in 0..Len(buffer) : Phrases(buffer)[k] \in Seq(Tokens)
<1>. DEFINE T == {n \in Nat : n <= Len(buffer) => Phrases(buffer)[n] \in Seq(Tokens)}
<1>0. Len(buffer) \in Nat
  BY LenProperties
<1>1. 0 \in T
  BY <1>0, PhrasesStep, EmptySeq
<1>2. ASSUME NEW n \in Nat, n \in T PROVE n + 1 \in T
  <2>. SUFFICES ASSUME n + 1 <= Len(buffer) PROVE Phrases(buffer)[n + 1] \in Seq(Tokens)
    OBVIOUS
  <2>1. Phrases(buffer)[n] \in Seq(Tokens) /\ n + 1 \in 1..Len(buffer) /\ (n + 1) - 1 = n
    BY <1>0, <1>2
  <2>2. CASE n + 1 <= 1
    BY <1>0, <2>1, <2>2, PhrasesStep, EmptySeq
  <2>3. CASE ~(n + 1 <= 1) /\ PhraseEnds(buffer, n)
    <3>1. n \in 1..Len(buffer) /\ ~Apart(buffer, n, n)
      BY <1>0, <2>1, <2>3 DEF PhraseEnds
    <3>2. PhraseTo(buffer, n) \in Tokens
      BY <3>1, PhraseToType DEF TextTokens
    <3>3. Phrases(buffer)[n + 1] = Append(Phrases(buffer)[n], PhraseTo(buffer, n))
      BY <1>0, <2>1, <2>3, PhrasesStep
    <3>. QED  BY <2>1, <3>2, <3>3, AppendProperties
  <2>4. CASE ~(n + 1 <= 1) /\ ~PhraseEnds(buffer, n)
    BY <1>0, <2>1, <2>4, PhrasesStep
  <2>. QED  BY <2>2, <2>3, <2>4
<1>3. Nat \subseteq T
  <2>. HIDE DEF T
  <2>. QED  BY <1>1, <1>2, NatSetInduction
<1>. QED  BY <1>0, <1>3

\* Where the loop is: the terms since start are those that may become a phrase.
LoopOK(st) ==
    /\ st.buffer \in Seq(Tokens) /\ st.next \in 1..Len(st.buffer) + 1 /\ st.start \in 1..st.next
    /\ st.start = st.next => st.next = 1 \/ Apart(st.buffer, st.next - 1, st.next - 1)
    /\ st.start < st.next =>
         /\ st.start \in Begins(st.buffer, st.next - 1)
         /\ \A a \in Begins(st.buffer, st.next - 1) : st.start <= a

\* A visit sends what was to be sent.
LEMMA VisitSends ==
    ASSUME NEW st \in FilterStates, LoopOK(st), st.next <= Len(st.buffer)
    PROVE  LET r == Visit(st)
               next == st.next + 1
           IN  /\ LoopOK(r.st) /\ r.st.buffer = st.buffer /\ r.st.ended = st.ended
               /\ r.st.next = next /\ r.st \in FilterStates
               /\ r.out \in Seq(Tokens)
               /\ Phrases(st.buffer)[next - 1] = Phrases(st.buffer)[st.next - 1] \o r.out
<1>. DEFINE n == st.next
            a == st.start
            buf == st.buffer
            tok == buf[n]
            terms == SubSeq(buf, a, n - 1)
            stops == tok.text \in Frequent(buf)
            differs == ~stops /\ terms # <<>> /\ terms[1].phrase # tok.phrase
            full == ~stops /\ ~differs /\ Len(terms) >= PhraseLen
            sends == terms # <<>> /\ (stops \/ differs \/ full)
            begin == CASE stops -> n + 1
                       [] differs -> n
                       [] full -> a + 1
                       [] OTHER -> a
            st1 == [st EXCEPT !.next = n + 1, !.start = begin]
            out == IF sends THEN <<MakePhrase(terms)>> ELSE <<>>
<1>1. Visit(st) = Result(out, st1)
  BY DEF Visit
<1>2. /\ n \in Nat \ {0} /\ a \in Nat \ {0} /\ a <= n /\ n <= Len(buf)
      /\ buf \in Seq(Tokens) /\ Len(buf) \in Nat
  BY LenProperties DEF LoopOK
<1>3. /\ a = n => terms = <<>>
      /\ a < n => terms # <<>> /\ terms[1] = buf[a] /\ Len(terms) = n - a
  <2>1. CASE a = n
    BY <1>2, <2>1, SubSeqEmpty
  <2>2. CASE a < n
    <3>1. a \in Int /\ n - 1 \in Int /\ a <= n - 1
      BY <1>2, <2>2
    <3>2. \A i \in a..n - 1 : buf[i] \in Tokens
      <4>1. \A i \in a..n - 1 : i \in 1..Len(buf)
        BY <1>2
      <4>. QED  BY <1>2, <4>1, ElementOfSeq
    <3>. DEFINE e == n - 1
    <3>3. e \in Int /\ \A i \in a..e : buf[i] \in Tokens
      BY <3>1, <3>2
    <3>. HIDE DEF e, a, buf
    <3>4. /\ SubSeq(buf, a, e) \in Seq(Tokens)
          /\ Len(SubSeq(buf, a, e)) = IF a <= e THEN e - a + 1 ELSE 0
          /\ \A i \in 1..e - a + 1 : SubSeq(buf, a, e)[i] = buf[a + i - 1]
      BY <3>1, <3>3, SubSeqProperties
    <3>5. Len(terms) = n - a /\ terms[1] = buf[a]
      <4>1. terms = SubSeq(buf, a, e)
        BY DEF e
      <4>2. Len(terms) = n - 1 - a + 1
        BY <3>1, <3>4, <4>1 DEF e
      <4>3. 1 \in 1..e - a + 1 /\ a + 1 - 1 = a
        BY <3>1 DEF e
      <4>. QED  BY <1>2, <3>1, <3>4, <4>1, <4>2, <4>3, SMTT(30)
    <3>6. terms # <<>>
      BY <1>2, <2>2, <3>5, EmptySeq, SMTT(30)
    <3>. QED  BY <1>2, <2>2, <3>5, <3>6
  <2>. QED  BY <1>2, <2>1, <2>2
<1>4. /\ begin \in 1..n + 1
      /\ st1.next = n + 1 /\ st1.start = begin /\ st1.buffer = buf /\ st1.ended = st.ended
      /\ st1 \in FilterStates
  <2>1. begin \in 1..n + 1
    <3>. HIDE DEF stops, differs, full
    <3>. QED  BY <1>2
  <2>. HIDE DEF begin
  <2>2. begin \in Nat /\ n + 1 \in Nat
    BY <1>2, <2>1
  <2>3. \A p, q \in Nat :
           LET new == [st EXCEPT !.next = p, !.start = q]
           IN  /\ new \in FilterStates /\ new.buffer = st.buffer
               /\ new.ended = st.ended /\ new.next = p /\ new.start = q
    BY DEF FilterStates
  <2>. QED  BY <2>1, <2>2, <2>3, ZenonT(60)
\* The terms since start are not stop words and have one PhraseId.
<1>5. \A k, j \in Nat : Apart(buf, k, j) <=> buf[k].text \in Frequent(buf)
                                            \/ buf[k].phrase # buf[j].phrase
  BY DEF Apart
<1>6. stops <=> Apart(buf, n, n)
  BY <1>2, <1>5
<1>7. ASSUME a < n
      PROVE  /\ n - 1 \in Nat \ {0} /\ a \in 1..n - 1 /\ n - 1 - a < PhraseLen
             /\ \A k \in a..n - 1 : ~Apart(buf, k, n - 1)
             /\ ~Apart(buf, n - 1, n - 1) /\ ~Apart(buf, a, n - 1)
             /\ buf[a].phrase = buf[n - 1].phrase
             /\ \A k \in a..n - 1 : /\ buf[k].phrase = buf[a].phrase
                                    /\ buf[k].text \notin Frequent(buf)
             /\ Min(Begins(buf, n - 1)) = a
  <2>1. a \in Begins(buf, n - 1) /\ \A x \in Begins(buf, n - 1) : a <= x
    BY <1>7 DEF LoopOK
  <2>2. a \in 1..n - 1 /\ n - 1 - a < PhraseLen /\ \A k \in a..n - 1 : ~Apart(buf, k, n - 1)
    BY <2>1 DEF Begins
  <2>3. n - 1 \in Nat \ {0} /\ n - 1 \in a..n - 1 /\ a \in a..n - 1
    BY <1>2, <1>7
  <2>4. ~Apart(buf, n - 1, n - 1) /\ ~Apart(buf, a, n - 1)
    BY <2>2, <2>3
  <2>5. Begins(buf, n - 1) \subseteq Nat
    BY DEF Begins
  <2>6. Min(Begins(buf, n - 1)) = a
    <3>1. Min(Begins(buf, n - 1)) \in Begins(buf, n - 1) /\ Min(Begins(buf, n - 1)) <= a
      BY <2>1, <2>5, LeastNat
    <3>2. a <= Min(Begins(buf, n - 1))
      BY <2>1, <3>1
    <3>. QED  BY <1>2, <2>5, <3>1, <3>2
  <2>7. ASSUME NEW k \in a..n - 1
        PROVE  buf[k].phrase = buf[n - 1].phrase /\ buf[k].text \notin Frequent(buf)
    <3>1. k \in Nat
      BY <1>2
    <3>. QED  BY <1>5, <2>2, <2>3, <3>1
  <2>8. buf[a].phrase = buf[n - 1].phrase
    BY <2>3, <2>7
  <2>. QED  BY <2>2, <2>3, <2>4, <2>6, <2>7, <2>8
\* What is sent.
<1>8. n > 1 /\ PhraseEnds(buf, n - 1) <=> sends
  <2>1. CASE a = n
    <3>1. ~sends
      BY <1>3, <2>1
    <3>2. n = 1 \/ Apart(buf, n - 1, n - 1)
      BY <2>1 DEF LoopOK
    <3>3. n > 1 => ~PhraseEnds(buf, n - 1)
      BY <1>2, <3>2 DEF PhraseEnds
    <3>. HIDE DEF sends
    <3>. QED  BY <3>1, <3>3
  <2>2. CASE a < n
    <3>1. n > 1 /\ terms # <<>> /\ terms[1] = buf[a] /\ Len(terms) = n - a
      BY <1>2, <1>3, <2>2
    <3>2. PhraseEnds(buf, n - 1) <=> (n - 1) - a + 1 = PhraseLen \/ Apart(buf, n, n - 1)
      <4>1. (n - 1) + 1 = n
        BY <1>2
      <4>. QED  BY <1>7, <2>2, <4>1 DEF PhraseEnds
    <3>3. Apart(buf, n, n - 1) <=> stops \/ tok.phrase # buf[a].phrase
      BY <1>2, <1>5, <1>7, <2>2, SMTT(30)
    <3>4. differs <=> ~stops /\ buf[a].phrase # tok.phrase
      BY <3>1
    <3>5. full <=> ~stops /\ ~differs /\ n - a >= PhraseLen
      BY <3>1
    <3>6. (n - 1) - a + 1 = PhraseLen <=> n - a >= PhraseLen
      BY <1>2, <1>7, <2>2, PhraseAssumption
    <3>. HIDE DEF stops, differs, full, terms, tok
    <3>. QED  BY <3>1, <3>2, <3>3, <3>4, <3>5, <3>6
  <2>. QED  BY <1>2, <2>1, <2>2, SMTT(30)
<1>9. Phrases(buf)[n] = Phrases(buf)[n - 1] \o out /\ out \in Seq(Tokens)
  <2>1. Phrases(buf)[n - 1] \in Seq(Tokens) /\ n \in 1..Len(buf) /\ n - 1 \in 0..Len(buf)
    BY <1>2, PhrasesType
  <2>2. CASE sends
    <3>1. n > 1 /\ PhraseEnds(buf, n - 1) /\ a < n
      <4>1. n > 1 /\ PhraseEnds(buf, n - 1)
        BY <1>8, <2>2
      <4>2. terms # <<>>
        BY <2>2
      <4>3. a # n
        BY <1>3, <4>2
      <4>. QED  BY <1>2, <4>1, <4>3
    <3>2. Min(Begins(buf, n - 1)) = a /\ n - 1 \in 1..Len(buf) /\ ~Apart(buf, n - 1, n - 1)
      BY <1>2, <1>7, <3>1
    <3>3. PhraseTo(buf, n - 1) = MakePhrase(terms)
      BY <3>2 DEF PhraseTo
    <3>4. PhraseTo(buf, n - 1) \in Tokens
      BY <1>2, <3>2, PhraseToType DEF TextTokens
    <3>5. Phrases(buf)[n] = Append(Phrases(buf)[n - 1], PhraseTo(buf, n - 1))
      <4>1. ~(n <= 1)
        BY <1>2, <3>1
      <4>. HIDE DEF out, terms, sends, buf, n
      <4>. QED  BY <1>2, <2>1, <3>1, <4>1, PhrasesStep
    <3>6. out = <<PhraseTo(buf, n - 1)>>
      BY <2>2, <3>3
    <3>. HIDE DEF out, terms, sends, buf, n
    <3>. QED  BY <2>1, <3>4, <3>5, <3>6, AppendIsConcat
  <2>3. CASE ~sends
    <3>1. out = <<>>
      BY <2>3
    <3>2. Phrases(buf)[n] = Phrases(buf)[n - 1]
      <4>1. CASE n = 1
        <5>1. Phrases(buf)[n] = <<>> /\ Phrases(buf)[0] = <<>>
          BY <1>2, <2>1, <4>1, PhrasesStep
        <5>. QED  BY <4>1, <5>1
      <4>2. CASE n > 1
        <5>1. ~PhraseEnds(buf, n - 1)
          BY <1>8, <2>3, <4>2
        <5>. QED  BY <1>2, <2>1, <4>2, <5>1, PhrasesStep
      <4>. QED  BY <1>2, <4>1, <4>2
    <3>. HIDE DEF out, buf, n
    <3>. QED  BY <2>1, <3>1, <3>2, ConcatEmptySeq
  <2>. QED  BY <2>2, <2>3
\* The new start.
<1>10. LoopOK(st1)
  <2>1. ASSUME begin = n + 1 => Apart(buf, n, n),
               begin < n + 1 => begin \in Begins(buf, n) /\ \A x \in Begins(buf, n) : begin <= x
        PROVE  LoopOK(st1)
    <3>. HIDE DEF begin, st1
    <3>1. (n + 1) - 1 = n /\ n + 1 \in 1..Len(buf) + 1
      BY <1>2
    <3>. QED  BY <1>2, <1>4, <2>1, <3>1 DEF LoopOK
  <2>2. ASSUME NEW x \in Begins(buf, n)
        PROVE  /\ x \in 1..n /\ n - x < PhraseLen
               /\ \A k \in x..n : buf[k].text \notin Frequent(buf) /\ buf[k].phrase = buf[n].phrase
    <3>1. x \in 1..n /\ n - x < PhraseLen /\ \A k \in x..n : ~Apart(buf, k, n)
      BY <2>2 DEF Begins
    <3>2. \A k \in x..n : k \in Nat
      BY <3>1
    <3>. QED  BY <1>2, <1>5, <3>1, <3>2
  <2>3. CASE stops
    <3>1. begin = n + 1
      BY <2>3
    <3>. HIDE DEF begin
    <3>. QED  BY <1>2, <1>6, <2>1, <2>3, <3>1
  <2>4. ASSUME ~stops, NEW x \in 1..n, n - x < PhraseLen, begin = x,
               \A k \in x..n - 1 : buf[k].text \notin Frequent(buf)
                                   /\ buf[k].phrase = buf[n].phrase,
               \A y \in Begins(buf, n) : x <= y
        PROVE  LoopOK(st1)
    <3>1. \A k \in x..n : ~Apart(buf, k, n)
      <4>1. \A k \in x..n : k \in Nat /\ (k \in x..n - 1 \/ k = n)
        BY <1>2
      <4>. QED  BY <1>2, <1>5, <1>6, <2>4, <4>1, ZenonT(60)
    <3>2. x \in Begins(buf, n) /\ x < n + 1
      BY <1>2, <2>4, <3>1 DEF Begins
    <3>. HIDE DEF begin, st1
    <3>. QED  BY <1>2, <2>1, <2>4, <3>2
  <2>5. CASE ~stops /\ a = n
    <3>1. begin = a
      <4>1. terms = <<>> /\ Len(<<>>) = 0
        BY <1>3, <2>5
      <4>2. ~differs
        BY <4>1
      <4>3. ~(Len(terms) >= PhraseLen)
        <5>1. Len(terms) = 0
          BY <4>1
        <5>. HIDE DEF terms
        <5>. QED  BY <5>1, PhraseAssumption
      <4>. QED  BY <2>5, <4>2, <4>3
    <3>2. \A y \in Begins(buf, n) : n <= y
      <4>. SUFFICES ASSUME NEW y \in Begins(buf, n), y < n PROVE FALSE
        BY <1>2 DEF Begins
      <4>1. y \in 1..n - 1 /\ n - 1 \in y..n /\ n \in y..n
        BY <1>2, <2>2
      <4>2. buf[n - 1].text \notin Frequent(buf)
        BY <2>2, <4>1
      <4>3. n # 1 /\ n - 1 \in Nat
        BY <1>2, <4>1
      <4>4. Apart(buf, n - 1, n - 1)
        BY <2>5, <4>3 DEF LoopOK
      <4>. QED  BY <1>5, <4>2, <4>3, <4>4
    <3>3. n \in 1..n /\ n - n < PhraseLen /\ \A k \in n..n - 1 : FALSE
      BY <1>2, PhraseAssumption
    <3>. HIDE DEF begin, st1
    <3>. QED  BY <2>4, <2>5, <3>1, <3>2, <3>3
  <2>6. CASE ~stops /\ a < n /\ buf[a].phrase # buf[n].phrase
    <3>1. differs
      BY <1>3, <2>6
    <3>2. begin = n
      BY <2>6, <3>1
    <3>3. \A y \in Begins(buf, n) : n <= y
      <4>. SUFFICES ASSUME NEW y \in Begins(buf, n), y < n PROVE FALSE
        BY <1>2 DEF Begins
      <4>1. y \in 1..n - 1 /\ n - 1 \in y..n
        BY <1>2, <2>2
      <4>2. buf[n - 1].phrase = buf[n].phrase
        BY <2>2, <4>1
      <4>. QED  BY <1>7, <2>6, <4>2
    <3>4. n \in 1..n /\ n - n < PhraseLen /\ \A k \in n..n - 1 : FALSE
      BY <1>2, PhraseAssumption
    <3>. HIDE DEF begin, st1
    <3>. QED  BY <2>4, <2>6, <3>2, <3>3, <3>4
  <2>7. CASE ~stops /\ a < n /\ buf[a].phrase = buf[n].phrase
    <3>1. ~differs /\ Len(terms) = n - a
      BY <1>3, <2>7
    <3>2. \A k \in a..n - 1 : buf[k].text \notin Frequent(buf) /\ buf[k].phrase = buf[n].phrase
      BY <1>7, <2>7
    <3>3. CASE n - a >= PhraseLen
      <4>1. begin = a + 1
        BY <2>7, <3>1, <3>3
      <4>2. a + 1 \in 1..n /\ n - (a + 1) < PhraseLen
        BY <1>2, <1>7, <2>7, PhraseAssumption, SMTT(30)
      <4>3. \A y \in Begins(buf, n) : a + 1 <= y
        BY <1>2, <2>2, <3>3, PhraseAssumption
      <4>4. \A k \in a + 1..n - 1 : k \in a..n - 1
        BY <1>2
      <4>. HIDE DEF begin, st1
      <4>. QED  BY <2>4, <2>7, <3>2, <4>1, <4>2, <4>3, <4>4
    <3>4. CASE ~(n - a >= PhraseLen)
      <4>1. begin = a
        BY <2>7, <3>1, <3>4
      <4>2. a \in 1..n /\ n - a < PhraseLen
        BY <1>2, <3>4, PhraseAssumption
      <4>3. \A y \in Begins(buf, n) : a <= y
        <5>. SUFFICES ASSUME NEW y \in Begins(buf, n), y < a PROVE FALSE
          BY <1>2 DEF Begins
        <5>1. y \in 1..n - 1 /\ (n - 1) - y < PhraseLen
          BY <1>2, <2>2, <2>7, PhraseAssumption
        <5>2. ASSUME NEW k \in y..n - 1 PROVE ~Apart(buf, k, n - 1)
          <6>1. k \in y..n /\ n - 1 \in y..n /\ k \in Nat /\ n - 1 \in Nat
            BY <1>2, <5>1
          <6>. QED  BY <1>5, <2>2, <6>1
        <5>3. y \in Begins(buf, n - 1)
          BY <5>1, <5>2 DEF Begins
        <5>4. a <= y
          BY <2>7, <5>3 DEF LoopOK
        <5>. QED  BY <1>2, <5>1, <5>4
      <4>. HIDE DEF begin, st1
      <4>. QED  BY <2>4, <2>7, <3>2, <4>1, <4>2, <4>3
    <3>. QED  BY <3>3, <3>4
  <2>. HIDE DEF stops, st1, begin
  <2>. QED  BY <1>2, <2>3, <2>5, <2>6, <2>7
<1>. HIDE DEF st1, out
<1>11. (st.next + 1) - 1 = n
  BY <1>2
<1>12. Visit(st).out = out /\ Visit(st).st = st1
  BY <1>1 DEF Result
<1>. QED  BY <1>4, <1>9, <1>10, <1>11, <1>12

-----------------------------------------------------------------------------
(* Types, and that a filter that gets more sends more.                     *)

\* The state of a filter that is not working for a Null token.
Settled(kind, st) ==
    StateOK(kind, st) /\ st.ended = <<>> /\ st.next = 1 /\ st.start = 1

LEMMA EmptySettled ==
    ASSUME NEW kind, NEW st, Empty(st)
    PROVE  Settled(kind, st)
  BY EmptyIsOK DEF Empty, Settled

LEMMA ReactSettled ==
    ASSUME NEW kind \in Kinds, NEW tok \in Tokens, NEW st, Settled(kind, st)
    PROVE  LET r == React(kind, st, tok)
           IN  /\ r.out \in Seq(Tokens) /\ r.st \in FilterStates
               /\ r.st.ended = <<>> => Settled(kind, r.st)
               /\ r.st.ended # <<>> =>
                    /\ kind = "phrases" /\ tok.type = "null" /\ r.out = <<>>
                    /\ r.st.ended = <<tok>> /\ r.st.buffer = st.buffer
                    /\ r.st.next = 1 /\ r.st.start = 1
<1>. DEFINE r == React(kind, st, tok)
<1>1. st \in FilterStates /\ StateOK(kind, st) /\ st.ended = <<>> /\ st.next = 1 /\ st.start = 1
  BY DEF Settled, StateOK
<1>2. tok.type \in {"text", "symbol", "null"} /\ <<>> \in Seq(Tokens) /\ <<tok>> \in Seq(Tokens)
  BY DEF Tokens
<1>3. CASE tok.type = "symbol"
  <2>1. r.out = <<>> /\ r.st = st
    BY <1>3 DEF React, Result
  <2>. QED  BY <1>1, <1>2, <2>1
<1>4. CASE tok.type = "null" /\ kind = "phrases"
  <2>. DEFINE st1 == [st EXCEPT !.ended = <<tok>>]
  <2>1. r.out = <<>> /\ r.st = st1
    BY <1>4 DEF React, Result
  <2>2. /\ st1 \in FilterStates /\ st1.buffer = st.buffer /\ st1.ended = <<tok>>
        /\ st1.next = st.next /\ st1.start = st.start
    BY <1>1, <1>2 DEF FilterStates
  <2>. HIDE DEF st1
  <2>3. r.st.ended = <<tok>> /\ r.st.buffer = st.buffer /\ r.st.next = 1 /\ r.st.start = 1
    BY <1>1, <2>1, <2>2
  <2>4. r.st \in FilterStates /\ r.st.ended # <<>>
    BY <2>1, <2>2, <2>3
  <2>. QED  BY <1>2, <1>4, <2>1, <2>3, <2>4
<1>5. CASE tok.type = "null" /\ kind # "phrases"
  <2>1. r.out = <<tok>> /\ r.st = st
    BY <1>5 DEF React, Result
  <2>. QED  BY <1>1, <1>2, <2>1
<1>6. CASE tok.type = "text" /\ tok.final /\ kind # "lower"
  <2>1. r.out = <<tok>> /\ r.st = st
    BY <1>6 DEF React, Result
  <2>. QED  BY <1>1, <1>2, <2>1
<1>7. CASE tok.type = "text" /\ ~(tok.final /\ kind # "lower") /\ kind # "phrases"
  <2>1. r = Apply(kind, st, tok)
    BY <1>7 DEF React
  <2>2. Empty(st) /\ tok \in TextTokens
    BY <1>1, <1>7 DEF StateOK, TextTokens
  <2>3. Empty(r.st) /\ FromToken(r.out, tok)
    BY <1>7, <2>1, <2>2, ApplyFacts
  <2>4. Settled(kind, r.st) /\ r.out \in Seq(Tokens) /\ r.st \in FilterStates /\ r.st.ended = <<>>
    BY <2>3, EmptySettled DEF FromToken, Empty
  <2>. QED  BY <2>4
<1>8. CASE tok.type = "text" /\ ~(tok.final /\ kind # "lower") /\ kind = "phrases"
  <2>. DEFINE st1 == [st EXCEPT !.buffer = Append(st.buffer, tok)]
  <2>1. r.out = <<>> /\ r.st = st1
    BY <1>8 DEF React, Apply, ApplyPhrases, Result
  <2>2. st.buffer \in Seq(Tokens) /\ Len(st.buffer) \in Nat
    BY <1>1, LenProperties DEF FilterStates
  <2>3. /\ Append(st.buffer, tok) \in Seq(Tokens)
        /\ Len(Append(st.buffer, tok)) = Len(st.buffer) + 1
    BY <2>2, AppendProperties
  <2>4. /\ st1 \in FilterStates /\ st1.buffer = Append(st.buffer, tok)
        /\ st1.ended = <<>> /\ st1.next = 1 /\ st1.start = 1
    BY <1>1, <2>3 DEF FilterStates
  <2>. HIDE DEF st1
  <2>5. Settled(kind, st1)
    BY <1>1, <1>8, <2>2, <2>3, <2>4 DEF Settled, StateOK
  <2>. QED  BY <1>2, <2>1, <2>4, <2>5
<1>. QED  BY <1>2, <1>3, <1>4, <1>5, <1>6, <1>7, <1>8

LEMMA AfterNextType ==
    ASSUME NEW kind \in Kinds, NEW tok \in Tokens, NEW did,
           did.out \in Seq(Tokens), Settled(kind, did.st)
    PROVE  LET next == AfterNext(kind, did, tok)
           IN  /\ next.out \in Seq(Tokens) /\ Settled(kind, next.st)
               /\ \E more \in Seq(Tokens) : next.out = did.out \o more
<1>. DEFINE r == React(kind, did.st, tok)
            buffer == r.st.buffer
            next == AfterNext(kind, did, tok)
<1>1. /\ r.out \in Seq(Tokens) /\ r.st \in FilterStates
      /\ r.st.ended = <<>> => Settled(kind, r.st)
  BY ReactSettled
<1>2. CASE r.st.ended = <<>>
  <2>1. next.out = did.out \o r.out /\ next.st = r.st
    BY <1>2 DEF AfterNext, Result
  <2>. QED  BY <1>1, <1>2, <2>1, ConcatProperties
<1>3. CASE r.st.ended # <<>>
  <2>. DEFINE sent == Phrases(buffer)[Len(buffer)]
  <2>1. next.out = did.out \o sent \o <<tok>> /\ next.st = Fresh
    BY <1>3 DEF AfterNext, Result
  <2>2. sent \in Seq(Tokens) /\ <<tok>> \in Seq(Tokens)
    <3>1. buffer \in Seq(Tokens) /\ Len(buffer) \in 0..Len(buffer)
      BY <1>1, LenProperties DEF FilterStates
    <3>. HIDE DEF buffer
    <3>. QED  BY <3>1, PhrasesType
  <2>3. Settled(kind, Fresh)
    BY FreshFacts, EmptySettled
  <2>. HIDE DEF sent
  <2>4. /\ sent \o <<tok>> \in Seq(Tokens)
        /\ (did.out \o sent) \o <<tok>> = did.out \o (sent \o <<tok>>)
    <3>. DEFINE a == did.out
                c == <<tok>>
    <3>1. a \in Seq(Tokens) /\ c \in Seq(Tokens)
      BY <2>2
    <3>. HIDE DEF a, c
    <3>2. sent \o c \in Seq(Tokens) /\ (a \o sent) \o c = a \o (sent \o c)
      BY <2>2, <3>1, ConcatProperties, ConcatAssociative, SMTT(30)
    <3>. QED  BY <3>2 DEF a, c
  <2>5. did.out \o (sent \o <<tok>>) \in Seq(Tokens)
    BY <2>4, ConcatProperties
  <2>. QED  BY <2>1, <2>3, <2>4, <2>5
<1>. QED  BY <1>2, <1>3

LEMMA AfterType ==
    ASSUME NEW kind \in Kinds, NEW s \in Seq(Tokens)
    PROVE  After(kind, s).out \in Seq(Tokens) /\ Settled(kind, After(kind, s).st)
<1>. DEFINE T == {t \in Seq(Tokens) : /\ After(kind, t).out \in Seq(Tokens)
                                      /\ Settled(kind, After(kind, t).st)}
<1>1. <<>> \in T
  <2>1. After(kind, <<>>).out = <<>> /\ After(kind, <<>>).st = Fresh
    BY AfterNothing DEF Result
  <2>. QED  BY <2>1, EmptySeq, FreshFacts, EmptySettled
<1>2. ASSUME NEW t \in Seq(Tokens), NEW tok \in Tokens, t \in T PROVE Append(t, tok) \in T
  <2>1. After(kind, Append(t, tok)) = AfterNext(kind, After(kind, t), tok)
    BY AfterAppend
  <2>2. /\ After(kind, Append(t, tok)).out \in Seq(Tokens)
        /\ Settled(kind, After(kind, Append(t, tok)).st)
    BY <1>2, <2>1, AfterNextType
  <2>3. Append(t, tok) \in Seq(Tokens)
    BY AppendProperties
  <2>. QED  BY <2>2, <2>3
<1>. HIDE DEF T
<1>3. Seq(Tokens) \subseteq T
  BY <1>1, <1>2, SeqSetInduction
<1>. QED  BY <1>3 DEF T

-----------------------------------------------------------------------------
(* What a filter may send, and what is left of a date.                     *)

\* Symbols end at the first filter.
Sendable == {tok \in Tokens : tok.type # "symbol"}

LEMMA SendableFacts ==
    /\ Sendable \subseteq Tokens /\ TextTokens \subseteq Sendable
    /\ \A s \in Seq(Sendable) : s \in Seq(Tokens)
    /\ \A s \in Seq(Tokens) : (\A k \in 1..Len(s) : s[k].type # "symbol") => s \in Seq(Sendable)
<1>1. Sendable \subseteq Tokens /\ TextTokens \subseteq Sendable
  BY DEF Sendable, TextTokens
<1>2. ASSUME NEW s \in Seq(Sendable) PROVE s \in Seq(Tokens)
  <2>1. Len(s) \in Nat /\ s \in [1..Len(s) -> Sendable]
    BY LenProperties
  <2>2. s \in [1..Len(s) -> Tokens]
    BY <1>1, <2>1
  <2>. QED  BY <2>1, <2>2, SeqDef
<1>3. ASSUME NEW s \in Seq(Tokens), \A k \in 1..Len(s) : s[k].type # "symbol"
      PROVE  s \in Seq(Sendable)
  <2>1. Len(s) \in Nat /\ s \in [1..Len(s) -> Tokens]
    BY LenProperties
  <2>2. s \in [1..Len(s) -> Sendable]
    BY <1>3, <2>1 DEF Sendable
  <2>. QED  BY <2>1, <2>2, SeqDef
<1>. QED  BY <1>1, <1>2, <1>3

LEMMA ReactSends ==
    ASSUME NEW kind \in Kinds, NEW tok \in Tokens, NEW st, Settled(kind, st)
    PROVE  React(kind, st, tok).out \in Seq(Sendable)
<1>. DEFINE r == React(kind, st, tok)
<1>1. tok.type \in {"text", "symbol", "null"} /\ <<>> \in Seq(Sendable)
  BY EmptySeq DEF Tokens
<1>2. CASE tok.type = "symbol"
  BY <1>1, <1>2 DEF React, Result
<1>3. CASE tok.type = "null"
  <2>1. r.out = <<>> \/ r.out = <<tok>>
    BY <1>3 DEF React, Result
  <2>2. <<tok>> \in Seq(Sendable)
    BY <1>3 DEF Sendable
  <2>3. r.out \in Seq(Sendable)
    <3>. HIDE DEF r
    <3>. QED  BY <1>1, <2>1, <2>2
  <2>. QED  BY <2>3
<1>4. CASE tok.type = "text"
  <2>1. tok \in TextTokens /\ tok \in Sendable
    BY <1>4 DEF TextTokens, Sendable
  <2>2. CASE tok.final /\ kind # "lower"
    <3>1. r.out = <<tok>>
      BY <1>4, <2>2 DEF React, Result
    <3>. QED  BY <2>1, <3>1
  <2>3. CASE ~(tok.final /\ kind # "lower") /\ kind # "phrases"
    <3>1. r = Apply(kind, st, tok)
      BY <1>4, <2>3 DEF React
    <3>2. Empty(st)
      BY <2>3 DEF Settled, StateOK
    <3>3. FromToken(r.out, tok)
      BY <2>1, <2>3, <3>1, <3>2, ApplyFacts
    <3>. QED  BY <3>3, SendableFacts DEF FromToken
  <2>4. CASE ~(tok.final /\ kind # "lower") /\ kind = "phrases"
    <3>1. r.out = <<>>
      BY <1>4, <2>4 DEF React, Apply, ApplyPhrases, Result
    <3>. QED  BY <1>1, <3>1
  <2>. QED  BY <2>2, <2>3, <2>4
<1>. QED  BY <1>1, <1>2, <1>3, <1>4

LEMMA PhrasesSendable ==
    ASSUME NEW buffer \in Seq(Tokens)
    PROVE  \A k \in 0..Len(buffer) : Phrases(buffer)[k] \in Seq(Sendable)
<1>. DEFINE T == {n \in Nat : n <= Len(buffer) => Phrases(buffer)[n] \in Seq(Sendable)}
<1>0. Len(buffer) \in Nat
  BY LenProperties
<1>1. 0 \in T
  BY <1>0, PhrasesStep, EmptySeq
<1>2. ASSUME NEW n \in Nat, n \in T PROVE n + 1 \in T
  <2>. SUFFICES ASSUME n + 1 <= Len(buffer) PROVE Phrases(buffer)[n + 1] \in Seq(Sendable)
    OBVIOUS
  <2>1. Phrases(buffer)[n] \in Seq(Sendable) /\ n + 1 \in 1..Len(buffer) /\ (n + 1) - 1 = n
    BY <1>0, <1>2
  <2>2. CASE n + 1 <= 1
    BY <1>0, <2>1, <2>2, PhrasesStep, EmptySeq
  <2>3. CASE ~(n + 1 <= 1) /\ PhraseEnds(buffer, n)
    <3>1. n \in 1..Len(buffer) /\ ~Apart(buffer, n, n)
      BY <1>0, <2>1, <2>3 DEF PhraseEnds
    <3>2. PhraseTo(buffer, n) \in Sendable
      BY <3>1, PhraseToType, SendableFacts
    <3>3. Phrases(buffer)[n + 1] = Append(Phrases(buffer)[n], PhraseTo(buffer, n))
      BY <1>0, <2>1, <2>3, PhrasesStep
    <3>. QED  BY <2>1, <3>2, <3>3, AppendProperties
  <2>4. CASE ~(n + 1 <= 1) /\ ~PhraseEnds(buffer, n)
    BY <1>0, <2>1, <2>4, PhrasesStep
  <2>. QED  BY <2>2, <2>3, <2>4
<1>3. Nat \subseteq T
  <2>. HIDE DEF T
  <2>. QED  BY <1>1, <1>2, NatSetInduction
<1>. QED  BY <1>0, <1>3

LEMMA AfterSendable ==
    ASSUME NEW kind \in Kinds, NEW s \in Seq(Tokens)
    PROVE  After(kind, s).out \in Seq(Sendable)
<1>. DEFINE T == {t \in Seq(Tokens) : After(kind, t).out \in Seq(Sendable)}
<1>1. <<>> \in T
  <2>1. After(kind, <<>>).out = <<>>
    BY AfterNothing DEF Result
  <2>. QED  BY <2>1, EmptySeq
<1>2. ASSUME NEW t \in Seq(Tokens), NEW tok \in Tokens, t \in T PROVE Append(t, tok) \in T
  <2>. DEFINE did == After(kind, t)
              r == React(kind, did.st, tok)
              buffer == r.st.buffer
  <2>1. After(kind, Append(t, tok)) = AfterNext(kind, did, tok) /\ Append(t, tok) \in Seq(Tokens)
    BY AfterAppend, AppendProperties
  <2>2. Settled(kind, did.st) /\ did.out \in Seq(Sendable)
    BY <1>2, AfterType
  <2>3. r.out \in Seq(Sendable)
    BY <2>2, ReactSends
  <2>4. CASE r.st.ended = <<>>
    <3>1. AfterNext(kind, did, tok).out = did.out \o r.out
      BY <2>4 DEF AfterNext, Result
    <3>. HIDE DEF did, r
    <3>2. did.out \o r.out \in Seq(Sendable)
      BY <2>2, <2>3, ConcatProperties
    <3>. QED  BY <2>1, <3>1, <3>2
  <2>5. CASE r.st.ended # <<>>
    <3>. DEFINE sent == Phrases(buffer)[Len(buffer)]
    <3>1. AfterNext(kind, did, tok).out = (did.out \o sent) \o <<tok>>
      BY <2>5 DEF AfterNext, Result
    <3>2. tok.type = "null" /\ r.st \in FilterStates
      BY <2>2, <2>5, ReactSettled
    <3>3. sent \in Seq(Sendable)
      <4>1. buffer \in Seq(Tokens) /\ Len(buffer) \in 0..Len(buffer)
        BY <3>2, LenProperties DEF FilterStates
      <4>. HIDE DEF buffer
      <4>. QED  BY <4>1, PhrasesSendable
    <3>4. <<tok>> \in Seq(Sendable)
      BY <3>2 DEF Sendable
    <3>. HIDE DEF did, r, buffer, sent
    <3>5. (did.out \o sent) \o <<tok>> \in Seq(Sendable)
      BY <2>2, <3>3, <3>4, ConcatProperties
    <3>. QED  BY <2>1, <3>1, <3>5
  <2>. QED  BY <2>4, <2>5
<1>. HIDE DEF T
<1>3. Seq(Tokens) \subseteq T
  BY <1>1, <1>2, SeqSetInduction
<1>. QED  BY <1>3 DEF T

\* The date filter has no day without a month.
NoDayAlone(st) == st.month = <<>> => st.day = <<>>

LEMMA ReactDates ==
    ASSUME NEW kind \in Kinds, NEW tok \in Tokens, NEW st \in FilterStates, NoDayAlone(st)
    PROVE  NoDayAlone(React(kind, st, tok).st)
<1>. DEFINE r == React(kind, st, tok)
<1>1. tok.type \in {"text", "symbol", "null"}
  BY DEF Tokens
<1>2. NoDayAlone(Fresh)
  BY DEF NoDayAlone, Fresh
<1>3. /\ \A b : NoDayAlone([st EXCEPT !.buffer = b]) /\ NoDayAlone([st EXCEPT !.ended = b])
      /\ \A w : NoDayAlone([st EXCEPT !.month = <<w>>])
  BY DEF NoDayAlone, FilterStates
<1>4. CASE tok.type \in {"symbol", "null"} \/ (tok.final /\ kind # "lower")
  <2>1. r.st = st \/ \E b : r.st = [st EXCEPT !.ended = b]
    BY <1>1, <1>4 DEF React, Result
  <2>2. NoDayAlone(r.st)
    <3>. HIDE DEF r
    <3>. QED  BY <1>3, <2>1
  <2>. QED  BY <2>2
<1>5. CASE ~(tok.type \in {"symbol", "null"} \/ (tok.final /\ kind # "lower"))
  <2>1. r = Apply(kind, st, tok)
    BY <1>1, <1>5 DEF React
  <2>2. CASE kind = "dates"
    <3>1. r = ApplyDates(st, tok)
      BY <2>1, <2>2 DEF Apply
    <3>2. /\ NoDayAlone(BeginDate(st, tok).st) /\ NoDayAlone(BeginDate(Fresh, tok).st)
      <4>1. \A w : NoDayAlone([Fresh EXCEPT !.month = <<w>>])
        BY DEF NoDayAlone, Fresh
      <4>. QED  BY <1>2, <1>3, <4>1 DEF BeginDate, Result
    <3>3. st.month # <<>> => NoDayAlone(AfterMonth(st, tok).st)
      <4>1. st.month # <<>> => \A w : NoDayAlone([st EXCEPT !.day = <<w>>])
        BY DEF NoDayAlone, FilterStates
      <4>2. CASE tok.text \in DOMAIN DayNumbers
        BY <4>1, <4>2 DEF AfterMonth, Result
      <4>3. CASE tok.text \in DOMAIN Years \ DOMAIN DayNumbers
        BY <1>2, <4>3 DEF AfterMonth, Result
      <4>4. CASE tok.text \notin DOMAIN DayNumbers /\ tok.text \notin DOMAIN Years
        BY <1>2, <4>4 DEF AfterMonth, Result
      <4>. QED  BY <4>2, <4>3, <4>4
    <3>4. NoDayAlone(AfterDay(st, tok).st)
      BY <1>2, <3>2 DEF AfterDay, Result
    <3>. QED  BY <3>1, <3>2, <3>3, <3>4 DEF ApplyDates
  <2>3. CASE kind = "phrases"
    <3>1. r.st = [st EXCEPT !.buffer = Append(st.buffer, tok)]
      BY <2>1, <2>3, SMTT(30) DEF Apply, ApplyPhrases, Result
    <3>. QED  BY <1>3, <3>1
  <2>4. CASE kind \notin {"dates", "phrases"}
    <3>1. r.st = st
      BY <2>1, <2>4 DEF Apply, Result, Kinds
    <3>. QED  BY <3>1
  <2>. QED  BY <2>2, <2>3, <2>4
<1>. QED  BY <1>4, <1>5

LEMMA AfterDates ==
    ASSUME NEW kind \in Kinds, NEW s \in Seq(Tokens)
    PROVE  NoDayAlone(After(kind, s).st)
<1>. DEFINE T == {t \in Seq(Tokens) : NoDayAlone(After(kind, t).st)}
<1>0. NoDayAlone(Fresh)
  BY DEF NoDayAlone, Fresh
<1>1. <<>> \in T
  BY <1>0, AfterNothing, EmptySeq DEF Result
<1>2. ASSUME NEW t \in Seq(Tokens), NEW tok \in Tokens, t \in T PROVE Append(t, tok) \in T
  <2>. DEFINE did == After(kind, t)
              r == React(kind, did.st, tok)
  <2>1. After(kind, Append(t, tok)) = AfterNext(kind, did, tok) /\ Append(t, tok) \in Seq(Tokens)
    BY AfterAppend, AppendProperties
  <2>2. did.st \in FilterStates
    BY AfterType DEF Settled, StateOK
  <2>3. NoDayAlone(r.st)
    BY <1>2, <2>2, ReactDates
  <2>4. AfterNext(kind, did, tok).st = r.st \/ AfterNext(kind, did, tok).st = Fresh
    BY DEF AfterNext, Result
  <2>. QED  BY <1>0, <2>1, <2>3, <2>4
<1>. HIDE DEF T
<1>3. Seq(Tokens) \subseteq T
  BY <1>1, <1>2, SeqSetInduction
<1>. QED  BY <1>3 DEF T

\* t begins with s.
BeginsWith(t, s) == \E more \in Seq(Tokens) : t = s \o more

LEMMA BeginsWithFacts ==
    /\ \A s \in Seq(Tokens) : BeginsWith(s, s)
    /\ \A s, t, u \in Seq(Tokens) : BeginsWith(u, t) /\ BeginsWith(t, s) => BeginsWith(u, s)
    /\ \A s, t, u \in Seq(Tokens) : BeginsWith(u, s \o t) => BeginsWith(u, s)
<1>1. ASSUME NEW s \in Seq(Tokens) PROVE BeginsWith(s, s)
  <2>1. s = s \o <<>> /\ <<>> \in Seq(Tokens)
    BY ConcatEmptySeq, EmptySeq
  <2>. QED  BY <2>1 DEF BeginsWith
<1>2. ASSUME NEW s \in Seq(Tokens), NEW t \in Seq(Tokens), NEW u, BeginsWith(u, s \o t)
      PROVE  BeginsWith(u, s)
  <2>1. PICK m \in Seq(Tokens) : u = (s \o t) \o m
    BY <1>2 DEF BeginsWith
  <2>2. u = s \o (t \o m) /\ t \o m \in Seq(Tokens)
    BY <2>1, ConcatAssociative, ConcatProperties
  <2>. QED  BY <2>2 DEF BeginsWith
<1>3. ASSUME NEW s \in Seq(Tokens), NEW t \in Seq(Tokens), NEW u \in Seq(Tokens),
             BeginsWith(u, t), BeginsWith(t, s)
      PROVE  BeginsWith(u, s)
  <2>1. PICK m \in Seq(Tokens) : t = s \o m
    BY <1>3 DEF BeginsWith
  <2>. QED  BY <1>2, <1>3, <2>1
<1>. QED  BY <1>1, <1>2, <1>3

LEMMA AfterBegins ==
    ASSUME NEW kind \in Kinds, NEW s \in Seq(Tokens), NEW t \in Seq(Tokens), BeginsWith(t, s)
    PROVE  BeginsWith(After(kind, t).out, After(kind, s).out)
<1>. DEFINE T == {u \in Seq(Tokens) : BeginsWith(After(kind, s \o u).out, After(kind, s).out)}
<1>1. <<>> \in T
  <2>1. s \o <<>> = s
    BY ConcatEmptySeq
  <2>. QED  BY <2>1, EmptySeq, AfterType, BeginsWithFacts
<1>2. ASSUME NEW u \in Seq(Tokens), NEW tok \in Tokens, u \in T PROVE Append(u, tok) \in T
  <2>1. /\ s \o u \in Seq(Tokens) /\ Append(u, tok) \in Seq(Tokens)
        /\ Append(u, tok) = u \o <<tok>> /\ <<tok>> \in Seq(Tokens)
        /\ Append(s \o u, tok) \in Seq(Tokens)
    BY AppendProperties, ConcatProperties, AppendIsConcat
  <2>2. s \o Append(u, tok) = Append(s \o u, tok)
    BY <2>1, ConcatAssociative, AppendIsConcat
  <2>. DEFINE a == After(kind, s).out
              b == After(kind, s \o u).out
              c == After(kind, Append(s \o u, tok)).out
  <2>3. a \in Seq(Tokens) /\ b \in Seq(Tokens) /\ c \in Seq(Tokens)
    BY <2>1, AfterType
  <2>4. BeginsWith(c, b)
    <3>1. /\ After(kind, Append(s \o u, tok)) = AfterNext(kind, After(kind, s \o u), tok)
          /\ Settled(kind, After(kind, s \o u).st)
      BY <2>1, AfterAppend, AfterType
    <3>2. \E more \in Seq(Tokens) : c = b \o more
      <4>. DEFINE did == After(kind, s \o u)
      <4>1. did.out \in Seq(Tokens) /\ Settled(kind, did.st)
        BY <2>3, <3>1
      <4>. HIDE DEF did
      <4>2. \E more \in Seq(Tokens) : AfterNext(kind, did, tok).out = did.out \o more
        BY <4>1, AfterNextType
      <4>. QED  BY <3>1, <4>2 DEF did
    <3>. HIDE DEF b, c
    <3>. QED  BY <3>2 DEF BeginsWith
  <2>5. BeginsWith(b, a)
    BY <1>2
  <2>6. BeginsWith(c, a)
    <3>. HIDE DEF a, b, c
    <3>. QED  BY <2>3, <2>4, <2>5, BeginsWithFacts
  <2>. QED  BY <2>1, <2>2, <2>6
<1>. HIDE DEF T
<1>3. Seq(Tokens) \subseteq T
  BY <1>1, <1>2, SeqSetInduction
<1>4. PICK u \in Seq(Tokens) : t = s \o u
  BY DEF BeginsWith
<1>5. u \in T
  BY <1>3
<1>. QED  BY <1>4, <1>5 DEF T

LEMMA PhrasesBegin ==
    ASSUME NEW buffer \in Seq(Tokens), NEW j \in 0..Len(buffer)
    PROVE  BeginsWith(Phrases(buffer)[Len(buffer)], Phrases(buffer)[j])
<1>. DEFINE P(k) == Phrases(buffer)[k]
            T == {n \in Nat : j + n <= Len(buffer) => BeginsWith(P(j + n), P(j))}
<1>1. Len(buffer) \in Nat /\ j \in Nat /\ \A k \in 0..Len(buffer) : P(k) \in Seq(Tokens)
  BY LenProperties, PhrasesType
<1>2. 0 \in T
  BY <1>1, BeginsWithFacts
<1>3. ASSUME NEW n \in Nat, n \in T PROVE n + 1 \in T
  <2>. SUFFICES ASSUME j + (n + 1) <= Len(buffer) PROVE BeginsWith(P(j + (n + 1)), P(j))
    OBVIOUS
  <2>. DEFINE m == j + n
  <2>1. m \in 0..Len(buffer) /\ m + 1 \in 1..Len(buffer) /\ (m + 1) - 1 = m /\ j + (n + 1) = m + 1
    BY <1>1
  <2>2. BeginsWith(P(m), P(j)) /\ P(m) \in Seq(Tokens) /\ P(j) \in Seq(Tokens)
        /\ P(m + 1) \in Seq(Tokens)
    <3>1. m <= Len(buffer) /\ m + 1 \in 0..Len(buffer)
      BY <1>1, <2>1
    <3>. QED  BY <1>1, <1>3, <2>1, <3>1
  <2>. HIDE DEF m
  <2>3. BeginsWith(P(m + 1), P(m))
    <3>1. CASE m + 1 > 1 /\ PhraseEnds(buffer, m)
      <4>1. m \in 1..Len(buffer) /\ ~Apart(buffer, m, m)
        BY <1>1, <2>1, <3>1 DEF PhraseEnds
      <4>2. PhraseTo(buffer, m) \in Tokens
        BY <4>1, PhraseToType DEF TextTokens
      <4>3. P(m + 1) = Append(P(m), PhraseTo(buffer, m))
        <5>1. ~(m + 1 <= 1)
          BY <2>1, <3>1
        <5>2. PhraseEnds(buffer, (m + 1) - 1) /\ PhraseTo(buffer, (m + 1) - 1) = PhraseTo(buffer, m)
          BY <2>1, <3>1
        <5>. QED  BY <1>1, <2>1, <5>1, <5>2, PhrasesStep
      <4>4. P(m + 1) = P(m) \o <<PhraseTo(buffer, m)>>
        BY <2>2, <4>2, <4>3, AppendIsConcat
      <4>5. <<PhraseTo(buffer, m)>> \in Seq(Tokens)
        BY <4>2
      <4>. HIDE DEF P
      <4>. QED  BY <4>4, <4>5 DEF BeginsWith
    <3>2. CASE m + 1 > 1 /\ ~PhraseEnds(buffer, m)
      <4>1. P(m + 1) = P(m)
        BY <1>1, <2>1, <3>2, PhrasesStep
      <4>. QED  BY <2>2, <4>1, BeginsWithFacts
    <3>3. CASE ~(m + 1 > 1)
      <4>1. P(m + 1) = <<>> /\ P(m) = <<>>
        <5>1. m = 0
          BY <2>1, <3>3
        <5>. QED  BY <1>1, <2>1, <5>1, PhrasesStep
      <4>. QED  BY <2>2, <4>1, BeginsWithFacts
    <3>. QED  BY <3>1, <3>2, <3>3
  <2>4. BeginsWith(P(m + 1), P(j))
    <3>. HIDE DEF P
    <3>. QED  BY <2>2, <2>3, BeginsWithFacts
  <2>. QED  BY <2>1, <2>4
<1>4. Nat \subseteq T
  <2>. HIDE DEF T
  <2>. QED  BY <1>2, <1>3, NatSetInduction
<1>5. Len(buffer) - j \in Nat /\ j + (Len(buffer) - j) = Len(buffer)
  BY <1>1
<1>6. Len(buffer) - j \in T
  BY <1>4, <1>5
<1>. QED  BY <1>5, <1>6

-----------------------------------------------------------------------------
(* The tokens that have left each pipe tell what is in the chain.          *)

\* A filter in state st that has read the tokens c has sent e.
SentBy(kind, st, c, e) ==
    \/ st.ended = <<>> /\ After(kind, c).st = st /\ After(kind, c).out = e
    \/ \E b \in Seq(Tokens), tok \in Tokens :
         /\ kind = "phrases" /\ tok.type = "null"
         /\ st.ended = <<tok>> /\ c = Append(b, tok)
         /\ After(kind, b).st.buffer = st.buffer /\ LoopOK(st)
         /\ e = After(kind, b).out \o Phrases(st.buffer)[st.next - 1]

\* C[i] has been read by filter i, C[N + 1] has been taken or dropped.
Streams(C) ==
    /\ C \in [1..N + 1 -> Seq(Tokens)]
    /\ \A i \in 1..N :
         SentBy(Filter[i], fstate[i], C[i], (C[i + 1] \o pipe[i]) \o held[i])

\* A token moves from the second sequence to the first.
LEMMA MoveHead ==
    ASSUME NEW a \in Seq(Tokens), NEW b \in Seq(Tokens), b # <<>>
    PROVE  /\ Append(a, Head(b)) \o Tail(b) = a \o b /\ Append(a, Head(b)) \in Seq(Tokens)
           /\ Head(b) \in Tokens /\ Tail(b) \in Seq(Tokens)
<1>1. /\ Head(b) \in Tokens /\ Head(b) = b[1] /\ Tail(b) \in Seq(Tokens)
      /\ Len(b) \in Nat \ {0} /\ Tail(b) = SubSeq(b, 2, Len(b))
  BY HeadTailProperties, EmptySeq, TailIsSubSeq
<1>2. b = <<Head(b)>> \o Tail(b)
  <2>1. SubSeq(b, 1, Len(b)) = <<b[1]>> \o SubSeq(b, 1 + 1, Len(b))
    <3>1. 1 \in 1..Len(b) /\ Len(b) \in 1..Len(b)
      BY <1>1
    <3>. QED  BY <3>1, SubSeqRecursiveFirst
  <2>2. SubSeq(b, 1, Len(b)) = b
    BY SubSeqFull
  <2>. QED  BY <1>1, <2>1, <2>2
<1>. DEFINE h == Head(b)
            t == Tail(b)
<1>3. h \in Tokens /\ <<h>> \in Seq(Tokens) /\ t \in Seq(Tokens) /\ b = <<h>> \o t
  BY <1>1, <1>2
<1>. HIDE DEF h, t
<1>4. Append(a, h) = a \o <<h>> /\ Append(a, h) \in Seq(Tokens)
  BY <1>3, AppendIsConcat, AppendProperties
<1>5. (a \o <<h>>) \o t = a \o (<<h>> \o t)
  BY <1>3, ConcatAssociative
<1>6. Append(a, h) \o t = a \o b
  BY <1>3, <1>4, <1>5
<1>. QED  BY <1>3, <1>4, <1>6 DEF h, t

LEMMA TokensConcat ==
    \A a, b, c \in Seq(Tokens) : (a \o b) \o c = a \o (b \o c) /\ a \o b \in Seq(Tokens)
<1>. SUFFICES ASSUME NEW a \in Seq(Tokens), NEW b \in Seq(Tokens), NEW c \in Seq(Tokens)
              PROVE  (a \o b) \o c = a \o (b \o c) /\ a \o b \in Seq(Tokens)
  OBVIOUS
<1>. DEFINE V == Tokens
<1>1. a \in Seq(V) /\ b \in Seq(V) /\ c \in Seq(V)
  OBVIOUS
<1>. HIDE DEF V
<1>2. (a \o b) \o c = a \o (b \o c) /\ a \o b \in Seq(V)
  BY <1>1, ConcatAssociative, ConcatProperties
<1>. QED  BY <1>2 DEF V

LEMMA BeginsWithMore ==
    \A a, p, q, n \in Seq(Tokens) :
        BeginsWith(q, p) => BeginsWith((a \o q) \o n, a \o p) /\ a \o p \in Seq(Tokens)
<1>1. ASSUME NEW a \in Seq(Tokens), NEW p \in Seq(Tokens), NEW m \in Seq(Tokens),
             NEW n \in Seq(Tokens)
      PROVE  BeginsWith((a \o (p \o m)) \o n, a \o p)
  <2>. DEFINE y == (a \o (p \o m)) \o n
              z == a \o p
              w == m \o n
  <2>1. y = z \o w /\ w \in Seq(Tokens)
    <3>1. a \o (p \o m) = (a \o p) \o m
      BY TokensConcat, SMTT(30)
    <3>2. a \o p \in Seq(Tokens) /\ m \o n \in Seq(Tokens)
      BY TokensConcat
    <3>3. ((a \o p) \o m) \o n = (a \o p) \o (m \o n)
      BY <3>2, TokensConcat, SMTT(30)
    <3>. QED  BY <3>1, <3>2, <3>3
  <2>. HIDE DEF y, z, w
  <2>2. BeginsWith(y, z)
    BY <2>1 DEF BeginsWith
  <2>. QED  BY <2>2 DEF y, z
<1>2. ASSUME NEW a \in Seq(Tokens), NEW p \in Seq(Tokens), NEW q \in Seq(Tokens),
             NEW n \in Seq(Tokens), BeginsWith(q, p)
      PROVE  BeginsWith((a \o q) \o n, a \o p)
  <2>1. PICK m \in Seq(Tokens) : q = p \o m
    BY <1>2 DEF BeginsWith
  <2>2. BeginsWith((a \o (p \o m)) \o n, a \o p)
    BY <1>1
  <2>. QED  BY <2>1, <2>2
<1>3. \A a, p \in Seq(Tokens) : a \o p \in Seq(Tokens)
  BY TokensConcat
<1>. QED  BY <1>2, <1>3

\* What the phrase filter makes of a Null token.
LEMMA AfterNull ==
    ASSUME NEW b \in Seq(Tokens), NEW tok \in Tokens, tok.type = "null", NEW buf,
           buf = After("phrases", b).st.buffer
    PROVE  /\ buf \in Seq(Tokens) /\ Phrases(buf)[Len(buf)] \in Seq(Tokens)
           /\ After("phrases", Append(b, tok)) =
                 Result((After("phrases", b).out \o Phrases(buf)[Len(buf)]) \o <<tok>>, Fresh)
<1>. DEFINE did == After("phrases", b)
            r == React("phrases", did.st, tok)
<1>0. "phrases" \in Kinds
  BY DEF Kinds
<1>1. /\ did.out \in Seq(Tokens) /\ Settled("phrases", did.st)
      /\ After("phrases", Append(b, tok)) = AfterNext("phrases", did, tok)
  BY <1>0, AfterType, AfterAppend
<1>2. did.st \in FilterStates
  BY <1>1 DEF Settled, StateOK
<1>3. r.st = [did.st EXCEPT !.ended = <<tok>>]
  BY DEF React, Result
<1>4. r.st.ended = <<tok>> /\ r.st.buffer = buf
  BY <1>2, <1>3 DEF FilterStates
<1>5. buf \in Seq(Tokens) /\ Len(buf) \in 0..Len(buf)
  BY <1>2, LenProperties DEF FilterStates
<1>6. Phrases(buf)[Len(buf)] \in Seq(Tokens)
  BY <1>5, PhrasesType
<1>7. r.st.ended # <<>>
  <2>. DEFINE x == r.st.ended
  <2>1. x = <<tok>>
    BY <1>4
  <2>. HIDE DEF x
  <2>2. x # <<>>
    BY <2>1
  <2>. QED  BY <2>2 DEF x
<1>8. AfterNext("phrases", did, tok) =
        Result((did.out \o Phrases(buf)[Len(buf)]) \o <<tok>>, Fresh)
  BY <1>4, <1>7 DEF AfterNext
<1>. QED  BY <1>1, <1>5, <1>6, <1>8

LEMMA SentType ==
    ASSUME NEW kind \in Kinds, NEW st, NEW c \in Seq(Tokens), NEW e, SentBy(kind, st, c, e)
    PROVE  /\ e \in Seq(Tokens) /\ BeginsWith(After(kind, c).out, e)
           /\ st.ended = <<>> => After(kind, c).st = st /\ After(kind, c).out = e
<1>2. CASE st.ended = <<>> /\ After(kind, c).st = st /\ After(kind, c).out = e
  BY <1>2, AfterType, BeginsWithFacts
<1>3. CASE ~(st.ended = <<>> /\ After(kind, c).st = st /\ After(kind, c).out = e)
  <2>. DEFINE buf == st.buffer
  <2>1. PICK b \in Seq(Tokens), tok \in Tokens :
             /\ kind = "phrases" /\ tok.type = "null"
             /\ st.ended = <<tok>> /\ c = Append(b, tok)
             /\ After(kind, b).st.buffer = st.buffer /\ LoopOK(st)
             /\ e = After(kind, b).out \o Phrases(st.buffer)[st.next - 1]
    BY <1>3 DEF SentBy
  <2>. DEFINE a == After(kind, b).out
              p == Phrases(buf)[st.next - 1]
              q == Phrases(buf)[Len(buf)]
              n == <<tok>>
  <2>2. a \in Seq(Tokens) /\ n \in Seq(Tokens)
    BY AfterType
  <2>3. buf \in Seq(Tokens) /\ st.next - 1 \in 0..Len(buf) /\ Len(buf) \in 0..Len(buf)
    BY <2>1, LenProperties DEF LoopOK
  <2>4. p \in Seq(Tokens) /\ q \in Seq(Tokens) /\ BeginsWith(q, p)
    <3>. HIDE DEF buf
    <3>. QED  BY <2>3, PhrasesType, PhrasesBegin
  <2>5. After(kind, c).out = (a \o q) \o n
    <3>1. /\ "phrases" = kind /\ Append(b, tok) = c
          /\ buf = After("phrases", b).st.buffer
      BY <2>1
    <3>2. After("phrases", Append(b, tok)) =
              Result((After("phrases", b).out \o Phrases(buf)[Len(buf)]) \o <<tok>>, Fresh)
      BY <2>1, <3>1, AfterNull
    <3>3. After(kind, c) = Result((a \o q) \o n, Fresh)
      BY <3>1, <3>2
    <3>. HIDE DEF a, q, n
    <3>. QED  BY <3>3 DEF Result
  <2>8. e = a \o p /\ st.ended # <<>>
    BY <2>1
  <2>. HIDE DEF a, p, q, n
  <2>7. BeginsWith((a \o q) \o n, a \o p) /\ a \o p \in Seq(Tokens)
    BY <2>2, <2>4, BeginsWithMore
  <2>. QED  BY <2>5, <2>7, <2>8
<1>. QED  BY <1>2, <1>3

\* A filter reads a token: what it sends is what it is to send next.
LEMMA SentReads ==
    ASSUME NEW kind \in Kinds, NEW c \in Seq(Tokens), NEW tok \in Tokens, NEW st, NEW e,
           SentBy(kind, st, c, e), st.ended = <<>>
    PROVE  LET r == React(kind, st, tok)
           IN  SentBy(kind, r.st, Append(c, tok), e \o r.out)
<1>. DEFINE r == React(kind, st, tok)
            did == After(kind, c)
<1>1. /\ did.st = st /\ did.out = e /\ e \in Seq(Tokens) /\ Settled(kind, st)
      /\ After(kind, Append(c, tok)) = AfterNext(kind, did, tok)
  BY SentType, AfterType, AfterAppend
<1>2. CASE r.st.ended = <<>>
  <2>1. AfterNext(kind, did, tok) = Result(e \o r.out, r.st)
    BY <1>1, <1>2 DEF AfterNext
  <2>2. /\ After(kind, Append(c, tok)).st = r.st
        /\ After(kind, Append(c, tok)).out = e \o r.out
    BY <1>1, <2>1 DEF Result
  <2>. QED  BY <1>2, <2>2 DEF SentBy
<1>3. CASE r.st.ended # <<>>
  <2>1. /\ kind = "phrases" /\ tok.type = "null" /\ r.out = <<>> /\ r.st \in FilterStates
        /\ r.st.ended = <<tok>> /\ r.st.buffer = st.buffer
        /\ r.st.next = 1 /\ r.st.start = 1
    BY <1>1, <1>3, ReactSettled
  <2>2. LoopOK(r.st) /\ Len(r.st.buffer) \in Nat
    <3>1. r.st.buffer \in Seq(Tokens) /\ Len(r.st.buffer) \in Nat
      BY <2>1, LenProperties DEF FilterStates
    <3>. HIDE DEF r
    <3>2. r.st.next \in 1..Len(r.st.buffer) + 1 /\ r.st.start \in 1..r.st.next
      BY <2>1, <3>1
    <3>3. r.st.start = r.st.next => r.st.next = 1
      BY <2>1
    <3>4. ~(r.st.start < r.st.next)
      BY <2>1
    <3>. QED  BY <3>1, <3>2, <3>3, <3>4 DEF LoopOK
  <2>3. Phrases(r.st.buffer)[r.st.next - 1] = <<>>
    <3>1. r.st.next - 1 = 0
      BY <2>1
    <3>. HIDE DEF r
    <3>. QED  BY <2>2, <3>1, PhrasesStep
  <2>4. e \o r.out = did.out \o Phrases(r.st.buffer)[r.st.next - 1]
    BY <1>1, <2>1, <2>3
  <2>5. did.st.buffer = r.st.buffer
    BY <1>1, <2>1
  <2>. DEFINE s == r.st
              o == r.out
  <2>6. /\ s.ended = <<tok>> /\ LoopOK(s) /\ did.st.buffer = s.buffer
        /\ e \o o = did.out \o Phrases(s.buffer)[s.next - 1]
    BY <2>1, <2>2, <2>4, <2>5
  <2>. HIDE DEF s, o
  <2>7. SentBy(kind, s, Append(c, tok), e \o o)
    BY <2>1, <2>6 DEF SentBy
  <2>. QED  BY <2>7 DEF s, o
<1>. QED  BY <1>2, <1>3

\* A round of NotifyDocComplete sends what it is to send next.
LEMMA SentNotify ==
    ASSUME NEW kind \in Kinds, NEW c \in Seq(Tokens), NEW st \in FilterStates, NEW e,
           SentBy(kind, st, c, e), st.ended # <<>>
    PROVE  SentBy(kind, Flush(st).st, c, e \o Flush(st).out)
<1>1. PICK b \in Seq(Tokens), tok \in Tokens :
           /\ kind = "phrases" /\ tok.type = "null"
           /\ st.ended = <<tok>> /\ c = Append(b, tok)
           /\ After(kind, b).st.buffer = st.buffer /\ LoopOK(st)
           /\ e = After(kind, b).out \o Phrases(st.buffer)[st.next - 1]
  BY DEF SentBy
<1>. DEFINE buf == st.buffer
            a == After(kind, b).out
            p == Phrases(buf)[st.next - 1]
<1>2. a \in Seq(Tokens)
  BY AfterType
<1>3. buf \in Seq(Tokens) /\ st.next - 1 \in 0..Len(buf) /\ Len(buf) \in Nat
      /\ st.next \in 1..Len(buf) + 1
  BY <1>1, LenProperties DEF LoopOK
<1>4. p \in Seq(Tokens)
  <2>. HIDE DEF buf
  <2>. QED  BY <1>3, PhrasesType
<1>5. CASE st.next <= Len(st.buffer)
  <2>. DEFINE r == Visit(st)
  <2>1. Flush(st) = r
    BY <1>5 DEF Flush
  <2>2. /\ LoopOK(r.st) /\ r.st.buffer = st.buffer /\ r.st.ended = st.ended
        /\ r.st.next = st.next + 1 /\ r.out \in Seq(Tokens)
        /\ Phrases(st.buffer)[(st.next + 1) - 1] = Phrases(st.buffer)[st.next - 1] \o r.out
    BY <1>1, <1>5, VisitSends
  <2>. HIDE DEF r
  <2>3. e \o r.out = a \o Phrases(r.st.buffer)[r.st.next - 1]
    <3>1. r.st.next - 1 = (st.next + 1) - 1
      BY <2>2
    <3>2. e = a \o p /\ Phrases(r.st.buffer)[r.st.next - 1] = p \o r.out
      BY <1>1, <2>2, <3>1
    <3>. HIDE DEF a, p
    <3>3. (a \o p) \o r.out = a \o (p \o r.out)
      BY <1>2, <1>4, <2>2, TokensConcat, ZenonT(60)
    <3>. QED  BY <3>2, <3>3
  <2>4. SentBy(kind, r.st, c, e \o r.out)
    BY <1>1, <2>2, <2>3 DEF SentBy
  <2>. QED  BY <2>1, <2>4
<1>6. CASE ~(st.next <= Len(st.buffer))
  <2>1. Flush(st) = Result(st.ended, Fresh)
    BY <1>6 DEF Flush
  <2>2. Flush(st).out = <<tok>> /\ Flush(st).st = Fresh
    BY <1>1, <2>1 DEF Result
  <2>3. st.next - 1 = Len(buf)
    BY <1>3, <1>6
  <2>4. After(kind, c) = Result((a \o Phrases(buf)[Len(buf)]) \o <<tok>>, Fresh)
    <3>1. /\ "phrases" = kind /\ Append(b, tok) = c
          /\ buf = After("phrases", b).st.buffer
      BY <1>1
    <3>2. After("phrases", Append(b, tok)) =
              Result((After("phrases", b).out \o Phrases(buf)[Len(buf)]) \o <<tok>>, Fresh)
      BY <1>1, <3>1, AfterNull
    <3>. QED  BY <3>1, <3>2
  <2>5. After(kind, c).st = Fresh /\ After(kind, c).out = e \o <<tok>>
    <3>1. e = a \o Phrases(buf)[Len(buf)]
      BY <1>1, <2>3
    <3>2. After(kind, c) = Result(e \o <<tok>>, Fresh)
      BY <2>4, <3>1
    <3>. QED  BY <3>2 DEF Result
  <2>6. Fresh.ended = <<>>
    BY DEF Fresh
  <2>. QED  BY <2>2, <2>5, <2>6 DEF SentBy
<1>. QED  BY <1>5, <1>6

LEMMA ReadStreams ==
    ASSUME ChainTypeOK, NEW C, Streams(C), NEW i \in 1..N, ReadToken(i), NEW D,
           D = [C EXCEPT ![i] = Append(C[i], Head(pipe[i - 1]))]
    PROVE  /\ Streams(D)' /\ D[1] \o pipe'[0] = C[1] \o pipe[0] /\ D[N + 1] = C[N + 1]
           /\ pipe'[N] = pipe[N]
<1>. DEFINE tok == Head(pipe[i - 1])
            r == React(Filter[i], fstate[i], tok)
<1>1. /\ N \in Nat \ {0} /\ i \in Nat /\ i - 1 \in 0..N /\ i \in 1..N + 1 /\ Filter[i] \in Kinds
      /\ N + 1 \in 1..N + 1 /\ i # N + 1
  BY ChainConstants
<1>2. /\ pipe[i - 1] # <<>> /\ held[i] = <<>> /\ fstate[i].ended = <<>>
      /\ pipe[i - 1] \in Seq(Tokens) /\ C[i] \in Seq(Tokens)
      /\ DOMAIN pipe = 0..N /\ DOMAIN held = 1..N /\ DOMAIN fstate = 1..N /\ DOMAIN C = 1..N + 1
  BY <1>1 DEF ReadToken, ChainTypeOK, Streams
<1>3. /\ Append(C[i], tok) \o Tail(pipe[i - 1]) = C[i] \o pipe[i - 1]
      /\ Append(C[i], tok) \in Seq(Tokens) /\ tok \in Tokens
  BY <1>2, MoveHead
<1>4. /\ pipe' = [pipe EXCEPT ![i - 1] = Tail(pipe[i - 1])]
      /\ held' = [held EXCEPT ![i] = r.out] /\ fstate' = [fstate EXCEPT ![i] = r.st]
  BY DEF ReadToken
<1>. HIDE DEF r, tok
<1>5. /\ pipe'[i - 1] = Tail(pipe[i - 1]) /\ held'[i] = r.out /\ fstate'[i] = r.st
      /\ \A j \in 0..N : j # i - 1 => pipe'[j] = pipe[j]
      /\ \A j \in 1..N : j # i => held'[j] = held[j] /\ fstate'[j] = fstate[j]
  BY <1>1, <1>2, <1>4
<1>6. /\ D[i] = Append(C[i], tok) /\ \A j \in 1..N + 1 : j # i => D[j] = C[j]
      /\ D \in [1..N + 1 -> Seq(Tokens)]
  BY <1>1, <1>2, <1>3 DEF Streams, tok
<1>7. ASSUME NEW j \in 1..N
      PROVE  SentBy(Filter[j], fstate'[j], D[j], (D[j + 1] \o pipe'[j]) \o held'[j])
  <2>0. /\ SentBy(Filter[j], fstate[j], C[j], (C[j + 1] \o pipe[j]) \o held[j])
        /\ j \in 1..N + 1 /\ j + 1 \in 1..N + 1 /\ j \in 0..N
    BY <1>1, <1>7 DEF Streams
  <2>1. CASE j = i
    <3>. DEFINE e == C[i + 1] \o pipe[i]
    <3>1. i + 1 # i /\ i # i - 1 /\ i \in 0..N
      BY <1>1
    <3>2. D[i + 1] = C[i + 1] /\ pipe'[i] = pipe[i]
      BY <1>1, <1>5, <1>6, <2>0, <2>1, <3>1
    <3>3. e \in Seq(Tokens) /\ e \o held[i] = e
      <4>1. C[i + 1] \in Seq(Tokens) /\ pipe[i] \in Seq(Tokens)
        BY <2>0, <2>1 DEF Streams, ChainTypeOK
      <4>. QED  BY <1>2, <4>1, ConcatProperties, ConcatEmptySeq
    <3>4. SentBy(Filter[i], fstate[i], C[i], e)
      BY <2>0, <2>1, <3>3
    <3>6. (D[i + 1] \o pipe'[i]) \o held'[i] = e \o r.out
      BY <1>5, <3>2
    <3>. HIDE DEF e
    <3>7. SentBy(Filter[i], r.st, Append(C[i], tok), e \o r.out)
      BY <1>1, <1>2, <1>3, <3>4, SentReads DEF r
    <3>. QED  BY <1>5, <1>6, <2>1, <3>6, <3>7
  <2>2. CASE j = i - 1
    <3>1. j # i /\ j + 1 = i
      BY <1>1, <2>2
    <3>2. /\ D[j] = C[j] /\ held'[j] = held[j] /\ fstate'[j] = fstate[j]
          /\ D[j + 1] \o pipe'[j] = C[j + 1] \o pipe[j]
      BY <1>3, <1>5, <1>6, <2>0, <2>2, <3>1
    <3>. QED  BY <2>0, <3>2
  <2>3. CASE j # i /\ j # i - 1
    <3>1. j + 1 # i
      BY <1>1, <2>3
    <3>2. /\ D[j] = C[j] /\ held'[j] = held[j] /\ fstate'[j] = fstate[j]
          /\ D[j + 1] = C[j + 1] /\ pipe'[j] = pipe[j]
      BY <1>5, <1>6, <2>0, <2>3, <3>1
    <3>. QED  BY <2>0, <3>2
  <2>. QED  BY <2>1, <2>2, <2>3
<1>8. Streams(D)'
  BY <1>6, <1>7 DEF Streams
<1>9. D[1] \o pipe'[0] = C[1] \o pipe[0] /\ D[1] \in Seq(Tokens)
  <2>1. 1 \in 1..N + 1 /\ 0 \in 0..N
    BY <1>1
  <2>2. CASE i = 1
    <3>1. i - 1 = 0
      BY <2>2
    <3>2. D[1] = Append(C[1], tok) /\ pipe'[0] = Tail(pipe[0])
      BY <1>5, <1>6, <2>2, <3>1
    <3>. QED  BY <1>3, <2>2, <3>1, <3>2
  <2>3. CASE i # 1
    <3>1. i - 1 # 0
      BY <1>1, <2>3
    <3>2. D[1] = C[1] /\ pipe'[0] = pipe[0]
      BY <1>5, <1>6, <2>1, <2>3, <3>1
    <3>. QED  BY <1>6, <2>1, <3>2
  <2>. QED  BY <2>2, <2>3
<1>10. pipe'[N] = pipe[N] /\ i - 1 # N
  <2>1. N \in 0..N /\ N # i - 1
    BY <1>1
  <2>. QED  BY <1>5, <2>1
<1>. QED  BY <1>1, <1>6, <1>8, <1>9, <1>10

LEMMA ConcatAppend ==
    ASSUME NEW a \in Seq(Tokens), NEW b \in Seq(Tokens), NEW h \in Tokens
    PROVE  a \o Append(b, h) = Append(a \o b, h) /\ Append(b, h) \in Seq(Tokens)
<1>. DEFINE c == <<h>>
<1>1. c \in Seq(Tokens)
  OBVIOUS
<1>2. a \o b \in Seq(Tokens) /\ Append(b, h) \in Seq(Tokens)
  BY ConcatProperties, AppendProperties
<1>3. Append(b, h) = b \o c /\ Append(a \o b, h) = (a \o b) \o c
  BY <1>2, AppendIsConcat
<1>. HIDE DEF c
<1>4. (a \o b) \o c = a \o (b \o c)
  BY <1>1, TokensConcat
<1>. QED  BY <1>2, <1>3, <1>4

\* What the chain's variables and its streams hold.
LEMMA StreamsFacts ==
    ASSUME ChainTypeOK, NEW C, Streams(C)
    PROVE  /\ N \in Nat \ {0} /\ N \in 0..N /\ N + 1 \in 1..N + 1 /\ 1 \in 1..N + 1 /\ 0 \in 0..N
           /\ N \in 1..N /\ N + 1 # 1 /\ N # 0
           /\ DOMAIN pipe = 0..N /\ DOMAIN held = 1..N /\ DOMAIN fstate = 1..N /\ DOMAIN C = 1..N + 1
           /\ toPush \in Seq(Tokens)
           /\ \A j \in 0..N : pipe[j] \in Seq(Tokens)
           /\ \A j \in 1..N + 1 : C[j] \in Seq(Tokens)
           /\ \A j \in 1..N : /\ held[j] \in Seq(Tokens) /\ fstate[j] \in FilterStates
                              /\ Filter[j] \in Kinds /\ j \in 1..N + 1 /\ j + 1 \in 1..N + 1
                              /\ j \in 0..N /\ j # 0
                              /\ SentBy(Filter[j], fstate[j], C[j], (C[j + 1] \o pipe[j]) \o held[j])
<1>1. /\ N \in Nat \ {0} /\ \A j \in 1..N : Filter[j] \in Kinds
  BY ChainConstants
<1>2. /\ N \in 0..N /\ N + 1 \in 1..N + 1 /\ 1 \in 1..N + 1 /\ 0 \in 0..N
      /\ N \in 1..N /\ N + 1 # 1 /\ N # 0
  BY <1>1
<1>3. /\ DOMAIN pipe = 0..N /\ DOMAIN held = 1..N /\ DOMAIN fstate = 1..N /\ DOMAIN C = 1..N + 1
      /\ toPush \in Seq(Tokens)
      /\ \A j \in 0..N : pipe[j] \in Seq(Tokens)
      /\ \A j \in 1..N + 1 : C[j] \in Seq(Tokens)
      /\ \A j \in 1..N : held[j] \in Seq(Tokens) /\ fstate[j] \in FilterStates
  BY DEF ChainTypeOK, Streams
<1>4. \A j \in 1..N : j \in 1..N + 1 /\ j + 1 \in 1..N + 1 /\ j \in 0..N /\ j # 0
  BY <1>1
<1>5. \A j \in 1..N : SentBy(Filter[j], fstate[j], C[j], (C[j + 1] \o pipe[j]) \o held[j])
  BY DEF Streams
<1>. QED  BY <1>1, <1>2, <1>3, <1>4, <1>5

LEMMA NotifyStreams ==
    ASSUME ChainTypeOK, NEW C, Streams(C), NEW i \in 1..N, NotifyRound(i)
    PROVE  Streams(C)' /\ pipe' = pipe /\ toPush' = toPush
<1>1. /\ held[i] = <<>> /\ fstate[i].ended # <<>>
      /\ held' = [held EXCEPT ![i] = Flush(fstate[i]).out]
      /\ fstate' = [fstate EXCEPT ![i] = Flush(fstate[i]).st]
      /\ pipe' = pipe /\ toPush' = toPush
  BY DEF NotifyRound
<1>2. ASSUME NEW j \in 1..N
      PROVE  SentBy(Filter[j], fstate'[j], C[j], (C[j + 1] \o pipe'[j]) \o held'[j])
  <2>. DEFINE st == fstate[j]
              e == C[j + 1] \o pipe[j]
  <2>0. /\ SentBy(Filter[j], st, C[j], e \o held[j]) /\ C[j] \in Seq(Tokens) /\ Filter[j] \in Kinds
        /\ C[j + 1] \in Seq(Tokens) /\ pipe[j] \in Seq(Tokens) /\ st \in FilterStates
        /\ DOMAIN held = 1..N /\ DOMAIN fstate = 1..N
    BY StreamsFacts
  <2>1. e \in Seq(Tokens) /\ e \o <<>> = e
    BY <2>0, ConcatProperties, ConcatEmptySeq
  <2>2. CASE j = i
    <3>1. held'[j] = Flush(st).out /\ fstate'[j] = Flush(st).st /\ held[j] = <<>> /\ st.ended # <<>>
      BY <1>1, <2>0, <2>2
    <3>2. SentBy(Filter[j], st, C[j], e)
      BY <2>0, <2>1, <3>1
    <3>3. C[j + 1] \o pipe'[j] = e
      BY <1>1
    <3>. HIDE DEF e, st
    <3>4. SentBy(Filter[j], Flush(st).st, C[j], e \o Flush(st).out)
      BY <2>0, <3>1, <3>2, SentNotify
    <3>. QED  BY <3>1, <3>3, <3>4
  <2>3. CASE j # i
    <3>1. held'[j] = held[j] /\ fstate'[j] = fstate[j] /\ pipe'[j] = pipe[j]
      BY <1>1, <2>0, <2>3
    <3>. QED  BY <2>0, <3>1
  <2>. QED  BY <2>2, <2>3
<1>3. C \in [1..N + 1 -> Seq(Tokens)]
  BY DEF Streams
<1>. QED  BY <1>1, <1>2, <1>3 DEF Streams

LEMMA SendStreams ==
    ASSUME ChainTypeOK, NEW C, Streams(C), NEW i \in 1..N, SendToken(i)
    PROVE  Streams(C)' /\ pipe'[0] = pipe[0] /\ toPush' = toPush
<1>1. /\ held[i] # <<>> /\ fstate' = fstate /\ toPush' = toPush
      /\ pipe' = [pipe EXCEPT ![i] = Append(pipe[i], Head(held[i]))]
      /\ held' = [held EXCEPT ![i] = Tail(held[i])]
  BY DEF SendToken
<1>2. ASSUME NEW j \in 1..N
      PROVE  SentBy(Filter[j], fstate'[j], C[j], (C[j + 1] \o pipe'[j]) \o held'[j])
  <2>0. /\ SentBy(Filter[j], fstate[j], C[j], (C[j + 1] \o pipe[j]) \o held[j])
        /\ C[j + 1] \in Seq(Tokens) /\ pipe[j] \in Seq(Tokens) /\ held[j] \in Seq(Tokens)
        /\ j \in DOMAIN held /\ j \in DOMAIN pipe
    BY StreamsFacts
  <2>2. CASE j = i
    <3>. DEFINE a == C[j + 1]
                b == pipe[j]
                x == held[j]
    <3>1. pipe'[j] = Append(b, Head(x)) /\ held'[j] = Tail(x) /\ x # <<>> /\ fstate'[j] = fstate[j]
      BY <1>1, <2>0, <2>2
    <3>2. a \in Seq(Tokens) /\ b \in Seq(Tokens) /\ x \in Seq(Tokens)
      BY <2>0
    <3>. HIDE DEF a, b, x
    <3>3. a \o b \in Seq(Tokens)
      BY <3>2, TokensConcat
    <3>4. Append(a \o b, Head(x)) \o Tail(x) = (a \o b) \o x /\ Head(x) \in Tokens
      BY <3>1, <3>2, <3>3, MoveHead
    <3>5. a \o Append(b, Head(x)) = Append(a \o b, Head(x))
      BY <3>2, <3>4, ConcatAppend
    <3>6. (a \o pipe'[j]) \o held'[j] = (a \o b) \o x
      BY <3>1, <3>4, <3>5
    <3>. QED  BY <2>0, <3>1, <3>6 DEF a, b, x
  <2>3. CASE j # i
    <3>1. held'[j] = held[j] /\ fstate'[j] = fstate[j] /\ pipe'[j] = pipe[j]
      BY <1>1, <2>0, <2>3
    <3>. QED  BY <2>0, <3>1
  <2>. QED  BY <2>2, <2>3
<1>3. C \in [1..N + 1 -> Seq(Tokens)]
  BY DEF Streams
<1>4. pipe'[0] = pipe[0]
  BY <1>1, StreamsFacts
<1>. QED  BY <1>1, <1>2, <1>3, <1>4 DEF Streams

LEMMA TakeStreams ==
    ASSUME ChainTypeOK, NEW C, Streams(C), TakeArrived, NEW D,
           D = [C EXCEPT ![N + 1] = Append(C[N + 1], Arrived)]
    PROVE  /\ Streams(D)' /\ pipe'[0] = pipe[0] /\ toPush' = toPush /\ D[1] = C[1]
           /\ D[N + 1] = Append(C[N + 1], Arrived)
<1>. DEFINE tok == Head(pipe[N])
<1>0. tok = Arrived
  BY DEF Arrived
<1>1. /\ pipe[N] # <<>> /\ fstate' = fstate /\ held' = held /\ toPush' = toPush
      /\ pipe' = [pipe EXCEPT ![N] = Tail(pipe[N])]
  BY DEF TakeArrived
<1>2. C[N + 1] \in Seq(Tokens) /\ pipe[N] \in Seq(Tokens)
  BY StreamsFacts
<1>3. /\ Append(C[N + 1], tok) \o Tail(pipe[N]) = C[N + 1] \o pipe[N]
      /\ Append(C[N + 1], tok) \in Seq(Tokens)
  BY <1>1, <1>2, MoveHead
<1>. HIDE DEF tok
<1>4. /\ D[N + 1] = Append(C[N + 1], tok) /\ \A j \in 1..N + 1 : j # N + 1 => D[j] = C[j]
      /\ D \in [1..N + 1 -> Seq(Tokens)]
  <2>1. C \in [1..N + 1 -> Seq(Tokens)] /\ N + 1 \in 1..N + 1
    BY StreamsFacts DEF Streams
  <2>. QED  BY <1>0, <1>3, <2>1
<1>5. pipe'[N] = Tail(pipe[N]) /\ \A j \in 0..N : j # N => pipe'[j] = pipe[j]
  BY <1>1, StreamsFacts
<1>6. ASSUME NEW j \in 1..N
      PROVE  SentBy(Filter[j], fstate'[j], D[j], (D[j + 1] \o pipe'[j]) \o held'[j])
  <2>0. /\ SentBy(Filter[j], fstate[j], C[j], (C[j + 1] \o pipe[j]) \o held[j])
        /\ j \in 1..N + 1 /\ j + 1 \in 1..N + 1 /\ j \in 0..N /\ N \in Nat
    BY StreamsFacts
  <2>1. D[j] = C[j]
    BY <1>4, <2>0
  <2>2. CASE j = N
    <3>1. D[j + 1] \o pipe'[j] = C[j + 1] \o pipe[j]
      BY <1>3, <1>4, <1>5, <2>2
    <3>. QED  BY <1>1, <2>0, <2>1, <3>1
  <2>3. CASE j # N
    <3>1. D[j + 1] = C[j + 1] /\ pipe'[j] = pipe[j]
      BY <1>4, <1>5, <2>0, <2>3
    <3>. QED  BY <1>1, <2>0, <2>1, <3>1
  <2>. QED  BY <2>2, <2>3
<1>7. D[1] = C[1] /\ pipe'[0] = pipe[0]
  BY <1>4, <1>5, StreamsFacts
<1>. QED  BY <1>0, <1>1, <1>4, <1>6, <1>7 DEF Streams

\* What the last filter holds is dropped.
LEMMA DropStreams ==
    ASSUME ChainTypeOK, NEW C, Streams(C), DropHeld, pipe[N] = <<>>, NEW D,
           D = [C EXCEPT ![N + 1] = C[N + 1] \o held[N]]
    PROVE  /\ Streams(D)' /\ pipe' = pipe /\ toPush' = toPush /\ D[1] = C[1]
           /\ D[N + 1] = C[N + 1] \o held[N]
<1>. DEFINE x == held[N]
<1>1. /\ fstate' = fstate /\ pipe' = pipe /\ toPush' = toPush
      /\ held' = [held EXCEPT ![N] = <<>>]
  BY DEF DropHeld
<1>2. C[N + 1] \in Seq(Tokens) /\ x \in Seq(Tokens)
  BY StreamsFacts
<1>. HIDE DEF x
<1>3. C[N + 1] \o x \in Seq(Tokens) /\ C[N + 1] \o <<>> = C[N + 1]
  BY <1>2, ConcatProperties, ConcatEmptySeq
<1>4. /\ D[N + 1] = C[N + 1] \o x /\ \A j \in 1..N + 1 : j # N + 1 => D[j] = C[j]
      /\ D \in [1..N + 1 -> Seq(Tokens)]
  <2>1. C \in [1..N + 1 -> Seq(Tokens)] /\ N + 1 \in 1..N + 1
    BY StreamsFacts DEF Streams
  <2>. QED  BY <1>3, <2>1 DEF x
<1>5. held'[N] = <<>> /\ \A j \in 1..N : j # N => held'[j] = held[j]
  BY <1>1, StreamsFacts
<1>6. ASSUME NEW j \in 1..N
      PROVE  SentBy(Filter[j], fstate'[j], D[j], (D[j + 1] \o pipe'[j]) \o held'[j])
  <2>0. /\ SentBy(Filter[j], fstate[j], C[j], (C[j + 1] \o pipe[j]) \o held[j])
        /\ j \in 1..N + 1 /\ j + 1 \in 1..N + 1 /\ j \in 0..N /\ N \in Nat
    BY StreamsFacts
  <2>1. D[j] = C[j]
    <3>1. j # N + 1
      BY <2>0
    <3>. QED  BY <1>4, <2>0, <3>1
  <2>2. CASE j = N
    <3>. DEFINE y == C[N + 1] \o x
    <3>1. (C[j + 1] \o pipe[j]) \o held[j] = y
      BY <1>3, <2>2 DEF x
    <3>2. D[j + 1] = y /\ pipe'[j] = <<>> /\ held'[j] = <<>> /\ y \in Seq(Tokens)
      BY <1>1, <1>3, <1>4, <1>5, <2>2
    <3>. HIDE DEF y
    <3>3. y \o <<>> = y
      BY <3>2, ConcatEmptySeq
    <3>4. (D[j + 1] \o pipe'[j]) \o held'[j] = y
      BY <3>2, <3>3
    <3>. QED  BY <1>1, <2>0, <2>1, <3>1, <3>4
  <2>3. CASE j # N
    <3>1. D[j + 1] = C[j + 1] /\ held'[j] = held[j]
      BY <1>4, <1>5, <2>0, <2>3
    <3>. QED  BY <1>1, <2>0, <2>1, <3>1
  <2>. QED  BY <2>2, <2>3
<1>7. D[1] = C[1]
  BY <1>4, StreamsFacts
<1>. QED  BY <1>1, <1>4, <1>6, <1>7 DEF Streams, x

LEMMA PushStreams ==
    ASSUME ChainTypeOK, NEW C, Streams(C), NEW capacity, PushToken(capacity)
    PROVE  /\ Streams(C)' /\ (C[1] \o pipe'[0]) \o toPush' = (C[1] \o pipe[0]) \o toPush
           /\ pipe'[N] = pipe[N]
<1>1. /\ toPush # <<>> /\ fstate' = fstate /\ held' = held /\ toPush' = Tail(toPush)
      /\ pipe' = [pipe EXCEPT ![0] = Append(pipe[0], Head(toPush))]
  BY DEF PushToken
<1>2. pipe'[0] = Append(pipe[0], Head(toPush)) /\ \A j \in 0..N : j # 0 => pipe'[j] = pipe[j]
  BY <1>1, StreamsFacts
<1>3. \A j \in 1..N : SentBy(Filter[j], fstate'[j], C[j], (C[j + 1] \o pipe'[j]) \o held'[j])
  BY <1>1, <1>2, StreamsFacts
<1>4. (C[1] \o pipe'[0]) \o toPush' = (C[1] \o pipe[0]) \o toPush
  <2>. DEFINE a == C[1]
              b == pipe[0]
              x == toPush
  <2>1. a \in Seq(Tokens) /\ b \in Seq(Tokens) /\ x \in Seq(Tokens) /\ x # <<>>
    BY <1>1, StreamsFacts
  <2>2. pipe'[0] = Append(b, Head(x)) /\ toPush' = Tail(x)
    BY <1>1, <1>2
  <2>. HIDE DEF a, b, x
  <2>3. a \o b \in Seq(Tokens)
    BY <2>1, TokensConcat
  <2>4. Append(a \o b, Head(x)) \o Tail(x) = (a \o b) \o x /\ Head(x) \in Tokens
    BY <2>1, <2>3, MoveHead
  <2>5. a \o Append(b, Head(x)) = Append(a \o b, Head(x))
    BY <2>1, <2>4, ConcatAppend
  <2>6. (a \o pipe'[0]) \o toPush' = (a \o b) \o x
    BY <2>2, <2>4, <2>5
  <2>. QED  BY <2>6 DEF a, b, x
<1>5. C \in [1..N + 1 -> Seq(Tokens)] /\ pipe'[N] = pipe[N]
  BY <1>2, StreamsFacts DEF Streams
<1>. QED  BY <1>1, <1>3, <1>4, <1>5 DEF Streams

LEMMA SameStreams ==
    ASSUME NEW C, Streams(C), UNCHANGED chainVars
    PROVE  Streams(C)'
<1>1. pipe' = pipe /\ held' = held /\ fstate' = fstate
  BY DEF chainVars
<1>. QED  BY <1>1 DEF Streams

\* A chain that is empty and whose filters remember nothing starts anew.
LEMMA RestStreams ==
    ASSUME \A i \in 0..N : pipe[i] = <<>>, \A i \in 1..N : held[i] = <<>> /\ fstate[i] = Fresh,
           NEW C, C = [k \in 1..N + 1 |-> <<>>]
    PROVE  /\ Streams(C) /\ C[1] = <<>> /\ C[N + 1] = <<>>
<1>2. C \in [1..N + 1 -> Seq(Tokens)]
  BY EmptySeq
<1>3. N \in Nat \ {0}
  BY ChainConstants
<1>4. ASSUME NEW j \in 1..N
      PROVE  SentBy(Filter[j], fstate[j], C[j], (C[j + 1] \o pipe[j]) \o held[j])
  <2>1. j \in 0..N /\ j \in 1..N + 1 /\ j + 1 \in 1..N + 1
    BY <1>3
  <2>2. pipe[j] = <<>> /\ held[j] = <<>> /\ fstate[j] = Fresh /\ C[j] = <<>> /\ C[j + 1] = <<>>
    BY <2>1
  <2>3. (C[j + 1] \o pipe[j]) \o held[j] = <<>>
    BY <2>2
  <2>4. After(Filter[j], <<>>).st = Fresh /\ After(Filter[j], <<>>).out = <<>>
    BY AfterNothing DEF Result
  <2>5. Fresh.ended = <<>>
    BY DEF Fresh
  <2>. QED  BY <2>2, <2>3, <2>4, <2>5 DEF SentBy
<1>5. C[1] = <<>> /\ C[N + 1] = <<>>
  BY <1>3
<1>. QED  BY <1>2, <1>4, <1>5 DEF Streams

LEMMA InitStreams ==
    ASSUME ChainInit, NEW C, C = [k \in 1..N + 1 |-> <<>>]
    PROVE  /\ Streams(C) /\ C[1] = <<>> /\ C[N + 1] = <<>>
<1>1. /\ \A i \in 0..N : pipe[i] = <<>>
      /\ \A i \in 1..N : held[i] = <<>> /\ fstate[i] = Fresh
  BY DEF ChainInit
<1>. QED  BY <1>1, RestStreams

\* A filter that holds no token and has no month remembers nothing.
LEMMA StreamsFresh ==
    ASSUME ChainTypeOK, NEW C, Streams(C), NEW i \in 1..N,
           fstate[i].ended = <<>>, fstate[i].buffer = <<>>, fstate[i].month = <<>>
    PROVE  fstate[i] = Fresh
<1>1. /\ Filter[i] \in Kinds /\ C[i] \in Seq(Tokens) /\ fstate[i] \in FilterStates
      /\ SentBy(Filter[i], fstate[i], C[i], (C[i + 1] \o pipe[i]) \o held[i])
  BY StreamsFacts
<1>2. After(Filter[i], C[i]).st = fstate[i]
  BY <1>1, SentType
<1>3. Settled(Filter[i], fstate[i]) /\ NoDayAlone(fstate[i])
  BY <1>1, <1>2, AfterType, AfterDates
<1>4. fstate[i].day = <<>> /\ fstate[i].next = 1 /\ fstate[i].start = 1
  BY <1>3 DEF NoDayAlone, Settled
<1>. QED  BY <1>1, <1>4 DEF FilterStates, Fresh

\* No symbol gets behind a filter.
LEMMA StreamsSend ==
    ASSUME ChainTypeOK, NEW C, Streams(C), NEW i \in 1..N
    PROVE  (C[i + 1] \o pipe[i]) \o held[i] \in Seq(Sendable)
<1>. DEFINE kind == Filter[i]
            st == fstate[i]
            c == C[i]
            e == (C[i + 1] \o pipe[i]) \o held[i]
<1>1. kind \in Kinds /\ c \in Seq(Tokens) /\ SentBy(kind, st, c, e)
  BY StreamsFacts
<1>. HIDE DEF kind, st, c, e
<1>2. e \in Seq(Sendable)
  <2>1. CASE After(kind, c).out = e
    BY <1>1, <2>1, AfterSendable
  <2>2. CASE After(kind, c).out # e
    <3>1. PICK b \in Seq(Tokens) :
               LoopOK(st) /\ e = After(kind, b).out \o Phrases(st.buffer)[st.next - 1]
      BY <1>1, <2>2 DEF SentBy
    <3>2. st.buffer \in Seq(Tokens) /\ st.next - 1 \in 0..Len(st.buffer)
      BY <3>1, LenProperties DEF LoopOK
    <3>3. /\ After(kind, b).out \in Seq(Sendable)
          /\ Phrases(st.buffer)[st.next - 1] \in Seq(Sendable)
      BY <1>1, <3>2, AfterSendable, PhrasesSendable
    <3>. QED  BY <3>1, <3>3, ConcatProperties
  <2>. QED  BY <2>1, <2>2
<1>. QED  BY <1>2 DEF e

LEMMA SendableHead ==
    ASSUME NEW a \in Seq(Tokens), NEW b \in Seq(Tokens), NEW c \in Seq(Tokens), b # <<>>,
           (a \o b) \o c \in Seq(Sendable)
    PROVE  Head(b) \in Sendable
<1>1. Len(a) \in Nat /\ Len(b) \in Nat \ {0} /\ Len(c) \in Nat /\ Head(b) = b[1]
  BY EmptySeq, LenProperties, HeadTailProperties
<1>2. a \o b \in Seq(Tokens) /\ Len(a \o b) = Len(a) + Len(b) /\ (a \o b)[Len(a) + 1] = b[1]
  BY <1>1, ConcatProperties
<1>. DEFINE d == a \o b
            k == Len(a) + 1
<1>3. d \in Seq(Tokens) /\ k \in 1..Len(d) /\ d[k] = Head(b) /\ d \o c \in Seq(Sendable)
  BY <1>1, <1>2
<1>. HIDE DEF d, k
<1>4. Len(d \o c) = Len(d) + Len(c) /\ (d \o c)[k] = d[k] /\ Len(d) \in Nat
  BY <1>3, ConcatProperties, LenProperties
<1>5. k \in 1..Len(d \o c)
  BY <1>1, <1>3, <1>4
<1>. QED  BY <1>3, <1>4, <1>5, ElementOfSeq

\* What the filters make of some tokens, one filter after the other.
LEMMA StagesType ==
    ASSUME NEW s \in Seq(Tokens)
    PROVE  \A k \in 0..N : Stages(Filter, s)[k] \in Seq(Tokens)
<1>. DEFINE f == Stages(Filter, s)
            T == {k \in Nat : k <= N => f[k] \in Seq(Tokens)}
<1>0. N \in Nat /\ Len(Filter) = N /\ \A i \in 1..N : Filter[i] \in Kinds
  BY ChainConstants DEF N
<1>1. f[0] = s /\ \A k \in 1..N : f[k] = After(Filter[k], f[k - 1]).out
  <2>1. Len(Filter) \in Nat
    BY <1>0
  <2>2. f[0] = s /\ \A k \in 1..Len(Filter) : f[k] = After(Filter[k], f[k - 1]).out
    BY <2>1, StagesStep
  <2>. QED  BY <1>0, <2>2
<1>. HIDE DEF f
<1>2. 0 \in T
  BY <1>1
<1>3. ASSUME NEW k \in Nat, k \in T PROVE k + 1 \in T
  <2>. SUFFICES ASSUME k + 1 <= N PROVE f[k + 1] \in Seq(Tokens)
    OBVIOUS
  <2>1. k + 1 \in 1..N /\ (k + 1) - 1 = k /\ k <= N
    BY <1>0
  <2>2. f[k + 1] = After(Filter[k + 1], f[k]).out /\ f[k] \in Seq(Tokens) /\ Filter[k + 1] \in Kinds
    BY <1>0, <1>1, <1>3, <2>1
  <2>. QED  BY <2>2, AfterType
<1>. HIDE DEF T
<1>4. Nat \subseteq T
  BY <1>2, <1>3, NatSetInduction
<1>. QED  BY <1>0, <1>4 DEF T, f

LEMMA PassAllType ==
    ASSUME NEW s \in Seq(Tokens)
    PROVE  PassAll(Filter, s) \in Seq(Tokens)
<1>1. N \in 0..N /\ PassAll(Filter, s) = Stages(Filter, s)[N]
  BY ChainConstants DEF PassAll, N
<1>. QED  BY <1>1, StagesType

\* Whatever of the tokens has got anywhere is a beginning of what will.
LEMMA StreamsBegin ==
    ASSUME ChainTypeOK, NEW C, Streams(C), NEW s \in Seq(Tokens), BeginsWith(s, C[1])
    PROVE  BeginsWith(PassAll(Filter, s), C[N + 1])
<1>. DEFINE f == Stages(Filter, s)
            T == {k \in Nat : k <= N => BeginsWith(f[k], C[k + 1])}
<1>0. N \in Nat /\ Len(Filter) = N /\ \A k \in 0..N : f[k] \in Seq(Tokens)
  BY ChainConstants, StagesType DEF N
<1>1. f[0] = s /\ \A k \in 1..N : f[k] = After(Filter[k], f[k - 1]).out
  <2>1. Len(Filter) \in Nat
    BY <1>0
  <2>2. f[0] = s /\ \A k \in 1..Len(Filter) : f[k] = After(Filter[k], f[k - 1]).out
    BY <2>1, StagesStep
  <2>. QED  BY <1>0, <2>2
<1>5. PassAll(Filter, s) = f[N]
  BY <1>0 DEF PassAll
<1>. HIDE DEF f
<1>2. 0 \in T
  BY <1>1
<1>3. ASSUME NEW k \in Nat, k \in T PROVE k + 1 \in T
  <2>. SUFFICES ASSUME k + 1 <= N PROVE BeginsWith(f[k + 1], C[(k + 1) + 1])
    OBVIOUS
  <2>. DEFINE n == k + 1
              e == (C[n + 1] \o pipe[n]) \o held[n]
              did == After(Filter[n], C[n])
  <2>1. n \in 1..N /\ n - 1 = k /\ k \in 0..N /\ n \in 0..N
    BY <1>0
  <2>2. f[n] = After(Filter[n], f[k]).out /\ f[k] \in Seq(Tokens) /\ BeginsWith(f[k], C[n])
        /\ f[n] \in Seq(Tokens)
    BY <1>0, <1>1, <1>3, <2>1
  <2>. HIDE DEF n
  <2>3. /\ SentBy(Filter[n], fstate[n], C[n], e) /\ Filter[n] \in Kinds /\ C[n] \in Seq(Tokens)
        /\ C[n + 1] \in Seq(Tokens) /\ pipe[n] \in Seq(Tokens) /\ held[n] \in Seq(Tokens)
    BY <2>1, StreamsFacts
  <2>. HIDE DEF did
  <2>4. BeginsWith(f[n], did.out) /\ did.out \in Seq(Tokens)
    BY <2>2, <2>3, AfterBegins, AfterType DEF did
  <2>5. BeginsWith(did.out, e) /\ e \in Seq(Tokens)
    <3>. HIDE DEF e
    <3>. QED  BY <2>3, SentType DEF did
  <2>6. BeginsWith(e, C[n + 1])
    <3>. DEFINE a == C[n + 1]
                b == pipe[n]
                x == held[n]
    <3>0. e = (a \o b) \o x /\ a \in Seq(Tokens) /\ b \in Seq(Tokens) /\ x \in Seq(Tokens)
      BY <2>3
    <3>. HIDE DEF a, b, x, e
    <3>1. (a \o b) \o x = a \o (b \o x)
      BY <3>0, TokensConcat, SMTT(30)
    <3>2. b \o x \in Seq(Tokens)
      BY <3>0, TokensConcat
    <3>. QED  BY <3>0, <3>1, <3>2 DEF BeginsWith, a
  <2>. HIDE DEF e
  <2>7. BeginsWith(f[n], e)
    BY <2>2, <2>4, <2>5, BeginsWithFacts
  <2>8. BeginsWith(f[n], C[n + 1])
    BY <2>2, <2>3, <2>5, <2>6, <2>7, BeginsWithFacts
  <2>. QED  BY <2>8 DEF n
<1>. HIDE DEF T
<1>4. N \in T
  BY <1>0, <1>2, <1>3, NatSetInduction
<1>6. N \in 0..N
  BY <1>0
<1>. QED  BY <1>0, <1>4, <1>5, <1>6 DEF T

\* When nothing is left in the chain, all that was to come out has.
LEMMA StreamsDone ==
    ASSUME NEW C, C \in [1..N + 1 -> Seq(Tokens)], NEW st,
           \A i \in 1..N : st[i].ended = <<>> /\ SentBy(Filter[i], st[i], C[i], C[i + 1])
    PROVE  C[N + 1] = PassAll(Filter, C[1])
<1>. DEFINE f == Stages(Filter, C[1])
            T == {k \in Nat : k <= N => C[k + 1] = f[k]}
<1>0. N \in Nat /\ Len(Filter) = N
  BY ChainConstants DEF N
<1>1. f[0] = C[1] /\ \A k \in 1..N : f[k] = After(Filter[k], f[k - 1]).out
  <2>1. Len(Filter) \in Nat
    BY <1>0
  <2>2. f[0] = C[1] /\ \A k \in 1..Len(Filter) : f[k] = After(Filter[k], f[k - 1]).out
    BY <2>1, StagesStep
  <2>. QED  BY <1>0, <2>2
<1>5. PassAll(Filter, C[1]) = f[N]
  BY <1>0 DEF PassAll
<1>. HIDE DEF f
<1>2. 0 \in T
  BY <1>1
<1>3. ASSUME NEW k \in Nat, k \in T PROVE k + 1 \in T
  <2>. SUFFICES ASSUME k + 1 <= N PROVE C[(k + 1) + 1] = f[k + 1]
    OBVIOUS
  <2>. DEFINE n == k + 1
  <2>1. n \in 1..N /\ n - 1 = k /\ n \in 1..N + 1
    BY <1>0
  <2>2. f[n] = After(Filter[n], C[n]).out
    BY <1>0, <1>1, <1>3, <2>1
  <2>. HIDE DEF n
  <2>3. /\ SentBy(Filter[n], st[n], C[n], C[n + 1]) /\ st[n].ended = <<>>
        /\ Filter[n] \in Kinds /\ C[n] \in Seq(Tokens)
    BY <2>1, ChainConstants
  <2>4. After(Filter[n], C[n]).out = C[n + 1]
    BY <2>3, SentType
  <2>. QED  BY <2>2, <2>4 DEF n
<1>. HIDE DEF T
<1>4. N \in T
  BY <1>0, <1>2, <1>3, NatSetInduction
<1>. QED  BY <1>0, <1>4, <1>5 DEF T
=============================================================================

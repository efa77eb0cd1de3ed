------------------------------ MODULE Filters ------------------------------
(***************************************************************************)
(* The token filters of indexer/filters: what a filter's goroutine sends   *)
(* on for each token it reads, and the state it keeps between tokens.      *)
(*                                                                         *)
(* A text is a sequence of words; a token of a document has one, and only  *)
(* dates and phrases join several.  What the regular expressions, the      *)
(* stemmer and the lists of a filter recognise is given by the constants.  *)
(***************************************************************************)
EXTENDS Integers, Sequences, FiniteSets, SequencesExt

CONSTANTS
    Words,          \* what a text is made of
    Rewrite,        \* filter -> the texts it rewrites -> the texts it makes of one
    StopWords,      \* texts in the stop word list
    MonthNames,     \* texts that name a month -> its name in full
    MonthNumbers,   \* the same texts -> its two digits
    DayNumbers,     \* texts that parse as a day of a month -> its two digits
    Years,          \* texts that parse as a number -> its four digits
    FullDates,      \* texts such as 3-12-1999 -> the date's text
    PhraseLen,      \* -phrase.len
    TfPercent,      \* -phrase.stop, in percent
    ShortBuffer     \* 25 in the code: no stop words in a shorter document

Kinds == {"digits", "dates", "hyphens", "slashes", "acronyms", "filename",
          "lower", "porter", "stopwords", "phrases", "null"}
Rewriters == {"digits", "hyphens", "slashes", "acronyms", "filename", "lower",
              "porter"}

Texts == Seq(Words) \ {<<>>}

ASSUME WordsAssumption == {"", "00", "0000"} \subseteq Words
ASSUME RewriteAssumption ==
    /\ DOMAIN Rewrite = Rewriters
    /\ \A k \in Rewriters : \A w \in DOMAIN Rewrite[k] :
            Rewrite[k][w] \in Seq(Texts) \ {<<>>}
ASSUME DatesAssumption ==
    /\ \A w \in DOMAIN MonthNames : MonthNames[w] \in Texts /\ MonthNumbers[w] \in Words
    /\ \A w \in DOMAIN DayNumbers : DayNumbers[w] \in Words
    /\ \A w \in DOMAIN Years : Years[w] \in Words
    /\ \A w \in DOMAIN FullDates : FullDates[w] \in Texts
ASSUME PhraseAssumption ==
    PhraseLen \in Nat \ {0} /\ TfPercent \in Nat /\ ShortBuffer \in Nat

\* A token: doc, text, type ("text", "symbol", "null"), phrase (PhraseId), final.
NullToken(d) ==
    [doc |-> d, text |-> <<"">>, type |-> "null", phrase |-> 0, final |-> TRUE]

Tokens == [doc : Nat, text : Texts, type : {"text", "symbol", "null"},
           phrase : Nat, final : BOOLEAN]

CloneWithText(tok, text) == [tok EXCEPT !.text = text, !.final = TRUE]

\* The matches of DateFilter (<<>>: none) and the fields of PhraseFilter; ended is
\* the Null token NotifyDocComplete is working for, next and start its loop.
Fresh == [month |-> <<>>, day |-> <<>>, buffer |-> <<>>, ended |-> <<>>,
          next |-> 1, start |-> 1]

FilterStates == [month : Seq(Words), day : Seq(Words), buffer : Seq(Tokens),
                 ended : Seq(Tokens), next : Nat, start : Nat]

Result(out, st) == [out |-> out, st |-> st]
-----------------------------------------------------------------------------
(* DateFilter.Apply.                                                       *)

\* makeDateRepr: month, day and year, each a word.
OrZeros(match, zeros) == IF match = <<>> THEN zeros ELSE match[1]
DateToken(st, tok, year) ==
    CloneWithText(tok, <<st.month[1], OrZeros(st.day, "00"), OrZeros(year, "0000")>>)

\* DateBegin: a whole date and a month become final, and a month is remembered.
BeginDate(st, tok) ==
    IF tok.text \in DOMAIN FullDates
    THEN Result(<<CloneWithText(tok, FullDates[tok.text])>>, Fresh)
    ELSE IF tok.text \in DOMAIN MonthNames
         THEN Result(<<CloneWithText(tok, MonthNames[tok.text])>>,
                     [st EXCEPT !.month = <<MonthNumbers[tok.text]>>])
         ELSE Result(<<tok>>, st)

\* DateMonth: a day is swallowed, a year completes the date, anything else
\* ends it (and is not looked at again).
AfterMonth(st, tok) ==
    CASE tok.text \in DOMAIN DayNumbers ->
            Result(<<>>, [st EXCEPT !.day = <<DayNumbers[tok.text]>>])
      [] tok.text \in DOMAIN Years \ DOMAIN DayNumbers ->
            Result(<<tok, DateToken(st, tok, <<Years[tok.text]>>)>>, Fresh)
      [] OTHER -> Result(<<tok>>, Fresh)

\* DateDayMonth: a year completes the date, anything else completes it
\* without one and is parsed again.
AfterDay(st, tok) ==
    IF tok.text \in DOMAIN Years
    THEN Result(<<tok, DateToken(st, tok, <<Years[tok.text]>>)>>, Fresh)
    ELSE LET again == BeginDate(Fresh, tok)
         IN  Result(<<DateToken(st, tok, <<>>)>> \o again.out, again.st)

ApplyDates(st, tok) ==
    IF st.month = <<>> THEN BeginDate(st, tok)
    ELSE IF st.day = <<>> THEN AfterMonth(st, tok) ELSE AfterDay(st, tok)
-----------------------------------------------------------------------------
(* PhraseFilter.NotifyDocComplete.                                         *)

\* The texts frequent enough in the buffer to count as stop words.
Frequent(buffer) ==
    LET texts == {buffer[k].text : k \in DOMAIN buffer}
        freq == [w \in texts |-> Cardinality({k \in DOMAIN buffer : buffer[k].text = w})]
    IN  IF Len(buffer) < ShortBuffer THEN {}
        ELSE {w \in texts : \A v \in texts : 100 * freq[w] >= TfPercent * freq[v]}

\* makePhrase: the terms, each a single word, as a final token.
MakePhrase(terms) ==
    [doc |-> terms[1].doc, text |-> [k \in 1..Len(terms) |-> terms[k].text[1]],
     type |-> "text", phrase |-> 0, final |-> TRUE]

\* The loop visits a token: the terms since start are a phrase when the token
\* is a stop word or of another PhraseId, or when there are enough of them.
Visit(st) ==
    LET tok == st.buffer[st.next]
        terms == SubSeq(st.buffer, st.start, st.next - 1)
        stops == tok.text \in Frequent(st.buffer)
        differs == ~stops /\ terms # <<>> /\ terms[1].phrase # tok.phrase
        full == ~stops /\ ~differs /\ Len(terms) >= PhraseLen
    IN  Result(IF terms # <<>> /\ (stops \/ differs \/ full)
               THEN <<MakePhrase(terms)>> ELSE <<>>,
               [st EXCEPT !.next = @ + 1,
                          !.start = CASE stops -> st.next + 1
                                      [] differs -> st.next
                                      [] full -> @ + 1
                                      [] OTHER -> @])

\* Mutant: the filter is not reset for the next document.
FlushNoReset(st) == IF st.next <= Len(st.buffer) THEN Visit(st)
                    ELSE Result(st.ended, [st EXCEPT !.ended = <<>>])

\* What is pending when the loop ends is not sent; the filter is reset.
Flush(st) == IF st.next <= Len(st.buffer) THEN Visit(st) ELSE Result(st.ended, Fresh)

\* What the loop should send: of each run of tokens of one PhraseId without a
\* stop word, the terms that end at b, at most PhraseLen of them, when they
\* are that many or the run ends there.
Apart(buffer, k, b) ==
    buffer[k].text \in Frequent(buffer) \/ buffer[k].phrase # buffer[b].phrase
Begins(buffer, b) ==
    {a \in 1..b : b - a < PhraseLen /\ \A k \in a..b : ~Apart(buffer, k, b)}
PhraseEnds(buffer, b) ==
    /\ ~Apart(buffer, b, b)
    /\ b - Min(Begins(buffer, b)) + 1 = PhraseLen \/ Apart(buffer, b + 1, b)
PhraseTo(buffer, b) == MakePhrase(SubSeq(buffer, Min(Begins(buffer, b)), b))

\* All it should have sent when it has visited k tokens.
Phrases(buffer) ==
    LET sent[k \in 0..Len(buffer)] ==
            IF k <= 1 THEN <<>>
            ELSE IF PhraseEnds(buffer, k - 1)
                 THEN Append(sent[k - 1], PhraseTo(buffer, k - 1)) ELSE sent[k - 1]
    IN  sent
-----------------------------------------------------------------------------
Clones(kind, tok) ==
    IF tok.text \in DOMAIN Rewrite[kind]
    THEN [k \in DOMAIN Rewrite[kind][tok.text] |->
             CloneWithText(tok, Rewrite[kind][tok.text][k])]
    ELSE <<>>

\* The digit, acronym, hyphen and slash filters replace what they recognise.
Replace(kind, tok) == IF Clones(kind, tok) = <<>> THEN <<tok>> ELSE Clones(kind, tok)
\* A file name is sent without its extension, and then as it is.
ApplyFilename(tok) == Clones("filename", tok) \o <<tok>>
\* The copy in lower case is as final as the token was.
ApplyLower(tok) ==
    <<[tok EXCEPT !.text = IF @ \in DOMAIN Rewrite["lower"] THEN Rewrite["lower"][@][1] ELSE @]>>
\* A stem is final, also when it is the word itself.
ApplyPorter(tok) ==
    IF Clones("porter", tok) = <<>> THEN <<CloneWithText(tok, tok.text)>>
    ELSE Clones("porter", tok)
ApplyStopWords(tok) == IF tok.text \in StopWords THEN <<>> ELSE <<tok>>
ApplyPhrases(st, tok) == Result(<<>>, [st EXCEPT !.buffer = Append(@, tok)])

\* Apply of each filter; null changes nothing.
Apply(kind, st, tok) ==
    CASE kind \in {"digits", "acronyms", "hyphens", "slashes"} -> Result(Replace(kind, tok), st)
      [] kind = "filename" -> Result(ApplyFilename(tok), st)
      [] kind = "lower" -> Result(ApplyLower(tok), st)
      [] kind = "porter" -> Result(ApplyPorter(tok), st)
      [] kind = "dates" -> ApplyDates(st, tok)
      [] kind = "stopwords" -> Result(ApplyStopWords(tok), st)
      [] kind = "phrases" -> ApplyPhrases(st, tok)
      [] kind = "null" -> Result(<<tok>>, st)

\* One round of apply(): symbols end here, Null starts NotifyDocComplete of the
\* phrase filter, final tokens pass (not by the lower case filter), the rest
\* is the filter's.
React(kind, st, tok) ==
    CASE tok.type = "symbol" -> Result(<<>>, st)
      [] tok.type = "null" ->
            IF kind = "phrases" THEN Result(<<>>, [st EXCEPT !.ended = <<tok>>])
            ELSE Result(<<tok>>, st)
      [] tok.type = "text" /\ tok.final /\ kind # "lower" -> Result(<<tok>>, st)
      [] tok.type = "text" /\ ~(tok.final /\ kind # "lower") -> Apply(kind, st, tok)
-----------------------------------------------------------------------------
\* What a filter, and a chain of them, make of all the tokens they get.  The
\* date filter does not hear of a document's end and goes on with its date.
AfterNext(kind, did, tok) ==
    LET r == React(kind, did.st, tok)
        buffer == r.st.buffer
    IN  IF r.st.ended = <<>> THEN Result(did.out \o r.out, r.st)
        ELSE Result(did.out \o Phrases(buffer)[Len(buffer)] \o <<tok>>, Fresh)

After(kind, tokens) ==
    LET did[k \in 0..Len(tokens)] ==
            IF k = 0 THEN Result(<<>>, Fresh) ELSE AfterNext(kind, did[k - 1], tokens[k])
    IN  did[Len(tokens)]

\* The tokens behind each filter, the first with nothing before it.
Stages(chain, tokens) ==
    LET stage[i \in 0..Len(chain)] ==
            IF i = 0 THEN tokens ELSE After(chain[i], stage[i - 1]).out
    IN  stage
PassAll(chain, tokens) == Stages(chain, tokens)[Len(chain)]

\* The texts of a document among some tokens.
TextsOf(d, tokens) ==
    LET texts[k \in 0..Len(tokens)] ==
            IF k = 0 THEN <<>>
            ELSE IF tokens[k].doc = d /\ tokens[k].type = "text"
                 THEN Append(texts[k - 1], tokens[k].text) ELSE texts[k - 1]
    IN  texts[Len(tokens)]
=============================================================================

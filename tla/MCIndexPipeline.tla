-------------------------- MODULE MCIndexPipeline --------------------------
(* Small instances of IndexPipeline for TLC. *)
EXTENDS IndexPipeline

Word(w) == [text |-> <<w>>, type |-> "text", phrase |-> 1]
\* A word of the next phrase.
Later(w) == [text |-> <<w>>, type |-> "text", phrase |-> 2]
Symbol == [text |-> <<";">>, type |-> "symbol", phrase |-> 1]

AllWords == STRING
Singles(words) == {<<w>> : w \in words}
SmallRewrite == [k \in Rewriters |->
    CASE k = "hyphens" -> [w \in Singles({"f-16", "re-do"}) |->
            IF w = <<"f-16">> THEN <<<<"f16">>>> ELSE <<<<"redo">>, <<"do">>>>]
      [] k = "porter" -> [w \in Singles({"jets"}) |-> <<<<"jet">>>>]
      [] k = "lower" -> [w \in Singles({"The"}) |-> <<<<"the">>>>]
      [] OTHER -> [w \in {} |-> <<>>]]
SmallStopWords == Singles({"the"})
SmallMonthNames == [w \in Singles({"march", "mar"}) |-> <<"March">>]
SmallMonthNumbers == [w \in Singles({"march", "mar"}) |-> "03"]
SmallDays == [w \in Singles({"2nd"}) |-> "02"]
SmallYears == [w \in Singles({"2", "99"}) |-> IF w = <<"2">> THEN "0002" ELSE "0099"]
SmallFullDates == [w \in Singles({"3-2-99"}) |-> <<"03", "02", "1999">>]

\* A chain as SetupIndex builds it: a filter with state, one that splits, one
\* that drops.
DateChain == <<"dates", "hyphens", "lower", "stopwords">>
PhraseChain == <<"phrases", "stopwords">>

\* The first document ends in a month, and the third begins with a day.
ThreeDocuments ==
    << <<Word("re-do"), Symbol, Word("mar")>>,
       <<>>,
       <<Word("2nd"), Word("The"), Word("3-2-99")>> >>
\* The first document has two clauses and enough words to have stop words, the
\* third has not.
PhraseDocuments ==
    << <<Word("the"), Word("jets"), Word("the"), Word("march"), Word("f-16"), Later("the"),
         Later("2nd"), Later("jets")>>,
       <<>>,
       <<Word("march"), Word("re-do"), Word("jets"), Word("f-16")>> >>

\* The document of the phrase filter's test, each clause with its PhraseId, and
\* the phrases the test expects of it.
Clauses == << <<"I", "once", "was", "a", "young", "man">>, <<"When", "I", "was">>,
              <<"I", "played", "with", "shoes">>,
              <<"frequently", "I", "would", "wear", "them">>, <<"Tarnation">> >>
TestDocument ==
    FlattenSeq([p \in DOMAIN Clauses |->
        [k \in DOMAIN Clauses[p] |->
            [text |-> <<Clauses[p][k]>>, type |-> "text", phrase |-> p]]])
TestDocuments == <<TestDocument>>
TestChain == <<"phrases">>
TestPhrases == << <<"once">>, <<"a", "young">>, <<"young", "man">>, <<"When">>,
                  <<"played", "with">>, <<"with", "shoes">>, <<"frequently">>,
                  <<"would", "wear">>, <<"wear", "them">>, <<"Tarnation">> >>

\* (phrases_test.go:6 expects "once" first and no phrase with "I" or "was", and
\* phrases_test.go:15 "Tarnation" last.)  The phrases the test of the phrase filter
\* expects of its document are what the lexicon holds when that document is
\* counted and nothing was lost on the way (NotifyDocComplete).
TestPhrasesAreIndexed == docCount = 1 /\ dropped = {} => index[1] = TestPhrases
=============================================================================

--------------------------- MODULE MCQueryEngine ---------------------------
(* Small instances of QueryEngine for TLC. *)
EXTENDS QueryEngine

Word(w) == [text |-> <<w>>, type |-> "text", phrase |-> 1]
Symbol == [text |-> <<";">>, type |-> "symbol", phrase |-> 1]
WordsOf(ws) == [k \in DOMAIN ws |-> Word(ws[k])]

AllWords == STRING
Singles(words) == {<<w>> : w \in words}
NoRewrite == [k \in Rewriters |-> [w \in {} |-> <<>>]]
SmallStopWords == Singles({"the"})
SmallMonthNames == [w \in Singles({"mar"}) |-> <<"March">>]
SmallMonthNumbers == [w \in Singles({"mar"}) |-> "03"]
SmallDays == [w \in Singles({"2nd"}) |-> "02"]
SmallYears == [w \in Singles({"99"}) |-> "0099"]
NoDates == [w \in {} |-> <<>>]
SmallChain == <<"dates", "stopwords">>

\* Documents: the terms the filters left, at the positions their words had.
Placed(texts) == [k \in DOMAIN texts |-> [text |-> texts[k], pos |-> k]]
Text(ws) == Placed([k \in DOMAIN ws |-> <<ws[k]>>])
\* The documents after them have no term.
Padded(built, count) == [built EXCEPT !.count = count]

\* In the second document of the first two, every term is new.
SmallIndexes ==
    { IndexOf(FALSE, <<Text(<<"a", "b">>), Text(<<"c", "d">>), Text(<<"b", "b">>)>>),
      IndexOf(TRUE, <<Text(<<"a", "b", "c", "a">>), Text(<<"d", "e">>), Text(<<"a", "x", "b">>),
                      Placed(<<<<"March">>, <<"03", "02", "0000">>, <<"b">>, <<"x">>, <<"d">>>>)>>),
      IndexOf(TRUE, <<Text(<<"a">>)>>),
      Padded(IndexOf(FALSE, <<Text(<<"a", "b">>)>>), 101),
      Padded(IndexOf(TRUE, <<Text(<<"a", "b">>), Text(<<"a">>)>>), 200) }

Ask(ws, engine, thresh, force) ==
    [type |-> "phrase", engine |-> engine, force |-> force, thresh |-> thresh,
     term |-> <<"">>, tokens |-> WordsOf(ws)]
Stats(w) ==
    [type |-> "stats", engine |-> "", force |-> FALSE, thresh |-> 100, term |-> <<w>>,
     tokens |-> <<>>]

\* One query leaves a date, another begins with what would complete it.  Some
\* fit in filterStart, one only when it is filtered, and the longest has more
\* tokens than all channels, filters and goroutines together hold.
SmallQueries ==
    { Ask(<<"a", "the", "b">>, "BM25", 100, TRUE),
      Ask(<<"the", "a", "the">>, "BM25", 100, FALSE),
      Ask(<<"a", "u", "b">>, "COSINE", 100, FALSE),
      Ask(<<"u", "d">>, "COSINE", 100, FALSE),
      Ask(<<"a", "mar">>, "LM", 100, FALSE),
      Ask(<<"2nd", "b">>, "BM25", 100, FALSE),
      [Ask(<<"b", "c", "a">>, "BM25", 50, FALSE) EXCEPT !.tokens = Append(@, Symbol)],
      Ask(<<"a", "b">>, "TFIDF", 100, FALSE),
      Ask(<<"a", "b", "c", "d", "a", "b", "c", "d", "a", "b", "c">>, "BM25", 100, TRUE),
      Stats("a"), Stats("u") }

\* A positional index with many terms in few documents.
SmallMeans == {[terms |-> 100, docs |-> 1]}
=============================================================================

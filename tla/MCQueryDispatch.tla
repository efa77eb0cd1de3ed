-------------------------- MODULE MCQueryDispatch --------------------------
(* A small instance of QueryDispatch for TLC. *)
EXTENDS QueryDispatch

TwoEngines == {"single", "positional"}
SmallTags == TwoEngines \cup {"stem"}    \* no stemmed index is loaded
SmallTexts == {"common", "rare", "odd"}
SmallFinds ==
    [e \in TwoEngines |-> [t \in SmallTexts |->
        CASE t = "common" -> "enough"
          [] t = "rare" -> "few"
          [] t = "odd" -> IF e = "single" THEN "few" ELSE "none"]]

Phrase(t, prefs) == [text |-> t, type |-> "phrase", ranked |-> TRUE, prefs |-> prefs]

\* Found at once, found when forced, forced in vain, unknown and then forced,
\* never forced, unranked, statistics.
SmallQueries ==
    { Phrase("common", <<"single", "positional">>),
      Phrase("rare", <<"positional", "single">>),
      Phrase("odd", <<"stem", "single", "positional">>),
      Phrase("rare", <<"single", "stem">>),
      [Phrase("common", <<"positional">>) EXCEPT !.ranked = FALSE],
      [Phrase("odd", <<"positional", "single">>) EXCEPT !.type = "stats"] }
=============================================================================

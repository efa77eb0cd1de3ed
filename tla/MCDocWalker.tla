---------------------------- MODULE MCDocWalker ----------------------------
(* A small instance of DocWalker for TLC. *)
EXTENDS DocWalker

SmallWords == {"a", "b"}
SmallSymbols == {"&"}

File(tokens) == [kind |-> "file", tokens |-> tokens]
Skipped == [kind |-> "skipped", tokens |-> <<>>]
Locked == [kind |-> "locked", tokens |-> <<>>]

Titled(name) == <<"DOC", "DOCNO">> \o name \o <<"/DOCNO">>

\* Two documents, one of them empty; a name inside the text, given twice,
\* with a symbol in it; a second document that goes on where the text of the
\* first was not closed; the end of the file in a document.
TwoDocuments == Titled(<<"a">>) \o <<"TEXT", "a", "&", "/TEXT", "b", "/DOC">>
                    \o Titled(<<>>) \o <<"/DOC">>
NamedTwice ==
    Titled(<<"a">>) \o <<"TEXT", "b", "DOCNO", "b", "&", "/DOCNO", "a", "OTHER", "b", "/DOC">>
NotClosed ==
    Titled(<<"a">>) \o <<"TEXT", "a", "/DOC">> \o Titled(<<"b">>) \o <<"b", "/DOC">>
Truncated ==
    Titled(<<"b">>) \o <<"TEXT", "b", "/TEXT", "/DOC">> \o Titled(<<"a">>)
Small == Titled(<<"a">>) \o <<"/DOC">>

\* A text or an end before the name, the scanner's panic, an open '<'.
Unnamed == NotClosed \o <<"DOC", "TEXT", "a">>
EndOnly == <<"/DOC">>
Broken == Titled(<<"b">>) \o <<"TEXT", "bad", "/DOC">>
Endless == Titled(<<"b">>) \o <<"/DOC", "endless">>

SmallTrees ==
    { <<Skipped, Skipped, Skipped>>, <<Skipped, Locked, File(NotClosed)>>,
      <<File(TwoDocuments), Skipped, File(NotClosed)>>,
      <<File(NamedTwice), File(Truncated), Skipped>>,
      <<Skipped, File(<<>>), File(<<"OTHER">>)>>,
      <<File(Small), File(<<"OTHER">>), File(Small)>>,
      <<File(Truncated), Skipped, Locked>>,
      <<File(Unnamed), Skipped, File(TwoDocuments)>>,
      <<File(Broken), File(Small), Skipped>>,
      <<File(Endless), File(EndOnly), File(<<>>)>> }
=============================================================================

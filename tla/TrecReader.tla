----------------------------- MODULE TrecReader -----------------------------
(***************************************************************************)
(* TrecFileReader.read_next_doc: from the tokens of a file to its          *)
(* documents.  A file is the sequence of what its tokenizer returns: an    *)
(* XML token is its tag ("DOC", "/DOC", ...), any other token a word.      *)
(* "bad" is where the scanner panics, "endless" a '<' without its '>',     *)
(* whose parse never returns.                                              *)
(***************************************************************************)
EXTENDS Integers, Sequences, FiniteSets

CONSTANTS
    Words,          \* tokens of type Text
    Symbols,        \* tokens of type Symbol
    NoDoc           \* nil

Tags == {"DOC", "/DOC", "DOCNO", "/DOCNO", "TEXT", "/TEXT", "OTHER"}
Tokens == Words \cup Symbols \cup Tags \cup {"bad", "endless"}

ASSUME TokensAssumption ==
    /\ Words \cap Symbols = {}
    /\ (Words \cup Symbols) \cap (Tags \cup {"bad", "endless"}) = {}

\* TrecDocument: its number is drawn at random and left out.
NewTrecDocument(origId) == [id |-> origId, tokens |-> <<>>]
Documents == [id : Seq(Words), tokens : Seq(Words \cup Symbols)]
ASSUME NoDocAssumption == NoDoc \notin Documents

\* Mutant: in_text survives the document.
FreshInText == [doc |-> NoDoc, in_text |-> TRUE, in_title |-> FALSE, titlebuf |-> <<>>]

\* The variables of one call of read_next_doc.
Fresh == [doc |-> NoDoc, in_text |-> FALSE, in_title |-> FALSE, titlebuf |-> <<>>]
Scans == [doc : Documents \cup {NoDoc}, in_text : BOOLEAN, in_title : BOOLEAN,
          titlebuf : Seq(Words)]

Panics(s, token) ==
    \/ token = "bad"
    \/ token \in {"TEXT", "/DOC"} /\ s.doc = NoDoc

AfterTag(s, token) ==
    CASE token = "TEXT" -> [s EXCEPT !.in_text = TRUE]
      [] token = "/TEXT" -> [s EXCEPT !.in_text = FALSE]
      [] token = "DOCNO" -> [s EXCEPT !.in_title = TRUE, !.titlebuf = <<>>]
      [] token = "/DOCNO" ->
            [s EXCEPT !.doc = NewTrecDocument(s.titlebuf), !.in_title = FALSE]
      [] token \in {"DOC", "OTHER"} -> s

AfterWord(s, token) ==
    IF s.in_title /\ token \in Words
    THEN [s EXCEPT !.titlebuf = Append(@, token)]
    ELSE IF s.in_text THEN [s EXCEPT !.doc.tokens = Append(@, token)] ELSE s

After(s, token) == IF token \in Tags THEN AfterTag(s, token) ELSE AfterWord(s, token)
-----------------------------------------------------------------------------
(* Reference: the documents of a file, by position.  A document ends with  *)
(* "/DOC", has the name that the last "DOCNO" element before that gives it *)
(* and the tokens after that element that are in a "TEXT" element.         *)

Before(file, i, tags) ==
    {j \in 1 .. i - 1 : /\ file[j] \in tags
                        /\ \A k \in j .. i - 1 : file[k] # "/DOC"}
Latest(S) == CHOOSE i \in S : \A j \in S : j <= i

Within(file, i, open, close) ==
    LET marks == Before(file, i, {open, close})
    IN  marks # {} /\ file[Latest(marks)] = open

Named(file, i) == Before(file, i, {"/DOCNO"}) # {}
FaultAt(file, i) ==
    \/ file[i] \in {"bad", "endless"}
    \/ file[i] \in {"TEXT", "/DOC"} /\ ~Named(file, i)
Faulty(file) == \E i \in DOMAIN file : FaultAt(file, i)

\* The k-th of a set of positions; what a sequence has at the positions S, in
\* their order.
Nth(S, k) == CHOOSE i \in S : Cardinality({j \in S : j < i}) = k - 1
At(seq, S) == [k \in 1 .. Cardinality(S) |-> seq[Nth(S, k)]]

\* The words before i of the "DOCNO" element begun last, the tokens from the
\* position "from" on that are text, and the document they make.
InTitle(file, i) == Within(file, i, "DOCNO", "/DOCNO") /\ file[i] \in Words
TitleBefore(file, i) ==
    LET opened == Before(file, i, {"DOCNO"})
    IN  {j \in 1 .. i - 1 : /\ opened # {} /\ j > Latest(opened)
                            /\ InTitle(file, j)}
TextBefore(file, from, i) ==
    {j \in from .. i - 1 : /\ file[j] \in Words \cup Symbols
                           /\ Within(file, j, "TEXT", "/TEXT")
                           /\ ~InTitle(file, j)}
DocumentAt(file, i) ==
    LET named == Latest(Before(file, i, {"/DOCNO"}))
    IN  [id |-> At(file, TitleBefore(file, named)),
         tokens |-> At(file, TextBefore(file, named, i))]

\* What is read of a file: its documents up to the first fault.
EndsOf(file) ==
    {i \in DOMAIN file : file[i] = "/DOC" /\ \A j \in 1 .. i : ~FaultAt(file, j)}
DocsOf(file) == At([i \in DOMAIN file |-> DocumentAt(file, i)], EndsOf(file))
=============================================================================

---------------------------- MODULE MCCalculator -----------------------------
(* The lines of a session: expressions with what they say, and lines that  *)
(* are none.                                                               *)
EXTENDS Calculator, SequencesExt

MCDigitOf == [d \in {"0", "2", "3", "9"} |->
                CASE d = "0" -> 0 [] d = "2" -> 2 [] d = "3" -> 3 [] d = "9" -> 9]

Term(op, n) == [op |-> op, int |-> n]
Says(text, first, rest) == [text |-> text, first |-> first, rest |-> rest]

MCReading ==
  {Says(<<"2", "3">>, 23, <<>>),
   Says(<<"-", "9", " ">>, -9, <<>>),
   Says(<<"2", "+", "3", "*", "9">>, 2, <<Term("+", 3), Term("*", 9)>>),
   Says(<<"9", "9", "*", "3", "0">>, 99, <<Term("*", 30)>>),
   Says(<<" ", "9", "-", "-", "2">>, 9, <<Term("-", -2)>>),
   Says(<<"2", "-", "3", "-", "9">>, 2, <<Term("-", 3), Term("-", 9)>>),
   Says(<<"3", "2", "0">>, 320, <<>>),
   Says(<<"3", "2", "/", " ", "3">>, 32, <<Term("/", 3)>>),
   Says(<<"-", "9", "/", "2">>, -9, <<Term("/", 2)>>),
   Says(<<"0", "-", "2", "/", "3">>, 0, <<Term("-", 2), Term("/", 3)>>),
   Says(<<"9", "/", "0", "+", "3">>, 9, <<Term("/", 0), Term("+", 3)>>),
   Says(<<"3", " ", "/", "9", "0">>, 3, <<Term("/", 90)>>)}

\* An operator without numbers, a number without operator, and an x.
Misread ==
  {<<>>, <<"-">>, <<"-", "-", "9">>, <<"2", "+">>, <<"3", " ", "3">>,
   <<"2", "x", "3">>, <<"9", "/", "0", "x">>, <<"3", "+", "/", "0">>}

MCExitLine == {<<"x">>}

Typable == {e.text : e \in MCReading} \union Misread \union MCExitLine

MCPrintable == DOMAIN MCDigitOf \union {"+", "-", "*", "/", " ", "x"}

\* The typist types towards one of these lines, with corrections, or one
\* character more than the buffer holds.
Typing(c) ==
  /\ \/ \E t \in Typable : IsPrefix(Append(typed, c), t)
     \/ Len(typed) = BUF_SZ - 1 /\ c = "x"
  /\ Character(c)

MCNext ==
  \/ \E c \in Printable : Typing(c)
  \/ Backspace
  \/ typed \in Typable /\ Enter
  \/ Evaluate
  \/ Prompt

MCSpec == Init /\ [][MCNext]_vars /\ WF_vars(Evaluate)
=============================================================================

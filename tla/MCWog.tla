-------------------------------- MODULE MCWog --------------------------------
(* Programs whose statements are single characters, one with a line that   *)
(* is too long, one that does not fit into the editor.                     *)
EXTENDS Wog, SequencesExt

ShaltInt(v, n) == [op |-> "shalt", var |-> v, value |-> [int |-> n]]
ShaltWord(v, w) == [op |-> "shalt", var |-> v, value |-> [word |-> w]]
BeholdWord(w) == [op |-> "behold", quoted |-> FALSE, word |-> w,
                  number |-> FALSE, text |-> ""]
IfThen(v, rel, n, s) ==
  [op |-> "if", then |-> TRUE, var |-> v, rel |-> rel, int |-> n, stmt |-> s]

MCMeaning ==
  [line \in {<<"[">>, <<"]">>, <<"a">>, <<"b">>, <<"c">>, <<"m">>, <<"s">>, <<"p">>,
             <<"q">>, <<"n">>, <<"i">>, <<"x">>, <<"e">>, <<"a", "p">>} |->
     CASE line = <<"[">> -> [op |-> "begin"]
       [] line = <<"]">> -> [op |-> "end"]
       [] line = <<"a">> -> ShaltInt("A", 1)
       [] line = <<"b">> -> ShaltWord("B", "A")
       [] line = <<"c">> -> ShaltInt("C", 2)
       [] line = <<"m">> -> ShaltInt("A", INT_MIN)
       [] line = <<"s">> -> ShaltWord("C", "A AND B")
       [] line = <<"p">> -> BeholdWord("A")
       [] line = <<"q">> -> BeholdWord("B")
       [] line = <<"n">> -> [op |-> "behold", quoted |-> FALSE, word |-> "7",
                             number |-> TRUE, text |-> "7"]
       [] line = <<"i">> -> IfThen("A", "=", 1, [op |-> "woe", text |-> "no"])
       [] line = <<"x">> -> IfThen("B", "<=", 0, IfThen("A", "=", 1, [op |-> "end"]))
       [] line = <<"e">> -> [op |-> "if", then |-> FALSE, var |-> "A", rel |-> "?",
                             int |-> 0, stmt |-> None]
       [] line = <<"a", "p">> -> IfThen("A", "<>", 0, ShaltInt("A", 0))]

\* Each row is one program; "/" stands for the newline.  Those of the first
\* five are as WOG.MD wants them (the fifth up to where the editor is full).
MCPrograms ==
  {<<"p", "/", "[", "/", "a", "/", "b", "/", "q", "/", "]">>,
   <<"[", "/", "c", "/", "a", "/", "i", "/", "n", "/", "]">>,
   <<"[", "/", "a", "/", "b", "/", "c", "/", "q", "/", "]">>,
   <<"[", "/", "a", "/", "a", "p", "/", "p", "/", "]">>,
   <<"/", "[", "/", "n", "/", "[", "/", "n", "/", "]", "/", "p", "q">>,
   <<"[", "/", "m", "/", "p", "/", "[", "/", "]", "/", "p">>,
   <<"[", "/", "b", "/", "x", "/", "s", "/", "e", "/", "p">>,
   <<"]", "/", "[", "/", "p", "a", "p", "/", "p", "/">>}

VARIABLE goals   \* the programs typed in this session and in the next one

mcvars == <<wog, goals>>

MCInit == Init /\ goals \in [1 .. 2 -> MCPrograms]

\* The typist types towards the goal, may delete and run at any time, and
\* starts a second session on what the first one left.
MCNext ==
  \/ /\ \/ \E c \in EditorChar : IsPrefix(Append(typed, c), Head(goals)) /\ Character(c)
        \/ Len(typed) = MAX_CODE_LEN - 1 /\ Character("p")
        \/ Backspace
        \/ Run
        \/ Step
        \/ AnyKey
        \/ wog_run
     /\ UNCHANGED goals
  \/ Len(goals) = 2 /\ typed = Head(goals) /\ Exit /\ goals' = Tail(goals)

MCSpec == MCInit /\ [][MCNext]_mcvars /\ WF_mcvars(Step /\ UNCHANGED goals)
=============================================================================

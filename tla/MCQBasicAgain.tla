---------------------------- MODULE MCQBasicAgain ---------------------------
(* Programs that are run over and over: those of all kinds of lines, the    *)
(* nests of loops, the ones worth a second run and the counting loops.     *)
EXTENDS MCQBasic, QBasicAgain

MCEvery ==
  MCOf(AllLines, 3) \union MCNested \union MCOf(AgainLines, 5) \union MCCounting

\* Once typed, the same program is run again.  A run overwrites all that the
\* one before left, so that this loses nothing but time, and it keeps the
\* number of steps linear in the number of programs.
SameNext ==
  /\ \/ \E program \in (IF code = <<>> THEN Program ELSE {code}) : Run(program)
     \/ Step
     \/ \E reply \in Reply : Answer(reply)
     \/ AnyKey
  /\ Remember

SameSpec == AgainInit /\ [][SameNext]_again /\ WF_again(Step /\ Remember)
=============================================================================

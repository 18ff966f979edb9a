------------------------------ MODULE Teletype ------------------------------
(***************************************************************************)
(* What the functions of src/kernel/io/vga.c promise their callers, free   *)
(* of row and column arithmetic: a roll of paper of which the last Height  *)
(* lines are seen.  Characters are typed on the last line only, and when a *)
(* line is fed the oldest one may disappear.                               *)
(***************************************************************************)
EXTENDS Integers, Sequences

CONSTANTS Width, Height, Char, Color, Newline, Space, LightGrey

VARIABLES
  lines,   \* the visible lines, oldest first
  column,  \* where the next character goes on the last of them
  ink      \* its colour

vars == <<lines, column, ink>>

BlankCell == [ch |-> Space, color |-> LightGrey]

BlankLine == [x \in 0 .. Width - 1 |-> BlankCell]

\* Typing a space leaves the paper as it is to look at, whatever the ink.
Mark(c) == IF c = Space THEN BlankCell ELSE [ch |-> c, color |-> ink]

Fed(ls) ==
  IF Len(ls) = Height THEN Append(Tail(ls), BlankLine) ELSE Append(ls, BlankLine)

Init ==
  /\ lines = <<BlankLine>>
  /\ column = 0
  /\ ink = LightGrey

TearOff ==
  /\ lines' = <<BlankLine>>
  /\ column' = 0
  /\ ink' = LightGrey

ChangeInk ==
  /\ ink' \in Color
  /\ UNCHANGED <<lines, column>>

Feed ==
  /\ lines' = Fed(lines)
  /\ column' = 0
  /\ UNCHANGED ink

Type(c) ==
  LET typed == [lines EXCEPT ![Len(lines)][column] = Mark(c)]
  IN  /\ IF column = Width - 1
           THEN lines' = Fed(typed) /\ column' = 0
           ELSE lines' = typed /\ column' = column + 1
      /\ UNCHANGED ink

Next ==
  \/ TearOff
  \/ ChangeInk
  \/ Feed
  \/ \E c \in Char \ {Newline} : Type(c)

Spec == Init /\ [][Next]_vars
=============================================================================

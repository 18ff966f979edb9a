------------------------------- MODULE Editor --------------------------------
(***************************************************************************)
(* The text editor that QBASIC (src/kernel/apps/qbasic.c) and WOG          *)
(* (src/kernel/apps/wog.c) have, each in a copy of the same code: an array *)
(* that is typed at its end only, and the loop that cuts it into lines for *)
(* the screen and for the interpreter.                                     *)
(***************************************************************************)
EXTENDS Integers, Sequences

CONSTANTS
  Printable,      \* the characters 32 .. 126 that are typed
  Newline,
  NUL,
  MAX_CODE_LEN,   \* the size of editor_buf, 8192 in the source
  MAX_LINE_LEN,   \* the size of a line's buffer, 256 for WOG, 128 for QBASIC
  SHOWN           \* lines the screen has room for, 19 in the source

ASSUME EditorAssumption ==
  /\ Newline \notin Printable
  /\ NUL \notin Printable \union {Newline}
  /\ MAX_CODE_LEN \in Nat /\ MAX_CODE_LEN > 1
  /\ MAX_LINE_LEN \in Nat /\ MAX_LINE_LEN > 1
  /\ SHOWN \in Nat

EditorChar == Printable \union {Newline}

\* editor_buf and editor_pos.
Editors == [buf : [0 .. MAX_CODE_LEN - 1 -> EditorChar \union {NUL}],
            pos : 0 .. MAX_CODE_LEN - 1]

EditorAt(buf, pos) == [buf |-> buf, pos |-> pos]

Untouched == EditorAt([k \in 0 .. MAX_CODE_LEN - 1 |-> NUL], 0)

\* After every key: editor_buf[editor_pos] = '\0'.
Ended(e) == EditorAt([e.buf EXCEPT ![e.pos] = NUL], e.pos)

Opened(e) == Ended(EditorAt(e.buf, 0))

\* Mutant: no room is kept for the NUL.
HasRoomNotForNUL(e) == e.pos < MAX_CODE_LEN

HasRoom(e) == e.pos < MAX_CODE_LEN - 1

TypeInto(e, c) ==
  Ended(IF HasRoom(e) THEN EditorAt([e.buf EXCEPT ![e.pos] = c], e.pos + 1) ELSE e)

EraseFrom(e) == Ended(IF e.pos > 0 THEN EditorAt(e.buf, e.pos - 1) ELSE e)

-----------------------------------------------------------------------------
(* Cutting the text into lines.                                            *)

\* The line that starts at pos is over at k: at a newline, at the end of the
\* text, or where line_buf is full.
IsOver(e, pos, k) ==
  k = e.pos \/ e.buf[k] = Newline \/ k - pos = MAX_LINE_LEN - 1

EndOfLine(e, pos) ==
  CHOOSE k \in pos .. e.pos :
    IsOver(e, pos, k) /\ \A j \in pos .. k - 1 : ~IsOver(e, pos, j)

LineText(e, pos) ==
  [k \in 1 .. EndOfLine(e, pos) - pos |-> e.buf[pos + k - 1]]

\* Mutant: the newline behind a line that fills the buffer is left.
BehindShortLine(e, k, pos) ==
  IF e.buf[k] = Newline /\ k - pos < MAX_LINE_LEN - 1 THEN k + 1 ELSE k

\* Mutant: no newline is skipped.
BehindText(e, k, pos) == k

\* editor_buf[pos] is read without asking whether pos < editor_pos.
BehindLine(e, k, pos) == IF e.buf[k] = Newline THEN k + 1 ELSE k

NextLine(e, pos) == BehindLine(e, EndOfLine(e, pos), pos)

\* editor_display: the lines it prints (how the terminal wraps and scrolls
\* them is left out), and where the next one starts.
Draw(e, d) ==
  IF d.pos >= e.pos THEN d
  ELSE [pos |-> NextLine(e, d.pos), lines |-> Append(d.lines, LineText(e, d.pos))]

Drawn(e) ==
  LET upTo[n \in 0 .. SHOWN] ==
        IF n = 0 THEN [pos |-> 0, lines |-> <<>>] ELSE Draw(e, upTo[n - 1])
  IN  upTo

Displayed(e) == Drawn(e)[SHOWN].lines

-----------------------------------------------------------------------------
(* What the lines of a text are, character by character: a newline closes  *)
(* a line, as does a character that finds it full, and what is left at the *)
(* end is a line if it is not empty.                                       *)
WithCharacter(r, c) ==
  IF c = Newline
  THEN [closed |-> Append(r.closed, r.open), open |-> <<>>]
  ELSE IF Len(r.open) = MAX_LINE_LEN - 1
  THEN [closed |-> Append(r.closed, r.open), open |-> <<c>>]
  ELSE [closed |-> r.closed, open |-> Append(r.open, c)]

Read(text) ==
  LET read[k \in 0 .. Len(text)] ==
        IF k = 0 THEN [closed |-> <<>>, open |-> <<>>]
        ELSE WithCharacter(read[k - 1], text[k])
  IN  read

AllLines(r) == IF r.open = <<>> THEN r.closed ELSE Append(r.closed, r.open)

LinesOf(text) == AllLines(Read(text)[Len(text)])
=============================================================================

-------------------------------- MODULE Shell -------------------------------
(***************************************************************************)
(* The shell of src/kernel/core/tty.c: the prompt, the line editor, the    *)
(* dispatcher and the commands.  The applications own keyboard and screen  *)
(* while they run; here they only return.                                  *)
(***************************************************************************)
EXTENDS LineInput

CONSTANTS
  Command,      \* the table cmds: a sequence of [name, fn]
  EchoOffset    \* 5, the length of "echo "

Action == {"text", "clear", "echo", "app", "halt"}

ASSUME ShellAssumption ==
  /\ Command \in Seq([name : Seq(Printable), fn : Action])
  /\ EchoOffset \in 1 .. BUF_SZ - 1

VARIABLES
  phase,   \* "read", "run", "app" or "halted"
  input,   \* the line being typed or run: the array and its index
  typed,   \* what was typed of this line and not deleted
  output   \* what the last command printed

vars == <<phase, input, typed, output>>

-----------------------------------------------------------------------------
(* Reading a line.                                                         *)

\* The start of the loop of tty_main: the prompt, and input[0] = '\0'.
FreshLine(buf) == At([buf EXCEPT ![0] = NUL], 0)

Character(c) ==
  /\ phase = "read"
  /\ input' = Insert(input, c)
  /\ typed' = IF Len(typed) < BUF_SZ - 1 THEN Append(typed, c) ELSE typed
  /\ UNCHANGED <<phase, output>>

Backspace ==
  /\ phase = "read"
  /\ input' = Erase(input)
  /\ typed' = IF typed = <<>> THEN typed ELSE SubSeq(typed, 1, Len(typed) - 1)
  /\ UNCHANGED <<phase, output>>

\* rtrim: the blanks at the end of the string become NULs.
Trimmed(buf) ==
  LET s == StringAt(buf, 0)
      blanks == {k \in 0 .. Len(s) - 1 :
                   \A n \in k .. Len(s) - 1 : buf[n] = Blank}
  IN  [k \in DOMAIN buf |-> IF k \in blanks THEN NUL ELSE buf[k]]

\* An empty line is skipped; a line of blanks is not.
Enter ==
  LET line == Terminate(input)
  IN  /\ phase = "read"
      /\ IF line.buf[0] = NUL
         THEN /\ input' = FreshLine(line.buf)
              /\ typed' = <<>>
              /\ UNCHANGED phase
         ELSE /\ input' = At(Trimmed(line.buf), line.i)
              /\ phase' = "run"
              /\ UNCHANGED typed
      /\ UNCHANGED output

-----------------------------------------------------------------------------
(* Running it.                                                             *)

Prompt == phase' = "read" /\ input' = FreshLine(input.buf) /\ typed' = <<>>

Typed == StringAt(input.buf, 0)

\* cmd_echo prints what is behind input + 5, leading blanks skipped.
EchoText ==
  LET text == StringAt(input.buf, EchoOffset)
      solid == {k \in DOMAIN text : text[k] # Blank}
  IN  IF solid = {} THEN <<>>
      ELSE SubSeq(text, CHOOSE k \in solid : \A n \in solid : k <= n, Len(text))

\* The first entry of cmds with this name.
Entry(k) ==
  /\ Command[k].name = Typed
  /\ \A n \in 1 .. k - 1 : Command[n].name # Typed

Dispatch(k) ==
  LET fn == Command[k].fn
  IN  /\ phase = "run"
      /\ Entry(k)
      /\ output' = IF fn = "echo" THEN EchoText ELSE <<>>
      /\ CASE fn = "app"  -> phase' = "app" /\ UNCHANGED <<input, typed>>
           [] fn = "halt" -> phase' = "halted" /\ UNCHANGED <<input, typed>>
           [] OTHER       -> Prompt

Unknown ==
  /\ phase = "run"
  /\ ~ \E k \in DOMAIN Command : Entry(k)
  /\ output' = Typed
  /\ Prompt

AppReturns ==
  /\ phase = "app"
  /\ Prompt
  /\ UNCHANGED output

Init ==
  /\ phase = "read"
  /\ input = At(Zeroed, 0)
  /\ typed = <<>>
  /\ output = <<>>

Next ==
  \/ \E c \in Printable : Character(c)
  \/ Backspace
  \/ Enter
  \/ \E k \in DOMAIN Command : Dispatch(k)
  \/ Unknown
  \/ AppReturns

Spec == Init /\ [][Next]_vars

-----------------------------------------------------------------------------
(* The index stays inside the array, with room for the NUL.                *)
TypeOK ==
  /\ phase \in {"read", "run", "app", "halted"}
  /\ input \in Lines
  /\ typed \in Seq(Printable)
  /\ output \in Seq(Printable)

(* The dispatcher and the "Unknown: " message see the characters that were *)
(* typed and not deleted, without the blanks at their end, and nothing of  *)
(* the earlier and perhaps longer lines whose characters the array still   *)
(* holds.                                                                  *)
RightTrimmed(s) ==
  LET solid == {k \in DOMAIN s : s[k] # Blank}
  IN  IF solid = {} THEN <<>>
      ELSE SubSeq(s, 1, CHOOSE k \in solid : \A n \in solid : n <= k)

RunsWhatWasTyped == phase = "run" => Typed = RightTrimmed(typed)

(* cmd_echo reads from input + 5 on, behind the end of the line, until it  *)
(* finds a NUL: there is one, whatever lines, corrections and full lines   *)
(* came before, so it does not leave the array.                            *)
EchoEnds == \E n \in EchoOffset .. BUF_SZ - 1 : input.buf[n] = NUL

(* echo prints nothing that was not typed on its own line (the comment at  *)
(* tty.c:103 is "echo everything after "echo " until newline").            *)
EchoesItsLine ==
  [][phase = "run" => \A k \in DOMAIN output' :
       \E n \in DOMAIN typed : typed[n] = output'[k]]_vars
=============================================================================

----------------------------- MODULE LineInput ------------------------------
(***************************************************************************)
(* The line buffer that the shell (tty_main in src/kernel/core/tty.c) and  *)
(* the calculator (calculator_run in src/kernel/apps/calculator.c) fill    *)
(* from the keyboard: a static array that is reused for every line and     *)
(* read as a string that ends at the first NUL.                            *)
(***************************************************************************)
EXTENDS Integers, Sequences

CONSTANTS
  Printable,   \* the characters 32 .. 126 that are typed
  Blank,       \* ' '
  NUL,
  BUF_SZ       \* 256 in the source

ASSUME LineInputAssumption ==
  /\ Blank \in Printable
  /\ NUL \notin Printable
  /\ BUF_SZ \in Nat /\ BUF_SZ > 1

Buffer == [0 .. BUF_SZ - 1 -> Printable \union {NUL}]

Zeroed == [k \in 0 .. BUF_SZ - 1 |-> NUL]

(* A line being typed: the array and the index of the next character.      *)
Lines == [buf : Buffer, i : 0 .. BUF_SZ - 1]

At(buf, i) == [buf |-> buf, i |-> i]

\* Mutant: no room is kept for the NUL.
InsertToTheEnd(l, c) ==
  IF l.i < BUF_SZ THEN At([l.buf EXCEPT ![l.i] = c], l.i + 1) ELSE l

Insert(l, c) ==
  IF l.i < BUF_SZ - 1 THEN At([l.buf EXCEPT ![l.i] = c], l.i + 1) ELSE l

\* The character stays in the array, only the index goes back.
Erase(l) == IF l.i > 0 THEN At(l.buf, l.i - 1) ELSE l

\* Mutant: the NUL is missing.
TerminateNot(l) == l

Terminate(l) == At([l.buf EXCEPT ![l.i] = NUL], l.i)

\* The string that starts at index k, or the empty one behind the array.
StringAt(buf, k) ==
  LET ends == {n \in k .. BUF_SZ - 1 : buf[n] = NUL}
      end == CHOOSE n \in ends : \A n2 \in ends : n <= n2
  IN  IF ends = {} THEN <<>> ELSE [n \in 1 .. end - k |-> buf[k + n - 1]]
=============================================================================

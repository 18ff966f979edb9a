------------------------------ MODULE Typeahead -----------------------------
(***************************************************************************)
(* What lazy_getchar of src/kernel/io/keyboard.c promises its callers, free *)
(* of scan codes and modifiers: the characters struck are read in order,   *)
(* each once, until the hardware has dropped something.                    *)
(***************************************************************************)
EXTENDS Sequences

CONSTANTS Ascii, NUL

VARIABLES
  typed,    \* the characters struck and not yet read
  intact,   \* no key event was dropped
  answer    \* the character read last

vars == <<typed, intact, answer>>

Init == typed = <<>> /\ intact = TRUE /\ answer = NUL

Strike(c) ==
  /\ typed' = Append(typed, c)
  /\ UNCHANGED <<intact, answer>>

Read ==
  /\ typed # <<>>
  /\ answer' = Head(typed)
  /\ typed' = Tail(typed)
  /\ UNCHANGED intact

\* A dropped event may be that of a modifier: nothing is promised afterwards.
Next ==
  \/ intact /\ (Read \/ \E c \in Ascii \ {NUL} : Strike(c))
  \/ intact' = FALSE

Spec == Init /\ [][Next]_vars
=============================================================================

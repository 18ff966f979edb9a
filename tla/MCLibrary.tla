------------------------------ MODULE MCLibrary ------------------------------
(* A client of the kernel's library that calls either the integer or the   *)
(* string functions: the two share no state.                               *)
EXTENDS MCDivision, StringLib

VARIABLE client   \* "integers" or "strings"

libraryVars == <<vars, stringVars, client>>

LibraryInit ==
  /\ client \in {"integers", "strings"}
  /\ Init
  /\ StringInit
  /\ client = "integers" => memory = [k \in Address |-> 0]

\* What a string function does depends on the memory and its arguments, and
\* the initial states have every memory: one call is enough, made again and
\* again on the memory it leaves.
OneString ==
  \/ \E j \in (IF job = NoJob THEN StringJob ELSE {job}) : CallString(j)
  \/ StringTurn

LibraryNext ==
  /\ \/ client = "integers" /\ Next /\ UNCHANGED stringVars
     \/ client = "strings" /\ OneString /\ UNCHANGED vars
  /\ UNCHANGED client

LibrarySpec == LibraryInit /\ [][LibraryNext]_libraryVars
=============================================================================

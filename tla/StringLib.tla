------------------------------ MODULE StringLib ------------------------------
(***************************************************************************)
(* The string functions of src/kernel/lib/string.c, turn by turn of their  *)
(* loops, on a memory of bytes.  Both pointers of a call point into the    *)
(* same memory, so that the ranges may overlap in every way.               *)
(*                                                                         *)
(* The names carry the word String, or are those of C, so that a client    *)
(* can use this module beside the integer library.                         *)
(***************************************************************************)
EXTENDS Integers

CONSTANTS
  MemorySize,   \* the bytes a pointer of these calls can reach
  MaxByte       \* 255 in C

Byte == 0 .. MaxByte
Address == 0 .. MemorySize - 1

ASSUME StringAssumption ==
  /\ MemorySize \in Nat \ {0}
  /\ MaxByte \in Nat

VARIABLES
  memory,
  before,     \* the memory when the call was made
  job,        \* the call: the function, its arguments d, s, n and byte
  running,    \* whether it is still running
  dst, src,   \* its two pointers
  left,       \* size_t n; -1 is the largest size_t
  answer      \* what the last call returned

stringVars == <<memory, before, job, running, dst, src, left, answer>>

-----------------------------------------------------------------------------
(* The calls.  A byte, an int in C, is used by memset only, and n by the   *)
(* functions that have it.                                                 *)

InMemory(p, n) == p + n <= MemorySize

TerminatedAt(m, p) == \E k \in Address : k >= p /\ m[k] = 0

StrLen(m, p) ==
  CHOOSE n \in 0 .. MemorySize - 1 :
    m[p + n] = 0 /\ \A k \in 0 .. n - 1 : m[p + k] # 0

MemJob == [fn : {"memmove", "memcpy"}, d : Address, s : Address,
           n : 0 .. MemorySize, byte : {0}]
SetJob == [fn : {"memset"}, d : Address, s : {0}, n : 0 .. MemorySize,
           byte : -1 .. MaxByte + 1]
StrJob == [fn : {"strlen", "strcmp", "strcpy"}, d : Address, s : Address,
           n : {0}, byte : {0}]
NCmpJob == [fn : {"strncmp"}, d : Address, s : Address, n : 0 .. MemorySize,
            byte : {0}]
StringJob == MemJob \union SetJob \union StrJob \union NCmpJob

Apart(d, s, n) == d + n <= s \/ s + n <= d

\* What a caller owes: ranges inside the memory, strings that end in it, and
\* for strcpy, whose pointers are restrict, two strings that do not overlap.
Legal(j) ==
  CASE j.fn \in {"memmove", "memcpy"} -> InMemory(j.d, j.n) /\ InMemory(j.s, j.n)
    [] j.fn = "memset"  -> InMemory(j.d, j.n)
    [] j.fn = "strlen"  -> TerminatedAt(memory, j.s)
    [] j.fn = "strcmp"  -> TerminatedAt(memory, j.d) /\ TerminatedAt(memory, j.s)
    [] j.fn = "strncmp" -> /\ TerminatedAt(memory, j.d) \/ InMemory(j.d, j.n)
                           /\ TerminatedAt(memory, j.s) \/ InMemory(j.s, j.n)
    [] j.fn = "strcpy"  -> /\ TerminatedAt(memory, j.s)
                           /\ InMemory(j.d, StrLen(memory, j.s) + 1)
                           /\ Apart(j.d, j.s, StrLen(memory, j.s) + 1)

\* Mutant: memmove always copies upwards.
DownwardsNever(j) == FALSE

\* memmove copies from the end when the destination is behind the source.
Downwards(j) == j.fn = "memmove" /\ j.d > j.s

\* memmove onto itself returns at once.
CallString(j) ==
  /\ ~running
  /\ Legal(j)
  /\ job' = j
  /\ before' = memory
  /\ running' = ~(j.fn = "memmove" /\ j.d = j.s)
  /\ dst' = IF Downwards(j) THEN j.d + j.n ELSE j.d
  /\ src' = IF Downwards(j) THEN j.s + j.n ELSE j.s
  /\ left' = j.n
  /\ UNCHANGED <<memory, answer>>

-----------------------------------------------------------------------------
(* The loops.  n is decremented by the test, also by the one that fails.   *)

StringDone == running' = FALSE /\ UNCHANGED <<memory, dst, src>>

Copied(d, s) == memory' = [memory EXCEPT ![d] = memory[s]]

\* (unsigned char)value
Cast(value) == value % (MaxByte + 1)

MemTurn ==
  /\ running
  /\ job.fn \in {"memmove", "memcpy", "memset"}
  /\ left' = left - 1
  /\ IF left = 0 THEN StringDone
     ELSE /\ CASE job.fn = "memset" ->
                    /\ memory' = [memory EXCEPT ![dst] = Cast(job.byte)]
                    /\ dst' = dst + 1
                    /\ UNCHANGED src
               [] Downwards(job) ->
                    Copied(dst - 1, src - 1) /\ dst' = dst - 1 /\ src' = src - 1
               [] OTHER ->
                    Copied(dst, src) /\ dst' = dst + 1 /\ src' = src + 1
          /\ UNCHANGED running
  /\ UNCHANGED <<before, job, answer>>

\* while ((*d++ = *src++)): the byte is copied before it is looked at.
StrcpyTurn ==
  /\ running
  /\ job.fn = "strcpy"
  /\ Copied(dst, src)
  /\ dst' = dst + 1
  /\ src' = src + 1
  /\ running' = (memory[src] # 0)
  /\ UNCHANGED <<before, job, left, answer>>

StrlenTurn ==
  /\ running
  /\ job.fn = "strlen"
  /\ IF memory[src] # 0 THEN src' = src + 1 /\ UNCHANGED <<running, answer>>
     ELSE running' = FALSE /\ answer' = src - job.s /\ UNCHANGED src
  /\ UNCHANGED <<memory, before, job, dst, left>>

\* Mutant: the test for the NUL is forgotten.
SameOrEnded == memory[dst] = memory[src]

Same == memory[dst] # 0 /\ memory[dst] = memory[src]

\* Mutant: a counter that reached 0 is taken for one that is used up.
UsedUpAtZero(n) == n = 0

\* n == (size_t)-1: the test of n has failed, not one of those behind it.
UsedUp(n) == n = -1

\* strcmp is the loop of strncmp without the counter.
StrcmpTurn ==
  LET counted == job.fn = "strncmp"
      n == IF counted THEN left - 1 ELSE left
  IN  /\ running
      /\ job.fn \in {"strcmp", "strncmp"}
      /\ left' = n
      /\ IF ~(counted /\ left = 0) /\ Same
         THEN dst' = dst + 1 /\ src' = src + 1 /\ UNCHANGED <<running, answer>>
         ELSE /\ running' = FALSE
              /\ answer' = IF UsedUp(n) THEN 0 ELSE memory[dst] - memory[src]
              /\ UNCHANGED <<dst, src>>
      /\ UNCHANGED <<memory, before, job>>

StringTurn == MemTurn \/ StrcpyTurn \/ StrlenTurn \/ StrcmpTurn

NoJob == [fn |-> "memset", d |-> 0, s |-> 0, n |-> 0, byte |-> 0]

StringInit ==
  /\ memory \in [Address -> Byte]
  /\ before = memory
  /\ job = NoJob
  /\ running = FALSE
  /\ dst = 0
  /\ src = 0
  /\ left = 0
  /\ answer = 0

StringNext == (\E j \in StringJob : CallString(j)) \/ StringTurn

StringSpec == StringInit /\ [][StringNext]_stringVars

-----------------------------------------------------------------------------
\* The bytes that the next turn of the loop reads or writes.
NextBytes ==
  IF job.fn \in {"memmove", "memcpy", "memset", "strncmp"} /\ left = 0 THEN {}
  ELSE CASE job.fn = "memset" -> {dst}
         [] job.fn = "strlen" -> {src}
         [] Downwards(job)    -> {dst - 1, src - 1}
         [] OTHER             -> {dst, src}

(* No loop touches a byte outside the memory, whatever the overlap of the  *)
(* ranges and wherever the strings end: the counters and the tests for the *)
(* NUL stop every pointer before it leaves what the caller passed.         *)
StaysInMemory == running => NextBytes \subseteq Address

\* The memory m with the n bytes at s of the old memory at d.
WithBlock(m, d, s, n) ==
  [k \in Address |-> IF k \in d .. d + n - 1 THEN m[s + (k - d)] ELSE m[k]]

(* When it returns, a function that writes has written what its caller     *)
(* passed, taken from the memory as it was when the call was made, and     *)
(* nothing else: memmove for every overlap of the two ranges (scroll moves *)
(* 24 rows onto the 24 rows above, vga.c:27), memcpy if they are apart or  *)
(* the destination comes first, strcpy with the NUL.                       *)
Copies ==
  ~running =>
    CASE job.fn = "memmove" -> memory = WithBlock(before, job.d, job.s, job.n)
      [] job.fn = "memcpy" ->
           Apart(job.d, job.s, job.n) \/ job.d <= job.s
             => memory = WithBlock(before, job.d, job.s, job.n)
      [] job.fn = "strcpy" ->
           memory = WithBlock(before, job.d, job.s, StrLen(before, job.s) + 1)
      [] job.fn = "memset" ->
           memory = [k \in Address |-> IF k \in job.d .. job.d + job.n - 1
                                       THEN Cast(job.byte) ELSE before[k]]
      [] OTHER -> memory = before

\* Where two strings end or begin to differ, below the limit n.
Decides(m, a, b, k) == m[a + k] # m[b + k] \/ m[a + k] = 0

Comparison(m, a, b, n) ==
  LET common == {k \in 0 .. n - 1 : InMemory(a, k + 1) /\ InMemory(b, k + 1)}
      deciding == {k \in common : Decides(m, a, b, k)}
      k == CHOOSE i \in deciding : \A j \in deciding : i <= j
  IN  IF deciding = {} THEN 0 ELSE m[a + k] - m[b + k]

(* strcmp and strncmp answer with the first two bytes that differ, or with *)
(* 0 for strings that are equal, up to the limit: also when the limit      *)
(* falls just on the byte that decides.  strlen counts up to the NUL.      *)
Compares ==
  ~running =>
    CASE job.fn = "strncmp" -> answer = Comparison(before, job.d, job.s, job.n)
      [] job.fn = "strcmp" ->
           answer = Comparison(before, job.d, job.s, StrLen(before, job.d) + 1)
      [] job.fn = "strlen" -> answer = StrLen(before, job.s)
      [] OTHER -> TRUE
=============================================================================

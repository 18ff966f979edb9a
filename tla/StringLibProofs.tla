---------------------------- MODULE StringLibProofs ---------------------------
(***************************************************************************)
(* Proofs about the functions of module StringLib, in a memory of any size *)
(* and bytes of any width: first those that write, memmove, memcpy, memset *)
(* and strcpy, then those that compare and measure.                        *)
(***************************************************************************)
EXTENDS StringLib, TLAPS, WellFoundedInduction

-----------------------------------------------------------------------------
(* The calls.                                                              *)

LEMMA JobShape ==
  ASSUME NEW j \in StringJob
  PROVE  /\ j.d \in Address /\ j.s \in Address /\ j.n \in 0 .. MemorySize
         /\ j.byte \in Int
         /\ j.fn \in {"memmove", "memcpy", "memset", "strlen", "strcmp", "strcpy", "strncmp"}
<1>. USE StringAssumption
<1>1. 0 \in Address /\ 0 \in 0 .. MemorySize /\ \A b \in -1 .. MaxByte + 1 : b \in Int
  BY DEF Address
<1>2. CASE j \in MemJob
  BY <1>2 DEF MemJob
<1>3. CASE j \in SetJob
  BY <1>1, <1>3 DEF SetJob
<1>4. CASE j \in StrJob
  BY <1>1, <1>4 DEF StrJob
<1>5. CASE j \in NCmpJob
  BY <1>5 DEF NCmpJob
<1>. QED BY <1>2, <1>3, <1>4, <1>5 DEF StringJob

LEMMA CastIsByte == \A b \in Int : Cast(b) \in Byte
<1>1. \A b \in Int, w \in Nat \ {0} : b % w \in 0 .. w - 1
  OBVIOUS
<1>. DEFINE w == MaxByte + 1
<1>2. w \in Nat \ {0} /\ w - 1 = MaxByte
  BY StringAssumption
<1>3. \A b \in Int : Cast(b) = b % w
  BY DEF Cast
<1>. HIDE DEF w
<1>. QED BY <1>1, <1>2, <1>3 DEF Byte

\* A string that ends in the memory has a length, and ends there first.
LEMMA StrLenIs ==
  ASSUME NEW m, NEW p \in Address, TerminatedAt(m, p)
  PROVE  /\ StrLen(m, p) \in Nat /\ p + StrLen(m, p) < MemorySize
         /\ m[p + StrLen(m, p)] = 0
         /\ \A k \in 0 .. StrLen(m, p) - 1 : m[p + k] # 0
<1>. USE StringAssumption
<1>. DEFINE R == {ss \in Nat \X Nat : ss[1] < ss[2]}
            S == {n \in Nat : p + n < MemorySize /\ m[p + n] = 0}
            Ends(n) == m[p + n] = 0 /\ \A k \in 0 .. n - 1 : m[p + k] # 0
<1>1. S # {}
  <2>1. PICK k \in Address : k >= p /\ m[k] = 0
    BY DEF TerminatedAt
  <2>2. k - p \in Nat /\ p + (k - p) = k /\ k < MemorySize
    BY <2>1 DEF Address
  <2>. QED BY <2>1, <2>2
<1>2. PICK n \in S : \A k \in S : <<k, n>> \notin R
  <2>1. IsWellFoundedOn(R, Nat)
    BY NatLessThanWellFounded DEF OpToRel
  <2>2. S \subseteq Nat
    OBVIOUS
  <2>. HIDE DEF R, S
  <2>. QED BY <1>1, <2>1, <2>2, WFMin
<1>3. p \in Nat /\ p < MemorySize /\ n \in Nat /\ p + n < MemorySize /\ m[p + n] = 0
  BY DEF Address
<1>4. ASSUME NEW k \in 0 .. n - 1
      PROVE  m[p + k] # 0
  <2>1. k \in Nat /\ k < n /\ p + k < MemorySize
    BY <1>3
  <2>2. <<k, n>> \in R
    BY <1>3, <2>1
  <2>. QED BY <1>2, <2>1, <2>2
<1>5. n \in 0 .. MemorySize - 1 /\ Ends(n)
  BY <1>3, <1>4
<1>6. StrLen(m, p) \in 0 .. MemorySize - 1 /\ Ends(StrLen(m, p))
  <2>1. StrLen(m, p) = CHOOSE k \in 0 .. MemorySize - 1 : Ends(k)
    BY DEF StrLen
  <2>. HIDE DEF Ends
  <2>. QED BY <1>5, <2>1
<1>7. StrLen(m, p) <= n
  <2>. DEFINE len == StrLen(m, p)
  <2>1. len \in Nat /\ \A k \in 0 .. len - 1 : m[p + k] # 0
    BY <1>6
  <2>. HIDE DEF len
  <2>2. ~ n \in 0 .. len - 1
    BY <1>3, <2>1
  <2>3. len <= n
    BY <1>3, <2>1, <2>2
  <2>. QED BY <2>3 DEF len
<1>. QED BY <1>3, <1>6, <1>7

-----------------------------------------------------------------------------
(* Blocks of memory.                                                       *)

LEMMA InRange ==
  ASSUME NEW p \in Nat, NEW n \in Nat, NEW k \in Nat, k < n, p + n <= MemorySize
  PROVE  p + k \in Address /\ p + k < MemorySize
<1>1. p + k \in Nat /\ p + k < MemorySize
  BY StringAssumption
<1>. QED BY <1>1, StringAssumption DEF Address

\* The n bytes at s of the old memory m at d, of them those from k on.
LEMMA BlockGrows ==
  ASSUME NEW m \in [Address -> Byte], NEW d \in Nat, NEW s \in Nat, NEW k \in Nat,
         d + k < MemorySize, s + k < MemorySize,
         NEW old, old = WithBlock(m, d, s, k),
         d <= s \/ s + k < d
  PROVE  [old EXCEPT ![d + k] = old[s + k]] = WithBlock(m, d, s, k + 1)
<1>. USE StringAssumption
<1>1. d + k \in Address /\ s + k \in Address
  BY DEF Address
<1>2. old[s + k] = m[s + k]
  BY <1>1 DEF WithBlock, Address
<1>3. \A i \in Address : i \in d .. d + (k + 1) - 1 <=> (i \in d .. d + k - 1 \/ i = d + k)
  BY DEF Address
<1>4. s + ((d + k) - d) = s + k
  OBVIOUS
<1>. QED BY <1>1, <1>2, <1>3, <1>4 DEF WithBlock

\* What memmove has done from the end of the n bytes down to the k-th.
WithTail(m, d, s, k, n) ==
  [i \in Address |-> IF i \in d + k .. d + n - 1 THEN m[s + (i - d)] ELSE m[i]]

LEMMA TailGrows ==
  ASSUME NEW m \in [Address -> Byte], NEW d \in Nat, NEW s \in Nat,
         NEW k \in Nat, NEW n \in Nat, k < n, d + n <= MemorySize, s < d,
         NEW old, NEW new,
         old = WithTail(m, d, s, k + 1, n), new = [old EXCEPT ![d + k] = old[s + k]]
  PROVE  new = WithTail(m, d, s, k, n)
<1>. USE StringAssumption
<1>1. d + k \in Address /\ s + k \in Address
  <2>1. s + n <= MemorySize
    OBVIOUS
  <2>. QED BY <2>1, InRange
<1>2. old[s + k] = m[s + k]
  <2>1. s + k \notin d + (k + 1) .. d + n - 1
    OBVIOUS
  <2>. QED BY <1>1, <2>1 DEF WithTail
<1>3. \A i \in Address : i \in d + k .. d + n - 1 <=> (i \in d + (k + 1) .. d + n - 1 \/ i = d + k)
  <2>1. \A i \in Int : i \in d + k .. d + n - 1 <=> (i \in d + (k + 1) .. d + n - 1 \/ i = d + k)
    OBVIOUS
  <2>. QED BY <2>1 DEF Address
<1>4. s + ((d + k) - d) = s + k
  OBVIOUS
<1>. QED BY <1>1, <1>2, <1>3, <1>4 DEF WithTail

\* What memset has done after k bytes.
WithBytes(m, d, k, v) ==
  [i \in Address |-> IF i \in d .. d + k - 1 THEN v ELSE m[i]]

LEMMA BytesGrow ==
  ASSUME NEW m \in [Address -> Byte], NEW d \in Nat, NEW k \in Nat,
         d + k < MemorySize, NEW v
  PROVE  [WithBytes(m, d, k, v) EXCEPT ![d + k] = v] = WithBytes(m, d, k + 1, v)
<1>. USE StringAssumption
<1>1. d + k \in Address
  BY DEF Address
<1>2. \A i \in Address : i \in d .. d + (k + 1) - 1 <=> (i \in d .. d + k - 1 \/ i = d + k)
  BY DEF Address
<1>. QED BY <1>1, <1>2 DEF WithBytes

\* Nothing is done by no turn.
LEMMA NoTurns ==
  ASSUME NEW m \in [Address -> Byte], NEW d \in Nat, NEW s \in Nat, NEW n \in Nat, NEW v
  PROVE  /\ WithBlock(m, d, s, 0) = m
         /\ WithTail(m, d, s, n, n) = m
         /\ WithBytes(m, d, 0, v) = m
         /\ WithTail(m, d, s, 0, n) = WithBlock(m, d, s, n)
<1>. USE StringAssumption
<1>1. \A i \in Address : i \notin d .. d + 0 - 1 /\ i \notin d + n .. d + n - 1
  BY DEF Address
<1>. QED BY <1>1 DEF WithBlock, WithTail, WithBytes

-----------------------------------------------------------------------------
(* The invariant: what each loop has done after as many turns.             *)

StringTypes ==
  /\ memory \in [Address -> Byte]
  /\ before \in [Address -> Byte]
  /\ job \in StringJob
  /\ running \in BOOLEAN

\* What the caller owed, at the time of the call.
Owed ==
  /\ job.fn \in {"memmove", "memcpy"} => InMemory(job.d, job.n) /\ InMemory(job.s, job.n)
  /\ job.fn = "memset" => InMemory(job.d, job.n)
  /\ job.fn = "strcpy" => LET n == StrLen(before, job.s)
                          IN  /\ TerminatedAt(before, job.s)
                              /\ InMemory(job.d, n + 1)
                              /\ Apart(job.d, job.s, n + 1)

\* The functions that copy upwards do so rightly under this condition.
Upright(j) == Apart(j.d, j.s, j.n) \/ j.d <= j.s

UpLoop ==
  job.fn \in {"memmove", "memcpy"} /\ ~Downwards(job) =>
    LET k == job.n - left
    IN  /\ left \in 0 .. job.n
        /\ dst = job.d + k
        /\ src = job.s + k
        /\ Upright(job) => memory = WithBlock(before, job.d, job.s, k)

DownLoop ==
  Downwards(job) =>
    /\ left \in 0 .. job.n
    /\ dst = job.d + left
    /\ src = job.s + left
    /\ memory = WithTail(before, job.d, job.s, left, job.n)

SetLoop ==
  job.fn = "memset" =>
    LET k == job.n - left
    IN  /\ left \in 0 .. job.n
        /\ dst = job.d + k
        /\ memory = WithBytes(before, job.d, k, Cast(job.byte))

StrcpyLoop ==
  job.fn = "strcpy" =>
    \E k \in 0 .. StrLen(before, job.s) :
        /\ dst = job.d + k
        /\ src = job.s + k
        /\ memory = WithBlock(before, job.d, job.s, k)

ReadOnly == job.fn \in {"strlen", "strcmp", "strncmp"} => memory = before

Progress == UpLoop /\ DownLoop /\ SetLoop /\ StrcpyLoop

\* What Copies promises for the end of a call.
Result ==
  CASE job.fn = "memmove" -> memory = WithBlock(before, job.d, job.s, job.n)
    [] job.fn = "memcpy" ->
         Upright(job) => memory = WithBlock(before, job.d, job.s, job.n)
    [] job.fn = "strcpy" ->
         memory = WithBlock(before, job.d, job.s, StrLen(before, job.s) + 1)
    [] job.fn = "memset" -> memory = WithBytes(before, job.d, job.n, Cast(job.byte))
    [] OTHER -> memory = before

LEMMA CopiesIs ==
  /\ Copies <=> (~running => Result)
  /\ Copies' <=> (~running' => Result')
BY DEF Copies, Result, Upright, WithBytes

StringInv ==
  /\ StringTypes
  /\ Owed
  /\ ReadOnly
  /\ running => Progress
  /\ ~running => Copies

LEMMA StringInitSound == StringInit => StringInv
<1>. SUFFICES ASSUME StringInit
              PROVE  StringInv
  OBVIOUS
<1>. USE StringAssumption
<1>1. NoJob \in StringJob
  <2>1. NoJob \in SetJob
    BY DEF NoJob, SetJob, Address
  <2>. QED BY <2>1 DEF StringJob
<1>2. NoJob.fn = "memset" /\ NoJob.d = 0 /\ NoJob.n = 0
  BY DEF NoJob
<1>. HIDE DEF NoJob
<1>3. StringTypes /\ ReadOnly /\ running = FALSE /\ job = NoJob /\ before = memory
  BY <1>1, <1>2 DEF StringInit, StringTypes, ReadOnly
<1>4. Owed
  BY <1>2, <1>3 DEF Owed, InMemory
<1>5. Copies
  <2>1. \A k \in Address : k \notin 0 .. 0 + 0 - 1
    OBVIOUS
  <2>2. before = [k \in Address |-> IF k \in 0 .. 0 + 0 - 1 THEN Cast(job.byte) ELSE before[k]]
    BY <1>3, <2>1 DEF StringTypes
  <2>. QED BY <1>2, <1>3, <2>2 DEF Copies
<1>. QED BY <1>3, <1>4, <1>5 DEF StringInv

LEMMA CallSound ==
  ASSUME StringInv, NEW j \in StringJob, CallString(j)
  PROVE  StringInv'
<1>. USE StringAssumption
<1>1. /\ memory' = memory /\ before' = memory /\ job' = j /\ Legal(j)
      /\ memory \in [Address -> Byte]
      /\ left' = j.n
      /\ dst' = (IF Downwards(j) THEN j.d + j.n ELSE j.d)
      /\ src' = (IF Downwards(j) THEN j.s + j.n ELSE j.s)
      /\ running' = ~(j.fn = "memmove" /\ j.d = j.s)
  BY DEF CallString, StringInv, StringTypes
<1>2. /\ j.d \in Nat /\ j.s \in Nat /\ j.n \in Nat
      /\ j.fn \in {"memmove", "memcpy", "memset", "strlen", "strcmp", "strcpy", "strncmp"}
  BY JobShape DEF Address
<1>3. StringTypes' /\ ReadOnly'
  BY <1>1 DEF StringTypes, ReadOnly
<1>4. Owed'
  BY <1>1 DEF Owed, Legal
<1>5. CASE j.fn = "memmove" /\ j.d = j.s
  <2>1. \A k \in Address : j.s + (k - j.d) = k
    BY <1>2, <1>5 DEF Address
  <2>2. WithBlock(memory, j.d, j.s, j.n) = memory
    BY <1>1, <2>1 DEF WithBlock
  <2>3. Copies'
    BY <1>1, <1>5, <2>2 DEF Copies
  <2>. QED BY <1>1, <1>3, <1>4, <1>5, <2>3 DEF StringInv
<1>6. CASE ~ (j.fn = "memmove" /\ j.d = j.s)
  <2>1. /\ WithBlock(memory, j.d, j.s, 0) = memory
        /\ WithTail(memory, j.d, j.s, j.n, j.n) = memory
        /\ WithBytes(memory, j.d, 0, Cast(j.byte)) = memory
    BY <1>1, <1>2, NoTurns
  <2>2. j.n - j.n = 0 /\ j.d + 0 = j.d /\ j.s + 0 = j.s /\ j.d - j.d = 0 /\ j.n \in 0 .. j.n
    BY <1>2
  <2>3. UpLoop'
    BY <1>1, <2>1, <2>2 DEF UpLoop, Downwards
  <2>4. DownLoop'
    BY <1>1, <2>1, <2>2 DEF DownLoop, Downwards
  <2>5. SetLoop'
    BY <1>1, <2>1, <2>2 DEF SetLoop, Downwards
  <2>6. StrcpyLoop'
    <3>1. CASE j.fn = "strcpy"
      <4>1. StrLen(memory, j.s) \in Nat
        BY <1>1, <3>1, JobShape, StrLenIs DEF Legal
      <4>2. ~Downwards(j)
        BY <3>1 DEF Downwards
      <4>3. 0 \in 0 .. StrLen(memory, j.s)
        BY <4>1
      <4>. QED BY <1>1, <2>1, <2>2, <4>2, <4>3 DEF StrcpyLoop
    <3>2. CASE j.fn # "strcpy"
      BY <1>1, <3>2 DEF StrcpyLoop
    <3>. QED BY <3>1, <3>2
  <2>7. running'
    BY <1>1, <1>6
  <2>. QED BY <1>3, <1>4, <2>3, <2>4, <2>5, <2>6, <2>7 DEF StringInv, Progress
<1>. QED BY <1>5, <1>6

\* What holds in every turn.
LEMMA TurnFacts ==
  ASSUME StringInv, running
  PROVE  /\ Progress /\ Owed /\ ReadOnly /\ StringTypes
         /\ job.d \in Nat /\ job.s \in Nat /\ job.n \in Nat /\ job.byte \in Int
         /\ job.d < MemorySize /\ job.s < MemorySize
         /\ job.fn \in {"memmove", "memcpy", "memset", "strlen", "strcmp", "strcpy", "strncmp"}
<1>1. StringTypes /\ Progress /\ Owed /\ ReadOnly
  BY DEF StringInv
<1>2. job \in StringJob
  BY <1>1 DEF StringTypes
<1>. QED BY <1>1, <1>2, JobShape, StringAssumption DEF Address

\* The test that ends the loop: everything is done.
LEMMA LoopEnds ==
  ASSUME StringInv, MemTurn, left = 0
  PROVE  StringInv'
<1>. USE StringAssumption
<1>1. /\ running /\ job.fn \in {"memmove", "memcpy", "memset"}
      /\ running' = FALSE /\ UNCHANGED <<memory, before, job>>
  BY DEF MemTurn, StringDone
<1>2. StringTypes' /\ Owed' /\ ReadOnly'
  BY <1>1, TurnFacts DEF StringTypes, Owed, ReadOnly
<1>3. /\ Progress /\ memory \in [Address -> Byte] /\ before \in [Address -> Byte]
      /\ job.d \in Nat /\ job.s \in Nat /\ job.n \in Nat
  BY <1>1, TurnFacts DEF StringTypes
<1>4. job.n - left = job.n
  BY <1>3
<1>5. Result
  <2>1. CASE job.fn \in {"memmove", "memcpy"} /\ ~Downwards(job)
    <3>1. Upright(job) => memory = WithBlock(before, job.d, job.s, job.n)
      BY <1>3, <1>4, <2>1 DEF Progress, UpLoop
    <3>2. job.fn = "memmove" => Upright(job)
      BY <1>3, <2>1 DEF Upright, Downwards
    <3>. QED BY <2>1, <3>1, <3>2 DEF Result
  <2>2. CASE Downwards(job)
    <3>1. memory = WithTail(before, job.d, job.s, 0, job.n)
      BY <1>3, <2>2 DEF Progress, DownLoop
    <3>2. WithTail(before, job.d, job.s, 0, job.n) = WithBlock(before, job.d, job.s, job.n)
      BY <1>3, NoTurns
    <3>3. memory = WithBlock(before, job.d, job.s, job.n)
      BY <3>1, <3>2
    <3>. QED BY <2>2, <3>3 DEF Result, Downwards
  <2>3. CASE job.fn = "memset"
    BY <1>3, <1>4, <2>3 DEF Progress, SetLoop, Result
  <2>. QED BY <1>1, <2>1, <2>2, <2>3
<1>6. Result'
  BY <1>1, <1>5 DEF Result
<1>7. Copies'
  BY <1>6, CopiesIs
<1>. QED BY <1>1, <1>2, <1>7 DEF StringInv

LEMMA UpTurn ==
  ASSUME StringInv, MemTurn, left # 0, job.fn \in {"memmove", "memcpy"}, ~Downwards(job)
  PROVE  StringInv'
<1>. USE StringAssumption
<1>. DEFINE k == job.n - left
<1>1. /\ running /\ running' = running /\ UNCHANGED <<before, job>>
      /\ left' = left - 1 /\ dst' = dst + 1 /\ src' = src + 1
      /\ memory' = [memory EXCEPT ![dst] = memory[src]]
  BY DEF MemTurn, Copied
<1>2. /\ memory \in [Address -> Byte] /\ before \in [Address -> Byte]
      /\ job.d \in Nat /\ job.s \in Nat /\ job.n \in Nat
      /\ job.d + job.n <= MemorySize /\ job.s + job.n <= MemorySize
  BY <1>1, TurnFacts DEF StringTypes, Owed, InMemory
<1>3. /\ left \in 0 .. job.n /\ dst = job.d + k /\ src = job.s + k
      /\ Upright(job) => memory = WithBlock(before, job.d, job.s, k)
  BY <1>1, TurnFacts DEF Progress, UpLoop
<1>4. /\ k \in Nat /\ k < job.n /\ job.n - (left - 1) = k + 1 /\ left - 1 \in 0 .. job.n
  BY <1>2, <1>3
<1>. HIDE DEF k
<1>5. dst \in Address /\ src \in Address
  <2>1. job.d + k \in Address /\ job.s + k \in Address
    BY <1>2, <1>4, InRange
  <2>. QED BY <1>3, <2>1
<1>6. memory' \in [Address -> Byte]
  BY <1>1, <1>2, <1>5
<1>7. Upright(job) => memory' = WithBlock(before, job.d, job.s, k + 1)
  <2>. HAVE Upright(job)
  <2>1. job.d <= job.s \/ job.s + k < job.d
    BY <1>2, <1>4 DEF Upright, Apart
  <2>2. job.d + k < MemorySize /\ job.s + k < MemorySize
    BY <1>2, <1>4
  <2>3. memory = WithBlock(before, job.d, job.s, k)
    BY <1>3
  <2>. QED BY <1>1, <1>2, <1>3, <1>4, <2>1, <2>2, <2>3, BlockGrows
<1>8. UpLoop'
  <2>1. dst' = job.d + (k + 1) /\ src' = job.s + (k + 1)
    BY <1>1, <1>2, <1>3, <1>4
  <2>2. left' = left - 1 /\ job' = job /\ before' = before
    BY <1>1
  <2>. QED BY <1>4, <1>7, <2>1, <2>2 DEF UpLoop
<1>9. DownLoop' /\ SetLoop' /\ StrcpyLoop' /\ ReadOnly'
  BY <1>1 DEF DownLoop, SetLoop, StrcpyLoop, ReadOnly
<1>10. StringTypes' /\ Owed'
  BY <1>1, <1>6, TurnFacts DEF StringTypes, Owed
<1>. QED BY <1>1, <1>8, <1>9, <1>10 DEF StringInv, Progress

LEMMA DownTurn ==
  ASSUME StringInv, MemTurn, left # 0, Downwards(job)
  PROVE  StringInv'
<1>. USE StringAssumption
<1>1. /\ running /\ running' = running /\ UNCHANGED <<before, job>>
      /\ left' = left - 1 /\ dst' = dst - 1 /\ src' = src - 1
      /\ memory' = [memory EXCEPT ![dst - 1] = memory[src - 1]]
      /\ job.fn = "memmove"
  BY DEF MemTurn, Copied, Downwards
<1>2. /\ memory \in [Address -> Byte] /\ before \in [Address -> Byte]
      /\ job.d \in Nat /\ job.s \in Nat /\ job.n \in Nat /\ job.s < job.d
      /\ job.d + job.n <= MemorySize /\ job.s + job.n <= MemorySize
  BY <1>1, TurnFacts DEF StringTypes, Owed, InMemory, Downwards
<1>3. /\ left \in 0 .. job.n /\ dst = job.d + left /\ src = job.s + left
      /\ memory = WithTail(before, job.d, job.s, left, job.n)
  BY <1>1, TurnFacts DEF Progress, DownLoop
<1>. DEFINE k == left - 1
<1>4. /\ k \in Nat /\ k < job.n /\ k + 1 = left /\ k \in 0 .. job.n
      /\ dst - 1 = job.d + k /\ src - 1 = job.s + k
  BY <1>2, <1>3
<1>. HIDE DEF k
<1>5. dst - 1 \in Address /\ src - 1 \in Address
  <2>1. job.d + k \in Address
    BY <1>2, <1>4, InRange
  <2>2. job.s + k \in Address
    BY <1>2, <1>4, InRange
  <2>. QED BY <1>4, <2>1, <2>2
<1>6. memory' \in [Address -> Byte]
  BY <1>1, <1>2, <1>5
<1>7. memory' = WithTail(before, job.d, job.s, k, job.n)
  <2>1. memory' = [memory EXCEPT ![job.d + k] = memory[job.s + k]]
    BY <1>1, <1>4
  <2>2. memory = WithTail(before, job.d, job.s, k + 1, job.n)
    BY <1>3, <1>4
  <2>3. /\ k \in Nat /\ k < job.n /\ job.d + job.n <= MemorySize /\ job.s < job.d
        /\ job.d \in Nat /\ job.s \in Nat /\ job.n \in Nat
        /\ before \in [Address -> Byte]
    BY <1>2, <1>4
  <2>. QED BY <2>1, <2>2, <2>3, TailGrows, SMTT(30)
<1>8. DownLoop'
  BY <1>1, <1>4, <1>7 DEF DownLoop, k
<1>9. UpLoop' /\ SetLoop' /\ StrcpyLoop' /\ ReadOnly'
  BY <1>1 DEF UpLoop, SetLoop, StrcpyLoop, ReadOnly
<1>10. StringTypes' /\ Owed'
  BY <1>1, <1>6, TurnFacts DEF StringTypes, Owed
<1>. QED BY <1>1, <1>8, <1>9, <1>10 DEF StringInv, Progress

LEMMA SetTurn ==
  ASSUME StringInv, MemTurn, left # 0, job.fn = "memset"
  PROVE  StringInv'
<1>. USE StringAssumption
<1>. DEFINE k == job.n - left
            v == Cast(job.byte)
<1>1. /\ running /\ running' = running /\ UNCHANGED <<before, job>>
      /\ left' = left - 1 /\ dst' = dst + 1
      /\ memory' = [memory EXCEPT ![dst] = v]
  BY DEF MemTurn, Downwards
<1>2. /\ memory \in [Address -> Byte] /\ before \in [Address -> Byte] /\ v \in Byte
      /\ job.d \in Nat /\ job.n \in Nat /\ job.d + job.n <= MemorySize
  BY <1>1, TurnFacts, CastIsByte DEF StringTypes, Owed, InMemory
<1>3. left \in 0 .. job.n /\ dst = job.d + k /\ memory = WithBytes(before, job.d, k, v)
  BY <1>1, TurnFacts DEF Progress, SetLoop
<1>4. k \in Nat /\ k < job.n /\ job.n - (left - 1) = k + 1 /\ left - 1 \in 0 .. job.n
  BY <1>2, <1>3
<1>. HIDE DEF k, v
<1>5. dst \in Address /\ job.d + k < MemorySize
  <2>1. job.d + k \in Address /\ job.d + k < MemorySize
    BY <1>2, <1>4, InRange
  <2>. QED BY <1>3, <2>1
<1>6. memory' \in [Address -> Byte]
  BY <1>1, <1>2, <1>5
<1>7. memory' = WithBytes(before, job.d, k + 1, v)
  BY <1>1, <1>2, <1>3, <1>4, <1>5, BytesGrow
<1>8. SetLoop'
  <2>1. dst' = job.d + (k + 1)
    BY <1>1, <1>2, <1>3, <1>4
  <2>. QED BY <1>1, <1>4, <1>7, <2>1 DEF SetLoop, v
<1>9. UpLoop' /\ DownLoop' /\ StrcpyLoop' /\ ReadOnly'
  BY <1>1 DEF UpLoop, DownLoop, Downwards, StrcpyLoop, ReadOnly
<1>10. StringTypes' /\ Owed'
  BY <1>1, <1>6, TurnFacts DEF StringTypes, Owed
<1>. QED BY <1>1, <1>8, <1>9, <1>10 DEF StringInv, Progress

LEMMA StrcpySound ==
  ASSUME StringInv, StrcpyTurn
  PROVE  StringInv'
<1>. USE StringAssumption
<1>. DEFINE n == StrLen(before, job.s)
<1>1. /\ running /\ job.fn = "strcpy" /\ UNCHANGED <<before, job, left>>
      /\ dst' = dst + 1 /\ src' = src + 1
      /\ memory' = [memory EXCEPT ![dst] = memory[src]]
      /\ running' = (memory[src] # 0)
  BY DEF StrcpyTurn, Copied
<1>2. /\ memory \in [Address -> Byte] /\ before \in [Address -> Byte]
      /\ job.d \in Nat /\ job.s \in Nat
      /\ job.d + (n + 1) <= MemorySize /\ Apart(job.d, job.s, n + 1)
  BY <1>1, TurnFacts DEF StringTypes, Owed, InMemory
<1>3. /\ n \in Nat /\ job.s + n < MemorySize /\ before[job.s + n] = 0
      /\ \A i \in 0 .. n - 1 : before[job.s + i] # 0
  <2>1. job.s \in Address /\ TerminatedAt(before, job.s)
    BY <1>1, TurnFacts DEF Owed, Address
  <2>. QED BY <2>1, StrLenIs
<1>4. PICK k \in 0 .. n :
        /\ dst = job.d + k /\ src = job.s + k
        /\ memory = WithBlock(before, job.d, job.s, k)
  BY <1>1, TurnFacts DEF Progress, StrcpyLoop
<1>. HIDE DEF n
<1>5. /\ k \in Nat /\ k <= n
      /\ job.d <= job.s \/ job.s + k < job.d
      /\ job.d + k \in Address /\ job.d + k < MemorySize
      /\ job.s + k \in Address /\ job.s + k < MemorySize
  <2>1. k \in Nat /\ k <= n /\ k < n + 1 /\ n + 1 \in Nat /\ job.s + (n + 1) <= MemorySize
    BY <1>2, <1>3, <1>4
  <2>2. job.d <= job.s \/ job.s + k < job.d
    BY <1>2, <2>1 DEF Apart
  <2>3. job.d + k \in Address /\ job.d + k < MemorySize
    BY <1>2, <2>1, InRange
  <2>4. job.s + k \in Address /\ job.s + k < MemorySize
    BY <1>2, <2>1, InRange
  <2>. QED BY <2>1, <2>2, <2>3, <2>4
<1>6. memory' \in [Address -> Byte]
  BY <1>1, <1>2, <1>4, <1>5
<1>7. memory' = WithBlock(before, job.d, job.s, k + 1)
  <2>1. /\ job.d + k < MemorySize /\ job.s + k < MemorySize
        /\ k \in Nat /\ job.d \in Nat /\ job.s \in Nat
    BY <1>2, <1>5
  <2>2. job.d <= job.s \/ job.s + k < job.d
    BY <1>5
  <2>3. [memory EXCEPT ![job.d + k] = memory[job.s + k]]
          = WithBlock(before, job.d, job.s, k + 1)
    BY <1>2, <1>4, <2>1, <2>2, BlockGrows
  <2>. QED BY <1>1, <1>4, <2>3
\* The byte that is copied is one of the old memory.
<1>8. memory[src] = before[job.s + k]
  <2>1. job.s + k \notin job.d .. job.d + k - 1
    BY <1>2, <1>5
  <2>. QED BY <1>4, <1>5, <2>1 DEF WithBlock
<1>9. StringTypes' /\ Owed' /\ ReadOnly'
  <2>1. running' \in BOOLEAN
    BY <1>1
  <2>. QED BY <1>1, <1>6, <2>1, TurnFacts DEF StringTypes, Owed, ReadOnly
<1>10. CASE memory[src] = 0
  <2>1. k = n
    <3>1. ~ k \in 0 .. n - 1
      BY <1>3, <1>8, <1>10
    <3>. QED BY <1>3, <1>5, <3>1
  <2>2. memory' = WithBlock(before, job.d, job.s, n + 1)
    BY <1>7, <2>1
  <2>3. Result'
    BY <1>1, <2>2 DEF Result, n
  <2>. QED BY <1>1, <1>9, <1>10, <2>3, CopiesIs DEF StringInv
<1>11. CASE memory[src] # 0
  <2>1. k < n
    BY <1>3, <1>5, <1>8, <1>11
  <2>2. /\ k + 1 \in 0 .. n /\ dst' = job.d + (k + 1) /\ src' = job.s + (k + 1)
    BY <1>1, <1>2, <1>3, <1>4, <1>5, <2>1
  <2>3. StrcpyLoop'
    BY <1>1, <1>7, <2>2 DEF StrcpyLoop, n
  <2>4. UpLoop' /\ DownLoop' /\ SetLoop'
    BY <1>1 DEF UpLoop, DownLoop, Downwards, SetLoop
  <2>. QED BY <1>1, <1>9, <1>11, <2>3, <2>4 DEF StringInv, Progress
<1>. QED BY <1>10, <1>11

LEMMA ReadSound ==
  ASSUME StringInv, StrlenTurn \/ StrcmpTurn
  PROVE  StringInv'
<1>1. /\ running /\ running' \in BOOLEAN /\ UNCHANGED <<memory, before, job>>
      /\ job.fn \in {"strlen", "strcmp", "strncmp"}
  BY DEF StrlenTurn, StrcmpTurn, StringInv, StringTypes
<1>2. StringTypes' /\ Owed' /\ ReadOnly'
  BY <1>1, TurnFacts DEF StringTypes, Owed, ReadOnly
<1>3. Progress'
  BY <1>1 DEF Progress, UpLoop, DownLoop, Downwards, SetLoop, StrcpyLoop
<1>4. Copies'
  <2>1. Result'
    BY <1>1, TurnFacts DEF ReadOnly, Result
  <2>. QED BY <2>1, CopiesIs
<1>. QED BY <1>2, <1>3, <1>4 DEF StringInv

LEMMA StringStepSound == StringInv /\ [StringNext]_stringVars => StringInv'
<1>. SUFFICES ASSUME StringInv, [StringNext]_stringVars
              PROVE  StringInv'
  OBVIOUS
<1>1. ASSUME NEW j \in StringJob, CallString(j)
      PROVE  StringInv'
  BY <1>1, CallSound
<1>2. CASE MemTurn
  <2>1. job.fn \in {"memmove", "memcpy", "memset"}
    BY <1>2 DEF MemTurn
  <2>2. Downwards(job) => job.fn = "memmove"
    BY DEF Downwards
  <2>. QED BY <1>2, <2>1, <2>2, LoopEnds, UpTurn, DownTurn, SetTurn
<1>3. CASE StrcpyTurn
  BY <1>3, StrcpySound
<1>4. CASE StrlenTurn \/ StrcmpTurn
  BY <1>4, ReadSound
<1>5. CASE UNCHANGED stringVars
  <2>1. UNCHANGED <<memory, before, job, running, dst, src, left>>
    BY <1>5 DEF stringVars
  <2>2. StringTypes' /\ Owed' /\ ReadOnly'
    BY <2>1 DEF StringInv, StringTypes, Owed, ReadOnly
  <2>3. running' => Progress'
    BY <2>1 DEF StringInv, Progress, UpLoop, DownLoop, Downwards, SetLoop, StrcpyLoop
  <2>4. ~running' => Copies'
    <3>1. ~running => Result
      BY CopiesIs DEF StringInv
    <3>2. ~running' => Result'
      BY <2>1, <3>1 DEF Result
    <3>. QED BY <3>2, CopiesIs
  <2>. QED BY <2>2, <2>3, <2>4 DEF StringInv
<1>. QED BY <1>1, <1>2, <1>3, <1>4, <1>5 DEF StringNext, StringTurn

(* In a memory of any size: memmove copies its range whatever the overlap, *)
(* memcpy where its direction allows it, memset stores its byte, strcpy    *)
(* the string with its NUL, and no byte outside those ranges changes; the  *)
(* functions that compare and measure change nothing.                      *)
THEOREM StringSound == StringSpec => []Copies
<1>1. StringInv => Copies
  BY DEF StringInv, Copies
<1>. QED BY <1>1, StringInitSound, StringStepSound, PTL DEF StringSpec

-----------------------------------------------------------------------------
(* The functions that read, and the bounds of all pointers.                *)

\* Bytes before the k-th that are no NUL are bytes of the string.
LEMMA InString ==
  ASSUME NEW m, NEW p \in Address, TerminatedAt(m, p), NEW k \in Nat,
         \A i \in 0 .. k - 1 : m[p + i] # 0
  PROVE  k <= StrLen(m, p) /\ p + k < MemorySize /\ StrLen(m, p) \in Nat
<1>. DEFINE n == StrLen(m, p)
<1>1. n \in Nat /\ p + n < MemorySize /\ m[p + n] = 0 /\ p \in Nat
  BY StrLenIs DEF Address
<1>. HIDE DEF n
<1>2. ~ n \in 0 .. k - 1
  BY <1>1
<1>3. k <= n
  BY <1>1, <1>2
<1>4. k <= n /\ p + k < MemorySize /\ n \in Nat
  BY <1>1, <1>3, StringAssumption
<1>. QED BY <1>4 DEF n

OwedRead ==
  /\ job.fn = "strlen" => TerminatedAt(before, job.s)
  /\ job.fn = "strcmp" => TerminatedAt(before, job.d) /\ TerminatedAt(before, job.s)
  /\ job.fn = "strncmp" => /\ TerminatedAt(before, job.d) \/ InMemory(job.d, job.n)
                           /\ TerminatedAt(before, job.s) \/ InMemory(job.s, job.n)

StrlenLoop ==
  job.fn = "strlen" =>
    \E k \in Nat : /\ src = job.s + k
                   /\ \A i \in 0 .. k - 1 : before[job.s + i] # 0

\* The first k bytes are the same, and no NUL.
SameUpTo(k) ==
  \A i \in 0 .. k - 1 : /\ before[job.d + i] # 0
                        /\ before[job.d + i] = before[job.s + i]

CmpLoop ==
  job.fn \in {"strcmp", "strncmp"} =>
    \E k \in Nat : /\ dst = job.d + k /\ src = job.s + k
                   /\ job.fn = "strcmp" => left = 0
                   /\ job.fn = "strncmp" => left = job.n - k /\ k <= job.n
                   /\ SameUpTo(k)

Bounds ==
  /\ dst \in 0 .. MemorySize
  /\ src \in 0 .. MemorySize
  /\ left \in -1 .. MemorySize
  /\ answer \in -MaxByte .. MemorySize + MaxByte

ReadInv ==
  /\ Bounds
  /\ OwedRead
  /\ running => StrlenLoop /\ CmpLoop
  /\ ~running => Compares

LEMMA ReadInitSound == StringInit => ReadInv
<1>. SUFFICES ASSUME StringInit PROVE ReadInv
  OBVIOUS
<1>. USE StringAssumption
<1>1. /\ job.fn = "memset" /\ running = FALSE
      /\ dst = 0 /\ src = 0 /\ left = 0 /\ answer = 0
  BY DEF StringInit, NoJob
<1>2. Bounds
  BY <1>1 DEF Bounds
<1>. QED BY <1>1, <1>2 DEF ReadInv, OwedRead, Compares

LEMMA ReadCallSound ==
  ASSUME ReadInv, NEW j \in StringJob, CallString(j)
  PROVE  ReadInv'
<1>. USE StringAssumption
<1>1. /\ before' = memory /\ job' = j /\ Legal(j)
      /\ left' = j.n /\ answer' = answer
      /\ dst' = (IF Downwards(j) THEN j.d + j.n ELSE j.d)
      /\ src' = (IF Downwards(j) THEN j.s + j.n ELSE j.s)
      /\ running' = ~(j.fn = "memmove" /\ j.d = j.s)
  BY DEF CallString
<1>2. /\ j.d \in Nat /\ j.s \in Nat /\ j.n \in 0 .. MemorySize
      /\ j.d < MemorySize /\ j.s < MemorySize
      /\ j.fn \in {"memmove", "memcpy", "memset", "strlen", "strcmp", "strcpy", "strncmp"}
  BY JobShape DEF Address
<1>3. Downwards(j) => j.d + j.n <= MemorySize /\ j.s + j.n <= MemorySize
  BY <1>1 DEF Downwards, Legal, InMemory
<1>4. Bounds'
  BY <1>1, <1>2, <1>3 DEF ReadInv, Bounds
<1>5. OwedRead'
  BY <1>1 DEF OwedRead, Legal
<1>6. \A i : i \notin 0 .. 0 - 1
  OBVIOUS
<1>7. StrlenLoop'
  <2>. SUFFICES ASSUME j.fn = "strlen" PROVE src' = j.s + 0
    BY <1>1, <1>6 DEF StrlenLoop
  <2>. QED BY <1>1, <1>2 DEF Downwards
<1>8. CmpLoop'
  <2>. SUFFICES ASSUME j.fn \in {"strcmp", "strncmp"}
                PROVE  /\ dst' = j.d + 0 /\ src' = j.s + 0
                       /\ j.fn = "strcmp" => left' = 0
                       /\ left' = j.n - 0 /\ 0 <= j.n
    BY <1>1, <1>6 DEF CmpLoop, SameUpTo
  <2>1. j.fn = "strcmp" => j.n = 0
    BY DEF StringJob, MemJob, SetJob, StrJob, NCmpJob
  <2>. QED BY <1>1, <1>2, <2>1 DEF Downwards
<1>9. ~running' => Compares'
  BY <1>1 DEF Compares
<1>. QED BY <1>4, <1>5, <1>7, <1>8, <1>9 DEF ReadInv

\* The functions that write read nothing that they answer with.
LEMMA WriteReadSound ==
  ASSUME StringInv, StringInv', ReadInv, MemTurn \/ StrcpyTurn
  PROVE  ReadInv'
<1>. USE StringAssumption
<1>1. /\ running /\ UNCHANGED <<before, job, answer>>
      /\ job.fn \in {"memmove", "memcpy", "memset", "strcpy"}
  BY DEF MemTurn, StrcpyTurn
<1>2. OwedRead' /\ StrlenLoop' /\ CmpLoop' /\ Compares'
  BY <1>1 DEF OwedRead, StrlenLoop, CmpLoop, Compares
<1>3. /\ job.d \in Nat /\ job.s \in Nat /\ job.n \in Nat
      /\ job.d < MemorySize /\ job.s < MemorySize /\ job.n <= MemorySize
  <2>1. job \in StringJob
    BY DEF StringInv, StringTypes
  <2>. QED BY <2>1, JobShape DEF Address
<1>4. Bounds'
  <2>1. Bounds
    BY DEF ReadInv
  <2>2. CASE MemTurn /\ left = 0
    BY <1>1, <2>1, <2>2 DEF Bounds, MemTurn, StringDone
  <2>3. CASE MemTurn /\ left # 0
    <3>1. running' = TRUE
      BY <1>1, <2>3 DEF MemTurn, StringInv, StringTypes
    <3>2. Progress' /\ Owed'
      BY <3>1 DEF StringInv
    <3>3. CASE job.fn \in {"memmove", "memcpy"}
      <4>1. /\ left' \in 0 .. job.n
            /\ \E k \in 0 .. job.n : dst' = job.d + k /\ src' = job.s + k
        <5>1. CASE Downwards(job)
          BY <1>1, <1>3, <3>2, <5>1 DEF Progress, DownLoop, Downwards
        <5>2. CASE ~Downwards(job)
          <6>1. left' \in 0 .. job.n /\ dst' = job.d + (job.n - left')
                /\ src' = job.s + (job.n - left')
            BY <1>1, <1>3, <3>2, <3>3, <5>2 DEF Progress, UpLoop, Downwards
          <6>2. job.n - left' \in 0 .. job.n
            BY <1>3, <6>1
          <6>. QED BY <6>1, <6>2
        <5>. QED BY <5>1, <5>2
      <4>2. job.d + job.n <= MemorySize /\ job.s + job.n <= MemorySize
        BY <1>1, <3>2, <3>3 DEF Owed, InMemory
      <4>3. dst' \in 0 .. MemorySize /\ src' \in 0 .. MemorySize
        BY <1>3, <4>1, <4>2
      <4>. QED BY <1>1, <1>3, <2>1, <4>1, <4>3 DEF Bounds
    <3>4. CASE job.fn = "memset"
      <4>1. left' \in 0 .. job.n /\ dst' = job.d + (job.n - left')
        BY <1>1, <1>3, <3>2, <3>4 DEF Progress, SetLoop
      <4>2. job.d + job.n <= MemorySize
        BY <1>1, <3>2, <3>4 DEF Owed, InMemory
      <4>3. src' = src
        BY <2>3, <3>4 DEF MemTurn, Downwards
      <4>4. dst' \in 0 .. MemorySize
        BY <1>3, <4>1, <4>2
      <4>. QED BY <1>1, <1>3, <2>1, <4>1, <4>3, <4>4 DEF Bounds
    <3>. QED BY <2>3, <3>3, <3>4 DEF MemTurn
  <2>4. CASE StrcpyTurn
    <3>. DEFINE n == StrLen(before, job.s)
    <3>1. /\ job.fn = "strcpy" /\ left' = left /\ dst' = dst + 1 /\ src' = src + 1
      BY <2>4 DEF StrcpyTurn
    <3>2. /\ n \in Nat /\ job.s + n < MemorySize /\ job.d + (n + 1) <= MemorySize
      <4>1. TerminatedAt(before, job.s) /\ job.d + (n + 1) <= MemorySize
        BY <3>1 DEF StringInv, Owed, InMemory
      <4>. QED BY <1>3, <4>1, StrLenIs DEF Address
    <3>3. PICK k \in 0 .. n : dst = job.d + k /\ src = job.s + k
      BY <1>1, <3>1 DEF StringInv, Progress, StrcpyLoop
    <3>. HIDE DEF n
    <3>4. dst' \in 0 .. MemorySize /\ src' \in 0 .. MemorySize
      BY <1>3, <3>1, <3>2, <3>3
    <3>. QED BY <1>1, <2>1, <3>1, <3>4 DEF Bounds
  <2>. QED BY <2>2, <2>3, <2>4
<1>. QED BY <1>2, <1>4 DEF ReadInv

LEMMA StrlenSound ==
  ASSUME StringInv, ReadInv, StrlenTurn
  PROVE  ReadInv'
<1>. USE StringAssumption
<1>. DEFINE n == StrLen(before, job.s)
<1>1. /\ running /\ job.fn = "strlen" /\ UNCHANGED <<memory, before, job, dst, left>>
      /\ IF memory[src] # 0 THEN src' = src + 1 /\ UNCHANGED <<running, answer>>
         ELSE running' = FALSE /\ answer' = src - job.s /\ src' = src
  BY DEF StrlenTurn
<1>2. memory = before /\ job.s \in Nat /\ job.s \in Address /\ job \in StringJob
  <2>1. job \in StringJob
    BY DEF StringInv, StringTypes
  <2>. QED BY <1>1, <2>1, JobShape DEF StringInv, ReadOnly, Address
<1>3. PICK k \in Nat : /\ src = job.s + k
                       /\ \A i \in 0 .. k - 1 : before[job.s + i] # 0
  BY <1>1 DEF ReadInv, StrlenLoop
<1>4. TerminatedAt(before, job.s)
  BY <1>1 DEF ReadInv, OwedRead
<1>5. k <= n /\ job.s + k < MemorySize /\ n \in Nat
  BY <1>2, <1>3, <1>4, InString
<1>6. /\ n \in Nat /\ job.s + n < MemorySize /\ before[job.s + n] = 0
      /\ \A i \in 0 .. n - 1 : before[job.s + i] # 0
  BY <1>2, <1>4, StrLenIs
<1>. HIDE DEF n
<1>7. OwedRead' /\ CmpLoop'
  BY <1>1 DEF ReadInv, OwedRead, CmpLoop
<1>8. CASE memory[src] # 0
  <2>1. /\ src' = job.s + (k + 1) /\ k + 1 \in Nat
        /\ \A i \in 0 .. (k + 1) - 1 : before[job.s + i] # 0
    BY <1>1, <1>2, <1>3, <1>8
  <2>2. StrlenLoop'
    BY <1>1, <2>1 DEF StrlenLoop
  <2>3. Bounds'
    BY <1>1, <1>2, <1>5, <1>8, <2>1 DEF ReadInv, Bounds
  <2>. QED BY <1>1, <1>7, <1>8, <2>2, <2>3 DEF ReadInv
<1>9. CASE memory[src] = 0
  <2>1. k = n
    <3>1. ~ k \in 0 .. n - 1
      BY <1>2, <1>3, <1>6, <1>9
    <3>. QED BY <1>5, <3>1
  <2>2. answer' = n
    BY <1>1, <1>2, <1>3, <1>9, <2>1
  <2>3. Compares'
    BY <1>1, <2>2 DEF Compares, n
  <2>4. Bounds'
    BY <1>1, <1>2, <1>5, <1>9, <2>1, <2>2 DEF ReadInv, Bounds
  <2>. QED BY <1>1, <1>7, <1>9, <2>3, <2>4 DEF ReadInv
<1>. QED BY <1>8, <1>9

NoneDecides(m, a, b, k) == \A i \in 0 .. k - 1 : ~Decides(m, a, b, i)

\* The comparison is decided by the first byte that decides it, if any.
LEMMA ComparisonIs ==
  ASSUME NEW m, NEW a \in Nat, NEW b \in Nat, NEW n \in Nat, NEW k \in Nat, k <= n,
         NoneDecides(m, a, b, k)
  PROVE  /\ k = n => Comparison(m, a, b, n) = 0
         /\ k < n /\ InMemory(a, k + 1) /\ InMemory(b, k + 1) /\ Decides(m, a, b, k)
              => Comparison(m, a, b, n) = m[a + k] - m[b + k]
<1>. DEFINE common == {i \in 0 .. n - 1 : InMemory(a, i + 1) /\ InMemory(b, i + 1)}
            deciding == {i \in common : Decides(m, a, b, i)}
            first == CHOOSE i \in deciding : \A j \in deciding : i <= j
<1>1. Comparison(m, a, b, n) = IF deciding = {} THEN 0 ELSE m[a + first] - m[b + first]
  BY DEF Comparison
<1>2. \A i \in deciding : i \in 0 .. n - 1 /\ Decides(m, a, b, i)
  OBVIOUS
<1>3. \A i \in deciding : i \in Nat /\ i >= k /\ i < n
  BY <1>2 DEF NoneDecides
<1>4. ASSUME k < n, InMemory(a, k + 1), InMemory(b, k + 1), Decides(m, a, b, k)
      PROVE  k \in deciding
  <2>1. k \in 0 .. n - 1
    BY <1>4
  <2>. QED BY <1>4, <2>1
<1>. HIDE DEF deciding
<1>5. ASSUME k \in deciding PROVE first = k
  <2>1. \A j \in deciding : k <= j
    BY <1>3
  <2>2. \A i \in deciding : (\A j \in deciding : i <= j) => i = k
    BY <1>3, <1>5
  <2>. QED BY <1>5, <2>1, <2>2
<1>6. k = n => deciding = {}
  BY <1>3
<1>. HIDE DEF first
<1>. QED BY <1>1, <1>4, <1>5, <1>6

LEMMA StrcmpSound ==
  ASSUME StringInv, ReadInv, StrcmpTurn
  PROVE  ReadInv'
<1>. USE StringAssumption
<1>. DEFINE counted == job.fn = "strncmp"
            a == job.d
            b == job.s
            limit == IF counted THEN job.n ELSE StrLen(before, a) + 1
<1>1. /\ running /\ job.fn \in {"strcmp", "strncmp"} /\ UNCHANGED <<memory, before, job>>
      /\ left' = IF counted THEN left - 1 ELSE left
      /\ IF ~(counted /\ left = 0) /\ Same
         THEN dst' = dst + 1 /\ src' = src + 1 /\ UNCHANGED <<running, answer>>
         ELSE /\ running' = FALSE
              /\ answer' = IF UsedUp(left') THEN 0 ELSE memory[dst] - memory[src]
              /\ UNCHANGED <<dst, src>>
  BY DEF StrcmpTurn
<1>2. /\ memory = before /\ before \in [Address -> Byte]
      /\ a \in Nat /\ b \in Nat /\ a \in Address /\ b \in Address /\ job.n \in Nat
  <2>1. job \in StringJob /\ before \in [Address -> Byte]
    BY DEF StringInv, StringTypes
  <2>2. memory = before
    BY <1>1 DEF StringInv, ReadOnly
  <2>. QED BY <2>1, <2>2, JobShape DEF Address
<1>3. PICK k \in Nat : /\ dst = a + k /\ src = b + k
                       /\ ~counted => left = 0
                       /\ counted => left = job.n - k /\ k <= job.n
                       /\ SameUpTo(k)
  BY <1>1 DEF ReadInv, CmpLoop
<1>4. \A i \in 0 .. k - 1 : before[a + i] # 0 /\ before[a + i] = before[b + i]
  BY <1>3 DEF SameUpTo
<1>5. \A i \in 0 .. k - 1 : before[b + i] # 0
  BY <1>4
<1>6. ~counted => StrLen(before, a) \in Nat /\ k <= StrLen(before, a)
  BY <1>1, <1>2, <1>4, InString DEF ReadInv, OwedRead
<1>7. limit \in Nat /\ k <= limit /\ (~counted => k < limit)
  BY <1>2, <1>3, <1>6
\* Unless the counter is used up, both bytes are in the memory.
<1>8. ASSUME ~(counted /\ left = 0)
      PROVE  k < limit /\ a + k < MemorySize /\ b + k < MemorySize
  <2>1. k < limit /\ (counted => k < job.n)
    BY <1>2, <1>3, <1>7, <1>8
  <2>2. CASE TerminatedAt(before, a)
    <3>1. a + k < MemorySize
      BY <1>2, <1>4, <2>2, InString
    <3>2. CASE TerminatedAt(before, b)
      BY <1>2, <1>5, <2>1, <3>1, <3>2, InString
    <3>3. CASE ~TerminatedAt(before, b)
      <4>1. job.fn = "strncmp" /\ b + job.n <= MemorySize
        BY <1>1, <3>3 DEF ReadInv, OwedRead, InMemory
      <4>2. b + k < MemorySize
        BY <1>2, <1>3, <2>1, <4>1
      <4>. QED BY <2>1, <3>1, <4>2
    <3>. QED BY <3>2, <3>3
  <2>3. CASE ~TerminatedAt(before, a)
    <3>1. counted /\ a + job.n <= MemorySize
      BY <1>1, <2>3 DEF ReadInv, OwedRead, InMemory
    <3>2. a + k < MemorySize
      BY <1>2, <2>1, <3>1
    <3>3. CASE TerminatedAt(before, b)
      BY <1>2, <1>5, <2>1, <3>2, <3>3, InString
    <3>4. CASE ~TerminatedAt(before, b)
      <4>1. b + job.n <= MemorySize
        BY <1>1, <3>4 DEF ReadInv, OwedRead, InMemory
      <4>2. b + k < MemorySize
        BY <1>2, <1>3, <2>1, <3>1, <4>1
      <4>. QED BY <2>1, <3>2, <4>2
    <3>. QED BY <3>3, <3>4
  <2>. QED BY <2>2, <2>3
<1>9. OwedRead' /\ StrlenLoop'
  BY <1>1 DEF ReadInv, OwedRead, StrlenLoop
<1>10. NoneDecides(before, a, b, k)
  BY <1>4 DEF Decides, NoneDecides
<1>11. left' \in -1 .. MemorySize
  BY <1>1, <1>2, <1>3 DEF ReadInv, Bounds
<1>. HIDE DEF limit
<1>12. CASE ~(counted /\ left = 0) /\ Same
  <2>1. /\ dst' = a + (k + 1) /\ src' = b + (k + 1) /\ k + 1 \in Nat
        /\ running' = running /\ answer' = answer
    BY <1>1, <1>2, <1>3, <1>12
  <2>2. before[a + k] # 0 /\ before[a + k] = before[b + k]
    BY <1>2, <1>3, <1>12 DEF Same
  <2>3. \A i \in 0 .. (k + 1) - 1 : i \in 0 .. k - 1 \/ i = k
    OBVIOUS
  <2>4. \A i \in 0 .. (k + 1) - 1 : before[a + i] # 0 /\ before[a + i] = before[b + i]
    BY <1>4, <2>2, <2>3
  <2>5. /\ ~counted => left' = 0
        /\ counted => left' = job.n - (k + 1) /\ k + 1 <= job.n
    BY <1>1, <1>2, <1>3, <1>12
  <2>6. CmpLoop'
    BY <1>1, <2>1, <2>4, <2>5 DEF CmpLoop, SameUpTo
  <2>7. dst' \in 0 .. MemorySize /\ src' \in 0 .. MemorySize
    BY <1>2, <1>8, <1>12, <2>1
  <2>8. Bounds'
    BY <1>11, <2>1, <2>7 DEF ReadInv, Bounds
  <2>. QED BY <1>1, <1>9, <2>1, <2>6, <2>8 DEF ReadInv
<1>13. CASE ~(~(counted /\ left = 0) /\ Same)
  <2>1. /\ running' = FALSE /\ dst' = dst /\ src' = src
        /\ answer' = IF UsedUp(left') THEN 0 ELSE memory[dst] - memory[src]
    BY <1>1, <1>13
  <2>2. answer' = Comparison(before, a, b, limit) /\ answer' \in -MaxByte .. MaxByte
    <3>1. CASE counted /\ left = 0
      <4>1. k = limit
        BY <1>2, <1>3, <3>1 DEF limit
      <4>2. answer' = 0
        BY <1>1, <2>1, <3>1 DEF UsedUp
      <4>. QED BY <1>2, <1>7, <1>10, <4>1, <4>2, ComparisonIs
    <3>2. CASE ~(counted /\ left = 0)
      <4>1. left' # -1
        BY <1>1, <1>2, <1>3, <3>2
      <4>2. answer' = before[a + k] - before[b + k]
        BY <1>2, <1>3, <2>1, <4>1 DEF UsedUp
      <4>3. Decides(before, a, b, k)
        BY <1>2, <1>3, <1>13, <3>2 DEF Same, Decides
      <4>4. InMemory(a, k + 1) /\ InMemory(b, k + 1)
        BY <1>2, <1>8, <3>2 DEF InMemory
      <4>5. before[a + k] \in Byte /\ before[b + k] \in Byte
        <5>1. a + k \in Address /\ b + k \in Address
          BY <1>2, <1>8, <3>2 DEF Address
        <5>. QED BY <1>2, <5>1
      <4>6. answer' \in -MaxByte .. MaxByte
        BY <4>2, <4>5 DEF Byte
      <4>7. k < limit
        BY <1>8, <3>2
      <4>8. Comparison(before, a, b, limit) = before[a + k] - before[b + k]
        BY <1>2, <1>7, <1>10, <4>3, <4>4, <4>7, ComparisonIs, SMTT(30)
      <4>. QED BY <4>2, <4>6, <4>8
    <3>. QED BY <3>1, <3>2
  <2>3. Compares'
    BY <1>1, <2>2 DEF Compares, limit
  <2>4. Bounds'
    BY <1>11, <2>1, <2>2 DEF ReadInv, Bounds
  <2>. QED BY <1>9, <2>1, <2>3, <2>4 DEF ReadInv
<1>. QED BY <1>12, <1>13

LEMMA ReadStepSound ==
  StringInv /\ StringInv' /\ ReadInv /\ [StringNext]_stringVars => ReadInv'
<1>. SUFFICES ASSUME StringInv, StringInv', ReadInv, [StringNext]_stringVars
              PROVE  ReadInv'
  OBVIOUS
<1>1. CASE UNCHANGED stringVars
  BY <1>1 DEF stringVars, ReadInv, Bounds, OwedRead, StrlenLoop, CmpLoop, SameUpTo,
     Compares
<1>. QED BY <1>1, ReadCallSound, WriteReadSound, StrlenSound, StrcmpSound
         DEF StringNext, StringTurn

\* In a memory of any size and for every call that its caller may make: strcmp
\* and strncmp answer with the first two bytes that differ, up to the NUL and
\* the limit, and strlen with the place of the NUL.
THEOREM ComparesSound == StringSpec => []Compares
<1>1. ReadInv => Compares
  BY DEF ReadInv, Compares
<1>. QED BY <1>1, StringInitSound, StringStepSound, ReadInitSound, ReadStepSound,
            PTL DEF StringSpec

\* What the next turn of a string function touches.
LEMMA StringsInMemory ==
  ASSUME StringInv, ReadInv, running, job.fn \in {"strlen", "strcpy", "strcmp", "strncmp"},
         job.fn = "strncmp" => left # 0
  PROVE  src \in Address /\ (job.fn # "strlen" => dst \in Address)
<1>. USE StringAssumption
<1>1. /\ before \in [Address -> Byte] /\ memory \in [Address -> Byte]
      /\ job.d \in Nat /\ job.s \in Nat /\ job.n \in Nat
      /\ job.d \in Address /\ job.s \in Address
  BY TurnFacts DEF StringTypes, Address
<1>2. CASE job.fn = "strlen"
  <2>1. PICK k \in Nat : /\ src = job.s + k
                         /\ \A i \in 0 .. k - 1 : before[job.s + i] # 0
    BY <1>2 DEF ReadInv, StrlenLoop
  <2>2. TerminatedAt(before, job.s)
    BY <1>2 DEF ReadInv, OwedRead
  <2>3. job.s + k < MemorySize
    BY <1>1, <2>1, <2>2, InString
  <2>. QED BY <1>1, <1>2, <2>1, <2>3 DEF Address
<1>3. CASE job.fn = "strcpy"
  <2>. DEFINE n == StrLen(before, job.s)
  <2>1. /\ n \in Nat /\ job.s + n < MemorySize /\ job.d + (n + 1) <= MemorySize
    BY <1>1, <1>3, TurnFacts, StrLenIs DEF Owed, InMemory
  <2>2. PICK k \in 0 .. n : dst = job.d + k /\ src = job.s + k
    BY <1>3, TurnFacts DEF Progress, StrcpyLoop
  <2>. HIDE DEF n
  <2>. QED BY <1>1, <2>1, <2>2 DEF Address
<1>4. CASE job.fn \in {"strcmp", "strncmp"}
  <2>1. PICK k \in Nat : /\ dst = job.d + k /\ src = job.s + k
                         /\ job.fn = "strncmp" => left = job.n - k /\ k <= job.n
                         /\ SameUpTo(k)
    BY <1>4 DEF ReadInv, CmpLoop
  <2>2. /\ \A i \in 0 .. k - 1 : before[job.d + i] # 0
        /\ \A i \in 0 .. k - 1 : before[job.s + i] # 0
    BY <2>1 DEF SameUpTo
  <2>3. /\ \/ TerminatedAt(before, job.d)
           \/ job.fn = "strncmp" /\ job.d + job.n <= MemorySize
        /\ \/ TerminatedAt(before, job.s)
           \/ job.fn = "strncmp" /\ job.s + job.n <= MemorySize
    BY <1>4 DEF ReadInv, OwedRead, InMemory
  <2>4. job.fn = "strncmp" => k < job.n
    BY <1>1, <2>1
  <2>5. job.d + k < MemorySize
    <3>1. CASE TerminatedAt(before, job.d)
      BY <1>1, <2>2, <3>1, InString
    <3>2. CASE job.fn = "strncmp" /\ job.d + job.n <= MemorySize
      BY <1>1, <2>4, <3>2
    <3>. QED BY <2>3, <3>1, <3>2
  <2>6. job.s + k < MemorySize
    <3>1. CASE TerminatedAt(before, job.s)
      BY <1>1, <2>2, <3>1, InString
    <3>2. CASE job.fn = "strncmp" /\ job.s + job.n <= MemorySize
      BY <1>1, <2>4, <3>2
    <3>. QED BY <2>3, <3>1, <3>2
  <2>. QED BY <1>1, <2>1, <2>5, <2>6 DEF Address
<1>. QED BY <1>2, <1>3, <1>4

LEMMA BlocksInMemory ==
  ASSUME StringInv, running, job.fn \in {"memmove", "memcpy", "memset"}, left # 0
  PROVE  /\ Downwards(job) => dst - 1 \in Address /\ src - 1 \in Address
         /\ ~Downwards(job) => dst \in Address
         /\ ~Downwards(job) /\ job.fn # "memset" => src \in Address
<1>. USE StringAssumption
<1>1. /\ job.d \in Nat /\ job.s \in Nat /\ job.n \in Nat
      /\ UpLoop /\ DownLoop /\ SetLoop
      /\ job.d + job.n <= MemorySize
      /\ job.fn # "memset" => job.s + job.n <= MemorySize
  BY TurnFacts DEF Progress, Owed, InMemory
<1>2. CASE Downwards(job)
  <2>1. left \in 0 .. job.n /\ dst = job.d + left /\ src = job.s + left
        /\ job.fn = "memmove"
    BY <1>1, <1>2 DEF DownLoop, Downwards
  <2>. QED BY <1>1, <1>2, <2>1 DEF Address
<1>3. CASE ~Downwards(job) /\ job.fn # "memset"
  <2>1. /\ left \in 0 .. job.n
        /\ dst = job.d + (job.n - left) /\ src = job.s + (job.n - left)
    BY <1>1, <1>3 DEF UpLoop
  <2>. QED BY <1>1, <1>3, <2>1 DEF Address
<1>4. CASE job.fn = "memset"
  <2>1. left \in 0 .. job.n /\ dst = job.d + (job.n - left) /\ ~Downwards(job)
    BY <1>1, <1>4 DEF SetLoop, Downwards
  <2>. QED BY <1>1, <1>4, <2>1 DEF Address
<1>. QED BY <1>2, <1>3, <1>4

\* In a memory of any size and for every call that its caller may make, no
\* function reads or writes a byte that the memory does not have: each loop is
\* stopped by its counter or by a NUL that is still to come.
THEOREM PointersSound == StringSpec => []StaysInMemory
<1>1. ASSUME StringInv, ReadInv, running
      PROVE  NextBytes \subseteq Address
  <2>1. job.fn \in {"memmove", "memcpy", "memset", "strlen", "strcmp", "strcpy", "strncmp"}
    BY <1>1, TurnFacts
  <2>2. CASE job.fn \in {"memmove", "memcpy", "memset"} /\ left # 0
    <3>1. \/ NextBytes = {dst - 1, src - 1} /\ Downwards(job)
          \/ NextBytes = {dst} /\ ~Downwards(job)
          \/ NextBytes = {dst, src} /\ ~Downwards(job) /\ job.fn # "memset"
      BY <2>2 DEF NextBytes, Downwards
    <3>. QED BY <1>1, <2>2, <3>1, BlocksInMemory
  <2>3. CASE job.fn \in {"strlen", "strcpy", "strcmp", "strncmp"}
             /\ (job.fn = "strncmp" => left # 0)
    <3>1. \/ NextBytes = {src}
          \/ NextBytes = {dst, src} /\ job.fn # "strlen"
      BY <2>3 DEF NextBytes, Downwards
    <3>. QED BY <1>1, <2>3, <3>1, StringsInMemory
  <2>4. CASE job.fn \in {"memmove", "memcpy", "memset", "strncmp"} /\ left = 0
    <3>1. NextBytes = {}
      BY <2>4 DEF NextBytes
    <3>. QED BY <3>1
  <2>. QED BY <2>1, <2>2, <2>3, <2>4
<1>2. StringInv /\ ReadInv => StaysInMemory
  BY <1>1 DEF StaysInMemory
<1>. QED BY <1>2, StringInitSound, StringStepSound, ReadInitSound, ReadStepSound,
            PTL DEF StringSpec
=============================================================================

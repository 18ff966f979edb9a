---------------------------- MODULE ConsoleProofs ---------------------------
(***************************************************************************)
(* Proofs about the machine of module Console and its parts: the shell's   *)
(* line buffer and dispatcher (Shell), for buffers, character sets and     *)
(* command tables of every size; init_gdt (Boot), wherever the linker puts *)
(* the TSS and the table; the machine that boots and then runs the shell;  *)
(* and its screen, for any width and height, where module VgaProofs says   *)
(* what the driver does.                                                   *)
(***************************************************************************)
EXTENDS Console, TLAPS, SequenceTheorems, WellFoundedInduction

-----------------------------------------------------------------------------
(* Least and greatest numbers.                                             *)

LEMMA Least ==
  ASSUME NEW S, S \subseteq Nat, S # {}
  PROVE  \E k \in S : \A n \in S : k <= n
<1>. DEFINE R == {ss \in Nat \X Nat : ss[1] < ss[2]}
<1>1. IsWellFoundedOn(R, Nat)
  BY NatLessThanWellFounded DEF OpToRel
<1>2. PICK k \in S : \A n \in S : <<n, k>> \notin R
  <2>. HIDE DEF R
  <2>. QED BY <1>1, WFMin
<1>3. ASSUME NEW n \in S, n < k
      PROVE  FALSE
  <2>1. <<n, k>> \in Nat \X Nat
    OBVIOUS
  <2>2. <<n, k>>[1] < <<n, k>>[2]
    BY <1>3
  <2>. QED BY <1>2, <2>1, <2>2
<1>. QED BY <1>3

LEMMA Greatest ==
  ASSUME NEW S, S \subseteq Nat, S # {}, NEW m \in Nat, \A k \in S : k <= m
  PROVE  \E k \in S : \A n \in S : n <= k
<1>. DEFINE T == {m - k : k \in S}
<1>1. T \subseteq Nat /\ T # {}
  <2>1. \A k \in S : m - k \in Nat
    OBVIOUS
  <2>2. PICK k \in S : TRUE
    OBVIOUS
  <2>. QED BY <2>1, <2>2
<1>2. PICK t \in T : \A n \in T : t <= n
  <2>. HIDE DEF T
  <2>. QED BY <1>1, Least
<1>3. PICK k \in S : t = m - k
  BY <1>2
<1>4. \A n \in S : m - k <= m - n
  BY <1>2, <1>3
<1>. QED BY <1>3, <1>4

-----------------------------------------------------------------------------
(* Strings in the buffer.                                                  *)

\* A string ends at its first NUL.
LEMMA StringIs ==
  ASSUME NEW buf, NEW k \in 0 .. BUF_SZ - 1, NEW e \in k .. BUF_SZ - 1,
         buf[e] = NUL, \A n \in k .. e - 1 : buf[n] # NUL
  PROVE  StringAt(buf, k) = [n \in 1 .. e - k |-> buf[k + n - 1]]
<1>. USE LineInputAssumption
<1>. DEFINE ends == {n \in k .. BUF_SZ - 1 : buf[n] = NUL}
            end == CHOOSE n \in ends : \A n2 \in ends : n <= n2
<1>1. e \in ends /\ \A n2 \in ends : e <= n2
  OBVIOUS
<1>2. end \in ends /\ \A n2 \in ends : end <= n2
  BY <1>1
<1>3. end = e
  <2>. HIDE DEF end
  <2>. QED BY <1>1, <1>2
<1>4. StringAt(buf, k) = [n \in 1 .. end - k |-> buf[k + n - 1]]
  BY <1>1 DEF StringAt
<1>. QED BY <1>3, <1>4

\* What is read from the buffer consists of characters.
LEMMA StringOf ==
  ASSUME NEW buf \in Buffer, NEW k \in 0 .. BUF_SZ - 1
  PROVE  StringAt(buf, k) \in Seq(Printable)
<1>. USE LineInputAssumption
<1>. DEFINE ends == {n \in k .. BUF_SZ - 1 : buf[n] = NUL}
<1>1. CASE ends = {}
  BY <1>1 DEF StringAt
<1>2. CASE ends # {}
  <2>1. PICK e \in ends : \A n \in ends : e <= n
    <3>1. ends \subseteq Nat
      OBVIOUS
    <3>. HIDE DEF ends
    <3>. QED BY <1>2, <3>1, Least
  <2>2. \A n \in k .. e - 1 : buf[n] # NUL /\ buf[n] \in Printable
    BY <2>1 DEF Buffer
  <2>3. StringAt(buf, k) = [n \in 1 .. e - k |-> buf[k + n - 1]]
    BY <2>1, <2>2, StringIs
  <2>4. [n \in 1 .. e - k |-> buf[k + n - 1]] \in [1 .. e - k -> Printable]
    BY <2>1, <2>2
  <2>5. e - k \in Nat
    BY <2>1
  <2>6. [1 .. e - k -> Printable] \subseteq Seq(Printable)
    BY <2>5
  <2>. QED BY <2>3, <2>4, <2>6
<1>. QED BY <1>1, <1>2

\* So does what cmd_echo prints, wherever it starts to read.
LEMMA EchoTextOf ==
  ASSUME input \in Lines
  PROVE  EchoText \in Seq(Printable)
<1>. DEFINE text == StringAt(input.buf, EchoOffset)
            solid == {k \in DOMAIN text : text[k] # Blank}
            first == CHOOSE k \in solid : \A n \in solid : k <= n
<1>1. text \in Seq(Printable)
  BY StringOf, ShellAssumption, LineInputAssumption DEF Lines
<1>2. CASE solid = {}
  BY <1>2 DEF EchoText
<1>3. CASE solid # {}
  <2>1. solid \subseteq Nat
    <3>. HIDE DEF text
    <3>. QED BY <1>1
  <2>2. \E k \in solid : \A n \in solid : k <= n
    <3>. HIDE DEF solid
    <3>. QED BY <1>3, <2>1, Least
  <2>3. first \in solid
    <3>. HIDE DEF solid
    <3>. QED BY <2>2
  <2>4. SubSeq(text, first, Len(text)) \in Seq(Printable)
    <3>1. first \in 1 .. Len(text)
      <4>. HIDE DEF text, first
      <4>. QED BY <1>1, <2>3
    <3>. HIDE DEF text, first
    <3>. QED BY <1>1, <3>1
  <2>. QED BY <1>3, <2>4 DEF EchoText
<1>. QED BY <1>2, <1>3

\* The array holds the string s, followed by a NUL.
Holds(buf, s) ==
  /\ Len(s) \in 0 .. BUF_SZ - 1
  /\ \A k \in 0 .. Len(s) - 1 : buf[k] = s[k + 1]
  /\ buf[Len(s)] = NUL

LEMMA HeldString ==
  ASSUME NEW buf, NEW s \in Seq(Printable), Holds(buf, s)
  PROVE  StringAt(buf, 0) = s
<1>. USE LineInputAssumption
<1>. DEFINE e == Len(s)
<1>1. e \in 0 .. BUF_SZ - 1 /\ buf[e] = NUL
  BY DEF Holds
<1>2. \A n \in 0 .. e - 1 : buf[n] # NUL
  BY DEF Holds
<1>3. StringAt(buf, 0) = [n \in 1 .. e - 0 |-> buf[0 + n - 1]]
  <2>. HIDE DEF e
  <2>. QED BY <1>1, <1>2, StringIs
<1>4. \A n \in 1 .. e : buf[0 + n - 1] = s[n]
  BY DEF Holds
<1>5. [n \in 1 .. e - 0 |-> buf[0 + n - 1]] = [n \in 1 .. e |-> s[n]]
  BY <1>1, <1>4
<1>6. s = [n \in 1 .. Len(s) |-> s[n]]
  OBVIOUS
<1>. QED BY <1>3, <1>5, <1>6

\* rtrim: the array then holds the string without the blanks at its end.
LEMMA TrimmedHolds ==
  ASSUME NEW buf \in Buffer, NEW s \in Seq(Printable), Holds(buf, s)
  PROVE  /\ Trimmed(buf) \in Buffer
         /\ \A k \in 0 .. BUF_SZ - 1 : Trimmed(buf)[k] \in {buf[k], NUL}
         /\ RightTrimmed(s) \in Seq(Printable)
         /\ Holds(Trimmed(buf), RightTrimmed(s))
<1>. USE LineInputAssumption
<1>. DEFINE blanks == {k \in 0 .. Len(s) - 1 :
                         \A n \in k .. Len(s) - 1 : buf[n] = Blank}
            solid == {k \in DOMAIN s : s[k] # Blank}
<1>1. Trimmed(buf) = [k \in 0 .. BUF_SZ - 1 |-> IF k \in blanks THEN NUL ELSE buf[k]]
  BY HeldString DEF Trimmed, Buffer
<1>2. /\ Trimmed(buf) \in Buffer
      /\ \A k \in 0 .. BUF_SZ - 1 : Trimmed(buf)[k] \in {buf[k], NUL}
  <2>. HIDE DEF blanks
  <2>. QED BY <1>1 DEF Buffer
<1>3. CASE solid = {}
  <2>1. RightTrimmed(s) = <<>>
    BY <1>3 DEF RightTrimmed
  <2>2. \A n \in 0 .. Len(s) - 1 : buf[n] = Blank
    BY <1>3 DEF Holds
  <2>3. Trimmed(buf)[0] = NUL
    <3>1. CASE Len(s) = 0
      BY <1>1, <3>1 DEF Holds
    <3>2. CASE Len(s) > 0
      <4>1. 0 \in blanks
        BY <2>2, <3>2
      <4>. HIDE DEF blanks
      <4>. QED BY <1>1, <4>1
    <3>. QED BY <3>1, <3>2
  <2>. QED BY <1>2, <2>1, <2>3 DEF Holds
<1>4. CASE solid # {}
  <2>1. PICK m \in solid : \A n \in solid : n <= m
    <3>1. solid \subseteq Nat /\ \A k \in solid : k <= Len(s)
      OBVIOUS
    <3>2. Len(s) \in Nat
      OBVIOUS
    <3>. HIDE DEF solid
    <3>. QED BY <1>4, <3>1, <3>2, Greatest
  <2>2. m \in 1 .. Len(s) /\ s[m] # Blank /\ \A n \in m + 1 .. Len(s) : s[n] = Blank
    BY <2>1
  <2>3. RightTrimmed(s) = SubSeq(s, 1, m)
    <3>. DEFINE last == CHOOSE k \in solid : \A n \in solid : n <= k
    <3>1. last \in solid /\ \A n \in solid : n <= last
      <4>. HIDE DEF solid
      <4>. QED BY <2>1
    <3>2. last = m
      <4>. HIDE DEF last
      <4>. QED BY <2>1, <3>1
    <3>3. RightTrimmed(s) = SubSeq(s, 1, last)
      BY <1>4 DEF RightTrimmed
    <3>. QED BY <3>2, <3>3
  <2>4. /\ SubSeq(s, 1, m) \in Seq(Printable)
        /\ Len(SubSeq(s, 1, m)) = m
        /\ \A k \in 1 .. m : SubSeq(s, 1, m)[k] = s[k]
    BY <2>2
  <2>5. \A k \in 0 .. m - 1 : Trimmed(buf)[k] = s[k + 1]
    <3>1. \A k \in 0 .. m - 1 : buf[k] = s[k + 1] /\ k \in 0 .. BUF_SZ - 1
      BY <2>2 DEF Holds
    <3>2. \A k \in 0 .. m - 1 : k \notin blanks
      BY <2>2, <3>1
    <3>. HIDE DEF blanks
    <3>. QED BY <1>1, <3>1, <3>2
  <2>6. Trimmed(buf)[m] = NUL
    <3>1. CASE m = Len(s)
      BY <1>1, <3>1 DEF Holds
    <3>2. CASE m < Len(s)
      <4>1. \A n \in m .. Len(s) - 1 : buf[n] = Blank
        BY <2>2 DEF Holds
      <4>2. m \in blanks /\ m \in 0 .. BUF_SZ - 1
        BY <2>2, <3>2, <4>1 DEF Holds
      <4>. HIDE DEF blanks
      <4>. QED BY <1>1, <4>2
    <3>. QED BY <2>2, <3>1, <3>2
  <2>. QED BY <1>2, <2>2, <2>3, <2>4, <2>5, <2>6 DEF Holds
<1>. QED BY <1>3, <1>4

-----------------------------------------------------------------------------
(* The invariant: while a line is read, the array holds it up to the index *)
(* (and, behind it, anything); its last byte is a NUL at all times.        *)

InBuffer ==
  /\ input.i = Len(typed)
  /\ \A k \in 0 .. input.i - 1 : input.buf[k] = typed[k + 1]

LastIsNUL == input.buf[BUF_SZ - 1] = NUL

IInv ==
  /\ TypeOK
  /\ LastIsNUL
  /\ phase = "read" => InBuffer
  /\ RunsWhatWasTyped

LEMMA InitSound == Init => IInv
<1>. SUFFICES ASSUME Init
              PROVE  IInv
  OBVIOUS
<1>1. Zeroed \in Buffer /\ Zeroed[BUF_SZ - 1] = NUL
  BY LineInputAssumption DEF Zeroed, Buffer
<1>2. input \in Lines
  BY <1>1, LineInputAssumption DEF Init, Lines, At
<1>. QED BY <1>1, <1>2 DEF Init, IInv, TypeOK, LastIsNUL, InBuffer, At, RunsWhatWasTyped

LEMMA CharacterSound ==
  ASSUME IInv, NEW c \in Printable, Character(c)
  PROVE  IInv'
<1>. USE LineInputAssumption
<1>1. /\ phase = "read" /\ phase' = "read" /\ output' = output
      /\ input.buf \in Buffer /\ input.i \in 0 .. BUF_SZ - 1
      /\ input.i = Len(typed) /\ typed \in Seq(Printable)
      /\ \A k \in 0 .. input.i - 1 : input.buf[k] = typed[k + 1]
  BY DEF IInv, Character, TypeOK, Lines, InBuffer
<1>2. CASE input.i < BUF_SZ - 1
  <2>1. /\ input' = At([input.buf EXCEPT ![input.i] = c], input.i + 1)
        /\ typed' = Append(typed, c)
    BY <1>1, <1>2 DEF Character, Insert
  <2>2. /\ input'.buf = [input.buf EXCEPT ![input.i] = c]
        /\ input'.i = input.i + 1
        /\ input' \in Lines
    BY <1>1, <1>2, <2>1 DEF At, Lines, Buffer
  <2>3. typed' \in Seq(Printable) /\ Len(typed') = input.i + 1
    BY <1>1, <2>1
  <2>4. \A k \in 0 .. input.i : input'.buf[k] = typed'[k + 1]
    BY <1>1, <2>1, <2>2 DEF Buffer
  <2>5. LastIsNUL'
    BY <1>1, <1>2, <2>2 DEF IInv, LastIsNUL, Buffer
  <2>. QED BY <1>1, <2>2, <2>3, <2>4, <2>5
       DEF IInv, TypeOK, InBuffer, RunsWhatWasTyped
<1>3. CASE ~ (input.i < BUF_SZ - 1)
  <2>1. input' = input /\ typed' = typed
    BY <1>1, <1>3 DEF Character, Insert
  <2>. QED BY <1>1, <2>1 DEF IInv, TypeOK, LastIsNUL, InBuffer, RunsWhatWasTyped, Typed
<1>. QED BY <1>2, <1>3

LEMMA BackspaceSound ==
  ASSUME IInv, Backspace
  PROVE  IInv'
<1>. USE LineInputAssumption
<1>1. /\ phase = "read" /\ phase' = "read" /\ output' = output
      /\ input.buf \in Buffer /\ input.i \in 0 .. BUF_SZ - 1
      /\ input.i = Len(typed) /\ typed \in Seq(Printable)
      /\ \A k \in 0 .. input.i - 1 : input.buf[k] = typed[k + 1]
  BY DEF IInv, Backspace, TypeOK, Lines, InBuffer
<1>2. CASE input.i > 0
  <2>1. input' = At(input.buf, input.i - 1) /\ typed' = SubSeq(typed, 1, Len(typed) - 1)
    BY <1>1, <1>2 DEF Backspace, Erase
  <2>2. input'.buf = input.buf /\ input'.i = input.i - 1 /\ input' \in Lines
    BY <1>1, <1>2, <2>1 DEF At, Lines
  <2>3. /\ typed' \in Seq(Printable) /\ Len(typed') = input.i - 1
        /\ \A k \in 1 .. input.i - 1 : typed'[k] = typed[k]
    <3>. DEFINE n == input.i - 1
    <3>1. n \in 0 .. Len(typed) - 1 /\ typed' = SubSeq(typed, 1, n)
      BY <1>1, <1>2, <2>1
    <3>2. Len(SubSeq(typed, 1, n)) = n /\ SubSeq(typed, 1, n) \in Seq(Printable)
      <4>. HIDE DEF n
      <4>. QED BY <1>1, <3>1
    <3>3. \A k \in 1 .. n : SubSeq(typed, 1, n)[k] = typed[k]
      <4>. HIDE DEF n
      <4>. QED BY <1>1, <3>1
    <3>. QED BY <3>1, <3>2, <3>3
  <2>4. InBuffer'
    <3>1. ASSUME NEW k \in 0 .. input.i - 2
          PROVE  input.buf[k] = typed'[k + 1]
      <4>1. k + 1 \in 1 .. input.i - 1 /\ k \in 0 .. input.i - 1
        BY <1>1
      <4>. QED BY <1>1, <2>3, <4>1
    <3>2. input'.i - 1 = input.i - 2
      BY <1>1, <2>2
    <3>3. \A k \in 0 .. input'.i - 1 : input'.buf[k] = typed'[k + 1]
      BY <2>2, <3>1, <3>2
    <3>. QED BY <2>2, <2>3, <3>3 DEF InBuffer
  <2>5. TypeOK'
    BY <1>1, <2>2, <2>3 DEF IInv, TypeOK
  <2>6. LastIsNUL'
    BY <2>2 DEF IInv, LastIsNUL
  <2>. QED BY <1>1, <2>4, <2>5, <2>6 DEF IInv, RunsWhatWasTyped
<1>3. CASE input.i = 0
  <2>1. typed = <<>>
    BY <1>1, <1>3, EmptySeq
  <2>2. input' = input
    BY <1>1, <1>3 DEF Backspace, Erase
  <2>3. typed' = typed
    BY <2>1 DEF Backspace
  <2>. QED BY <1>1, <2>2, <2>3
       DEF IInv, TypeOK, LastIsNUL, InBuffer, RunsWhatWasTyped, Typed
<1>. QED BY <1>1, <1>2, <1>3

\* A prompt starts an empty line, whatever the array holds.
LEMMA FreshSound ==
  ASSUME NEW buf \in Buffer, buf[BUF_SZ - 1] = NUL,
         phase' = "read", input' = FreshLine(buf), typed' = <<>>,
         output' \in Seq(Printable)
  PROVE  IInv'
<1>. USE LineInputAssumption
<1>1. input'.buf = [buf EXCEPT ![0] = NUL] /\ input'.i = 0 /\ input' \in Lines
  BY DEF FreshLine, At, Lines, Buffer
<1>2. LastIsNUL'
  BY <1>1 DEF LastIsNUL, Buffer
<1>. QED BY <1>1, <1>2 DEF IInv, TypeOK, InBuffer, RunsWhatWasTyped

LEMMA EnterSound ==
  ASSUME IInv, Enter
  PROVE  IInv'
<1>. USE LineInputAssumption
<1>. DEFINE buf == [input.buf EXCEPT ![input.i] = NUL]
<1>1. /\ phase = "read" /\ output' = output /\ output \in Seq(Printable)
      /\ input.buf \in Buffer /\ input.i \in 0 .. BUF_SZ - 1
      /\ input.i = Len(typed) /\ typed \in Seq(Printable)
      /\ \A k \in 0 .. input.i - 1 : input.buf[k] = typed[k + 1]
      /\ input.buf[BUF_SZ - 1] = NUL
  BY DEF IInv, Enter, TypeOK, Lines, InBuffer, LastIsNUL
<1>2. Terminate(input) = [buf |-> buf, i |-> input.i]
  BY DEF Terminate, At
<1>3. buf \in Buffer /\ buf[BUF_SZ - 1] = NUL /\ Holds(buf, typed)
  BY <1>1 DEF Buffer, Holds
<1>4. CASE buf[0] = NUL
  <2>1. input' = FreshLine(buf) /\ typed' = <<>> /\ phase' = "read"
    BY <1>1, <1>2, <1>4 DEF Enter
  <2>. HIDE DEF buf
  <2>. QED BY <1>1, <1>3, <2>1, FreshSound
<1>5. CASE buf[0] # NUL
  <2>1. input' = At(Trimmed(buf), input.i) /\ phase' = "run" /\ typed' = typed
    BY <1>2, <1>5 DEF Enter
  <2>. HIDE DEF buf
  <2>2. /\ Trimmed(buf) \in Buffer /\ Trimmed(buf)[BUF_SZ - 1] = NUL
        /\ RightTrimmed(typed) \in Seq(Printable)
        /\ Holds(Trimmed(buf), RightTrimmed(typed))
    BY <1>1, <1>3, TrimmedHolds
  <2>3. StringAt(Trimmed(buf), 0) = RightTrimmed(typed)
    BY <2>2, HeldString
  <2>4. input'.buf = Trimmed(buf) /\ input' \in Lines
    BY <1>1, <2>1, <2>2 DEF At, Lines
  <2>. QED BY <1>1, <2>1, <2>2, <2>3, <2>4
       DEF IInv, TypeOK, LastIsNUL, RunsWhatWasTyped, Typed
<1>. QED BY <1>4, <1>5

LEMMA RunSound ==
  ASSUME IInv, (\E k \in DOMAIN Command : Dispatch(k)) \/ Unknown \/ AppReturns
  PROVE  IInv'
<1>. USE LineInputAssumption
<1>1. /\ phase \in {"run", "app"}
      /\ input.buf \in Buffer /\ input.buf[BUF_SZ - 1] = NUL
      /\ output \in Seq(Printable)
      /\ Typed \in Seq(Printable)
      /\ EchoText \in Seq(Printable)
  BY StringOf, EchoTextOf
  DEF IInv, TypeOK, Lines, LastIsNUL, Dispatch, Unknown, AppReturns, Typed
<1>2. output' \in Seq(Printable)
  <2>1. output' \in {EchoText, <<>>, Typed, output}
    BY DEF Dispatch, Unknown, AppReturns
  <2>2. <<>> \in Seq(Printable)
    OBVIOUS
  <2>. QED BY <1>1, <2>1, <2>2
<1>3. CASE Prompt
  BY <1>1, <1>2, <1>3, FreshSound DEF Prompt
<1>4. CASE phase' \in {"app", "halted"} /\ UNCHANGED <<input, typed>>
  BY <1>2, <1>4 DEF IInv, TypeOK, LastIsNUL, RunsWhatWasTyped
<1>5. Prompt \/ (phase' \in {"app", "halted"} /\ UNCHANGED <<input, typed>>)
  BY DEF Dispatch, Unknown, AppReturns
<1>. QED BY <1>3, <1>4, <1>5

LEMMA StepSound == IInv /\ [Next]_vars => IInv'
<1>. SUFFICES ASSUME IInv, [Next]_vars
              PROVE  IInv'
  OBVIOUS
<1>1. ASSUME NEW c \in Printable, Character(c)
      PROVE  IInv'
  BY <1>1, CharacterSound
<1>2. CASE Backspace
  BY <1>2, BackspaceSound
<1>3. CASE Enter
  BY <1>3, EnterSound
<1>4. CASE (\E k \in DOMAIN Command : Dispatch(k)) \/ Unknown \/ AppReturns
  BY <1>4, RunSound
<1>5. CASE UNCHANGED vars
  BY <1>5 DEF vars, IInv, TypeOK, LastIsNUL, InBuffer, RunsWhatWasTyped, Typed
<1>. QED BY <1>1, <1>2, <1>3, <1>4, <1>5 DEF Next

(* For a buffer of any size, and any table of commands: the dispatcher     *)
(* (run_cmd) sees the line that was typed without the blanks at its end,   *)
(* whatever the lines before it were, no index leaves the array, and       *)
(* cmd_echo, which reads behind the line, finds a NUL in it.               *)
THEOREM LineSound == Spec => [](TypeOK /\ RunsWhatWasTyped /\ EchoEnds)
<1>1. IInv => TypeOK /\ RunsWhatWasTyped /\ EchoEnds
  BY LineInputAssumption, ShellAssumption DEF IInv, EchoEnds, LastIsNUL
<1>. QED BY <1>1, InitSound, StepSound, PTL DEF Spec

\* For a buffer of any size: the place of insertion (pos in tty_run) stays
\* below the last element, which is kept for the NUL.
THEOREM ShellTypes == Spec => []TypeOK
<1>. QED BY LineSound, PTL

\* For a buffer of any size: cmd_echo finds a NUL in the array from any
\* place in the line, whatever the lines before this one left there.
THEOREM EchoFindsNUL == Spec => []EchoEnds
<1>. QED BY LineSound, PTL

-----------------------------------------------------------------------------
(* init_gdt.                                                               *)

\* What set_gdt_entry cuts into pieces, the processor puts together again:
\* a base of 32 bits, a limit of 20 bits, and the two flags.
LEMMA PackedReads ==
  ASSUME NEW base \in Nat, base \div 65536 < 65536,
         NEW limit \in Nat, limit \div 65536 < 16,
         NEW access, NEW granularity \in {0, 192}
  PROVE  LET d == Packed(base, limit, access, granularity)
         IN  /\ BaseOf(d) = base
             /\ LimitOf(d) = limit
             /\ Paged(d) <=> granularity = 192
             /\ Wide(d) <=> granularity = 192
             /\ d.access = access
<1>. DEFINE d == Packed(base, limit, access, granularity)
<1>1. /\ d.base_low = base % 65536
      /\ d.base_middle = (base \div 65536) % 256
      /\ d.base_high = ((base \div 65536) \div 256) % 256
      /\ d.limit_low = limit % 65536
      /\ d.granularity = ((limit \div 65536) % 16) + granularity
      /\ d.access = access
  BY DEF Packed, Low, High
<1>. HIDE DEF d
<1>2. BaseOf(d) = base
  <2>. DEFINE h == base \div 65536
  <2>1. base = 65536 * h + (base % 65536) /\ h \in Nat /\ h < 65536
    OBVIOUS
  <2>2. h = 256 * (h \div 256) + (h % 256) /\ h \div 256 \in Nat /\ h \div 256 < 256
    BY <2>1
  <2>3. (h \div 256) % 256 = h \div 256
    BY <2>2
  <2>4. h % 256 \in Nat /\ base % 65536 \in Nat
    BY <2>1
  <2>5. BaseOf(d) = (base % 65536) + 65536 * ((h % 256) + 256 * (h \div 256))
    BY <1>1, <2>3 DEF BaseOf
  <2>. HIDE DEF h
  <2>. QED BY <2>1, <2>2, <2>4, <2>5
<1>3. /\ limit = 65536 * (limit \div 65536) + (limit % 65536)
      /\ limit \div 65536 \in Nat
      /\ (limit \div 65536) % 16 = limit \div 65536
  OBVIOUS
<1>4. LimitOf(d) = limit
  <2>1. d.granularity % 16 = limit \div 65536
    BY <1>1, <1>3
  <2>. QED BY <1>1, <1>3, <2>1 DEF LimitOf
<1>5. Paged(d) <=> granularity = 192
  BY <1>1, <1>3 DEF Paged
<1>6. Wide(d) <=> granularity = 192
  BY <1>1, <1>3 DEF Wide
<1>. QED BY <1>1, <1>2, <1>4, <1>5, <1>6 DEF d

-----------------------------------------------------------------------------
(* The invariant: how far the table is filled, and what the processor has  *)
(* loaded and marked, at every step of init_gdt.                           *)

Descriptor == [base_low : Nat, base_middle : Nat, base_high : Nat,
               limit_low : Nat, granularity : Nat, access : Nat]

\* The descriptor d is as init_gdt asks for, but for its access byte.
Written(d, k) ==
  /\ BaseOf(d) = BaseOf(Asked(k))
  /\ LimitOf(d) = LimitOf(Asked(k))
  /\ Paged(d) <=> Paged(Asked(k))
  /\ Wide(d) <=> Wide(Asked(k))

BootTypes ==
  /\ pc \in 0 .. 11
  /\ gdt \in [Index -> Descriptor]
  /\ segment \in [data : Nat, code : Nat, task : Nat]

Filled == \A k \in Index : k < pc => Written(gdt[k], k)

AccessBytes ==
  /\ pc > 1 => gdt[1].access = IF pc < 9 THEN 154 ELSE 155
  /\ pc > 2 => gdt[2].access = IF pc < 9 THEN 146 ELSE 147
  /\ pc > 5 => gdt[5].access = IF pc < 11 THEN 137 ELSE 139

Registers ==
  /\ pc > 6 => gdtp = [limit |-> 47, base |-> GdtBase]
  /\ pc > 7 => gdtr = <<gdtp>>
  /\ pc > 8 => segment.data = 16 /\ segment.code = 8
  /\ pc > 9 => tss.ss0 = 16 /\ tss.iomap_base = TssSize
  /\ pc > 10 => segment.task = 40

BootInv == BootTypes /\ Filled /\ AccessBytes /\ Registers

LEMMA AskedType ==
  ASSUME NEW k \in Index
  PROVE  Asked(k) \in Descriptor
<1>1. ASSUME NEW base \in Nat, NEW limit \in Nat, NEW access \in Nat,
             NEW granularity \in {0, 192}
      PROVE  Packed(base, limit, access, granularity) \in Descriptor
  <2>1. /\ base % 65536 \in Nat /\ limit % 65536 \in Nat
        /\ (base \div 65536) \in Nat /\ (limit \div 65536) \in Nat
    OBVIOUS
  <2>2. /\ (base \div 65536) % 256 \in Nat /\ (limit \div 65536) % 16 \in Nat
        /\ ((base \div 65536) \div 256) % 256 \in Nat
    BY <2>1
  <2>3. granularity - (granularity % 16) \in Nat
    OBVIOUS
  <2>. QED BY <2>1, <2>2, <2>3 DEF Packed, Descriptor, Low, High
<1>. HIDE DEF Packed
<1>2. k \in {0, 1, 2, 3, 4, 5}
  BY DEF Index
<1>3. Packed(0, 0, 0, 0) \in Descriptor
  BY <1>1
<1>4. Packed(0, 1048575, 154, 192) \in Descriptor
  BY <1>1
<1>5. Packed(0, 1048575, 146, 192) \in Descriptor
  BY <1>1
<1>6. Packed(0, 1048575, 250, 192) \in Descriptor
  BY <1>1
<1>7. Packed(0, 1048575, 242, 192) \in Descriptor
  BY <1>1
<1>8. Packed(TssBase, TssSize - 1, 137, 0) \in Descriptor
  BY <1>1, BootAssumption DEF TssSize
<1>. QED BY <1>2, <1>3, <1>4, <1>5, <1>6, <1>7, <1>8 DEF Asked

\* One entry of a table replaced.
LEMMA Replaced ==
  ASSUME NEW S, NEW f, f = [k \in S |-> f[k]], NEW i \in S, NEW v, NEW g,
         g = [f EXCEPT ![i] = v]
  PROVE  /\ g = [k \in S |-> g[k]]
         /\ g[i] = v
         /\ \A k \in S \ {i} : g[k] = f[k]
OBVIOUS

LEMMA IsTable ==
  ASSUME NEW S, NEW T, NEW f, f = [k \in S |-> f[k]], \A k \in S : f[k] \in T
  PROVE  f \in [S -> T]
OBVIOUS

\* The processor's marks in the access byte change nothing else.
LEMMA MarkedWritten ==
  ASSUME NEW d \in Descriptor, NEW k, Written(d, k), NEW n \in Nat
  PROVE  /\ [d EXCEPT !.access = n] \in Descriptor
         /\ Written([d EXCEPT !.access = n], k)
<1>1. /\ [d EXCEPT !.access = n].base_low = d.base_low
      /\ [d EXCEPT !.access = n].base_middle = d.base_middle
      /\ [d EXCEPT !.access = n].base_high = d.base_high
      /\ [d EXCEPT !.access = n].limit_low = d.limit_low
      /\ [d EXCEPT !.access = n].granularity = d.granularity
  BY DEF Descriptor
<1>2. [d EXCEPT !.access = n] \in Descriptor
  BY DEF Descriptor
<1>. HIDE DEF Descriptor
<1>. QED BY <1>1, <1>2 DEF Written, BaseOf, LimitOf, Paged, Wide

\* What the entries are that are loaded.
LEMMA AskedFor ==
  /\ Asked(1) = Packed(0, 1048575, 154, 192)
  /\ Asked(2) = Packed(0, 1048575, 146, 192)
  /\ Asked(5) = Packed(TssBase, TssSize - 1, 137, 0)
  /\ Asked(1).access = 154 /\ Asked(2).access = 146 /\ Asked(5).access = 137
BY DEF Asked, Packed

LEMMA BootInitSound == BootInit => BootInv
<1>1. Empty \in Descriptor
  BY AskedType DEF Empty, Asked, Index
<1>. HIDE DEF Empty
<1>. QED BY <1>1 DEF BootInit, BootInv, BootTypes, Filled, AccessBytes, Registers, Index

LEMMA SetEntrySound == BootInv /\ SetEntry => BootInv'
<1>. SUFFICES ASSUME BootInv, SetEntry
              PROVE  BootInv'
  OBVIOUS
<1>1. /\ pc \in Index /\ pc \in 0 .. 5 /\ pc' = pc + 1
      /\ gdt' = [gdt EXCEPT ![pc] = Asked(pc)]
      /\ UNCHANGED <<gdtp, gdtr, segment, tss>>
  BY DEF SetEntry, Index
<1>2. BootTypes'
  BY <1>1, AskedType DEF BootInv, BootTypes, Index
<1>3. \A k \in Index : gdt'[k] = IF k = pc THEN Asked(pc) ELSE gdt[k]
  BY <1>1 DEF BootInv, BootTypes
<1>4. Filled'
  <2>1. ASSUME NEW k \in Index, k < pc + 1
        PROVE  Written(gdt'[k], k)
    <3>1. CASE k = pc
      BY <1>3, <3>1 DEF Written
    <3>2. CASE k # pc
      <4>1. k < pc
        BY <1>1, <2>1, <3>2 DEF Index
      <4>. QED BY <1>3, <3>2, <4>1 DEF BootInv, Filled
    <3>. QED BY <3>1, <3>2
  <2>. QED BY <1>1, <2>1 DEF Filled
<1>5. AccessBytes'
  <2>1. pc' < 7 /\ gdt'[1] = (IF pc = 1 THEN Asked(1) ELSE gdt[1])
        /\ gdt'[2] = (IF pc = 2 THEN Asked(2) ELSE gdt[2])
        /\ gdt'[5] = (IF pc = 5 THEN Asked(5) ELSE gdt[5])
    BY <1>1, <1>3 DEF Index
  <2>. QED BY <1>1, <2>1, AskedFor DEF BootInv, AccessBytes
<1>6. Registers'
  BY <1>1 DEF Registers
<1>. QED BY <1>2, <1>4, <1>5, <1>6 DEF BootInv

\* Neither the table nor the selectors change in these steps.
LEMMA QuietSound == BootInv /\ (SetPointer \/ Lgdt \/ InitTss) => BootInv'
<1>. SUFFICES ASSUME BootInv, SetPointer \/ Lgdt \/ InitTss
              PROVE  BootInv'
  OBVIOUS
<1>1. /\ pc \in {6, 7, 9} /\ pc' = pc + 1
      /\ UNCHANGED <<gdt, segment>>
  BY DEF SetPointer, Lgdt, InitTss
<1>2. BootTypes' /\ AccessBytes'
  BY <1>1 DEF BootInv, BootTypes, AccessBytes
<1>3. Filled'
  BY <1>1 DEF BootInv, Filled, Index
<1>4. Registers'
  BY <1>1 DEF BootInv, Registers, SetPointer, Lgdt, InitTss, SizeOfGdt
<1>. QED BY <1>2, <1>3, <1>4 DEF BootInv

LEMMA ReloadSound == BootInv /\ Reload => BootInv'
<1>. SUFFICES ASSUME BootInv, Reload
              PROVE  BootInv'
  OBVIOUS
<1>1. /\ pc = 8 /\ gdtr = <<gdtp>> /\ gdtp.limit = 47
      /\ gdt[1].access = 154 /\ gdt[2].access = 146
      /\ gdt \in [Index -> Descriptor]
      /\ Written(gdt[1], 1) /\ Written(gdt[2], 2)
  BY DEF BootInv, BootTypes, Filled, AccessBytes, Registers, Reload, Index
<1>2. Loadable(16) /\ Loadable(8)
  <2>1. gdtr # <<>> /\ gdtr[1].limit = 47
    BY <1>1
  <2>2. 16 \div 8 = 2 /\ 8 \div 8 = 1
    OBVIOUS
  <2>3. Present(gdt[2]) /\ Present(gdt[1])
    BY <1>1 DEF Present
  <2>. QED BY <2>1, <2>2, <2>3 DEF Loadable
<1>3. DataSegment(gdt[2]) /\ CodeSegment(gdt[1])
  BY <1>1 DEF DataSegment, CodeSegment, Kind
<1>4. /\ segment' = [segment EXCEPT !.data = 16, !.code = 8]
      /\ gdt' = [gdt EXCEPT ![1].access = @ + 1, ![2].access = @ + 1]
      /\ pc' = 9 /\ UNCHANGED <<gdtp, gdtr, tss>>
  BY <1>2, <1>3 DEF Reload
<1>5. /\ 1 \in Index /\ 2 \in Index
      /\ \A k \in Index \ {1, 2} : gdt'[k] = gdt[k]
      /\ gdt'[1] = [gdt[1] EXCEPT !.access = 155]
      /\ gdt'[2] = [gdt[2] EXCEPT !.access = 147]
      /\ gdt' = [k \in Index |-> gdt'[k]]
  <2>. DEFINE d1 == [gdt[1] EXCEPT !.access = 155]
              d2 == [gdt[2] EXCEPT !.access = 147]
              g == [gdt EXCEPT ![1] = d1]
  <2>1. 1 \in Index /\ 2 \in Index \ {1} /\ gdt = [k \in Index |-> gdt[k]]
    BY <1>1 DEF Index
  <2>2. gdt[1].access + 1 = 155 /\ gdt[2].access + 1 = 147
    BY <1>1
  <2>. HIDE DEF d1, d2
  <2>3. /\ g = [k \in Index |-> g[k]] /\ g[1] = d1
        /\ \A k \in Index \ {1} : g[k] = gdt[k]
    BY <2>1, Replaced
  <2>4. gdt' = [g EXCEPT ![2] = d2]
    BY <1>4, <2>1, <2>2, <2>3 DEF d1, d2
  <2>. HIDE DEF g
  <2>5. /\ gdt' = [k \in Index |-> gdt'[k]] /\ gdt'[2] = d2
        /\ \A k \in Index \ {2} : gdt'[k] = g[k]
    BY <2>1, <2>3, <2>4, Replaced
  <2>6. gdt'[1] = d1 /\ \A k \in Index \ {1, 2} : gdt'[k] = gdt[k]
    BY <2>1, <2>3, <2>5
  <2>. QED BY <2>1, <2>5, <2>6 DEF d1, d2
<1>6. /\ gdt'[1] \in Descriptor /\ Written(gdt'[1], 1)
      /\ gdt'[2] \in Descriptor /\ Written(gdt'[2], 2)
      /\ gdt'[1].access = 155 /\ gdt'[2].access = 147
  <2>1. gdt[1] \in Descriptor /\ gdt[2] \in Descriptor
    BY <1>1, <1>5
  <2>2. gdt'[1].access = 155 /\ gdt'[2].access = 147
    BY <1>5, <2>1 DEF Descriptor
  <2>. QED BY <1>1, <1>5, <2>1, <2>2, MarkedWritten, SMTT(30)
<1>7. BootTypes'
  <2>1. \A k \in Index : gdt'[k] \in Descriptor
    BY <1>1, <1>5, <1>6
  <2>2. segment' \in [data : Nat, code : Nat, task : Nat]
    BY <1>4 DEF BootInv, BootTypes
  <2>3. gdt' = [k \in Index |-> gdt'[k]]
    BY <1>5
  <2>4. gdt' \in [Index -> Descriptor]
    BY <2>1, <2>3, IsTable
  <2>5. pc' \in 0 .. 11
    BY <1>4
  <2>. QED BY <2>2, <2>4, <2>5 DEF BootTypes
<1>8. Filled'
  <2>1. \A k \in Index : Written(gdt[k], k)
    BY <1>1 DEF BootInv, Filled, Index
  <2>. QED BY <1>5, <1>6, <2>1 DEF Filled
<1>9. AccessBytes' /\ Registers'
  BY <1>1, <1>4, <1>5, <1>6 DEF BootInv, BootTypes, AccessBytes, Registers, Index
<1>. QED BY <1>7, <1>8, <1>9 DEF BootInv

LEMMA LtrSound == BootInv /\ Ltr => BootInv'
<1>. SUFFICES ASSUME BootInv, Ltr
              PROVE  BootInv'
  OBVIOUS
<1>1. /\ pc = 10 /\ gdtr = <<gdtp>> /\ gdtp.limit = 47
      /\ gdt[5].access = 137
      /\ gdt \in [Index -> Descriptor]
      /\ Written(gdt[5], 5)
  BY DEF BootInv, BootTypes, Filled, AccessBytes, Registers, Ltr, Index
<1>2. Loadable(40) /\ FreeTask(gdt[5])
  <2>1. gdtr # <<>> /\ gdtr[1].limit = 47
    BY <1>1
  <2>2. 40 \div 8 = 5
    OBVIOUS
  <2>3. Present(gdt[5]) /\ FreeTask(gdt[5])
    BY <1>1 DEF Present, FreeTask, Kind
  <2>. QED BY <2>1, <2>2, <2>3 DEF Loadable
<1>3. /\ segment' = [segment EXCEPT !.task = 40]
      /\ gdt' = [gdt EXCEPT ![5].access = @ + 2]
      /\ pc' = 11 /\ UNCHANGED <<gdtp, gdtr, tss>>
  BY <1>2 DEF Ltr
<1>4. /\ 5 \in Index
      /\ \A k \in Index \ {5} : gdt'[k] = gdt[k]
      /\ gdt'[5] = [gdt[5] EXCEPT !.access = 139]
      /\ gdt' = [k \in Index |-> gdt'[k]]
  <2>. DEFINE d5 == [gdt[5] EXCEPT !.access = 139]
  <2>1. 5 \in Index /\ gdt = [k \in Index |-> gdt[k]]
    BY <1>1 DEF Index
  <2>2. gdt[5].access + 2 = 139
    BY <1>1
  <2>3. gdt' = [gdt EXCEPT ![5] = d5]
    BY <1>3, <2>2
  <2>. HIDE DEF d5
  <2>4. /\ gdt' = [k \in Index |-> gdt'[k]] /\ gdt'[5] = d5
        /\ \A k \in Index \ {5} : gdt'[k] = gdt[k]
    BY <2>1, <2>3, Replaced
  <2>. QED BY <2>1, <2>4 DEF d5
<1>5. gdt'[5] \in Descriptor /\ Written(gdt'[5], 5) /\ gdt'[5].access = 139
  <2>1. gdt[5] \in Descriptor
    BY <1>1, <1>4
  <2>2. gdt'[5].access = 139
    BY <1>4, <2>1 DEF Descriptor
  <2>. QED BY <1>1, <1>4, <2>1, <2>2, MarkedWritten
<1>6. BootTypes'
  <2>1. \A k \in Index : gdt'[k] \in Descriptor
    BY <1>1, <1>4, <1>5
  <2>2. segment' \in [data : Nat, code : Nat, task : Nat]
    BY <1>3 DEF BootInv, BootTypes
  <2>3. gdt' = [k \in Index |-> gdt'[k]]
    BY <1>4
  <2>4. gdt' \in [Index -> Descriptor]
    BY <2>1, <2>3, IsTable
  <2>5. pc' \in 0 .. 11
    BY <1>3
  <2>. QED BY <2>2, <2>4, <2>5 DEF BootTypes
<1>7. Filled'
  <2>1. \A k \in Index : Written(gdt[k], k)
    BY <1>1 DEF BootInv, Filled, Index
  <2>. QED BY <1>4, <1>5, <2>1 DEF Filled
<1>8. AccessBytes' /\ Registers'
  BY <1>1, <1>3, <1>4, <1>5 DEF BootInv, BootTypes, AccessBytes, Registers, Index
<1>. QED BY <1>6, <1>7, <1>8 DEF BootInv

LEMMA BootStepSound == BootInv /\ [BootNext]_boot => BootInv'
<1>1. BootInv /\ UNCHANGED boot => BootInv'
  BY DEF boot, BootInv, BootTypes, Filled, AccessBytes, Registers
<1>. QED BY <1>1, SetEntrySound, QuietSound, ReloadSound, LtrSound DEF BootNext

\* What the invariant says of the descriptors that are in use at the end.
LEMMA InPlace == BootInv => SegmentsInPlace
<1>. SUFFICES ASSUME BootInv, pc = 11
              PROVE  SegmentsInPlace
  BY DEF SegmentsInPlace, Done
<1>1. /\ segment.code \div 8 = 1 /\ segment.data \div 8 = 2
      /\ segment.task \div 8 = 5
      /\ tss.ss0 = segment.data /\ tss.iomap_base = TssSize
  BY DEF BootInv, Registers
<1>2. /\ Written(gdt[1], 1) /\ Written(gdt[2], 2) /\ Written(gdt[5], 5)
      /\ gdt[1].access = 155 /\ gdt[2].access = 147
  BY DEF BootInv, Filled, AccessBytes, Index
<1>3. /\ Flat(Asked(1)) /\ Flat(Asked(2))
      /\ BaseOf(Asked(5)) = TssBase /\ LimitOf(Asked(5)) = TssSize - 1
      /\ ~ Paged(Asked(5))
  <2>1. Flat(Asked(1))
    BY PackedReads, AskedFor DEF Flat
  <2>2. Flat(Asked(2))
    BY PackedReads, AskedFor DEF Flat
  <2>3. /\ BaseOf(Asked(5)) = TssBase /\ LimitOf(Asked(5)) = TssSize - 1
        /\ ~ Paged(Asked(5))
    BY PackedReads, AskedFor, BootAssumption DEF TssSize
  <2>. QED BY <2>1, <2>2, <2>3
<1>4. /\ Flat(gdt[1]) /\ Flat(gdt[2])
      /\ BaseOf(gdt[5]) = TssBase /\ LimitOf(gdt[5]) = TssSize - 1
      /\ ~ Paged(gdt[5])
  BY <1>2, <1>3 DEF Written, Flat
<1>5. /\ CodeSegment(gdt[1]) /\ Privilege(gdt[1]) = 0
      /\ DataSegment(gdt[2]) /\ Privilege(gdt[2]) = 0
  BY <1>2 DEF CodeSegment, DataSegment, Kind, Privilege
<1>6. TssSize > TssSize - 1
  BY DEF TssSize
<1>. QED BY <1>1, <1>4, <1>5, <1>6 DEF SegmentsInPlace

(* Wherever tss lies in memory: init_gdt never loads a descriptor that the *)
(* processor refuses, and when it is done the segment registers and the    *)
(* task register describe what the kernel needs.                           *)
THEOREM BootSound == BootSpec => [](NoFault /\ SegmentsInPlace)
<1>1. BootInv => NoFault /\ SegmentsInPlace
  BY InPlace DEF BootInv, BootTypes, NoFault
<1>. QED BY <1>1, BootInitSound, BootStepSound, PTL DEF BootSpec

-----------------------------------------------------------------------------
(* The machine takes only the steps of its parts, whatever it draws.       *)

\* Every step of the machine is one of the shell's, or none.
LEMMA ShellSteps == [ConsoleNext]_console => [Next]_vars
<1>. SUFFICES ASSUME [ConsoleNext]_console
              PROVE  [Next]_vars
  OBVIOUS
<1>1. CASE Booting
  BY <1>1 DEF Booting, Power, InitGdt, Welcome, TtyMain
<1>2. ASSUME NEW c \in Printable, EchoCharacter(c)
      PROVE  Next
  BY <1>2 DEF EchoCharacter, Next
<1>3. CASE EchoBackspace
  BY <1>3 DEF EchoBackspace, Next
<1>4. CASE EchoEnter
  BY <1>4 DEF EchoEnter, Next
<1>5. ASSUME NEW k \in DOMAIN Command, RunCommand(k)
      PROVE  Next
  BY <1>5 DEF RunCommand, Next
<1>6. CASE NotFound
  BY <1>6 DEF NotFound, Next
<1>7. ASSUME NEW app \in AppScreen, Return(app)
      PROVE  Next
  BY <1>7 DEF Return, Next
<1>8. CASE UNCHANGED console
  BY <1>8 DEF console
<1>. QED BY <1>1, <1>2, <1>3, <1>4, <1>5, <1>6, <1>7, <1>8 DEF ConsoleNext

\* Every step of the machine is one of init_gdt's, or none: the shell and its
\* commands leave the table and the registers alone.
LEMMA BootSteps == [ConsoleNext]_console => [BootNext]_boot
<1>. SUFFICES ASSUME [ConsoleNext]_console
              PROVE  [BootNext]_boot
  OBVIOUS
<1>1. CASE Booting
  BY <1>1 DEF Booting, Power, InitGdt, Welcome, TtyMain
<1>2. ASSUME InShell
      PROVE  UNCHANGED boot
  BY <1>2 DEF InShell
<1>3. ASSUME NEW c \in Printable, EchoCharacter(c)
      PROVE  InShell
  BY <1>3 DEF EchoCharacter
<1>4. CASE EchoBackspace
  BY <1>2, <1>4 DEF EchoBackspace
<1>5. CASE EchoEnter
  BY <1>2, <1>5 DEF EchoEnter
<1>6. ASSUME NEW k \in DOMAIN Command, RunCommand(k)
      PROVE  InShell
  BY <1>6 DEF RunCommand
<1>7. CASE NotFound
  BY <1>2, <1>7 DEF NotFound
<1>8. ASSUME NEW app \in AppScreen, Return(app)
      PROVE  InShell
  BY <1>8 DEF Return
<1>9. CASE UNCHANGED console
  BY <1>9 DEF console
<1>. QED BY <1>1, <1>2, <1>3, <1>4, <1>5, <1>6, <1>7, <1>8, <1>9 DEF ConsoleNext

\* The line is read only after the boot: init_gdt is done, for good.
Booted == stage \in {"welcome", "tty", "shell"} => Done

LEMMA BootedFirst ==
  /\ ConsoleInit => Booted
  /\ BootInv /\ Booted /\ [ConsoleNext]_console => Booted'
<1>1. ConsoleInit => Booted
  BY DEF ConsoleInit, Booted
<1>2. ASSUME BootInv, Booted, [ConsoleNext]_console
      PROVE  Booted'
  <2>1. CASE InitGdt
    BY <2>1 DEF InitGdt, Booted
  <2>2. CASE Power \/ Welcome \/ TtyMain
    BY <1>2, <2>2 DEF Power, Welcome, TtyMain, Booted, Done, boot
  <2>3. CASE UNCHANGED <<stage, boot>>
    BY <1>2, <2>3 DEF Booted, Done, boot
  <2>4. Booting \/ UNCHANGED <<stage, boot>>
    BY <1>2 DEF ConsoleNext, console, InShell, EchoCharacter, EchoBackspace,
       EchoEnter, RunCommand, NotFound, Return
  <2>. QED BY <2>1, <2>2, <2>3, <2>4 DEF Booting
<1>. QED BY <1>1, <1>2

(* For any screen, prompt, commands and applications: the machine boots    *)
(* without a fault, reads its lines with the segments it needs in place,   *)
(* runs what was typed, and never reads or writes behind the line buffer.  *)
THEOREM ConsoleSound ==
  ConsoleSpec => [](/\ TypeOK /\ RunsWhatWasTyped /\ EchoEnds
                    /\ NoFault /\ SegmentsInPlace
                    /\ stage = "shell" => Done)
<1>1. ConsoleInit => IInv /\ BootInv /\ Booted
  BY InitSound, BootInitSound, BootedFirst DEF ConsoleInit
<1>2. IInv /\ BootInv /\ Booted /\ [ConsoleNext]_console
        => (IInv /\ BootInv /\ Booted)'
  BY ShellSteps, BootSteps, StepSound, BootStepSound, BootedFirst
<1>3. IInv /\ BootInv /\ Booted
        => /\ TypeOK /\ RunsWhatWasTyped /\ EchoEnds
           /\ NoFault /\ SegmentsInPlace
           /\ stage = "shell" => Done
  <2>1. IInv => TypeOK /\ RunsWhatWasTyped /\ EchoEnds
    BY LineInputAssumption, ShellAssumption DEF IInv, EchoEnds, LastIsNUL
  <2>2. BootInv => NoFault /\ SegmentsInPlace
    BY InPlace DEF BootInv, BootTypes, NoFault
  <2>. QED BY <2>1, <2>2 DEF Booted
<1>. QED BY <1>1, <1>2, <1>3, PTL DEF ConsoleSpec

-----------------------------------------------------------------------------
(* The screen: what is proved of the driver holds of the shell's terminal. *)

Term == INSTANCE VgaProofs
          WITH Char <- ConsoleChar, Space <- Blank, String <- {}, term <- screen,
               pending <- <<>>

LEMMA ScreenConstants ==
  /\ VGA_WIDTH \in Nat \ {0} /\ VGA_HEIGHT \in Nat \ {0}
  /\ Newline \in ConsoleChar /\ Blank \in ConsoleChar \ {Newline}
  /\ LightGrey \in Color /\ Green \in Color
  /\ {} \subseteq Seq(ConsoleChar)
<1>1. Blank \in Printable /\ Printable \subseteq ConsoleChar /\ Newline \in ConsoleChar
  BY LineInputAssumption, Zenon DEF ConsoleChar
<1>2. Newline \notin Printable
  BY ConsoleAssumption, Zenon
<1>3. Blank \in ConsoleChar \ {Newline}
  BY <1>1, <1>2
<1>. QED BY <1>1, <1>3, ConsoleAssumption

\* The same operators under the two names.
LEMMA SameSlots == Term!Slot = Screen!Slot /\ Term!Cell = Screen!Cell
BY DEF Term!Slot, Screen!Slot, Term!Cell, Screen!Cell

LEMMA SameTerminals ==
  /\ Term!Terminal = Screen!Terminal
  /\ \A t, p : Term!BlankFrom(t, p) <=> Screen!BlankFrom(t, p)
  /\ \A t : Term!Position(t) = Screen!Position(t)
  /\ \A c, color : Term!vga_entry(c, color) = Screen!vga_entry(c, color)
<1>1. Term!Terminal = Screen!Terminal
  BY SameSlots DEF Term!Terminal, Screen!Terminal
<1>2. \A t, p : Term!BlankFrom(t, p) <=> Screen!BlankFrom(t, p)
  BY SameSlots, Zenon DEF Term!BlankFrom, Screen!BlankFrom
<1>. QED BY <1>1, <1>2
     DEF Term!Position, Screen!Position, Term!vga_entry, Screen!vga_entry

LEMMA SamePutchar ==
  ASSUME NEW t, NEW c
  PROVE  Term!terminal_putchar(t, c) = Screen!terminal_putchar(t, c)
<1>1. \A m : Term!scroll(m) = Screen!scroll(m)
  BY SameSlots, SameTerminals, Zenon DEF Term!scroll, Screen!scroll
<1>2. \A m : Term!KeepOnScreen(m) = Screen!KeepOnScreen(m)
  BY <1>1, Zenon DEF Term!KeepOnScreen, Screen!KeepOnScreen, Term!At, Screen!At
<1>3. Term!Store(t, c) = Screen!Store(t, c)
  BY SameTerminals, Zenon
  DEF Term!Store, Screen!Store, Term!NextRow, Screen!NextRow, Term!At, Screen!At
<1>4. Term!NextRow(t, t.cells) = Screen!NextRow(t, t.cells)
  BY Zenon DEF Term!NextRow, Screen!NextRow, Term!At, Screen!At
<1>5. \A m : Term!update_cursor(m) = Screen!update_cursor(m)
  BY SameTerminals, Zenon DEF Term!update_cursor, Screen!update_cursor
<1>. QED BY <1>2, <1>3, <1>4, <1>5, Zenon
     DEF Term!terminal_putchar, Screen!terminal_putchar

\* t is a terminal's, its cursor stands where the next character goes, and
\* nothing is behind it.
Good(t) ==
  /\ t \in Screen!Terminal
  /\ t.cursor = Screen!Position(t)
  /\ Screen!BlankFrom(t, t.cursor)

LEMMA PutGood ==
  ASSUME NEW t, Good(t), NEW c \in ConsoleChar
  PROVE  Good(Screen!terminal_putchar(t, c))
<1>. DEFINE u == Screen!terminal_putchar(t, c)
<1>1. t \in Term!Terminal /\ Term!BlankFrom(t, Term!Position(t))
  BY SameTerminals DEF Good
<1>2. u = Term!terminal_putchar(t, c)
  BY SamePutchar
<1>. HIDE DEF u
<1>3. u \in Term!Terminal /\ u.cursor = Term!Position(u) /\ Term!BlankFrom(u, u.cursor)
  BY <1>1, <1>2, ScreenConstants, Term!PutcharSound
<1>. QED BY <1>3, SameTerminals DEF Good, u

LEMMA FreshGood == Good(Screen!terminal_initialize) /\ Screen!terminal_initialize.col = 0
<1>. USE ScreenConstants
<1>. DEFINE u == Screen!terminal_initialize
            blank == [s \in Screen!Slot |-> Screen!vga_entry(Blank, LightGrey)]
<1>1. u = [row |-> 0, col |-> 0, color |-> LightGrey, cells |-> blank, cursor |-> 0]
  BY DEF Screen!terminal_initialize
<1>2. Screen!vga_entry(Blank, LightGrey) \in Screen!Cell
  BY DEF Screen!vga_entry, Screen!Cell
<1>3. blank \in [Screen!Slot -> Screen!Cell] /\ \A s \in Screen!Slot : blank[s].ch = Blank
  BY <1>2 DEF Screen!vga_entry
<1>4. 0 \in 0 .. VGA_HEIGHT - 1 /\ 0 \in 0 .. VGA_WIDTH - 1 /\ 0 * VGA_WIDTH + 0 = 0
  OBVIOUS
<1>5. 0 \in Screen!Slot
  <2>1. 0 * VGA_WIDTH + 0 \in Term!Slot
    BY <1>4, Term!OnScreen
  <2>. QED BY <1>4, <2>1, SameSlots
<1>. HIDE DEF u, blank
<1>6. u \in Screen!Terminal /\ u.cursor = 0 /\ u.cells = blank /\ Screen!Position(u) = 0
  BY <1>1, <1>3, <1>4, <1>5 DEF Screen!Terminal, Screen!Position
<1>. QED BY <1>1, <1>3, <1>6 DEF Good, Screen!BlankFrom, u

LEMMA ColorGood ==
  ASSUME NEW t, Good(t), NEW color \in Color
  PROVE  LET u == Screen!terminal_setcolor(t, color)
         IN  /\ Good(u) /\ u.color = color /\ u.col = t.col /\ u.cells = t.cells
             /\ Screen!Position(u) = Screen!Position(t)
<1>. DEFINE u == Screen!terminal_setcolor(t, color)
<1>1. /\ u \in Screen!Terminal /\ u.color = color /\ u.row = t.row /\ u.col = t.col
      /\ u.cells = t.cells /\ u.cursor = t.cursor
  BY DEF Good, Screen!terminal_setcolor, Screen!Terminal
<1>. HIDE DEF u
<1>2. Screen!Position(u) = Screen!Position(t)
  BY <1>1 DEF Screen!Position
<1>3. Good(u)
  BY <1>1, <1>2 DEF Good, Screen!BlankFrom
<1>. QED BY <1>1, <1>2, <1>3 DEF u

\* A newline leads to the left margin.
LEMMA NewlineMargin ==
  ASSUME NEW t, Good(t)
  PROVE  Screen!terminal_putchar(t, Newline).col = 0
<1>. DEFINE u == Screen!terminal_putchar(t, Newline)
<1>1. t \in Term!Terminal /\ Term!BlankFrom(t, Term!Position(t))
  BY SameTerminals DEF Good
<1>2. u = Term!terminal_putchar(t, Newline)
  BY SamePutchar
<1>. HIDE DEF u
<1>3. u.col = 0
  BY <1>1, <1>2, ScreenConstants, Term!NewlineFeeds
<1>. QED BY <1>3 DEF u

-----------------------------------------------------------------------------
(* What stands before the cursor.                                          *)

\* The cells v stand before the cursor, the first of them at the left margin;
\* those that do not fit on the screen have left it.
Shows(t, v) ==
  \E q \in Int :
    /\ Screen!Position(t) - Len(v) = q * VGA_WIDTH
    /\ \A k \in 1 .. Len(v) :
         Screen!Position(t) - Len(v) + k > 0
           => t.cells[Screen!Position(t) - Len(v) + k - 1] = v[k]

LEMMA MarginShows ==
  ASSUME NEW t, Good(t), t.col = 0
  PROVE  Shows(t, <<>>)
<1>1. t.row \in Int /\ Screen!Position(t) = t.row * VGA_WIDTH + 0
  BY DEF Good, Screen!Terminal, Screen!Position
<1>2. t.row * VGA_WIDTH \in Int
  BY <1>1, ScreenConstants
<1>3. Screen!Position(t) - 0 = t.row * VGA_WIDTH
  BY <1>1, <1>2
<1>4. Len(<<>>) = 0 /\ \A k : k \notin 1 .. 0
  OBVIOUS
<1>. QED BY <1>1, <1>3, <1>4 DEF Shows

LEMMA PositionIn ==
  ASSUME NEW t, Good(t)
  PROVE  Screen!Position(t) \in Screen!Slot
BY DEF Good, Screen!Terminal

\* A character more.
LEMMA PutShows ==
  ASSUME NEW t, Good(t), NEW c \in ConsoleChar \ {Newline}, NEW S, NEW v \in Seq(S),
         Shows(t, v)
  PROVE  LET u == Screen!terminal_putchar(t, c)
         IN  u.color = t.color /\ Shows(u, Append(v, Screen!vga_entry(c, t.color)))
<1>. DEFINE W == VGA_WIDTH
            u == Screen!terminal_putchar(t, c)
            at == Screen!Position(t)
            to == Screen!Position(u)
            n == Len(v)
            e == Screen!vga_entry(c, t.color)
            w == Append(v, e)
<1>1. W \in Nat \ {0} /\ n \in Nat /\ at \in Screen!Slot /\ to \in Screen!Slot
  BY ScreenConstants, PositionIn, PutGood
<1>2. Term!Advanced(t, u, c)
  BY SameTerminals, SamePutchar, ScreenConstants, Term!PutcharAdvances DEF Good
<1>3. u.color = t.color
  BY <1>2 DEF Term!Advanced
<1>4. PICK d \in {0, W} :
        /\ to = at + 1 - d
        /\ \A s \in Screen!Slot : s < to =>
             /\ s + d \in Screen!Slot
             /\ u.cells[s] = IF s + d = at THEN e ELSE t.cells[s + d]
  BY <1>2, SameTerminals, SameSlots DEF Term!Advanced
<1>5. PICK q \in Int :
        /\ at - n = q * W
        /\ \A k \in 1 .. n : at - n + k > 0 => t.cells[at - n + k - 1] = v[k]
  BY DEF Shows
<1>6. Len(w) = n + 1 /\ w[n + 1] = e /\ \A k \in 1 .. n : w[k] = v[k]
  <2>. HIDE DEF e
  <2>. QED BY AppendProperties
<1>7. at \in Nat /\ to \in Nat /\ d \in Nat
  BY <1>1 DEF Screen!Slot
<1>8. \A i \in 0 .. to : i \in Screen!Slot
  <2>. DEFINE size == W * VGA_HEIGHT
              slot == to
  <2>1. Screen!Slot = 0 .. size - 1 /\ size \in Int /\ slot \in 0 .. size - 1
    BY <1>1, ScreenConstants DEF Screen!Slot
  <2>. HIDE DEF size, slot
  <2>2. \A i \in 0 .. slot : i \in Screen!Slot
    BY <2>1
  <2>. QED BY <2>2 DEF slot
<1>9. \E p \in Int : at - n - d = p * W
  <2>1. CASE d = 0
    <3>1. at - n - d = at - n
      <4>. HIDE DEF at, n
      <4>. QED BY <1>1, <1>7, <2>1
    <3>2. at - n - d = q * W
      BY <1>5, <3>1
    <3>. QED BY <3>2
  <2>2. CASE d = W
    <3>1. q - 1 \in Int /\ (q - 1) * W = q * W - W
      BY <1>1
    <3>. QED BY <1>5, <2>2, <3>1
  <2>. QED BY <2>1, <2>2
<1>. HIDE DEF W, u, at, to, n, e, w
<1>10. to - Len(w) = at - n - d
  BY <1>1, <1>4, <1>6, <1>7
<1>11. ASSUME NEW k \in 1 .. Len(w), to - Len(w) + k > 0
       PROVE  u.cells[to - Len(w) + k - 1] = w[k]
  <2>. DEFINE s == to - Len(w) + k - 1
  <2>1. k \in 1 .. n + 1 /\ s = to - (n + 1) + k - 1 /\ s \in 0 .. to /\ s < to
        /\ s + d = at - n + k - 1
    BY <1>1, <1>4, <1>6, <1>7, <1>11
  <2>. HIDE DEF s
  <2>2. u.cells[s] = IF s + d = at THEN e ELSE t.cells[s + d]
    BY <1>4, <1>8, <2>1
  <2>3. CASE k = n + 1
    BY <1>1, <1>6, <1>7, <2>1, <2>2, <2>3 DEF s
  <2>4. CASE k \in 1 .. n
    <3>1. s + d # at /\ at - n + k > 0
      BY <1>1, <1>7, <2>1, <2>4
    <3>. QED BY <1>5, <1>6, <2>1, <2>2, <2>4, <3>1 DEF s
  <2>. QED BY <1>1, <2>1, <2>3, <2>4
<1>12. Shows(u, w)
  BY <1>9, <1>10, <1>11 DEF Shows, to, W
<1>. QED BY <1>3, <1>12 DEF u, w, e

-----------------------------------------------------------------------------
(* A string, character after character.                                    *)

\* What the k-th value of the loop in terminal_write has to be, in the words
\* of Printed, and that g has these values up to n.
PrintValue(t, s, g, k) ==
  IF k = 0 THEN t
  ELSE CHOOSE u \in {Screen!terminal_putchar(v, s[k]) : v \in {g[k - 1]}} : TRUE

IsPrinted(t, s, g, n) == g = [k \in 0 .. n |-> PrintValue(t, s, g, k)]

LEMMA PrintExtends ==
  ASSUME NEW t, NEW s, NEW n \in Nat \ {0}, NEW g, IsPrinted(t, s, g, n - 1)
  PROVE  \E h : IsPrinted(t, s, h, n)
<1>. DEFINE h == [k \in 0 .. n |-> IF k = n THEN PrintValue(t, s, g, n) ELSE g[k]]
<1>1. \A k \in 0 .. n - 1 : h[k] = g[k] /\ g[k] = PrintValue(t, s, g, k)
  <2>1. \A k \in 0 .. n - 1 : g[k] = PrintValue(t, s, g, k)
    BY Zenon DEF IsPrinted
  <2>2. \A k \in 0 .. n - 1 : k \in 0 .. n /\ k # n
    OBVIOUS
  <2>. QED BY <2>1, <2>2, Zenon
<1>2. h[n] = PrintValue(t, s, g, n) /\ h = [k \in 0 .. n |-> h[k]]
  OBVIOUS
<1>. HIDE DEF h
<1>3. ASSUME NEW k \in 0 .. n
      PROVE  PrintValue(t, s, h, k) = PrintValue(t, s, g, k)
  <2>1. k # 0 => h[k - 1] = g[k - 1]
    <3>1. k # 0 => k - 1 \in 0 .. n - 1
      OBVIOUS
    <3>. QED BY <1>1, <3>1
  <2>. QED BY <2>1, Zenon DEF PrintValue
<1>4. \A k \in 0 .. n : h[k] = PrintValue(t, s, h, k)
  <2>1. \A k \in 0 .. n : k \in 0 .. n - 1 \/ k = n
    OBVIOUS
  <2>. QED BY <1>1, <1>2, <1>3, <2>1, Zenon
<1>. QED BY <1>2, <1>4 DEF IsPrinted

\* The terminals t = g[0], g[1], ... that printing s goes through.
Prints(t, s, g) ==
  /\ g[0] = t
  /\ \A k \in 1 .. Len(s) : g[k] = Screen!terminal_putchar(g[k - 1], s[k])

LEMMA PrintedIs ==
  ASSUME NEW t, NEW S, NEW s \in Seq(S)
  PROVE  \E g : Prints(t, s, g) /\ Printed(t, s) = g[Len(s)]
<1>1. \A n \in Nat : \E g : IsPrinted(t, s, g, n)
  <2>. DEFINE U == {n \in Nat : ~ \E g : IsPrinted(t, s, g, n)}
  <2>. SUFFICES ASSUME U # {} PROVE FALSE
    OBVIOUS
  <2>1. PICK n \in U : \A m \in U : n <= m
    <3>1. U \subseteq Nat
      OBVIOUS
    <3>. HIDE DEF U
    <3>. QED BY <3>1, Least
  <2>2. n \in Nat /\ ~ \E g : IsPrinted(t, s, g, n)
    OBVIOUS
  <2>3. n # 0
    <3>. DEFINE g == [k \in 0 .. 0 |-> t]
    <3>1. \A k \in 0 .. 0 : PrintValue(t, s, g, k) = t
      BY DEF PrintValue
    <3>2. IsPrinted(t, s, g, 0)
      BY <3>1 DEF IsPrinted
    <3>. QED BY <2>2, <3>2
  <2>4. n - 1 \in Nat /\ ~ n - 1 \in U
    BY <2>1, <2>2, <2>3
  <2>5. \E g : IsPrinted(t, s, g, n - 1)
    BY <2>4
  <2>. QED BY <2>2, <2>3, <2>5, PrintExtends
<1>. DEFINE g == CHOOSE h : IsPrinted(t, s, h, Len(s))
<1>2. Len(s) \in Nat
  OBVIOUS
<1>3. IsPrinted(t, s, g, Len(s))
  BY <1>1, <1>2
<1>4. Printed(t, s) = g[Len(s)]
  BY Zenon DEF Printed, IsPrinted, PrintValue
<1>. HIDE DEF g
<1>5. \A k \in 0 .. Len(s) : g[k] = PrintValue(t, s, g, k)
  BY <1>3, Zenon DEF IsPrinted
<1>6. g[0] = t
  BY <1>2, <1>5 DEF PrintValue
<1>7. ASSUME NEW k \in 1 .. Len(s)
      PROVE  g[k] = Screen!terminal_putchar(g[k - 1], s[k])
  <2>. DEFINE u == Screen!terminal_putchar(g[k - 1], s[k])
              V == {Screen!terminal_putchar(v, s[k]) : v \in {g[k - 1]}}
  <2>1. k \in 0 .. Len(s) /\ k # 0
    BY <1>2
  <2>2. g[k] = CHOOSE x \in V : TRUE
    BY <1>5, <2>1, Zenon DEF PrintValue
  <2>3. V = {u}
    <3>. HIDE DEF Screen!terminal_putchar
    <3>. QED OBVIOUS
  <2>4. (CHOOSE x \in V : TRUE) \in V
    <3>1. \E x \in V : TRUE
      BY <2>3
    <3>. HIDE DEF V
    <3>. QED BY <3>1
  <2>. HIDE DEF V, u
  <2>5. g[k] = u
    BY <2>2, <2>3, <2>4
  <2>. QED BY <2>5 DEF u
<1>. QED BY <1>4, <1>6, <1>7 DEF Prints

\* A number of which P holds at 0 and with each its successor, up to m.
LEMMA UpTo ==
  ASSUME NEW S, NEW m \in Nat, 0 \in S,
         \A k \in 1 .. m : k - 1 \in S => k \in S
  PROVE  \A k \in 0 .. m : k \in S
<1>. DEFINE U == {k \in 0 .. m : k \notin S}
<1>. SUFFICES ASSUME U # {} PROVE FALSE
  OBVIOUS
<1>1. PICK n \in U : \A k \in U : n <= k
  <2>1. U \subseteq Nat
    OBVIOUS
  <2>. HIDE DEF U
  <2>. QED BY <2>1, Least
<1>2. n \in 0 .. m /\ n \notin S /\ n # 0
  OBVIOUS
<1>3. n - 1 \in 0 .. m /\ n \in 1 .. m /\ ~ n - 1 \in U
  BY <1>1, <1>2
<1>. QED BY <1>2, <1>3

LEMMA PrintsGood ==
  ASSUME NEW t, Good(t), NEW s \in Seq(ConsoleChar), NEW g, Prints(t, s, g)
  PROVE  \A k \in 0 .. Len(s) : Good(g[k])
<1>. DEFINE U == {k \in Nat : Good(g[k])}
<1>1. Len(s) \in Nat /\ g[0] = t /\ 0 \in U
  BY DEF Prints
<1>2. ASSUME NEW k \in 1 .. Len(s), k - 1 \in U
      PROVE  k \in U
  <2>1. Good(g[k - 1]) /\ s[k] \in ConsoleChar /\ k \in Nat
    BY <1>2
  <2>2. g[k] = Screen!terminal_putchar(g[k - 1], s[k])
    BY DEF Prints
  <2>3. Good(g[k])
    BY <2>1, <2>2, PutGood
  <2>. QED BY <2>1, <2>3
<1>3. \A k \in 0 .. Len(s) : k \in U
  <2>. HIDE DEF U
  <2>. QED BY <1>1, <1>2, UpTo
<1>. QED BY <1>3

LEMMA PrintedGood ==
  ASSUME NEW t, Good(t), NEW s \in Seq(ConsoleChar)
  PROVE  Good(Printed(t, s))
<1>1. PICK g : Prints(t, s, g) /\ Printed(t, s) = g[Len(s)]
  BY PrintedIs
<1>2. Len(s) \in 0 .. Len(s)
  OBVIOUS
<1>. QED BY <1>1, <1>2, PrintsGood

LEMMA PrintlnGood ==
  ASSUME NEW t, Good(t), NEW s \in Seq(ConsoleChar)
  PROVE  Good(println(t, s)) /\ println(t, s).col = 0
<1>. DEFINE line == Append(s, Newline)
            m == Len(line)
<1>1. line \in Seq(ConsoleChar) /\ m \in Nat \ {0} /\ line[m] = Newline
  BY ScreenConstants
<1>. HIDE DEF line
<1>2. PICK g : Prints(t, line, g) /\ Printed(t, line) = g[m]
  BY <1>1, PrintedIs
<1>3. m \in 1 .. m /\ m \in 0 .. m /\ m - 1 \in 0 .. m
  BY <1>1
<1>4. Good(g[m - 1]) /\ Good(g[m])
  BY <1>1, <1>2, <1>3, PrintsGood
<1>5. g[m] = Screen!terminal_putchar(g[m - 1], Newline)
  BY <1>1, <1>2, <1>3 DEF Prints
<1>6. g[m].col = 0
  BY <1>4, <1>5, NewlineMargin
<1>. QED BY <1>2, <1>4, <1>6 DEF println, line

\* The cells that the first k characters of a text make.
Cells(s, color, k) == [j \in 1 .. k |-> Screen!vga_entry(s[j], color)]

Entries(s, color) == {Screen!vga_entry(s[j], color) : j \in DOMAIN s}

LEMMA CellsMore ==
  ASSUME NEW S, NEW s \in Seq(S), NEW k \in 1 .. Len(s), NEW color
  PROVE  /\ Cells(s, color, k - 1) \in Seq(Entries(s, color))
         /\ Screen!vga_entry(s[k], color) \in Entries(s, color)
         /\ Cells(s, color, k)
              = Append(Cells(s, color, k - 1), Screen!vga_entry(s[k], color))
<1>. DEFINE E(j) == Screen!vga_entry(s[j], color)
            x == Cells(s, color, k - 1)
            y == Cells(s, color, k)
            e == E(k)
<1>1. \A j \in 1 .. k : E(j) \in Entries(s, color)
  <2>1. \A j \in 1 .. k : j \in DOMAIN s
    OBVIOUS
  <2>. QED BY <2>1, Zenon DEF Entries
<1>2. x = [j \in 1 .. k - 1 |-> E(j)] /\ y = [j \in 1 .. k |-> E(j)]
  BY DEF Cells
<1>3. k - 1 \in Nat /\ k \in 1 .. k /\ \A j \in 1 .. k - 1 : j \in 1 .. k
  OBVIOUS
<1>. HIDE DEF E, x, y
<1>4. x \in Seq(Entries(s, color)) /\ Len(x) = k - 1
  BY <1>1, <1>2, <1>3
<1>5. e \in Entries(s, color)
  BY <1>1, <1>3
<1>6. y \in Seq(Entries(s, color)) /\ Len(y) = k
  BY <1>1, <1>2, <1>3
<1>7. y = Append(x, e)
  <2>. HIDE DEF e
  <2>1. Append(x, e) \in Seq(Entries(s, color)) /\ Len(Append(x, e)) = k
    BY <1>4, <1>5, AppendProperties
  <2>2. ASSUME NEW j \in 1 .. k PROVE y[j] = Append(x, e)[j]
    <3>1. CASE j = k
      BY <1>2, <1>4, <1>5, <3>1, AppendProperties DEF e
    <3>2. CASE j # k
      <4>1. j \in 1 .. k - 1 /\ j \in 1 .. Len(x)
        BY <1>4, <3>2
      <4>2. Append(x, e)[j] = x[j]
        BY <1>4, <1>5, <4>1, AppendProperties
      <4>. QED BY <1>2, <4>1, <4>2
    <3>. QED BY <3>1, <3>2
  <2>. QED BY <1>6, <2>1, <2>2, SeqEqual
<1>. QED BY <1>4, <1>5, <1>7 DEF E, x, y

\* What a printed text adds to what stands before the cursor.
LEMMA PrintsShow ==
  ASSUME NEW t, Good(t), NEW s \in Seq(ConsoleChar \ {Newline}), NEW g, Prints(t, s, g),
         NEW S, NEW v \in Seq(S), Shows(t, v), NEW k \in 0 .. Len(s)
  PROVE  g[k].color = t.color /\ Shows(g[k], v \o Cells(s, t.color, k))
<1>. DEFINE color == t.color
            P(n) == g[n].color = color /\ Shows(g[n], v \o Cells(s, color, n))
            U == {n \in Nat : P(n)}
<1>1. s \in Seq(ConsoleChar) /\ Len(s) \in Nat
  <2>1. \A j \in 1 .. Len(s) : s[j] \in ConsoleChar
    OBVIOUS
  <2>. QED BY <2>1
<1>2. P(0)
  <2>1. v \o Cells(s, color, 0) = v
    <3>1. Cells(s, color, 0) = <<>>
      BY DEF Cells
    <3>2. v \o <<>> = v
      OBVIOUS
    <3>. QED BY <3>1, <3>2
  <2>. QED BY <2>1 DEF Prints
<1>3. ASSUME NEW n \in 1 .. Len(s), P(n - 1)
      PROVE  P(n)
  <2>. DEFINE E == Entries(s, color)
              x == Cells(s, color, n - 1)
              e == Screen!vga_entry(s[n], color)
              w == v \o x
  <2>1. n - 1 \in 0 .. Len(s) /\ s[n] \in ConsoleChar \ {Newline}
    BY <1>1
  <2>2. Good(g[n - 1]) /\ g[n - 1].color = color /\ Shows(g[n - 1], w)
    BY <1>1, <1>3, <2>1, PrintsGood
  <2>3. g[n] = Screen!terminal_putchar(g[n - 1], s[n])
    BY DEF Prints
  <2>4. x \in Seq(E) /\ e \in E /\ Cells(s, color, n) = Append(x, e)
    <3>. HIDE DEF E, x, e
    <3>. QED BY CellsMore DEF E, x, e
  <2>. HIDE DEF E, x, e
  <2>5. w \in Seq(S \union E) /\ Append(w, e) = v \o Append(x, e)
    <3>1. v \in Seq(S \union E) /\ x \in Seq(S \union E) /\ e \in S \union E
      <4>1. \A j \in 1 .. Len(v) : v[j] \in S \union E
        OBVIOUS
      <4>2. \A j \in 1 .. Len(x) : x[j] \in S \union E
        BY <2>4
      <4>. QED BY <2>4, <4>1, <4>2
    <3>2. w \in Seq(S \union E) /\ <<e>> \in Seq(S \union E)
      BY <3>1, ConcatProperties
    <3>3. (v \o x) \o <<e>> = v \o (x \o <<e>>)
      BY <3>1, <3>2, ConcatAssociative
    <3>. QED BY <3>1, <3>2, <3>3, AppendIsConcat
  <2>. HIDE DEF w, color
  <2>6. /\ g[n].color = color
        /\ Shows(g[n], Append(w, Screen!vga_entry(s[n], color)))
    BY <2>1, <2>2, <2>3, <2>5, PutShows
  <2>. QED BY <2>4, <2>5, <2>6 DEF e
<1>. HIDE DEF P
<1>4. \A n \in 0 .. Len(s) : n \in U
  <2>1. 0 \in U
    BY <1>2
  <2>2. ASSUME NEW n \in 1 .. Len(s), n - 1 \in U PROVE n \in U
    BY <1>1, <1>3, <2>2
  <2>. HIDE DEF U
  <2>. QED BY <1>1, <2>1, <2>2, UpTo
<1>. QED BY <1>4 DEF P

LEMMA PrintedShows ==
  ASSUME NEW t, Good(t), NEW s \in Seq(ConsoleChar \ {Newline}),
         NEW S, NEW v \in Seq(S), Shows(t, v)
  PROVE  /\ Printed(t, s).color = t.color
         /\ Shows(Printed(t, s), v \o Cells(s, t.color, Len(s)))
<1>1. PICK g : Prints(t, s, g) /\ Printed(t, s) = g[Len(s)]
  BY PrintedIs
<1>2. Len(s) \in 0 .. Len(s)
  OBVIOUS
<1>. QED BY <1>1, <1>2, PrintsShow

\* A green text, and grey from then on.
LEMMA OkGood ==
  ASSUME NEW t, Good(t), NEW s \in Seq(ConsoleChar)
  PROVE  Good(pr_ok(t, s)) /\ pr_ok(t, s).color = LightGrey
<1>1. Good(Screen!terminal_setcolor(t, Green))
  BY ColorGood, ScreenConstants
<1>2. Good(Printed(Screen!terminal_setcolor(t, Green), s))
  BY <1>1, PrintedGood
<1>. QED BY <1>2, ColorGood, ScreenConstants DEF pr_ok

\* All the cells of a text.
LEMMA CellsAre ==
  ASSUME NEW S, NEW s \in Seq(S), NEW color
  PROVE  /\ Cells(s, color, Len(s)) \in Seq(Entries(s, color))
         /\ Len(Cells(s, color, Len(s))) = Len(s)
<1>. DEFINE E(j) == Screen!vga_entry(s[j], color)
            x == Cells(s, color, Len(s))
            m == Len(s)
<1>1. \A j \in 1 .. m : E(j) \in Entries(s, color)
  <2>1. \A j \in 1 .. m : j \in DOMAIN s
    OBVIOUS
  <2>. QED BY <2>1, Zenon DEF Entries
<1>2. x = [j \in 1 .. m |-> E(j)] /\ m \in Nat
  BY DEF Cells
<1>. HIDE DEF E, x, m
<1>3. x \in Seq(Entries(s, color)) /\ Len(x) = m
  BY <1>1, <1>2
<1>. QED BY <1>3 DEF x, m

PromptCells == Cells(PROMPT, Green, Len(PROMPT))

\* The prompt, at the left margin.
LEMMA PromptShows ==
  ASSUME NEW t, Good(t), t.col = 0
  PROVE  /\ Good(Prompted(t)) /\ Prompted(t).color = LightGrey
         /\ Shows(Prompted(t), PromptCells)
<1>. DEFINE a == Screen!terminal_setcolor(t, Green)
            b == Printed(a, PROMPT)
            c == Screen!terminal_setcolor(b, LightGrey)
<1>1. PROMPT \in Seq(ConsoleChar \ {Newline}) /\ PROMPT \in Seq(ConsoleChar)
  BY ConsoleAssumption
<1>2. Good(a) /\ a.color = Green /\ a.col = 0
  BY ColorGood, ScreenConstants
<1>. HIDE DEF a
<1>3. Shows(a, <<>>) /\ <<>> \in Seq({})
  BY <1>2, MarginShows
<1>4. Good(b) /\ Shows(b, <<>> \o PromptCells)
  <2>1. Shows(b, <<>> \o Cells(PROMPT, a.color, Len(PROMPT)))
    BY <1>1, <1>2, <1>3, PrintedShows
  <2>2. Good(b)
    BY <1>1, <1>2, PrintedGood
  <2>. QED BY <1>2, <2>1, <2>2 DEF PromptCells
<1>5. <<>> \o PromptCells = PromptCells
  <2>1. PICK T : PromptCells \in Seq(T)
    BY <1>1, CellsAre DEF PromptCells
  <2>. HIDE DEF PromptCells
  <2>. QED BY <2>1, ConcatEmptySeq
<1>. HIDE DEF b
<1>6. /\ Good(c) /\ c.color = LightGrey /\ c.cells = b.cells
      /\ Screen!Position(c) = Screen!Position(b)
  BY <1>4, ColorGood, ScreenConstants
<1>7. Shows(c, PromptCells)
  <2>1. Shows(b, PromptCells)
    BY <1>4, <1>5
  <2>. QED BY <1>6, <2>1, Zenon DEF Shows
<1>. QED BY <1>6, <1>7 DEF Prompted, pr_ok, a, b, c


-----------------------------------------------------------------------------
(* The machine.                                                            *)

\* The cells of the line a user sees: the prompt and what was typed.
LineOf(s) == PromptCells \o Cells(s, LightGrey, Len(s))

LineStands ==
  stage = "shell" /\ phase = "read" /\ ~erased
    => screen.color = LightGrey /\ Shows(screen, LineOf(typed))

ScreenInv ==
  /\ Good(screen)
  /\ stage # "shell" => phase = "read" /\ typed = <<>>
  /\ LineStands

LEMMA EmptyLine == LineOf(<<>>) = PromptCells
<1>1. Cells(<<>>, LightGrey, Len(<<>>)) = <<>>
  BY DEF Cells
<1>2. PICK T : PromptCells \in Seq(T)
  BY CellsAre, ConsoleAssumption DEF PromptCells
<1>. HIDE DEF PromptCells
<1>. QED BY <1>1, <1>2, ConcatEmptySeq DEF LineOf

\* A character more of the line.
LEMMA LineMore ==
  ASSUME NEW s \in Seq(Printable), NEW c \in Printable
  PROVE  /\ \E S : LineOf(s) \in Seq(S)
         /\ LineOf(Append(s, c)) = Append(LineOf(s), Screen!vga_entry(c, LightGrey))
<1>. DEFINE w == Append(s, c)
            m == Len(w)
            x == Cells(s, LightGrey, Len(s))
            y == Cells(w, LightGrey, m - 1)
            e == Screen!vga_entry(c, LightGrey)
            E == Entries(w, LightGrey)
<1>1. /\ w \in Seq(Printable) /\ m = Len(s) + 1 /\ m \in 1 .. Len(w) /\ w[m] = c
      /\ \A j \in 1 .. Len(s) : w[j] = s[j]
  OBVIOUS
<1>2. x = y
  <2>1. m - 1 = Len(s)
    BY <1>1
  <2>. HIDE DEF w, m
  <2>. QED BY <1>1, <2>1 DEF Cells
<1>. HIDE DEF w, m
<1>3. y \in Seq(E) /\ e \in E /\ Cells(w, LightGrey, m) = Append(y, e)
  BY <1>1, CellsMore
<1>4. PICK T : PromptCells \in Seq(T)
  BY CellsAre, ConsoleAssumption DEF PromptCells
<1>. HIDE DEF PromptCells, x, y, e, E
<1>5. PromptCells \in Seq(T \union E) /\ y \in Seq(T \union E) /\ e \in T \union E
  <2>1. \A j \in 1 .. Len(PromptCells) : PromptCells[j] \in T \union E
    BY <1>4
  <2>2. \A j \in 1 .. Len(y) : y[j] \in T \union E
    BY <1>3
  <2>. QED BY <1>3, <1>4, <2>1, <2>2
<1>6. PromptCells \o y \in Seq(T \union E) /\ <<e>> \in Seq(T \union E)
  BY <1>5, ConcatProperties
<1>7. (PromptCells \o y) \o <<e>> = PromptCells \o (y \o <<e>>)
  BY <1>5, <1>6, ConcatAssociative
<1>8. Append(PromptCells \o y, e) = PromptCells \o Append(y, e)
  BY <1>5, <1>6, <1>7, AppendIsConcat
<1>9. LineOf(s) = PromptCells \o y
  BY <1>2 DEF LineOf, x
<1>10. LineOf(w) = PromptCells \o Append(y, e)
  BY <1>1, <1>3 DEF LineOf, m
<1>. QED BY <1>6, <1>8, <1>9, <1>10 DEF w, e

\* Every text that is printed is one of this terminal.
LEMMA Texts ==
  /\ Words \in Seq(ConsoleChar)
  /\ \A s \in Seq(Printable) : s \in Seq(ConsoleChar)
  /\ \A s \in Seq(Printable) : Words \o s \in Seq(ConsoleChar)
  /\ <<Newline>> \in Seq(ConsoleChar)
  /\ <<BackspaceChar, Blank, BackspaceChar>> \in Seq(ConsoleChar)
<1>1. /\ Words \in Seq(ConsoleChar) /\ Newline \in ConsoleChar /\ Blank \in ConsoleChar
      /\ BackspaceChar \in ConsoleChar /\ \A c \in Printable : c \in ConsoleChar
  BY ScreenConstants, ConsoleAssumption DEF ConsoleChar
<1>2. ASSUME NEW s \in Seq(Printable) PROVE s \in Seq(ConsoleChar)
  <2>1. \A j \in 1 .. Len(s) : s[j] \in ConsoleChar
    BY <1>1
  <2>. QED BY <2>1
<1>3. ASSUME NEW s \in Seq(Printable) PROVE Words \o s \in Seq(ConsoleChar)
  BY <1>1, <1>2, ConcatProperties
<1>. QED BY <1>1, <1>2, <1>3

\* The prompt of a fresh line.
LEMMA Ready ==
  ASSUME NEW t, Good(t), t.col = 0
  PROVE  /\ Good(Prompted(t)) /\ Prompted(t).color = LightGrey
         /\ Shows(Prompted(t), LineOf(<<>>))
BY PromptShows, EmptyLine, Zenon

LEMMA ReadyNext ==
  ASSUME NEW t, Good(t), t.col = 0, screen' = Prompted(t), typed' = <<>>,
         phase' = "read"
  PROVE  ScreenInv'
<1>. DEFINE u == Prompted(t)
<1>1. Good(u) /\ u.color = LightGrey /\ Shows(u, LineOf(<<>>))
  BY Ready
<1>. HIDE DEF u
<1>2. screen' = u
  BY DEF u
<1>3. Good(screen')
  BY <1>1, <1>2
<1>4. screen'.color = LightGrey /\ Shows(screen', LineOf(typed'))
  BY <1>1, <1>2
<1>. QED BY <1>3, <1>4 DEF ScreenInv, LineStands

\* Outside of reading a line only the terminal matters.
LEMMA BusyNext ==
  ASSUME NEW t, Good(t), screen' = t, stage' = "shell", phase' # "read"
  PROVE  ScreenInv'
<1>1. Good(screen')
  OBVIOUS
<1>. QED BY <1>1 DEF ScreenInv, LineStands

LEMMA KlogGood ==
  ASSUME NEW t, Good(t)
  PROVE  Good(klog(t))
BY OkGood, PrintedGood, Texts DEF klog

LEMMA ScreenInit == ConsoleInit => ScreenInv
<1>. SUFFICES ASSUME ConsoleInit
              PROVE  ScreenInv
  OBVIOUS
<1>1. stage = "power" /\ phase = "read" /\ typed = <<>>
  BY DEF ConsoleInit, Init
<1>2. Good(screen)
  BY FreshGood DEF ConsoleInit
<1>. QED BY <1>1, <1>2 DEF ScreenInv, LineStands

LEMMA BootingScreen ==
  ASSUME ScreenInv, Booting
  PROVE  ScreenInv'
<1>. DEFINE Quiet(u) == Good(u) /\ stage' # "shell" /\ screen' = u
<1>1. /\ stage # "shell" /\ typed' = <<>> /\ phase' = "read"
      /\ Good(screen)
  BY DEF Booting, Power, InitGdt, Welcome, TtyMain, vars, ScreenInv
<1>2. ASSUME NEW u, Quiet(u)
      PROVE  ScreenInv'
  <2>1. Good(screen')
    BY <1>2
  <2>. QED BY <1>1, <1>2, <2>1 DEF ScreenInv, LineStands
<1>3. CASE Power
  <2>. DEFINE t == Printed(klog(Screen!terminal_initialize), <<Newline>>)
  <2>1. Good(t)
    BY FreshGood, KlogGood, PrintedGood, Texts
  <2>. HIDE DEF t
  <2>2. screen' = t /\ stage' = "gdt"
    BY <1>3 DEF Power, t
  <2>. QED BY <1>2, <2>1, <2>2
<1>4. CASE InitGdt
  <2>1. screen' = screen /\ stage' \in {"welcome", "gdt"}
    BY <1>4 DEF InitGdt
  <2>. QED BY <1>1, <1>2, <2>1
<1>5. CASE Welcome
  <2>. DEFINE a == Printed(klog(screen), <<Newline>>)
              t == println(a, Words)
  <2>1. Good(a)
    BY <1>1, KlogGood, PrintedGood, Texts
  <2>2. screen' = t /\ stage' = "tty"
    BY <1>5 DEF Welcome
  <2>. HIDE DEF a
  <2>3. Good(t)
    BY <2>1, PrintlnGood, Texts
  <2>. HIDE DEF t
  <2>. QED BY <1>2, <2>2, <2>3
<1>6. CASE TtyMain
  <2>. DEFINE a == println(Screen!terminal_initialize, Words)
              t == println(a, Words)
  <2>1. Good(a)
    BY FreshGood, PrintlnGood, Texts
  <2>2. screen' = Prompted(t)
    BY <1>6 DEF TtyMain
  <2>. HIDE DEF a
  <2>3. Good(t) /\ t.col = 0
    BY <2>1, PrintlnGood, Texts
  <2>. HIDE DEF t
  <2>. QED BY <1>1, <2>2, <2>3, ReadyNext
<1>. QED BY <1>3, <1>4, <1>5, <1>6 DEF Booting

\* The echo of a character: the buffer has room for it, and then it is typed
\* and printed, or it has none, and neither happens.
LEMMA EchoScreen ==
  ASSUME ScreenInv, IInv, NEW c \in Printable, EchoCharacter(c)
  PROVE  ScreenInv'
<1>1. /\ stage = "shell" /\ stage' = "shell" /\ phase = "read" /\ phase' = "read"
      /\ erased' = erased /\ Good(screen) /\ typed \in Seq(Printable)
      /\ input.i = Len(typed)
  BY DEF EchoCharacter, InShell, Character, ScreenInv, IInv, TypeOK, InBuffer
<1>2. c \in ConsoleChar /\ c \in ConsoleChar \ {Newline}
  BY ConsoleAssumption DEF ConsoleChar
<1>3. CASE Len(typed) < BUF_SZ - 1
  <2>. DEFINE u == Screen!terminal_putchar(screen, c)
  <2>1. typed' = Append(typed, c) /\ input'.i = input.i + 1
    BY <1>1, <1>3 DEF EchoCharacter, Character, Insert, At
  <2>2. screen' = Printed(screen, <<c>>)
    BY <1>1, <2>1 DEF EchoCharacter
  <2>3. Printed(screen, <<c>>) = u
    <3>1. <<c>> \in Seq({c}) /\ Len(<<c>>) = 1 /\ <<c>>[1] = c
      OBVIOUS
    <3>2. PICK g : Prints(screen, <<c>>, g) /\ Printed(screen, <<c>>) = g[Len(<<c>>)]
      BY <3>1, PrintedIs
    <3>3. g[1] = Screen!terminal_putchar(g[1 - 1], <<c>>[1]) /\ g[0] = screen
      BY <3>1, <3>2 DEF Prints
    <3>. QED BY <3>1, <3>2, <3>3
  <2>4. Good(u)
    BY <1>1, <1>2, PutGood
  <2>5. ~erased => u.color = LightGrey /\ Shows(u, LineOf(Append(typed, c)))
    <3>. SUFFICES ASSUME ~erased
                  PROVE  u.color = LightGrey /\ Shows(u, LineOf(Append(typed, c)))
      OBVIOUS
    <3>1. screen.color = LightGrey /\ Shows(screen, LineOf(typed))
      BY <1>1 DEF ScreenInv, LineStands
    <3>. DEFINE v == LineOf(typed)
    <3>2. PICK S : v \in Seq(S)
      BY <1>1, LineMore
    <3>3. LineOf(Append(typed, c)) = Append(v, Screen!vga_entry(c, LightGrey))
      BY <1>1, LineMore
    <3>. HIDE DEF v
    <3>4. Shows(screen, v)
      BY <3>1 DEF v
    <3>5. u.color = screen.color /\ Shows(u, Append(v, Screen!vga_entry(c, screen.color)))
      BY <1>1, <1>2, <3>2, <3>4, PutShows
    <3>. QED BY <3>1, <3>3, <3>5
  <2>. HIDE DEF u
  <2>6. screen' = u
    BY <2>2, <2>3
  <2>. QED BY <1>1, <2>1, <2>4, <2>5, <2>6 DEF ScreenInv, LineStands
<1>4. CASE ~ Len(typed) < BUF_SZ - 1
  <2>1. typed' = typed /\ input' = input
    BY <1>1, <1>4 DEF EchoCharacter, Character, Insert
  <2>2. screen' = screen
    BY <1>1, <2>1 DEF EchoCharacter
  <2>. QED BY <1>1, <2>1, <2>2 DEF ScreenInv, LineStands
<1>. QED BY <1>3, <1>4

LEMMA BackspaceScreen ==
  ASSUME ScreenInv, IInv, EchoBackspace
  PROVE  ScreenInv'
<1>1. /\ stage = "shell" /\ stage' = "shell" /\ phase = "read" /\ phase' = "read"
      /\ Good(screen) /\ typed \in Seq(Printable) /\ input.i = Len(typed)
  BY DEF EchoBackspace, InShell, Backspace, ScreenInv, IInv, TypeOK, InBuffer
<1>2. CASE input.i > 0
  <2>. DEFINE u == Printed(screen, <<BackspaceChar, Blank, BackspaceChar>>)
  <2>1. Good(u)
    BY <1>1, PrintedGood, Texts
  <2>2. screen' = u /\ erased' = TRUE
    BY <1>2 DEF EchoBackspace
  <2>. HIDE DEF u
  <2>. QED BY <1>1, <2>1, <2>2 DEF ScreenInv, LineStands
<1>3. CASE ~ input.i > 0
  <2>1. screen' = screen /\ erased' = erased
    BY <1>3 DEF EchoBackspace
  <2>2. typed' = typed
    <3>1. typed = <<>>
      BY <1>1, <1>3
    <3>. QED BY <3>1 DEF EchoBackspace, Backspace
  <2>. QED BY <1>1, <2>1, <2>2 DEF ScreenInv, LineStands
<1>. QED BY <1>2, <1>3

LEMMA EnterScreen ==
  ASSUME ScreenInv, EchoEnter
  PROVE  ScreenInv'
<1>. DEFINE t == Printed(screen, <<Newline>>)
<1>1. stage = "shell" /\ stage' = "shell" /\ phase = "read" /\ Good(screen)
  BY DEF EchoEnter, InShell, Enter, ScreenInv
<1>2. Good(t) /\ t.col = 0
  <2>1. <<>> \in Seq(ConsoleChar) /\ Append(<<>>, Newline) = <<Newline>>
    OBVIOUS
  <2>. QED BY <1>1, <2>1, PrintlnGood DEF println
<1>3. screen' = IF phase' = "read" THEN Prompted(t) ELSE t
  BY DEF EchoEnter
<1>. HIDE DEF t
<1>4. phase' = "read" => typed' = <<>>
  BY <1>1 DEF EchoEnter, Enter
<1>5. CASE phase' = "read"
  BY <1>2, <1>3, <1>4, <1>5, ReadyNext
<1>6. CASE phase' # "read"
  BY <1>1, <1>2, <1>3, <1>6, BusyNext
<1>. QED BY <1>5, <1>6

\* What a command draws, it ends with a newline, or it asks for no prompt.
LEMMA DrawnGood ==
  ASSUME ScreenInv, IInv, NEW fn \in Action
  PROVE  /\ Good(Drawn(fn))
         /\ fn # "app" => Drawn(fn).col = 0
<1>1. Good(screen) /\ EchoText \in Seq(Printable)
  BY EchoTextOf DEF ScreenInv, IInv, TypeOK
<1>2. CASE fn \in {"text", "halt"}
  <2>1. Drawn(fn) = println(screen, Words)
    BY <1>2 DEF Drawn
  <2>. QED BY <1>1, <2>1, PrintlnGood, Texts
<1>3. CASE fn = "echo"
  <2>1. Drawn(fn) = println(screen, EchoText)
    BY <1>3 DEF Drawn
  <2>. QED BY <1>1, <2>1, PrintlnGood, Texts
<1>4. CASE fn = "clear"
  <2>1. Drawn(fn) = Screen!terminal_initialize
    BY <1>4 DEF Drawn
  <2>. QED BY <2>1, FreshGood
<1>5. CASE fn = "app"
  <2>1. Drawn(fn) = screen
    BY <1>5 DEF Drawn
  <2>. QED BY <1>1, <1>5, <2>1
<1>. QED BY <1>2, <1>3, <1>4, <1>5 DEF Action

LEMMA RunScreen ==
  ASSUME ScreenInv, IInv, NEW k \in DOMAIN Command, RunCommand(k)
  PROVE  ScreenInv'
<1>. DEFINE fn == Command[k].fn
            t == Drawn(fn)
<1>1. stage = "shell" /\ stage' = "shell"
  BY DEF RunCommand, InShell
<1>2. fn \in Action
  <2>1. Command[k] \in [name : Seq(Printable), fn : Action]
    <3>. DEFINE R == [name : Seq(Printable), fn : Action]
    <3>1. Command \in Seq(R)
      BY ShellAssumption
    <3>. HIDE DEF R
    <3>2. Command[k] \in R
      BY <3>1
    <3>. QED BY <3>2 DEF R
  <2>. HIDE DEF Action
  <2>. QED BY <2>1
<1>3. Dispatch(k) /\ screen' = IF phase' = "read" THEN Prompted(t) ELSE t
  BY DEF RunCommand
<1>4. /\ fn = "app" => phase' = "app"
      /\ phase' = "read" => typed' = <<>>
  BY <1>3 DEF Dispatch, Prompt
<1>. HIDE DEF fn
<1>5. Good(t) /\ (fn # "app" => t.col = 0)
  BY <1>2, DrawnGood
<1>. HIDE DEF t
<1>6. CASE phase' = "read"
  BY <1>3, <1>4, <1>5, <1>6, ReadyNext
<1>7. CASE phase' # "read"
  BY <1>1, <1>3, <1>5, <1>7, BusyNext
<1>. QED BY <1>6, <1>7

LEMMA NotFoundScreen ==
  ASSUME ScreenInv, IInv, NotFound
  PROVE  ScreenInv'
<1>. DEFINE t == println(screen, Words \o Typed)
<1>1. Good(screen) /\ input \in Lines
  BY DEF ScreenInv, IInv, TypeOK
<1>2. Typed \in Seq(Printable)
  BY <1>1, StringOf, LineInputAssumption DEF Typed, Lines
<1>3. Good(t) /\ t.col = 0
  BY <1>1, <1>2, PrintlnGood, Texts
<1>4. screen' = Prompted(t) /\ phase' = "read" /\ typed' = <<>>
  BY DEF NotFound, Unknown, Prompt
<1>. HIDE DEF t
<1>. QED BY <1>3, <1>4, ReadyNext

LEMMA ReturnScreen ==
  ASSUME ScreenInv, NEW app \in AppScreen, Return(app)
  PROVE  ScreenInv'
<1>. DEFINE a == IF app.clears THEN Screen!terminal_initialize ELSE screen
            t == Farewell(a, app.text)
<1>1. app.text \in Seq(ConsoleChar)
  BY ConsoleAssumption
<1>2. Good(a)
  BY FreshGood DEF ScreenInv
<1>3. screen' = Prompted(t) /\ phase' = "read" /\ typed' = <<>>
  BY DEF Return, AppReturns, Prompt
<1>. HIDE DEF a
<1>4. Good(t) /\ t.col = 0
  BY <1>1, <1>2, PrintlnGood DEF Farewell
<1>. HIDE DEF t
<1>. QED BY <1>3, <1>4, ReadyNext

LEMMA ScreenStep == ScreenInv /\ IInv /\ [ConsoleNext]_console => ScreenInv'
<1>. SUFFICES ASSUME ScreenInv, IInv, [ConsoleNext]_console
              PROVE  ScreenInv'
  OBVIOUS
<1>1. CASE Booting
  BY <1>1, BootingScreen
<1>2. ASSUME NEW c \in Printable, EchoCharacter(c)
      PROVE  ScreenInv'
  BY <1>2, EchoScreen
<1>3. CASE EchoBackspace
  BY <1>3, BackspaceScreen
<1>4. CASE EchoEnter
  BY <1>4, EnterScreen
<1>5. ASSUME NEW k \in DOMAIN Command, RunCommand(k)
      PROVE  ScreenInv'
  BY <1>5, RunScreen
<1>6. CASE NotFound
  BY <1>6, NotFoundScreen
<1>7. ASSUME NEW app \in AppScreen, Return(app)
      PROVE  ScreenInv'
  BY <1>7, ReturnScreen
<1>8. CASE UNCHANGED console
  BY <1>8 DEF console, vars, ScreenInv, LineStands
<1>. QED BY <1>1, <1>2, <1>3, <1>4, <1>5, <1>6, <1>7, <1>8 DEF ConsoleNext

LEMMA MultipleRest ==
  ASSUME NEW W \in Nat \ {0}, NEW q \in Int
  PROVE  (q * W) % W = 0
<1>. DEFINE x == q * W
            d == x \div W
            r == x % W
<1>1. x \in Int
  OBVIOUS
<1>. HIDE DEF x
<1>2. d \in Int /\ r \in 0 .. W - 1 /\ x = W * d + r
  BY <1>1
<1>. HIDE DEF d, r
<1>3. (q - d) * W = r
  <2>1. (q - d) * W = q * W - W * d
    BY <1>2
  <2>. QED BY <1>1, <1>2, <2>1 DEF x
<1>. DEFINE p == q - d
<1>4. p \in Int /\ p * W = r
  BY <1>2, <1>3
<1>. HIDE DEF p
<1>5. CASE p = 0
  BY <1>4, <1>5 DEF r, x
<1>6. CASE p >= 1
  <2>1. p * W = (p - 1) * W + W /\ (p - 1) * W >= 0
    BY <1>4, <1>6
  <2>. QED BY <1>2, <1>4, <2>1
<1>7. CASE p <= -1
  <2>1. p * W = (p + 1) * W - W /\ (p + 1) * W <= 0
    BY <1>4, <1>7
  <2>. QED BY <1>2, <1>4, <2>1
<1>. QED BY <1>4, <1>5, <1>6, <1>7

LEMMA VisibleIs ==
  ASSUME typed \in Seq(Printable)
  PROVE  Visible = LineOf(typed)
<1>1. DOMAIN PROMPT = 1 .. Len(PROMPT) /\ DOMAIN typed = 1 .. Len(typed)
  BY ConsoleAssumption
<1>. QED BY <1>1 DEF Visible, LineOf, PromptCells, Cells

LEMMA LineSeen ==
  ASSUME ScreenInv, IInv
  PROVE  ShowsLine
<1>. SUFFICES ASSUME stage = "shell", phase = "read", ~erased
              PROVE  ShowsLine
  BY DEF ShowsLine
<1>. DEFINE v == Visible
            n == Len(v)
            at == Screen!Position(screen)
<1>1. screen.color = LightGrey /\ Shows(screen, v)
  BY VisibleIs DEF ScreenInv, LineStands, IInv, TypeOK
<1>. HIDE DEF v
<1>2. PICK q \in Int :
        /\ at - n = q * VGA_WIDTH
        /\ \A k \in 1 .. n : at - n + k > 0 => screen.cells[at - n + k - 1] = v[k]
  BY <1>1 DEF Shows
<1>3. (at - n) % VGA_WIDTH = 0
  BY <1>2, MultipleRest, ScreenConstants
<1>. HIDE DEF at, n
<1>. QED BY <1>1, <1>2, <1>3, Zenon DEF ShowsLine, v, n, at

(* For any width and height, prompt and buffer: while a line is read and   *)
(* nothing of it was deleted, the green prompt stands at the left margin,  *)
(* what was typed behind it in light grey, and the cursor behind that,     *)
(* also where the line wrapped and the screen scrolled.                    *)
THEOREM LineIsShown == ConsoleSpec => []ShowsLine
<1>1. ConsoleInit => ScreenInv /\ IInv
  BY ScreenInit, InitSound DEF ConsoleInit
<1>2. ScreenInv /\ IInv /\ [ConsoleNext]_console => (ScreenInv /\ IInv)'
  BY ScreenStep, ShellSteps, StepSound
<1>3. ScreenInv /\ IInv => ShowsLine
  BY LineSeen
<1>. QED BY <1>1, <1>2, <1>3, PTL DEF ConsoleSpec
=============================================================================

----------------------------- MODULE Calculator ------------------------------
(***************************************************************************)
(* The calculator of src/kernel/apps/calculator.c: its own line buffer, the *)
(* evaluation of a line from left to right, one operator at a time, and    *)
(* what it prints.  Divisions run in the integer library (Division), whose *)
(* one format here stands for the 32-bit functions.                        *)
(***************************************************************************)
EXTENDS LineInput

CONSTANTS
  DigitOf,      \* [the digits typed -> 0 .. 9]
  Minus, Plus, Times, Slash,
  ExitLine,     \* the lines "exit" and "quit"
  Top,          \* 2^31, the weight of an int32's sign bit
  Weight,       \* the powers of two up to Top
  Reading       \* the lines that are expressions, with what they say

Int32Format == "int32"

VARIABLES
  phase,      \* "read", "first", "next", "divide", "failed", "printed", "done"
  line,       \* static char line[BUF_SZ] and i
  typed,      \* what was typed of this line and not deleted
  s,          \* eval_expr's pointer into the line
  acc,
  out,        \* what was printed for this line
  dphase, call, num, quo, shift, result   \* the division

Div == INSTANCE Division
         WITH Format <- {Int32Format}, Top <- [f \in {Int32Format} |-> Top],
              Modulus <- [f \in {Int32Format} |-> 2 * Top], phase <- dphase

division == <<dphase, call, num, quo, shift, result>>
vars == <<phase, line, typed, s, acc, out, division>>

Digit == DOMAIN DigitOf
Operator == {Plus, Minus, Times, Slash}

-----------------------------------------------------------------------------
(* What an expression is, in the words of SPEC/CALC.MD: numbers with       *)
(* operators between them, and blanks everywhere but in a number.  A place *)
(* in a text is the number of characters before it.                        *)

Blanks(t, p, q) == \A k \in p + 1 .. q : t[k] = Blank

\* What the digits from place p to place q are worth.
Decimal(t, p, q) ==
  LET d[k \in p .. q] == IF k = p THEN 0 ELSE 10 * d[k - 1] + DigitOf[t[k]]
  IN  d[q]

\* Blanks, perhaps a minus, and digits, from place p to place q.
SpellsNumber(t, p, q, n) ==
  \E a, b \in p .. q :
    /\ Blanks(t, p, a)
    /\ b < q /\ \A k \in b + 1 .. q : t[k] \in Digit
    /\ \/ b = a /\ n = Decimal(t, b, q)
       \/ b = a + 1 /\ t[b] = Minus /\ n = -Decimal(t, b, q)

SpellsTerm(t, p, q, x) ==
  \E o \in p + 1 .. q :
    Blanks(t, p, o - 1) /\ t[o] = x.op /\ SpellsNumber(t, o, q, x.int)

\* end tells the place behind each number.
SpelledAt(e, end) ==
  LET n == Len(e.rest)
  IN  /\ SpellsNumber(e.text, 0, end[0], e.first)
      /\ \A k \in 1 .. n : SpellsTerm(e.text, end[k - 1], end[k], e.rest[k])
      /\ Blanks(e.text, end[n], Len(e.text))

Spelled(e) ==
  \E end \in [0 .. Len(e.rest) -> 0 .. Len(e.text)] : SpelledAt(e, end)

Expression ==
  [text : Seq(Printable), first : Int, rest : Seq([op : Operator, int : Int])]

ASSUME CalculatorAssumption ==
  /\ Digit \subseteq Printable \ {Blank} /\ DigitOf \in [Digit -> 0 .. 9]
  /\ Operator \subseteq Printable \ (Digit \union {Blank})
  /\ Plus \notin {Minus, Times, Slash} /\ Minus \notin {Times, Slash} /\ Times # Slash
  /\ ExitLine \subseteq Seq(Printable)
  /\ Top \in Weight /\ 1 \in Weight /\ Weight \subseteq Nat \ {0}
  /\ \A w \in Weight : w = 1 \/ (w \div 2 \in Weight /\ w = 2 * (w \div 2))
  /\ \A e \in Reading : e \in Expression /\ Spelled(e)

(* What is printed.                                                        *)
Number(n) == [int |-> n]
Message(m) == [text |-> m]

-----------------------------------------------------------------------------
(* Reading numbers.                                                        *)

Wrapped(n) == Div!Signed(Int32Format, n)

CharAt(k) == line.buf[k]

\* The first place from k on whose character is not in C.  A line ends in a
\* NUL, so there is one.
Skip(C, k) ==
  CHOOSE j \in k .. BUF_SZ - 1 :
    CharAt(j) \notin C /\ \A i \in k .. j - 1 : CharAt(i) \in C

\* The value of the digits from k to j - 1, as v = v * 10 + digit leaves it.
ValueOf(k, j) ==
  LET v[n \in k - 1 .. j - 1] ==
        IF n = k - 1 THEN 0 ELSE Wrapped(v[n - 1] * 10 + DigitOf[CharAt(n)])
  IN  v[j - 1]

\* Mutant: no blanks are skipped in front of a number.
StartAtOnce(p) == p

StartOfNumber(p) == Skip({Blank}, p)

read_int(p) ==
  LET b == StartOfNumber(p)
      k == IF CharAt(b) = Minus THEN b + 1 ELSE b
      j == Skip(Digit, k)
      v == ValueOf(k, j)
  IN  IF j = k THEN [ok |-> FALSE]
      ELSE [ok |-> TRUE, int |-> IF k = b THEN v ELSE Wrapped(-v), next |-> j]

-----------------------------------------------------------------------------
(* The line, typed as in the shell but into a buffer that is never cleared. *)

Character(c) ==
  /\ phase = "read"
  /\ line' = Insert(line, c)
  /\ typed' = IF Len(typed) < BUF_SZ - 1 THEN Append(typed, c) ELSE typed
  /\ UNCHANGED <<phase, s, acc, out, division>>

Backspace ==
  /\ phase = "read"
  /\ line' = Erase(line)
  /\ typed' = IF typed = <<>> THEN typed ELSE SubSeq(typed, 1, Len(typed) - 1)
  /\ UNCHANGED <<phase, s, acc, out, division>>

Enter ==
  /\ phase = "read"
  /\ line' = Terminate(line)
  /\ phase' = IF StringAt(line'.buf, 0) \in ExitLine THEN "done" ELSE "first"
  /\ UNCHANGED <<typed, s, acc, out, division>>

\* Another prompt, or calculator_run is called again: the array keeps what it
\* holds, the local variables are forgotten.
Prompt ==
  /\ phase \in {"printed", "done"}
  /\ phase' = "read"
  /\ line' = At(line.buf, 0)
  /\ typed' = <<>>
  /\ out' = <<>>
  /\ s' = 0
  /\ acc' = 0
  /\ call' = [format |-> Int32Format, fn |-> "umod", a |-> 0, b |-> 0]
  /\ dphase' = "idle" /\ num' = 0 /\ quo' = 0 /\ shift' = 1 /\ result' = 0

-----------------------------------------------------------------------------
(* eval_expr.                                                              *)

\* Mutant: the number that was read is not skipped.
BehindNothing(r) == s

Behind(r) == r.next

First ==
  LET r == read_int(s)
  IN  /\ phase = "first"
      /\ IF r.ok
         THEN acc' = r.int /\ s' = Behind(r) /\ phase' = "next"
         ELSE phase' = "failed" /\ UNCHANGED <<acc, s>>
      /\ UNCHANGED <<line, typed, out, division>>

\* Where the operator behind the last number stands, and what follows it.
OpAt == Skip({Blank}, s)
Op == CharAt(OpAt)
Rhs == read_int(OpAt + 1)

\* Mutant: the operands of a subtraction are exchanged.
ComputeReversed(op, a, b) ==
  CASE op = Plus  -> Wrapped(a + b)
    [] op = Minus -> Wrapped(b - a)
    [] op = Times -> Wrapped(a * b)

Compute(op, a, b) ==
  CASE op = Plus  -> Wrapped(a + b)
    [] op = Minus -> Wrapped(a - b)
    [] op = Times -> Wrapped(a * b)

AtOperator == phase = "next" /\ Op # NUL

Apply ==
  /\ AtOperator
  /\ Rhs.ok /\ Op \in Operator \ {Slash}
  /\ acc' = Compute(Op, acc, Rhs.int)
  /\ s' = Behind(Rhs)
  /\ UNCHANGED <<phase, line, typed, out, division>>

Divide ==
  /\ AtOperator
  /\ Rhs.ok /\ Op = Slash /\ Rhs.int # 0
  /\ phase' = "divide"
  /\ Div!Enter([format |-> Int32Format, fn |-> "div", a |-> acc, b |-> Rhs.int])
  /\ s' = Behind(Rhs)
  /\ UNCHANGED <<line, typed, acc, out>>

Dividing ==
  /\ phase = "divide"
  /\ Div!Turn \/ Div!Return
  /\ IF dphase' = "idle" THEN acc' = result' /\ phase' = "next"
                         ELSE UNCHANGED <<acc, phase>>
  /\ UNCHANGED <<line, typed, s, out>>

\* Both eval_expr and its caller report a division by zero.
DivideByZero ==
  /\ AtOperator
  /\ Rhs.ok /\ Op = Slash /\ Rhs.int = 0
  /\ phase' = "failed"
  /\ out' = Append(out, Message("divide by zero"))
  /\ UNCHANGED <<line, typed, s, acc, division>>

\* The number is read before the operator is looked at.
Malformed ==
  /\ AtOperator
  /\ ~Rhs.ok \/ Op \notin Operator
  /\ phase' = "failed"
  /\ UNCHANGED <<line, typed, s, acc, out, division>>

\* itoa negates a negative number first: INT_MIN stays negative, and the
\* characters made of its remainders are not digits.
itoa(n) == IF n = -Top THEN Message("garbled") ELSE Number(n)

Answer ==
  /\ phase = "next"
  /\ Op = NUL
  /\ phase' = "printed"
  /\ out' = Append(out, itoa(acc))
  /\ UNCHANGED <<line, typed, s, acc, division>>

Invalid ==
  /\ phase = "failed"
  /\ phase' = "printed"
  /\ out' = Append(out, Message("invalid expression"))
  /\ UNCHANGED <<line, typed, s, acc, division>>

Evaluate == First \/ Apply \/ Divide \/ Dividing \/ DivideByZero \/ Malformed
            \/ Answer \/ Invalid

Init ==
  /\ phase = "read"
  /\ line = At(Zeroed, 0)
  /\ typed = <<>>
  /\ s = 0
  /\ acc = 0
  /\ out = <<>>
  /\ Div!Init

Next ==
  \/ \E c \in Printable : Character(c)
  \/ Backspace
  \/ Enter
  \/ Evaluate
  \/ Prompt

\* Once Enter is pressed the calculator runs without waiting for anyone.
Spec == Init /\ [][Next]_vars /\ WF_vars(Evaluate)

-----------------------------------------------------------------------------
(* The line keeps room for its NUL, the pointer stays in it, and numbers   *)
(* are 32-bit numbers.                                                     *)
TypeOK ==
  /\ phase \in {"read", "first", "next", "divide", "failed", "printed", "done"}
  /\ line \in Lines
  /\ s \in 0 .. BUF_SZ - 1
  /\ acc \in Div!Ints(Int32Format)
  /\ Len(out) <= 2
  /\ Div!TypeOK

\* What an operator makes of two 32-bit numbers; a division by zero stops.
Applied(op, a, b) ==
  CASE op = Plus  -> Wrapped(a + b)
    [] op = Minus -> Wrapped(a - b)
    [] op = Times -> Wrapped(a * b)
    [] op = Slash -> IF b = 0 THEN a ELSE Wrapped(Div!TruncatedQuotient(a, b))

\* What an expression is worth, from left to right; up to the k-th operator.
Worth(e) ==
  LET w[k \in 0 .. Len(e.rest)] ==
        IF k = 0 THEN Wrapped(e.first)
        ELSE Applied(e.rest[k].op, w[k - 1], Wrapped(e.rest[k].int))
  IN  w

DividesByZero(e) ==
  \E k \in DOMAIN e.rest : e.rest[k].op = Slash /\ Wrapped(e.rest[k].int) = 0

\* The divisions int32_div is right about, see Division!ExactWhenOdd.
DividesRight(e) ==
  \A k \in DOMAIN e.rest :
    e.rest[k].op = Slash
      => Div!Small(Div!Magnitude(Worth(e)[k - 1]),
                   Div!Magnitude(Wrapped(e.rest[k].int)), Int32Format)

(* A line that is an expression is answered with its value from left to    *)
(* right, without precedence and modulo 2^32, whatever blanks it has and   *)
(* whatever longer lines and deleted characters the buffer still holds     *)
(* (SPEC/CALC.MD:15-19).  Its divisors must be such that int32_div is      *)
(* exact, and -2^31 is printed wrongly.                                    *)
LeftToRight ==
  phase = "printed" =>
    \A e \in Reading :
      e.text = typed /\ ~DividesByZero(e) /\ DividesRight(e)
        => LET n == Worth(e)[Len(e.rest)] IN n # -Top => out = <<Number(n)>>

Reports == {Message("divide by zero"), Message("invalid expression")}

OnlyReports == \A i \in DOMAIN out : out[i] \in Reports

(* A number is printed for the lines that are expressions and divide by no *)
(* zero, and for no other.  A division by zero is reported as one, before  *)
(* anything else, and a line that is no expression as invalid in the end   *)
(* (SPEC/CALC.MD:41-43).                                                   *)
Verdict ==
  phase = "printed" =>
    LET readings == {e \in Reading : e.text = typed}
    IN  IF readings = {}
        THEN OnlyReports /\ out[Len(out)] = Message("invalid expression")
        ELSE IF \E e \in readings : DividesByZero(e)
        THEN OnlyReports /\ out[1] = Message("divide by zero")
        ELSE Len(out) = 1 /\ out[1] \notin Reports

(* A division by zero is answered with the report that says so, and with   *)
(* nothing else (the session at SPEC/CALC.MD:35-37).                       *)
ReportedOnce ==
  phase = "printed" =>
    \A e \in Reading :
      e.text = typed /\ DividesByZero(e) => out = <<Message("divide by zero")>>

(* Every line is answered: no sequence of blanks, operators and numbers    *)
(* keeps the evaluation going for ever.                                    *)
Answers == (phase = "first") ~> (phase = "printed")
=============================================================================

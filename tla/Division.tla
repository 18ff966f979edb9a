------------------------------ MODULE Division ------------------------------
(***************************************************************************)
(* Division and remainder of src/kernel/lib/int.c: long division, bit by   *)
(* bit, on unsigned words, and the signed functions that are built on it.  *)
(*                                                                         *)
(* A format stands for the functions of one width.  The loop counter bit   *)
(* of the source appears as its weight, the power of two shift.            *)
(***************************************************************************)
EXTENDS Integers

CONSTANTS
  Format,    \* the widths the library has functions for
  Top,       \* [Format -> Nat], 2^(width - 1), the weight of the sign bit
  Modulus,   \* [Format -> Nat], 2^(width in which den << bit is computed)
  Weight     \* powers of two, closed under halving

ASSUME DivisionAssumption ==
  /\ Weight \subseteq Nat \ {0}
  /\ 1 \in Weight
  /\ \A w \in Weight : w = 1 \/ (w \div 2 \in Weight /\ w = 2 * (w \div 2))
  /\ Top \in [Format -> Weight]
  /\ Modulus \in [Format -> Nat]
  /\ \A f \in Format : \E k \in 1 .. Modulus[f] : Modulus[f] = k * (2 * Top[f])

VARIABLES
  phase,    \* "idle", "loop" or "return"
  call,     \* the call being served or served last
  num,      \* what is left of the dividend
  quo,      \* the bits of the quotient found so far
  shift,    \* the weight of the bit that is tried next
  result    \* what the last call returned

vars == <<phase, call, num, quo, shift, result>>

-----------------------------------------------------------------------------
(* Machine words.                                                          *)

Words(f) == 0 .. 2 * Top[f] - 1
Ints(f) == -Top[f] .. Top[f] - 1

Unsigned(f, n) == n % (2 * Top[f])
Signed(f, n) == IF Unsigned(f, n) < Top[f] THEN Unsigned(f, n)
                                           ELSE Unsigned(f, n) - 2 * Top[f]

UnsignedCall(f) == [format : {f}, fn : {"udiv", "umod"}, a : Words(f), b : Words(f)]
SignedCall(f) == [format : {f}, fn : {"div", "mod"}, a : Ints(f), b : Ints(f)]
Call == UNION {UnsignedCall(f) \union SignedCall(f) : f \in Format}

IsSigned(c) == c.fn \in {"div", "mod"}

\* The conversion to the result type.
Typed(c, n) == IF IsSigned(c) THEN Signed(c.format, n) ELSE Unsigned(c.format, n)

\* uns_num and uns_den: the most negative number becomes 2^(width - 1).
Magnitude(n) == IF n < 0 THEN -n ELSE n

den == Magnitude(call.b)

-----------------------------------------------------------------------------
(* The functions.                                                          *)

\* There is no state between calls: the library might just have been called.
Init ==
  /\ phase = "idle"
  /\ call \in {c \in Call : c.a = 0 /\ c.b = 0 /\ c.fn = "umod"}
  /\ num = 0
  /\ quo = 0
  /\ shift = 1
  /\ result = 0

\* What the division functions answer for a divisor of 0.
AnswerForZero(c) == IF IsSigned(c) THEN Top[c.format] - 1 ELSE 2 * Top[c.format] - 1

Enter(c) ==
  /\ phase = "idle"
  /\ phase' = IF c.b = 0 THEN "return" ELSE "loop"
  /\ call' = c
  /\ num' = Magnitude(c.a)
  /\ quo' = IF c.b = 0 THEN AnswerForZero(c) ELSE 0
  /\ shift' = Top[c.format]
  /\ UNCHANGED result

\* den << bit
Shifted == (den * shift) % Modulus[call.format]

Fits == num >= Shifted

\* Mutant: the bit next to the one tried is set.
WithNextBit == quo + 2 * shift

\* quo |= shift: the bit is not set yet.
WithBit == quo + shift

\* Mutant: the divisor itself is subtracted.
LeftOfDivisor == num - den

Left == num - Shifted

\* One turn of the loop.
Turn ==
  /\ phase = "loop"
  /\ IF Fits THEN num' = Left /\ quo' = WithBit
             ELSE UNCHANGED <<num, quo>>
  /\ IF shift = 1 THEN phase' = "return" /\ UNCHANGED shift
                  ELSE shift' = shift \div 2 /\ UNCHANGED phase
  /\ UNCHANGED <<call, result>>

\* Mutant: the quotient is negative when the dividend is.
QuotientOfDividend ==
  IF IsSigned(call) /\ call.b # 0 /\ call.a < 0 THEN -quo ELSE quo

\* The sign of the quotient; a divisor of 0 was answered before.
Quotient ==
  IF IsSigned(call) /\ call.b # 0 /\ (call.a < 0) # (call.b < 0) THEN -quo ELSE quo

\* The remainder functions multiply back.
Return ==
  LET q == Typed(call, Quotient)
  IN  /\ phase = "return"
      /\ phase' = "idle"
      /\ result' = IF call.fn \in {"div", "udiv"} THEN q
                   ELSE Typed(call, call.a - q * call.b)
      /\ UNCHANGED <<call, num, quo, shift>>

Next == (\E c \in Call : Enter(c)) \/ Turn \/ Return

Spec == Init /\ [][Next]_vars

-----------------------------------------------------------------------------
(* The loop's variables are words of the format, and a result has the type *)
(* of its function.                                                        *)
TypeOK ==
  /\ phase \in {"idle", "loop", "return"}
  /\ call \in Call
  /\ num \in Words(call.format)
  /\ quo \in Words(call.format)
  /\ shift \in Weight
  /\ phase = "idle"
       => result \in IF IsSigned(call) THEN Ints(call.format) ELSE Words(call.format)

(* In every turn, quotient times divisor plus rest is the dividend, up to  *)
(* a multiple of the range of the word, and no bit of the quotient at or   *)
(* below the one that is tried next is set.  This holds even where the     *)
(* shifted divisor loses bits.                                             *)
Balanced ==
  /\ phase = "loop" => quo % (2 * shift) = 0
  /\ phase # "idle" /\ call.b # 0
       => Unsigned(call.format, (quo * den + num) - Magnitude(call.a)) = 0

(* Division truncates towards 0 (SPEC/CALC.MD:92): the quotient functions  *)
(* return that quotient, in the one case where it is not in range, the     *)
(* most negative number by -1, wrapped.                                    *)
TruncatedQuotient(a, b) ==
  LET q == Magnitude(a) \div Magnitude(b)
  IN  IF (a < 0) # (b < 0) THEN -q ELSE q

Divides ==
  phase = "idle" /\ call.fn \in {"div", "udiv"} /\ call.b # 0
    => result = Typed(call, TruncatedQuotient(call.a, call.b))

Remains ==
  phase = "idle" /\ call.fn \in {"mod", "umod"}
    => result = IF call.b = 0 THEN call.a
                ELSE call.a - call.b * TruncatedQuotient(call.a, call.b)

(* Where the shifted divisor keeps all its bits, as it does for 8 and 16   *)
(* bits, quotients and remainders are those of truncating division, for    *)
(* all signs and at the ends of the range, and the remainder by 0 is the   *)
(* dividend.                                                               *)
Wide(f) == Modulus[f] >= 2 * Top[f] * Top[f]

ExactWhenWide == Wide(call.format) => Divides /\ Remains

(* Where it loses bits, an even divisor shifts to 0 and is found to fit.   *)
(* An odd one does not, and the results are still exact as long as         *)
(* dividend times divisor is within the width of the arithmetic: this is   *)
(* the part of its domain on which int32_div, and so the calculator, can   *)
(* be relied on (SPEC/CALC.MD:33, 20/3 is 6).                              *)
Small(a, b, f) == b % 2 = 1 /\ a * b < Modulus[f]

ExactWhenOdd ==
  Small(Magnitude(call.a), den, call.format) => Divides /\ Remains
=============================================================================

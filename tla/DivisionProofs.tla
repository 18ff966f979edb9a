--------------------------- MODULE DivisionProofs ---------------------------
(***************************************************************************)
(* Proofs about the long division of module Division, for every width.     *)
(***************************************************************************)
EXTENDS Division, TLAPS

\* Products grow with their factors.
LEMMA TimesMonotone ==
  ASSUME NEW a \in Int, NEW b \in Int, NEW w \in Nat, a <= b
  PROVE  a * w <= b * w
<1>1. (b - a) * w >= 0
  BY SMT
<1>2. (b - a) * w = b * w - a * w
  BY SMT
<1>. QED BY <1>1, <1>2, SMT

\* Division with remainder by a positive number, and that it is unique.
LEMMA DivMod ==
  ASSUME NEW a \in Int, NEW b \in Nat \ {0}
  PROVE  /\ a \div b \in Int /\ a % b \in 0 .. b - 1
         /\ a = b * (a \div b) + (a % b)
BY SMT

LEMMA DivModUnique ==
  ASSUME NEW a \in Int, NEW b \in Nat \ {0},
         NEW q \in Int, NEW r \in 0 .. b - 1, a = q * b + r
  PROVE  a \div b = q /\ a % b = r
BY SMT

\* A remainder does not notice multiples of the divisor.
LEMMA ModShift ==
  ASSUME NEW a \in Int, NEW b \in Nat \ {0}, NEW j \in Int
  PROVE  (a + j * b) % b = a % b
<1>. DEFINE q == a \div b
            r == a % b
<1>1. q \in Int /\ r \in 0 .. b - 1 /\ a = b * q + r
  BY DivMod
<1>. HIDE DEF q, r
<1>2. a + j * b = (q + j) * b + r
  BY <1>1
<1>3. a + j * b \in Int /\ q + j \in Int
  BY <1>1
<1>4. (a + j * b) % b = r
  BY <1>1, <1>2, <1>3, DivModUnique
<1>. QED BY <1>4 DEF r

\* An odd number, shifted within a range that is even in units of the shift,
\* keeps a bit at or above it.
LEMMA OddKeepsABit ==
  ASSUME NEW d \in Nat, d % 2 = 1, NEW w \in Nat \ {0}, NEW e \in Nat,
         NEW N \in Nat \ {0}, N = (2 * e) * w
  PROVE  (d * w) % N >= w
<1>. DEFINE p == d * w
            r == p % N
            q == p \div N
            h == d \div 2
            y == h - e * q
            x == 2 * y + 1
<1>1. p \in Int
  OBVIOUS
<1>. HIDE DEF p
<1>2. q \in Int /\ r \in 0 .. N - 1 /\ p = N * q + r
  BY <1>1, DivMod, Zenon
<1>3. h \in Int /\ d = 2 * h + 1
  BY DivMod
<1>. HIDE DEF r, q, h
<1>4. y \in Int /\ y = h - e * q
  BY <1>2, <1>3
<1>. HIDE DEF y
<1>5. x \in Int /\ x # 0
  BY <1>4
<1>6. N * q = (2 * (e * q)) * w
  BY <1>2
<1>7. d = 2 * (e * q) + x /\ e * q \in Int
  BY <1>2, <1>3, <1>4
<1>. HIDE DEF x
<1>8. d * w = (2 * (e * q)) * w + x * w
  BY <1>5, <1>7
<1>9. r = x * w
  <2>1. x * w \in Int /\ (2 * (e * q)) * w \in Int /\ r \in Int
    BY <1>2, <1>5, <1>7
  <2>. QED BY <1>2, <1>6, <1>8, <2>1 DEF p
<1>10. x >= 1
  <2>1. CASE x <= -1
    <3>1. x * w <= (-1) * w
      BY <1>5, <2>1, TimesMonotone, -1 \in Int
    <3>. QED BY <1>2, <1>9, <3>1
  <2>. QED BY <1>5, <2>1
<1>11. 1 * w <= x * w
  BY <1>5, <1>10, TimesMonotone, 1 \in Int
<1>. QED BY <1>9, <1>11 DEF r, p

\* The sizes of a format: words have at least one bit.
LEMMA FormatSize ==
  ASSUME NEW f \in Format
  PROVE  /\ Top[f] \in Nat \ {0}
         /\ 2 * Top[f] \in Nat \ {0}
         /\ \E k \in Nat \ {0} : Modulus[f] = k * (2 * Top[f])
         /\ Modulus[f] \in Nat \ {0}
<1>1. Top[f] \in Nat \ {0} /\ 2 * Top[f] \in Nat \ {0}
  <2>1. Top[f] \in Weight
    BY DivisionAssumption
  <2>2. Top[f] \in Nat \ {0}
    BY <2>1, DivisionAssumption
  <2>. QED BY <2>2
<1>2. PICK k \in 1 .. Modulus[f] : Modulus[f] = k * (2 * Top[f])
  BY DivisionAssumption
<1>3. Modulus[f] \in Nat
  BY DivisionAssumption
<1>4. k \in Nat \ {0}
  BY <1>2, <1>3
<1>5. Modulus[f] > 0
  <2>1. 1 * k <= (2 * Top[f]) * k
    BY <1>1, <1>4, TimesMonotone, 1 <= 2 * Top[f]
  <2>. QED BY <1>1, <1>2, <1>4, <2>1
<1>. QED BY <1>1, <1>2, <1>3, <1>4, <1>5

\* The values of the type of a function.
Range(c) == IF IsSigned(c) THEN Ints(c.format) ELSE Words(c.format)

\* The shape of a call.
LEMMA CallShape ==
  ASSUME NEW c \in Call
  PROVE  /\ c.format \in Format
         /\ c.a \in Range(c) /\ c.b \in Range(c)
         /\ Magnitude(c.a) \in Words(c.format) /\ Magnitude(c.b) \in Words(c.format)
         /\ c.fn \in {"udiv", "umod", "div", "mod"}
<1>1. PICK f \in Format : c \in UnsignedCall(f) \/ c \in SignedCall(f)
  BY DEF Call
<1>2. Top[f] \in Nat \ {0}
  BY FormatSize
<1>3. CASE c \in UnsignedCall(f)
  <2>1. /\ c.format = f /\ c.fn \in {"udiv", "umod"}
        /\ c.a \in Words(f) /\ c.b \in Words(f)
    BY <1>3 DEF UnsignedCall
  <2>2. ~IsSigned(c)
    BY <2>1 DEF IsSigned
  <2>3. Magnitude(c.a) = c.a /\ Magnitude(c.b) = c.b
    BY <1>2, <2>1 DEF Magnitude, Words
  <2>. QED BY <2>1, <2>2, <2>3 DEF Range
<1>4. CASE c \in SignedCall(f)
  <2>1. /\ c.format = f /\ c.fn \in {"div", "mod"}
        /\ c.a \in Ints(f) /\ c.b \in Ints(f)
    BY <1>4 DEF SignedCall
  <2>2. IsSigned(c)
    BY <2>1 DEF IsSigned
  <2>3. Magnitude(c.a) \in Words(f) /\ Magnitude(c.b) \in Words(f)
    BY <1>2, <2>1 DEF Magnitude, Words, Ints
  <2>. QED BY <2>1, <2>2, <2>3 DEF Range
<1>. QED BY <1>1, <1>3, <1>4

\* A conversion drops multiples of the word's range, and keeps what fits.
LEMMA TypedShift ==
  ASSUME NEW c \in Call, NEW x \in Range(c), NEW j \in Int
  PROVE  Typed(c, x + j * (2 * Top[c.format])) = x
<1>. DEFINE M == 2 * Top[c.format]
<1>1. /\ c.format \in Format /\ Top[c.format] \in Nat \ {0}
      /\ M \in Nat \ {0} /\ M = 2 * Top[c.format]
  BY CallShape, FormatSize
<1>2. x \in Int
  BY <1>1 DEF Range, Words, Ints
<1>. HIDE DEF M
<1>3. (x + j * M) % M = x % M
  BY <1>1, <1>2, ModShift
<1>4. CASE 0 <= x
  <2>1. x < M
    BY <1>1, <1>2 DEF Range, Words, Ints
  <2>2. x % M = x
    <3>1. x \in 0 .. M - 1 /\ x = 0 * M + x
      BY <1>1, <1>2, <1>4, <2>1
    <3>. QED BY <1>1, <1>2, <3>1, DivModUnique
  <2>3. Unsigned(c.format, x + j * M) = x
    BY <1>1, <1>3, <2>2 DEF Unsigned, M
  <2>4. IsSigned(c) => x < Top[c.format]
    BY <1>1, <1>2 DEF Range, Ints
  <2>. QED BY <2>3, <2>4 DEF Typed, Signed, M
<1>5. CASE x < 0
  <2>1. IsSigned(c) /\ x >= -Top[c.format]
    BY <1>1, <1>2, <1>5 DEF Range, Words, Ints
  <2>2. PICK q \in Int, r \in 0 .. M - 1 : q = -1 /\ r = x + M
    BY <1>1, <1>2, <1>5, <2>1
  <2>3. x % M = x + M
    <3>1. x = q * M + r
      BY <1>1, <1>2, <2>2
    <3>2. x % M = r
      BY <1>1, <1>2, <3>1, DivModUnique
    <3>. QED BY <2>2, <3>2
  <2>4. Unsigned(c.format, x + j * M) = x + M
    BY <1>1, <1>3, <2>3 DEF Unsigned, M
  <2>5. ~(x + M < Top[c.format]) /\ (x + M) - M = x
    BY <1>1, <1>2, <2>1
  <2>. QED BY <2>1, <2>4, <2>5 DEF Typed, Signed, M
<1>. QED BY <1>2, <1>4, <1>5

\* What is converted is in the range of the type and off by a multiple of the
\* word's range.
LEMMA TypedSound ==
  ASSUME NEW c \in Call, NEW n \in Int
  PROVE  /\ Typed(c, n) \in Range(c)
         /\ \E j \in Int : Typed(c, n) = n + j * (2 * Top[c.format])
<1>. DEFINE M == 2 * Top[c.format]
            u == n % M
            d == n \div M
<1>1. /\ c.format \in Format /\ Top[c.format] \in Nat \ {0}
      /\ M \in Nat \ {0} /\ M = 2 * Top[c.format]
  BY CallShape, FormatSize
<1>2. d \in Int /\ u \in 0 .. M - 1 /\ n = M * d + u
  BY <1>1, DivMod
<1>3. Unsigned(c.format, n) = u
  BY DEF Unsigned
<1>. HIDE DEF M, u, d
<1>4. u = n + (-d) * M /\ u - M = n + (-d - 1) * M /\ -d \in Int /\ -d - 1 \in Int
  BY <1>1, <1>2
<1>5. CASE ~IsSigned(c) \/ u < Top[c.format]
  <2>1. Typed(c, n) = u
    BY <1>3, <1>5 DEF Typed, Signed
  <2>2. u \in Range(c)
    BY <1>1, <1>2, <1>5 DEF Range, Words, Ints
  <2>. QED BY <1>4, <2>1, <2>2 DEF M
<1>6. CASE IsSigned(c) /\ ~(u < Top[c.format])
  <2>1. Typed(c, n) = u - M
    BY <1>3, <1>6 DEF Typed, Signed, M
  <2>2. u - M \in Range(c)
    BY <1>1, <1>2, <1>6 DEF Range, Ints
  <2>. QED BY <1>4, <2>1, <2>2 DEF M
<1>. QED BY <1>5, <1>6

-----------------------------------------------------------------------------
(* The inductive invariant: the bits of the quotient from shift up have    *)
(* been decided, what was taken from the dividend is what they stand for,  *)
(* and, where the bits that are shifted out do no harm, the rest is too    *)
(* small for them.                                                         *)

Harmless(c) ==
  \/ Wide(c.format)
  \/ Small(Magnitude(c.a), Magnitude(c.b), c.format)

Decided == \E k \in Nat : quo = k * (2 * shift)

Taken == \E j \in Int : quo * den + num = Magnitude(call.a) + j * (2 * Top[call.format])

TakenExactly == quo * den + num = Magnitude(call.a)

LoopInv ==
  phase = "loop" =>
    /\ call.b # 0
    /\ Decided
    /\ quo + 2 * shift <= 2 * Top[call.format]
    /\ \E e \in Nat : Top[call.format] = e * shift
    /\ Harmless(call) => num < 2 * (den * shift)

ReturnInv ==
  phase = "return" => IF call.b = 0 THEN quo = AnswerForZero(call)
                      ELSE Harmless(call) => num < den

TakenInv ==
  phase # "idle" /\ call.b # 0 => Taken /\ (Harmless(call) => TakenExactly)

ExactInv == Harmless(call) => Divides /\ Remains

IInv == TypeOK /\ LoopInv /\ ReturnInv /\ TakenInv /\ ExactInv

\* What a state of the loop consists of.
LEMMA LoopFacts ==
  ASSUME TypeOK, LoopInv, phase = "loop"
  PROVE  /\ call \in Call /\ call.format \in Format
         /\ Top[call.format] \in Nat \ {0} /\ 2 * Top[call.format] \in Nat \ {0}
         /\ num \in Nat /\ num < 2 * Top[call.format]
         /\ quo \in Nat /\ shift \in Nat \ {0} /\ shift <= Top[call.format]
         /\ den \in Nat \ {0} /\ den < 2 * Top[call.format]
         /\ Magnitude(call.a) \in Nat
<1>1. call \in Call /\ num \in Words(call.format) /\ quo \in Words(call.format)
      /\ shift \in Nat \ {0}
  <2>1. shift \in Weight
    BY DEF TypeOK
  <2>. QED BY <2>1, DivisionAssumption DEF TypeOK
<1>2. /\ call.format \in Format
      /\ call.b \in Range(call)
      /\ Magnitude(call.a) \in Words(call.format)
      /\ Magnitude(call.b) \in Words(call.format)
  BY <1>1, CallShape
<1>3. Top[call.format] \in Nat \ {0} /\ 2 * Top[call.format] \in Nat \ {0}
  BY <1>2, FormatSize
<1>4. call.b # 0 /\ quo + 2 * shift <= 2 * Top[call.format]
  BY DEF LoopInv
<1>5. den \in Words(call.format) /\ den # 0
  <2>1. call.b \in Int
    <3>1. Words(call.format) \subseteq Int /\ Ints(call.format) \subseteq Int
      BY <1>3 DEF Words, Ints
    <3>. QED BY <1>2, <3>1 DEF Range
  <2>. QED BY <1>2, <1>4, <2>1 DEF den, Magnitude
<1>. QED BY <1>1, <1>2, <1>3, <1>4, <1>5 DEF Words

\* den << bit is the shifted divisor up to a multiple of the word's range.
\* Where that does no harm, it is the shifted divisor, or neither fits.
LEMMA ShiftedSound ==
  ASSUME TypeOK, LoopInv, TakenInv, phase = "loop"
  PROVE  /\ Shifted \in Nat
         /\ \E i \in Int : Shifted = den * shift + i * (2 * Top[call.format])
         /\ Harmless(call) => \/ Shifted = den * shift
                              \/ num < Shifted /\ num < den * shift
<1>. DEFINE T == Top[call.format]
            M == 2 * T
            N == Modulus[call.format]
            p == den * shift
            d == p \div N
<1>1. /\ call.format \in Format /\ T \in Nat \ {0} /\ M \in Nat \ {0} /\ M = 2 * T
      /\ shift \in Nat \ {0} /\ shift <= T
      /\ den \in Nat \ {0} /\ den < M
  BY LoopFacts
<1>2. N \in Nat \ {0}
  BY <1>1, FormatSize
<1>3. PICK k \in Nat \ {0} : N = k * M
  BY <1>1, FormatSize
<1>4. p \in Nat
  BY <1>1
<1>. HIDE DEF T, M, N, p
<1>5. d \in Int /\ p % N \in 0 .. N - 1 /\ p = N * d + (p % N)
  BY <1>2, <1>4, DivMod
<1>6. Shifted = p % N
  BY DEF Shifted, p, N
<1>7. Shifted \in Nat
  BY <1>5, <1>6, <1>2
<1>. HIDE DEF d
<1>8. Shifted = p + (-(k * d)) * M /\ -(k * d) \in Int
  <2>1. N * d = (k * d) * M
    BY <1>1, <1>3, <1>5
  <2>. QED BY <1>1, <1>3, <1>4, <1>5, <1>6, <2>1
<1>9. ASSUME Wide(call.format) PROVE Shifted = p
  <2>1. N >= M * T
    BY <1>9 DEF Wide, N, M, T
  <2>2. p < M * T
    <3>1. den * shift <= (M - 1) * shift
      BY <1>1, TimesMonotone, den <= M - 1, M - 1 \in Int
    <3>2. shift * (M - 1) <= T * (M - 1)
      BY <1>1, TimesMonotone, M - 1 \in Nat
    <3>3. T * (M - 1) < M * T
      BY <1>1
    <3>. QED BY <1>1, <3>1, <3>2, <3>3 DEF p
  <2>3. M * T \in Int
    BY <1>1
  <2>4. p \in 0 .. N - 1 /\ p = 0 * N + p
    BY <1>2, <1>4, <2>1, <2>2, <2>3
  <2>5. p % N = p
    BY <1>2, <1>4, <2>4, DivModUnique
  <2>. QED BY <1>6, <2>5
<1>10. ASSUME Small(Magnitude(call.a), den, call.format), TakenExactly
       PROVE  Shifted = p \/ (num < Shifted /\ num < p)
  <2>. DEFINE n0 == Magnitude(call.a)
  <2>1. /\ n0 \in Nat /\ num \in Nat /\ quo \in Nat /\ den \in Nat \ {0}
    BY LoopFacts
  <2>2. den % 2 = 1 /\ n0 * den < N /\ quo * den + num = n0
    BY <1>10 DEF Small, TakenExactly, N
  <2>. HIDE DEF n0
  <2>3. num <= n0
    <3>1. quo * den \in Nat
      BY <2>1
    <3>. QED BY <2>1, <2>2, <3>1
  <2>4. CASE p < N
    <3>1. p \in 0 .. N - 1 /\ p = 0 * N + p
      BY <1>2, <1>4, <2>4
    <3>2. p % N = p
      BY <1>2, <1>4, <3>1, DivModUnique
    <3>. QED BY <1>6, <3>2
  <2>5. CASE ~(p < N)
    <3>1. n0 < shift
      <4>1. CASE shift <= n0
        <5>1. shift * den <= n0 * den
          BY <1>1, <2>1, <4>1, TimesMonotone
        <5>2. shift * den = p
          BY <1>1 DEF p
        <5>3. n0 * den \in Int
          BY <2>1
        <5>. QED BY <1>2, <1>4, <2>2, <2>5, <5>1, <5>2, <5>3
      <4>. QED BY <1>1, <2>1, <4>1
    <3>2. PICK e \in Nat : T = e * shift
      BY DEF LoopInv, T
    <3>3. N = (2 * (k * e)) * shift /\ k * e \in Nat
      BY <1>1, <1>3, <3>2
    <3>4. (den * shift) % N >= shift
      BY <1>1, <1>2, <2>1, <2>2, <3>3, OddKeepsABit
    <3>5. Shifted >= shift
      BY <1>6, <3>4 DEF p
    <3>6. 1 * shift <= den * shift
      BY <1>1, TimesMonotone, 1 \in Int, 1 <= den
    <3>. QED BY <1>1, <1>4, <1>7, <2>1, <2>3, <3>1, <3>5, <3>6 DEF p
  <2>. QED BY <2>4, <2>5
<1>11. Harmless(call) => Shifted = p \/ (num < Shifted /\ num < p)
  <2>1. Harmless(call) => TakenExactly
    BY DEF TakenInv, LoopInv
  <2>. QED BY <1>9, <1>10, <2>1 DEF Harmless, den
<1>. QED BY <1>7, <1>8, <1>11 DEF p, M, T

\* A turn of the loop keeps the invariant.
LEMMA TurnSound ==
  ASSUME IInv, Turn
  PROVE  IInv'
<1>. DEFINE f == call.format
            M == 2 * Top[f]
            n0 == Magnitude(call.a)
            wide == Harmless(call)
<1>0. TypeOK /\ LoopInv /\ TakenInv /\ phase = "loop" /\ call' = call /\ result' = result
  BY DEF IInv, Turn
<1>1. /\ call \in Call /\ f \in Format
      /\ M \in Nat \ {0} /\ num \in Nat /\ num < M
      /\ quo \in Nat /\ shift \in Nat \ {0}
      /\ den \in Nat \ {0} /\ n0 \in Nat
  BY <1>0, LoopFacts
<1>2. den' = den /\ f' = f /\ M' = M /\ n0' = n0 /\ wide' = wide
  BY <1>0 DEF den
<1>3. /\ call.b # 0
      /\ Decided /\ quo + 2 * shift <= M
      /\ wide => num < 2 * (den * shift)
      /\ \E j \in Int : quo * den + num = n0 + j * M
      /\ wide => quo * den + num = n0
  BY <1>0 DEF LoopInv, TakenInv, Taken, TakenExactly
<1>4. /\ Shifted \in Nat
      /\ \E i \in Int : Shifted = den * shift + i * M
      /\ wide => Shifted = den * shift \/ (num < Shifted /\ num < den * shift)
      /\ \E e \in Nat : Top[f] = e * shift
  BY <1>0, ShiftedSound DEF LoopInv
<1>5. IF num >= Shifted THEN num' = num - Shifted /\ quo' = quo + shift
                        ELSE num' = num /\ quo' = quo
  BY DEF Turn, Fits, Left, WithBit
<1>6. shift = 1 \/ (shift \div 2 \in Weight /\ shift = 2 * (shift \div 2))
  <2>1. shift \in Weight
    BY <1>0 DEF TypeOK
  <2>. QED BY <2>1, DivisionAssumption
<1>7. IF shift = 1 THEN phase' = "return" /\ shift' = shift
                   ELSE phase' = "loop" /\ shift' = shift \div 2
  BY <1>0 DEF Turn
<1>. HIDE DEF f, M, n0, wide
<1>8. num' \in Nat /\ num' < M /\ quo' \in Nat /\ quo' + shift <= M
  BY <1>1, <1>3, <1>4, <1>5
<1>9. \E k \in Nat : quo' = k * shift
  <2>1. PICK k \in Nat : quo = k * (2 * shift)
    BY <1>3 DEF Decided
  <2>2. quo = (2 * k) * shift /\ quo + shift = (2 * k + 1) * shift
    BY <1>1, <2>1
  <2>3. 2 * k \in Nat /\ 2 * k + 1 \in Nat
    BY <2>1
  <2>. QED BY <1>5, <2>2, <2>3
<1>10. \E j \in Int : quo' * den + num' = n0 + j * M
  <2>1. PICK j \in Int : quo * den + num = n0 + j * M
    BY <1>3
  <2>2. PICK i \in Int : Shifted = den * shift + i * M
    BY <1>4
  <2>3. CASE num >= Shifted
    <3>1. (quo + shift) * den = quo * den + den * shift
      BY <1>1
    <3>2. (j - i) * M = j * M - i * M /\ j - i \in Int
      BY <1>1, <2>1, <2>2
    <3>3. /\ quo * den \in Int /\ den * shift \in Int
          /\ j * M \in Int /\ i * M \in Int
      BY <1>1
    <3>4. quo' * den + num' = n0 + (j - i) * M
      BY <1>1, <1>5, <2>1, <2>2, <2>3, <3>1, <3>2, <3>3
    <3>. QED BY <3>2, <3>4
  <2>4. CASE ~(num >= Shifted)
    BY <1>5, <2>1, <2>4
  <2>. QED BY <2>3, <2>4
<1>11. ASSUME wide PROVE quo' * den + num' = n0 /\ num' < den * shift
  <2>1. /\ Shifted = den * shift \/ (num < Shifted /\ num < den * shift)
        /\ num < 2 * (den * shift) /\ quo * den + num = n0
    BY <1>3, <1>4, <1>11
  <2>2. den * shift \in Nat /\ quo * den \in Nat
    BY <1>1
  <2>3. (quo + shift) * den = quo * den + den * shift
    BY <1>1
  <2>4. CASE Shifted = den * shift
    BY <1>1, <1>5, <2>1, <2>2, <2>3, <2>4
  <2>5. CASE num < Shifted /\ num < den * shift
    <3>1. num' = num /\ quo' = quo
      BY <1>1, <1>4, <1>5, <2>5
    <3>. QED BY <2>1, <2>5, <3>1
  <2>. QED BY <2>1, <2>4, <2>5
<1>12. TakenInv'
  BY <1>2, <1>10, <1>11 DEF TakenInv, Taken, TakenExactly, f, M, n0, wide
<1>13. TypeOK'
  <2>1. num' \in Words(f) /\ quo' \in Words(f)
    BY <1>1, <1>8 DEF Words, M
  <2>2. shift' \in Weight
    BY <1>0, <1>6, <1>7 DEF TypeOK
  <2>3. phase' \in {"loop", "return"}
    BY <1>7
  <2>. QED BY <1>0, <1>1, <2>1, <2>2, <2>3 DEF TypeOK, f
<1>14. LoopInv'
  <2>. SUFFICES ASSUME phase' = "loop"
                PROVE  /\ Decided'
                       /\ quo' + 2 * shift' <= M
                       /\ \E e \in Nat : Top[f] = e * shift'
                       /\ wide => num' < 2 * (den * shift')
    BY <1>0, <1>2, <1>3 DEF LoopInv, f, M, wide
  <2>1. shift' \in Nat /\ shift = 2 * shift'
    BY <1>6, <1>7, DivisionAssumption
  <2>2. 2 * (den * shift') = den * shift
    BY <1>1, <2>1
  <2>3. Decided'
    BY <1>9, <2>1 DEF Decided
  <2>4. \E e \in Nat : Top[f] = e * shift'
    <3>1. PICK e \in Nat : Top[f] = e * shift
      BY <1>4
    <3>2. Top[f] = (2 * e) * shift' /\ 2 * e \in Nat
      BY <2>1, <3>1
    <3>. QED BY <3>2
  <2>. QED BY <1>8, <1>11, <2>1, <2>2, <2>3, <2>4
<1>15. ReturnInv'
  <2>. SUFFICES ASSUME phase' = "return", wide PROVE num' < den
    BY <1>0, <1>2, <1>3 DEF ReturnInv, f, wide
  <2>1. shift = 1 /\ den * shift = den
    BY <1>1, <1>7
  <2>. QED BY <1>11, <2>1
<1>16. ExactInv'
  BY <1>7 DEF ExactInv, Divides, Remains
<1>. QED BY <1>12, <1>13, <1>14, <1>15, <1>16 DEF IInv

\* A value that was converted is not changed by another conversion.
LEMMA TypedTwice ==
  ASSUME NEW c \in Call, NEW x \in Range(c)
  PROVE  Typed(c, x) = x
<1>1. /\ c.format \in Format /\ Top[c.format] \in Nat \ {0}
  BY CallShape, FormatSize
<1>2. x \in Int
  <2>1. Words(c.format) \subseteq Int /\ Ints(c.format) \subseteq Int
    BY <1>1 DEF Words, Ints
  <2>. QED BY <2>1 DEF Range
<1>3. x + 0 * (2 * Top[c.format]) = x
  BY <1>1, <1>2
<1>4. Typed(c, x + 0 * (2 * Top[c.format])) = x
  BY TypedShift, 0 \in Int
<1>. QED BY <1>3, <1>4

\* The rest of a truncating division has the sign of the dividend, and fits
\* into its type.
LEMMA RestFits ==
  ASSUME NEW c \in Call, c.b # 0, NEW q \in Nat, NEW r \in Nat,
         q * Magnitude(c.b) + r = Magnitude(c.a), r < Magnitude(c.b)
  PROVE  LET t == TruncatedQuotient(c.a, c.b)
         IN  /\ t = IF (c.a < 0) # (c.b < 0) THEN -q ELSE q
             /\ c.a - c.b * t \in Range(c)
<1>. DEFINE a == c.a
            b == c.b
            t == TruncatedQuotient(a, b)
<1>1. /\ c.format \in Format /\ Top[c.format] \in Nat \ {0}
      /\ a \in Range(c)
  BY CallShape, FormatSize
<1>2. a \in Int /\ b \in Int
  <2>1. Words(c.format) \subseteq Int /\ Ints(c.format) \subseteq Int
    BY <1>1 DEF Words, Ints
  <2>. QED BY <2>1, CallShape DEF Range
<1>3. /\ b # 0 /\ r < Magnitude(b) /\ q * Magnitude(b) + r = Magnitude(a)
  OBVIOUS
<1>. HIDE DEF a, b
<1>4. /\ Magnitude(a) = (IF a < 0 THEN -a ELSE a)
      /\ Magnitude(b) = (IF b < 0 THEN -b ELSE b)
      /\ Magnitude(b) \in Nat \ {0} /\ Magnitude(a) \in Nat
  BY <1>2, <1>3 DEF Magnitude
<1>5. Magnitude(a) \div Magnitude(b) = q
  BY <1>3, <1>4, DivModUnique
<1>6. t = IF (a < 0) # (b < 0) THEN -q ELSE q
  BY <1>5 DEF TruncatedQuotient
<1>. HIDE DEF t
<1>7. a - b * t = IF a < 0 THEN -r ELSE r
  <2>1. CASE a < 0 /\ b < 0
    <3>1. q * (-b) + r = -a /\ t = q
      BY <1>3, <1>4, <1>6, <2>1
    <3>. QED BY <1>2, <2>1, <3>1
  <2>2. CASE a < 0 /\ ~(b < 0)
    <3>1. q * b + r = -a /\ t = -q
      BY <1>3, <1>4, <1>6, <2>2
    <3>. QED BY <1>2, <2>2, <3>1
  <2>3. CASE ~(a < 0) /\ b < 0
    <3>1. q * (-b) + r = a /\ t = -q
      BY <1>3, <1>4, <1>6, <2>3
    <3>. QED BY <1>2, <2>3, <3>1
  <2>4. CASE ~(a < 0) /\ ~(b < 0)
    <3>1. q * b + r = a /\ t = q
      BY <1>3, <1>4, <1>6, <2>4
    <3>. QED BY <1>2, <2>4, <3>1
  <2>. QED BY <2>1, <2>2, <2>3, <2>4
<1>8. r <= Magnitude(a)
  <2>1. q * Magnitude(b) \in Nat
    BY <1>4
  <2>. QED BY <1>3, <1>4, <2>1
<1>9. a - b * t \in Range(c)
  <2>1. CASE a < 0
    <3>1. IsSigned(c) /\ a \in Ints(c.format)
      BY <1>1, <2>1 DEF Range, Words
    <3>2. -r \in Ints(c.format)
      BY <1>1, <1>2, <1>4, <1>8, <2>1, <3>1 DEF Ints
    <3>. QED BY <1>7, <2>1, <3>1, <3>2 DEF Range
  <2>2. CASE ~(a < 0)
    <3>1. r <= a
      BY <1>4, <1>8, <2>2
    <3>2. a \in Ints(c.format) => r \in Ints(c.format)
      BY <1>1, <1>2, <3>1 DEF Ints
    <3>3. a \in Words(c.format) => r \in Words(c.format)
      BY <1>1, <1>2, <3>1 DEF Words
    <3>. QED BY <1>1, <1>7, <2>2, <3>2, <3>3 DEF Range
  <2>. QED BY <2>1, <2>2
<1>. QED BY <1>6, <1>9 DEF a, b, t

\* What a function returns is of its type, and exact where nothing is shifted
\* out.
LEMMA ReturnSound ==
  ASSUME IInv, Return
  PROVE  IInv'
<1>. DEFINE f == call.format
            M == 2 * Top[f]
            t == TruncatedQuotient(call.a, call.b)
            q == Typed(call, Quotient)
            x == call.a - q * call.b
<1>1. /\ TypeOK /\ ReturnInv /\ TakenInv /\ phase = "return"
      /\ phase' = "idle" /\ call' = call /\ num' = num /\ quo' = quo /\ shift' = shift
      /\ result' = IF call.fn \in {"div", "udiv"} THEN q ELSE Typed(call, x)
  BY DEF IInv, Return
<1>2. /\ call \in Call /\ num \in Words(f) /\ quo \in Words(f)
      /\ f \in Format /\ Top[f] \in Nat \ {0} /\ M \in Nat \ {0}
      /\ call.a \in Range(call) /\ call.b \in Range(call)
      /\ call.fn \in {"udiv", "umod", "div", "mod"}
  BY <1>1, CallShape, FormatSize DEF TypeOK
<1>3. num \in Nat /\ quo \in Nat /\ call.a \in Int /\ call.b \in Int
  <2>1. Words(f) \subseteq Nat /\ Words(f) \subseteq Int /\ Ints(f) \subseteq Int
    BY <1>2 DEF Words, Ints
  <2>. QED BY <1>2, <2>1 DEF Range
<1>4. Quotient \in Int
  BY <1>3 DEF Quotient
<1>5. q \in Range(call) /\ \E j \in Int : q = Quotient + j * M
  BY <1>2, <1>4, TypedSound
<1>6. q \in Int
  <2>1. Words(f) \subseteq Int /\ Ints(f) \subseteq Int
    BY <1>2 DEF Words, Ints
  <2>. QED BY <1>5, <2>1 DEF Range
<1>. HIDE DEF M, q
<1>7. x \in Int
  BY <1>3, <1>6
<1>8. result' \in Range(call)
  BY <1>1, <1>2, <1>5, <1>7, TypedSound
<1>9. TypeOK'
  <2>1. result' \in IF IsSigned(call) THEN Ints(call.format) ELSE Words(call.format)
    BY <1>8 DEF Range
  <2>. QED BY <1>1, <2>1 DEF TypeOK, IsSigned
<1>10. ASSUME call.b = 0, call.fn \in {"mod", "umod"} PROVE result' = call.a
  <2>1. x = call.a
    BY <1>3, <1>6, <1>10
  <2>. QED BY <1>1, <1>2, <1>10, <2>1, TypedTwice
<1>11. ASSUME call.b # 0, Harmless(call)
       PROVE  /\ call.fn \in {"div", "udiv"} => result' = Typed(call, t)
              /\ call.fn \in {"mod", "umod"} => result' = call.a - call.b * t
  <2>1. quo * Magnitude(call.b) + num = Magnitude(call.a) /\ num < Magnitude(call.b)
    BY <1>1, <1>11 DEF TakenInv, TakenExactly, ReturnInv, den
  <2>2. /\ t = IF (call.a < 0) # (call.b < 0) THEN -quo ELSE quo
        /\ call.a - call.b * t \in Range(call)
    BY <1>2, <1>3, <1>11, <2>1, RestFits
  <2>3. ~IsSigned(call) => ~(call.a < 0) /\ ~(call.b < 0)
    BY <1>2 DEF Range, Words
  <2>4. Quotient = t
    BY <1>11, <2>2, <2>3 DEF Quotient
  <2>5. q = Typed(call, t)
    BY <2>4 DEF q
  <2>6. t \in Int
    BY <1>4, <2>4
  <2>. HIDE DEF t
  <2>7. Typed(call, x) = call.a - call.b * t
    <3>1. PICK j \in Int : q = t + j * M
      BY <1>5, <2>4
    <3>2. (t + j * M) * call.b = call.b * t + (j * call.b) * M
      BY <1>2, <1>3, <2>6
    <3>3. PICK i \in Int : i = -(j * call.b)
      BY <1>3
    <3>4. (j * call.b) * M = -(i * M) /\ i * M \in Int /\ call.b * t \in Int
      BY <1>2, <1>3, <2>6, <3>3
    <3>5. x = (call.a - call.b * t) + i * M
      BY <1>3, <3>1, <3>2, <3>4
    <3>6. Typed(call, (call.a - call.b * t) + i * M) = call.a - call.b * t
      BY <1>2, <2>2, TypedShift DEF M
    <3>. QED BY <3>5, <3>6
  <2>. QED BY <1>1, <2>5, <2>7
<1>12. ExactInv'
  BY <1>1, <1>10, <1>11 DEF ExactInv, Divides, Remains
<1>. QED BY <1>1, <1>9, <1>12 DEF IInv, LoopInv, ReturnInv, TakenInv

\* A call starts with nothing decided and nothing taken.
LEMMA EnterSound ==
  ASSUME IInv, NEW c \in Call, Enter(c)
  PROVE  IInv'
<1>. DEFINE f == c.format
            M == 2 * Top[f]
            n0 == Magnitude(c.a)
            d == Magnitude(c.b)
<1>1. /\ call' = c /\ num' = n0 /\ shift' = Top[f]
      /\ phase' = IF c.b = 0 THEN "return" ELSE "loop"
      /\ quo' = IF c.b = 0 THEN AnswerForZero(c) ELSE 0
      /\ den' = d
  BY DEF Enter, den
<1>2. /\ f \in Format /\ Top[f] \in Nat \ {0} /\ M \in Nat \ {0} /\ M = 2 * Top[f]
      /\ Top[f] \in Weight
      /\ n0 \in Words(f) /\ d \in Words(f) /\ c.b \in Range(c)
  BY CallShape, FormatSize, DivisionAssumption
<1>3. n0 \in Nat /\ n0 < M /\ d \in Nat
  BY <1>2 DEF Words
<1>4. c.b \in Int
  <2>1. Words(f) \subseteq Int /\ Ints(f) \subseteq Int
    BY <1>2 DEF Words, Ints
  <2>. QED BY <1>2, <2>1 DEF Range
<1>5. c.b # 0 => d \in Nat \ {0}
  BY <1>3, <1>4 DEF Magnitude
<1>6. quo' \in Words(f)
  BY <1>1, <1>2 DEF Words, AnswerForZero
<1>7. TypeOK'
  BY <1>1, <1>2, <1>6 DEF TypeOK
<1>. HIDE DEF M, n0, d
<1>8. LoopInv'
  <2>. SUFFICES ASSUME c.b # 0
                PROVE  /\ Decided'
                       /\ quo' + 2 * shift' <= M
                       /\ \E e \in Nat : Top[f] = e * shift'
                       /\ num' < 2 * (d * shift')
    BY <1>1 DEF LoopInv, M
  <2>1. quo' = 0 /\ 0 = 0 * (2 * shift') /\ 2 * shift' = M
    BY <1>1, <1>2
  <2>2. Decided'
    BY <2>1, 0 \in Nat DEF Decided
  <2>3. 1 * Top[f] <= d * Top[f]
    BY <1>2, <1>5, TimesMonotone, 1 \in Int, 1 <= d
  <2>4. n0 < 2 * (d * Top[f])
    BY <1>2, <1>3, <2>3
  <2>5. Top[f] = 1 * shift' /\ 1 \in Nat
    BY <1>1, <1>2
  <2>. QED BY <1>1, <1>2, <2>1, <2>2, <2>4, <2>5
<1>9. ReturnInv'
  BY <1>1 DEF ReturnInv
<1>10. TakenInv'
  <2>. SUFFICES ASSUME c.b # 0
                PROVE  /\ \E j \in Int : quo' * d + num' = n0 + j * M
                       /\ quo' * d + num' = n0
    BY <1>1 DEF TakenInv, Taken, TakenExactly, M, n0, f
  <2>1. quo' * d + num' = n0 /\ n0 = n0 + 0 * M
    BY <1>1, <1>2, <1>3
  <2>. QED BY <2>1, 0 \in Int
<1>11. ExactInv'
  BY <1>1 DEF ExactInv, Divides, Remains
<1>. QED BY <1>7, <1>8, <1>9, <1>10, <1>11 DEF IInv

\* The balance that the invariant states with a factor, stated with %.
LEMMA BalancedFollows ==
  ASSUME IInv
  PROVE  Balanced
<1>1. call \in Call /\ call.format \in Format /\ shift \in Nat \ {0}
  <2>1. call \in Call /\ shift \in Weight
    BY DEF IInv, TypeOK
  <2>. QED BY <2>1, CallShape, DivisionAssumption
<1>2. 2 * Top[call.format] \in Nat \ {0}
  BY <1>1, FormatSize
<1>3. ASSUME phase = "loop" PROVE quo % (2 * shift) = 0
  <2>1. PICK k \in Nat : quo = k * (2 * shift)
    BY <1>3 DEF IInv, LoopInv, Decided
  <2>2. quo = k * (2 * shift) + 0 /\ 0 \in 0 .. 2 * shift - 1
    BY <1>1, <2>1
  <2>3. quo \in Int /\ 2 * shift \in Nat \ {0}
    BY <1>1, <2>1
  <2>. QED BY <2>1, <2>2, <2>3, DivModUnique
<1>4. ASSUME phase # "idle", call.b # 0
      PROVE  Unsigned(call.format, (quo * den + num) - Magnitude(call.a)) = 0
  <2>. DEFINE M == 2 * Top[call.format]
              y == quo * den + num
              n0 == Magnitude(call.a)
  <2>1. PICK j \in Int : y = n0 + j * M
    BY <1>4 DEF IInv, TakenInv, Taken
  <2>2. n0 \in Int
    <3>1. n0 \in Words(call.format)
      BY <1>1, CallShape
    <3>. QED BY <1>2, <3>1 DEF Words
  <2>3. M \in Nat \ {0}
    BY <1>2
  <2>. HIDE DEF y, n0, M
  <2>4. y - n0 \in Int /\ y - n0 = j * M + 0 /\ 0 \in 0 .. M - 1
    BY <2>1, <2>2, <2>3
  <2>5. (y - n0) % M = 0
    BY <2>3, <2>4, DivModUnique
  <2>6. Unsigned(call.format, y - n0) = 0
    BY <2>5 DEF Unsigned, M
  <2>. QED BY <2>6, Zenon DEF y, n0
<1>. QED BY <1>3, <1>4 DEF Balanced

LEMMA InitSound == Init => IInv
<1>. SUFFICES ASSUME Init PROVE IInv
  OBVIOUS
<1>1. /\ phase = "idle" /\ call \in Call /\ call.a = 0 /\ call.fn = "umod"
      /\ call.b = 0 /\ num = 0 /\ quo = 0 /\ shift = 1 /\ result = 0
  BY DEF Init
<1>2. call.format \in Format /\ call.a \in Range(call)
  BY <1>1, CallShape
<1>3. Top[call.format] \in Weight /\ Top[call.format] \in Nat \ {0}
  BY <1>2, FormatSize, DivisionAssumption
<1>4. 0 \in Words(call.format)
  BY <1>3 DEF Words
<1>5. result \in IF IsSigned(call) THEN Ints(call.format) ELSE Words(call.format)
  BY <1>1, <1>4 DEF IsSigned
<1>6. 1 \in Weight
  BY DivisionAssumption
<1>7. TypeOK
  BY <1>1, <1>4, <1>5, <1>6 DEF TypeOK
<1>. QED BY <1>1, <1>7
         DEF IInv, LoopInv, ReturnInv, TakenInv, ExactInv, Divides, Remains

LEMMA StepSound == IInv /\ [Next]_vars => IInv'
<1>. SUFFICES ASSUME IInv, [Next]_vars PROVE IInv'
  OBVIOUS
<1>1. CASE \E c \in Call : Enter(c)
  BY <1>1, EnterSound
<1>2. CASE Turn
  BY <1>2, TurnSound
<1>3. CASE Return
  BY <1>3, ReturnSound
<1>4. CASE UNCHANGED vars
  BY <1>4 DEF vars, IInv, TypeOK, LoopInv, ReturnInv, TakenInv, ExactInv,
              Divides, Remains, Decided, Taken, TakenExactly, den
<1>. QED BY <1>1, <1>2, <1>3, <1>4 DEF Next

(* For every width, in every state: the variables are words; quotient      *)
(* times divisor plus rest is the dividend up to a wrap, even in the       *)
(* 32-bit functions, where the shifted divisor loses bits; where it loses  *)
(* none, in the 8-bit and 16-bit functions, quotients and remainders are   *)
(* exact for all operands and signs; and where it does, they are exact for *)
(* an odd divisor whose product with the dividend is within the width.     *)
THEOREM LongDivision ==
  Spec => [](TypeOK /\ Balanced /\ ExactWhenWide /\ ExactWhenOdd)
<1>1. IInv => TypeOK /\ Balanced /\ ExactWhenWide /\ ExactWhenOdd
  BY BalancedFollows DEF IInv, ExactInv, Harmless, ExactWhenWide, ExactWhenOdd, den
<1>. QED BY <1>1, InitSound, StepSound, PTL DEF Spec

\* What the theorem says of each of the other properties.
THEOREM WordsSound == Spec => []TypeOK
BY LongDivision, PTL

THEOREM LoopBalanced == Spec => []Balanced
BY LongDivision, PTL

THEOREM OddExact == Spec => []ExactWhenOdd
BY LongDivision, PTL
=============================================================================

--------------------------- MODULE CalculatorProofs --------------------------
(***************************************************************************)
(* Proofs about the calculator, for line buffers, character sets and words *)
(* of every size.                                                          *)
(***************************************************************************)
EXTENDS Calculator, TLAPS, SequenceTheorems, WellFoundedInduction

-----------------------------------------------------------------------------
(* The division: what is proved of the library holds of the one format of  *)
(* the calculator.                                                         *)

DivP == INSTANCE DivisionProofs
          WITH Format <- {Int32Format}, Top <- [f \in {Int32Format} |-> Top],
               Modulus <- [f \in {Int32Format} |-> 2 * Top], phase <- dphase

T == [f \in {Int32Format} |-> Top]
M == [f \in {Int32Format} |-> 2 * Top]

LEMMA Formats ==
  /\ T[Int32Format] = Top /\ M[Int32Format] = 2 * Top
  /\ Top \in Nat \ {0} /\ Top \in Weight
  /\ Weight \subseteq Nat \ {0} /\ 1 \in Weight
  /\ \A w \in Weight : w = 1 \/ (w \div 2 \in Weight /\ w = 2 * (w \div 2))
  /\ T \in [{Int32Format} -> Weight] /\ M \in [{Int32Format} -> Nat]
  /\ \A f \in {Int32Format} : \E k \in 1 .. M[f] : M[f] = k * (2 * T[f])
<1>1. T[Int32Format] = Top /\ M[Int32Format] = 2 * Top
  BY DEF T, M
<1>2. Top \in Nat \ {0} /\ Top \in Weight
  BY CalculatorAssumption
<1>3. T \in [{Int32Format} -> Weight] /\ M \in [{Int32Format} -> Nat]
  BY <1>2 DEF T, M
<1>4. 1 \in 1 .. 2 * Top /\ 2 * Top = 1 * (2 * Top)
  BY <1>2
<1>. HIDE DEF T, M
<1>5. \A f \in {Int32Format} : \E k \in 1 .. M[f] : M[f] = k * (2 * T[f])
  BY <1>1, <1>4
<1>. QED BY <1>1, <1>2, <1>3, <1>5, CalculatorAssumption

\* The state of the division is one its proof reaches.
DivisionSound == DivP!IInv

\* The same operators under the two names.
LEMMA SameValues ==
  /\ \A f, n : DivP!Unsigned(f, n) = Div!Unsigned(f, n)
  /\ \A f, n : DivP!Signed(f, n) = Div!Signed(f, n)
  /\ \A f : DivP!Words(f) = Div!Words(f) /\ DivP!Ints(f) = Div!Ints(f)
  /\ \A n : DivP!Magnitude(n) = Div!Magnitude(n)
  /\ \A a, b : DivP!TruncatedQuotient(a, b) = Div!TruncatedQuotient(a, b)
  /\ \A a, b, f : DivP!Small(a, b, f) <=> Div!Small(a, b, f)
  /\ DivP!Call = Div!Call
BY Zenon DEF DivP!Unsigned, Div!Unsigned, DivP!Signed, Div!Signed, DivP!Words, Div!Words,
   DivP!Ints, Div!Ints, DivP!Magnitude, Div!Magnitude, DivP!TruncatedQuotient,
   Div!TruncatedQuotient, DivP!Small, Div!Small, DivP!Call, Div!Call,
   DivP!UnsignedCall, Div!UnsignedCall, DivP!SignedCall, Div!SignedCall

LEMMA SameTyped == \A c, n : DivP!Typed(c, n) = Div!Typed(c, n)
BY SameValues, Zenon DEF DivP!Typed, Div!Typed, DivP!IsSigned, Div!IsSigned

LEMMA SameTypes == DivP!TypeOK <=> Div!TypeOK
BY SameValues, SameTyped, Zenon DEF DivP!TypeOK, Div!TypeOK, DivP!IsSigned, Div!IsSigned

LEMMA SameEnter ==
  ASSUME NEW c
  PROVE  Div!Enter(c) => DivP!Enter(c)
BY SameValues, Zenon DEF DivP!Enter, Div!Enter, DivP!AnswerForZero, Div!AnswerForZero,
   DivP!IsSigned, Div!IsSigned

LEMMA SameTurn == Div!Turn => DivP!Turn
BY SameValues, Zenon DEF DivP!Turn, Div!Turn, DivP!Fits, Div!Fits, DivP!Shifted, Div!Shifted,
   DivP!Left, Div!Left, DivP!WithBit, Div!WithBit, DivP!den, Div!den

LEMMA SameReturn == Div!Return => DivP!Return
<1>1. DivP!Quotient = Div!Quotient
  BY Zenon DEF DivP!Quotient, Div!Quotient, DivP!IsSigned, Div!IsSigned
<1>. QED BY <1>1, SameTyped, Zenon DEF DivP!Return, Div!Return

LEMMA SameInit == Div!Init => DivP!Init
BY SameValues, Zenon DEF DivP!Init, Div!Init

LEMMA DivisionInit == Div!Init => DivisionSound
BY Formats, SameInit, DivP!InitSound DEF T, M, DivisionSound

LEMMA DivisionStep ==
  ASSUME DivisionSound, Div!Turn \/ Div!Return
  PROVE  DivisionSound'
<1>1. CASE Div!Turn
  BY <1>1, Formats, SameTurn, DivP!TurnSound DEF T, M, DivisionSound
<1>2. CASE Div!Return
  BY <1>2, Formats, SameReturn, DivP!ReturnSound DEF T, M, DivisionSound
<1>. QED BY <1>1, <1>2

LEMMA DivisionEnter ==
  ASSUME DivisionSound, NEW c \in Div!Call, Div!Enter(c)
  PROVE  DivisionSound'
BY SameValues, SameEnter, Formats, DivP!EnterSound DEF T, M, DivisionSound

LEMMA DivisionTypes == DivisionSound => Div!TypeOK
BY SameTypes DEF DivisionSound, DivP!IInv

\* What int32_div returns.
DivisionDone == DivisionSound /\ dphase = "idle" /\ call.fn = "div"

DivisionRight ==
  /\ result \in Div!Ints(Int32Format)
  /\ /\ call.b # 0
     /\ Div!Small(Div!Magnitude(call.a), Div!Magnitude(call.b), Int32Format)
     => result = Wrapped(Div!TruncatedQuotient(call.a, call.b))

LEMMA DivisionAnswers == DivisionDone => DivisionRight
<1>. SUFFICES ASSUME DivisionSound, dphase = "idle", call.fn = "div"
              PROVE  DivisionRight
  BY DEF DivisionDone
<1>1. /\ call \in DivP!Call
      /\ result \in IF DivP!IsSigned(call) THEN DivP!Ints(call.format)
                                           ELSE DivP!Words(call.format)
      /\ DivP!ExactInv
  BY DEF DivisionSound, DivP!IInv, DivP!TypeOK
<1>2. call.format = Int32Format
  <2>1. call.format \in {Int32Format}
    BY <1>1, Formats, DivP!CallShape DEF T, M
  <2>. QED BY <2>1
<1>3. DivP!IsSigned(call)
  BY DEF DivP!IsSigned
<1>4. result \in Div!Ints(Int32Format)
  BY <1>1, <1>2, <1>3, SameValues
<1>5. ASSUME call.b # 0,
             Div!Small(Div!Magnitude(call.a), Div!Magnitude(call.b), Int32Format)
      PROVE  result = Wrapped(Div!TruncatedQuotient(call.a, call.b))
  <2>1. DivP!Harmless(call)
    BY <1>2, <1>5, SameValues, Zenon DEF DivP!Harmless
  <2>2. result = DivP!Typed(call, DivP!TruncatedQuotient(call.a, call.b))
    BY <1>1, <1>5, <2>1 DEF DivP!ExactInv, DivP!Divides
  <2>3. \A n : DivP!Typed(call, n) = Wrapped(n)
    BY <1>2, <1>3, SameValues, Zenon DEF DivP!Typed, Wrapped
  <2>. QED BY <2>2, <2>3, SameValues, Zenon
<1>. QED BY <1>4, <1>5 DEF DivisionRight

LEMMA DivisionAnswersNext == DivisionDone' => DivisionRight'
BY DivisionAnswers, PTL

LEMMA DivisionRests ==
  ASSUME DivisionSound, UNCHANGED division
  PROVE  DivisionSound'
<1>1. UNCHANGED DivP!vars
  BY DEF division, DivP!vars
<1>. QED BY <1>1, Formats, DivP!StepSound DEF T, M, DivisionSound

-----------------------------------------------------------------------------
(* 32-bit numbers.                                                         *)

LEMMA Remainder ==
  ASSUME NEW n \in Int, NEW B \in Nat \ {0}, NEW j \in Int
  PROVE  /\ n \div B \in Int /\ n % B \in 0 .. B - 1
         /\ n = B * (n \div B) + (n % B)
         /\ (n + j * B) % B = n % B
<1>1. n \div B \in Int /\ n % B \in 0 .. B - 1 /\ n = B * (n \div B) + (n % B)
  BY Formats, DivP!DivMod DEF T, M
<1>2. (n + j * B) % B = n % B
  BY Formats, DivP!ModShift DEF T, M
<1>. QED BY <1>1, <1>2

\* A wrapped number is in range, and equals the number up to a multiple of
\* the range.
LEMMA WrappedIs ==
  ASSUME NEW n \in Int
  PROVE  /\ Wrapped(n) \in -Top .. Top - 1
         /\ \E j \in Int : Wrapped(n) = n + j * (2 * Top)
<1>. DEFINE B == 2 * Top
            r == n % B
            d == n \div B
<1>1. Top \in Nat \ {0} /\ B \in Nat \ {0}
  BY Formats
<1>2. Wrapped(n) = IF r < Top THEN r ELSE r - B
  BY Formats DEF Wrapped, Div!Signed, Div!Unsigned, T
<1>3. r \in 0 .. B - 1 /\ d \in Int /\ n = B * d + r
  <2>. HIDE DEF B
  <2>. QED BY <1>1, Remainder
<1>4. B = Top + Top
  BY <1>1
<1>. HIDE DEF B, r, d
<1>5. Wrapped(n) \in -Top .. Top - 1
  BY <1>1, <1>2, <1>3, <1>4
<1>6. -d \in Int /\ (-d) * B = -(B * d) /\ (-d - 1) * B = -(B * d) - B /\ -d - 1 \in Int
  BY <1>1, <1>3
<1>7. CASE r < Top
  <2>1. Wrapped(n) = n + (-d) * B
    BY <1>1, <1>2, <1>3, <1>6, <1>7
  <2>. QED BY <1>5, <1>6, <2>1 DEF B
<1>8. CASE ~(r < Top)
  <2>1. Wrapped(n) = n + (-d - 1) * B
    BY <1>1, <1>2, <1>3, <1>6, <1>8
  <2>. QED BY <1>5, <1>6, <2>1 DEF B
<1>. QED BY <1>7, <1>8

LEMMA WrappedShift ==
  ASSUME NEW n \in Int, NEW j \in Int
  PROVE  Wrapped(n + j * (2 * Top)) = Wrapped(n)
<1>. DEFINE B == 2 * Top
<1>1. B \in Nat \ {0}
  BY Formats
<1>2. (n + j * B) % B = n % B
  <2>. HIDE DEF B
  <2>. QED BY <1>1, Remainder
<1>. QED BY <1>2, Formats DEF Wrapped, Div!Signed, Div!Unsigned, T

LEMMA IntsAre == Div!Ints(Int32Format) = -Top .. Top - 1
BY Formats DEF Div!Ints, T

LEMMA WrappedNegated ==
  ASSUME NEW n \in Int
  PROVE  -n \in Int /\ Wrapped(-Wrapped(n)) = Wrapped(-n)
<1>. DEFINE B == 2 * Top
<1>1. PICK j \in Int : Wrapped(n) = n + j * B
  BY WrappedIs
<1>2. B \in Int
  BY Formats
<1>3. -Wrapped(n) = -n + (-j) * B
  <2>. HIDE DEF B
  <2>. QED BY <1>1, <1>2
<1>4. Wrapped(-n + (-j) * B) = Wrapped(-n)
  BY WrappedShift
<1>. QED BY <1>3, <1>4

-----------------------------------------------------------------------------
(* Numbers one after the other, and what is computed along them.           *)

LEMMA Least ==
  ASSUME NEW S, S \subseteq Nat, S # {}
  PROVE  \E k \in S : \A n \in S : k <= n
<1>. DEFINE R == {ss \in Nat \X Nat : ss[1] < ss[2]}
<1>1. IsWellFoundedOn(R, Nat)
  BY NatLessThanWellFounded DEF OpToRel
<1>2. PICK k \in S : \A n \in S : <<n, k>> \notin R
  <2>. HIDE DEF R
  <2>. QED BY <1>1, WFMin
<1>3. ASSUME NEW n \in S, n < k
      PROVE  FALSE
  <2>1. <<n, k>> \in Nat \X Nat
    OBVIOUS
  <2>2. <<n, k>>[1] < <<n, k>>[2]
    BY <1>3
  <2>. QED BY <1>2, <2>1, <2>2
<1>. QED BY <1>3

\* A set that has 0 and with each number its successor, up to m.
LEMMA UpTo ==
  ASSUME NEW S, NEW m \in Nat, 0 \in S,
         \A k \in 1 .. m : k - 1 \in S => k \in S
  PROVE  \A k \in 0 .. m : k \in S
<1>. DEFINE U == {k \in 0 .. m : k \notin S}
<1>. SUFFICES ASSUME U # {} PROVE FALSE
  OBVIOUS
<1>1. PICK n \in U : \A k \in U : n <= k
  <2>1. U \subseteq Nat
    OBVIOUS
  <2>. HIDE DEF U
  <2>. QED BY <2>1, Least
<1>2. n \in 0 .. m /\ n \notin S /\ n # 0
  OBVIOUS
<1>3. n - 1 \in 0 .. m /\ n \in 1 .. m /\ ~ n - 1 \in U
  BY <1>1, <1>2
<1>. QED BY <1>2, <1>3

LEMMA UpFrom ==
  ASSUME NEW S, NEW lo \in Int, NEW hi \in Int, lo <= hi, lo \in S,
         \A k \in lo + 1 .. hi : k - 1 \in S => k \in S
  PROVE  \A k \in lo .. hi : k \in S
<1>. DEFINE R == {i \in Nat : lo + i \in S}
<1>1. 0 \in R /\ hi - lo \in Nat
  OBVIOUS
<1>2. ASSUME NEW i \in 1 .. hi - lo, i - 1 \in R
      PROVE  i \in R
  <2>1. lo + i \in lo + 1 .. hi /\ (lo + i) - 1 = lo + (i - 1)
    OBVIOUS
  <2>. QED BY <1>2, <2>1
<1>3. \A i \in 0 .. hi - lo : i \in R
  <2>. HIDE DEF R
  <2>. QED BY <1>1, <1>2, UpTo
<1>4. ASSUME NEW k \in lo .. hi
      PROVE  k \in S
  <2>1. k - lo \in 0 .. hi - lo /\ lo + (k - lo) = k
    OBVIOUS
  <2>2. k - lo \in R
    BY <1>3, <2>1
  <2>. QED BY <2>1, <2>2
<1>. QED BY <1>4

\* The values from x on that the functions F[lo + 1], F[lo + 2], ... make.
Along(g, lo, hi, x, F) ==
  g[lo] = x /\ \A k \in lo + 1 .. hi : g[k] = F[k][g[k - 1]]

LEMMA AlongExists ==
  ASSUME NEW lo \in Int, NEW hi \in Int, lo <= hi, NEW S, NEW x \in S,
         NEW F \in [lo + 1 .. hi -> [S -> S]]
  PROVE  \E g \in [lo .. hi -> S] : Along(g, lo, hi, x, F)
<1>. DEFINE R == {m \in Int : \E g \in [lo .. m -> S] : Along(g, lo, m, x, F)}
<1>1. lo \in R
  <2>. DEFINE g == [k \in lo .. lo |-> x]
  <2>1. g \in [lo .. lo -> S] /\ Along(g, lo, lo, x, F)
    BY DEF Along
  <2>. QED BY <2>1
<1>2. ASSUME NEW m \in lo + 1 .. hi, m - 1 \in R
      PROVE  m \in R
  <2>1. PICK g \in [lo .. m - 1 -> S] : Along(g, lo, m - 1, x, F)
    BY <1>2
  <2>. DEFINE y == F[m][g[m - 1]]
              h == [k \in lo .. m |-> IF k = m THEN y ELSE g[k]]
  <2>2. g[m - 1] \in S /\ F[m] \in [S -> S] /\ y \in S
    BY <2>1
  <2>3. \A k \in lo .. m - 1 : k \in lo .. m /\ k # m
    OBVIOUS
  <2>. HIDE DEF y
  <2>4. h \in [lo .. m -> S]
    BY <2>1, <2>2
  <2>5. h[m] = y /\ \A k \in lo .. m - 1 : h[k] = g[k]
    BY <2>3
  <2>. HIDE DEF h
  <2>6. h[lo] = x
    BY <2>1, <2>5 DEF Along
  <2>7. ASSUME NEW k \in lo + 1 .. m
        PROVE  h[k] = F[k][h[k - 1]]
    <3>1. k - 1 \in lo .. m - 1
      OBVIOUS
    <3>2. CASE k = m
      BY <2>5, <3>1, <3>2 DEF y
    <3>3. CASE k # m
      <4>1. k \in lo + 1 .. m - 1 /\ k \in lo .. m - 1
        BY <3>3
      <4>. QED BY <2>1, <2>5, <3>1, <4>1 DEF Along
    <3>. QED BY <3>2, <3>3
  <2>8. Along(h, lo, m, x, F)
    BY <2>6, <2>7 DEF Along
  <2>. QED BY <2>4, <2>8
<1>3. \A m \in lo .. hi : m \in R
  <2>. HIDE DEF R
  <2>. QED BY <1>1, <1>2, UpFrom
<1>. QED BY <1>3

-----------------------------------------------------------------------------
(* The value of digits.                                                    *)

DecimalValue(t, p, d, k) == IF k = p THEN 0 ELSE 10 * d[k - 1] + DigitOf[t[k]]

IsDecimal(t, p, q, d) == d = [k \in p .. q |-> DecimalValue(t, p, d, k)]

LEMMA DecimalIs ==
  ASSUME NEW t, NEW p \in Int, NEW q \in Int, p <= q,
         \A k \in p + 1 .. q : t[k] \in Digit
  PROVE  \E d \in [p .. q -> Int] :
           /\ d[p] = 0 /\ \A k \in p + 1 .. q : d[k] = 10 * d[k - 1] + DigitOf[t[k]]
           /\ Decimal(t, p, q) = d[q]
<1>. DEFINE F == [k \in p + 1 .. q |-> [n \in Int |-> 10 * n + DigitOf[t[k]]]]
<1>1. \A k \in p + 1 .. q : DigitOf[t[k]] \in Int
  BY CalculatorAssumption
<1>2. F \in [p + 1 .. q -> [Int -> Int]]
  BY <1>1
<1>3. PICK g \in [p .. q -> Int] : Along(g, p, q, 0, F)
  <2>. HIDE DEF F
  <2>1. 0 \in Int
    OBVIOUS
  <2>. QED BY <1>2, <2>1, AlongExists, Zenon
<1>4. \A k \in p .. q : g[k] = DecimalValue(t, p, g, k)
  <2>1. g[p] = 0
    BY <1>3 DEF Along
  <2>2. ASSUME NEW k \in p + 1 .. q
        PROVE  g[k] = 10 * g[k - 1] + DigitOf[t[k]]
    <3>1. g[k - 1] \in Int
      BY <1>3
    <3>2. g[k] = F[k][g[k - 1]]
      BY <1>3 DEF Along
    <3>. QED BY <3>1, <3>2
  <2>3. \A k \in p .. q : k = p \/ k \in p + 1 .. q
    OBVIOUS
  <2>. QED BY <2>1, <2>2, <2>3 DEF DecimalValue
<1>5. IsDecimal(t, p, q, g)
  BY <1>3, <1>4 DEF IsDecimal
<1>. DEFINE d == CHOOSE h : IsDecimal(t, p, q, h)
<1>6. IsDecimal(t, p, q, d)
  BY <1>5
<1>7. Decimal(t, p, q) = d[q]
  BY Zenon DEF Decimal, IsDecimal, DecimalValue
<1>. HIDE DEF d
<1>8. \A k \in p .. q : d[k] = DecimalValue(t, p, d, k)
  BY <1>6, Zenon DEF IsDecimal
<1>9. d[p] = 0 /\ \A k \in p + 1 .. q : d[k] = 10 * d[k - 1] + DigitOf[t[k]]
  BY <1>8 DEF DecimalValue
<1>10. \A k \in p .. q : d[k] \in Int
  <2>. DEFINE R == {k \in Int : d[k] \in Int}
  <2>1. p \in R
    BY <1>9
  <2>2. ASSUME NEW k \in p + 1 .. q, k - 1 \in R
        PROVE  k \in R
    <3>1. d[k] = 10 * d[k - 1] + DigitOf[t[k]] /\ DigitOf[t[k]] \in Int /\ d[k - 1] \in Int
      BY <1>1, <1>9, <2>2
    <3>. QED BY <3>1
  <2>3. \A k \in p .. q : k \in R
    <3>. HIDE DEF R
    <3>. QED BY <2>1, <2>2, UpFrom
  <2>. QED BY <2>3
<1>11. d = [k \in p .. q |-> d[k]]
  BY <1>6, Zenon DEF IsDecimal
<1>12. d \in [p .. q -> Int]
  BY <1>10, <1>11
<1>. QED BY <1>7, <1>9, <1>12

LEMMA DigitValues == \A c \in Digit : DigitOf[c] \in Int
BY CalculatorAssumption

\* The value that read_int makes of the digits is that number, wrapped.
ValueStep(v, k, n) == IF n = k - 1 THEN 0 ELSE Wrapped(v[n - 1] * 10 + DigitOf[CharAt(n)])

IsValue(k, j, v) == v = [n \in k - 1 .. j - 1 |-> ValueStep(v, k, n)]

LEMMA WrappedInt ==
  ASSUME NEW n \in Int
  PROVE  Wrapped(n) \in Int /\ Wrapped(n) \in Div!Ints(Int32Format)
<1>1. Wrapped(n) \in -Top .. Top - 1
  BY WrappedIs
<1>2. Top \in Int
  BY Formats
<1>. QED BY <1>1, <1>2, IntsAre

LEMMA WrappedZero == Wrapped(0) = 0
<1>1. 0 % (2 * Top) = 0
  BY Formats
<1>. QED BY <1>1, Formats DEF Wrapped, Div!Signed, Div!Unsigned, T

LEMMA ValueIs ==
  ASSUME NEW k \in Int, NEW j \in Int, k <= j,
         \A n \in k .. j - 1 : CharAt(n) \in Digit
  PROVE  \E v \in [k - 1 .. j - 1 -> Int] :
           /\ v[k - 1] = 0
           /\ \A n \in k .. j - 1 : v[n] = Wrapped(v[n - 1] * 10 + DigitOf[CharAt(n)])
           /\ ValueOf(k, j) = v[j - 1]
<1>. DEFINE p == k - 1
            q == j - 1
            F == [m \in p + 1 .. q |-> [n \in Int |-> Wrapped(n * 10 + DigitOf[CharAt(m)])]]
<1>1. p \in Int /\ q \in Int /\ p <= q /\ p + 1 = k
  OBVIOUS
<1>2. \A m \in p + 1 .. q : DigitOf[CharAt(m)] \in Int
  BY <1>1, CalculatorAssumption
<1>3. F \in [p + 1 .. q -> [Int -> Int]]
  <2>1. ASSUME NEW m \in p + 1 .. q, NEW n \in Int
        PROVE  Wrapped(n * 10 + DigitOf[CharAt(m)]) \in Int
    <3>1. n * 10 + DigitOf[CharAt(m)] \in Int
      BY <1>2, <2>1
    <3>. QED BY <3>1, WrappedInt
  <2>. QED BY <2>1
<1>4. PICK g \in [p .. q -> Int] : Along(g, p, q, 0, F)
  <2>. HIDE DEF F, p, q
  <2>1. 0 \in Int
    OBVIOUS
  <2>. QED BY <1>1, <1>3, <2>1, AlongExists, Zenon
<1>5. \A n \in p .. q : g[n] = ValueStep(g, k, n)
  <2>1. g[p] = 0
    BY <1>4 DEF Along
  <2>2. ASSUME NEW n \in p + 1 .. q
        PROVE  g[n] = Wrapped(g[n - 1] * 10 + DigitOf[CharAt(n)])
    <3>1. g[n - 1] \in Int
      BY <1>4
    <3>2. g[n] = F[n][g[n - 1]]
      BY <1>4 DEF Along
    <3>. QED BY <3>1, <3>2
  <2>3. \A n \in p .. q : n = p \/ (n \in p + 1 .. q /\ n # p)
    OBVIOUS
  <2>. QED BY <2>1, <2>2, <2>3 DEF ValueStep
<1>6. IsValue(k, j, g)
  BY <1>4, <1>5 DEF IsValue
<1>. DEFINE v == CHOOSE h : IsValue(k, j, h)
<1>7. IsValue(k, j, v)
  BY <1>6
<1>8. ValueOf(k, j) = v[q]
  BY Zenon DEF ValueOf, IsValue, ValueStep
<1>. HIDE DEF v
<1>9. \A n \in p .. q : v[n] = ValueStep(v, k, n)
  BY <1>7, Zenon DEF IsValue
<1>10. v[p] = 0 /\ \A n \in p + 1 .. q : v[n] = Wrapped(v[n - 1] * 10 + DigitOf[CharAt(n)])
  BY <1>9 DEF ValueStep
<1>11. \A n \in p .. q : n \in {m \in Int : v[m] \in Int}
  <2>. DEFINE R == {m \in Int : v[m] \in Int}
  <2>1. p \in R
    BY <1>10
  <2>2. ASSUME NEW n \in p + 1 .. q, n - 1 \in R
        PROVE  n \in R
    <3>1. v[n - 1] * 10 + DigitOf[CharAt(n)] \in Int
      BY <1>2, <2>2
    <3>2. v[n] \in Int
      BY <1>10, <3>1, WrappedInt
    <3>. QED BY <3>2
  <2>. HIDE DEF R, p, q
  <2>3. \A n \in p .. q : n \in R
    BY <1>1, <2>1, <2>2, UpFrom
  <2>. QED BY <2>3 DEF R
<1>12. v = [n \in p .. q |-> v[n]]
  BY <1>7, Zenon DEF IsValue
<1>13. v \in [p .. q -> Int]
  BY <1>11, <1>12
<1>. QED BY <1>1, <1>8, <1>10, <1>13

LEMMA ValueOfDecimal ==
  ASSUME NEW t, NEW k \in Int, NEW j \in Int, k <= j,
         \A n \in k .. j - 1 : CharAt(n) \in Digit /\ t[n + 1] = CharAt(n)
  PROVE  /\ Decimal(t, k, j) \in Int
         /\ ValueOf(k, j) = Wrapped(Decimal(t, k, j))
<1>1. PICK v \in [k - 1 .. j - 1 -> Int] :
        /\ v[k - 1] = 0
        /\ \A n \in k .. j - 1 : v[n] = Wrapped(v[n - 1] * 10 + DigitOf[CharAt(n)])
        /\ ValueOf(k, j) = v[j - 1]
  BY ValueIs
<1>2. ASSUME NEW n \in k + 1 .. j
      PROVE  t[n] \in Digit /\ t[n] = CharAt(n - 1) /\ n - 1 \in k .. j - 1
  <2>1. n - 1 \in k .. j - 1 /\ (n - 1) + 1 = n
    OBVIOUS
  <2>. QED BY <2>1
<1>3. PICK d \in [k .. j -> Int] :
        /\ d[k] = 0 /\ \A n \in k + 1 .. j : d[n] = 10 * d[n - 1] + DigitOf[t[n]]
        /\ Decimal(t, k, j) = d[j]
  BY <1>2, DecimalIs
<1>. DEFINE R == {n \in Int : v[n - 1] = Wrapped(d[n])}
<1>4. k \in R
  BY <1>1, <1>3, WrappedZero
<1>5. ASSUME NEW n \in k + 1 .. j, n - 1 \in R
      PROVE  n \in R
  <2>. DEFINE x == d[n - 1]
              c == DigitOf[t[n]]
              B == 2 * Top
  <2>1. x \in Int /\ c \in Int
    <3>1. t[n] \in Digit
      BY <1>2
    <3>2. n - 1 \in k .. j
      OBVIOUS
    <3>. QED BY <1>3, <3>1, <3>2, DigitValues
  <2>2. d[n] = 10 * x + c
    BY <1>3
  <2>3. v[n - 1] = Wrapped(Wrapped(x) * 10 + c)
    <3>1. v[(n - 1) - 1] = Wrapped(x)
      BY <1>5
    <3>2. n - 1 \in k .. j - 1
      OBVIOUS
    <3>. QED BY <1>1, <1>2, <3>1, <3>2
  <2>4. PICK i \in Int : Wrapped(x) = x + i * B
    BY <2>1, WrappedIs
  <2>5. B \in Int
    BY Formats
  <2>. HIDE DEF x, c, B
  <2>6. (x + i * B) * 10 + c = (10 * x + c) + (10 * i) * B
    BY <2>1, <2>4, <2>5
  <2>7. 10 * x + c \in Int /\ 10 * i \in Int
    BY <2>1, <2>4
  <2>8. Wrapped((10 * x + c) + (10 * i) * B) = Wrapped(10 * x + c)
    BY <2>7, WrappedShift DEF B
  <2>9. v[n - 1] = Wrapped(d[n])
    BY <2>2, <2>3, <2>4, <2>6, <2>8
  <2>. QED BY <2>9
<1>6. j \in R
  <2>1. \A n \in k .. j : n \in R
    <3>. HIDE DEF R
    <3>. QED BY <1>4, <1>5, UpFrom
  <2>. QED BY <2>1
<1>. QED BY <1>1, <1>3, <1>6

-----------------------------------------------------------------------------
(* Reading numbers from the line.                                          *)

\* The array holds what was typed, and a NUL behind it.
Held ==
  /\ line \in Lines /\ typed \in Seq(Printable) /\ line.i = Len(typed)
  /\ \A k \in 0 .. line.i - 1 : CharAt(k) = typed[k + 1]
  /\ CharAt(line.i) = NUL

LEMMA Characters ==
  /\ \A c \in Digit : c # NUL /\ c # Blank /\ c \notin Operator
  /\ \A c \in Operator : c # NUL /\ c # Blank
  /\ NUL # Blank /\ Minus \in Operator
  /\ BUF_SZ \in Nat /\ BUF_SZ > 1
<1>1. Blank \in Printable /\ NUL \notin Printable /\ BUF_SZ \in Nat /\ BUF_SZ > 1
  BY LineInputAssumption
<1>2. /\ Digit \subseteq Printable \ {Blank}
      /\ Operator \subseteq Printable \ (Digit \union {Blank})
  BY CalculatorAssumption, Zenon
<1>3. Minus \in Operator
  BY Zenon DEF Operator
<1>. QED BY <1>1, <1>2, <1>3

LEMMA OperatorsDiffer ==
  Plus \notin {Minus, Times, Slash} /\ Minus \notin {Times, Slash} /\ Times # Slash
BY CalculatorAssumption, Zenon

LEMMA SkipUnique ==
  ASSUME NEW C, NEW k \in Int, NEW j \in k .. BUF_SZ - 1,
         CharAt(j) \notin C, \A i \in k .. j - 1 : CharAt(i) \in C
  PROVE  Skip(C, k) = j
<1>. DEFINE P(n) == CharAt(n) \notin C /\ \A i \in k .. n - 1 : CharAt(i) \in C
            m == CHOOSE n \in k .. BUF_SZ - 1 : P(n)
<1>1. m \in k .. BUF_SZ - 1 /\ P(m)
  <2>1. P(j)
    OBVIOUS
  <2>. HIDE DEF P
  <2>. QED BY <2>1
<1>2. Skip(C, k) = m
  BY Zenon DEF Skip
<1>3. BUF_SZ \in Int
  BY Characters
<1>. HIDE DEF m
<1>4. ~ (m < j)
  <2>. SUFFICES ASSUME m < j PROVE FALSE
    OBVIOUS
  <2>1. m \in k .. j - 1
    BY <1>1, <1>3
  <2>. QED BY <1>1, <2>1
<1>5. ~ (j < m)
  <2>. SUFFICES ASSUME j < m PROVE FALSE
    OBVIOUS
  <2>1. j \in k .. m - 1
    BY <1>1, <1>3
  <2>. QED BY <1>1, <2>1
<1>. QED BY <1>1, <1>2, <1>3, <1>4, <1>5

\* A character outside of C stops the skipping.
LEMMA SkipStops ==
  ASSUME NEW C, NEW k \in Nat, NEW m \in k .. BUF_SZ - 1, CharAt(m) \notin C
  PROVE  /\ Skip(C, k) \in k .. m /\ CharAt(Skip(C, k)) \notin C
         /\ \A i \in k .. Skip(C, k) - 1 : CharAt(i) \in C
<1>. DEFINE S == {j \in k .. m : CharAt(j) \notin C}
<1>1. BUF_SZ \in Int
  BY Characters
<1>2. PICK j \in S : \A n \in S : j <= n
  <2>1. S \subseteq Nat /\ m \in S
    BY <1>1
  <2>. HIDE DEF S
  <2>. QED BY <2>1, Least
<1>3. j \in k .. m /\ j \in k .. BUF_SZ - 1 /\ CharAt(j) \notin C
  BY <1>1, <1>2
<1>4. \A i \in k .. j - 1 : CharAt(i) \in C
  <2>. SUFFICES ASSUME NEW i \in k .. j - 1, CharAt(i) \notin C PROVE FALSE
    OBVIOUS
  <2>1. i \in k .. m /\ i < j
    BY <1>1, <1>3
  <2>2. i \in S
    BY <2>1
  <2>. QED BY <1>2, <1>3, <2>1, <2>2
<1>5. Skip(C, k) = j
  BY <1>3, <1>4, SkipUnique
<1>. QED BY <1>3, <1>4, <1>5

LEMMA ReadSpells ==
  ASSUME Held, NEW p \in 0 .. line.i, read_int(p).ok
  PROVE  \E n \in Int, q \in p + 1 .. line.i :
           /\ SpellsNumber(typed, p, q, n)
           /\ read_int(p) = [ok |-> TRUE, int |-> Wrapped(n), next |-> q]
<1>. DEFINE b == Skip({Blank}, p)
            k == IF CharAt(b) = Minus THEN b + 1 ELSE b
            j == Skip(Digit, k)
            v == ValueOf(k, j)
<1>1. line.i \in 0 .. BUF_SZ - 1 /\ BUF_SZ \in Int /\ CharAt(line.i) = NUL
  BY Characters DEF Held, Lines
<1>2. NUL \notin {Blank} /\ NUL \notin Digit /\ NUL # Minus
  BY Characters
<1>3. /\ b \in p .. line.i /\ CharAt(b) \notin {Blank}
      /\ \A i \in p .. b - 1 : CharAt(i) \in {Blank}
  <2>1. p \in Nat /\ line.i \in p .. BUF_SZ - 1
    BY <1>1
  <2>. QED BY <1>1, <1>2, <2>1, SkipStops
<1>. HIDE DEF b
<1>4. k \in b .. line.i
  <2>1. CASE CharAt(b) = Minus
    <3>1. b # line.i
      BY <1>1, <1>2, <2>1
    <3>. QED BY <1>1, <1>3, <2>1, <3>1
  <2>. QED BY <1>1, <1>3, <2>1
<1>5. /\ j \in k .. line.i /\ \A i \in k .. j - 1 : CharAt(i) \in Digit
  <2>. HIDE DEF k
  <2>1. k \in Nat /\ line.i \in k .. BUF_SZ - 1
    BY <1>1, <1>3, <1>4
  <2>. QED BY <1>1, <1>2, <2>1, SkipStops
<1>6. read_int(p) = IF j = k THEN [ok |-> FALSE]
                    ELSE [ok |-> TRUE, int |-> IF k = b THEN v ELSE Wrapped(-v), next |-> j]
  BY Zenon DEF read_int, StartOfNumber, b
<1>7. j # k
  <2>. SUFFICES ASSUME j = k PROVE FALSE
    OBVIOUS
  <2>1. read_int(p) = [ok |-> FALSE]
    BY <1>6
  <2>. QED BY <2>1
<1>8. \A i \in p .. j - 1 : CharAt(i) = typed[i + 1]
  BY <1>1, <1>3, <1>4, <1>5 DEF Held
<1>9. Decimal(typed, k, j) \in Int /\ v = Wrapped(Decimal(typed, k, j))
  <2>. HIDE DEF j, k
  <2>1. \A i \in k .. j - 1 : CharAt(i) \in Digit /\ typed[i + 1] = CharAt(i)
    BY <1>1, <1>3, <1>4, <1>5, <1>8
  <2>2. k \in Int /\ j \in Int /\ k <= j
    BY <1>1, <1>3, <1>4, <1>5
  <2>. QED BY <2>1, <2>2, ValueOfDecimal
<1>. DEFINE D == Decimal(typed, k, j)
            n == IF k = b THEN D ELSE -D
<1>10. (IF k = b THEN v ELSE Wrapped(-v)) = Wrapped(n) /\ n \in Int
  <2>. HIDE DEF v, k, D
  <2>1. D \in Int /\ v = Wrapped(D)
    BY <1>9 DEF D
  <2>. QED BY <2>1, WrappedNegated
<1>11. SpellsNumber(typed, p, j, n)
  <2>1. b \in p .. j /\ k \in p .. j /\ k < j
    BY <1>1, <1>3, <1>4, <1>5, <1>7
  <2>2. Blanks(typed, p, b)
    <3>. SUFFICES ASSUME NEW i \in p + 1 .. b PROVE typed[i] = Blank
      BY DEF Blanks
    <3>. HIDE DEF k, j
    <3>1. i - 1 \in p .. b - 1 /\ i - 1 \in p .. j - 1 /\ (i - 1) + 1 = i
      BY <1>1, <1>3, <1>4, <1>5, <2>1
    <3>. QED BY <1>3, <1>8, <3>1
  <2>3. ASSUME NEW i \in k + 1 .. j
        PROVE  typed[i] \in Digit
    <3>. HIDE DEF k, j
    <3>1. i - 1 \in k .. j - 1 /\ i - 1 \in p .. j - 1 /\ (i - 1) + 1 = i
      BY <1>1, <1>3, <1>4, <1>5, <2>1
    <3>. QED BY <1>5, <1>8, <3>1
  <2>4. CASE k = b
    BY <2>1, <2>2, <2>3, <2>4 DEF SpellsNumber
  <2>5. CASE k # b
    <3>1. k = b + 1 /\ CharAt(b) = Minus
      BY <2>5
    <3>2. typed[b + 1] = Minus
      <4>. HIDE DEF k, j
      <4>1. b \in p .. j - 1
        BY <1>1, <1>3, <1>4, <1>5, <2>1, <3>1
      <4>. QED BY <1>8, <3>1, <4>1
    <3>. HIDE DEF k, j
    <3>. QED BY <2>1, <2>2, <2>3, <2>5, <3>1, <3>2 DEF SpellsNumber
  <2>. QED BY <2>4, <2>5
<1>12. j \in p + 1 .. line.i
  <2>. HIDE DEF k, j
  <2>. QED BY <1>1, <1>3, <1>4, <1>5, <1>7
<1>. QED BY <1>6, <1>7, <1>10, <1>11, <1>12

LEMMA SpelledReads ==
  ASSUME Held, NEW p \in 0 .. line.i, NEW q \in p .. line.i, NEW n \in Int,
         SpellsNumber(typed, p, q, n), CharAt(q) \notin Digit
  PROVE  p < q /\ read_int(p) = [ok |-> TRUE, int |-> Wrapped(n), next |-> q]
<1>1. line.i \in 0 .. BUF_SZ - 1 /\ BUF_SZ \in Int
  BY Characters DEF Held, Lines
<1>2. \A i \in p .. q - 1 : CharAt(i) = typed[i + 1]
  BY <1>1 DEF Held
<1>3. PICK a \in p .. q, b \in p .. q :
        /\ Blanks(typed, p, a)
        /\ b < q /\ \A i \in b + 1 .. q : typed[i] \in Digit
        /\ \/ b = a /\ n = Decimal(typed, b, q)
           \/ b = a + 1 /\ typed[b] = Minus /\ n = -Decimal(typed, b, q)
  BY Zenon DEF SpellsNumber
<1>4. a < q /\ b < q /\ CharAt(a) = typed[a + 1]
  BY <1>1, <1>2, <1>3
<1>5. \A i \in b .. q - 1 : CharAt(i) \in Digit /\ typed[i + 1] = CharAt(i)
  <2>. SUFFICES ASSUME NEW i \in b .. q - 1
                PROVE  CharAt(i) \in Digit /\ typed[i + 1] = CharAt(i)
    OBVIOUS
  <2>1. i \in p .. q - 1 /\ i + 1 \in b + 1 .. q
    BY <1>1, <1>3
  <2>. QED BY <1>2, <1>3, <2>1
<1>6. \/ b = a /\ CharAt(a) \in Digit /\ n = Decimal(typed, b, q)
      \/ b = a + 1 /\ CharAt(a) = Minus /\ n = -Decimal(typed, b, q)
  <2>1. CASE b = a /\ n = Decimal(typed, b, q)
    <3>1. a \in b .. q - 1
      BY <1>1, <1>3, <2>1
    <3>. QED BY <1>5, <2>1, <3>1
  <2>2. CASE b = a + 1 /\ typed[b] = Minus /\ n = -Decimal(typed, b, q)
    BY <1>4, <2>2
  <2>. QED BY <1>3, <2>1, <2>2
<1>7. CharAt(a) # Blank /\ (CharAt(a) = Minus <=> b # a)
  <2>1. Minus # Blank /\ Minus \notin Digit
    BY Characters
  <2>2. CASE b = a
    BY <1>6, <2>1, <2>2, Characters
  <2>3. CASE b = a + 1
    BY <1>3, <1>6, <2>1, <2>3
  <2>. QED BY <1>3, <2>2, <2>3
<1>8. StartOfNumber(p) = a
  <2>1. \A i \in p .. a - 1 : CharAt(i) \in {Blank}
    <3>. SUFFICES ASSUME NEW i \in p .. a - 1 PROVE CharAt(i) \in {Blank}
      OBVIOUS
    <3>1. i + 1 \in p + 1 .. a /\ i \in p .. q - 1
      BY <1>1, <1>3
    <3>. QED BY <1>2, <1>3, <3>1 DEF Blanks
  <2>2. a \in p .. BUF_SZ - 1 /\ CharAt(a) \notin {Blank} /\ p \in Int
    BY <1>1, <1>3, <1>7
  <2>. QED BY <2>1, <2>2, SkipUnique DEF StartOfNumber
<1>9. (IF CharAt(a) = Minus THEN a + 1 ELSE a) = b
  BY <1>3, <1>7
<1>10. Skip(Digit, b) = q
  <2>1. q \in b .. BUF_SZ - 1 /\ b \in Int
    BY <1>1, <1>3
  <2>. QED BY <1>5, <2>1, SkipUnique
<1>11. Decimal(typed, b, q) \in Int /\ ValueOf(b, q) = Wrapped(Decimal(typed, b, q))
  <2>1. b \in Int /\ q \in Int /\ b <= q
    BY <1>1, <1>3
  <2>. QED BY <1>5, <2>1, ValueOfDecimal
<1>12. (IF b = a THEN ValueOf(b, q) ELSE Wrapped(-ValueOf(b, q))) = Wrapped(n)
  <2>1. CASE b = a
    BY <1>3, <1>6, <1>11, <2>1
  <2>2. CASE b # a
    BY <1>6, <1>11, <2>2, WrappedNegated
  <2>. QED BY <2>1, <2>2
<1>13. read_int(p) = IF q = b THEN [ok |-> FALSE]
                     ELSE [ok |-> TRUE, int |-> IF b = a THEN ValueOf(b, q)
                                                ELSE Wrapped(-ValueOf(b, q)), next |-> q]
  BY <1>8, <1>9, <1>10, Zenon DEF read_int
<1>14. q # b /\ p < q
  BY <1>1, <1>3
<1>. QED BY <1>12, <1>13, <1>14

-----------------------------------------------------------------------------
(* The value of an expression.                                             *)

LEMMA Quotients ==
  ASSUME NEW a \in Int, NEW b \in Int \ {0}
  PROVE  Div!TruncatedQuotient(a, b) \in Int
<1>. DEFINE m == Div!Magnitude(a)
            n == Div!Magnitude(b)
<1>1. m \in Nat /\ n \in Nat \ {0}
  BY DEF Div!Magnitude
<1>. HIDE DEF m, n
<1>2. m \div n \in Int
  BY <1>1, Remainder
<1>. QED BY <1>2 DEF Div!TruncatedQuotient, m, n

LEMMA Int32s == Div!Ints(Int32Format) \subseteq Int /\ 0 \in Div!Ints(Int32Format)
BY IntsAre, Formats

LEMMA AppliedSound ==
  ASSUME NEW op \in Operator, NEW a \in Div!Ints(Int32Format), NEW b \in Div!Ints(Int32Format)
  PROVE  Applied(op, a, b) \in Div!Ints(Int32Format)
<1>1. a \in Int /\ b \in Int
  BY Int32s
<1>2. a + b \in Int /\ a - b \in Int /\ a * b \in Int
  BY <1>1
<1>3. b # 0 => Div!TruncatedQuotient(a, b) \in Int
  BY <1>1, Quotients
<1>4. \/ Applied(op, a, b) = Wrapped(a + b)
      \/ Applied(op, a, b) = Wrapped(a - b)
      \/ Applied(op, a, b) = Wrapped(a * b)
      \/ b = 0 /\ Applied(op, a, b) = a
      \/ b # 0 /\ Applied(op, a, b) = Wrapped(Div!TruncatedQuotient(a, b))
  BY OperatorsDiffer DEF Applied, Operator
<1>. QED BY <1>2, <1>3, <1>4, WrappedInt

WorthStep(e, w, k) ==
  IF k = 0 THEN Wrapped(e.first)
  ELSE Applied(e.rest[k].op, w[k - 1], Wrapped(e.rest[k].int))

IsWorth(e, w) == w = [k \in 0 .. Len(e.rest) |-> WorthStep(e, w, k)]

LEMMA RestIs ==
  ASSUME NEW e \in Expression
  PROVE  /\ Len(e.rest) \in Nat /\ DOMAIN e.rest = 1 .. Len(e.rest)
         /\ e.text \in Seq(Printable) /\ e.first \in Int
         /\ \A k \in 1 .. Len(e.rest) :
              /\ e.rest[k].op \in Operator /\ e.rest[k].int \in Int
              /\ Wrapped(e.rest[k].int) \in Div!Ints(Int32Format)
<1>. DEFINE r == e.rest
            X == [op : Operator, int : Int]
<1>1. e.text \in Seq(Printable) /\ e.first \in Int /\ r \in Seq(X)
  BY DEF Expression
<1>2. Len(r) \in Nat /\ DOMAIN r = 1 .. Len(r) /\ \A k \in 1 .. Len(r) : r[k] \in X
  <2>. HIDE DEF r, X
  <2>. QED BY <1>1
<1>3. ASSUME NEW k \in 1 .. Len(r)
      PROVE  r[k].op \in Operator /\ r[k].int \in Int /\ Wrapped(r[k].int) \in Div!Ints(Int32Format)
  <2>1. r[k] \in X
    BY <1>2
  <2>2. r[k].op \in Operator /\ r[k].int \in Int
    BY <2>1
  <2>. QED BY <2>2, WrappedInt
<1>. HIDE DEF r
<1>4. \A k \in 1 .. Len(r) :
        r[k].op \in Operator /\ r[k].int \in Int /\ Wrapped(r[k].int) \in Div!Ints(Int32Format)
  BY <1>3
<1>. QED BY <1>1, <1>2, <1>4, Zenon DEF r

LEMMA TermIs ==
  ASSUME NEW e \in Expression, NEW k \in 1 .. Len(e.rest)
  PROVE  e.rest[k] \in [op : Operator, int : Int] /\ e.rest[k].op \in Operator
<1>. DEFINE r == e.rest
            X == [op : Operator, int : Int]
<1>1. r \in Seq(X)
  BY DEF Expression
<1>2. r[k] \in X
  <2>. HIDE DEF r, X
  <2>. QED BY <1>1 DEF r
<1>. QED BY <1>2, RestIs

LEMMA WorthIs ==
  ASSUME NEW e \in Expression
  PROVE  /\ Worth(e)[0] = Wrapped(e.first)
         /\ \A k \in 1 .. Len(e.rest) :
              Worth(e)[k] = Applied(e.rest[k].op, Worth(e)[k - 1], Wrapped(e.rest[k].int))
         /\ \A k \in 0 .. Len(e.rest) : Worth(e)[k] \in Div!Ints(Int32Format)
<1>. DEFINE n == Len(e.rest)
            I == Div!Ints(Int32Format)
            F == [k \in 1 .. n |-> [x \in I |-> Applied(e.rest[k].op, x, Wrapped(e.rest[k].int))]]
<1>1. n \in Nat /\ Wrapped(e.first) \in I
  BY RestIs, WrappedInt
<1>2. F \in [0 + 1 .. n -> [I -> I]]
  <2>1. ASSUME NEW k \in 1 .. n, NEW x \in I
        PROVE  Applied(e.rest[k].op, x, Wrapped(e.rest[k].int)) \in I
    BY RestIs, AppliedSound
  <2>2. 0 + 1 = 1
    OBVIOUS
  <2>. HIDE DEF n, I
  <2>. QED BY <2>1, <2>2
<1>3. PICK g \in [0 .. n -> I] : Along(g, 0, n, Wrapped(e.first), F)
  <2>. HIDE DEF F, n, I
  <2>1. 0 \in Int /\ n \in Int /\ 0 <= n
    BY <1>1
  <2>. QED BY <1>1, <1>2, <2>1, AlongExists, Zenon
<1>4. \A k \in 0 .. n : g[k] = WorthStep(e, g, k)
  <2>1. g[0] = Wrapped(e.first)
    BY <1>3 DEF Along
  <2>2. ASSUME NEW k \in 1 .. n
        PROVE  g[k] = Applied(e.rest[k].op, g[k - 1], Wrapped(e.rest[k].int))
    <3>1. g[k - 1] \in I
      <4>1. k - 1 \in 0 .. n
        BY <1>1
      <4>. HIDE DEF n, I
      <4>. QED BY <1>3, <4>1
    <3>2. g[k] = F[k][g[k - 1]]
      <4>1. k \in 0 + 1 .. n
        OBVIOUS
      <4>. HIDE DEF n, I, F
      <4>. QED BY <1>3, <4>1 DEF Along
    <3>. HIDE DEF n, I
    <3>. QED BY <3>1, <3>2
  <2>3. \A k \in 0 .. n : k = 0 \/ (k \in 1 .. n /\ k # 0)
    BY <1>1
  <2>. HIDE DEF n
  <2>. QED BY <2>1, <2>2, <2>3 DEF WorthStep
<1>5. IsWorth(e, g)
  <2>1. g = [k \in 0 .. n |-> g[k]]
    <3>. HIDE DEF n, I
    <3>. QED BY <1>3
  <2>2. [k \in 0 .. n |-> g[k]] = [k \in 0 .. n |-> WorthStep(e, g, k)]
    <3>. HIDE DEF n
    <3>. QED BY <1>4
  <2>. QED BY <2>1, <2>2, Zenon DEF IsWorth
<1>. DEFINE w == CHOOSE h : IsWorth(e, h)
<1>6. IsWorth(e, w)
  BY <1>5
<1>7. Worth(e) = w
  BY Zenon DEF Worth, IsWorth, WorthStep
<1>. HIDE DEF w
<1>8. \A k \in 0 .. n : w[k] = WorthStep(e, w, k)
  BY <1>6, Zenon DEF IsWorth
<1>9. /\ w[0] = Wrapped(e.first)
      /\ \A k \in 1 .. n : w[k] = Applied(e.rest[k].op, w[k - 1], Wrapped(e.rest[k].int))
  <2>. HIDE DEF n
  <2>. QED BY <1>1, <1>8 DEF WorthStep
<1>10. \A k \in 0 .. n : w[k] \in I
  <2>. DEFINE R == {k \in Int : w[k] \in I}
  <2>1. 0 \in R
    BY <1>1, <1>9
  <2>2. ASSUME NEW k \in 1 .. n, k - 1 \in R
        PROVE  k \in R
    <3>1. w[k - 1] \in I
      BY <2>2
    <3>2. w[k] \in I
      BY <1>9, <3>1, RestIs, AppliedSound
    <3>. QED BY <3>2
  <2>3. \A k \in 0 .. n : k \in R
    <3>. HIDE DEF R, n
    <3>. QED BY <1>1, <2>1, <2>2, UpTo
  <2>. QED BY <2>3
<1>. QED BY <1>7, <1>9, <1>10

-----------------------------------------------------------------------------
(* One step of the evaluation.                                             *)

\* Behind a place in the line stands, after blanks, an operator or the end.
LEMMA OperatorFound ==
  ASSUME Held, s \in 0 .. line.i
  PROVE  /\ OpAt \in s .. line.i
         /\ \A i \in s .. OpAt - 1 : CharAt(i) = Blank
         /\ Op # Blank
         /\ Op = NUL <=> OpAt = line.i
<1>1. line.i \in 0 .. BUF_SZ - 1 /\ BUF_SZ \in Int /\ CharAt(line.i) = NUL
  BY Characters DEF Held, Lines
<1>2. /\ OpAt \in s .. line.i /\ CharAt(OpAt) \notin {Blank}
      /\ \A i \in s .. OpAt - 1 : CharAt(i) \in {Blank}
  <2>1. s \in Nat /\ line.i \in s .. BUF_SZ - 1 /\ CharAt(line.i) \notin {Blank}
    BY <1>1, Characters
  <2>. QED BY <2>1, SkipStops DEF OpAt
<1>3. OpAt # line.i => Op # NUL
  <2>. SUFFICES ASSUME OpAt # line.i PROVE Op # NUL
    OBVIOUS
  <2>1. OpAt \in 0 .. line.i - 1
    BY <1>1, <1>2
  <2>2. Op = typed[OpAt + 1] /\ OpAt + 1 \in 1 .. Len(typed) /\ typed \in Seq(Printable)
    BY <2>1 DEF Held, Op
  <2>. QED BY <2>2, LineInputAssumption
<1>. QED BY <1>1, <1>2, <1>3 DEF Op

\* What is read there is a term.
LEMMA TermRead ==
  ASSUME Held, s \in 0 .. line.i, Op # NUL, Rhs.ok
  PROVE  \E n \in Int, q \in s + 1 .. line.i :
           /\ SpellsTerm(typed, s, q, [op |-> Op, int |-> n])
           /\ Rhs.int = Wrapped(n) /\ Behind(Rhs) = q
<1>1. /\ OpAt \in s .. line.i - 1 /\ \A i \in s .. OpAt - 1 : CharAt(i) = Blank
      /\ line.i \in Nat
  BY OperatorFound DEF Held, Lines
<1>2. OpAt + 1 \in 0 .. line.i
  BY <1>1
<1>3. PICK n \in Int, q \in (OpAt + 1) + 1 .. line.i :
        /\ SpellsNumber(typed, OpAt + 1, q, n)
        /\ Rhs = [ok |-> TRUE, int |-> Wrapped(n), next |-> q]
  BY <1>2, ReadSpells DEF Rhs
<1>4. Blanks(typed, s, OpAt)
  <2>. SUFFICES ASSUME NEW i \in s + 1 .. OpAt PROVE typed[i] = Blank
    BY DEF Blanks
  <2>1. i - 1 \in s .. OpAt - 1 /\ i - 1 \in 0 .. line.i - 1 /\ (i - 1) + 1 = i
    BY <1>1
  <2>. QED BY <1>1, <2>1 DEF Held
<1>5. typed[OpAt + 1] = Op
  <2>1. OpAt \in 0 .. line.i - 1
    BY <1>1
  <2>. QED BY <2>1 DEF Held, Op
<1>6. SpellsTerm(typed, s, q, [op |-> Op, int |-> n])
  <2>1. OpAt + 1 \in s + 1 .. q /\ (OpAt + 1) - 1 = OpAt
    BY <1>1
  <2>. QED BY <1>3, <1>4, <1>5, <2>1 DEF SpellsTerm
<1>7. q \in s + 1 .. line.i
  BY <1>1
<1>. QED BY <1>3, <1>6, <1>7 DEF Behind

\* And a term that stands there is read.
LEMMA TermStands ==
  ASSUME Held, s \in 0 .. line.i, NEW q \in s .. line.i,
         NEW x \in [op : Operator, int : Int], SpellsTerm(typed, s, q, x),
         CharAt(q) \notin Digit
  PROVE  /\ s < q /\ Op = x.op /\ Op # NUL
         /\ Rhs.ok /\ Rhs.int = Wrapped(x.int) /\ Behind(Rhs) = q
<1>1. PICK o \in s + 1 .. q :
        Blanks(typed, s, o - 1) /\ typed[o] = x.op /\ SpellsNumber(typed, o, q, x.int)
  BY Zenon DEF SpellsTerm
<1>2. line.i \in 0 .. BUF_SZ - 1 /\ BUF_SZ \in Int
  BY Characters DEF Held, Lines
<1>3. CharAt(o - 1) = x.op
  <2>1. o - 1 \in 0 .. line.i - 1 /\ (o - 1) + 1 = o
    BY <1>2
  <2>. QED BY <1>1, <2>1 DEF Held
<1>4. x.op \in Operator /\ x.int \in Int
  OBVIOUS
<1>5. OpAt = o - 1
  <2>1. \A i \in s .. (o - 1) - 1 : CharAt(i) \in {Blank}
    <3>. SUFFICES ASSUME NEW i \in s .. (o - 1) - 1 PROVE CharAt(i) = Blank
      OBVIOUS
    <3>1. i + 1 \in s + 1 .. o - 1 /\ i \in 0 .. line.i - 1
      BY <1>2
    <3>. QED BY <1>1, <3>1 DEF Held, Blanks
  <2>2. s \in Int /\ o - 1 \in s .. BUF_SZ - 1
    BY <1>2
  <2>3. CharAt(o - 1) \notin {Blank}
    BY <1>3, <1>4, Characters
  <2>. QED BY <2>1, <2>2, <2>3, SkipUnique DEF OpAt
<1>6. Op = x.op /\ Op # NUL
  BY <1>3, <1>4, <1>5, Characters DEF Op
<1>7. Rhs = read_int(o)
  <2>1. OpAt + 1 = o
    BY <1>2, <1>5
  <2>. QED BY <2>1 DEF Rhs
<1>8. read_int(o) = [ok |-> TRUE, int |-> Wrapped(x.int), next |-> q]
  <2>1. o \in 0 .. line.i /\ q \in o .. line.i
    BY <1>2
  <2>. QED BY <1>1, <1>4, <2>1, SpelledReads
<1>. QED BY <1>6, <1>7, <1>8 DEF Behind

-----------------------------------------------------------------------------
(* The invariant under the types: the array holds what was typed, the      *)
(* pointer does not pass its end, the division is under way only when the  *)
(* evaluation waits for it, and only verdicts have been printed.           *)

ZeroReport == Message("divide by zero")
Bad == Message("invalid expression")

LineSound ==
  /\ line \in Lines /\ typed \in Seq(Printable) /\ line.i = Len(typed)
  /\ \A k \in 0 .. line.i - 1 : CharAt(k) = typed[k + 1]
  /\ phase # "read" => CharAt(line.i) = NUL

EvalSound ==
  /\ phase \in {"read", "first", "next", "divide", "failed", "printed", "done"}
  /\ s \in 0 .. line.i /\ acc \in Div!Ints(Int32Format)
  /\ phase \in {"read", "first", "done"} => s = 0

DivideSound ==
  /\ DivisionSound
  /\ phase # "divide" => dphase = "idle"
  /\ phase = "divide" => dphase # "idle" /\ call.fn = "div"

OutSound ==
  /\ phase \in {"read", "first", "next", "divide", "done"} => out = <<>>
  /\ phase = "failed" => out \in {<<>>, <<ZeroReport>>}
  /\ phase = "printed" =>
       \/ \E n \in Div!Ints(Int32Format) : out = <<itoa(n)>>
       \/ out = <<Bad>> \/ out = <<ZeroReport, Bad>>

Sound == LineSound /\ EvalSound /\ DivideSound /\ OutSound

LEMMA SoundTypes == Sound => TypeOK
<1>. SUFFICES ASSUME Sound PROVE TypeOK
  OBVIOUS
<1>1. Div!TypeOK
  BY DivisionTypes DEF Sound, DivideSound
<1>2. s \in 0 .. BUF_SZ - 1
  BY Characters DEF Sound, EvalSound, LineSound, Lines
<1>3. Len(out) <= 2
  <2>1. \/ out = <<>> \/ out = <<ZeroReport>> \/ out = <<Bad>> \/ out = <<ZeroReport, Bad>>
        \/ \E n : out = <<itoa(n)>>
    BY DEF Sound, OutSound, EvalSound
  <2>. QED BY <2>1
<1>. QED BY <1>1, <1>2, <1>3, Zenon DEF Sound, EvalSound, LineSound, TypeOK

LEMMA SoundHeld ==
  ASSUME Sound, phase # "read"
  PROVE  Held
BY DEF Sound, LineSound, Held

LEMMA LineKept ==
  ASSUME Sound, phase # "read", UNCHANGED <<line, typed>>
  PROVE  LineSound'
BY DEF Sound, LineSound, CharAt

\* A step that leaves the division and the output alone.
LEMMA RestSound ==
  ASSUME Sound, UNCHANGED <<out, division>>, LineSound', EvalSound',
         phase \in {"read", "first", "next"},
         phase' \in {"read", "first", "next", "failed", "done"}
  PROVE  Sound'
<1>1. DivisionSound' /\ dphase' = dphase /\ dphase = "idle"
  BY DivisionRests DEF Sound, DivideSound, division
<1>2. DivideSound'
  BY <1>1 DEF DivideSound
<1>3. OutSound'
  BY DEF Sound, OutSound
<1>. QED BY <1>2, <1>3 DEF Sound

LEMMA InitSound == Init => Sound
<1>. SUFFICES ASSUME Init PROVE Sound
  OBVIOUS
<1>. USE LineInputAssumption
<1>1. /\ phase = "read" /\ line = At(Zeroed, 0) /\ typed = <<>> /\ s = 0 /\ acc = 0
      /\ out = <<>> /\ Div!Init
  BY Zenon DEF Init
<1>2. line \in Lines /\ line.i = 0
  <2>1. Zeroed \in Buffer
    BY DEF Zeroed, Buffer
  <2>. QED BY <1>1, <2>1 DEF Lines, At
<1>3. LineSound
  BY <1>1, <1>2 DEF LineSound
<1>4. EvalSound
  BY <1>1, <1>2, Int32s DEF EvalSound
<1>5. DivideSound
  <2>1. dphase = "idle"
    BY <1>1 DEF Div!Init
  <2>. QED BY <1>1, <2>1, DivisionInit DEF DivideSound
<1>6. OutSound
  BY <1>1 DEF OutSound
<1>. QED BY <1>3, <1>4, <1>5, <1>6 DEF Sound

LEMMA CharacterSound ==
  ASSUME Sound, NEW c \in Printable, Character(c)
  PROVE  Sound'
<1>. USE LineInputAssumption
<1>1. /\ phase = "read" /\ phase' = "read" /\ UNCHANGED <<s, acc, out, division>>
      /\ line.buf \in Buffer /\ line.i \in 0 .. BUF_SZ - 1
      /\ line.i = Len(typed) /\ typed \in Seq(Printable) /\ s = 0
      /\ \A k \in 0 .. line.i - 1 : line.buf[k] = typed[k + 1]
  BY DEF Sound, LineSound, EvalSound, Character, Lines, CharAt
<1>2. CASE line.i < BUF_SZ - 1
  <2>1. /\ line' = At([line.buf EXCEPT ![line.i] = c], line.i + 1)
        /\ typed' = Append(typed, c)
    BY <1>1, <1>2 DEF Character, Insert
  <2>2. /\ line'.buf = [line.buf EXCEPT ![line.i] = c]
        /\ line'.i = line.i + 1
        /\ line' \in Lines
    BY <1>1, <1>2, <2>1 DEF At, Lines, Buffer
  <2>3. typed' \in Seq(Printable) /\ Len(typed') = line.i + 1
    BY <1>1, <2>1
  <2>4. \A k \in 0 .. line.i : line'.buf[k] = typed'[k + 1]
    BY <1>1, <2>1, <2>2 DEF Buffer
  <2>5. LineSound'
    BY <1>1, <2>2, <2>3, <2>4 DEF LineSound, CharAt
  <2>6. EvalSound'
    BY <1>1, <2>2 DEF Sound, EvalSound
  <2>. QED BY <1>1, <2>5, <2>6, RestSound
<1>3. CASE ~ (line.i < BUF_SZ - 1)
  <2>1. line' = line /\ typed' = typed
    BY <1>1, <1>3 DEF Character, Insert
  <2>2. LineSound' /\ EvalSound'
    BY <1>1, <2>1 DEF Sound, LineSound, EvalSound, CharAt
  <2>. QED BY <1>1, <2>2, RestSound
<1>. QED BY <1>2, <1>3

LEMMA BackspaceSound ==
  ASSUME Sound, Backspace
  PROVE  Sound'
<1>. USE LineInputAssumption
<1>1. /\ phase = "read" /\ phase' = "read" /\ UNCHANGED <<s, acc, out, division>>
      /\ line.buf \in Buffer /\ line.i \in 0 .. BUF_SZ - 1
      /\ line.i = Len(typed) /\ typed \in Seq(Printable) /\ s = 0
      /\ \A k \in 0 .. line.i - 1 : line.buf[k] = typed[k + 1]
  BY DEF Sound, LineSound, EvalSound, Backspace, Lines, CharAt
<1>2. CASE line.i > 0
  <2>. DEFINE n == line.i - 1
  <2>1. line' = At(line.buf, n) /\ n \in 0 .. Len(typed) - 1
    BY <1>1, <1>2 DEF Backspace, Erase
  <2>2. line'.buf = line.buf /\ line'.i = n /\ line' \in Lines
    BY <1>1, <1>2, <2>1 DEF At, Lines
  <2>3. typed' = SubSeq(typed, 1, n)
    BY <1>1, <1>2 DEF Backspace
  <2>4. /\ typed' \in Seq(Printable) /\ Len(typed') = n
        /\ \A k \in 1 .. n : typed'[k] = typed[k]
    <3>. HIDE DEF n
    <3>1. Len(SubSeq(typed, 1, n)) = n /\ SubSeq(typed, 1, n) \in Seq(Printable)
      BY <1>1, <2>1
    <3>2. \A k \in 1 .. n : SubSeq(typed, 1, n)[k] = typed[k]
      BY <1>1, <2>1
    <3>. QED BY <2>3, <3>1, <3>2
  <2>5. ASSUME NEW k \in 0 .. n - 1
        PROVE  line'.buf[k] = typed'[k + 1]
    <3>1. k + 1 \in 1 .. n /\ k \in 0 .. line.i - 1
      BY <1>1
    <3>. QED BY <1>1, <2>2, <2>4, <3>1
  <2>6. LineSound'
    <3>. HIDE DEF n
    <3>. QED BY <1>1, <2>2, <2>4, <2>5 DEF LineSound, CharAt
  <2>7. EvalSound'
    BY <1>1, <2>1, <2>2 DEF Sound, EvalSound
  <2>. QED BY <1>1, <2>6, <2>7, RestSound
<1>3. CASE ~ (line.i > 0)
  <2>1. line' = line /\ typed = <<>>
    BY <1>1, <1>3 DEF Backspace, Erase
  <2>2. typed' = typed
    BY <2>1 DEF Backspace
  <2>3. LineSound' /\ EvalSound'
    BY <1>1, <2>1, <2>2 DEF Sound, LineSound, EvalSound, CharAt
  <2>. QED BY <1>1, <2>3, RestSound
<1>. QED BY <1>2, <1>3

LEMMA EnterSound ==
  ASSUME Sound, Enter
  PROVE  Sound'
<1>. USE LineInputAssumption
<1>1. /\ phase = "read" /\ phase' \in {"first", "done"} /\ UNCHANGED <<typed, s, acc, out, division>>
      /\ line.buf \in Buffer /\ line.i \in 0 .. BUF_SZ - 1 /\ s = 0
      /\ line' = Terminate(line)
      /\ \A k \in 0 .. line.i - 1 : line.buf[k] = typed[k + 1]
  BY DEF Sound, LineSound, EvalSound, Enter, Lines, CharAt
<1>2. /\ line'.buf = [line.buf EXCEPT ![line.i] = NUL] /\ line'.i = line.i
      /\ line' \in Lines
  BY <1>1 DEF Terminate, At, Lines, Buffer
<1>3. /\ line'.buf[line.i] = NUL
      /\ \A k \in 0 .. line.i - 1 : line'.buf[k] = typed[k + 1]
  BY <1>1, <1>2 DEF Buffer
<1>4. LineSound'
  BY <1>1, <1>2, <1>3 DEF Sound, LineSound, CharAt
<1>5. EvalSound'
  BY <1>1, <1>2 DEF Sound, EvalSound
<1>. QED BY <1>1, <1>4, <1>5, RestSound

\* What First, Apply and Divide read.
LEMMA FirstReads ==
  ASSUME Sound, First
  PROVE  /\ phase = "first" /\ UNCHANGED <<line, typed, out, division>>
         /\ \/ phase' = "failed" /\ UNCHANGED <<acc, s>> /\ ~read_int(0).ok
            \/ /\ phase' = "next" /\ read_int(0).ok
               /\ \E n \in Int, q \in 1 .. line.i :
                    /\ SpellsNumber(typed, 0, q, n)
                    /\ acc' = Wrapped(n) /\ s' = q
<1>1. phase = "first" /\ UNCHANGED <<line, typed, out, division>> /\ s = 0
  BY DEF First, Sound, EvalSound
<1>2. Held /\ line.i \in Nat
  BY <1>1, SoundHeld DEF Held, Lines
<1>3. CASE read_int(0).ok
  <2>1. PICK n \in Int, q \in 0 + 1 .. line.i :
          /\ SpellsNumber(typed, 0, q, n)
          /\ read_int(0) = [ok |-> TRUE, int |-> Wrapped(n), next |-> q]
    <3>1. 0 \in 0 .. line.i
      BY <1>2
    <3>. QED BY <1>2, <1>3, <3>1, ReadSpells
  <2>2. acc' = read_int(0).int /\ s' = read_int(0).next /\ phase' = "next"
    BY <1>1, <1>3, Zenon DEF First, Behind
  <2>. QED BY <1>1, <1>3, <2>1, <2>2
<1>4. CASE ~read_int(0).ok
  <2>1. phase' = "failed" /\ UNCHANGED <<acc, s>>
    BY <1>1, <1>4, Zenon DEF First, Behind
  <2>. QED BY <1>1, <1>4, <2>1
<1>. QED BY <1>3, <1>4

LEMMA NextHeld ==
  ASSUME Sound, phase = "next"
  PROVE  Held /\ s \in 0 .. line.i /\ line.i \in Nat /\ out = <<>> /\ acc \in Div!Ints(Int32Format)
BY SoundHeld DEF Sound, EvalSound, OutSound, Held, Lines

LEMMA EvalKept ==
  ASSUME Sound, phase # "read", UNCHANGED <<line, typed>>,
         acc' \in Div!Ints(Int32Format), s' \in s .. line.i,
         phase' \in {"next", "divide", "failed", "printed"}
  PROVE  LineSound' /\ EvalSound'
<1>1. LineSound'
  BY LineKept
<1>2. line.i \in Nat /\ line' = line /\ s \in 0 .. line.i
  BY DEF Sound, LineSound, EvalSound, Lines
<1>3. EvalSound'
  BY <1>2 DEF EvalSound
<1>. QED BY <1>1, <1>3

LEMMA FirstSound ==
  ASSUME Sound, First
  PROVE  Sound'
<1>1. /\ phase = "first" /\ UNCHANGED <<line, typed, out, division>>
      /\ s = 0 /\ acc \in Div!Ints(Int32Format) /\ line.i \in Nat
  BY FirstReads DEF Sound, EvalSound, LineSound, Lines
<1>2. /\ phase' \in {"next", "failed"} /\ s' \in s .. line.i
      /\ acc' \in Div!Ints(Int32Format)
  <2>1. CASE phase' = "failed" /\ UNCHANGED <<acc, s>>
    BY <1>1, <2>1
  <2>2. CASE phase' = "next" /\ \E n \in Int, q \in 1 .. line.i : acc' = Wrapped(n) /\ s' = q
    BY <1>1, <2>2, WrappedInt
  <2>. QED BY <2>1, <2>2, FirstReads
<1>3. LineSound' /\ EvalSound'
  BY <1>1, <1>2, EvalKept
<1>. QED BY <1>1, <1>2, <1>3, RestSound

LEMMA ComputeApplies ==
  ASSUME NEW op \in Operator \ {Slash}, NEW a, NEW b
  PROVE  Compute(op, a, b) = Applied(op, a, b)
BY OperatorsDiffer DEF Compute, Applied, Operator

LEMMA ApplySound ==
  ASSUME Sound, Apply
  PROVE  Sound'
<1>1. /\ phase = "next" /\ phase' = "next" /\ Op # NUL /\ Rhs.ok /\ Op \in Operator \ {Slash}
      /\ acc' = Compute(Op, acc, Rhs.int) /\ s' = Behind(Rhs)
      /\ UNCHANGED <<line, typed, out, division>>
  BY Zenon DEF Apply, AtOperator
<1>2. PICK n \in Int, q \in s + 1 .. line.i : Rhs.int = Wrapped(n) /\ Behind(Rhs) = q
  BY <1>1, NextHeld, TermRead
<1>3. acc' \in Div!Ints(Int32Format)
  BY <1>1, <1>2, NextHeld, WrappedInt, ComputeApplies, AppliedSound
<1>4. s' \in s .. line.i
  BY <1>1, <1>2, NextHeld
<1>5. LineSound' /\ EvalSound'
  BY <1>1, <1>3, <1>4, EvalKept
<1>. QED BY <1>1, <1>5, RestSound

DivideCall == [format |-> Int32Format, fn |-> "div", a |-> acc, b |-> Rhs.int]

LEMMA IsCall ==
  ASSUME NEW a \in Div!Ints(Int32Format), NEW b \in Div!Ints(Int32Format)
  PROVE  [format |-> Int32Format, fn |-> "div", a |-> a, b |-> b] \in Div!Call
<1>1. [format |-> Int32Format, fn |-> "div", a |-> a, b |-> b] \in Div!SignedCall(Int32Format)
  BY DEF Div!SignedCall
<1>. QED BY <1>1 DEF Div!Call

LEMMA DivideSteps ==
  ASSUME Sound, Divide
  PROVE  /\ phase = "next" /\ phase' = "divide" /\ Op # NUL /\ Rhs.ok /\ Op = Slash
         /\ Rhs.int # 0 /\ Div!Enter(DivideCall) /\ call' = DivideCall /\ dphase' # "idle"
         /\ s' = Behind(Rhs) /\ UNCHANGED <<line, typed, acc, out>>
<1>1. /\ phase = "next" /\ phase' = "divide" /\ Op # NUL /\ Rhs.ok /\ Op = Slash
      /\ Rhs.int # 0 /\ Div!Enter(DivideCall)
      /\ s' = Behind(Rhs) /\ UNCHANGED <<line, typed, acc, out>>
  BY Zenon DEF Divide, AtOperator, DivideCall
<1>2. call' = DivideCall /\ dphase' # "idle"
  BY <1>1 DEF Div!Enter
<1>. QED BY <1>1, <1>2

LEMMA DivideKeeps ==
  ASSUME Sound, Divide
  PROVE  Sound'
<1>1. /\ phase = "next" /\ phase' = "divide" /\ Op # NUL /\ Rhs.ok /\ Op = Slash
      /\ Div!Enter(DivideCall) /\ call' = DivideCall /\ dphase' # "idle"
      /\ s' = Behind(Rhs) /\ UNCHANGED <<line, typed, acc, out>>
  BY DivideSteps
<1>2. PICK n \in Int, q \in s + 1 .. line.i : Rhs.int = Wrapped(n) /\ Behind(Rhs) = q
  BY <1>1, NextHeld, TermRead
<1>3. DivideCall \in Div!Call
  BY <1>1, <1>2, NextHeld, WrappedInt, IsCall DEF DivideCall
<1>4. DivisionSound'
  BY <1>1, <1>3, DivisionEnter DEF Sound, DivideSound
<1>5. s' \in s .. line.i /\ acc' \in Div!Ints(Int32Format)
  BY <1>1, <1>2, NextHeld
<1>6. LineSound' /\ EvalSound'
  BY <1>1, <1>5, EvalKept
<1>7. DivideSound'
  BY <1>1, <1>4 DEF DivideSound, DivideCall
<1>8. OutSound'
  BY <1>1, NextHeld DEF OutSound
<1>. QED BY <1>6, <1>7, <1>8 DEF Sound

\* A turn of the division, and its end.
LEMMA DividingSteps ==
  ASSUME Sound, Dividing
  PROVE  /\ phase = "divide" /\ UNCHANGED <<line, typed, s, out>> /\ out = <<>>
         /\ call' = call /\ call.fn = "div" /\ DivisionSound'
         /\ \/ dphase' # "idle" /\ phase' = "divide" /\ acc' = acc
            \/ /\ dphase' = "idle" /\ phase' = "next" /\ acc' = result' /\ DivisionRight'
<1>1. /\ phase = "divide" /\ UNCHANGED <<line, typed, s, out>>
      /\ Div!Turn \/ Div!Return
  BY Zenon DEF Dividing
<1>2. DivisionSound /\ call.fn = "div" /\ out = <<>>
  BY <1>1 DEF Sound, DivideSound, OutSound
<1>3. call' = call
  BY <1>1 DEF Div!Turn, Div!Return
<1>4. DivisionSound'
  BY <1>1, <1>2, DivisionStep
<1>5. CASE dphase' = "idle"
  <2>1. acc' = result' /\ phase' = "next"
    BY <1>5, Zenon DEF Dividing
  <2>2. DivisionRight'
    BY <1>2, <1>3, <1>4, <1>5, DivisionAnswersNext DEF DivisionDone
  <2>. QED BY <1>1, <1>2, <1>3, <1>4, <1>5, <2>1, <2>2
<1>6. CASE dphase' # "idle"
  <2>1. acc' = acc /\ phase' = "divide"
    BY <1>1, <1>6, Zenon DEF Dividing
  <2>. QED BY <1>1, <1>2, <1>3, <1>4, <1>6, <2>1
<1>. QED BY <1>5, <1>6

LEMMA DividingSound ==
  ASSUME Sound, Dividing
  PROVE  Sound'
<1>1. /\ phase = "divide" /\ UNCHANGED <<line, typed, s, out>> /\ out = <<>>
      /\ call' = call /\ call.fn = "div" /\ DivisionSound'
  BY DividingSteps
<1>2. \/ dphase' # "idle" /\ phase' = "divide" /\ acc' = acc
      \/ dphase' = "idle" /\ phase' = "next" /\ acc' = result' /\ DivisionRight'
  BY DividingSteps
<1>3. acc' \in Div!Ints(Int32Format)
  BY <1>2 DEF Sound, EvalSound, DivisionRight, Div!Ints
<1>4. s' \in s .. line.i
  BY <1>1 DEF Sound, EvalSound, LineSound, Lines
<1>5. LineSound' /\ EvalSound'
  BY <1>1, <1>2, <1>3, <1>4, EvalKept
<1>6. DivideSound'
  BY <1>1, <1>2 DEF DivideSound
<1>7. OutSound'
  BY <1>1, <1>2 DEF OutSound
<1>. QED BY <1>5, <1>6, <1>7 DEF Sound

\* A step that ends the evaluation, or reports.
LEMMA StopSound ==
  ASSUME Sound, phase \in {"next", "failed"}, phase' \in {"failed", "printed"},
         UNCHANGED <<line, typed, s, acc, division>>, OutSound'
  PROVE  Sound'
<1>1. s' \in s .. line.i /\ acc' \in Div!Ints(Int32Format)
  BY DEF Sound, EvalSound, LineSound, Lines
<1>2. LineSound' /\ EvalSound'
  BY <1>1, EvalKept
<1>3. DivisionSound' /\ dphase' = dphase /\ dphase = "idle"
  BY DivisionRests DEF Sound, DivideSound, division
<1>. QED BY <1>2, <1>3 DEF Sound, DivideSound

LEMMA StopSteps ==
  /\ DivideByZero => /\ phase = "next" /\ phase' = "failed" /\ Op = Slash /\ Op # NUL
                     /\ Rhs.ok /\ Rhs.int = 0
                     /\ out' = Append(out, ZeroReport)
                     /\ UNCHANGED <<line, typed, s, acc, division>>
  /\ Malformed => /\ phase = "next" /\ phase' = "failed" /\ Op # NUL
                  /\ ~Rhs.ok \/ Op \notin Operator
                  /\ UNCHANGED <<line, typed, s, acc, out, division>>
  /\ Answer => /\ phase = "next" /\ phase' = "printed" /\ Op = NUL
               /\ out' = Append(out, itoa(acc))
               /\ UNCHANGED <<line, typed, s, acc, division>>
  /\ Invalid => /\ phase = "failed" /\ phase' = "printed"
                /\ out' = Append(out, Bad)
                /\ UNCHANGED <<line, typed, s, acc, division>>
BY Zenon DEF DivideByZero, Malformed, Answer, Invalid, AtOperator, ZeroReport, Bad

LEMMA AppendTwo ==
  ASSUME NEW a, NEW b
  PROVE  Append(<<a>>, b) = <<a, b>>
<1>. DEFINE q == Append(<<a>>, b)
<1>1. <<a>> \in Seq({a, b}) /\ Len(<<a>>) = 1 /\ <<a>>[1] = a
  OBVIOUS
<1>2. q \in Seq({a, b}) /\ Len(q) = 2 /\ q[1] = a /\ q[2] = b
  BY <1>1, AppendProperties
<1>. HIDE DEF q
<1>3. q = [i \in 1 .. 2 |-> q[i]]
  BY <1>2
<1>4. <<a, b>> = [i \in 1 .. 2 |-> q[i]]
  BY <1>2
<1>. QED BY <1>3, <1>4 DEF q

LEMMA StopsSound ==
  ASSUME Sound, DivideByZero \/ Malformed \/ Answer \/ Invalid
  PROVE  Sound'
<1>1. CASE DivideByZero
  <2>1. OutSound'
    BY <1>1, StopSteps, NextHeld DEF OutSound
  <2>. QED BY <1>1, <2>1, StopSteps, StopSound
<1>2. CASE Malformed
  <2>1. OutSound'
    BY <1>2, StopSteps, NextHeld DEF OutSound
  <2>. QED BY <1>2, <2>1, StopSteps, StopSound
<1>3. CASE Answer
  <2>1. out' = <<itoa(acc)>> /\ acc \in Div!Ints(Int32Format) /\ phase' = "printed"
    BY <1>3, StopSteps, NextHeld
  <2>2. OutSound'
    BY <2>1 DEF OutSound, itoa, Div!Ints
  <2>. QED BY <1>3, <2>2, StopSteps, StopSound
<1>4. CASE Invalid
  <2>1. out' = Append(out, Bad) /\ out \in {<<>>, <<ZeroReport>>} /\ phase' = "printed"
    BY <1>4, StopSteps DEF Sound, OutSound
  <2>2. out' = <<Bad>> \/ out' = <<ZeroReport, Bad>>
    <3>1. CASE out = <<>>
      BY <2>1, <3>1
    <3>2. CASE out = <<ZeroReport>>
      <4>1. Append(<<ZeroReport>>, Bad) = <<ZeroReport, Bad>>
        BY AppendTwo
      <4>. QED BY <2>1, <3>2, <4>1
    <3>. QED BY <2>1, <3>1, <3>2
  <2>3. OutSound'
    BY <2>1, <2>2 DEF OutSound
  <2>. QED BY <1>4, <2>3, StopSteps, StopSound
<1>. QED BY <1>1, <1>2, <1>3, <1>4

LEMMA DivisionInitNext == Div!Init' => DivisionSound'
BY DivisionInit, PTL

LEMMA PromptSound ==
  ASSUME Sound, Prompt
  PROVE  Sound'
<1>. USE LineInputAssumption
<1>1. /\ phase' = "read" /\ line' = At(line.buf, 0) /\ typed' = <<>> /\ out' = <<>>
      /\ s' = 0 /\ acc' = 0
      /\ call' = [format |-> Int32Format, fn |-> "umod", a |-> 0, b |-> 0]
      /\ dphase' = "idle" /\ num' = 0 /\ quo' = 0 /\ shift' = 1 /\ result' = 0
  BY Zenon DEF Prompt
<1>2. line' \in Lines /\ line'.i = 0
  BY <1>1 DEF Sound, LineSound, Lines, At
<1>3. LineSound'
  BY <1>1, <1>2 DEF LineSound
<1>4. EvalSound'
  BY <1>1, <1>2, Int32s DEF EvalSound
<1>5. call' \in Div!Call
  <2>1. 0 \in Div!Words(Int32Format)
    BY Formats DEF Div!Words, T
  <2>2. call' \in Div!UnsignedCall(Int32Format)
    BY <1>1, <2>1 DEF Div!UnsignedCall
  <2>. QED BY <2>2 DEF Div!Call
<1>6. Div!Init'
  BY <1>1, <1>5 DEF Div!Init
<1>7. DivideSound'
  BY <1>1, <1>6, DivisionInitNext DEF DivideSound
<1>8. OutSound'
  BY <1>1 DEF OutSound
<1>. QED BY <1>3, <1>4, <1>7, <1>8 DEF Sound

LEMMA StepSound == Sound /\ [Next]_vars => Sound'
<1>. SUFFICES ASSUME Sound, [Next]_vars PROVE Sound'
  OBVIOUS
<1>1. CASE \E c \in Printable : Character(c)
  BY <1>1, CharacterSound
<1>2. CASE Backspace
  BY <1>2, BackspaceSound
<1>3. CASE Enter
  BY <1>3, EnterSound
<1>4. CASE First \/ Apply
  BY <1>4, FirstSound, ApplySound
<1>5. CASE Divide \/ Dividing
  BY <1>5, DivideKeeps, DividingSound
<1>6. CASE DivideByZero \/ Malformed \/ Answer \/ Invalid
  BY <1>6, StopsSound
<1>7. CASE Prompt
  BY <1>7, PromptSound
<1>8. CASE UNCHANGED vars
  <2>1. UNCHANGED <<phase, line, typed, s, acc, out, division>>
    BY <1>8 DEF vars
  <2>2. DivisionSound'
    BY <2>1, DivisionRests DEF Sound, DivideSound, division
  <2>3. LineSound' /\ EvalSound' /\ OutSound'
    BY <2>1 DEF Sound, LineSound, EvalSound, OutSound, CharAt
  <2>4. DivideSound'
    BY <2>1, <2>2 DEF Sound, DivideSound, division
  <2>. QED BY <2>3, <2>4 DEF Sound
<1>. QED BY <1>1, <1>2, <1>3, <1>4, <1>5, <1>6, <1>7, <1>8 DEF Next, Evaluate

(* The line keeps room for its NUL, the pointer stays in it, and numbers   *)
(* are 32-bit numbers, the division's included (calculator_run, eval_expr). *)
THEOREM CalculatorTypes == Spec => []TypeOK
BY InitSound, StepSound, SoundTypes, PTL DEF Spec

-----------------------------------------------------------------------------
(* An expression is followed term by term: when the evaluation has read up *)
(* to the k-th number, it stands behind it, and has the value up to there, *)
(* unless a division before was one that int32_div gets wrong.             *)

Ends(e) == [0 .. Len(e.rest) -> 0 .. Len(e.text)]

Reached(e, k) == \E end \in Ends(e) : SpelledAt(e, end) /\ s = end[k]

ZeroAt(e, k) == e.rest[k].op = Slash /\ Wrapped(e.rest[k].int) = 0

RightAt(e, k) ==
  e.rest[k].op = Slash
    => Div!Small(Div!Magnitude(Worth(e)[k - 1]),
                 Div!Magnitude(Wrapped(e.rest[k].int)), Int32Format)

NoZero(e, k) == \A i \in 1 .. k : ~ZeroAt(e, i)
AllRight(e, k) == \A i \in 1 .. k : RightAt(e, i)

Valued(e, k) ==
  k \in 0 .. Len(e.rest) /\ Reached(e, k) /\ NoZero(e, k)
  /\ (AllRight(e, k) => acc = Worth(e)[k])

InDivision(e, k) ==
  /\ k \in 1 .. Len(e.rest) /\ Reached(e, k) /\ NoZero(e, k) /\ e.rest[k].op = Slash
  /\ call.b = Wrapped(e.rest[k].int)
  /\ AllRight(e, k - 1) => call.a = Worth(e)[k - 1]

Answered(e) ==
  \E n \in Div!Ints(Int32Format) :
    out = <<itoa(n)>> /\ (AllRight(e, Len(e.rest)) => n = Worth(e)[Len(e.rest)])

Follows(e) ==
  /\ phase = "next" => \E k \in Nat : Valued(e, k)
  /\ phase = "divide" => \E k \in Nat : InDivision(e, k)
  /\ phase = "failed" => DividesByZero(e) /\ out = <<ZeroReport>>
  /\ phase = "printed" => IF DividesByZero(e) THEN out = <<ZeroReport, Bad>>
                                              ELSE Answered(e)

Followed == \A e \in Reading : e.text = typed => Follows(e)

LEMMA ReadingIs == \A e \in Reading : e \in Expression /\ Spelled(e)
BY CalculatorAssumption, Zenon

LEMMA ZerosAre ==
  ASSUME NEW e \in Expression
  PROVE  /\ DividesByZero(e) <=> ~NoZero(e, Len(e.rest))
         /\ DividesRight(e) <=> AllRight(e, Len(e.rest))
BY RestIs, Zenon DEF DividesByZero, DividesRight, NoZero, AllRight, ZeroAt, RightAt

\* Behind a number stands no digit.
LEMMA BehindNumber ==
  ASSUME Held, NEW e \in Expression, e.text = typed,
         NEW end \in Ends(e), SpelledAt(e, end), NEW k \in 0 .. Len(e.rest)
  PROVE  end[k] \in 0 .. line.i /\ CharAt(end[k]) \notin Digit
<1>. DEFINE n == Len(e.rest)
            p == end[k]
<1>1. n \in Nat /\ line.i \in Nat /\ line.i = Len(typed) /\ CharAt(line.i) = NUL
  BY RestIs DEF Held, Lines
<1>2. p \in 0 .. line.i
  BY <1>1 DEF Ends
<1>. HIDE DEF p
<1>3. ASSUME p < line.i
      PROVE  CharAt(p) = typed[p + 1]
  <2>1. p \in 0 .. line.i - 1
    BY <1>1, <1>2, <1>3
  <2>. QED BY <2>1 DEF Held
<1>4. ASSUME k < n
      PROVE  CharAt(p) \notin Digit
  <2>. DEFINE x == e.rest[k + 1]
              q == end[k + 1]
  <2>1. k + 1 \in 1 .. n /\ (k + 1) - 1 = k
    BY <1>1, <1>4
  <2>2. SpellsTerm(typed, p, q, x) /\ q \in 0 .. line.i
    BY <1>1, <2>1 DEF SpelledAt, Ends, p
  <2>3. x.op \in Operator
    BY <2>1, RestIs
  <2>. HIDE DEF q, x, n
  <2>4. PICK o \in p + 1 .. q : Blanks(typed, p, o - 1) /\ typed[o] = x.op
    BY <2>2, Zenon DEF SpellsTerm
  <2>5. p < line.i
    BY <1>1, <1>2, <2>2
  <2>6. CASE o = p + 1
    BY <1>3, <2>3, <2>4, <2>5, <2>6, Characters
  <2>7. CASE o # p + 1
    <3>1. p + 1 \in p + 1 .. o - 1
      BY <1>1, <1>2, <2>2, <2>4, <2>7
    <3>2. typed[p + 1] = Blank
      BY <2>4, <3>1 DEF Blanks
    <3>. QED BY <1>3, <2>5, <3>2, Characters
  <2>. QED BY <2>6, <2>7
<1>5. ASSUME k = n
      PROVE  CharAt(p) \notin Digit
  <2>1. Blanks(typed, p, line.i)
    BY <1>1, <1>5 DEF SpelledAt, p
  <2>2. CASE p = line.i
    BY <1>1, <2>2, Characters
  <2>3. CASE p # line.i
    <3>1. p + 1 \in p + 1 .. line.i /\ p < line.i
      BY <1>1, <1>2, <2>3
    <3>2. typed[p + 1] = Blank
      BY <2>1, <3>1 DEF Blanks
    <3>. QED BY <1>3, <3>1, <3>2, Characters
  <2>. QED BY <2>2, <2>3
<1>6. k < n \/ k = n
  BY <1>1
<1>. QED BY <1>2, <1>4, <1>5, <1>6 DEF p

\* What the evaluation finds behind the k-th number.
LEMMA NextTerm ==
  ASSUME Held, NEW e \in Expression, e.text = typed,
         NEW k \in 0 .. Len(e.rest), Reached(e, k)
  PROVE  \/ k = Len(e.rest) /\ Op = NUL
         \/ /\ k + 1 \in 1 .. Len(e.rest)
            /\ Op = e.rest[k + 1].op /\ Op # NUL /\ Op \in Operator
            /\ Rhs.ok /\ Rhs.int = Wrapped(e.rest[k + 1].int)
            /\ s' = Behind(Rhs) => Reached(e, k + 1)'
<1>. DEFINE n == Len(e.rest)
<1>1. n \in Nat /\ line.i \in 0 .. BUF_SZ - 1 /\ BUF_SZ \in Int /\ line.i = Len(typed)
      /\ CharAt(line.i) = NUL
  BY RestIs, Characters DEF Held, Lines
<1>2. PICK end \in Ends(e) : SpelledAt(e, end) /\ s = end[k]
  BY DEF Reached
<1>3. s \in 0 .. line.i
  BY <1>2, BehindNumber
<1>4. CASE k = n
  <2>1. Blanks(typed, s, line.i)
    BY <1>1, <1>2, <1>4 DEF SpelledAt
  <2>2. \A i \in s .. line.i - 1 : CharAt(i) \in {Blank}
    <3>. SUFFICES ASSUME NEW i \in s .. line.i - 1 PROVE CharAt(i) = Blank
      OBVIOUS
    <3>1. i \in 0 .. line.i - 1 /\ i + 1 \in s + 1 .. line.i
      BY <1>1, <1>3
    <3>. QED BY <2>1, <3>1 DEF Blanks, Held
  <2>3. s \in Int /\ line.i \in s .. BUF_SZ - 1 /\ CharAt(line.i) \notin {Blank}
    BY <1>1, <1>3, Characters
  <2>4. OpAt = line.i
    BY <2>2, <2>3, SkipUnique DEF OpAt
  <2>. QED BY <1>1, <1>4, <2>4 DEF Op
<1>5. CASE k # n
  <2>. DEFINE x == e.rest[k + 1]
              q == end[k + 1]
  <2>1. k + 1 \in 1 .. n /\ k + 1 \in 0 .. n /\ (k + 1) - 1 = k
    BY <1>1, <1>5
  <2>2. SpellsTerm(typed, s, q, x)
    BY <1>2, <2>1 DEF SpelledAt
  <2>3. q \in 0 .. line.i /\ CharAt(q) \notin Digit
    BY <1>2, <2>1, BehindNumber
  <2>4. x \in [op : Operator, int : Int] /\ x.op \in Operator
    BY <2>1, TermIs
  <2>5. q \in s .. line.i
    <3>. HIDE DEF q, x
    <3>1. PICK o \in s + 1 .. q : TRUE
      BY <2>2, Zenon DEF SpellsTerm
    <3>. QED BY <1>1, <1>3, <2>3, <3>1
  <2>6. Op = x.op /\ Op # NUL /\ Rhs.ok /\ Rhs.int = Wrapped(x.int) /\ Behind(Rhs) = q
    <3>. HIDE DEF q, x
    <3>. QED BY <1>3, <2>2, <2>3, <2>4, <2>5, TermStands
  <2>7. s' = Behind(Rhs) => Reached(e, k + 1)'
    BY <1>2, <2>6 DEF Reached
  <2>. QED BY <2>1, <2>4, <2>6, <2>7
<1>. QED BY <1>4, <1>5

LEMMA OneMore ==
  ASSUME NEW e, NEW k \in Nat
  PROVE  /\ NoZero(e, k + 1) <=> NoZero(e, k) /\ ~ZeroAt(e, k + 1)
         /\ AllRight(e, k + 1) <=> AllRight(e, k) /\ RightAt(e, k + 1)
<1>1. \A i \in 1 .. k + 1 : i \in 1 .. k \/ i = k + 1
  OBVIOUS
<1>2. \A i \in 1 .. k : i \in 1 .. k + 1
  OBVIOUS
<1>3. k + 1 \in 1 .. k + 1
  OBVIOUS
<1>. QED BY <1>1, <1>2, <1>3, Zenon DEF NoZero, AllRight

LEMMA FollowsFirst ==
  ASSUME Sound, First, NEW e \in Reading, e.text = typed
  PROVE  Follows(e)'
<1>1. e \in Expression /\ Spelled(e)
  BY ReadingIs
<1>2. PICK end \in Ends(e) : SpelledAt(e, end)
  BY <1>1, Zenon DEF Spelled, Ends
<1>3. phase = "first" /\ UNCHANGED <<line, typed>>
  BY FirstReads
<1>4. Held /\ line.i \in Nat /\ Len(e.rest) \in Nat /\ e.first \in Int
  BY <1>1, <1>3, SoundHeld, RestIs DEF Held, Lines
<1>5. end[0] \in 0 .. line.i /\ CharAt(end[0]) \notin Digit
  <2>1. 0 \in 0 .. Len(e.rest)
    BY <1>4
  <2>. QED BY <1>1, <1>2, <1>4, <2>1, BehindNumber
<1>6. SpellsNumber(typed, 0, end[0], e.first)
  BY <1>2 DEF SpelledAt
<1>7. read_int(0) = [ok |-> TRUE, int |-> Wrapped(e.first), next |-> end[0]]
  <2>1. 0 \in 0 .. line.i
    BY <1>4
  <2>. QED BY <1>4, <1>5, <1>6, <2>1, SpelledReads
<1>8. phase' = "next" /\ acc' = Wrapped(e.first) /\ s' = end[0]
  <2>1. s = 0 /\ read_int(0).ok
    BY <1>3, <1>7 DEF Sound, EvalSound
  <2>2. acc' = read_int(0).int /\ s' = read_int(0).next /\ phase' = "next"
    BY <2>1, Zenon DEF First, Behind
  <2>. QED BY <1>7, <2>2
<1>9. Valued(e, 0)'
  <2>1. 0 \in 0 .. Len(e.rest)
    BY <1>4
  <2>2. Reached(e, 0)'
    BY <1>2, <1>8 DEF Reached
  <2>3. NoZero(e, 0)
    BY DEF NoZero
  <2>4. acc' = Worth(e)[0]
    BY <1>1, <1>8, WorthIs
  <2>. QED BY <2>1, <2>2, <2>3, <2>4 DEF Valued
<1>. QED BY <1>8, <1>9 DEF Follows

LEMMA FollowsApply ==
  ASSUME Sound, Apply, NEW e \in Reading, e.text = typed, Follows(e)
  PROVE  Follows(e)'
<1>1. /\ phase = "next" /\ phase' = "next" /\ Op # NUL /\ Op \in Operator \ {Slash}
      /\ acc' = Compute(Op, acc, Rhs.int) /\ s' = Behind(Rhs)
  BY Zenon DEF Apply, AtOperator
<1>2. PICK k \in Nat : Valued(e, k)
  BY <1>1 DEF Follows
<1>3. e \in Expression /\ Held /\ k \in 0 .. Len(e.rest) /\ Reached(e, k) /\ NoZero(e, k)
  BY <1>1, <1>2, ReadingIs, SoundHeld DEF Valued
<1>4. /\ k + 1 \in 1 .. Len(e.rest) /\ Op = e.rest[k + 1].op
      /\ Rhs.int = Wrapped(e.rest[k + 1].int) /\ Reached(e, k + 1)'
  BY <1>1, <1>3, NextTerm
<1>5. NoZero(e, k + 1)
  BY <1>1, <1>3, <1>4, OneMore DEF ZeroAt
<1>6. ASSUME AllRight(e, k + 1)
      PROVE  acc' = Worth(e)[k + 1]
  <2>1. acc = Worth(e)[k]
    BY <1>2, <1>6, OneMore DEF Valued
  <2>2. Worth(e)[k + 1] = Applied(Op, acc, Rhs.int)
    <3>1. (k + 1) - 1 = k
      OBVIOUS
    <3>. QED BY <1>3, <1>4, <2>1, <3>1, WorthIs
  <2>. QED BY <1>1, <2>2, ComputeApplies
<1>7. Valued(e, k + 1)'
  <2>1. k + 1 \in 0 .. Len(e.rest)
    BY <1>4
  <2>2. AllRight(e, k + 1) => acc' = Worth(e)[k + 1]
    BY <1>6
  <2>. QED BY <1>4, <1>5, <2>1, <2>2 DEF Valued
<1>8. k + 1 \in Nat
  OBVIOUS
<1>. QED BY <1>1, <1>7, <1>8 DEF Follows

LEMMA FollowsDivide ==
  ASSUME Sound, Divide, NEW e \in Reading, e.text = typed, Follows(e)
  PROVE  Follows(e)'
<1>1. /\ phase = "next" /\ phase' = "divide" /\ Op # NUL /\ Op = Slash /\ Rhs.int # 0
      /\ call' = DivideCall /\ s' = Behind(Rhs)
  BY DivideSteps
<1>2. PICK k \in Nat : Valued(e, k)
  BY <1>1 DEF Follows
<1>3. e \in Expression /\ Held /\ k \in 0 .. Len(e.rest) /\ Reached(e, k) /\ NoZero(e, k)
  BY <1>1, <1>2, ReadingIs, SoundHeld DEF Valued
<1>4. /\ k + 1 \in 1 .. Len(e.rest) /\ Op = e.rest[k + 1].op
      /\ Rhs.int = Wrapped(e.rest[k + 1].int) /\ Reached(e, k + 1)'
  BY <1>1, <1>3, NextTerm
<1>5. NoZero(e, k + 1)
  BY <1>1, <1>3, <1>4, OneMore DEF ZeroAt
<1>6. call'.a = acc /\ call'.b = Wrapped(e.rest[k + 1].int)
  BY <1>1, <1>4 DEF DivideCall
<1>7. AllRight(e, (k + 1) - 1) => call'.a = Worth(e)[(k + 1) - 1]
  <2>1. (k + 1) - 1 = k
    OBVIOUS
  <2>. QED BY <1>2, <1>6, <2>1 DEF Valued
<1>8. InDivision(e, k + 1)'
  BY <1>1, <1>4, <1>5, <1>6, <1>7 DEF InDivision
<1>9. k + 1 \in Nat
  OBVIOUS
<1>. QED BY <1>1, <1>8, <1>9 DEF Follows

LEMMA FollowsDividing ==
  ASSUME Sound, Dividing, NEW e \in Reading, e.text = typed, Follows(e)
  PROVE  Follows(e)'
<1>1. phase = "divide" /\ s' = s /\ call' = call
  BY DividingSteps
<1>2. PICK k \in Nat : InDivision(e, k)
  BY <1>1 DEF Follows
<1>3. /\ e \in Expression /\ k \in 1 .. Len(e.rest) /\ Reached(e, k)' /\ NoZero(e, k)
      /\ e.rest[k].op = Slash /\ call.b = Wrapped(e.rest[k].int)
      /\ AllRight(e, k - 1) => call.a = Worth(e)[k - 1]
  BY <1>1, <1>2, ReadingIs DEF InDivision, Reached
<1>4. CASE phase' = "divide"
  <2>1. InDivision(e, k)'
    BY <1>1, <1>3 DEF InDivision
  <2>. QED BY <1>4, <2>1 DEF Follows
<1>5. CASE phase' = "next" /\ acc' = result' /\ DivisionRight'
  <2>1. call.b # 0
    <3>1. ~ZeroAt(e, k)
      BY <1>3 DEF NoZero
    <3>. QED BY <1>3, <3>1 DEF ZeroAt
  <2>2. ASSUME AllRight(e, k)
        PROVE  acc' = Worth(e)[k]
    <3>1. k - 1 \in Nat /\ (k - 1) + 1 = k
      BY <1>3
    <3>2. AllRight(e, k - 1) /\ RightAt(e, k)
      BY <2>2, <3>1, OneMore
    <3>3. call.a = Worth(e)[k - 1]
      BY <1>3, <3>2
    <3>4. Div!Small(Div!Magnitude(call.a), Div!Magnitude(call.b), Int32Format)
      BY <1>3, <3>2, <3>3, Zenon DEF RightAt
    <3>5. result' = Wrapped(Div!TruncatedQuotient(call.a, call.b))
      BY <1>1, <1>5, <2>1, <3>4, Zenon DEF DivisionRight
    <3>6. Worth(e)[k] = Applied(Slash, call.a, call.b)
      BY <1>3, <3>3, WorthIs
    <3>7. Applied(Slash, call.a, call.b) = Wrapped(Div!TruncatedQuotient(call.a, call.b))
      BY <2>1, OperatorsDiffer DEF Applied
    <3>. QED BY <1>5, <3>5, <3>6, <3>7
  <2>3. Valued(e, k)'
    <3>1. k \in 0 .. Len(e.rest)
      BY <1>3
    <3>2. AllRight(e, k) => acc' = Worth(e)[k]
      BY <2>2
    <3>. QED BY <1>3, <3>1, <3>2 DEF Valued
  <2>. QED BY <1>5, <2>3 DEF Follows
<1>. QED BY <1>4, <1>5, DividingSteps

LEMMA FollowsStops ==
  ASSUME Sound, DivideByZero \/ Malformed \/ Answer \/ Invalid,
         NEW e \in Reading, e.text = typed, Follows(e)
  PROVE  Follows(e)'
<1>1. e \in Expression
  BY ReadingIs
<1>2. ASSUME phase = "next"
      PROVE  \E k \in 0 .. Len(e.rest) :
               /\ NoZero(e, k) /\ (AllRight(e, k) => acc = Worth(e)[k])
               /\ \/ k = Len(e.rest) /\ Op = NUL
                  \/ /\ k + 1 \in 1 .. Len(e.rest)
                     /\ Op = e.rest[k + 1].op /\ Op # NUL /\ Op \in Operator
                     /\ Rhs.ok /\ Rhs.int = Wrapped(e.rest[k + 1].int)
  <2>1. PICK k \in Nat : Valued(e, k)
    BY <1>2 DEF Follows
  <2>2. /\ Held /\ k \in 0 .. Len(e.rest) /\ Reached(e, k) /\ NoZero(e, k)
        /\ AllRight(e, k) => acc = Worth(e)[k]
    BY <1>2, <2>1, SoundHeld DEF Valued
  <2>. QED BY <1>1, <2>2, NextTerm
<1>3. CASE DivideByZero
  <2>1. /\ phase = "next" /\ phase' = "failed" /\ Op = Slash /\ Op # NUL
        /\ Rhs.int = 0 /\ out' = <<ZeroReport>>
    BY <1>3, StopSteps, NextHeld
  <2>2. PICK k \in Nat : k + 1 \in 1 .. Len(e.rest) /\ ZeroAt(e, k + 1)
    <3>1. PICK k \in 0 .. Len(e.rest) :
            /\ k + 1 \in 1 .. Len(e.rest)
            /\ Op = e.rest[k + 1].op /\ Rhs.int = Wrapped(e.rest[k + 1].int)
      BY <1>2, <2>1
    <3>2. k \in Nat /\ ZeroAt(e, k + 1)
      BY <2>1, <3>1 DEF ZeroAt
    <3>. QED BY <3>1, <3>2
  <2>3. DividesByZero(e)
    BY <1>1, <2>2, ZerosAre DEF NoZero
  <2>. QED BY <2>1, <2>3 DEF Follows
<1>4. CASE Malformed
  <2>1. phase = "next" /\ Op # NUL /\ (~Rhs.ok \/ Op \notin Operator)
    BY <1>4, StopSteps
  <2>. QED BY <1>2, <2>1
<1>5. CASE Answer
  <2>1. /\ phase = "next" /\ phase' = "printed" /\ Op = NUL
        /\ out' = <<itoa(acc)>> /\ acc \in Div!Ints(Int32Format)
    BY <1>5, StopSteps, NextHeld
  <2>2. NoZero(e, Len(e.rest)) /\ (AllRight(e, Len(e.rest)) => acc = Worth(e)[Len(e.rest)])
    BY <1>2, <2>1
  <2>3. ~DividesByZero(e)
    BY <1>1, <2>2, ZerosAre
  <2>4. Answered(e)'
    BY <2>1, <2>2 DEF Answered, itoa
  <2>. QED BY <2>1, <2>3, <2>4 DEF Follows
<1>6. CASE Invalid
  <2>1. phase = "failed" /\ phase' = "printed" /\ out' = Append(out, Bad)
    BY <1>6, StopSteps
  <2>2. DividesByZero(e) /\ out = <<ZeroReport>>
    BY <2>1 DEF Follows
  <2>3. out' = <<ZeroReport, Bad>>
    BY <2>1, <2>2, AppendTwo
  <2>. QED BY <2>1, <2>2, <2>3 DEF Follows
<1>. QED BY <1>3, <1>4, <1>5, <1>6

LEMMA FollowedInit == Init => Followed
BY DEF Init, Followed, Follows

LEMMA FollowedStep == Sound /\ Followed /\ [Next]_vars => Followed'
<1>. SUFFICES ASSUME Sound, Followed, [Next]_vars, NEW e \in Reading, e.text = typed'
              PROVE  Follows(e)'
  BY DEF Followed
<1>1. ASSUME phase' \in {"read", "first", "done"}
      PROVE  Follows(e)'
  BY <1>1 DEF Follows
<1>2. CASE (\E c \in Printable : Character(c)) \/ Backspace \/ Enter \/ Prompt
  <2>1. phase' \in {"read", "first", "done"}
    BY <1>2 DEF Character, Backspace, Enter, Prompt
  <2>. QED BY <1>1, <2>1
<1>3. CASE Evaluate
  <2>1. typed' = typed
    BY <1>3, Zenon DEF Evaluate, First, Apply, Divide, Dividing, DivideByZero, Malformed,
       Answer, Invalid
  <2>2. e.text = typed /\ Follows(e)
    BY <2>1 DEF Followed
  <2>. QED BY <1>3, <2>2, FollowsFirst, FollowsApply, FollowsDivide, FollowsDividing,
              FollowsStops DEF Evaluate
<1>4. CASE UNCHANGED vars
  <2>1. UNCHANGED <<phase, typed, s, acc, out, call>>
    BY <1>4 DEF vars, division
  <2>2. Follows(e)
    BY <2>1 DEF Followed
  <2>. QED BY <2>1, <2>2 DEF Follows, Valued, InDivision, Answered, Reached
<1>. QED BY <1>2, <1>3, <1>4 DEF Next

LEMMA FollowedAnswers == Followed => LeftToRight
<1>. SUFFICES ASSUME Followed, phase = "printed", NEW e \in Reading,
                     e.text = typed, ~DividesByZero(e), DividesRight(e),
                     Worth(e)[Len(e.rest)] # -Top
              PROVE  out = <<Number(Worth(e)[Len(e.rest)])>>
  BY DEF LeftToRight
<1>1. Follows(e) /\ e \in Expression
  BY ReadingIs DEF Followed
<1>2. Answered(e)
  BY <1>1 DEF Follows
<1>3. AllRight(e, Len(e.rest))
  BY <1>1, ZerosAre
<1>. QED BY <1>2, <1>3 DEF Answered, itoa

(* A line that is an expression is answered with its value from left to    *)
(* right, modulo 2^32, if its divisors are such that int32_div is exact    *)
(* (calculator_run, eval_expr, read_int).                                  *)
THEOREM ExpressionsAnswered == Spec => []LeftToRight
BY InitSound, StepSound, FollowedInit, FollowedStep, FollowedAnswers, PTL DEF Spec

-----------------------------------------------------------------------------
(* What the evaluation has read is the beginning of an expression; so a    *)
(* number is printed for expressions only.                                 *)

SpelledSoFar(e, end) ==
  /\ SpellsNumber(e.text, 0, end[0], e.first)
  /\ \A k \in 1 .. Len(e.rest) : SpellsTerm(e.text, end[k - 1], end[k], e.rest[k])

ReadAs(e) ==
  /\ e \in Expression /\ e.text = typed
  /\ \E end \in Ends(e) : SpelledSoFar(e, end) /\ s = end[Len(e.rest)]

Recognised ==
  /\ phase \in {"next", "divide"} => \E e : ReadAs(e)
  /\ phase = "printed" =>
       \/ out = <<Bad>> \/ out = <<ZeroReport, Bad>>
       \/ \E e \in Expression : e.text = typed /\ Spelled(e)

LEMMA RecognisedFirst ==
  ASSUME Sound, First
  PROVE  Recognised'
<1>1. phase = "first" /\ UNCHANGED <<line, typed>> /\ line.i \in Nat /\ line.i = Len(typed)
      /\ typed \in Seq(Printable)
  BY FirstReads DEF Sound, LineSound, Lines
<1>2. CASE phase' = "failed"
  BY <1>2 DEF Recognised
<1>3. CASE phase' # "failed"
  <2>1. phase' = "next"
    BY <1>3, FirstReads
  <2>2. PICK n \in Int, q \in 1 .. line.i : SpellsNumber(typed, 0, q, n) /\ s' = q
    BY <1>3, FirstReads
  <2>. DEFINE e == [text |-> typed, first |-> n, rest |-> <<>>]
              end == [k \in 0 .. 0 |-> q]
  <2>3. e \in Expression
    <3>. DEFINE X == [op : Operator, int : Int]
    <3>1. <<>> \in Seq(X)
      <4>. HIDE DEF X
      <4>. QED OBVIOUS
    <3>. QED BY <1>1, <3>1 DEF Expression
  <2>4. e.text = typed /\ e.first = n /\ e.rest = <<>> /\ Len(e.rest) = 0
    OBVIOUS
  <2>5. end \in Ends(e) /\ end[0] = q
    BY <1>1, <2>4 DEF Ends
  <2>. HIDE DEF e, end
  <2>6. SpelledSoFar(e, end)
    BY <2>2, <2>4, <2>5 DEF SpelledSoFar
  <2>7. \E d : ReadAs(d)'
    <3>1. PICK d : d = e
      OBVIOUS
    <3>2. ReadAs(d)'
      BY <1>1, <2>2, <2>3, <2>4, <2>5, <2>6, <3>1 DEF ReadAs
    <3>. QED BY <3>2
  <2>. QED BY <2>1, <2>7 DEF Recognised
<1>. QED BY <1>2, <1>3

\* A term that was read makes the expression longer.
LEMMA Longer ==
  ASSUME Sound, Recognised, phase = "next", Op \in Operator, Op # NUL, Rhs.ok,
         s' = Behind(Rhs), UNCHANGED <<line, typed>>
  PROVE  \E e : ReadAs(e)'
<1>1. PICK e : ReadAs(e)
  BY DEF Recognised
<1>2. PICK end \in Ends(e) : SpelledSoFar(e, end) /\ s = end[Len(e.rest)]
  BY <1>1 DEF ReadAs
<1>3. /\ e \in Expression /\ e.text = typed /\ e.first \in Int /\ typed \in Seq(Printable)
      /\ Len(e.rest) \in Nat /\ line.i \in Nat /\ line.i = Len(typed) /\ s \in 0 .. line.i
  BY <1>1, RestIs, NextHeld DEF ReadAs, Held
<1>4. PICK n \in Int, q \in s + 1 .. line.i :
        /\ SpellsTerm(typed, s, q, [op |-> Op, int |-> n])
        /\ Behind(Rhs) = q
  BY NextHeld, TermRead
<1>. DEFINE X == [op : Operator, int : Int]
            r == e.rest
            m == Len(r)
            x == [op |-> Op, int |-> n]
            r2 == Append(r, x)
            f == [text |-> typed, first |-> e.first, rest |-> r2]
            end2 == [k \in 0 .. m + 1 |-> IF k = m + 1 THEN q ELSE end[k]]
<1>5. r \in Seq(X) /\ x \in X
  BY <1>3 DEF Expression
<1>6. /\ r2 \in Seq(X) /\ Len(r2) = m + 1 /\ r2[m + 1] = x
      /\ \A k \in 1 .. m : r2[k] = r[k]
  <2>. HIDE DEF X, r, x
  <2>. QED BY <1>5, AppendProperties
<1>. HIDE DEF r2
<1>7. f \in Expression /\ f.text = typed /\ f.first = e.first /\ f.rest = r2
  BY <1>3, <1>6 DEF Expression
<1>. HIDE DEF f
<1>8. q \in 0 .. line.i
  BY <1>3
<1>9. \A k \in 0 .. m : end[k] \in 0 .. line.i
  BY <1>2, <1>3 DEF Ends
<1>10. end2 \in Ends(f)
  <2>1. ASSUME NEW k \in 0 .. m + 1
        PROVE  (IF k = m + 1 THEN q ELSE end[k]) \in 0 .. line.i
    <3>1. k = m + 1 \/ k \in 0 .. m
      BY <1>3
    <3>. HIDE DEF m
    <3>. QED BY <1>8, <1>9, <3>1
  <2>2. Ends(f) = [0 .. m + 1 -> 0 .. line.i]
    BY <1>3, <1>6, <1>7 DEF Ends
  <2>. HIDE DEF m
  <2>. QED BY <2>1, <2>2
<1>11. end2[m + 1] = q /\ \A k \in 0 .. m : end2[k] = end[k]
  <2>1. m + 1 \in 0 .. m + 1 /\ \A k \in 0 .. m : k \in 0 .. m + 1 /\ k # m + 1
    BY <1>3
  <2>. HIDE DEF m
  <2>. QED BY <2>1
<1>. HIDE DEF end2
<1>12. SpelledSoFar(f, end2)
  <2>1. end2[0] = end[0]
    BY <1>3, <1>11
  <2>2. SpellsNumber(f.text, 0, end2[0], f.first)
    BY <1>2, <1>3, <1>7, <2>1 DEF SpelledSoFar
  <2>3. ASSUME NEW k \in 1 .. m + 1
        PROVE  SpellsTerm(f.text, end2[k - 1], end2[k], f.rest[k])
    <3>1. CASE k = m + 1
      <4>1. k - 1 = m /\ m \in 0 .. m
        BY <1>3, <3>1
      <4>2. end2[k - 1] = s /\ end2[k] = q /\ f.rest[k] = x
        BY <1>2, <1>6, <1>7, <1>11, <3>1, <4>1
      <4>. QED BY <1>4, <1>7, <4>2
    <3>2. CASE k # m + 1
      <4>1. k \in 1 .. m /\ k \in 0 .. m /\ k - 1 \in 0 .. m
        BY <1>3, <3>2
      <4>2. end2[k - 1] = end[k - 1] /\ end2[k] = end[k] /\ f.rest[k] = e.rest[k]
        BY <1>6, <1>7, <1>11, <4>1
      <4>. QED BY <1>2, <1>3, <1>7, <4>1, <4>2 DEF SpelledSoFar
    <3>. QED BY <3>1, <3>2
  <2>4. Len(f.rest) = m + 1
    BY <1>6, <1>7
  <2>. HIDE DEF m
  <2>. QED BY <2>2, <2>3, <2>4 DEF SpelledSoFar
<1>13. PICK d : d = f
  OBVIOUS
<1>14. ReadAs(d)'
  <2>1. Len(f.rest) = m + 1
    BY <1>6, <1>7
  <2>2. s' = end2[Len(f.rest)] /\ typed' = typed
    BY <1>4, <1>11, <2>1
  <2>. QED BY <1>7, <1>10, <1>12, <1>13, <2>2 DEF ReadAs
<1>. QED BY <1>14

LEMMA RecognisedAnswer ==
  ASSUME Sound, Recognised, Answer
  PROVE  Recognised'
<1>1. /\ phase = "next" /\ phase' = "printed" /\ Op = NUL
      /\ UNCHANGED <<line, typed>>
  BY StopSteps
<1>2. PICK e : ReadAs(e)
  BY <1>1 DEF Recognised
<1>3. PICK end \in Ends(e) : SpelledSoFar(e, end) /\ s = end[Len(e.rest)]
  BY <1>2 DEF ReadAs
<1>4. Held /\ s \in 0 .. line.i /\ line.i \in Nat /\ line.i = Len(typed)
  BY <1>1, NextHeld DEF Held
<1>5. OpAt = line.i /\ \A i \in s .. OpAt - 1 : CharAt(i) = Blank
  BY <1>1, <1>4, OperatorFound
<1>6. Blanks(typed, s, line.i)
  <2>. SUFFICES ASSUME NEW i \in s + 1 .. line.i PROVE typed[i] = Blank
    BY DEF Blanks
  <2>1. i - 1 \in s .. line.i - 1 /\ i - 1 \in 0 .. line.i - 1 /\ (i - 1) + 1 = i
    BY <1>4
  <2>. QED BY <1>4, <1>5, <2>1 DEF Held
<1>7. SpelledAt(e, end)
  BY <1>2, <1>3, <1>4, <1>6, Zenon DEF SpelledAt, SpelledSoFar, ReadAs
<1>8. Spelled(e) /\ e \in Expression /\ e.text = typed
  BY <1>2, <1>3, <1>7, Zenon DEF Spelled, Ends, ReadAs
<1>. QED BY <1>1, <1>8 DEF Recognised

LEMMA RecognisedInit == Init => Recognised
BY DEF Init, Recognised

LEMMA RecognisedStep == Sound /\ Recognised /\ [Next]_vars => Recognised'
<1>. SUFFICES ASSUME Sound, Recognised, [Next]_vars
              PROVE  Recognised'
  OBVIOUS
<1>1. CASE (\E c \in Printable : Character(c)) \/ Backspace \/ Enter \/ Prompt
  <2>1. phase' \in {"read", "first", "done"}
    BY <1>1 DEF Character, Backspace, Enter, Prompt
  <2>. QED BY <2>1 DEF Recognised
<1>2. CASE First
  BY <1>2, RecognisedFirst
<1>3. CASE Apply
  <2>1. /\ phase = "next" /\ phase' = "next" /\ Op # NUL /\ Rhs.ok /\ Op \in Operator
        /\ s' = Behind(Rhs) /\ UNCHANGED <<line, typed>>
    BY <1>3, Zenon DEF Apply, AtOperator
  <2>. QED BY <2>1, Longer DEF Recognised
<1>4. CASE Divide
  <2>1. /\ phase = "next" /\ phase' = "divide" /\ Op # NUL /\ Rhs.ok /\ Op = Slash
        /\ s' = Behind(Rhs) /\ UNCHANGED <<line, typed>>
    BY <1>4, DivideSteps
  <2>2. Op \in Operator
    BY <2>1 DEF Operator
  <2>3. \E e : ReadAs(e)'
    BY <2>1, <2>2, Longer
  <2>. QED BY <2>1, <2>3 DEF Recognised
<1>5. CASE Dividing
  <2>1. phase = "divide" /\ UNCHANGED <<typed, s>> /\ phase' \in {"next", "divide"}
    BY <1>5, DividingSteps
  <2>. QED BY <2>1 DEF Recognised, ReadAs
<1>6. CASE DivideByZero \/ Malformed
  <2>1. phase' = "failed"
    BY <1>6, StopSteps
  <2>. QED BY <2>1 DEF Recognised
<1>7. CASE Answer
  BY <1>7, RecognisedAnswer
<1>8. CASE Invalid
  <2>1. phase' = "printed" /\ out' = Append(out, Bad) /\ out \in {<<>>, <<ZeroReport>>}
    BY <1>8, StopSteps DEF Sound, OutSound
  <2>2. out' = <<Bad>> \/ out' = <<ZeroReport, Bad>>
    <3>1. CASE out = <<>>
      BY <2>1, <3>1
    <3>2. CASE out = <<ZeroReport>>
      BY <2>1, <3>2, AppendTwo
    <3>. QED BY <2>1, <3>1, <3>2
  <2>. QED BY <2>1, <2>2 DEF Recognised
<1>9. CASE UNCHANGED vars
  <2>1. UNCHANGED <<phase, typed, s, out>>
    BY <1>9 DEF vars
  <2>. QED BY <2>1 DEF Recognised, ReadAs
<1>. QED BY <1>1, <1>2, <1>3, <1>4, <1>5, <1>6, <1>7, <1>8, <1>9 DEF Next, Evaluate

\* Every line that is an expression is one of the lines considered.
Complete == \A e \in Expression : Spelled(e) => e \in Reading

LEMMA NumbersAreNoReports ==
  ASSUME NEW n
  PROVE  itoa(n) \notin Reports
<1>1. Message("garbled") # Bad /\ Message("garbled") # ZeroReport
  BY Zenon DEF Message, Bad, ZeroReport
<1>2. Number(n) # Bad /\ Number(n) # ZeroReport
  <2>1. "int" \in DOMAIN Number(n)
    BY DEF Number
  <2>2. \A x : "int" \notin DOMAIN Message(x)
    BY DEF Message
  <2>. QED BY <2>1, <2>2, Zenon DEF Bad, ZeroReport
<1>3. \A x : x \in Reports <=> x = ZeroReport \/ x = Bad
  BY Zenon DEF Reports, ZeroReport, Bad
<1>. QED BY <1>1, <1>2, <1>3 DEF itoa

LEMMA VerdictFollows ==
  ASSUME Complete, Sound, Followed, Recognised
  PROVE  Verdict
<1>. SUFFICES ASSUME phase = "printed" PROVE Verdict
  BY Zenon DEF Verdict
<1>. DEFINE readings == {e \in Reading : e.text = typed}
<1>0. ZeroReport \in Reports /\ Bad \in Reports
  BY Zenon DEF Reports, ZeroReport, Bad
<1>4. /\ out = <<Bad>> => OnlyReports /\ out[Len(out)] = Bad
      /\ out = <<ZeroReport, Bad>> => /\ OnlyReports /\ out[Len(out)] = Bad
                                      /\ out[1] = ZeroReport
  BY <1>0 DEF OnlyReports
<1>1. CASE readings = {}
  <2>1. out = <<Bad>> \/ out = <<ZeroReport, Bad>>
    BY <1>1, ReadingIs DEF Recognised, Complete
  <2>2. OnlyReports /\ out[Len(out)] = Bad
    BY <1>4, <2>1
  <2>. QED BY <1>1, <2>2, Zenon DEF Verdict, Bad
<1>2. CASE readings # {} /\ \E e \in readings : DividesByZero(e)
  <2>1. out = <<ZeroReport, Bad>>
    BY <1>2 DEF Followed, Follows
  <2>2. OnlyReports /\ out[1] = ZeroReport
    BY <1>4, <2>1
  <2>. QED BY <1>2, <2>2, Zenon DEF Verdict, ZeroReport
<1>3. CASE readings # {} /\ ~ \E e \in readings : DividesByZero(e)
  <2>1. PICK n : out = <<itoa(n)>>
    BY <1>3 DEF Followed, Follows, Answered
  <2>2. Len(out) = 1 /\ out[1] \notin Reports
    BY <2>1, NumbersAreNoReports
  <2>. QED BY <1>3, <2>2, Zenon DEF Verdict
<1>. QED BY <1>1, <1>2, <1>3

(* A number is printed for the lines that are expressions and divide by no *)
(* zero, and for no other, and a division by zero is reported as one first *)
(* of all, if every expression is considered (eval_expr's error returns,   *)
(* calculator_run).                                                        *)
THEOREM NumbersForExpressions == Complete => (Spec => []Verdict)
<1>. SUFFICES ASSUME Complete PROVE Spec => []Verdict
  OBVIOUS
<1>1. Sound /\ Followed /\ Recognised => Verdict
  BY VerdictFollows
<1>. QED BY <1>1, InitSound, StepSound, FollowedInit, FollowedStep, RecognisedInit,
            RecognisedStep, PTL DEF Spec

-----------------------------------------------------------------------------
(* Lines that are answered.                                                *)

Stage(p) == CASE p = "first"  -> 4
              [] p = "divide" -> 3
              [] p = "next"   -> 2
              [] p = "failed" -> 1
              [] OTHER        -> 0

\* What is left to do of a division: its bits, and the return.
Turns == shift + (IF dphase = "loop" THEN 1 ELSE 0)

(* Every step of an evaluation reads further in the line, or leaves less   *)
(* to do where it stands: a division comes to an end, whatever it divides, *)
(* and blanks, operators and numbers are never read twice (eval_expr and   *)
(* calculator_run, calculator.c; int32_div, int.c).  This is what Answers  *)
(* needs of the steps; that they are taken is fairness.                    *)
Nearer ==
  \/ s' > s /\ s' <= line.i
  \/ s' = s /\ Stage(phase') < Stage(phase)
  \/ s' = s /\ phase = "divide" /\ phase' = "divide" /\ Turns' < Turns /\ Turns' > 0

ComesToAnEnd == [][Evaluate => Nearer]_vars

THEOREM EvaluationEnds == Spec => ComesToAnEnd
<1>1. ASSUME Sound, Evaluate
      PROVE  Nearer
  <2>. USE <1>1
  <2>1. ASSUME phase = "next"
        PROVE  s \in 0 .. line.i /\ line.i \in Nat
    BY <2>1, NextHeld
  <2>2. CASE First
    <3>1. phase = "first" /\ s = 0 /\ line.i \in Nat
      BY <2>2, FirstReads DEF Sound, EvalSound, LineSound, Lines
    <3>2. \/ phase' = "failed" /\ s' = s
          \/ s' \in 1 .. line.i
      BY <2>2, FirstReads
    <3>. QED BY <3>1, <3>2 DEF Nearer, Stage
  <2>3. CASE Apply \/ Divide
    <3>1. phase = "next" /\ Op # NUL /\ Rhs.ok /\ Op \in Operator /\ s' = Behind(Rhs)
      <4>1. CASE Apply
        BY <4>1, Zenon DEF Apply, AtOperator
      <4>2. CASE Divide
        BY <4>2, DivideSteps DEF Operator
      <4>. QED BY <2>3, <4>1, <4>2
    <3>2. PICK q \in s + 1 .. line.i : Behind(Rhs) = q
      BY <3>1, NextHeld, TermRead
    <3>. QED BY <2>1, <3>1, <3>2 DEF Nearer
  <2>4. CASE Dividing
    <3>1. /\ phase = "divide" /\ s' = s /\ phase' \in {"divide", "next"}
          /\ Div!Turn \/ Div!Return
      BY <2>4, DividingSteps, Zenon DEF Dividing
    <3>2. CASE phase' = "next"
      BY <3>1, <3>2 DEF Nearer, Stage
    <3>3. CASE phase' = "divide"
      <4>1. dphase' # "idle"
        BY <2>4, <3>3, DividingSteps
      <4>2. Div!Turn
        BY <3>1, <4>1 DEF Div!Return
      <4>3. shift \in Weight
        BY DivisionTypes DEF Sound, DivideSound, Div!TypeOK
      <4>4. shift \in Nat \ {0} /\ (shift = 1 \/ shift = 2 * (shift \div 2))
        BY <4>3, CalculatorAssumption
      <4>5. CASE shift = 1
        <5>1. dphase = "loop" /\ dphase' = "return" /\ shift' = 1
          BY <4>2, <4>5 DEF Div!Turn
        <5>. QED BY <3>1, <3>3, <4>5, <5>1 DEF Nearer, Turns
      <4>6. CASE shift # 1
        <5>1. dphase = "loop" /\ dphase' = "loop" /\ shift' = shift \div 2
          BY <4>2, <4>6 DEF Div!Turn
        <5>2. shift \div 2 \in Int /\ shift \div 2 < shift /\ shift \div 2 > 0
          BY <4>4, <4>6
        <5>. QED BY <3>1, <3>3, <4>4, <5>1, <5>2 DEF Nearer, Turns
      <4>. QED BY <4>5, <4>6
    <3>. QED BY <3>1, <3>2, <3>3
  <2>5. CASE DivideByZero \/ Malformed \/ Answer \/ Invalid
    <3>1. \/ phase = "next" /\ phase' \in {"failed", "printed"}
          \/ phase = "failed" /\ phase' = "printed"
      BY <2>5, StopSteps
    <3>2. s' = s
      BY <2>5, StopSteps
    <3>. QED BY <3>1, <3>2 DEF Nearer, Stage
  <2>. QED BY <2>2, <2>3, <2>4, <2>5 DEF Evaluate
<1>2. Sound /\ [Next]_vars => [Evaluate => Nearer]_vars
  BY <1>1
<1>. QED BY <1>2, InitSound, StepSound, PTL DEF Spec, ComesToAnEnd
=============================================================================

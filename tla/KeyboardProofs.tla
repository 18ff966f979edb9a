---------------------------- MODULE KeyboardProofs ---------------------------
(***************************************************************************)
(* Proofs about the keyboard driver of module Keyboard, for every set of   *)
(* keys, every pair of tables and a controller that holds any number of    *)
(* bytes.                                                                  *)
(***************************************************************************)
EXTENDS Keyboard, SequenceTheorems, FiniteSetTheorems, FunctionTheorems, TLAPS

\* The tables and the two Ctrl answers give characters only.
LEMMA TranslationType ==
  ASSUME NEW st, NEW code \in 0 .. 127, NEW release \in BOOLEAN
  PROVE  Translation(st, code, release) \in Ascii
BY KeyboardAssumption DEF Translation

\* What the keyboard sends for one key event: its code at the end, and before
\* it at most the prefix, which is no code of a modifier.
LEMMA CodesShape ==
  ASSUME NEW k \in Key, NEW release \in BOOLEAN, NEW keys
  PROVE  LET c == Codes(k, release, keys)
         IN  /\ c \in Seq(Byte)
             /\ Len(c) \in {1, 2}
             /\ c[Len(c)].code = ScanCode[k]
             /\ c[Len(c)].release = release
             /\ Len(c) = 2 => c[1].code = 96
<1>. DEFINE prefix == [code |-> 96, release |-> TRUE, meant |-> NUL]
            code == [code |-> ScanCode[k], release |-> release,
                     meant |-> Translation(Held(keys), ScanCode[k], release)]
            c == Codes(k, release, keys)
<1>1. prefix \in Byte /\ prefix.code = 96
  BY KeyboardAssumption DEF Byte
<1>2. ScanCode[k] \in 0 .. 127
  BY KeyboardAssumption
<1>3. code \in Byte /\ code.code = ScanCode[k] /\ code.release = release
  BY <1>2, TranslationType DEF Byte
<1>4. c = IF k \in Extended THEN <<prefix, code>> ELSE <<code>>
  BY DEF Codes
<1>. HIDE DEF prefix, code, c
<1>. QED BY <1>1, <1>3, <1>4 DEF c

LEMMA PrefixFree == ASSUME NEW m \in Modifier PROVE 96 \notin ModifierCode[m]
<1>1. m \in {"shift", "ctrl", "alt", "del"}
  BY DEF Modifier
<1>2. /\ ModifierCode["shift"] = {42, 54} /\ ModifierCode["ctrl"] = {29}
      /\ ModifierCode["alt"] = {56} /\ ModifierCode["del"] = {83}
  BY DEF ModifierCode
<1>. QED BY <1>1, <1>2

\* Reading a byte: what the driver will believe of a modifier once all waiting
\* bytes are read does not change when it reads one of them.
LEMMA PollForesees ==
  ASSUME obuf \in Seq(Byte), obuf # <<>>, obuf' = Tail(obuf),
         state' = update_modifiers(state, Head(obuf)),
         NEW m \in Modifier, Foreseen(m, TRUE)'
  PROVE  Foreseen(m, TRUE)
<1>1. /\ Len(obuf) \in Nat \ {0}
      /\ DOMAIN obuf = 1 .. Len(obuf) /\ DOMAIN obuf' = 1 .. Len(obuf) - 1
      /\ \A i \in 1 .. Len(obuf) - 1 : obuf'[i] = obuf[i + 1]
      /\ Head(obuf) = obuf[1]
  BY HeadTailProperties, LenProperties, EmptySeq
<1>2. \A i \in 1 .. Len(obuf) - 1 : i \in Pending(m)' <=> i + 1 \in Pending(m)
  BY <1>1 DEF Pending
<1>3. 1 \in Pending(m) <=> obuf[1].code \in ModifierCode[m]
  BY <1>1 DEF Pending
<1>4. Pending(m) \subseteq 1 .. Len(obuf) /\ Pending(m)' \subseteq 1 .. Len(obuf) - 1
  BY <1>1 DEF Pending
<1>5. state'[m] = IF obuf[1].code \in ModifierCode[m] THEN ~obuf[1].release
                                                       ELSE state[m]
  BY <1>1 DEF update_modifiers
<1>6. CASE Pending(m)' = {}
  <2>1. state'[m] = TRUE
    BY <1>6 DEF Foreseen
  <2>2. \A i \in Pending(m) : i = 1
    <3>1. \A i \in Pending(m) : i # 1 => i - 1 \in 1 .. Len(obuf) - 1 /\ (i - 1) + 1 = i
      BY <1>1, <1>4
    <3>. QED BY <3>1, <1>2, <1>6
  <2>3. CASE 1 \in Pending(m)
    <3>1. ~obuf[1].release
      BY <1>3, <1>5, <2>1, <2>3
    <3>2. obuf[1].release \in BOOLEAN
      <4>1. obuf[1] \in Byte
        BY <1>1, ElementOfSeq, 1 \in 1 .. Len(obuf)
      <4>. QED BY <4>1 DEF Byte
    <3>3. obuf[1].release = ~TRUE
      BY <3>1, <3>2
    <3>. QED BY <2>2, <2>3, <3>3, 1 <= 1 DEF Foreseen
  <2>4. CASE 1 \notin Pending(m)
    BY <1>3, <1>5, <2>1, <2>2, <2>4 DEF Foreseen
  <2>. QED BY <2>3, <2>4
<1>7. CASE Pending(m)' # {}
  <2>1. PICK i \in Pending(m)' : /\ \A j \in Pending(m)' : j <= i
                                 /\ obuf'[i].release = ~TRUE
    BY <1>7 DEF Foreseen
  <2>2. i \in 1 .. Len(obuf) - 1 /\ i + 1 \in Pending(m)
    BY <1>2, <1>4, <2>1
  <2>3. \A j \in Pending(m) : j <= i + 1
    <3>1. SUFFICES ASSUME NEW j \in Pending(m), j # 1 PROVE j <= i + 1
      BY <2>2
    <3>2. j - 1 \in 1 .. Len(obuf) - 1 /\ (j - 1) + 1 = j
      BY <1>1, <1>4, <3>1
    <3>3. j - 1 \in Pending(m)'
      BY <1>2, <3>2
    <3>. QED BY <2>1, <2>2, <3>2, <3>3
  <2>4. obuf[i + 1].release = ~TRUE
    BY <1>1, <2>1, <2>2
  <2>. QED BY <2>2, <2>3, <2>4 DEF Foreseen
<1>. QED BY <1>6, <1>7

\* A key event that fits into the queue: the driver's belief of a modifier
\* becomes that of the event, or stays if the key is not one of the modifier.
LEMMA SendForesees ==
  ASSUME obuf \in Seq(Byte), NEW k \in Key, NEW release \in BOOLEAN, NEW keys,
         obuf' = obuf \o Codes(k, release, keys), state' = state,
         NEW m \in Modifier, Foreseen(m, TRUE)'
  PROVE  IF ScanCode[k] \in ModifierCode[m] THEN ~release ELSE Foreseen(m, TRUE)
<1>. DEFINE c == Codes(k, release, keys)
            n == Len(obuf)
<1>1. /\ c \in Seq(Byte)
      /\ Len(c) \in {1, 2}
      /\ c[Len(c)].code = ScanCode[k]
      /\ c[Len(c)].release = release
      /\ Len(c) = 2 => c[1].code = 96
  BY CodesShape
<1>2. obuf' = obuf \o c
  OBVIOUS
<1>. HIDE DEF c
<1>3. /\ n \in Nat /\ DOMAIN obuf = 1 .. n
      /\ DOMAIN obuf' = 1 .. n + Len(c)
      /\ \A i \in 1 .. n : obuf'[i] = obuf[i]
      /\ \A i \in 1 .. Len(c) : obuf'[n + i] = c[i]
  <2>1. /\ obuf' \in Seq(Byte) /\ Len(obuf') = n + Len(c)
        /\ \A i \in 1 .. n + Len(c) :
             obuf'[i] = IF i <= n THEN obuf[i] ELSE c[i - n]
    BY <1>1, <1>2, ConcatProperties
  <2>2. n \in Nat /\ DOMAIN obuf = 1 .. n /\ DOMAIN obuf' = 1 .. n + Len(c)
    BY <2>1, LenProperties
  <2>. HIDE DEF n
  <2>. QED BY <1>1, <2>1, <2>2
<1>. HIDE DEF n
<1>4. 96 \notin ModifierCode[m]
  BY PrefixFree
<1>5. CASE ScanCode[k] \in ModifierCode[m]
  <2>1. /\ n + Len(c) \in DOMAIN obuf' /\ obuf'[n + Len(c)] = c[Len(c)]
        /\ \A i \in DOMAIN obuf' : i <= n + Len(c)
        /\ DOMAIN obuf' \subseteq Int
    <3>1. /\ Len(c) \in 1 .. Len(c) /\ Len(c) \in Nat /\ Len(c) >= 1
          /\ n \in Nat
      BY <1>1, <1>3
    <3>2. obuf'[n + Len(c)] = c[Len(c)]
      BY <1>3, <3>1, Zenon
    <3>3. n + Len(c) \in 1 .. n + Len(c)
      BY <3>1
    <3>4. \A i \in 1 .. n + Len(c) : i <= n + Len(c) /\ i \in Int
      BY <3>1
    <3>. QED BY <1>3, <3>2, <3>3, <3>4
  <2>2. n + Len(c) \in Pending(m)'
    <3>1. obuf'[n + Len(c)].code \in ModifierCode[m]
      BY <1>1, <1>5, <2>1
    <3>. QED BY <2>1, <3>1, Zenon DEF Pending
  <2>3. PICK i \in Pending(m)' : /\ \A j \in Pending(m)' : j <= i
                                 /\ obuf'[i].release = ~TRUE
    BY <2>2 DEF Foreseen
  <2>4. i \in DOMAIN obuf' /\ n + Len(c) <= i
    BY <2>2, <2>3 DEF Pending
  <2>5. i = n + Len(c)
    BY <1>1, <1>3, <2>1, <2>4
  <2>6. release = ~TRUE
    BY <1>1, <2>1, <2>3, <2>5
  <2>. QED BY <1>5, <2>6
<1>6. CASE ScanCode[k] \notin ModifierCode[m]
  <2>1. \A i \in 1 .. Len(c) : c[i].code \notin ModifierCode[m]
    BY <1>1, <1>4, <1>6
  <2>2. \A i \in 1 .. n + Len(c) : i > n => i - n \in 1 .. Len(c) /\ n + (i - n) = i
    BY <1>1, <1>3
  <2>3. Pending(m)' = Pending(m)
    <3>1. \A i \in 1 .. n : i \in Pending(m)' <=> i \in Pending(m)
      BY <1>1, <1>3 DEF Pending
    <3>2. ASSUME NEW i \in 1 .. n + Len(c), i > n PROVE i \notin Pending(m)'
      <4>1. obuf'[i] = c[i - n] /\ i - n \in 1 .. Len(c)
        BY <1>3, <2>2, <3>2
      <4>. QED BY <2>1, <4>1 DEF Pending
    <3>3. Pending(m) \subseteq 1 .. n /\ Pending(m)' \subseteq 1 .. n + Len(c)
      BY <1>3 DEF Pending
    <3>4. \A i \in 1 .. n + Len(c) : i \in 1 .. n \/ i > n
      BY <1>1, <1>3
    <3>. QED BY <3>1, <3>2, <3>3, <3>4
  <2>4. \A i \in Pending(m) : obuf'[i] = obuf[i]
    BY <1>3 DEF Pending
  <2>. QED BY <1>6, <2>3, <2>4 DEF Foreseen
<1>. QED BY <1>5, <1>6

\* The hardware never holds more than Capacity bytes, and a queue that has not
\* lost a byte has taken all of them.
LEMMA SendSound ==
  ASSUME obuf \in Seq(Byte), lost \in BOOLEAN, NEW bytes \in Seq(Byte), Send(bytes)
  PROVE  /\ obuf' \in Seq(Byte) /\ Len(obuf') <= Capacity
         /\ lost' \in BOOLEAN
         /\ ~lost' => ~lost /\ obuf' = obuf \o bytes
<1>. DEFINE all == obuf \o bytes
<1>1. all \in Seq(Byte)
  BY ConcatProperties
<1>2. Len(all) \in Nat /\ Capacity \in Nat \ {0}
  BY <1>1, LenProperties, KeyboardAssumption
<1>3. /\ obuf' = IF Len(all) <= Capacity THEN all ELSE SubSeq(all, 1, Capacity)
      /\ lost' = (lost \/ Len(all) > Capacity)
  BY DEF Send
<1>. HIDE DEF all
<1>4. CASE Len(all) <= Capacity
  BY <1>1, <1>2, <1>3, <1>4 DEF all
<1>5. CASE Len(all) > Capacity
  <2>1. \A i \in 1 .. Capacity : all[i] \in Byte
    BY <1>1, <1>2, <1>5, ElementOfSeq
  <2>2. /\ SubSeq(all, 1, Capacity) \in Seq(Byte)
        /\ Len(SubSeq(all, 1, Capacity)) = Capacity
    BY <1>2, <2>1, SubSeqProperties
  <2>3. lost' = TRUE
    BY <1>2, <1>3, <1>5
  <2>. QED BY <1>2, <1>3, <1>5, <2>2, <2>3
<1>. QED BY <1>2, <1>4, <1>5

-----------------------------------------------------------------------------
(* Whatever the typist does and whenever a program calls lazy_getchar, for *)
(* any keys and any capacity: the driver's variables and the queue keep    *)
(* their types and bounds, and until a byte is dropped no modifier bit     *)
(* outlives the keys that set it.                                          *)
THEOREM NoModifierSticks == Spec => [](TypeOK /\ NoStuckModifier)
<1>. DEFINE IInv == TypeOK /\ NoStuckModifier
<1>1. Init => IInv
  <2>. SUFFICES ASSUME Init PROVE IInv
    OBVIOUS
  <2>1. TypeOK
    <3>1. obuf \in Seq(Byte) /\ Len(obuf) = 0 /\ 0 <= Capacity
      BY KeyboardAssumption, EmptySeq DEF Init
    <3>2. NUL \in Ascii
      BY KeyboardAssumption
    <3>. QED BY <3>1, <3>2 DEF Init, TypeOK
  <2>2. \A m \in Modifier : ~Foreseen(m, TRUE)
    BY DEF Init, Foreseen, Pending
  <2>. QED BY <2>1, <2>2 DEF NoStuckModifier
<1>2. IInv /\ [Next]_vars => IInv'
  <2>. SUFFICES ASSUME IInv, [Next]_vars PROVE IInv'
    OBVIOUS
  <2>0. /\ TypeOK
        /\ obuf \in Seq(Byte) /\ lost \in BOOLEAN /\ down \subseteq Key
    BY DEF TypeOK
  <2>1. ASSUME NEW k \in Key, Press(k) PROVE IInv'
    <3>1. /\ Codes(k, FALSE, down') \in Seq(Byte)
          /\ Send(Codes(k, FALSE, down'))
          /\ down' = down \union {k} /\ last' = {k}
          /\ UNCHANGED <<state, phase, got>>
      BY <2>1, CodesShape DEF Press
    <3>2. TypeOK'
      BY <2>0, <2>1, <3>1, SendSound DEF TypeOK
    <3>3. ASSUME ~lost', NEW m \in Modifier, Foreseen(m, TRUE)' PROVE Held(down')[m]
      <4>1. obuf' = obuf \o Codes(k, FALSE, down') /\ ~lost
        BY <2>0, <3>1, <3>3, SendSound
      <4>2. CASE ScanCode[k] \in ModifierCode[m]
        BY <3>1, <4>2 DEF Held
      <4>3. CASE ScanCode[k] \notin ModifierCode[m]
        <5>1. Foreseen(m, TRUE)
          BY <2>0, <3>1, <3>3, <4>1, <4>3, SendForesees
        <5>2. Held(down)[m]
          BY <4>1, <5>1 DEF NoStuckModifier
        <5>. QED BY <3>1, <5>2 DEF Held
      <4>. QED BY <4>2, <4>3
    <3>. QED BY <3>2, <3>3 DEF NoStuckModifier
  <2>2. ASSUME NEW k \in Key, Repeat(k) PROVE IInv'
    <3>1. /\ Codes(k, FALSE, down) \in Seq(Byte)
          /\ Send(Codes(k, FALSE, down))
          /\ k \in down
          /\ UNCHANGED <<down, last, state, phase, got>>
      BY <2>0, <2>2, CodesShape DEF Repeat, TypeOK
    <3>2. TypeOK'
      BY <2>0, <3>1, SendSound DEF TypeOK
    <3>3. ASSUME ~lost', NEW m \in Modifier, Foreseen(m, TRUE)' PROVE Held(down')[m]
      <4>1. obuf' = obuf \o Codes(k, FALSE, down) /\ ~lost
        BY <2>0, <3>1, <3>3, SendSound
      <4>2. CASE ScanCode[k] \in ModifierCode[m]
        BY <3>1, <4>2 DEF Held
      <4>3. CASE ScanCode[k] \notin ModifierCode[m]
        <5>1. Foreseen(m, TRUE)
          BY <2>0, <3>1, <3>3, <4>1, <4>3, SendForesees
        <5>. QED BY <3>1, <4>1, <5>1 DEF NoStuckModifier
      <4>. QED BY <4>2, <4>3
    <3>. QED BY <3>2, <3>3 DEF NoStuckModifier
  <2>3. ASSUME NEW k \in Key, Release(k) PROVE IInv'
    <3>1. /\ Codes(k, TRUE, down') \in Seq(Byte)
          /\ Send(Codes(k, TRUE, down'))
          /\ down' = down \ {k} /\ last' = last \ {k}
          /\ UNCHANGED <<state, phase, got>>
      BY <2>3, CodesShape DEF Release
    <3>2. TypeOK'
      BY <2>0, <3>1, SendSound DEF TypeOK
    <3>3. ASSUME ~lost', NEW m \in Modifier, Foreseen(m, TRUE)' PROVE Held(down')[m]
      <4>1. obuf' = obuf \o Codes(k, TRUE, down') /\ ~lost
        BY <2>0, <3>1, <3>3, SendSound
      <4>2. ScanCode[k] \notin ModifierCode[m] /\ Foreseen(m, TRUE)
        BY <2>0, <3>1, <3>3, <4>1, SendForesees
      <4>3. Held(down)[m]
        BY <4>1, <4>2 DEF NoStuckModifier
      <4>. QED BY <3>1, <4>2, <4>3 DEF Held
    <3>. QED BY <3>2, <3>3 DEF NoStuckModifier
  <2>4. CASE GetChar
    BY <2>4 DEF GetChar, TypeOK, NoStuckModifier, Foreseen, Pending, Held
  <2>5. CASE Poll
    <3>1. /\ obuf # <<>> /\ obuf' = Tail(obuf)
          /\ state' = update_modifiers(state, Head(obuf))
          /\ UNCHANGED <<down, last, lost>>
          /\ UNCHANGED <<phase, got>>
             \/ /\ phase' = "busy"
                /\ got' = Translation(state', Head(obuf).code, Head(obuf).release)
      BY <2>5 DEF Poll, data_waiting
    <3>2. /\ Head(obuf) \in Byte /\ Tail(obuf) \in Seq(Byte)
          /\ Len(Tail(obuf)) = Len(obuf) - 1 /\ Len(obuf) \in Nat
      BY <2>0, <3>1, HeadTailProperties, LenProperties
    <3>3. /\ Head(obuf).code \in 0 .. 127 /\ Head(obuf).release \in BOOLEAN
      BY <3>2 DEF Byte
    <3>4. TypeOK'
      <4>1. state' \in [Modifier -> BOOLEAN]
        BY <2>0, <3>1, <3>3 DEF update_modifiers, TypeOK
      <4>2. got' \in Ascii /\ phase' \in {"busy", "waiting"}
        BY <2>0, <3>1, <3>3, TranslationType DEF TypeOK
      <4>3. obuf' \in Seq(Byte) /\ Len(obuf') <= Capacity
        BY <2>0, <3>1, <3>2, KeyboardAssumption DEF TypeOK
      <4>. QED BY <2>0, <3>1, <4>1, <4>2, <4>3 DEF TypeOK
    <3>5. ASSUME ~lost', NEW m \in Modifier, Foreseen(m, TRUE)' PROVE Held(down')[m]
      <4>1. Foreseen(m, TRUE)
        BY <2>0, <3>1, <3>5, PollForesees
      <4>. QED BY <3>1, <3>5, <4>1 DEF NoStuckModifier
    <3>. QED BY <3>4, <3>5 DEF NoStuckModifier
  <2>6. CASE UNCHANGED vars
    BY <2>6 DEF vars, TypeOK, NoStuckModifier, Foreseen, Pending, Held
  <2>. QED BY <2>1, <2>2, <2>3, <2>4, <2>5, <2>6 DEF Next, Typist
<1>. QED BY <1>1, <1>2, PTL DEF Spec

\* Of these, the types and bounds alone.
THEOREM TypesSound == Spec => []TypeOK
BY NoModifierSticks, PTL

-----------------------------------------------------------------------------
(* The characters among the bytes of a queue.                              *)

StruckIn(s) == {i \in DOMAIN s : s[i].meant # NUL}

TypedIn(s) ==
  [n \in 1 .. Cardinality(StruckIn(s)) |->
    s[CHOOSE i \in StruckIn(s) : Cardinality({j \in StruckIn(s) : j <= i}) = n].meant]

\* f lists the places of the k characters of s from the first to the last.
Lists(s, k, f) ==
  /\ k \in Nat /\ f \in [1 .. k -> StruckIn(s)]
  /\ \A a, b \in 1 .. k : a < b => f[a] < f[b]
  /\ \A i \in StruckIn(s) : \E n \in 1 .. k : f[n] = i

\* The n-th place on the list is the one with n characters up to it.
LEMMA RankIs ==
  ASSUME NEW s \in Seq(Byte), NEW k, NEW f, Lists(s, k, f), NEW n \in 0 .. k,
         NEW P, P = {f[a] : a \in 1 .. n}
  PROVE  Cardinality(P) = n
<1>. DEFINE g == [a \in 1 .. n |-> f[a]]
<1>1. k \in Nat /\ \A a \in 1 .. n : a \in 1 .. k
  BY DEF Lists
<1>2. f \in [1 .. k -> StruckIn(s)] /\ StruckIn(s) \subseteq Int
  BY DEF Lists, StruckIn
<1>3. \A a, b \in 1 .. k : a # b => f[a] # f[b]
  <2>1. ASSUME NEW a \in 1 .. k, NEW b \in 1 .. k, a < b
        PROVE  f[a] # f[b]
    BY <1>2, <2>1 DEF Lists
  <2>. QED BY <1>1, <2>1
<1>4. g \in Bijection(1 .. n, P)
  <2>1. g \in [1 .. n -> P] /\ \A a \in 1 .. n : g[a] = f[a]
    OBVIOUS
  <2>2. \A a, b \in 1 .. n : g[a] = g[b] => a = b
    BY <1>1, <1>3, <2>1
  <2>3. \A p \in P : \E a \in 1 .. n : g[a] = p
    BY <2>1
  <2>. HIDE DEF g
  <2>4. g \in Injection(1 .. n, P)
    BY <2>1, <2>2, Zenon DEF Injection, IsInjective
  <2>5. g \in Surjection(1 .. n, P)
    BY <2>1, <2>3, Zenon DEF Surjection
  <2>. QED BY <2>4, <2>5 DEF Bijection
<1>5. ExistsBijection(1 .. n, P)
  BY <1>4 DEF ExistsBijection
<1>6. IsFiniteSet(1 .. n) /\ Cardinality(1 .. n) = n
  BY <1>1, FS_Interval
<1>. QED BY <1>5, <1>6, FS_Bijection

LEMMA TypedIs ==
  ASSUME NEW s \in Seq(Byte), NEW k, NEW f, Lists(s, k, f)
  PROVE  TypedIn(s) = [n \in 1 .. k |-> s[f[n]].meant]
<1>. DEFINE P == StruckIn(s)
            UpTo(i) == {j \in P : j <= i}
<1>1. /\ k \in Nat /\ f \in [1 .. k -> P] /\ P \subseteq Int
      /\ \A a, b \in 1 .. k : a < b => f[a] < f[b]
      /\ \A i \in P : \E n \in 1 .. k : f[n] = i
  BY DEF Lists, StruckIn
<1>. HIDE DEF P
<1>2. P = {f[a] : a \in 1 .. k}
  BY <1>1
<1>0. \A n \in 1 .. k : f[n] \in Int /\ n \in Int
  <2>1. ASSUME NEW n \in 1 .. k PROVE f[n] \in Int /\ n \in Int
    <3>1. f[n] \in P
      BY <1>1
    <3>2. P \subseteq Int /\ k \in Nat
      BY <1>1
    <3>3. n \in Int
      BY <3>2
    <3>4. f[n] \in Int
      BY <3>1, <3>2, Zenon
    <3>. QED BY <3>3, <3>4
  <2>. QED BY <2>1
<1>3. Cardinality(P) = k
  <2>1. k \in 0 .. k
    BY <1>1
  <2>2. ASSUME NEW Q, Q = {f[a] : a \in 1 .. k} PROVE Cardinality(Q) = k
    BY <2>1, <2>2, RankIs
  <2>. QED BY <1>2, <2>2
<1>4. ASSUME NEW n \in 1 .. k
      PROVE  Cardinality(UpTo(f[n])) = n
  <2>1. \A a \in 1 .. k : f[a] <= f[n] <=> a <= n
    <3>1. ASSUME NEW a \in 1 .. k
          PROVE  f[a] <= f[n] <=> a <= n
      <4>1. f[a] \in Int /\ f[n] \in Int /\ a \in Int /\ n \in Int
        BY <1>0
      <4>2. (a < n => f[a] < f[n]) /\ (n < a => f[n] < f[a])
        BY <1>1
      <4>3. a < n \/ a = n \/ n < a
        BY <4>1
      <4>. QED BY <4>1, <4>2, <4>3
    <3>. QED BY <3>1
  <2>2. UpTo(f[n]) = {f[a] : a \in 1 .. n}
    <3>1. \A a \in 1 .. n : a \in 1 .. k /\ a <= n
      BY <1>1
    <3>2. \A a \in 1 .. k : a <= n => a \in 1 .. n
      BY <1>1
    <3>. QED BY <1>1, <1>2, <2>1, <3>1, <3>2
  <2>3. n \in 0 .. k
    BY <1>1
  <2>. QED BY <2>2, <2>3, RankIs
<1>5. ASSUME NEW n \in 1 .. k
      PROVE  (CHOOSE i \in P : Cardinality(UpTo(i)) = n) = f[n]
  <2>1. f[n] \in P
    BY <1>1
  <2>2. \A i \in P : Cardinality(UpTo(i)) = n => i = f[n]
    BY <1>1, <1>4
  <2>. HIDE DEF UpTo
  <2>. QED BY <1>4, <2>1, <2>2
<1>. DEFINE Place(n) == CHOOSE i \in P : Cardinality(UpTo(i)) = n
<1>6. TypedIn(s) = [n \in 1 .. Cardinality(P) |-> s[Place(n)].meant]
  BY DEF TypedIn, P
<1>7. \A n \in 1 .. k : Place(n) = f[n]
  BY <1>5
<1>. HIDE DEF Place
<1>. QED BY <1>3, <1>6, <1>7

\* A byte that is no character is not typed, another one is typed last.
LEMMA AppendTyped ==
  ASSUME NEW s \in Seq(Byte), NEW k, NEW f, Lists(s, k, f), NEW b \in Byte
  PROVE  LET t == Append(s, b)
         IN  /\ \E l, g : Lists(t, l, g)
             /\ b.meant = NUL => TypedIn(t) = TypedIn(s)
             /\ b.meant # NUL => TypedIn(t) = Append(TypedIn(s), b.meant)
<1>. DEFINE t == Append(s, b)
            m == Len(s) + 1
<1>1. /\ Len(s) \in Nat /\ m \in Nat /\ DOMAIN s = 1 .. Len(s)
      /\ t \in Seq(Byte) /\ DOMAIN t = 1 .. m
      /\ t[m] = b /\ \A i \in 1 .. Len(s) : t[i] = s[i]
      /\ \A i \in 1 .. m : i \in 1 .. Len(s) \/ i = m
      /\ \A i \in 1 .. Len(s) : i \in 1 .. m /\ i < m /\ i # m
  OBVIOUS
<1>2. /\ k \in Nat /\ f \in [1 .. k -> StruckIn(s)]
      /\ \A a, c \in 1 .. k : a < c => f[a] < f[c]
      /\ \A i \in StruckIn(s) : \E n \in 1 .. k : f[n] = i
  BY DEF Lists
<1>3. TypedIn(s) = [n \in 1 .. k |-> s[f[n]].meant]
  BY TypedIs
<1>4. \A n \in 1 .. k : f[n] \in 1 .. Len(s)
  BY <1>1, <1>2 DEF StruckIn
<1>. HIDE DEF t, m
<1>5. CASE b.meant = NUL
  <2>1. StruckIn(t) = StruckIn(s)
    BY <1>1, <1>5 DEF StruckIn
  <2>2. Lists(t, k, f)
    BY <1>2, <2>1 DEF Lists
  <2>3. TypedIn(t) = [n \in 1 .. k |-> t[f[n]].meant]
    BY <1>1, <2>2, TypedIs
  <2>4. TypedIn(t) = TypedIn(s)
    BY <1>1, <1>3, <1>4, <2>3
  <2>. QED BY <1>5, <2>2, <2>4 DEF t
<1>6. CASE b.meant # NUL
  <2>. DEFINE g == [n \in 1 .. k + 1 |-> IF n = k + 1 THEN m ELSE f[n]]
  <2>1. StruckIn(t) = StruckIn(s) \union {m}
    <3>1. \A i \in 1 .. m : i \in StruckIn(t) <=> i \in StruckIn(s) \/ i = m
      BY <1>1, <1>6 DEF StruckIn
    <3>2. StruckIn(t) \subseteq 1 .. m /\ StruckIn(s) \subseteq 1 .. Len(s)
      BY <1>1 DEF StruckIn
    <3>3. m \in 1 .. m
      BY <1>1 DEF m
    <3>. QED BY <1>1, <3>1, <3>2, <3>3
  <2>2. /\ k + 1 \in Nat /\ k + 1 \in 1 .. k + 1
        /\ \A n \in 1 .. k + 1 : n \in 1 .. k \/ n = k + 1
        /\ \A n \in 1 .. k : n \in 1 .. k + 1 /\ n # k + 1 /\ n < k + 1
        /\ \A n \in 1 .. k : ~(k + 1 < n)
    BY <1>2
  <2>3. g \in [1 .. k + 1 -> StruckIn(t)]
    BY <1>2, <2>1, <2>2
  <2>4. g[k + 1] = m /\ \A n \in 1 .. k : g[n] = f[n]
    BY <2>2
  <2>. HIDE DEF g
  <2>5. ASSUME NEW a \in 1 .. k + 1, NEW c \in 1 .. k + 1, a < c
        PROVE  g[a] < g[c]
    <3>1. a \in 1 .. k
      BY <1>2, <2>5
    <3>2. CASE c \in 1 .. k
      BY <1>2, <2>4, <2>5, <3>1, <3>2
    <3>3. CASE c = k + 1
      <4>1. f[a] < m
        BY <1>1, <1>4, <3>1
      <4>. QED BY <2>4, <3>1, <3>3, <4>1
    <3>. QED BY <2>2, <3>2, <3>3
  <2>6. \A i \in StruckIn(t) : \E n \in 1 .. k + 1 : g[n] = i
    BY <1>2, <2>1, <2>2, <2>4
  <2>7. Lists(t, k + 1, g)
    BY <2>2, <2>3, <2>5, <2>6 DEF Lists
  <2>8. TypedIn(t) = [n \in 1 .. k + 1 |-> t[g[n]].meant]
    BY <1>1, <2>7, TypedIs
  <2>9. TypedIn(t) = Append(TypedIn(s), b.meant)
    <3>1. \A n \in 1 .. k : t[g[n]].meant = s[f[n]].meant
      BY <1>1, <1>4, <2>4
    <3>2. t[g[k + 1]].meant = b.meant
      BY <1>1, <2>4
    <3>. DEFINE old == [n \in 1 .. k |-> s[f[n]].meant]
    <3>3. old \in Seq(Ascii) /\ Len(old) = k /\ b.meant \in Ascii
      <4>1. \A n \in 1 .. k : s[f[n]] \in Byte
        BY <1>4, ElementOfSeq
      <4>3. \A n \in 1 .. k : s[f[n]].meant \in Ascii
        BY <4>1 DEF Byte
      <4>2. b.meant \in Ascii
        BY DEF Byte
      <4>. QED BY <1>2, <4>3, <4>2
    <3>4. Append(old, b.meant) = [n \in 1 .. k + 1 |-> IF n = k + 1 THEN b.meant ELSE old[n]]
      <4>. HIDE DEF old
      <4>. QED BY <1>2, <3>3
    <3>5. \A n \in 1 .. k + 1 : t[g[n]].meant = IF n = k + 1 THEN b.meant ELSE old[n]
      BY <2>2, <3>1, <3>2
    <3>. HIDE DEF old
    <3>. QED BY <1>3, <2>8, <3>4, <3>5 DEF old
  <2>. QED BY <1>6, <2>7, <2>9 DEF t
<1>. QED BY <1>5, <1>6 DEF t

\* Reading a byte that is a character takes the first of those typed.
LEMMA TailTyped ==
  ASSUME NEW s \in Seq(Byte), s # <<>>, NEW k, NEW f, Lists(s, k, f)
  PROVE  LET t == Tail(s)
         IN  /\ \E l, g : Lists(t, l, g)
             /\ Head(s).meant = NUL => TypedIn(t) = TypedIn(s)
             /\ Head(s).meant # NUL => /\ TypedIn(s) # <<>>
                                       /\ Head(TypedIn(s)) = Head(s).meant
                                       /\ TypedIn(t) = Tail(TypedIn(s))
<1>. DEFINE t == Tail(s)
            m == Len(s)
<1>1. /\ m \in Nat \ {0} /\ DOMAIN s = 1 .. m /\ t \in Seq(Byte)
      /\ DOMAIN t = 1 .. m - 1 /\ \A i \in 1 .. m - 1 : t[i] = s[i + 1]
      /\ Head(s) = s[1]
  BY HeadTailProperties, LenProperties, EmptySeq
<1>2. /\ k \in Nat /\ f \in [1 .. k -> StruckIn(s)]
      /\ \A a, c \in 1 .. k : a < c => f[a] < f[c]
      /\ \A i \in StruckIn(s) : \E n \in 1 .. k : f[n] = i
  BY DEF Lists
<1>3. TypedIn(s) = [n \in 1 .. k |-> s[f[n]].meant]
  BY TypedIs
<1>. HIDE DEF t, m
<1>4. StruckIn(s) \subseteq 1 .. m /\ StruckIn(t) \subseteq 1 .. m - 1
  BY <1>1 DEF StruckIn
<1>5. \A n \in 1 .. k : f[n] \in 1 .. m
  <2>1. ASSUME NEW n \in 1 .. k PROVE f[n] \in 1 .. m
    <3>1. f[n] \in StruckIn(s)
      BY <1>2
    <3>. QED BY <1>4, <3>1, Zenon
  <2>. QED BY <2>1
<1>6. \A i \in 1 .. m - 1 : i + 1 \in 1 .. m /\ (i \in StruckIn(t) <=> i + 1 \in StruckIn(s))
  BY <1>1 DEF StruckIn
<1>7. \A i \in 1 .. m : i > 1 => i - 1 \in 1 .. m - 1 /\ (i - 1) + 1 = i
  BY <1>1
<1>8. CASE s[1].meant = NUL
  <2>. DEFINE g == [n \in 1 .. k |-> f[n] - 1]
  <2>1. ASSUME NEW n \in 1 .. k
        PROVE  f[n] - 1 \in 1 .. m - 1 /\ f[n] - 1 \in StruckIn(t) /\ (f[n] - 1) + 1 = f[n]
    <3>1. f[n] \in StruckIn(s) /\ f[n] \in 1 .. m
      BY <1>2, <1>5
    <3>2. f[n] # 1
      BY <1>8, <3>1 DEF StruckIn
    <3>3. f[n] > 1
      BY <1>1, <3>1, <3>2
    <3>4. f[n] - 1 \in 1 .. m - 1 /\ (f[n] - 1) + 1 = f[n]
      BY <1>7, <3>1, <3>3
    <3>. QED BY <1>6, <3>1, <3>4
  <2>2. g \in [1 .. k -> StruckIn(t)] /\ \A n \in 1 .. k : g[n] = f[n] - 1
    BY <2>1
  <2>. HIDE DEF g
  <2>3. ASSUME NEW a \in 1 .. k, NEW c \in 1 .. k, a < c
        PROVE  g[a] < g[c]
    <3>1. f[a] < f[c] /\ f[a] \in Int /\ f[c] \in Int
      BY <1>2, <1>5, <2>3
    <3>. QED BY <2>2, <3>1
  <2>4. ASSUME NEW i \in StruckIn(t)
        PROVE  \E n \in 1 .. k : g[n] = i
    <3>1. i \in 1 .. m - 1 /\ i \in Int
      BY <1>4
    <3>2. PICK n \in 1 .. k : f[n] = i + 1
      BY <1>2, <1>6, <3>1
    <3>. QED BY <2>2, <3>1, <3>2
  <2>5. Lists(t, k, g)
    BY <1>2, <2>2, <2>3, <2>4 DEF Lists
  <2>6. TypedIn(t) = [n \in 1 .. k |-> t[g[n]].meant]
    BY <1>1, <2>5, TypedIs
  <2>7. ASSUME NEW n \in 1 .. k PROVE t[g[n]] = s[f[n]]
    <3>1. g[n] \in 1 .. m - 1 /\ g[n] + 1 = f[n]
      BY <2>1, <2>2
    <3>. QED BY <1>1, <3>1
  <2>8. TypedIn(t) = TypedIn(s)
    BY <1>3, <2>6, <2>7
  <2>. QED BY <1>1, <1>8, <2>5, <2>8 DEF t
<1>9. CASE s[1].meant # NUL
  <2>. DEFINE g == [n \in 1 .. k - 1 |-> f[n + 1] - 1]
  <2>1. 1 \in StruckIn(s)
    BY <1>1, <1>9 DEF StruckIn
  <2>2. PICK one \in 1 .. k : f[one] = 1
    BY <1>2, <2>1
  <2>3. 1 \in 1 .. k /\ f[1] = 1
    <3>1. 1 \in 1 .. k /\ one \in Int /\ one >= 1
      BY <1>2, <2>2
    <3>2. f[1] \in Int /\ f[1] >= 1
      BY <1>5, <3>1
    <3>3. CASE 1 < one
      <4>1. f[1] < f[one]
        BY <1>2, <3>1, <3>3
      <4>. QED BY <2>2, <3>2, <4>1
    <3>. QED BY <2>2, <3>1, <3>3
  <2>4. /\ k - 1 \in Nat
        /\ \A n \in 1 .. k - 1 : n + 1 \in 1 .. k /\ 1 < n + 1 /\ n \in 1 .. k
        /\ \A n \in 1 .. k : n > 1 => n - 1 \in 1 .. k - 1 /\ (n - 1) + 1 = n
        /\ \A n \in 1 .. k : n = 1 \/ n > 1
    BY <1>2, <2>3
  <2>5. ASSUME NEW n \in 1 .. k - 1
        PROVE  /\ f[n + 1] - 1 \in 1 .. m - 1 /\ f[n + 1] - 1 \in StruckIn(t)
               /\ (f[n + 1] - 1) + 1 = f[n + 1]
    <3>1. f[n + 1] \in StruckIn(s) /\ f[n + 1] \in 1 .. m
      BY <1>2, <1>5, <2>4
    <3>2. f[1] < f[n + 1]
      BY <1>2, <2>3, <2>4
    <3>3. f[n + 1] > 1
      BY <1>1, <2>3, <3>1, <3>2
    <3>4. f[n + 1] - 1 \in 1 .. m - 1 /\ (f[n + 1] - 1) + 1 = f[n + 1]
      BY <1>7, <3>1, <3>3
    <3>. QED BY <1>6, <3>1, <3>4
  <2>6. /\ g \in [1 .. k - 1 -> StruckIn(t)]
        /\ \A n \in 1 .. k - 1 : g[n] = f[n + 1] - 1
    BY <2>5
  <2>. HIDE DEF g
  <2>7. ASSUME NEW a \in 1 .. k - 1, NEW c \in 1 .. k - 1, a < c
        PROVE  g[a] < g[c]
    <3>1. a + 1 \in 1 .. k /\ c + 1 \in 1 .. k /\ a + 1 < c + 1
      BY <2>4, <2>7
    <3>2. f[a + 1] < f[c + 1] /\ f[a + 1] \in Int /\ f[c + 1] \in Int
      BY <1>2, <1>5, <3>1
    <3>. QED BY <2>6, <3>2
  <2>8. ASSUME NEW i \in StruckIn(t)
        PROVE  \E n \in 1 .. k - 1 : g[n] = i
    <3>1. i \in 1 .. m - 1 /\ i \in Int /\ i >= 1
      BY <1>4
    <3>2. PICK n \in 1 .. k : f[n] = i + 1
      BY <1>2, <1>6, <3>1
    <3>3. n > 1
      BY <2>3, <2>4, <3>1, <3>2
    <3>4. n - 1 \in 1 .. k - 1 /\ (n - 1) + 1 = n
      BY <2>4, <3>3
    <3>. QED BY <2>6, <3>1, <3>2, <3>4
  <2>9. Lists(t, k - 1, g)
    BY <2>4, <2>6, <2>7, <2>8 DEF Lists
  <2>10. TypedIn(t) = [n \in 1 .. k - 1 |-> t[g[n]].meant]
    BY <1>1, <2>9, TypedIs
  <2>11. ASSUME NEW n \in 1 .. k - 1 PROVE t[g[n]] = s[f[n + 1]]
    <3>1. g[n] \in 1 .. m - 1 /\ g[n] + 1 = f[n + 1]
      BY <2>5, <2>6
    <3>. QED BY <1>1, <3>1
  <2>. DEFINE c == [n \in 1 .. k |-> s[f[n]].meant]
  <2>12. c \in Seq(Ascii) /\ Len(c) = k
    <3>1. \A n \in 1 .. k : s[f[n]] \in Byte
      BY <1>5, ElementOfSeq DEF m
    <3>2. \A n \in 1 .. k : s[f[n]].meant \in Ascii
      BY <3>1 DEF Byte
    <3>. QED BY <1>2, <3>2
  <2>13. c[1] = s[1].meant /\ \A n \in 1 .. k - 1 : c[n + 1] = s[f[n + 1]].meant
    BY <2>3, <2>4
  <2>. HIDE DEF c
  <2>14. c # <<>> /\ Head(c) = c[1] /\ Tail(c) = [n \in 1 .. k - 1 |-> c[n + 1]]
    <3>1. k \in Nat /\ k # 0
      BY <1>2, <2>3
    <3>2. c # <<>>
      BY <2>12, <3>1, EmptySeq
    <3>3. /\ Head(c) = c[1] /\ Tail(c) \in Seq(Ascii) /\ Len(Tail(c)) = k - 1
          /\ \A n \in 1 .. k - 1 : Tail(c)[n] = c[n + 1]
      BY <2>12, <3>1, <3>2, HeadTailProperties
    <3>4. Tail(c) = [n \in 1 .. k - 1 |-> Tail(c)[n]]
      BY <3>3, LenProperties
    <3>. HIDE DEF c
    <3>. QED BY <3>2, <3>3, <3>4
  <2>15. TypedIn(t) = Tail(c)
    BY <2>10, <2>11, <2>13, <2>14
  <2>. QED BY <1>1, <1>3, <1>9, <2>9, <2>13, <2>14, <2>15 DEF t, c
<1>. QED BY <1>8, <1>9

-----------------------------------------------------------------------------
(* The modifier bits in step with the queue.                               *)

\* h tells the modifier bits after each waiting byte: from st, the driver's
\* now, to those of the keys that are held, and every byte means the character
\* that it has under the bits at its place.
Followed(s, st, keys, h) ==
  /\ h \in [0 .. Len(s) -> [Modifier -> BOOLEAN]]
  /\ h[0] = st
  /\ h[Len(s)] = Held(keys)
  /\ \A i \in 1 .. Len(s) :
       /\ h[i] = update_modifiers(h[i - 1], s[i])
       /\ s[i].meant = Translation(h[i], s[i].code, s[i].release)

Listed(s) == s \in Seq(Byte) /\ \E k, f : Lists(s, k, f)

\* What a queue without loss keeps true: its characters can be listed and its
\* modifier bits followed.
InStep(s, st, keys) ==
  /\ Listed(s)
  /\ \E h : Followed(s, st, keys, h)

\* The keys that were held when k was pressed or released, and those after.
Turns(old, new, k, release) ==
  \A m \in Modifier :
    Held(new)[m] = IF ScanCode[k] \in ModifierCode[m] THEN ~release
                                                      ELSE Held(old)[m]

LEMMA HeldType == ASSUME NEW keys PROVE Held(keys) \in [Modifier -> BOOLEAN]
BY DEF Held

LEMMA AppendListed ==
  ASSUME NEW s, Listed(s), NEW b \in Byte
  PROVE  /\ Listed(Append(s, b))
         /\ TypedIn(Append(s, b)) = IF b.meant = NUL THEN TypedIn(s)
                                    ELSE Append(TypedIn(s), b.meant)
<1>1. s \in Seq(Byte)
  BY DEF Listed
<1>2. PICK k, f : Lists(s, k, f)
  BY DEF Listed
<1>3. Append(s, b) \in Seq(Byte)
  BY <1>1
<1>. QED BY <1>1, <1>2, <1>3, AppendTyped DEF Listed

\* A byte that turns the bits of the held keys before it into those after it.
LEMMA AppendInStep ==
  ASSUME NEW s, NEW st, NEW old, NEW new, NEW b \in Byte, InStep(s, st, old),
         update_modifiers(Held(old), b) = Held(new),
         b.meant = Translation(Held(new), b.code, b.release)
  PROVE  InStep(Append(s, b), st, new)
<1>. DEFINE t == Append(s, b)
            n == Len(s) + 1
<1>1. s \in Seq(Byte)
  BY DEF InStep, Listed
<1>3. PICK h : Followed(s, st, old, h)
  BY DEF InStep
<1>4. Listed(t)
  BY AppendListed DEF InStep
<1>5. /\ Len(s) \in Nat /\ n \in Nat /\ n = Len(s) + 1 /\ Len(t) = n
      /\ t \in Seq(Byte) /\ t[n] = b /\ \A i \in 1 .. Len(s) : t[i] = s[i]
      /\ \A i \in 1 .. n : i \in 1 .. Len(s) \/ i = n
      /\ \A i \in 0 .. n : i \in 0 .. Len(s) \/ i = n
      /\ \A i \in 0 .. Len(s) : i # n /\ i \in 0 .. n
      /\ \A i \in 1 .. Len(s) : i \in 0 .. Len(s) /\ i - 1 \in 0 .. Len(s)
      /\ n - 1 = Len(s) /\ n \in 0 .. n
      /\ 0 \in 0 .. Len(s) /\ Len(s) \in 0 .. Len(s)
  BY <1>1
<1>. HIDE DEF t, n
<1>. DEFINE g == [i \in 0 .. n |-> IF i = n THEN Held(new) ELSE h[i]]
<1>6. g[n] = Held(new) /\ \A i \in 0 .. Len(s) : g[i] = h[i]
  BY <1>5
<1>7. g \in [0 .. n -> [Modifier -> BOOLEAN]]
  <2>1. Held(new) \in [Modifier -> BOOLEAN]
    BY HeldType
  <2>2. \A i \in 0 .. Len(s) : h[i] \in [Modifier -> BOOLEAN]
    BY <1>3 DEF Followed
  <2>. QED BY <1>5, <2>1, <2>2
<1>. HIDE DEF g
<1>8. ASSUME NEW i \in 1 .. n
      PROVE  /\ g[i] = update_modifiers(g[i - 1], t[i])
             /\ t[i].meant = Translation(g[i], t[i].code, t[i].release)
  <2>1. CASE i = n
    <3>1. g[n - 1] = Held(old)
      BY <1>3, <1>5, <1>6 DEF Followed
    <3>. QED BY <1>5, <1>6, <2>1, <3>1
  <2>2. CASE i \in 1 .. Len(s)
    <3>1. g[i] = h[i] /\ g[i - 1] = h[i - 1] /\ t[i] = s[i]
      BY <1>5, <1>6, <2>2
    <3>. QED BY <1>3, <2>2, <3>1 DEF Followed
  <2>. QED BY <1>5, <2>1, <2>2
<1>9. g[0] = st
  BY <1>3, <1>5, <1>6 DEF Followed
<1>10. Followed(t, st, new, g)
  BY <1>5, <1>6, <1>7, <1>8, <1>9 DEF Followed
<1>. QED BY <1>4, <1>10 DEF InStep, t

\* Reading a byte leaves the rest in step, and means what was meant.
LEMMA TailInStep ==
  ASSUME NEW s, NEW st, NEW keys, InStep(s, st, keys), s # <<>>,
         NEW now, now = update_modifiers(st, Head(s))
  PROVE  /\ InStep(Tail(s), now, keys)
         /\ Head(s).meant = Translation(now, Head(s).code, Head(s).release)
<1>. DEFINE t == Tail(s)
            n == Len(s) - 1
<1>1. s \in Seq(Byte)
  BY DEF InStep, Listed
<1>2. PICK k, f : Lists(s, k, f)
  BY DEF InStep, Listed
<1>3. PICK h : Followed(s, st, keys, h)
  BY DEF InStep
<1>4. \E l, g : Lists(t, l, g)
  BY <1>1, <1>2, TailTyped
<1>5. /\ Len(s) \in Nat /\ Len(s) # 0 /\ t \in Seq(Byte) /\ Len(t) = Len(s) - 1
      /\ \A i \in 1 .. Len(s) - 1 : t[i] = s[i + 1]
      /\ Head(s) = s[1]
  BY <1>1, HeadTailProperties, LenProperties, EmptySeq
<1>6. /\ n \in Nat /\ n + 1 = Len(s) /\ Len(t) = n
      /\ \A i \in 0 .. n : i + 1 \in 0 .. Len(s)
      /\ \A i \in 1 .. n : /\ i + 1 \in 1 .. Len(s) /\ i \in 0 .. n
                           /\ i - 1 \in 0 .. n /\ (i - 1) + 1 = i /\ (i + 1) - 1 = i
      /\ 0 \in 0 .. n /\ n \in 0 .. n /\ 0 + 1 = 1 /\ 1 - 1 = 0 /\ 1 \in 1 .. Len(s)
      /\ \A i \in 1 .. n : t[i] = s[i + 1]
  BY <1>5
<1>. HIDE DEF t, n
<1>. DEFINE g == [i \in 0 .. n |-> h[i + 1]]
<1>7. /\ g \in [0 .. n -> [Modifier -> BOOLEAN]]
      /\ \A i \in 0 .. n : g[i] = h[i + 1]
  <2>1. \A i \in 0 .. Len(s) : h[i] \in [Modifier -> BOOLEAN]
    BY <1>3 DEF Followed
  <2>. QED BY <1>6, <2>1
<1>. HIDE DEF g
<1>8. \A i \in 1 .. Len(s) : /\ h[i] = update_modifiers(h[i - 1], s[i])
                             /\ s[i].meant = Translation(h[i], s[i].code, s[i].release)
  BY <1>3 DEF Followed
<1>9. h[1] = now
  <2>1. h[1] = update_modifiers(h[1 - 1], s[1])
    BY <1>6, <1>8
  <2>2. h[1 - 1] = st
    BY <1>3, <1>6 DEF Followed
  <2>. QED BY <1>5, <2>1, <2>2
<1>10. ASSUME NEW i \in 1 .. n
       PROVE  /\ g[i] = update_modifiers(g[i - 1], t[i])
              /\ t[i].meant = Translation(g[i], t[i].code, t[i].release)
  <2>1. g[i] = h[i + 1] /\ g[i - 1] = h[i] /\ t[i] = s[i + 1]
    BY <1>6, <1>7
  <2>2. /\ h[i + 1] = update_modifiers(h[(i + 1) - 1], s[i + 1])
        /\ s[i + 1].meant = Translation(h[i + 1], s[i + 1].code, s[i + 1].release)
    BY <1>6, <1>8
  <2>. QED BY <1>6, <2>1, <2>2
<1>11. g[0] = now /\ g[n] = Held(keys)
  BY <1>3, <1>6, <1>7, <1>9 DEF Followed
<1>12. Followed(t, now, keys, g)
  BY <1>6, <1>7, <1>10, <1>11 DEF Followed
<1>13. Head(s).meant = Translation(now, Head(s).code, Head(s).release)
  BY <1>5, <1>6, <1>8, <1>9
<1>. QED BY <1>4, <1>5, <1>12, <1>13 DEF InStep, Listed, t

Grows(s, t) ==
  \/ TypedIn(t) = TypedIn(s)
  \/ \E c \in Ascii \ {NUL} : TypedIn(t) = Append(TypedIn(s), c)

\* A key event that fits into the queue and leaves the keys of its modifier as
\* its own code says keeps the queue in step, and types at most one character.
LEMMA SendInStep ==
  ASSUME NEW s, NEW st, NEW old, NEW new, NEW k \in Key, NEW release \in BOOLEAN,
         InStep(s, st, old), Turns(old, new, k, release)
  PROVE  /\ InStep(s \o Codes(k, release, new), st, new)
         /\ Grows(s, s \o Codes(k, release, new))
<1>. DEFINE t == s \o Codes(k, release, new)
            prefix == [code |-> 96, release |-> TRUE, meant |-> NUL]
            code == [code |-> ScanCode[k], release |-> release,
                     meant |-> Translation(Held(new), ScanCode[k], release)]
<1>1. s \in Seq(Byte)
  BY DEF InStep, Listed
<1>2. prefix \in Byte /\ prefix.meant = NUL /\ prefix.code = 96 /\ prefix.release = TRUE
  BY KeyboardAssumption DEF Byte
<1>3. /\ code \in Byte /\ code.code = ScanCode[k] /\ code.release = release
      /\ code.meant = Translation(Held(new), ScanCode[k], release)
  <2>1. ScanCode[k] \in 0 .. 127
    BY KeyboardAssumption
  <2>. QED BY <2>1, TranslationType DEF Byte
<1>4. Codes(k, release, new) = IF k \in Extended THEN <<prefix, code>> ELSE <<code>>
  BY DEF Codes
<1>. HIDE DEF prefix, code, t
<1>5. update_modifiers(Held(old), code) = Held(new)
  <2>1. Held(new) \in [Modifier -> BOOLEAN]
    BY HeldType
  <2>2. Held(new) = [m \in Modifier |-> Held(new)[m]]
    BY <2>1
  <2>. QED BY <1>3, <2>2 DEF update_modifiers, Turns
<1>6. ASSUME NEW q, InStep(q, st, old)
      PROVE  InStep(Append(q, code), st, new) /\ Grows(q, Append(q, code))
  <2>1. code \in Byte /\ code.meant \in Ascii
    BY <1>3 DEF Byte
  <2>2. code.meant = Translation(Held(new), code.code, code.release)
    BY <1>3
  <2>3. InStep(Append(q, code), st, new)
    BY <1>5, <1>6, <2>1, <2>2, AppendInStep
  <2>4. Listed(q)
    BY <1>6 DEF InStep
  <2>5. TypedIn(Append(q, code)) = IF code.meant = NUL THEN TypedIn(q)
                                   ELSE Append(TypedIn(q), code.meant)
    BY <2>1, <2>4, AppendListed
  <2>. QED BY <2>1, <2>3, <2>5 DEF Grows
<1>7. CASE k \notin Extended
  <2>1. t = Append(s, code)
    BY <1>1, <1>3, <1>4, <1>7 DEF t
  <2>. QED BY <1>6, <2>1 DEF t
<1>8. CASE k \in Extended
  <2>1. t = Append(Append(s, prefix), code)
    BY <1>1, <1>2, <1>3, <1>4, <1>8 DEF t
  <2>2. update_modifiers(Held(old), prefix) = Held(old)
    <3>1. \A m \in Modifier : 96 \notin ModifierCode[m]
      BY PrefixFree
    <3>2. Held(old) = [m \in Modifier |-> Held(old)[m]]
      BY HeldType
    <3>. QED BY <1>2, <3>1, <3>2 DEF update_modifiers
  <2>3. prefix.meant = Translation(Held(old), prefix.code, prefix.release)
    BY <1>2 DEF Translation
  <2>4. InStep(Append(s, prefix), st, old)
    BY <1>2, <2>2, <2>3, AppendInStep
  <2>5. TypedIn(Append(s, prefix)) = TypedIn(s)
    BY <1>2, AppendListed DEF InStep
  <2>6. InStep(t, st, new) /\ Grows(Append(s, prefix), t)
    BY <1>6, <2>1, <2>4
  <2>. QED BY <2>5, <2>6 DEF Grows, t
<1>. QED BY <1>7, <1>8

-----------------------------------------------------------------------------
(* The driver as a type-ahead buffer.                                      *)

\* No two keys of one modifier are held.  update_modifiers breaks what follows
\* for two Shift keys at a time: the release of one clears the bit that the
\* other still holds (keyboard.c:58).
OneHeldPerModifier ==
  \A m \in Modifier, j, k \in down :
    ScanCode[j] \in ModifierCode[m] /\ ScanCode[k] \in ModifierCode[m] => j = k

Queued == ~lost => InStep(obuf, state, down)

AheadInv == TypeOK /\ Queued

LEMMA TypedHere == Typed = TypedIn(obuf)
BY DEF Typed, TypedIn, Struck, StruckIn

LEMMA InitQueued == Init => AheadInv /\ Ahead!Init
<1>. SUFFICES ASSUME Init PROVE AheadInv /\ Ahead!Init
  OBVIOUS
<1>1. /\ obuf \in Seq(Byte) /\ Len(obuf) = 0 /\ 0 <= Capacity /\ DOMAIN obuf = {}
      /\ NUL \in Ascii
  BY KeyboardAssumption, EmptySeq DEF Init
<1>2. TypeOK
  BY <1>1 DEF Init, TypeOK
<1>3. StruckIn(obuf) = {}
  BY <1>1 DEF StruckIn
<1>4. Lists(obuf, 0, [n \in 1 .. 0 |-> 0])
  BY <1>3 DEF Lists
<1>5. Held({}) = [m \in Modifier |-> FALSE]
  BY DEF Held
<1>6. Followed(obuf, state, down, [i \in 0 .. 0 |-> state])
  <2>1. state = Held(down) /\ state \in [Modifier -> BOOLEAN]
    BY <1>5, HeldType DEF Init
  <2>. QED BY <1>1, <2>1 DEF Followed
<1>7. Typed = <<>>
  BY <1>3, TypedHere, FS_EmptySet DEF TypedIn
<1>. QED BY <1>1, <1>2, <1>4, <1>6, <1>7 DEF AheadInv, Queued, InStep, Listed, Ahead!Init, Init

\* A key event that changes the bits of its own modifiers only is a Strike of
\* the buffer, unnoticed by it, or lost.
LEMMA SendStrikes ==
  ASSUME TypeOK, Queued, NEW k \in Key, NEW release \in BOOLEAN,
         Send(Codes(k, release, down')), UNCHANGED <<state, got>>,
         Turns(down, down', k, release)
  PROVE  Queued' /\ [Ahead!Next]_(Ahead!vars)
<1>1. obuf \in Seq(Byte) /\ lost \in BOOLEAN
  BY DEF TypeOK
<1>2. Codes(k, release, down') \in Seq(Byte)
  BY CodesShape
<1>3. /\ lost' \in BOOLEAN
      /\ ~lost' => ~lost /\ obuf' = obuf \o Codes(k, release, down')
  BY <1>1, <1>2, SendSound
<1>4. CASE lost'
  BY <1>4 DEF Queued, Ahead!Next
<1>5. CASE ~lost'
  <2>1. InStep(obuf, state, down) /\ ~lost
    BY <1>3, <1>5 DEF Queued
  <2>2. InStep(obuf', state, down') /\ Grows(obuf, obuf')
    <3>1. obuf' = obuf \o Codes(k, release, down')
      BY <1>3, <1>5
    <3>. QED BY <2>1, <3>1, SendInStep
  <2>3. Queued'
    BY <2>2 DEF Queued
  <2>4. Typed = TypedIn(obuf) /\ Typed' = TypedIn(obuf')
    BY DEF Typed, TypedIn, Struck, StruckIn
  <2>5. lost = FALSE /\ lost' = FALSE /\ got' = got
    BY <1>1, <1>3, <1>5, <2>1
  <2>6. CASE TypedIn(obuf') = TypedIn(obuf)
    BY <2>3, <2>4, <2>5, <2>6 DEF Ahead!vars
  <2>7. CASE \E c \in Ascii \ {NUL} : TypedIn(obuf') = Append(TypedIn(obuf), c)
    BY <2>3, <2>4, <2>5, <2>7 DEF Ahead!Next, Ahead!Strike
  <2>. QED BY <2>2, <2>6, <2>7 DEF Grows
<1>. QED BY <1>3, <1>4, <1>5

LEMMA ReadListed ==
  ASSUME NEW s, Listed(s), s # <<>>
  PROVE  /\ Head(s).meant = NUL => TypedIn(Tail(s)) = TypedIn(s)
         /\ Head(s).meant # NUL => /\ TypedIn(s) # <<>>
                                   /\ Head(TypedIn(s)) = Head(s).meant
                                   /\ TypedIn(Tail(s)) = Tail(TypedIn(s))
<1>1. s \in Seq(Byte)
  BY DEF Listed
<1>2. PICK k, f : Lists(s, k, f)
  BY DEF Listed
<1>. QED BY <1>1, <1>2, TailTyped

\* The driver reads the meant character, and the buffer its first one.
LEMMA PollReads ==
  ASSUME TypeOK, Queued, Poll
  PROVE  /\ Queued'
         /\ [Ahead!Next]_(Ahead!vars)
         /\ ~lost /\ phase' = "busy" => got' = Head(obuf).meant
<1>1. /\ phase = "waiting" /\ obuf # <<>> /\ obuf' = Tail(obuf)
      /\ state' = update_modifiers(state, Head(obuf))
      /\ lost' = lost /\ down' = down /\ lost \in BOOLEAN
  BY DEF Poll, data_waiting, TypeOK
<1>2. IF Translation(state', Head(obuf).code, Head(obuf).release) = NUL
      THEN phase' = phase /\ got' = got
      ELSE /\ phase' = "busy"
           /\ got' = Translation(state', Head(obuf).code, Head(obuf).release)
  BY DEF Poll
<1>3. CASE lost
  <2>1. lost' = TRUE
    BY <1>1, <1>3
  <2>. QED BY <1>3, <2>1 DEF Queued, Ahead!Next
<1>4. CASE ~lost
  <2>1. InStep(obuf, state, down)
    BY <1>4 DEF Queued
  <2>2. /\ InStep(Tail(obuf), state', down)
        /\ Head(obuf).meant = Translation(state', Head(obuf).code, Head(obuf).release)
    BY <1>1, <2>1, TailInStep
  <2>3. Queued'
    BY <1>1, <2>2 DEF Queued
  <2>4. Listed(obuf)
    BY <2>1 DEF InStep
  <2>5. Typed = TypedIn(obuf) /\ Typed' = TypedIn(obuf')
    BY DEF Typed, TypedIn, Struck, StruckIn
  <2>6. lost = FALSE /\ lost' = FALSE
    BY <1>1, <1>4
  <2>7. CASE Head(obuf).meant = NUL
    <3>1. TypedIn(obuf') = TypedIn(obuf)
      BY <1>1, <2>4, <2>7, ReadListed
    <3>2. phase' = "waiting" /\ got' = got
      BY <1>1, <1>2, <2>2, <2>7
    <3>. QED BY <2>3, <2>5, <2>6, <3>1, <3>2 DEF Ahead!vars
  <2>8. CASE Head(obuf).meant # NUL
    <3>1. /\ TypedIn(obuf) # <<>> /\ Head(TypedIn(obuf)) = Head(obuf).meant
          /\ TypedIn(obuf') = Tail(TypedIn(obuf))
      BY <1>1, <2>4, <2>8, ReadListed
    <3>2. got' = Head(obuf).meant
      BY <1>2, <2>2, <2>8
    <3>3. Ahead!Read
      BY <2>5, <2>6, <3>1, <3>2 DEF Ahead!Read
    <3>. QED BY <2>3, <2>6, <3>2, <3>3 DEF Ahead!Next
  <2>. QED BY <2>7, <2>8
<1>. QED BY <1>1, <1>3, <1>4

LEMMA StepQueued ==
  ASSUME OneHeldPerModifier, TypeOK, Queued, [Next]_vars
  PROVE  /\ Queued'
         /\ [Ahead!Next]_(Ahead!vars)
         /\ ~lost /\ phase = "waiting" /\ phase' = "busy" => got' = Head(obuf).meant
<1>1. ASSUME NEW k \in Key, Press(k)
      PROVE  Queued' /\ [Ahead!Next]_(Ahead!vars) /\ phase' = phase
  <2>1. /\ Send(Codes(k, FALSE, down')) /\ down' = down \union {k}
        /\ UNCHANGED <<state, got>> /\ phase' = phase
    BY <1>1 DEF Press
  <2>2. Turns(down, down', k, FALSE)
    BY <2>1 DEF Turns, Held
  <2>. QED BY <2>1, <2>2, SendStrikes
<1>2. ASSUME NEW k \in Key, Repeat(k)
      PROVE  Queued' /\ [Ahead!Next]_(Ahead!vars) /\ phase' = phase
  <2>1. /\ Send(Codes(k, FALSE, down')) /\ down' = down /\ k \in down
        /\ UNCHANGED <<state, got>> /\ phase' = phase
    BY <1>2 DEF Repeat, TypeOK
  <2>2. Turns(down, down', k, FALSE)
    BY <2>1 DEF Turns, Held
  <2>. QED BY <2>1, <2>2, SendStrikes
<1>3. ASSUME NEW k \in Key, Release(k)
      PROVE  Queued' /\ [Ahead!Next]_(Ahead!vars) /\ phase' = phase
  <2>1. /\ Send(Codes(k, TRUE, down')) /\ k \in down /\ down' = down \ {k}
        /\ UNCHANGED <<state, got>> /\ phase' = phase
    BY <1>3 DEF Release, TypeOK
  <2>2. Turns(down, down', k, TRUE)
    <3>1. ASSUME NEW m \in Modifier, ScanCode[k] \in ModifierCode[m]
          PROVE  Held(down')[m] = FALSE
      <4>1. \A j \in down' : ScanCode[j] \notin ModifierCode[m]
        BY <2>1, <3>1 DEF OneHeldPerModifier
      <4>. QED BY <4>1 DEF Held
    <3>2. ASSUME NEW m \in Modifier, ScanCode[k] \notin ModifierCode[m]
          PROVE  Held(down')[m] = Held(down)[m]
      BY <2>1, <3>2 DEF Held
    <3>. QED BY <3>1, <3>2 DEF Turns
  <2>. QED BY <2>1, <2>2, SendStrikes
<1>4. CASE GetChar
  <2>1. UNCHANGED <<down, obuf, lost, state, got>> /\ phase' = "waiting"
    BY <1>4 DEF GetChar
  <2>. QED BY <2>1 DEF Queued, Ahead!vars, Typed, Struck
<1>5. CASE Poll
  BY <1>5, PollReads
<1>6. CASE UNCHANGED vars
  BY <1>6 DEF vars, Queued, Ahead!vars, Typed, Struck
<1>. QED BY <1>1, <1>2, <1>3, <1>4, <1>5, <1>6 DEF Next, Typist

(* Whatever waits, whatever modifiers change before it is read and         *)
(* whichever bytes are no characters: for any keys, tables and capacity,   *)
(* as long as the typist never holds two keys of one modifier, the driver  *)
(* implements the type-ahead buffer (lazy_getchar, update_modifiers).      *)
THEOREM DriverIsTypeahead == Spec /\ []OneHeldPerModifier => ImplementsTypeahead
<1>1. Init => Queued /\ Ahead!Init
  BY InitQueued DEF AheadInv
<1>2. OneHeldPerModifier /\ Queued /\ TypeOK /\ [Next]_vars
        => Queued' /\ [Ahead!Next]_(Ahead!vars)
  BY StepQueued
<1>. QED BY <1>1, <1>2, TypesSound, PTL DEF Spec, ImplementsTypeahead, Ahead!Spec

\* For the same typist lazy_getchar returns the character that the key had
\* when it was struck, however late the program asks for it.
THEOREM ReturnsAsMeant == Spec /\ []OneHeldPerModifier => AsMeant
<1>1. Init => Queued
  BY InitQueued DEF AheadInv
<1>2. OneHeldPerModifier /\ Queued /\ TypeOK /\ [Next]_vars
        => /\ Queued'
           /\ [~lost /\ phase = "waiting" /\ phase' = "busy" => got' = Head(obuf).meant]_vars
  BY StepQueued
<1>. QED BY <1>1, <1>2, TypesSound, PTL DEF Spec, AsMeant

-----------------------------------------------------------------------------
(* Characters that are waited for.                                         *)

(* A byte that both tables print is never lost on its way through the      *)
(* queue: what the typist does and a full controller leave it where it is, *)
(* a turn of lazy_getchar's loop moves it forward by one place, and at the *)
(* front it ends the wait, whatever modifiers the driver believes in       *)
(* (lazy_trygetchar, keyboard.c).  This is what Answered needs of the      *)
(* steps; that they are taken is fairness.                                 *)
ComesUp ==
  [][\A i \in DOMAIN obuf : Prints(obuf[i]) =>
       \/ ~Poll /\ i \in DOMAIN obuf' /\ obuf'[i] = obuf[i]
       \/ Poll /\ i - 1 \in DOMAIN obuf' /\ obuf'[i - 1] = obuf[i]
       \/ Poll /\ i = 1 /\ phase' = "busy" /\ got' # NUL]_vars

THEOREM WaitersServed == Spec => ComesUp
<1>. DEFINE Up == \A i \in DOMAIN obuf : Prints(obuf[i]) =>
                    \/ ~Poll /\ i \in DOMAIN obuf' /\ obuf'[i] = obuf[i]
                    \/ Poll /\ i - 1 \in DOMAIN obuf' /\ obuf'[i - 1] = obuf[i]
                    \/ Poll /\ i = 1 /\ phase' = "busy" /\ got' # NUL
<1>1. ASSUME TypeOK, Poll PROVE Up
  <2>. USE <1>1
  <2>. SUFFICES ASSUME NEW i \in DOMAIN obuf, Prints(obuf[i])
                PROVE  \/ i - 1 \in DOMAIN obuf' /\ obuf'[i - 1] = obuf[i]
                       \/ i = 1 /\ phase' = "busy" /\ got' # NUL
    OBVIOUS
  <2>1. obuf \in Seq(Byte) /\ obuf # <<>> /\ obuf' = Tail(obuf)
    BY DEF TypeOK, Poll, data_waiting
  <2>2. i \in 1 .. Len(obuf) /\ Len(obuf) \in Nat
    BY <2>1
  <2>3. CASE i # 1
    <3>1. i - 1 \in 1 .. Len(obuf) - 1 /\ (i - 1) + 1 = i
      BY <2>2, <2>3
    <3>2. DOMAIN obuf' = 1 .. Len(obuf) - 1
          /\ \A j \in 1 .. Len(obuf) - 1 : obuf'[j] = obuf[j + 1]
      BY <2>1, HeadTailProperties, LenProperties, EmptySeq
    <3>. QED BY <3>1, <3>2
  <2>4. CASE i = 1
    <3>. DEFINE sc == Head(obuf)
                st == update_modifiers(state, sc)
                c == Translation(st, sc.code, sc.release)
    <3>1. sc = obuf[1]
      BY <2>1, HeadTailProperties
    <3>2. ~sc.release /\ normal[sc.code] # NUL /\ shifted[sc.code] # NUL
      BY <2>4, <3>1 DEF Prints
    <3>3. c # NUL
      <4>. HIDE DEF sc, st
      <4>1. DC2 # NUL /\ CAN # NUL
        BY KeyboardAssumption
      <4>. QED BY <3>2, <4>1 DEF Translation
    <3>4. IF c = NUL THEN UNCHANGED <<phase, got>> ELSE phase' = "busy" /\ got' = c
      BY DEF Poll
    <3>. QED BY <2>4, <3>3, <3>4
  <2>. QED BY <2>3, <2>4
<1>2. ASSUME TypeOK, Typist \/ GetChar, ~Poll PROVE Up
  <2>. USE <1>2
  <2>1. ASSUME NEW bytes \in Seq(Byte), Send(bytes)
        PROVE  \A i \in DOMAIN obuf : i \in DOMAIN obuf' /\ obuf'[i] = obuf[i]
    <3>. DEFINE all == obuf \o bytes
    <3>1. /\ obuf \in Seq(Byte) /\ Len(obuf) <= Capacity /\ Len(obuf) \in Nat
          /\ Capacity \in Nat \ {0} /\ Len(bytes) \in Nat
      <4>1. obuf \in Seq(Byte) /\ Len(obuf) <= Capacity
        BY DEF TypeOK
      <4>2. Capacity \in Nat \ {0}
        BY KeyboardAssumption
      <4>. QED BY <4>1, <4>2, <2>1, LenProperties
    <3>2. /\ all \in Seq(Byte) /\ Len(all) = Len(obuf) + Len(bytes)
          /\ \A i \in 1 .. Len(obuf) : all[i] = obuf[i]
      BY <3>1, ConcatProperties
    <3>3. obuf' = IF Len(all) <= Capacity THEN all ELSE SubSeq(all, 1, Capacity)
      BY <2>1 DEF Send
    <3>. HIDE DEF all
    <3>4. CASE Len(all) <= Capacity
      BY <3>1, <3>2, <3>3, <3>4
    <3>5. CASE ~(Len(all) <= Capacity)
      BY <3>1, <3>2, <3>3, <3>5, SubSeqProperties
    <3>. QED BY <3>4, <3>5
  <2>2. \A k \in Key, release \in BOOLEAN :
          \A keys : Codes(k, release, keys) \in Seq(Byte)
    BY CodesShape
  <2>3. CASE Typist
    BY <2>1, <2>2, <2>3 DEF Typist, Press, Repeat, Release
  <2>4. CASE GetChar
    BY <2>4 DEF GetChar
  <2>. QED BY <2>3, <2>4
<1>3. ASSUME TypeOK, [Next]_vars PROVE [Up]_vars
  BY <1>1, <1>2, <1>3 DEF Next
<1>. QED BY <1>3, TypesSound, PTL DEF Spec, ComesUp
=============================================================================

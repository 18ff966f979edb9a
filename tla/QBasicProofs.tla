---------------------------- MODULE QBasicProofs ----------------------------
(***************************************************************************)
(* Proofs about the variable table, the FOR stack, the jumps and the loops *)
(* of module QBasic, and about the runs that QBasicAgain remembers, for    *)
(* programs and tables of every size.                                      *)
(***************************************************************************)
EXTENDS QBasicAgain, TLAPS, SequenceTheorems, WellFoundedInduction

USE QBasicAssumption

-----------------------------------------------------------------------------
(* The variable table.                                                     *)

LEMMA Least ==
  ASSUME NEW S, S \subseteq Nat, S # {}
  PROVE  \E k \in S : \A n \in S : k <= n
<1>. DEFINE R == {ss \in Nat \X Nat : ss[1] < ss[2]}
<1>1. IsWellFoundedOn(R, Nat)
  BY NatLessThanWellFounded DEF OpToRel
<1>2. PICK k \in S : \A n \in S : <<n, k>> \notin R
  <2>. HIDE DEF R
  <2>. QED BY <1>1, WFMin
<1>3. ASSUME NEW n \in S, n < k
      PROVE  FALSE
  <2>1. <<n, k>> \in Nat \X Nat
    OBVIOUS
  <2>2. <<n, k>>[1] < <<n, k>>[2]
    BY <1>3
  <2>. QED BY <1>2, <2>1, <2>2
<1>. QED BY <1>3

\* What a search from the start finds is in the set searched for.
LEMMA FirstIs ==
  ASSUME NEW S, S \subseteq Nat, S # {}
  PROVE  FirstOf(S) \in S
BY Least DEF FirstOf

\* find_var finds the name if there is an entry of that name.
LEMMA FindVar ==
  ASSUME vars \in Seq(Variable), NEW name, Known(name)
  PROVE  find_var(name) \in DOMAIN vars /\ vars[find_var(name)].name = name
<1>. DEFINE S == {i \in DOMAIN vars : vars[i].name = name}
<1>1. S \subseteq Nat /\ S # {}
  BY DEF Known
<1>2. PICK k \in S : \A n \in S : k <= n
  <2>. HIDE DEF S
  <2>. QED BY <1>1, Least
<1>3. /\ k \in DOMAIN vars /\ vars[k].name = name
      /\ \A j \in DOMAIN vars : vars[j].name = name => k <= j
  BY <1>2
<1>. QED BY <1>3 DEF find_var

\* The entries keep their places, names and types.
Kept ==
  /\ Len(vars) <= Len(vars')
  /\ \A i \in DOMAIN vars : /\ vars'[i].name = vars[i].name
                            /\ vars'[i].type = vars[i].type

\* Known of a name in the next state.
KnownNext(name) == \E i \in DOMAIN vars' : vars'[i].name = name

VarsOK == vars \in Seq(Variable) /\ Len(vars) <= MAX_VARS /\ wild \in BOOLEAN

\* A store at an entry of the table: of a raw value of the entry's type.
LEMMA Overwrite ==
  ASSUME VarsOK, VarsSound, NEW k \in DOMAIN vars, NEW raw \in Raw,
         vars[k].type = "INT" => raw.as = "int",
         vars' = [vars EXCEPT ![k] = Holding(@, raw)], UNCHANGED wild
  PROVE  VarsOK' /\ VarsSound' /\ Kept
<1>. USE DEF VarsOK
<1>1. vars[k] \in Variable
  OBVIOUS
<1>2. DEFINE new == Holding(vars[k], raw)
<1>3. /\ new \in Variable
      /\ new.name = vars[k].name /\ new.type = vars[k].type /\ new.raw = raw
  BY <1>1 DEF Holding, Variable
<1>. HIDE DEF new
<1>4. vars' = [vars EXCEPT ![k] = new]
  BY DEF new
<1>5. /\ vars' \in Seq(Variable) /\ Len(vars') = Len(vars)
      /\ DOMAIN vars' = DOMAIN vars
      /\ \A i \in DOMAIN vars : vars'[i] = IF i = k THEN new ELSE vars[i]
  BY <1>3, <1>4
<1>6. Kept
  BY <1>3, <1>5 DEF Kept
<1>7. VarsSound'
  BY <1>3, <1>5 DEF VarsSound
<1>. QED BY <1>5, <1>6, <1>7

\* A new entry behind the last, of a name that has none.
LEMMA Extend ==
  ASSUME VarsOK, VarsSound, Len(vars) < MAX_VARS, NEW new \in Variable,
         ~Known(new.name), new.type = "INT" => new.raw.as = "int",
         vars' = Append(vars, new), UNCHANGED wild
  PROVE  VarsOK' /\ VarsSound' /\ Kept /\ KnownNext(new.name)
<1>. USE DEF VarsOK
<1>1. /\ vars' \in Seq(Variable) /\ Len(vars') = Len(vars) + 1
      /\ DOMAIN vars' = 1 .. Len(vars) + 1
      /\ \A i \in DOMAIN vars : vars'[i] = vars[i]
      /\ vars'[Len(vars) + 1] = new
  OBVIOUS
<1>2. Kept
  BY <1>1 DEF Kept
<1>3. ~wild
  BY DEF VarsSound
<1>4. \A i \in DOMAIN vars : vars[i].name # new.name
  BY DEF Known
<1>5. VarsSound'
  BY <1>1, <1>3, <1>4 DEF VarsSound
<1>6. KnownNext(new.name)
  BY <1>1 DEF KnownNext
<1>. QED BY <1>1, <1>2, <1>5, <1>6

\* Whatever is stored, the table stays sound, and the name is in it then
\* unless it was full.
LEMMA StoreSound ==
  ASSUME VarsOK, VarsSound, NEW name \in Name, NEW type \in Type,
         NEW value, \A t \in Type : value[t] \in Raw, value["INT"].as = "int",
         Store(name, type, value)
  PROVE  /\ VarsOK' /\ VarsSound' /\ Kept
         /\ wild => wild'
         /\ KnownNext(name) \/ wild'
<1>1. CASE Known(name)
  <2>. DEFINE k == find_var(name)
  <2>1. k \in DOMAIN vars /\ vars[k].name = name /\ vars[k] \in Variable
    BY <1>1, FindVar DEF VarsOK
  <2>2. vars' = [vars EXCEPT ![k] = Holding(@, value[@.type])] /\ UNCHANGED wild
    BY <1>1 DEF Store
  <2>. HIDE DEF k
  <2>3. /\ value[vars[k].type] \in Raw
        /\ vars[k].type = "INT" => value[vars[k].type].as = "int"
    BY <2>1 DEF Variable
  <2>4. vars' = [vars EXCEPT ![k] = Holding(@, value[vars[k].type])]
    BY <2>2
  <2>5. VarsOK' /\ VarsSound' /\ Kept
    BY <2>1, <2>2, <2>3, <2>4, Overwrite
  <2>6. KnownNext(name)
    BY <2>1, <2>5 DEF KnownNext, Kept, VarsOK
  <2>. QED BY <2>2, <2>5, <2>6
<1>2. CASE ~Known(name) /\ Len(vars) < MAX_VARS
  <2>. DEFINE new == [name |-> name, type |-> type, raw |-> value[type]]
  <2>1. /\ value[type] \in Raw
        /\ type = "INT" => value[type].as = "int"
    OBVIOUS
  <2>3. /\ new \in Variable /\ new.name = name
        /\ new.type = "INT" => new.raw.as = "int"
    BY <2>1 DEF Variable
  <2>2. vars' = Append(vars, new) /\ UNCHANGED wild
    BY <1>2 DEF Store
  <2>. HIDE DEF new
  <2>. QED BY <1>2, <2>2, <2>3, Extend
<1>3. CASE ~Known(name) /\ ~(Len(vars) < MAX_VARS)
  <2>1. wild' = TRUE /\ vars' = vars
    BY <1>3 DEF Store
  <2>. QED BY <1>3, <2>1 DEF VarsOK, VarsSound, Kept
<1>. QED BY <1>1, <1>2, <1>3

-----------------------------------------------------------------------------
(* Statements, jumps and the FOR stack.                                    *)

\* An IF comes down to one of its arms, and arms are nested twice at most.
LEMMA SelectedIs ==
  ASSUME NEW s \in Statement
  PROVE  /\ Selected(s) \in Simple
         /\ s.op # "if" => Selected(s) = s
<1>1. \A t \in Simple : t.op # "if" /\ Branch(t) = t
  BY DEF Simple, Branch
<1>2. \A t \in If(Simple) : t.op = "if" /\ Branch(t) \in Simple
  BY DEF If, Branch
<1>3. \A t \in If(If(Simple)) : t.op = "if" /\ Branch(t) \in If(Simple)
  BY DEF If, Branch
<1>. QED BY <1>1, <1>2, <1>3 DEF Statement, Selected

\* The fields of the statements that store, print or open a loop.
LEMMA Fields ==
  ASSUME NEW s \in Simple
  PROVE  /\ s.op = "print" => s.items \in Seq(Item)
         /\ s.op = "let" => s.var \in Name /\ s.operand \in Operand
         /\ s.op = "input" => s.names \in Seq(Name)
         /\ s.op = "for" => s.var \in Name /\ s.from \in Int32 /\ s.to \in Int32
BY DEF Simple

\* A jump goes to a line of the program, 0 being none.
LEMMA TargetIs ==
  ASSUME code \in Seq(Line), NEW s
  PROVE  Target(s) \in 0 .. Len(code)
<1>1. ASSUME NEW S, S \subseteq DOMAIN code, S # {}
      PROVE  FirstOf(S) \in 1 .. Len(code)
  <2>1. S \subseteq Nat
    BY <1>1
  <2>. QED BY <1>1, <2>1, FirstIs
<1>2. ASSUME NEW n
      PROVE  find_line_by_number(n) \in 0 .. Len(code)
  <2>. DEFINE found == {i \in DOMAIN code : i <= MAX_LINES /\ LineNumber(i) = n}
  <2>1. found = {} \/ FirstOf(found) \in 1 .. Len(code)
    <3>1. found \subseteq DOMAIN code
      OBVIOUS
    <3>. HIDE DEF found
    <3>. QED BY <3>1, <1>1
  <2>. QED BY <2>1 DEF find_line_by_number
<1>3. ASSUME NEW label
      PROVE  find_label(label) \in 0 .. Len(code)
  <2>. DEFINE found == {i \in DOMAIN code : code[i].label = label}
  <2>1. found = {} \/ FirstOf(found) \in 1 .. Len(code)
    <3>1. found \subseteq DOMAIN code
      OBVIOUS
    <3>. HIDE DEF found
    <3>. QED BY <3>1, <1>1
  <2>. QED BY <2>1 DEF find_label
<1>. QED BY <1>2, <1>3 DEF Target

\* The part of LoopsSound that is about the stack alone.
Stack(stack) ==
  /\ stack \in Seq(ForLoop) /\ Len(stack) <= MAX_FOR_STACK
  /\ \A i \in DOMAIN stack : /\ stack[i].depth = i - 1
                             /\ stack[i].start <= Len(code) + 1

\* run_program's treatment of FOR changes nothing but where a loop resumes.
LEMMA StartAfterIs ==
  ASSUME NEW stack, Stack(stack), exec_pos \in 1 .. Len(code)
  PROVE  /\ Stack(StartAfter(stack))
         /\ Len(StartAfter(stack)) = Len(stack)
         /\ \A i \in DOMAIN stack : StartAfter(stack)[i].var = stack[i].var
<1>. USE DEF Stack
<1>1. CASE ~(Top.op = "for" /\ stack # <<>>)
  BY <1>1 DEF StartAfter
<1>2. CASE Top.op = "for" /\ stack # <<>>
  <2>. DEFINE n == Len(stack)
              new == [var |-> stack[n].var, to |-> stack[n].to,
                      start |-> exec_pos + 1, depth |-> stack[n].depth]
  <2>1. StartAfter(stack) = [stack EXCEPT ![n] = new]
    BY <1>2 DEF StartAfter
  <2>2. n \in DOMAIN stack /\ n \in Nat /\ stack[n] \in ForLoop
    BY <1>2
  <2>3. /\ new \in ForLoop
        /\ new.var = stack[n].var /\ new.depth = n - 1 /\ new.start <= Len(code) + 1
    BY <2>2 DEF ForLoop
  <2>. HIDE DEF new, n
  <2>4. /\ StartAfter(stack) \in Seq(ForLoop)
        /\ Len(StartAfter(stack)) = Len(stack)
        /\ DOMAIN StartAfter(stack) = DOMAIN stack
        /\ \A i \in DOMAIN stack :
             StartAfter(stack)[i] = IF i = n THEN new ELSE stack[i]
    BY <2>1, <2>2, <2>3
  <2>. QED BY <2>2, <2>3, <2>4
<1>. QED BY <1>1, <1>2

\* A loop is pushed at the depth it records, or not at all.
LEMMA PushIs ==
  ASSUME Stack(for_stack), NEW loop \in ForLoop, loop.depth = Len(for_stack),
         loop.start <= Len(code) + 1
  PROVE  /\ Stack(Push(loop))
         /\ \A i \in DOMAIN Push(loop) :
              \/ i \in DOMAIN for_stack /\ Push(loop)[i] = for_stack[i]
              \/ Push(loop)[i] = loop
<1>. USE DEF Stack
<1>1. CASE Len(for_stack) < MAX_FOR_STACK
  <2>1. Push(loop) = Append(for_stack, loop)
    BY <1>1 DEF Push
  <2>2. /\ Push(loop) \in Seq(ForLoop) /\ Len(Push(loop)) = Len(for_stack) + 1
        /\ \A i \in DOMAIN for_stack : Push(loop)[i] = for_stack[i]
        /\ Push(loop)[Len(for_stack) + 1] = loop
    BY <2>1
  <2>3. \A i \in DOMAIN Push(loop) :
          \/ i \in DOMAIN for_stack /\ Push(loop)[i] = for_stack[i]
          \/ i = Len(for_stack) + 1 /\ Push(loop)[i] = loop
    BY <2>2
  <2>4. Stack(Push(loop))
    <3>. HIDE DEF Push
    <3>1. ASSUME NEW i \in DOMAIN Push(loop)
          PROVE  /\ Push(loop)[i].depth = i - 1
                 /\ Push(loop)[i].start <= Len(code) + 1
      BY <2>3
    <3>. QED BY <1>1, <2>2, <3>1
  <2>. QED BY <2>3, <2>4
<1>2. CASE ~(Len(for_stack) < MAX_FOR_STACK)
  BY <1>2 DEF Push
<1>. QED BY <1>1, <1>2

\* What is printed is typed: a digit string only comes from a number.
LEMMA PrintedIs ==
  ASSUME vars \in Seq(Variable), VarsSound, NEW items \in Seq(Item),
         ~NeverEnds(items)
  PROVE  Printed(items) \in Seq(PrintedItem)
<1>1. ASSUME NEW n \in Int32
      PROVE  Digits(n) \in PrintedItem
  BY DEF Digits, PrintedItem
<1>2. ASSUME NEW item \in Item, item.kind # "stop"
      PROVE  Shown(item) \in PrintedItem
  <2>1. CASE item.kind = "text"
    BY <2>1 DEF Item, Shown, PrintedItem
  <2>2. CASE item.kind = "tab"
    BY <2>2 DEF Item, Shown, PrintedItem
  <2>3. CASE item.kind = "word" /\ Known(item.word)
    <3>. DEFINE v == vars[find_var(item.word)]
    <3>1. find_var(item.word) \in DOMAIN vars
      BY <2>3, FindVar
    <3>2. v.type = "INT" => v.raw.as = "int"
      BY <3>1 DEF VarsSound
    <3>3. v \in Variable
      BY <3>1
    <3>4. Shown(item) = IF v.type = "INT" THEN Digits(v.raw.int)
                        ELSE IF v.raw.as = "str" THEN v.raw
                        ELSE [as |-> "bytes", int |-> v.raw.int]
      BY <2>3 DEF Shown
    <3>. HIDE DEF v
    <3>5. v.raw \in Raw
      BY <3>3 DEF Variable
    <3>6. CASE v.raw.as = "int"
      <4>1. v.raw.int \in Int32 /\ v.raw.as # "str"
        BY <3>5, <3>6 DEF Raw
      <4>2. [as |-> "bytes", int |-> v.raw.int] \in PrintedItem
        BY <4>1 DEF PrintedItem
      <4>3. Digits(v.raw.int) \in PrintedItem
        BY <4>1, <1>1
      <4>. QED BY <4>1, <4>2, <4>3, <3>4
    <3>7. CASE v.raw.as # "int"
      <4>1. v.raw \in [as : {"str"}, str : Text]
        BY <3>5, <3>7 DEF Raw
      <4>. QED BY <4>1, <3>2, <3>3, <3>4, <3>7 DEF PrintedItem
    <3>. QED BY <3>6, <3>7
  <2>4. CASE item.kind = "word" /\ ~Known(item.word)
    <3>1. Shown(item) = IF item.number THEN Digits(item.int)
                        ELSE [as |-> "str", str |-> "?"]
      BY <2>4 DEF Shown
    <3>2. item.int \in Int32
      BY <2>4 DEF Item
    <3>3. Digits(item.int) \in PrintedItem
      BY <3>2, <1>1
    <3>4. [as |-> "str", str |-> "?"] \in PrintedItem
      BY DEF PrintedItem
    <3>. QED BY <3>1, <3>3, <3>4
  <2>. QED BY <1>2, <2>1, <2>2, <2>3, <2>4 DEF Item
<1>3. \A i \in DOMAIN items : items[i] \in Item /\ items[i].kind # "stop"
  BY DEF NeverEnds
<1>4. DOMAIN items = 1 .. Len(items) /\ Len(items) \in Nat
  OBVIOUS
<1>5. Printed(items) \in [1 .. Len(items) -> PrintedItem]
  BY <1>2, <1>3, <1>4 DEF Printed
<1>. QED BY <1>4, <1>5

-----------------------------------------------------------------------------
(* The inductive invariant.                                                *)

QInv == TypeOK /\ VarsSound /\ LoopsSound

LEMMA Parts1 ==
  ASSUME QInv
  PROVE  VarsOK /\ VarsSound /\ Stack(for_stack)
BY DEF QInv, TypeOK, VarsOK, Stack, LoopsSound

\* What AtLine gives a step that executes something.
LEMMA LineIs ==
  ASSUME QInv, AtLine
  PROVE  /\ phase = "run" /\ exec_pos \in 1 .. Len(code)
         /\ Selected(Top) \in Simple
         /\ Top.op # "if" => Selected(Top) = Top
<1>1. exec_pos \in 1 .. Len(code) /\ phase = "run"
  BY DEF QInv, TypeOK, AtLine
<1>2. code[exec_pos] \in Line
  BY <1>1 DEF QInv, TypeOK
<1>3. Top \in Statement
  BY <1>2 DEF Line, Top
<1>. QED BY <1>1, <1>3, SelectedIs

\* The loops of the new stack: those of the old one, or of known variables.
LEMMA LoopsKept ==
  ASSUME QInv, VarsOK', Kept, wild => wild', Stack(for_stack)',
         \A i \in DOMAIN for_stack' :
           \/ KnownNext(for_stack'[i].var) \/ wild'
           \/ \E j \in DOMAIN for_stack : for_stack'[i].var = for_stack[j].var
  PROVE  LoopsSound'
<1>1. ASSUME NEW i \in DOMAIN for_stack'
      PROVE  KnownNext(for_stack'[i].var) \/ wild'
  <2>1. CASE \E j \in DOMAIN for_stack : for_stack'[i].var = for_stack[j].var
    <3>1. PICK j \in DOMAIN for_stack : for_stack'[i].var = for_stack[j].var
      BY <2>1
    <3>2. Known(for_stack[j].var) \/ wild
      BY DEF QInv, LoopsSound
    <3>3. Known(for_stack[j].var) => KnownNext(for_stack[j].var)
      BY DEF VarsOK, Kept, Known, KnownNext
    <3>. QED BY <3>1, <3>2, <3>3 DEF KnownNext
  <2>. QED BY <1>1, <2>1
<1>2. \A i \in DOMAIN for_stack' : /\ for_stack'[i].depth = i - 1
                                  /\ for_stack'[i].start <= Len(code') + 1
  BY DEF Stack
<1>. QED BY <1>1, <1>2 DEF LoopsSound, Known, KnownNext

\* Steps that leave the table and the stack alone.
LEMMA TablesSame ==
  ASSUME QInv, UNCHANGED <<code, vars, for_stack, wild>>
  PROVE  VarsOK' /\ VarsSound' /\ Kept /\ Stack(for_stack)' /\ LoopsSound'
BY DEF QInv, TypeOK, VarsOK, VarsSound, Kept, Stack, LoopsSound, Known

\* TypeOK from its parts.
LEMMA TypedAgain ==
  ASSUME VarsOK', Stack(for_stack)',
         phase' \in {"edit", "run", "input", "hung", "key"},
         code' \in Seq(Line), exec_pos' \in 1 .. Len(code') + 1,
         asked' \in Seq(Name), (phase' = "input") = (asked' # <<>>),
         phase' \in {"input", "hung"} => exec_pos' <= Len(code'),
         out' \in Seq(Seq(PrintedItem)), Len(out') <= MaxOut
  PROVE  TypeOK'
BY DEF TypeOK, VarsOK, Stack

\* Every statement keeps the invariant, and the places, names and types of
\* the variables.
LEMMA StepSound ==
  ASSUME QInv, Step
  PROVE  QInv' /\ Kept
<1>. USE Parts1
<1>0. /\ code \in Seq(Line) /\ asked \in Seq(Name) /\ Len(code) \in Nat
      /\ out \in Seq(Seq(PrintedItem)) /\ Len(out) <= MaxOut
      /\ (phase = "input") = (asked # <<>>)
  BY DEF QInv, TypeOK
<1>1. CASE SkipLabel
  <2>1. AtLine /\ Advance /\ for_stack' = StartAfter(for_stack)
        /\ UNCHANGED <<phase, code, vars, asked, wild, out>>
    BY <1>1 DEF SkipLabel
  <2>2. phase = "run" /\ exec_pos \in 1 .. Len(code)
    BY <2>1, LineIs
  <2>3. /\ Stack(StartAfter(for_stack))
        /\ Len(StartAfter(for_stack)) = Len(for_stack)
        /\ \A i \in DOMAIN for_stack : StartAfter(for_stack)[i].var = for_stack[i].var
    BY <2>2, StartAfterIs
  <2>4. VarsOK' /\ VarsSound' /\ Kept /\ (wild => wild')
    BY <2>1 DEF VarsOK, VarsSound, Kept
  <2>5. Stack(for_stack)'
    BY <2>1, <2>3 DEF Stack
  <2>6. \A i \in DOMAIN for_stack' :
          \E j \in DOMAIN for_stack : for_stack'[i].var = for_stack[j].var
    <3>1. DOMAIN for_stack' = DOMAIN for_stack
      BY <2>1, <2>3 DEF Stack
    <3>. QED BY <2>1, <2>3, <3>1
  <2>7. LoopsSound'
    BY <2>4, <2>5, <2>6, LoopsKept
  <2>8. exec_pos' \in 1 .. Len(code') + 1
    BY <1>0, <2>1, <2>2 DEF Advance
  <2>9. TypeOK'
    BY <1>0, <2>1, <2>2, <2>4, <2>5, <2>8, TypedAgain
  <2>. QED BY <2>4, <2>7, <2>9 DEF QInv
<1>2. CASE Rem
  <2>1. AtLine /\ Advance /\ UNCHANGED <<phase, code, vars, for_stack, asked, wild, out>>
    BY <1>2 DEF Rem, Executes
  <2>2. phase = "run" /\ exec_pos \in 1 .. Len(code)
    BY <2>1, LineIs
  <2>3. exec_pos' \in 1 .. Len(code') + 1
    BY <1>0, <2>1, <2>2 DEF Advance
  <2>4. VarsOK' /\ VarsSound' /\ Kept /\ Stack(for_stack)' /\ LoopsSound'
    BY <2>1, TablesSame
  <2>5. TypeOK'
    BY <1>0, <2>1, <2>2, <2>3, <2>4, TypedAgain
  <2>. QED BY <2>4, <2>5 DEF QInv
<1>3. CASE PrintItems
  <2>. DEFINE items == Selected(Top).items
  <2>1. /\ AtLine /\ Selected(Top).op = "print"
        /\ UNCHANGED <<code, vars, for_stack, asked, wild>>
        /\ \/ phase' = "hung" /\ UNCHANGED <<exec_pos, out>>
           \/ /\ ~NeverEnds(items) /\ Advance /\ UNCHANGED phase
              /\ out' = IF Len(out) < MaxOut THEN Append(out, Printed(items)) ELSE out
    BY <1>3 DEF PrintItems, Executes
  <2>2. phase = "run" /\ exec_pos \in 1 .. Len(code) /\ Selected(Top) \in Simple
    BY <2>1, LineIs
  <2>3. items \in Seq(Item)
    BY <2>1, <2>2, Fields
  <2>4. VarsOK' /\ VarsSound' /\ Kept /\ Stack(for_stack)' /\ LoopsSound'
    BY <2>1, TablesSame
  <2>5. ~NeverEnds(items) => Printed(items) \in Seq(PrintedItem)
    <3>. HIDE DEF items
    <3>. QED BY <2>3, PrintedIs DEF VarsOK
  <2>. HIDE DEF items
  <2>6. exec_pos' \in 1 .. Len(code') + 1
    BY <1>0, <2>1, <2>2 DEF Advance
  <2>7. out' \in Seq(Seq(PrintedItem)) /\ Len(out') <= MaxOut
    <3>1. CASE out' = out
      BY <1>0, <3>1
    <3>2. CASE /\ ~NeverEnds(items) /\ Len(out) < MaxOut
               /\ out' = Append(out, Printed(items))
      <4>. DEFINE line == Printed(items)
      <4>1. line \in Seq(PrintedItem)
        BY <2>5, <3>2
      <4>. HIDE DEF line
      <4>2. out' = Append(out, line)
        BY <3>2 DEF line
      <4>. QED BY <1>0, <3>2, <4>1, <4>2
    <3>. QED BY <2>1, <3>1, <3>2
  <2>8. phase' \in {"run", "hung"} /\ (phase' = "hung" => exec_pos' <= Len(code'))
    BY <1>0, <2>1, <2>2
  <2>9. TypeOK'
    BY <1>0, <2>1, <2>2, <2>4, <2>6, <2>7, <2>8, TypedAgain
  <2>. QED BY <2>4, <2>9 DEF QInv
<1>4. CASE Let
  <2>. DEFINE s == Selected(Top)
              value == [t \in Type |-> Stored(t, s.operand.int, s.operand.text)]
              type == IF s.operand.quoted THEN "STR" ELSE "INT"
  <2>1. /\ AtLine /\ s.op = "let" /\ Advance /\ Store(s.var, type, value)
        /\ UNCHANGED <<phase, code, for_stack, asked, out>>
    BY <1>4 DEF Let, Executes
  <2>2. phase = "run" /\ exec_pos \in 1 .. Len(code) /\ s \in Simple
    BY <2>1, LineIs
  <2>. HIDE DEF s
  <2>3. s.var \in Name /\ s.operand \in Operand
    BY <2>1, <2>2, Fields
  <2>4. /\ \A t \in Type : value[t] \in Raw
        /\ value["INT"].as = "int" /\ type \in Type
    BY <2>3 DEF Type, Stored, IntRaw, StrRaw, Raw, Operand
  <2>. HIDE DEF value, type
  <2>5. VarsOK' /\ VarsSound' /\ Kept /\ (wild => wild')
    BY <2>1, <2>3, <2>4, StoreSound
  <2>6. Stack(for_stack)'
    BY <2>1 DEF Stack
  <2>7. LoopsSound'
    BY <2>1, <2>5, <2>6, LoopsKept
  <2>8. exec_pos' \in 1 .. Len(code') + 1
    BY <1>0, <2>1, <2>2 DEF Advance
  <2>9. TypeOK'
    BY <1>0, <2>1, <2>2, <2>5, <2>6, <2>8, TypedAgain
  <2>. QED BY <2>5, <2>7, <2>9 DEF QInv
<1>5. CASE Input
  <2>. DEFINE s == Selected(Top)
  <2>1. /\ AtLine /\ s.op = "input" /\ UNCHANGED <<code, vars, for_stack, wild, out>>
        /\ \/ Advance /\ UNCHANGED <<phase, asked>>
           \/ /\ s.names # <<>> /\ phase' = "input" /\ asked' = s.names
              /\ UNCHANGED exec_pos
    BY <1>5 DEF Input, Executes
  <2>2. phase = "run" /\ exec_pos \in 1 .. Len(code) /\ s \in Simple
    BY <2>1, LineIs
  <2>. HIDE DEF s
  <2>3. s.names \in Seq(Name)
    BY <2>1, <2>2, Fields
  <2>4. VarsOK' /\ VarsSound' /\ Kept /\ Stack(for_stack)' /\ LoopsSound'
    BY <2>1, TablesSame
  <2>5. exec_pos' \in 1 .. Len(code') + 1
    BY <1>0, <2>1, <2>2 DEF Advance
  <2>6. /\ phase' \in {"run", "input"} /\ asked' \in Seq(Name)
        /\ (phase' = "input") = (asked' # <<>>)
        /\ phase' = "input" => exec_pos' <= Len(code')
    BY <1>0, <2>1, <2>2, <2>3
  <2>7. TypeOK'
    BY <1>0, <2>1, <2>4, <2>5, <2>6, TypedAgain
  <2>. QED BY <2>4, <2>7 DEF QInv
<1>6. CASE Goto
  <2>. DEFINE target == Target(Selected(Top))
  <2>1. /\ AtLine /\ UNCHANGED <<phase, code, vars, for_stack, asked, wild, out>>
        /\ JumpOr(IF target > 0 THEN target ELSE exec_pos)
    BY <1>6 DEF Goto, Executes
  <2>2. phase = "run" /\ exec_pos \in 1 .. Len(code)
    BY <2>1, LineIs
  <2>3. target \in 0 .. Len(code)
    BY <1>0, TargetIs
  <2>. HIDE DEF target
  <2>4. exec_pos' \in 1 .. Len(code') + 1
    BY <1>0, <2>1, <2>2, <2>3 DEF JumpOr
  <2>5. VarsOK' /\ VarsSound' /\ Kept /\ Stack(for_stack)' /\ LoopsSound'
    BY <2>1, TablesSame
  <2>6. TypeOK'
    BY <1>0, <2>1, <2>2, <2>4, <2>5, TypedAgain
  <2>. QED BY <2>5, <2>6 DEF QInv
<1>7. CASE For
  <2>. DEFINE s == Selected(Top)
              value == [t \in Type |-> IntRaw(s.from)]
              loop == [var |-> s.var, to |-> s.to, start |-> Position,
                       depth |-> Len(for_stack)]
  <2>1. /\ AtLine /\ s.op = "for" /\ Advance /\ Store(s.var, "INT", value)
        /\ for_stack' = StartAfter(Push(loop))
        /\ UNCHANGED <<phase, code, asked, out>>
    BY <1>7 DEF For, Executes
  <2>2. phase = "run" /\ exec_pos \in 1 .. Len(code) /\ s \in Simple
    BY <2>1, LineIs
  <2>. HIDE DEF s
  <2>3. s.var \in Name /\ s.from \in Int32 /\ s.to \in Int32
    BY <2>1, <2>2, Fields
  <2>4. /\ \A t \in Type : value[t] \in Raw
        /\ value["INT"].as = "int" /\ "INT" \in Type
    BY <2>3 DEF Type, IntRaw, Raw
  <2>. HIDE DEF value
  <2>5. /\ VarsOK' /\ VarsSound' /\ Kept /\ (wild => wild')
        /\ KnownNext(s.var) \/ wild'
    BY <2>1, <2>3, <2>4, StoreSound
  <2>6. /\ loop \in ForLoop /\ loop.depth = Len(for_stack) /\ loop.var = s.var
        /\ loop.start <= Len(code) + 1
    BY <1>0, <2>2, <2>3 DEF Stack, ForLoop, Position
  <2>. HIDE DEF loop
  <2>7. /\ Stack(Push(loop))
        /\ \A i \in DOMAIN Push(loop) :
             \/ i \in DOMAIN for_stack /\ Push(loop)[i] = for_stack[i]
             \/ Push(loop)[i] = loop
    BY <2>6, PushIs
  <2>. DEFINE new == Push(loop)
  <2>. HIDE DEF new
  <2>8. /\ Stack(StartAfter(new))
        /\ Len(StartAfter(new)) = Len(new)
        /\ \A i \in DOMAIN new : StartAfter(new)[i].var = new[i].var
    BY <2>2, <2>7, StartAfterIs DEF new
  <2>9. Stack(for_stack)' /\ DOMAIN for_stack' = DOMAIN new
    BY <2>1, <2>7, <2>8 DEF Stack, new
  <2>10. \A i \in DOMAIN for_stack' :
           \/ for_stack'[i].var = s.var
           \/ \E j \in DOMAIN for_stack : for_stack'[i].var = for_stack[j].var
    BY <2>1, <2>6, <2>7, <2>8, <2>9 DEF new
  <2>11. \A i \in DOMAIN for_stack' :
           \/ KnownNext(for_stack'[i].var) \/ wild'
           \/ \E j \in DOMAIN for_stack : for_stack'[i].var = for_stack[j].var
    BY <2>5, <2>10 DEF KnownNext
  <2>12. LoopsSound'
    BY <2>5, <2>9, <2>11, LoopsKept
  <2>13. exec_pos' \in 1 .. Len(code') + 1
    BY <1>0, <2>1, <2>2 DEF Advance
  <2>14. TypeOK'
    BY <1>0, <2>1, <2>2, <2>5, <2>9, <2>13, TypedAgain
  <2>. QED BY <2>5, <2>12, <2>14 DEF QInv
<1>8. CASE NextLoop
  <2>1. /\ AtLine /\ UNCHANGED <<phase, code, asked, wild, out>>
    BY <1>8 DEF NextLoop, Executes
  <2>2. phase = "run" /\ exec_pos \in 1 .. Len(code)
    BY <2>1, LineIs
  <2>. DEFINE top == for_stack[Len(for_stack)]
              count == Plus1(AsInt(vars[find_var(top.var)].raw))
  <2>3. CASE for_stack = <<>> \/ ~Known(top.var)
    <3>1. JumpOr(exec_pos) /\ UNCHANGED <<vars, for_stack>>
      BY <1>8, <2>3 DEF NextLoop
    <3>2. VarsOK' /\ VarsSound' /\ Kept /\ Stack(for_stack)' /\ LoopsSound'
      BY <2>1, <3>1, TablesSame
    <3>3. exec_pos' \in 1 .. Len(code') + 1
      BY <1>0, <2>1, <2>2, <3>1 DEF JumpOr
    <3>4. TypeOK'
      BY <1>0, <2>1, <2>2, <3>2, <3>3, TypedAgain
    <3>. QED BY <3>2, <3>4 DEF QInv
  <2>4. CASE ~(for_stack = <<>> \/ ~Known(top.var))
    <3>. DEFINE k == find_var(top.var)
    <3>1. k \in DOMAIN vars /\ vars[k] \in Variable
      BY <2>4, FindVar DEF VarsOK
    <3>2. vars' = [vars EXCEPT ![k] = Holding(@, IntRaw(count))]
      BY <1>8, <2>4 DEF NextLoop
    <3>3. \/ JumpOr(top.start) /\ for_stack' = for_stack
          \/ JumpOr(exec_pos) /\ for_stack' = Popped
      BY <1>8, <2>4 DEF NextLoop
    <3>4. Len(for_stack) \in DOMAIN for_stack /\ Len(for_stack) \in Nat
      BY <2>4 DEF Stack
    <3>5. top.start \in 1 .. Len(code) + 1
      <4>1. top \in ForLoop /\ top.start <= Len(code) + 1
        BY <3>4 DEF Stack
      <4>. QED BY <1>0, <4>1 DEF ForLoop
    <3>6. count \in Int32
      <4>1. vars[k].raw \in Raw
        BY <3>1 DEF Variable
      <4>2. \A raw \in Raw : AsInt(raw) \in Int32
        BY DEF AsInt, Raw
      <4>3. \A n \in Int32 : Plus1(n) \in Int32
        BY DEF Plus1, Int32, INT_MIN
      <4>. QED BY <4>1, <4>2, <4>3
    <3>7. IntRaw(count) \in Raw /\ IntRaw(count).as = "int"
      BY <3>6 DEF IntRaw, Raw
    <3>. HIDE DEF k, count, top
    <3>8. VarsOK' /\ VarsSound' /\ Kept
      BY <2>1, <3>1, <3>2, <3>7, Overwrite
    <3>9. exec_pos' \in 1 .. Len(code') + 1
      BY <1>0, <2>1, <2>2, <3>3, <3>5 DEF JumpOr
    <3>10. /\ for_stack' \in Seq(ForLoop) /\ Len(for_stack') <= Len(for_stack)
           /\ \A i \in DOMAIN for_stack' :
                i \in DOMAIN for_stack /\ for_stack'[i] = for_stack[i]
      <4>1. CASE for_stack' = for_stack
        BY <4>1 DEF Stack
      <4>2. CASE for_stack' = Popped
        BY <3>4, <4>2 DEF Stack, Popped
      <4>. QED BY <3>3, <4>1, <4>2
    <3>11. Stack(for_stack)'
      BY <2>1, <3>10 DEF Stack
    <3>12. LoopsSound'
      BY <2>1, <3>8, <3>10, <3>11, LoopsKept
    <3>13. TypeOK'
      BY <1>0, <2>1, <2>2, <3>8, <3>9, <3>11, TypedAgain
    <3>. QED BY <3>8, <3>12, <3>13 DEF QInv
  <2>. QED BY <2>3, <2>4
<1>9. CASE Finish
  <2>1. /\ phase = "run" /\ phase' = "key"
        /\ UNCHANGED <<code, exec_pos, vars, for_stack, asked, wild, out>>
    BY <1>9 DEF Finish
  <2>2. VarsOK' /\ VarsSound' /\ Kept /\ Stack(for_stack)' /\ LoopsSound'
    BY <2>1, TablesSame
  <2>3. exec_pos' \in 1 .. Len(code') + 1
    BY <2>1 DEF QInv, TypeOK
  <2>4. TypeOK'
    BY <1>0, <2>1, <2>2, <2>3, TypedAgain
  <2>. QED BY <2>2, <2>4 DEF QInv
<1>. QED
  BY <1>1, <1>2, <1>3, <1>4, <1>5, <1>6, <1>7, <1>8, <1>9 DEF Step

\* So does a line typed at an INPUT prompt.
LEMMA AnswerSound ==
  ASSUME QInv, NEW reply \in Reply, Answer(reply)
  PROVE  QInv' /\ Kept
<1>. USE Parts1
<1>. DEFINE value == [t \in Type |-> Stored(t, reply.int, reply.text)]
            type == IF reply.number THEN "INT" ELSE "STR"
<1>1. /\ phase = "input" /\ asked # <<>> /\ asked \in Seq(Name)
      /\ exec_pos \in 1 .. Len(code)
      /\ code \in Seq(Line) /\ Len(code) \in Nat
      /\ out \in Seq(Seq(PrintedItem)) /\ Len(out) <= MaxOut
  BY DEF QInv, TypeOK, Answer
<1>2. /\ Store(Head(asked), type, value) /\ asked' = Tail(asked)
      /\ UNCHANGED <<code, for_stack, out>>
      /\ \/ Tail(asked) = <<>> /\ Advance /\ phase' = "run"
         \/ Tail(asked) # <<>> /\ UNCHANGED <<exec_pos, phase>>
  BY DEF Answer
<1>3. Head(asked) \in Name /\ Tail(asked) \in Seq(Name)
  BY <1>1
<1>4. reply.int \in Int32 /\ reply.text \in Text
  OBVIOUS
<1>5. /\ \A t \in Type : value[t] \in Raw
      /\ value["INT"].as = "int" /\ type \in Type
  BY <1>4 DEF Type, Stored, IntRaw, StrRaw, Raw
<1>. HIDE DEF value, type
<1>6. VarsOK' /\ VarsSound' /\ Kept /\ (wild => wild')
  BY <1>2, <1>3, <1>5, StoreSound
<1>7. Stack(for_stack)'
  BY <1>2 DEF Stack
<1>8. LoopsSound'
  BY <1>2, <1>6, <1>7, LoopsKept
<1>9. exec_pos' \in 1 .. Len(code') + 1
  BY <1>1, <1>2 DEF Advance
<1>10. /\ phase' \in {"run", "input"} /\ asked' \in Seq(Name)
       /\ (phase' = "input") = (asked' # <<>>)
       /\ phase' = "input" => exec_pos' <= Len(code')
  BY <1>1, <1>2, <1>3
<1>11. TypeOK'
  BY <1>1, <1>2, <1>6, <1>7, <1>9, <1>10, TypedAgain
<1>. QED BY <1>6, <1>8, <1>11 DEF QInv

LEMMA Empty == \A S : <<>> \in Seq(S) /\ Len(<<>>) = 0 /\ DOMAIN <<>> = {}
OBVIOUS

\* A run starts with empty tables, whatever the last one left.
LEMMA RunSound ==
  ASSUME QInv, NEW program \in Program, Run(program)
  PROVE  QInv' /\ phase = "edit"
<1>1. /\ phase = "edit" /\ phase' = "run" /\ code' \in Seq(Line) /\ exec_pos' = 1
      /\ vars' = <<>> /\ for_stack' = <<>> /\ asked' = <<>> /\ wild' = FALSE
      /\ out' = <<>>
  BY DEF Run
<1>2. VarsOK' /\ VarsSound' /\ Stack(for_stack)' /\ LoopsSound'
  <2>1. vars' \in Seq(Variable) /\ for_stack' \in Seq(ForLoop)
    BY <1>1, Empty
  <2>2. Len(vars') = 0 /\ Len(for_stack') = 0 /\ DOMAIN vars' = {} /\ DOMAIN for_stack' = {}
    BY <1>1, Empty
  <2>3. wild' = FALSE
    BY <1>1
  <2>4. VarsOK'
    <3>1. wild' \in BOOLEAN
      BY <2>3
    <3>2. Len(vars') <= MAX_VARS
      BY <2>2
    <3>. QED BY <2>1, <3>1, <3>2 DEF VarsOK
  <2>5. Stack(for_stack)'
    BY <2>1, <2>2 DEF Stack
  <2>6. VarsSound'
    BY <2>2, <2>3 DEF VarsSound
  <2>7. LoopsSound'
    BY <2>2 DEF LoopsSound
  <2>. QED BY <2>4, <2>5, <2>6, <2>7
<1>3. exec_pos' \in 1 .. Len(code') + 1
  BY <1>1
<1>4. out' \in Seq(Seq(PrintedItem)) /\ Len(out') <= MaxOut
  BY <1>1
<1>5. TypeOK'
  BY <1>1, <1>2, <1>3, <1>4, TypedAgain
<1>. QED BY <1>1, <1>2, <1>5 DEF QInv

\* The key that leads back to the editor changes nothing else.
LEMMA AnyKeySound ==
  ASSUME QInv, AnyKey
  PROVE  QInv' /\ Kept
<1>1. /\ phase = "key" /\ phase' = "edit"
      /\ UNCHANGED <<code, exec_pos, vars, for_stack, asked, wild, out>>
  BY DEF AnyKey
<1>2. VarsOK' /\ VarsSound' /\ Kept /\ Stack(for_stack)' /\ LoopsSound'
  BY <1>1, TablesSame
<1>3. TypeOK'
  BY <1>1 DEF QInv, TypeOK
<1>. QED BY <1>2, <1>3 DEF QInv

\* Neither does a step in which nothing happens.
LEMMA NothingSound ==
  ASSUME QInv, UNCHANGED qb
  PROVE  QInv' /\ Kept
<1>1. UNCHANGED <<phase, code, exec_pos, vars, for_stack, asked, wild, out>>
  BY DEF qb
<1>2. VarsOK' /\ VarsSound' /\ Kept /\ Stack(for_stack)' /\ LoopsSound'
  BY <1>1, TablesSame
<1>3. TypeOK'
  BY <1>1 DEF QInv, TypeOK
<1>. QED BY <1>2, <1>3 DEF QInv

LEMMA EveryStep ==
  ASSUME QInv, [Next]_qb
  PROVE  QInv' /\ (phase # "edit" => Kept)
<1>1. ASSUME NEW program \in Program, Run(program)
      PROVE  QInv' /\ phase = "edit"
  BY <1>1, RunSound
<1>2. ASSUME NEW reply \in Reply, Answer(reply)
      PROVE  QInv' /\ Kept
  BY <1>2, AnswerSound
<1>3. Step => QInv' /\ Kept
  BY StepSound
<1>. QED BY <1>1, <1>2, <1>3, AnyKeySound, NothingSound DEF Next

LEMMA StartsSound ==
  ASSUME Init
  PROVE  QInv
<1>1. /\ phase = "edit" /\ code = <<>> /\ exec_pos = 1 /\ vars = <<>>
      /\ for_stack = <<>> /\ asked = <<>> /\ wild = FALSE /\ out = <<>>
  BY DEF Init
<1>2. VarsSound /\ LoopsSound
  BY <1>1 DEF VarsSound, LoopsSound
<1>3. /\ code \in Seq(Line) /\ vars \in Seq(Variable) /\ for_stack \in Seq(ForLoop)
      /\ asked \in Seq(Name) /\ out \in Seq(Seq(PrintedItem))
  BY <1>1, Empty
<1>4. TypeOK
  <2>1. phase = "edit" /\ exec_pos = 1 /\ asked = <<>> /\ wild = FALSE
    BY <1>1
  <2>2. Len(code) = 0 /\ Len(vars) = 0 /\ Len(for_stack) = 0 /\ Len(out) = 0
    BY <1>1, Empty
  <2>3. exec_pos \in 1 .. Len(code) + 1 /\ (phase = "input") = (asked # <<>>)
    BY <2>1, <2>2
  <2>4. /\ code \in Seq(Line)
        /\ vars \in Seq(Variable) /\ Len(vars) <= MAX_VARS
        /\ for_stack \in Seq(ForLoop) /\ Len(for_stack) <= MAX_FOR_STACK
        /\ asked \in Seq(Name)
        /\ out \in Seq(Seq(PrintedItem)) /\ Len(out) <= MaxOut
    BY <1>3, <2>2
  <2>5. phase \in {"edit", "run", "input", "hung", "key"} /\ wild \in BOOLEAN
    BY <2>1
  <2>6. phase \in {"input", "hung"} => exec_pos <= Len(code)
    BY <2>1
  <2>. QED BY <2>3, <2>4, <2>5, <2>6 DEF TypeOK
<1>. QED BY <1>2, <1>4 DEF QInv

LEMMA Invariant == Spec => []QInv
<1>1. Init => QInv
  BY StartsSound
<1>2. QInv /\ [Next]_qb => QInv'
  BY EveryStep
<1>. QED BY <1>1, <1>2, PTL DEF Spec

(* The interpreter keeps its variables within their types and its tables   *)
(* within their arrays, and never leaves the program: TypeOK of every      *)
(* reachable state, for every set of programs (qbasic.c:64-81, 412-473,    *)
(* 555-602).                                                               *)
THEOREM TypesSound == Spec => []TypeOK
<1>1. QInv => TypeOK
  BY DEF QInv
<1>. QED BY <1>1, Invariant, PTL

(* The variable table is sound whatever a program stores, in whichever     *)
(* order: names are unique, and an INT variable never holds a string       *)
(* (find_var, create_var, qbasic.c:64-81).                                 *)
THEOREM VariablesSound == Spec => []VarsSound
<1>1. QInv => VarsSound
  BY DEF QInv
<1>. QED BY <1>1, Invariant, PTL

(* Whatever jumps a program makes into and out of its loops, NEXT finds a  *)
(* usable record on the FOR stack (qbasic.c:412-473).                      *)
THEOREM RecordsSound == Spec => []LoopsSound
<1>1. QInv => LoopsSound
  BY DEF QInv
<1>. QED BY <1>1, Invariant, PTL

(* A variable keeps its place and its type for the rest of the run: no     *)
(* statement moves, renames or retypes an entry of the table.              *)
THEOREM TypesKept == Spec => VarsKeepType
<1>1. QInv /\ [Next]_qb =>
        [phase # "edit" =>
           /\ Len(vars) <= Len(vars')
           /\ \A i \in DOMAIN vars : /\ vars'[i].name = vars[i].name
                                     /\ vars'[i].type = vars[i].type]_qb
  BY EveryStep DEF Kept
<1>. QED BY <1>1, Invariant, PTL DEF Spec, VarsKeepType

-----------------------------------------------------------------------------
(* Which FOR a loop belongs to.                                            *)

\* The loop resumes behind the FOR that opened it, or on the IF it is part of.
Owned(loop) ==
  \/ loop.start > 1 /\ Opens(code[loop.start - 1].stmt, loop)
  \/ /\ loop.start <= Len(code)
     /\ code[loop.start].stmt.op = "if"
     /\ \E s \in Parts(code[loop.start].stmt) : Opens(s, loop)

LEMMA SelectedPart ==
  ASSUME NEW s
  PROVE  Selected(s) \in Parts(s)
<1>1. \A t : t.op = "if" => Branch(t) \in Arms(t)
  BY DEF Branch, Arms
<1>2. \A t : t.op # "if" => Branch(t) = t
  BY DEF Branch
<1>. QED BY <1>1, <1>2 DEF Selected, Parts

\* The record a FOR leaves on the stack is its own.
LEMMA ForOwned ==
  ASSUME QInv, \A i \in DOMAIN for_stack : Owned(for_stack[i]), For,
         Len(for_stack) < MAX_FOR_STACK
  PROVE  \A i \in DOMAIN for_stack' : Owned(for_stack'[i])
<1>. USE Parts1
<1>. DEFINE s == Selected(Top)
            loop == [var |-> s.var, to |-> s.to, start |-> Position,
                     depth |-> Len(for_stack)]
            new == Append(for_stack, loop)
            n == Len(for_stack) + 1
<1>1. AtLine /\ s.op = "for" /\ for_stack' = StartAfter(new)
  BY DEF For, Executes, Push
<1>2. /\ exec_pos \in 1 .. Len(code) /\ s \in Simple
      /\ Top.op # "if" => s = Top
  BY <1>1, LineIs
<1>3. s \in Parts(Top)
  BY SelectedPart
<1>4. Top = code[exec_pos].stmt /\ Len(code) \in Nat
  BY DEF Top, QInv, TypeOK
<1>. HIDE DEF s
<1>5. /\ Top.op = "if" => loop.start = exec_pos
      /\ Opens(s, loop)
  BY <1>1 DEF Opens, Position
<1>6. \A i \in DOMAIN for_stack : Owned(for_stack[i])
  OBVIOUS
<1>7. for_stack \in Seq(ForLoop) /\ Len(for_stack) \in Nat
  BY DEF Stack
<1>8. /\ new # <<>> /\ Len(new) = n /\ DOMAIN new = 1 .. n /\ new[n] = loop
      /\ \A i \in 1 .. n : i # n => new[i] = for_stack[i]
      /\ DOMAIN for_stack = 1 .. Len(for_stack)
  <2>. HIDE DEF loop
  <2>. QED BY <1>7
<1>9. CASE Top.op = "if"
  <2>1. for_stack' = new
    BY <1>1, <1>9 DEF StartAfter
  <2>2. Owned(loop)
    BY <1>2, <1>3, <1>4, <1>5, <1>9 DEF Owned
  <2>3. \A i \in 1 .. n : i # n => i \in DOMAIN for_stack
    BY <1>7, <1>8
  <2>. HIDE DEF loop, new, n
  <2>. QED BY <1>6, <1>8, <2>1, <2>2, <2>3
<1>10. CASE Top.op # "if"
  <2>. DEFINE aimed == [var |-> loop.var, to |-> loop.to,
                        start |-> exec_pos + 1, depth |-> loop.depth]
  <2>1. Opens(code[exec_pos].stmt, loop)
    BY <1>2, <1>4, <1>5, <1>10
  <2>2. aimed.start > 1 /\ aimed.start - 1 = exec_pos
    BY <1>2, <1>4
  <2>3. Opens(code[exec_pos].stmt, aimed)
    BY <2>1 DEF Opens
  <2>4. Owned(aimed)
    BY <2>2, <2>3 DEF Owned
  <2>5. Top.op = "for"
    BY <1>1, <1>2, <1>10
  <2>6. for_stack' = [new EXCEPT ![n] = [var |-> @.var, to |-> @.to,
                                         start |-> exec_pos + 1, depth |-> @.depth]]
    BY <1>1, <1>8, <2>5 DEF StartAfter
  <2>7. \A i \in 1 .. n : i # n => i \in DOMAIN for_stack
    BY <1>7, <1>8
  <2>. HIDE DEF loop, new, n
  <2>8. /\ DOMAIN for_stack' = 1 .. n
        /\ \A i \in 1 .. n : for_stack'[i] = IF i = n THEN aimed ELSE new[i]
    BY <1>8, <2>6
  <2>. HIDE DEF aimed
  <2>. QED BY <1>6, <1>8, <2>4, <2>7, <2>8
<1>. QED BY <1>9, <1>10

LEMMA OwnedKept ==
  ASSUME QInv, LoopOwnsItsStart, [AgainNext]_again
  PROVE  LoopOwnsItsStart'
<1>. USE Parts1
<1>1. ASSUME UNCHANGED code, \A i \in DOMAIN for_stack' : Owned(for_stack'[i])
      PROVE  LoopOwnsItsStart'
  BY <1>1 DEF LoopOwnsItsStart, Owned
<1>2. ~misaimed => \A i \in DOMAIN for_stack : Owned(for_stack[i])
  BY DEF LoopOwnsItsStart, Owned
<1>3. CASE UNCHANGED <<code, for_stack>> /\ (misaimed => misaimed')
  <2>1. CASE misaimed'
    BY <2>1 DEF LoopOwnsItsStart
  <2>2. CASE ~misaimed'
    BY <1>1, <1>2, <1>3, <2>2
  <2>. QED BY <2>1, <2>2
<1>4. CASE UNCHANGED again
  BY <1>3, <1>4 DEF again, qb
<1>. SUFFICES ASSUME AgainNext
              PROVE  LoopOwnsItsStart'
  BY <1>4
<1>5. /\ phase # "edit" /\ misaimed => misaimed'
      /\ phase # "edit" /\ AimsAtAnother => misaimed'
  BY DEF AgainNext, Remember
<1>6. ASSUME NEW program \in Program, Run(program)
      PROVE  LoopOwnsItsStart'
  <2>1. for_stack' = <<>>
    BY <1>6 DEF Run
  <2>. QED BY <2>1, Empty DEF LoopOwnsItsStart
<1>7. ASSUME NEW reply \in Reply, Answer(reply)
      PROVE  LoopOwnsItsStart'
  BY <1>3, <1>5, <1>7 DEF Answer
<1>8. CASE Rem \/ PrintItems \/ Let \/ Input \/ Goto \/ Finish \/ AnyKey
  BY <1>3, <1>5, <1>8
     DEF Rem, PrintItems, Let, Input, Goto, Finish, AnyKey, Executes, AtLine
<1>9. CASE misaimed'
  BY <1>9 DEF LoopOwnsItsStart
<1>10. CASE ~misaimed' /\ SkipLabel
  <2>1. /\ phase # "edit" /\ AtLine /\ code[exec_pos].colon
        /\ for_stack' = StartAfter(for_stack) /\ UNCHANGED code
    BY <1>10 DEF SkipLabel, AtLine
  <2>2. Top.op # "for" \/ for_stack = <<>>
    BY <1>5, <1>10, <2>1 DEF AimsAtAnother
  <2>. QED BY <1>3, <1>5, <2>1, <2>2 DEF StartAfter
<1>11. CASE ~misaimed' /\ For
  <2>1. /\ phase # "edit" /\ AtLine /\ UNCHANGED code
        /\ \E loop : for_stack' = StartAfter(Push(loop))
    BY <1>11 DEF For, Executes, AtLine
  <2>2. \A i \in DOMAIN for_stack : Owned(for_stack[i])
    BY <1>2, <1>5, <1>11, <2>1
  <2>3. CASE Len(for_stack) < MAX_FOR_STACK
    BY <1>1, <1>11, <2>1, <2>2, <2>3, ForOwned
  <2>4. CASE ~(Len(for_stack) < MAX_FOR_STACK)
    <3>1. Len(for_stack) = MAX_FOR_STACK /\ for_stack # <<>>
      BY <2>4, Empty DEF Stack
    <3>2. Top.op # "for"
      BY <1>5, <1>11, <2>1, <3>1 DEF AimsAtAnother
    <3>3. for_stack' = for_stack
      BY <2>1, <2>4, <3>2 DEF Push, StartAfter
    <3>. QED BY <1>1, <2>1, <2>2, <3>3
  <2>. QED BY <2>3, <2>4
<1>12. CASE ~misaimed' /\ NextLoop
  <2>1. UNCHANGED code /\ phase # "edit"
    BY <1>12 DEF NextLoop, Executes, AtLine
  <2>2. \A i \in DOMAIN for_stack : Owned(for_stack[i])
    BY <1>2, <1>5, <1>12, <2>1
  <2>3. CASE for_stack' = for_stack
    BY <1>1, <2>1, <2>2, <2>3
  <2>4. CASE for_stack' = Popped /\ for_stack # <<>>
    <3>1. \A i \in DOMAIN for_stack' :
            i \in DOMAIN for_stack /\ for_stack'[i] = for_stack[i]
      BY <2>4 DEF Popped, Stack
    <3>. QED BY <1>1, <2>1, <2>2, <3>1
  <2>5. for_stack' = for_stack \/ (for_stack' = Popped /\ for_stack # <<>>)
    <3>. DEFINE lost == for_stack = <<>> \/ ~Known(for_stack[Len(for_stack)].var)
    <3>1. CASE lost
      BY <1>12, <3>1 DEF NextLoop
    <3>2. CASE ~lost
      BY <1>12, <3>2 DEF NextLoop
    <3>. QED BY <3>1, <3>2
  <2>. QED BY <2>3, <2>4, <2>5
<1>. QED
  BY <1>6, <1>7, <1>8, <1>9, <1>10, <1>11, <1>12 DEF AgainNext, Next, Step

(* A loop resumes behind its own FOR in every run, until a FOR corrects a  *)
(* record without having pushed one: nothing else that a program does,     *)
(* jumps out of loops and reused variables included, mixes up the records  *)
(* (qbasic.c:412-473, 574-595).                                            *)
THEOREM LoopsResume == AgainSpec => []LoopOwnsItsStart
<1>1. AgainInit => QInv /\ LoopOwnsItsStart
  BY StartsSound, Empty DEF AgainInit, Init, LoopOwnsItsStart
<1>2. [AgainNext]_again => [Next]_qb
  BY DEF AgainNext, again
<1>3. QInv /\ [Next]_qb => QInv'
  BY EveryStep
<1>4. QInv /\ LoopOwnsItsStart /\ [AgainNext]_again => LoopOwnsItsStart'
  BY OwnedKept
<1>. QED BY <1>1, <1>2, <1>3, <1>4, PTL DEF AgainSpec

-----------------------------------------------------------------------------
(* A run as a function of its program.                                     *)

\* What a run without INPUT reads and writes.
Moment == [phase |-> phase, exec_pos |-> exec_pos, vars |-> vars,
           for_stack |-> for_stack, wild |-> wild, out |-> out]

\* The interpreter's operators for program c at moment m instead of now.
At(c, m) == INSTANCE QBasic
  WITH phase <- m.phase, code <- c, exec_pos <- m.exec_pos, vars <- m.vars,
       for_stack <- m.for_stack, asked <- <<>>, wild <- m.wild, out <- m.out

\* Table and wild after a store, as Store has them.
Table(vs, w) == [vars |-> vs, wild |-> w]

StoreAt(c, m, name, type, value) ==
  IF At(c, m)!Known(name)
  THEN Table([m.vars EXCEPT ![At(c, m)!find_var(name)] = Holding(@, value[@.type])],
             m.wild)
  ELSE IF Len(m.vars) < MAX_VARS
  THEN Table(Append(m.vars, [name |-> name, type |-> type, raw |-> value[type]]),
             m.wild)
  ELSE Table(m.vars, TRUE)

StmtAt(c, m) == At(c, m)!Selected(At(c, m)!Top)

\* The same moment at another place, with another stack, table or output.
Running(pos, vs, stack, w, o) ==
  [phase |-> "run", exec_pos |-> pos, vars |-> vs, for_stack |-> stack,
   wild |-> w, out |-> o]

JumpAt(c, m, moved) ==
  IF At(c, m)!Top.op = "if" THEN m.exec_pos + 1 ELSE moved

PrintAt(c, m) ==
  LET items == StmtAt(c, m).items
  IN  IF NeverEnds(items) THEN [m EXCEPT !.phase = "hung"]
      ELSE Running(m.exec_pos + 1, m.vars, m.for_stack, m.wild,
                   IF Len(m.out) < MaxOut
                   THEN Append(m.out, At(c, m)!Printed(items)) ELSE m.out)

LetAt(c, m) ==
  LET s == StmtAt(c, m)
      value == [t \in Type |-> Stored(t, s.operand.int, s.operand.text)]
      t == StoreAt(c, m, s.var, IF s.operand.quoted THEN "STR" ELSE "INT", value)
  IN  Running(m.exec_pos + 1, t.vars, m.for_stack, t.wild, m.out)

GotoAt(c, m) ==
  LET target == At(c, m)!Target(StmtAt(c, m))
  IN  Running(JumpAt(c, m, IF target > 0 THEN target ELSE m.exec_pos),
              m.vars, m.for_stack, m.wild, m.out)

ForAt(c, m) ==
  LET s == StmtAt(c, m)
      t == StoreAt(c, m, s.var, "INT", [x \in Type |-> IntRaw(s.from)])
      loop == [var |-> s.var, to |-> s.to, start |-> At(c, m)!Position,
               depth |-> Len(m.for_stack)]
  IN  Running(m.exec_pos + 1, t.vars,
              At(c, m)!StartAfter(At(c, m)!Push(loop)), t.wild, m.out)

NextAt(c, m) ==
  LET top == m.for_stack[Len(m.for_stack)]
      k == At(c, m)!find_var(top.var)
      count == Plus1(AsInt(m.vars[k].raw))
      counted == [m.vars EXCEPT ![k] = Holding(@, IntRaw(count))]
  IN  IF m.for_stack = <<>> \/ ~At(c, m)!Known(top.var)
      THEN Running(JumpAt(c, m, m.exec_pos), m.vars, m.for_stack, m.wild, m.out)
      ELSE IF GoesOn(count, top)
      THEN Running(JumpAt(c, m, top.start), counted, m.for_stack, m.wild, m.out)
      ELSE Running(JumpAt(c, m, m.exec_pos), counted, At(c, m)!Popped, m.wild, m.out)

\* Where the next step of a run of program c leads from moment m.
After(c, m) ==
  IF m.phase # "run" THEN m
  ELSE IF m.exec_pos > Len(c) THEN [m EXCEPT !.phase = "key"]
  ELSE IF c[m.exec_pos].colon
  THEN Running(m.exec_pos + 1, m.vars, At(c, m)!StartAfter(m.for_stack), m.wild, m.out)
  ELSE IF StmtAt(c, m).op = "print" THEN PrintAt(c, m)
  ELSE IF StmtAt(c, m).op = "let" THEN LetAt(c, m)
  ELSE IF StmtAt(c, m).op = "goto" THEN GotoAt(c, m)
  ELSE IF StmtAt(c, m).op = "for" THEN ForAt(c, m)
  ELSE IF StmtAt(c, m).op = "next" THEN NextAt(c, m)
  ELSE Running(m.exec_pos + 1, m.vars, m.for_stack, m.wild, m.out)

\* The interpreter's operators at the present moment are those of now.
LEMMA Present ==
  /\ Moment.phase = phase /\ Moment.exec_pos = exec_pos /\ Moment.vars = vars
  /\ Moment.for_stack = for_stack /\ Moment.wild = wild /\ Moment.out = out
BY DEF Moment

LEMMA KnownAt ==
  /\ \A name : At(code, Moment)!Known(name) = Known(name)
  /\ \A name : At(code, Moment)!find_var(name) = find_var(name)
<1>1. Moment.vars = vars
  BY Present
<1>2. ASSUME NEW name
      PROVE  At(code, Moment)!Known(name) = Known(name)
  BY <1>1 DEF At!Known, Known
<1>3. ASSUME NEW name
      PROVE  At(code, Moment)!find_var(name) = find_var(name)
  BY <1>1 DEF At!find_var, find_var
<1>. QED BY <1>2, <1>3

LEMMA TopAt ==
  /\ At(code, Moment)!Top = Top
  /\ StmtAt(code, Moment) = Selected(Top)
<1>1. At(code, Moment)!Top = Top
  BY Present DEF At!Top, Top
<1>2. ASSUME NEW s
      PROVE  At(code, Moment)!eval_condition(s) = eval_condition(s)
  <2>1. \A rel, a, b : At(code, Moment)!Compare(rel, a, b) = Compare(rel, a, b)
    BY Zenon DEF At!Compare, Compare
  <2>. QED BY <2>1, Present, KnownAt DEF At!eval_condition, eval_condition
<1>3. ASSUME NEW s
      PROVE  At(code, Moment)!Branch(s) = Branch(s)
  BY <1>2 DEF At!Branch, Branch
<1>. QED BY <1>1, <1>3 DEF StmtAt, At!Selected, Selected

LEMMA TargetAt ==
  ASSUME NEW s
  PROVE  At(code, Moment)!Target(s) = Target(s)
<1>1. \A S : At(code, Moment)!FirstOf(S) = FirstOf(S)
  BY DEF At!FirstOf, FirstOf
<1>2. \A i : At(code, Moment)!LineNumber(i) = LineNumber(i)
  BY DEF At!LineNumber, LineNumber, At!NoNumber, NoNumber
<1>3. \A n : At(code, Moment)!find_line_by_number(n) = find_line_by_number(n)
  BY <1>1, <1>2 DEF At!find_line_by_number, find_line_by_number
<1>4. \A l : At(code, Moment)!find_label(l) = find_label(l)
  BY <1>1 DEF At!find_label, find_label, At!NoNumber, NoNumber
<1>. QED BY <1>3, <1>4 DEF At!Target, Target

LEMMA ShownAt ==
  ASSUME NEW items
  PROVE  At(code, Moment)!Printed(items) = Printed(items)
<1>1. \A n : At(code, Moment)!Digits(n) = Digits(n)
  BY Zenon DEF At!Digits, Digits, At!INT_MIN, INT_MIN
<1>2. ASSUME NEW item
      PROVE  At(code, Moment)!Shown(item) = Shown(item)
  <2>. DEFINE v(w) == vars[find_var(w)]
              Word == IF Known(item.word) THEN
                        IF v(item.word).type = "INT" THEN Digits(v(item.word).raw.int)
                        ELSE IF v(item.word).raw.as = "str" THEN v(item.word).raw
                        ELSE [as |-> "bytes", int |-> v(item.word).raw.int]
                      ELSE IF item.number THEN Digits(item.int)
                      ELSE [as |-> "str", str |-> "?"]
              u(w) == Moment.vars[At(code, Moment)!find_var(w)]
              WordAt == IF At(code, Moment)!Known(item.word) THEN
                          IF u(item.word).type = "INT"
                          THEN At(code, Moment)!Digits(u(item.word).raw.int)
                          ELSE IF u(item.word).raw.as = "str" THEN u(item.word).raw
                          ELSE [as |-> "bytes", int |-> u(item.word).raw.int]
                        ELSE IF item.number THEN At(code, Moment)!Digits(item.int)
                        ELSE [as |-> "str", str |-> "?"]
  <2>1. WordAt = Word
    <3>1. u(item.word) = v(item.word)
      BY Present, KnownAt
    <3>2. At(code, Moment)!Known(item.word) = Known(item.word)
      BY KnownAt
    <3>. HIDE DEF u, v
    <3>. QED BY <1>1, <3>1, <3>2
  <2>2. Shown(item) = CASE item.kind = "text" -> [as |-> "str", str |-> item.text]
                        [] item.kind = "tab"  -> [as |-> "str", str |-> "    "]
                        [] item.kind = "word" -> Word
    BY Zenon DEF Shown
  <2>3. At(code, Moment)!Shown(item) =
          CASE item.kind = "text" -> [as |-> "str", str |-> item.text]
            [] item.kind = "tab"  -> [as |-> "str", str |-> "    "]
            [] item.kind = "word" -> WordAt
    BY Zenon DEF At!Shown
  <2>. HIDE DEF Word, WordAt
  <2>. QED BY <2>1, <2>2, <2>3, Zenon
<1>. QED BY <1>2, Zenon DEF At!Printed, Printed

LEMMA StackAt ==
  /\ \A stack : At(code, Moment)!StartAfter(stack) = StartAfter(stack)
  /\ \A loop : At(code, Moment)!Push(loop) = Push(loop)
  /\ At(code, Moment)!Popped = Popped
  /\ At(code, Moment)!Position = Position
<1>1. \A stack : At(code, Moment)!StartAfter(stack) = StartAfter(stack)
  BY Present, TopAt DEF At!StartAfter, StartAfter
<1>4. At(code, Moment)!Position = Position
  BY Present, TopAt DEF At!Position, Position
<1>2. \A loop : At(code, Moment)!Push(loop) = Push(loop)
  BY Present DEF At!Push, Push
<1>3. At(code, Moment)!Popped = Popped
  BY Present DEF At!Popped, Popped
<1>. QED BY <1>1, <1>2, <1>3, <1>4

LEMMA StoreIs ==
  ASSUME NEW name, NEW type, NEW value, Store(name, type, value)
  PROVE  /\ StoreAt(code, Moment, name, type, value).vars = vars'
         /\ StoreAt(code, Moment, name, type, value).wild = wild'
BY Present, KnownAt DEF Store, StoreAt, Table

\* Every step of a run without INPUT leads where After says.
LEMMA StepIsAfter ==
  ASSUME QInv, AsksNothing(code), Step
  PROVE  Moment' = After(code, Moment)
<1>. USE Present
<1>. DEFINE S == Selected(Top)
<1>0. /\ phase = "run" /\ Moment.phase = "run"
      /\ exec_pos \in Nat /\ Len(code) \in Nat
      /\ Moment' = [phase |-> phase', exec_pos |-> exec_pos', vars |-> vars',
                    for_stack |-> for_stack', wild |-> wild', out |-> out']
  <2>1. phase = "run"
    BY DEF Step, SkipLabel, Rem, PrintItems, Let, Input, Goto, For, NextLoop,
           Finish, Executes, AtLine
  <2>. QED BY <2>1 DEF Moment, QInv, TypeOK
<1>1. CASE Finish
  <2>1. After(code, Moment) = [Moment EXCEPT !.phase = "key"]
    BY <1>0, <1>1 DEF Finish, After
  <2>. QED BY <1>0, <1>1, <2>1 DEF Finish, Moment
<1>2. CASE SkipLabel
  <2>1. After(code, Moment) =
          Running(exec_pos + 1, vars, StartAfter(for_stack), wild, out)
    BY <1>0, <1>2, StackAt DEF SkipLabel, AtLine, After
  <2>. QED BY <1>0, <1>2, <2>1 DEF SkipLabel, Advance, Running
<1>3. ASSUME NEW op, Executes(op)
      PROVE  /\ ~(exec_pos > Len(code)) /\ ~code[exec_pos].colon /\ S.op = op
             /\ StmtAt(code, Moment) = S
  BY <1>0, <1>3, TopAt DEF Executes, AtLine
<1>4. \A moved : JumpAt(code, Moment, moved) = IF Top.op = "if" THEN exec_pos + 1 ELSE moved
  BY TopAt DEF JumpAt
<1>. HIDE DEF S
<1>5. CASE Rem
  <2>1. Executes("rem")
    BY <1>5 DEF Rem
  <2>2. After(code, Moment) = Running(exec_pos + 1, vars, for_stack, wild, out)
    BY <1>0, <2>1, <1>3 DEF After
  <2>. QED BY <1>0, <1>5, <2>2 DEF Rem, Advance, Running
<1>6. CASE PrintItems
  <2>1. Executes("print")
    BY <1>6 DEF PrintItems
  <2>2. After(code, Moment) = PrintAt(code, Moment)
    BY <1>0, <2>1, <1>3 DEF After
  <2>3. CASE NeverEnds(S.items)
    <3>1. PrintAt(code, Moment) = [Moment EXCEPT !.phase = "hung"]
      BY <1>3, <2>1, <2>3 DEF PrintAt
    <3>2. /\ phase' = "hung"
          /\ UNCHANGED <<exec_pos, out, code, vars, for_stack, asked, wild>>
      BY <1>6, <2>3 DEF PrintItems, S
    <3>. QED BY <1>0, <2>2, <3>1, <3>2 DEF Moment
  <2>4. CASE ~NeverEnds(S.items)
    <3>1. PrintAt(code, Moment) =
            Running(exec_pos + 1, vars, for_stack, wild,
                    IF Len(out) < MaxOut THEN Append(out, Printed(S.items)) ELSE out)
      BY <1>3, <2>1, <2>4, ShownAt DEF PrintAt
    <3>2. /\ Advance
          /\ out' = IF Len(out) < MaxOut THEN Append(out, Printed(S.items)) ELSE out
          /\ UNCHANGED <<phase, code, vars, for_stack, asked, wild>>
      BY <1>6, <2>4 DEF PrintItems, S
    <3>. QED BY <1>0, <2>2, <3>1, <3>2 DEF Advance, Running
  <2>. QED BY <2>3, <2>4
<1>7. CASE Let
  <2>. DEFINE value == [t \in Type |-> Stored(t, S.operand.int, S.operand.text)]
              type == IF S.operand.quoted THEN "STR" ELSE "INT"
              t == StoreAt(code, Moment, S.var, type, value)
  <2>1. Executes("let")
    BY <1>7 DEF Let
  <2>2. After(code, Moment) = Running(exec_pos + 1, t.vars, for_stack, t.wild, out)
    BY <1>0, <2>1, <1>3 DEF After, LetAt
  <2>3. /\ Store(S.var, type, value) /\ Advance
        /\ UNCHANGED <<phase, code, for_stack, asked, out>>
    BY <1>7 DEF Let, S
  <2>4. t.vars = vars' /\ t.wild = wild'
    <3>. HIDE DEF value, type
    <3>. QED BY <2>3, StoreIs
  <2>. HIDE DEF t
  <2>. QED BY <1>0, <2>2, <2>3, <2>4 DEF Advance, Running
<1>8. CASE Input
  <2>1. AtLine /\ S.op = "input"
    BY <1>8 DEF Input, Executes, S
  <2>2. exec_pos \in DOMAIN code
    BY <2>1, LineIs DEF QInv, TypeOK
  <2>3. S \in Parts(code[exec_pos].stmt)
    BY SelectedPart DEF S, Top
  <2>. QED BY <2>1, <2>2, <2>3 DEF AsksNothing
<1>9. CASE Goto
  <2>. DEFINE to == IF Target(S) > 0 THEN Target(S) ELSE exec_pos
  <2>1. Executes("goto")
    BY <1>9 DEF Goto
  <2>2. After(code, Moment) =
          Running(IF Top.op = "if" THEN exec_pos + 1 ELSE to,
                  vars, for_stack, wild, out)
    BY <1>0, <2>1, <1>3, <1>4, TargetAt DEF After, GotoAt
  <2>3. /\ JumpOr(to)
        /\ UNCHANGED <<phase, code, vars, for_stack, asked, wild, out>>
    BY <1>9 DEF Goto, S
  <2>. QED BY <1>0, <2>2, <2>3 DEF JumpOr, Running
<1>10. CASE For
  <2>. DEFINE value == [x \in Type |-> IntRaw(S.from)]
              loop == [var |-> S.var, to |-> S.to, start |-> Position,
                       depth |-> Len(for_stack)]
              t == StoreAt(code, Moment, S.var, "INT", value)
  <2>1. Executes("for")
    BY <1>10 DEF For
  <2>2. After(code, Moment) =
          Running(exec_pos + 1, t.vars, StartAfter(Push(loop)), t.wild, out)
    BY <1>0, <2>1, <1>3, StackAt DEF After, ForAt
  <2>3. /\ Store(S.var, "INT", value) /\ Advance
        /\ for_stack' = StartAfter(Push(loop))
        /\ UNCHANGED <<phase, code, asked, out>>
    BY <1>10 DEF For, S
  <2>4. t.vars = vars' /\ t.wild = wild'
    <3>. HIDE DEF value
    <3>. QED BY <2>3, StoreIs
  <2>. HIDE DEF t, loop
  <2>. QED BY <1>0, <2>2, <2>3, <2>4 DEF Advance, Running
<1>11. CASE NextLoop
  <2>. DEFINE top == for_stack[Len(for_stack)]
              k == find_var(top.var)
              count == Plus1(AsInt(vars[k].raw))
              counted == [vars EXCEPT ![k] = Holding(@, IntRaw(count))]
              Jump(moved) == IF Top.op = "if" THEN exec_pos + 1 ELSE moved
              none == for_stack = <<>> \/ ~Known(top.var)
  <2>1. Executes("next")
    BY <1>11 DEF NextLoop
  <2>2. After(code, Moment) = NextAt(code, Moment)
    BY <1>0, <2>1, <1>3 DEF After
  <2>3. NextAt(code, Moment) =
          IF none THEN Running(Jump(exec_pos), vars, for_stack, wild, out)
          ELSE IF GoesOn(count, top)
          THEN Running(Jump(top.start), counted, for_stack, wild, out)
          ELSE Running(Jump(exec_pos), counted, Popped, wild, out)
    <3>. DEFINE topAt == Moment.for_stack[Len(Moment.for_stack)]
                kAt == At(code, Moment)!find_var(topAt.var)
                countAt == Plus1(AsInt(Moment.vars[kAt].raw))
                countedAt == [Moment.vars EXCEPT ![kAt] = Holding(@, IntRaw(countAt))]
                noneAt == Moment.for_stack = <<>> \/ ~At(code, Moment)!Known(topAt.var)
    <3>1. topAt = top
      OBVIOUS
    <3>2. kAt = k /\ noneAt = none
      <4>. HIDE DEF top, topAt
      <4>. QED BY <3>1, KnownAt
    <3>3. countAt = count
      <4>. HIDE DEF k, kAt
      <4>. QED BY <3>2
    <3>4. countedAt = counted
      <4>. HIDE DEF k, kAt, count, countAt
      <4>. QED BY <3>2, <3>3
    <3>5. NextAt(code, Moment) =
            IF noneAt THEN Running(JumpAt(code, Moment, Moment.exec_pos), Moment.vars,
                                   Moment.for_stack, Moment.wild, Moment.out)
            ELSE IF GoesOn(countAt, topAt)
            THEN Running(JumpAt(code, Moment, topAt.start), countedAt,
                         Moment.for_stack, Moment.wild, Moment.out)
            ELSE Running(JumpAt(code, Moment, Moment.exec_pos), countedAt,
                         At(code, Moment)!Popped, Moment.wild, Moment.out)
      BY Zenon DEF NextAt
    <3>. HIDE DEF top, topAt, k, kAt, count, countAt, counted, countedAt, none, noneAt
    <3>. QED BY <1>4, <3>1, <3>2, <3>3, <3>4, <3>5, StackAt
  <2>4. UNCHANGED <<phase, code, asked, wild, out>>
    BY <1>11 DEF NextLoop
  <2>5. IF none THEN exec_pos' = Jump(exec_pos) /\ UNCHANGED <<vars, for_stack>>
        ELSE /\ vars' = counted
             /\ IF GoesOn(count, top)
                THEN exec_pos' = Jump(top.start) /\ UNCHANGED for_stack
                ELSE exec_pos' = Jump(exec_pos) /\ for_stack' = Popped
    BY <1>11 DEF NextLoop, JumpOr
  <2>. HIDE DEF top, k, count, counted, Jump, none
  <2>. QED BY <1>0, <2>2, <2>3, <2>4, <2>5 DEF Running
<1>. QED
  BY <1>1, <1>2, <1>5, <1>6, <1>7, <1>8, <1>9, <1>10, <1>11 DEF Step

\* No step of such a run asks for input, and none changes the program.
LEMMA StepAsksNothing ==
  ASSUME QInv, AsksNothing(code), Step
  PROVE  phase = "run" /\ phase' \in {"run", "hung", "key"} /\ UNCHANGED code
<1>1. ~Input
  <2>. SUFFICES ASSUME Input
                PROVE  FALSE
    OBVIOUS
  <2>1. AtLine /\ Selected(Top).op = "input"
    BY DEF Input, Executes
  <2>2. exec_pos \in DOMAIN code
    BY <2>1, LineIs DEF QInv, TypeOK
  <2>3. Selected(Top) \in Parts(code[exec_pos].stmt)
    BY SelectedPart DEF Top
  <2>. QED BY <2>1, <2>2, <2>3 DEF AsksNothing
<1>2. CASE SkipLabel \/ Rem \/ Let \/ Goto \/ For \/ NextLoop
  BY <1>2 DEF SkipLabel, Rem, Let, Goto, For, NextLoop, Executes, AtLine
<1>3. CASE PrintItems \/ Finish
  BY <1>3 DEF PrintItems, Finish, Executes, AtLine
<1>. QED BY <1>1, <1>2, <1>3 DEF Step

Moments == [phase : {"run", "hung", "key"}, exec_pos : Nat, vars : Seq(Variable),
            for_stack : Seq(ForLoop), wild : BOOLEAN,
            out : Seq(Seq(PrintedItem))]

\* How run_program begins.
Fresh == Running(1, <<>>, <<>>, FALSE, <<>>)

Onward(c, T) == \A m \in T : After(c, m) \in Moments => After(c, m) \in T

\* m is in every set that contains the beginning and the next of its moments.
Reached(c, m) ==
  \A T \in SUBSET Moments : Fresh \in T /\ Onward(c, T) => m \in T

\* A program has one end at most.  Every moment that it reaches leads to the
\* end f, that is, belongs to every set that contains f and what leads into it;
\* an end g leads to nothing but g.
LEMMA OneEnd ==
  ASSUME NEW c, Fresh \in Moments, NEW f \in Moments, NEW g \in Moments,
         Reached(c, f), Reached(c, g), After(c, f) = f, After(c, g) = g
  PROVE  f = g
<1>. DEFINE Into(B) == \A m \in Moments : After(c, m) \in B => m \in B
            Leads(m) == \A B \in SUBSET Moments : f \in B /\ Into(B) => m \in B
            T == {m \in Moments : Leads(m)}
<1>. HIDE DEF Fresh, After, Moments
<1>1. Leads(Fresh)
  <2>. SUFFICES ASSUME NEW B \in SUBSET Moments, f \in B, Into(B), Fresh \notin B
                PROVE  FALSE
    OBVIOUS
  <2>1. Onward(c, Moments \ B)
    BY DEF Onward
  <2>2. f \in Moments \ B
    BY <2>1 DEF Reached
  <2>. QED BY <2>2
<1>2. ASSUME NEW m \in T, After(c, m) \in Moments
      PROVE  Leads(After(c, m))
  <2>. SUFFICES ASSUME NEW B \in SUBSET Moments, f \in B, Into(B), After(c, m) \notin B
                PROVE  FALSE
    OBVIOUS
  <2>1. f # m
    OBVIOUS
  <2>2. Into(B \ {m})
    OBVIOUS
  <2>3. f \in B \ {m} /\ B \ {m} \in SUBSET Moments
    BY <2>1
  <2>4. Leads(m)
    OBVIOUS
  <2>5. m \in B \ {m}
    <3>. HIDE DEF Into
    <3>. QED BY <2>2, <2>3, <2>4
  <2>. QED BY <2>5
<1>3. Onward(c, T)
  <2>. HIDE DEF Leads
  <2>. QED BY <1>2 DEF Onward
<1>4. Leads(g)
  <2>1. T \in SUBSET Moments /\ Fresh \in T
    <3>. HIDE DEF Leads
    <3>. QED BY <1>1
  <2>. HIDE DEF T
  <2>2. g \in T
    BY <1>3, <2>1 DEF Reached
  <2>. USE DEF T
  <2>. HIDE DEF Leads
  <2>. QED BY <2>2
<1>5. Into(Moments \ {g})
  OBVIOUS
<1>. QED
  <2>. SUFFICES ASSUME f # g
                PROVE  FALSE
    OBVIOUS
  <2>1. f \in Moments \ {g} /\ Moments \ {g} \in SUBSET Moments
    OBVIOUS
  <2>2. g \in Moments \ {g}
    <3>. HIDE DEF Into
    <3>. QED BY <1>4, <1>5, <2>1
  <2>. QED BY <2>2

LEMMA MomentIs == TypeOK /\ phase \in {"run", "hung", "key"} => Moment \in Moments
<1>1. TypeOK => exec_pos \in Nat
  BY DEF TypeOK
<1>. QED BY <1>1 DEF TypeOK, Moment, Moments

LEMMA MomentNext ==
  TypeOK' /\ phase' \in {"run", "hung", "key"} => Moment' \in Moments
<1>1. (TypeOK /\ phase \in {"run", "hung", "key"} => Moment \in Moments)'
  BY MomentIs, PTL
<1>. QED BY <1>1

LEMMA FreshIs == Fresh \in Moments
<1>1. /\ <<>> \in Seq(Variable) /\ <<>> \in Seq(ForLoop)
      /\ <<>> \in Seq(Seq(PrintedItem))
  BY Empty
<1>. QED BY <1>1 DEF Fresh, Running, Moments

\* The inductive invariant: the run is on the way of its program, and what
\* ended was at the end of that way.
OnItsWay ==
  AsksNothing(code) =>
    /\ phase # "input"
    /\ phase # "edit" => Reached(code, Moment)

Ended(r) ==
  \E m \in Moments : m.phase = "key" /\ m.out = r[2] /\ Reached(r[1], m)

EndsOnItsWay == \A r \in ended : AsksNothing(r[1]) => Ended(r)

LEMMA WayKept ==
  ASSUME QInv, QInv', OnItsWay, [Next]_qb
  PROVE  OnItsWay'
<1>1. CASE UNCHANGED qb
  <2>1. UNCHANGED <<phase, code, Moment>>
    BY <1>1 DEF qb, Moment
  <2>. QED BY <2>1 DEF OnItsWay
<1>2. ASSUME NEW program \in Program, Run(program)
      PROVE  OnItsWay'
  <2>1. phase' = "run" /\ code' = program /\ Moment' = Fresh
    BY <1>2 DEF Run, Moment, Fresh, Running
  <2>2. Reached(program, Fresh)
    BY DEF Reached
  <2>. QED BY <2>1, <2>2 DEF OnItsWay
<1>3. CASE Step
  <2>. SUFFICES ASSUME AsksNothing(code')
                PROVE  phase' # "input" /\ Reached(code, Moment)'
    BY DEF OnItsWay
  <2>1. UNCHANGED code
    BY <1>3 DEF Step, SkipLabel, Rem, PrintItems, Let, Input, Goto, For, NextLoop,
                Finish
  <2>2. AsksNothing(code)
    BY <2>1
  <2>3. phase = "run" /\ phase' \in {"run", "hung", "key"}
    BY <1>3, <2>2, StepAsksNothing
  <2>4. Moment' = After(code, Moment)
    BY <1>3, <2>2, StepIsAfter
  <2>5. Moment \in Moments
    BY <2>3, MomentIs DEF QInv
  <2>6. Moment' \in Moments
    BY <2>3, MomentNext DEF QInv
  <2>7. Reached(code, Moment)
    BY <2>2, <2>3 DEF OnItsWay
  <2>8. Reached(code, After(code, Moment))
    <3>. SUFFICES ASSUME NEW T \in SUBSET Moments, Fresh \in T, Onward(code, T)
                  PROVE  After(code, Moment) \in T
      BY DEF Reached
    <3>1. Moment \in T
      BY <2>7 DEF Reached
    <3>. QED BY <3>1, <2>4, <2>6 DEF Onward
  <2>. QED BY <2>1, <2>3, <2>4, <2>8
<1>4. ASSUME NEW reply \in Reply, Answer(reply)
      PROVE  OnItsWay'
  <2>1. phase = "input" /\ UNCHANGED code
    BY <1>4 DEF Answer
  <2>. QED BY <2>1 DEF OnItsWay
<1>5. CASE AnyKey
  <2>1. phase' = "edit" /\ UNCHANGED code
    BY <1>5 DEF AnyKey
  <2>. QED BY <2>1 DEF OnItsWay
<1>. QED BY <1>1, <1>2, <1>3, <1>4, <1>5 DEF Next

LEMMA EndsKept ==
  ASSUME QInv, QInv', OnItsWay, OnItsWay', EndsOnItsWay, [Next]_qb, [Remember]_ended
  PROVE  EndsOnItsWay'
<1>1. CASE ended' = ended
  BY <1>1 DEF EndsOnItsWay, Ended
<1>2. CASE ended' # ended
  <2>1. /\ phase = "run" /\ phase' = "key"
        /\ ended' = ended \union {<<code, out>>}
    BY <1>2 DEF Remember
  <2>2. UNCHANGED <<code, out>>
    <3>1. ~UNCHANGED qb
      BY <2>1 DEF qb
    <3>2. Finish
      BY <2>1, <3>1 DEF Next, Run, Answer, AnyKey, Step, SkipLabel, Rem,
         PrintItems, Let, Input, Goto, For, NextLoop
    <3>. QED BY <3>2 DEF Finish
  <2>3. Moment' \in Moments /\ Moment'.phase = "key" /\ Moment'.out = out
    BY <2>1, <2>2, MomentNext DEF QInv, Moment
  <2>4. ASSUME AsksNothing(code)
        PROVE  Ended(<<code, out>>)
    <3>1. Reached(code, Moment')
      BY <2>1, <2>2, <2>4 DEF OnItsWay
    <3>. QED BY <2>3, <3>1 DEF Ended
  <2>5. \A r \in ended : AsksNothing(r[1]) => Ended(r)
    BY DEF EndsOnItsWay
  <2>6. \A r \in ended' : AsksNothing(r[1]) => Ended(r)
    <3>. HIDE DEF Ended, AsksNothing
    <3>. QED BY <2>1, <2>4, <2>5
  <2>. QED BY <2>6 DEF EndsOnItsWay, Ended
<1>. QED BY <1>1, <1>2

LEMMA WaysAgree ==
  ASSUME EndsOnItsWay
  PROVE  RerunsAgree
<1>. SUFFICES ASSUME NEW r \in ended, NEW s \in ended, r[1] = s[1],
                     AsksNothing(r[1])
              PROVE  r[2] = s[2]
  BY DEF RerunsAgree
<1>1. Ended(r) /\ Ended(s)
  BY DEF EndsOnItsWay
<1>2. PICK f \in Moments : f.phase = "key" /\ f.out = r[2] /\ Reached(r[1], f)
  BY <1>1 DEF Ended
<1>3. PICK g \in Moments : g.phase = "key" /\ g.out = s[2] /\ Reached(r[1], g)
  BY <1>1 DEF Ended
<1>4. After(r[1], f) = f /\ After(r[1], g) = g
  BY <1>2, <1>3 DEF After
<1>5. f = g
  BY <1>2, <1>3, <1>4, FreshIs, OneEnd
<1>. QED BY <1>2, <1>3, <1>5

(* A program without INPUT prints the same in every run that ends,         *)
(* whichever programs ran in between and whatever they left in the tables  *)
(* (README.MD:67; run_program, qbasic.c:555-602): a step is a              *)
(* function of the program and the moment, and every run begins alike.     *)
THEOREM RunsRepeat == AgainSpec => []RerunsAgree
<1>1. AgainInit => QInv /\ OnItsWay /\ EndsOnItsWay
  <2>1. Init => OnItsWay
    BY DEF Init, OnItsWay
  <2>. QED BY <2>1, StartsSound DEF AgainInit, EndsOnItsWay
<1>2. [AgainNext]_again => [Next]_qb /\ [Remember]_ended
  BY DEF AgainNext, again
<1>3. QInv /\ [Next]_qb => QInv'
  BY EveryStep
<1>4. QInv /\ QInv' /\ OnItsWay /\ [Next]_qb => OnItsWay'
  BY WayKept
<1>5. QInv /\ QInv' /\ OnItsWay /\ OnItsWay' /\ EndsOnItsWay /\ [Next]_qb
      /\ [Remember]_ended => EndsOnItsWay'
  BY EndsKept
<1>6. EndsOnItsWay => RerunsAgree
  BY WaysAgree
<1>. QED BY <1>1, <1>2, <1>3, <1>4, <1>5, <1>6, PTL DEF AgainSpec

-----------------------------------------------------------------------------
(* What a counting loop prints.                                            *)

From == code[1].stmt.from
Last == IF code[1].stmt.to > From THEN code[1].stmt.to ELSE From

\* The first n numbers of the count, as many of them as out keeps.
PrintedUpTo(n) ==
  /\ Len(out) = IF n < MaxOut THEN n ELSE MaxOut
  /\ \A i \in 1 .. Len(out) : out[i] = <<Digits(From + i - 1)>>

InTable(k) ==
  vars = <<[name |-> code[1].stmt.var, type |-> "INT", raw |-> IntRaw(k)]>>

OnStack ==
  for_stack = <<[var |-> code[1].stmt.var, to |-> code[1].stmt.to,
                 start |-> 2, depth |-> 0]>>

\* Before the loop, in its body or at its NEXT with the counter at k, or done.
CountState ==
  \/ exec_pos = 1 /\ vars = <<>> /\ for_stack = <<>> /\ PrintedUpTo(0)
  \/ \E k \in From .. Last :
       /\ InTable(k) /\ OnStack
       /\ \/ exec_pos = 2 /\ PrintedUpTo(k - From)
          \/ exec_pos = 3 /\ PrintedUpTo(k - From + 1)
  \/ exec_pos = 3 /\ for_stack = <<>> /\ PrintedUpTo(Last - From + 1)

CountInv == Counting => phase = "run" /\ CountState

LEMMA CountStarts ==
  ASSUME NEW program \in Program, Run(program)
  PROVE  CountInv'
<1>1. /\ phase' = "run" /\ exec_pos' = 1 /\ vars' = <<>> /\ for_stack' = <<>>
      /\ out' = <<>>
  BY DEF Run
<1>2. Len(out') = 0 /\ 1 .. Len(out') = {}
  BY <1>1, Empty
<1>3. PrintedUpTo(0)'
  BY <1>2 DEF PrintedUpTo
<1>. QED BY <1>1, <1>3 DEF CountInv, CountState

\* What Counting says of the three lines.
LEMMA CountingIs ==
  ASSUME QInv, Counting
  PROVE  /\ Len(code) >= 3
         /\ code[1].stmt.var \in Name
         /\ From \in Int32 /\ code[1].stmt.to \in Int32
         /\ \A op : Executes(op) /\ exec_pos \in 1 .. 3 => Selected(Top) = Top /\ Top.op = op
         /\ AtLine /\ exec_pos \in 1 .. 3 => ~code[exec_pos].colon
<1>1. /\ Len(code) >= 3 /\ code \in Seq(Line) /\ Len(code) \in Nat
      /\ code[1].stmt.op = "for" /\ code[2].stmt.op = "print"
      /\ code[3].stmt.op = "next" /\ \A i \in 1 .. 3 : ~code[i].colon
  BY DEF QInv, TypeOK, Counting
<1>2. code[1] \in Line
  BY <1>1
<1>3. code[1].stmt \in Statement
  BY <1>2 DEF Line
<1>4. code[1].stmt \in Simple
  BY <1>1, <1>3, SelectedIs
<1>5. code[1].stmt.var \in Name /\ From \in Int32 /\ code[1].stmt.to \in Int32
  BY <1>1, <1>4, Fields DEF From
<1>6. ASSUME NEW op, Executes(op), exec_pos \in 1 .. 3
      PROVE  Selected(Top) = Top /\ Top.op = op
  <2>1. AtLine /\ Selected(Top).op = op
    BY <1>6 DEF Executes
  <2>2. Top.op # "if"
    BY <1>1, <1>6 DEF Top
  <2>. QED BY <2>1, <2>2, LineIs
<1>. QED BY <1>1, <1>5, <1>6

LEMMA CountStep ==
  ASSUME QInv, QInv', CountInv, Step
  PROVE  CountInv'
<1>0. UNCHANGED code
  BY DEF Step, SkipLabel, Rem, PrintItems, Let, Input, Goto, For, NextLoop, Finish
<1>. SUFFICES ASSUME Counting
              PROVE  phase' = "run" /\ CountState'
  BY <1>0 DEF CountInv, Counting, From
<1>. DEFINE s == code[1].stmt
<1>1. /\ Len(code) >= 3 /\ s.var \in Name /\ From \in Int32 /\ s.to \in Int32
      /\ \A op : Executes(op) /\ exec_pos \in 1 .. 3 => Selected(Top) = Top /\ Top.op = op
      /\ AtLine /\ exec_pos \in 1 .. 3 => ~code[exec_pos].colon
  BY CountingIs
<1>2. /\ code[1].stmt.op = "for" /\ code[2].stmt.op = "print"
      /\ code[3].stmt.op = "next" /\ s.to < INT_MAX /\ From < INT_MAX
      /\ code[2].stmt.items = <<[kind |-> "word", word |-> s.var,
                                 number |-> FALSE, int |-> 0]>>
  BY DEF Counting, From
<1>3. phase = "run" /\ CountState
  BY DEF CountInv
<1>4. /\ exec_pos \in 1 .. 3 /\ Top = code[exec_pos].stmt
      /\ From \in Int /\ Last \in Int /\ From <= Last /\ Last < INT_MAX
      /\ MaxOut \in Nat /\ INT_MAX \in Nat
  <2>1. From \in Int /\ s.to \in Int
    BY <1>1 DEF Int32, INT_MIN
  <2>. QED BY <1>2, <1>3, <2>1 DEF CountState, Top, Last
<1>5. \/ exec_pos = 1 /\ For
      \/ exec_pos = 2 /\ PrintItems
      \/ exec_pos = 3 /\ NextLoop
  <2>1. ~SkipLabel /\ ~Finish
    BY <1>1, <1>4 DEF SkipLabel, Finish
  <2>2. \A op : Executes(op) => Top.op = op
    BY <1>1, <1>4
  <2>3. ~Rem /\ ~Let /\ ~Input /\ ~Goto
    BY <1>2, <1>4, <2>2 DEF Rem, Let, Input, Goto
  <2>4. For \/ PrintItems \/ NextLoop
    BY <2>1, <2>3 DEF Step
  <2>. QED BY <1>2, <1>4, <2>2, <2>4 DEF For, PrintItems, NextLoop
<1>6. From' = From /\ Last' = Last /\ code' = code
  BY <1>0 DEF From, Last
<1>7. CASE exec_pos = 1 /\ For
  <2>. DEFINE value == [x \in Type |-> IntRaw(s.from)]
              loop == [var |-> s.var, to |-> s.to, start |-> Position,
                       depth |-> Len(for_stack)]
  <2>1. vars = <<>> /\ for_stack = <<>> /\ PrintedUpTo(0)
    BY <1>3, <1>7 DEF CountState
  <2>2. Executes("for") /\ Selected(Top) = s /\ Top.op = "for"
    BY <1>1, <1>2, <1>4, <1>7 DEF For
  <2>3. /\ Store(s.var, "INT", value) /\ for_stack' = StartAfter(Push(loop))
        /\ exec_pos' = 2 /\ UNCHANGED <<phase, code, asked, out>>
    BY <1>7, <2>2 DEF For, Advance
  <2>4. InTable(From)'
    <3>1. ~Known(s.var) /\ Len(vars) < MAX_VARS
      BY <2>1 DEF Known
    <3>2. value["INT"] = IntRaw(From)
      BY DEF From, Type
    <3>3. vars' = Append(vars, [name |-> s.var, type |-> "INT", raw |-> value["INT"]])
      BY <2>3, <3>1 DEF Store
    <3>. HIDE DEF value
    <3>4. vars' = <<[name |-> s.var, type |-> "INT", raw |-> IntRaw(From)]>>
      BY <2>1, <3>2, <3>3
    <3>. QED BY <1>6, <3>4 DEF InTable
  <2>5. OnStack'
    <3>1. Push(loop) = <<[var |-> s.var, to |-> s.to, start |-> 2, depth |-> 0]>>
      BY <1>7, <2>1, <2>2 DEF Push, Position
    <3>2. StartAfter(Push(loop)) =
            <<[var |-> s.var, to |-> s.to, start |-> 2, depth |-> 0]>>
      BY <1>7, <2>2, <3>1 DEF StartAfter
    <3>. QED BY <1>6, <2>3, <3>2 DEF OnStack
  <2>6. PrintedUpTo(From - From)'
    BY <1>4, <1>6, <2>1, <2>3 DEF PrintedUpTo
  <2>. QED BY <1>3, <1>4, <1>6, <2>3, <2>4, <2>5, <2>6 DEF CountState
<1>8. CASE exec_pos = 2 /\ PrintItems
  <2>1. PICK k \in From .. Last : InTable(k) /\ OnStack /\ PrintedUpTo(k - From)
    BY <1>3, <1>8 DEF CountState
  <2>. DEFINE item == [kind |-> "word", word |-> s.var, number |-> FALSE, int |-> 0]
  <2>2. Selected(Top).items = <<item>>
    BY <1>1, <1>2, <1>4, <1>8 DEF PrintItems
  <2>3. ~NeverEnds(<<item>>)
    BY DEF NeverEnds
  <2>4. Printed(<<item>>) = <<Digits(k)>>
    <3>1. Known(s.var) /\ vars[find_var(s.var)] = vars[1]
      <4>1. Known(s.var) /\ DOMAIN vars = {1}
        BY <2>1 DEF InTable, Known
      <4>2. vars \in Seq(Variable)
        BY DEF QInv, TypeOK
      <4>. QED BY <4>1, <4>2, FindVar
    <3>2. vars[1].type = "INT" /\ vars[1].raw.int = k
      BY <2>1 DEF InTable, IntRaw
    <3>3. Shown(item) = IF Known(s.var) THEN
                          IF vars[find_var(s.var)].type = "INT"
                          THEN Digits(vars[find_var(s.var)].raw.int)
                          ELSE IF vars[find_var(s.var)].raw.as = "str"
                          THEN vars[find_var(s.var)].raw
                          ELSE [as |-> "bytes", int |-> vars[find_var(s.var)].raw.int]
                        ELSE [as |-> "str", str |-> "?"]
      BY DEF Shown
    <3>4. Shown(item) = Digits(k)
      BY <3>1, <3>2, <3>3
    <3>. HIDE DEF item
    <3>. QED BY <3>4 DEF Printed
  <2>. HIDE DEF item
  <2>5. /\ exec_pos' = 3 /\ UNCHANGED <<phase, code, vars, for_stack, asked, wild>>
        /\ out' = IF Len(out) < MaxOut THEN Append(out, <<Digits(k)>>) ELSE out
    BY <1>8, <2>2, <2>3, <2>4 DEF PrintItems, Advance
  <2>6. PrintedUpTo(k - From + 1)'
    <3>1. out \in Seq(Seq(PrintedItem)) /\ Len(out) \in Nat
      BY DEF QInv, TypeOK
    <3>2. k \in Int /\ From <= k
      BY <1>4
    <3>3. CASE Len(out) < MaxOut
      <4>1. Len(out) = k - From
        BY <1>4, <2>1, <3>2, <3>3 DEF PrintedUpTo
      <4>2. /\ Len(out') = k - From + 1 /\ out'[k - From + 1] = <<Digits(k)>>
            /\ \A i \in 1 .. k - From : out'[i] = out[i]
        BY <2>5, <3>1, <3>3, <4>1
      <4>3. \A i \in 1 .. k - From : out[i] = <<Digits(From + i - 1)>>
        BY <2>1, <4>1 DEF PrintedUpTo
      <4>4. From + (k - From + 1) - 1 = k
        BY <1>4, <3>2
      <4>5. ASSUME NEW i \in 1 .. k - From + 1
            PROVE  out'[i] = <<Digits(From + i - 1)>>
        <5>1. CASE i = k - From + 1
          BY <4>2, <4>4, <5>1
        <5>2. CASE i # k - From + 1
          <6>1. i \in 1 .. k - From
            BY <1>4, <3>2, <5>2
          <6>. QED BY <4>2, <4>3, <6>1
        <5>. QED BY <5>1, <5>2
      <4>6. Len(out') = IF k - From + 1 < MaxOut THEN k - From + 1 ELSE MaxOut
        <5>1. k - From + 1 \in Int /\ k - From + 1 <= MaxOut
          BY <3>2, <3>3, <4>1, <1>8
        <5>. QED BY <4>2, <5>1
      <4>7. \A i \in 1 .. Len(out') : out'[i] = <<Digits(From + i - 1)>>
        BY <4>2, <4>5
      <4>8. k - From' + 1 = k - From + 1 /\ From' = From
        BY <1>6
      <4>. QED BY <4>6, <4>7, <4>8, Zenon DEF PrintedUpTo
    <3>4. CASE ~(Len(out) < MaxOut)
      <4>1. out' = out
        BY <2>5, <3>4
      <4>. QED BY <1>4, <1>6, <2>1, <3>1, <3>2, <3>4, <4>1 DEF PrintedUpTo
    <3>. QED BY <3>3, <3>4
  <2>7. InTable(k)' /\ OnStack'
    BY <1>6, <2>1, <2>5 DEF InTable, OnStack
  <2>. QED BY <1>3, <1>6, <2>5, <2>6, <2>7 DEF CountState
<1>9. CASE exec_pos = 3 /\ NextLoop
  <2>1. CASE for_stack = <<>>
    <3>1. PrintedUpTo(Last - From + 1)
      BY <1>3, <1>9, <2>1 DEF CountState, OnStack
    <3>2. /\ exec_pos' = exec_pos /\ for_stack' = <<>>
          /\ UNCHANGED <<phase, code, out>>
      BY <1>2, <1>4, <1>9, <2>1 DEF NextLoop, JumpOr
    <3>3. PrintedUpTo(Last - From + 1)'
      BY <1>6, <3>1, <3>2 DEF PrintedUpTo
    <3>. QED BY <1>3, <1>9, <3>2, <3>3 DEF CountState
  <2>2. CASE for_stack # <<>>
    <3>1. PICK k \in From .. Last : InTable(k) /\ OnStack /\ PrintedUpTo(k - From + 1)
      BY <1>3, <1>9, <2>2 DEF CountState
    <3>2. k \in Int /\ From <= k /\ k <= Last
      BY <1>4
    <3>. DEFINE loop == [var |-> s.var, to |-> s.to, start |-> 2, depth |-> 0]
                counted == [vars EXCEPT ![1] = Holding(@, IntRaw(k + 1))]
    <3>3. for_stack[Len(for_stack)] = loop
      BY <3>1 DEF OnStack
    <3>4. Known(s.var) /\ find_var(s.var) = 1
      <4>1. Known(s.var) /\ DOMAIN vars = {1}
        BY <3>1 DEF InTable, Known
      <4>2. vars \in Seq(Variable)
        BY DEF QInv, TypeOK
      <4>. QED BY <4>1, <4>2, FindVar
    <3>5. Plus1(AsInt(vars[1].raw)) = k + 1
      BY <1>4, <3>1, <3>2 DEF InTable, IntRaw, AsInt, Plus1
    <3>6. counted = <<[name |-> s.var, type |-> "INT", raw |-> IntRaw(k + 1)]>>
      BY <3>1 DEF InTable, Holding
    <3>7. loop.var = s.var /\ loop.to = s.to /\ loop.start = 2
      OBVIOUS
    <3>. HIDE DEF counted, loop
    <3>8. /\ vars' = counted /\ UNCHANGED <<phase, code, out>>
          /\ IF k + 1 <= s.to THEN exec_pos' = 2 /\ UNCHANGED for_stack
             ELSE exec_pos' = exec_pos /\ for_stack' = Popped
      BY <1>2, <1>4, <1>9, <2>2, <3>3, <3>4, <3>5, <3>7 DEF NextLoop, JumpOr, GoesOn, counted
    <3>9. CASE k + 1 <= s.to
      <4>1. k + 1 \in From .. Last /\ k + 1 - From = k - From + 1
        BY <1>1, <1>4, <3>2, <3>9 DEF Last, Int32
      <4>2. InTable(k + 1)' /\ OnStack'
        BY <1>6, <3>1, <3>6, <3>8, <3>9 DEF InTable, OnStack
      <4>3. PrintedUpTo(k - From + 1)'
        BY <1>6, <3>1, <3>8 DEF PrintedUpTo
      <4>4. PrintedUpTo((k + 1) - From)'
        <5>1. (k + 1) - From' = k - From' + 1
          BY <1>4, <1>6, <3>2
        <5>. QED BY <4>3, <5>1 DEF PrintedUpTo
      <4>. QED BY <1>3, <1>6, <3>8, <3>9, <4>1, <4>2, <4>4 DEF CountState
    <3>10. CASE ~(k + 1 <= s.to)
      <4>1. k = Last
        BY <1>1, <1>4, <3>2, <3>10 DEF Last, Int32
      <4>2. for_stack' = <<>>
        BY <3>1, <3>8, <3>10 DEF Popped, OnStack
      <4>3. PrintedUpTo(Last - From + 1)'
        BY <1>6, <3>1, <3>8, <4>1 DEF PrintedUpTo
      <4>. QED BY <1>3, <1>9, <3>8, <3>10, <4>2, <4>3 DEF CountState
    <3>. QED BY <3>9, <3>10
  <2>. QED BY <2>1, <2>2
<1>. QED BY <1>5, <1>7, <1>8, <1>9

LEMMA CountSound ==
  ASSUME QInv, CountInv
  PROVE  CountsInOrder
<1>. SUFFICES ASSUME Counting
              PROVE  /\ Len(out) <= Last - From + 1
                     /\ out = [n \in 1 .. Len(out) |-> <<Digits(From + n - 1)>>]
  BY DEF CountsInOrder, From, Last
<1>1. From \in Int /\ code[1].stmt.to \in Int
  BY CountingIs DEF Int32, INT_MIN
<1>2. Last \in Int /\ From <= Last
  BY <1>1 DEF Last
<1>3. PICK n \in 0 .. Last - From + 1 : PrintedUpTo(n)
  <2>1. CountState
    BY DEF CountInv
  <2>2. \A k \in From .. Last : /\ k - From \in 0 .. Last - From + 1
                                /\ k - From + 1 \in 0 .. Last - From + 1
    BY <1>1, <1>2
  <2>3. 0 \in 0 .. Last - From + 1 /\ Last - From + 1 \in 0 .. Last - From + 1
    BY <1>1, <1>2
  <2>. HIDE DEF Last
  <2>. QED BY <2>1, <2>2, <2>3 DEF CountState
<1>4. Len(out) <= Last - From + 1
  BY <1>1, <1>2, <1>3 DEF PrintedUpTo
<1>5. out \in Seq(Seq(PrintedItem))
  BY DEF QInv, TypeOK
<1>6. out = [i \in 1 .. Len(out) |-> out[i]]
  BY <1>5
<1>. QED BY <1>3, <1>4, <1>6 DEF PrintedUpTo

(* A FOR loop around a PRINT of its variable prints the numbers from the   *)
(* first bound to the last one, each once and in order, and nothing else,  *)
(* for all 32-bit bounds below the largest (qbasic.c:412-473): push, start *)
(* of the body, increment, comparison, jump and pop fit each other.        *)
THEOREM LoopCounts == Spec => []CountsInOrder
<1>1. Init => CountInv
  <2>1. Init => Len(code) = 0
    BY Empty DEF Init
  <2>. QED BY <2>1 DEF CountInv, Counting
<1>2. QInv /\ QInv' /\ CountInv /\ [Next]_qb => CountInv'
  <2>1. CountInv /\ UNCHANGED qb => CountInv'
    BY DEF qb, CountInv, Counting, CountState, From, Last, PrintedUpTo, InTable, OnStack
  <2>2. ASSUME NEW program \in Program, Run(program)
        PROVE  CountInv'
    BY <2>2, CountStarts
  <2>3. QInv /\ QInv' /\ CountInv /\ Step => CountInv'
    BY CountStep
  <2>4. ASSUME CountInv, AnyKey \/ \E reply \in Reply : Answer(reply)
        PROVE  CountInv'
    <3>1. phase # "run" /\ UNCHANGED code
      BY <2>4 DEF AnyKey, Answer
    <3>. QED BY <2>4, <3>1 DEF CountInv, Counting, From
  <2>. QED BY <2>1, <2>2, <2>3, <2>4 DEF Next
<1>3. QInv /\ CountInv => CountsInOrder
  BY CountSound
<1>4. QInv /\ [Next]_qb => QInv'
  BY EveryStep
<1>. QED BY <1>1, <1>2, <1>3, <1>4, Invariant, PTL DEF Spec

-----------------------------------------------------------------------------
(* Programs that go forward.                                               *)

(* Every statement of a Forward program takes the run closer to the end of *)
(* the program or ends it there, or asks for input: none of them can be    *)
(* repeated for ever (run_program, qbasic.c:563-602).  This is what        *)
(* Terminates needs of the steps; that they are taken is fairness.         *)
Onwards ==
  [][Step /\ Forward => \/ phase' \in {"key", "input"}
                        \/ phase' = "run" /\ exec_pos' > exec_pos]_qb

THEOREM ForwardGoesOn == Spec => Onwards
<1>1. ASSUME QInv, Step, Forward
      PROVE  \/ phase' \in {"key", "input"}
             \/ phase' = "run" /\ exec_pos' > exec_pos
  <2>. USE <1>1
  <2>1. ASSUME AtLine, Advance
        PROVE  exec_pos' > exec_pos
    <3>1. exec_pos \in Nat
      BY <2>1, LineIs DEF QInv, TypeOK
    <3>. QED BY <2>1, <3>1 DEF Advance
  <2>2. CASE SkipLabel \/ Rem \/ Let \/ For
    BY <2>1, <2>2 DEF SkipLabel, Rem, Let, For, Executes, AtLine
  <2>3. CASE Input
    BY <2>1, <2>3 DEF Input, Executes, AtLine
  <2>4. CASE Finish
    BY <2>4 DEF Finish
  <2>5. ASSUME NEW op, Executes(op)
        PROVE  /\ phase = "run" /\ exec_pos \in 1 .. Len(code) /\ Len(code) \in Nat
               /\ Harmless(exec_pos) /\ Top = code[exec_pos].stmt
               /\ Selected(Top) \in Parts(Top) /\ Selected(Top).op = op
               /\ Top.op # "if" => Selected(Top) = Top
    <3>1. AtLine /\ ~code[exec_pos].colon /\ Selected(Top).op = op
      BY <2>5 DEF Executes
    <3>2. exec_pos \in DOMAIN code /\ Len(code) \in Nat
      BY <3>1, LineIs DEF QInv, TypeOK
    <3>. QED BY <3>1, <3>2, LineIs, SelectedPart DEF Forward, Top
  <2>6. CASE PrintItems
    <3>1. Executes("print")
      BY <2>6 DEF PrintItems
    <3>2. ~NeverEnds(Selected(Top).items)
      BY <2>5, <3>1 DEF Harmless
    <3>. QED BY <2>1, <2>6, <3>2 DEF PrintItems, Executes, AtLine
  <2>7. CASE Goto
    <3>1. Executes("goto")
      BY <2>7 DEF Goto
    <3>2. /\ exec_pos \in Nat /\ phase' = "run"
          /\ exec_pos' = IF Top.op = "if" THEN exec_pos + 1
                         ELSE IF Target(Selected(Top)) > 0 THEN Target(Selected(Top))
                         ELSE exec_pos
      BY <2>5, <2>7, <3>1 DEF Goto, JumpOr
    <3>3. Target(Selected(Top)) > exec_pos
      BY <2>5, <3>1 DEF Harmless
    <3>4. code \in Seq(Line)
      BY DEF QInv, TypeOK
    <3>5. Target(Selected(Top)) \in Nat
      BY <3>4, TargetIs
    <3>. QED BY <3>2, <3>3, <3>5
  <2>8. ~NextLoop
    BY <2>5 DEF NextLoop, Harmless
  <2>. QED BY <2>2, <2>3, <2>4, <2>6, <2>7, <2>8 DEF Step
<1>2. QInv /\ [Next]_qb
        => [Step /\ Forward => \/ phase' \in {"key", "input"}
                               \/ phase' = "run" /\ exec_pos' > exec_pos]_qb
  BY <1>1
<1>. QED BY <1>2, Invariant, PTL DEF Spec, Onwards
=============================================================================

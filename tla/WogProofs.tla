------------------------------- MODULE WogProofs ------------------------------
(***************************************************************************)
(* Proofs about the editor and the interpreter of module Wog, for texts,   *)
(* lines and variable tables of every size and every meaning of the lines. *)
(***************************************************************************)
EXTENDS Wog, TLAPS, SequenceTheorems, FiniteSetTheorems, WellFoundedInduction

USE EditorAssumption, WogAssumption

-----------------------------------------------------------------------------
(* The cutting of a text into lines.                                       *)

LEMMA Least ==
  ASSUME NEW S, S \subseteq Nat, S # {}
  PROVE  \E k \in S : \A n \in S : k <= n
<1>. DEFINE R == {ss \in Nat \X Nat : ss[1] < ss[2]}
<1>1. IsWellFoundedOn(R, Nat)
  BY NatLessThanWellFounded DEF OpToRel
<1>2. PICK k \in S : \A n \in S : <<n, k>> \notin R
  <2>. HIDE DEF R
  <2>. QED BY <1>1, WFMin
<1>3. ASSUME NEW n \in S, n < k
      PROVE  FALSE
  <2>1. <<n, k>> \in Nat \X Nat
    OBVIOUS
  <2>2. <<n, k>>[1] < <<n, k>>[2]
    BY <1>3
  <2>. QED BY <1>2, <2>1, <2>2
<1>. QED BY <1>3

\* A line is over at one place, the first where it can be.
LEMMA EndOfLineIs ==
  ASSUME NEW e, e.pos \in Nat, NEW at \in 0 .. e.pos
  PROVE  /\ EndOfLine(e, at) \in at .. e.pos
         /\ IsOver(e, at, EndOfLine(e, at))
         /\ \A j \in at .. EndOfLine(e, at) - 1 : ~IsOver(e, at, j)
<1>. DEFINE S == {k \in at .. e.pos : IsOver(e, at, k)}
<1>1. S \subseteq Nat /\ S # {}
  <2>1. e.pos \in S
    BY DEF IsOver
  <2>. QED BY <2>1
<1>2. PICK k \in S : \A n \in S : k <= n
  <2>. HIDE DEF S
  <2>. QED BY <1>1, Least
<1>3. \A j \in at .. k - 1 : ~IsOver(e, at, j)
  BY <1>2
<1>. QED BY <1>2, <1>3 DEF EndOfLine

\* The array holds a NUL behind the text.
Closed(e) == e \in Editors /\ e.buf[e.pos] = NUL

\* The next line starts behind this one, and not behind the text.
LEMMA NextLineIs ==
  ASSUME NEW e, Closed(e), NEW at \in 0 .. e.pos
  PROVE  /\ NextLine(e, at) \in at .. e.pos
         /\ at < e.pos => at < NextLine(e, at)
<1>. DEFINE k == EndOfLine(e, at)
<1>1. e.pos \in Nat /\ e.buf[e.pos] = NUL
  BY DEF Closed, Editors
<1>2. k \in at .. e.pos /\ IsOver(e, at, k)
  BY <1>1, EndOfLineIs, SMTT(30)
<1>. HIDE DEF k
<1>3. e.buf[k] = Newline => k < e.pos
  BY <1>1, <1>2
<1>4. at < e.pos => e.buf[k] = Newline \/ k > at
  BY <1>1, <1>2 DEF IsOver
<1>5. NextLine(e, at) = IF e.buf[k] = Newline THEN k + 1 ELSE k
  BY DEF NextLine, BehindLine, k
<1>. QED BY <1>1, <1>2, <1>3, <1>4, <1>5

-----------------------------------------------------------------------------
(* The text in the array is what was typed.                                *)

\* e holds the text and a NUL behind it.
Holds(e, text) ==
  /\ Closed(e)
  /\ text \in Seq(EditorChar)
  /\ Len(text) = e.pos
  /\ \A i \in 1 .. e.pos : e.buf[i - 1] = text[i]

LEMMA EndedHolds ==
  ASSUME NEW e \in Editors, NEW text \in Seq(EditorChar), Len(text) = e.pos,
         \A i \in 1 .. e.pos : e.buf[i - 1] = text[i]
  PROVE  Holds(Ended(e), text) /\ Ended(e).pos = e.pos
<1>1. /\ e.pos \in 0 .. MAX_CODE_LEN - 1
      /\ e.buf \in [0 .. MAX_CODE_LEN - 1 -> EditorChar \union {NUL}]
  BY DEF Editors
<1>. DEFINE b == [e.buf EXCEPT ![e.pos] = NUL]
<1>2. Ended(e) = [buf |-> b, pos |-> e.pos]
  BY DEF Ended, EditorAt
<1>3. /\ b \in [0 .. MAX_CODE_LEN - 1 -> EditorChar \union {NUL}] /\ b[e.pos] = NUL
      /\ \A i \in 1 .. e.pos : b[i - 1] = text[i]
  BY <1>1
<1>. HIDE DEF b
<1>. QED BY <1>1, <1>2, <1>3 DEF Holds, Closed, Editors

LEMMA TypedHolds ==
  ASSUME NEW e, NEW text, Holds(e, text), NEW c \in EditorChar
  PROVE  Holds(TypeInto(e, c),
               IF Len(text) < MAX_CODE_LEN - 1 THEN Append(text, c) ELSE text)
<1>1. /\ e.pos \in 0 .. MAX_CODE_LEN - 1 /\ e \in Editors /\ Len(text) = e.pos
      /\ e.buf \in [0 .. MAX_CODE_LEN - 1 -> EditorChar \union {NUL}]
      /\ text \in Seq(EditorChar) /\ \A i \in 1 .. e.pos : e.buf[i - 1] = text[i]
  BY DEF Holds, Closed, Editors
<1>2. CASE HasRoom(e)
  <2>. DEFINE b == [e.buf EXCEPT ![e.pos] = c]
              f == EditorAt(b, e.pos + 1)
  <2>1. /\ b \in [0 .. MAX_CODE_LEN - 1 -> EditorChar \union {NUL}] /\ b[e.pos] = c
        /\ \A i \in 1 .. e.pos : b[i - 1] = text[i]
    <3>1. /\ b \in [0 .. MAX_CODE_LEN - 1 -> EditorChar \union {NUL}] /\ b[e.pos] = c
          /\ \A j \in 0 .. MAX_CODE_LEN - 1 : j # e.pos => b[j] = e.buf[j]
      BY <1>1
    <3>2. \A i \in 1 .. e.pos : i - 1 \in 0 .. MAX_CODE_LEN - 1 /\ i - 1 # e.pos
      BY <1>1
    <3>. HIDE DEF b
    <3>. QED BY <1>1, <3>1, <3>2
  <2>2. e.pos + 1 \in 0 .. MAX_CODE_LEN - 1
    BY <1>1, <1>2 DEF HasRoom
  <2>. HIDE DEF b
  <2>3. f \in Editors /\ f.pos = e.pos + 1 /\ f.buf = b
    BY <2>1, <2>2 DEF EditorAt, Editors
  <2>4. /\ Append(text, c) \in Seq(EditorChar) /\ Len(Append(text, c)) = e.pos + 1
        /\ \A i \in 1 .. e.pos : Append(text, c)[i] = text[i]
        /\ Append(text, c)[e.pos + 1] = c
    BY <1>1, AppendProperties
  <2>5. \A i \in 1 .. f.pos : f.buf[i - 1] = Append(text, c)[i]
    <3>1. \A i \in 1 .. e.pos + 1 : i \in 1 .. e.pos \/ i = e.pos + 1
      BY <1>1
    <3>. HIDE DEF f
    <3>2. (e.pos + 1) - 1 = e.pos
      BY <1>1
    <3>. QED BY <2>1, <2>3, <2>4, <3>1, <3>2
  <2>6. TypeInto(e, c) = Ended(f)
    BY <1>2 DEF TypeInto, b
  <2>7. Len(text) < MAX_CODE_LEN - 1
    BY <1>1, <1>2 DEF HasRoom
  <2>. HIDE DEF f
  <2>. QED BY <2>3, <2>4, <2>5, <2>6, <2>7, EndedHolds
<1>3. CASE ~HasRoom(e)
  <2>1. TypeInto(e, c) = Ended(e)
    BY <1>3 DEF TypeInto
  <2>2. ~(Len(text) < MAX_CODE_LEN - 1)
    BY <1>1, <1>3 DEF HasRoom
  <2>. QED BY <1>1, <2>1, <2>2, EndedHolds
<1>. QED BY <1>2, <1>3

LEMMA ErasedHolds ==
  ASSUME NEW e, NEW text, Holds(e, text)
  PROVE  Holds(EraseFrom(e),
               IF text = <<>> THEN text ELSE SubSeq(text, 1, Len(text) - 1))
<1>1. /\ e.pos \in 0 .. MAX_CODE_LEN - 1 /\ e \in Editors /\ Len(text) = e.pos
      /\ e.buf \in [0 .. MAX_CODE_LEN - 1 -> EditorChar \union {NUL}]
      /\ text \in Seq(EditorChar) /\ \A i \in 1 .. e.pos : e.buf[i - 1] = text[i]
  BY DEF Holds, Closed, Editors
<1>2. CASE e.pos > 0
  <2>. DEFINE f == EditorAt(e.buf, e.pos - 1)
              short == SubSeq(text, 1, Len(text) - 1)
  <2>1. f \in Editors /\ f.pos = e.pos - 1 /\ f.buf = e.buf
    BY <1>1, <1>2 DEF EditorAt, Editors
  <2>2. /\ short \in Seq(EditorChar) /\ Len(short) = e.pos - 1
        /\ \A i \in 1 .. e.pos - 1 : short[i] = text[i]
    BY <1>1, <1>2
  <2>3. EraseFrom(e) = Ended(f) /\ text # <<>>
    BY <1>1, <1>2 DEF EraseFrom
  <2>. HIDE DEF f, short
  <2>4. \A i \in 1 .. f.pos : f.buf[i - 1] = short[i]
    BY <1>1, <2>1, <2>2
  <2>5. Holds(Ended(f), short)
    BY <2>1, <2>2, <2>4, EndedHolds
  <2>. QED BY <2>3, <2>5 DEF short
<1>3. CASE ~(e.pos > 0)
  <2>1. EraseFrom(e) = Ended(e)
    BY <1>3 DEF EraseFrom
  <2>2. text = <<>>
    BY <1>1, <1>3
  <2>. QED BY <1>1, <2>1, <2>2, EndedHolds
<1>. QED BY <1>2, <1>3

LEMMA OpenedHolds ==
  ASSUME NEW e, Closed(e)
  PROVE  Holds(Opened(e), <<>>)
<1>. DEFINE f == EditorAt(e.buf, 0)
<1>1. f \in Editors /\ f.pos = 0
  BY DEF Closed, EditorAt, Editors
<1>2. Opened(e) = Ended(f)
  BY DEF Opened
<1>. HIDE DEF f
<1>3. \A i \in 1 .. f.pos : f.buf[i - 1] = <<>>[i]
  BY <1>1
<1>4. <<>> \in Seq(EditorChar) /\ Len(<<>>) = f.pos
  BY <1>1
<1>. QED BY <1>1, <1>2, <1>3, <1>4, EndedHolds

LEMMA UntouchedHolds == Holds(Untouched, <<>>)
<1>. DEFINE b == [k \in 0 .. MAX_CODE_LEN - 1 |-> NUL]
<1>1. b \in [0 .. MAX_CODE_LEN - 1 -> EditorChar \union {NUL}] /\ b[0] = NUL
  OBVIOUS
<1>2. Untouched = [buf |-> b, pos |-> 0]
  BY DEF Untouched, EditorAt
<1>. HIDE DEF b
<1>3. Closed(Untouched) /\ Untouched.pos = 0
  BY <1>1, <1>2 DEF Closed, Editors
<1>. QED BY <1>3 DEF Holds

-----------------------------------------------------------------------------
(* Statements and the variable table.                                      *)

SimpleOps == {"begin", "end", "none", "behold", "shalt", "woe"}

LEMMA SimpleIs ==
  ASSUME NEW s \in Simple
  PROVE  /\ s.op \in SimpleOps
         /\ s.op = "shalt" => /\ s.var \in Name
                              /\ s.value \in [int : Int32] \union [word : Name]
BY DEF Simple, SimpleOps

LEMMA IfIs ==
  ASSUME NEW S, NEW s \in If(S)
  PROVE  s.op = "if" /\ s.stmt \in S /\ s.var \in Name /\ s.then \in BOOLEAN
BY DEF If

LEMMA NothingIs == None \in Simple /\ None \in Statement /\ None.op = "none"
BY DEF None, Simple, Statement

LEMMA BranchIs ==
  ASSUME NEW s \in Statement
  PROVE  Branch(s) \in Statement
<1>1. s.op = "if" => s.stmt \in Statement
  <2>1. CASE s \in Simple
    BY <2>1, SimpleIs DEF SimpleOps
  <2>2. CASE s \in If(Simple)
    BY <2>2, IfIs DEF Statement
  <2>3. CASE s \in If(If(Simple))
    BY <2>3, IfIs DEF Statement
  <2>. QED BY <2>1, <2>2, <2>3 DEF Statement
<1>2. Branch(s) \in {s, s.stmt, None} /\ (s.op # "if" => Branch(s) = s)
  BY DEF Branch, None
<1>. QED BY <1>1, <1>2, NothingIs

LEMMA ShaltIs ==
  ASSUME NEW s \in Statement, s.op = "shalt"
  PROVE  s.var \in Name /\ s.value \in [int : Int32] \union [word : Name]
<1>1. CASE s \in Simple
  BY <1>1, SimpleIs
<1>2. CASE s \in If(Simple) \union If(If(Simple))
  BY <1>2, IfIs
<1>. QED BY <1>1, <1>2 DEF Statement

LEMMA MeaningIs == \A line : MeaningOf(line) \in Statement
BY NothingIs DEF MeaningOf, None

TableOK ==
  /\ vars \in Seq(Variable) /\ Len(vars) <= MAX_VARS
  /\ \A i, j \in DOMAIN vars : vars[i].name = vars[j].name => i = j

\* find_var finds the one entry of a name.
LEMMA FindVar ==
  ASSUME TableOK, NEW name, Known(name)
  PROVE  /\ find_var(name) \in DOMAIN vars
         /\ vars[find_var(name)].name = name
<1>1. PICK i \in DOMAIN vars : vars[i].name = name
  BY DEF Known
<1>2. \A j \in DOMAIN vars : vars[j].name = name => i <= j
  <2>1. i \in Nat /\ \A j \in DOMAIN vars : vars[j].name = name => i = j
    BY <1>1 DEF TableOK
  <2>. QED BY <2>1
<1>. QED BY <1>1, <1>2 DEF find_var

LEMMA ValueIs ==
  ASSUME TableOK, NEW name
  PROVE  ValueOf(name) \in Int32
<1>1. 0 \in Int32
  BY DEF Int32, INT_MIN
<1>2. CASE Known(name)
  <2>1. vars[find_var(name)] \in Variable
    BY <1>2, FindVar, ElementOfSeq DEF TableOK
  <2>. QED BY <1>2, <2>1 DEF ValueOf, Variable
<1>. QED BY <1>1, <1>2 DEF ValueOf

LEMMA EvalIs ==
  ASSUME TableOK, NEW s \in Statement, s.op = "shalt"
  PROVE  eval_value(s.value) \in Int32
<1>1. CASE s.value \in [int : Int32]
  BY <1>1 DEF eval_value
<1>2. CASE s.value \in [word : Name]
  BY <1>2, ValueIs DEF eval_value
<1>. QED BY <1>1, <1>2, ShaltIs

\* A variable is set, or one is added.
LEMMA StoredIs ==
  ASSUME TableOK, NEW name \in Name, NEW n \in Int32,
         Known(name) \/ Len(vars) < MAX_VARS, vars' = Stored(name, n)
  PROVE  TableOK'
<1>1. Len(vars) \in Nat /\ DOMAIN vars = 1 .. Len(vars)
      /\ \A i \in DOMAIN vars : vars[i] \in Variable
  BY DEF TableOK
<1>2. CASE Known(name)
  <2>. DEFINE k == find_var(name)
              new == [vars[k] EXCEPT !.int = n]
  <2>1. k \in DOMAIN vars /\ vars[k] \in Variable
    BY <1>1, <1>2, FindVar
  <2>2. new \in Variable /\ new.name = vars[k].name
    BY <2>1 DEF Variable
  <2>3. vars' = [vars EXCEPT ![k] = new]
    BY <1>2 DEF Stored
  <2>. HIDE DEF k, new
  <2>4. /\ vars' \in Seq(Variable) /\ Len(vars') = Len(vars)
        /\ \A i \in DOMAIN vars : vars'[i].name = vars[i].name
    BY <1>1, <2>1, <2>2, <2>3, ExceptSeq DEF TableOK
  <2>. QED BY <1>1, <2>4 DEF TableOK
<1>3. CASE ~Known(name)
  <2>. DEFINE new == [name |-> name, int |-> n]
  <2>1. new \in Variable /\ new.name = name /\ vars' = Append(vars, new)
    BY <1>3 DEF Variable, Stored
  <2>. HIDE DEF new
  <2>2. /\ vars' \in Seq(Variable) /\ Len(vars') = Len(vars) + 1
        /\ \A i \in 1 .. Len(vars) : vars'[i] = vars[i]
        /\ vars'[Len(vars) + 1] = new
    BY <2>1, AppendProperties DEF TableOK
  <2>3. \A i \in 1 .. Len(vars) : vars[i].name # name
    BY <1>1, <1>3 DEF Known
  <2>4. \A i \in DOMAIN vars' : i \in 1 .. Len(vars) \/ i = Len(vars) + 1
    BY <1>1, <2>2
  <2>5. \A i, j \in DOMAIN vars' : vars'[i].name = vars'[j].name => i = j
    BY <1>1, <2>1, <2>2, <2>3, <2>4 DEF TableOK
  <2>. QED BY <1>1, <1>3, <2>2, <2>5 DEF TableOK
<1>. QED BY <1>2, <1>3

-----------------------------------------------------------------------------
(* The state of the editor and of a run.                                   *)

StateOK ==
  /\ phase \in {"edit", "run", "key", "closed"}
  /\ Holds(ed, typed)
  /\ pos \in 0 .. ed.pos
  /\ phase # "run" => pos = 0
  /\ in_program \in BOOLEAN
  /\ TableOK
  /\ error_flag \in BOOLEAN

LEMMA StateIsTyped == StateOK => TypeOK
BY DEF StateOK, TypeOK, TableOK, Holds, Closed

LEMMA StateInit == Init => StateOK
<1>. SUFFICES ASSUME Init PROVE StateOK
  OBVIOUS
<1>1. Holds(ed, typed) /\ ed.pos = 0
  BY UntouchedHolds DEF Init, Untouched, EditorAt
<1>2. TableOK
  BY DEF Init, TableOK
<1>3. pos \in 0 .. ed.pos
  BY <1>1 DEF Init
<1>. QED BY <1>1, <1>2, <1>3, Zenon DEF Init, StateOK

LEMMA SelectedIs == Means \in Statement /\ Selected(Means) \in Statement
BY MeaningIs, BranchIs DEF Means, Selected

\* A line of the program changes the table and the flag at most.
LEMMA StepState ==
  ASSUME StateOK, Step
  PROVE  StateOK'
<1>1. UNCHANGED editing /\ ed.pos \in Nat
  <2>1. UNCHANGED editing
    BY Zenon DEF Step, Before, Behold, ThouShalt, WoeUnto, MissingThen, Nothing,
       Finish, Advance
  <2>2. ed.pos \in Nat
    BY DEF StateOK, Holds, Closed, Editors
  <2>. QED BY <2>1, <2>2
<1>2. Holds(ed, typed)' /\ ed' = ed
  BY <1>1 DEF editing, StateOK
<1>3. ASSUME AtLine
      PROVE  phase = "run" /\ NextLine(ed, pos) \in 0 .. ed.pos
  <2>1. NextLine(ed, pos) \in pos .. ed.pos
    BY NextLineIs DEF StateOK, Holds
  <2>. QED BY <1>1, <1>3, <2>1 DEF AtLine, StateOK
<1>4. ASSUME AtLine, Advance, UNCHANGED vars, error_flag' \in BOOLEAN
      PROVE  StateOK'
  BY <1>2, <1>3, <1>4 DEF StateOK, Advance, TableOK
<1>5. CASE Before
  BY <1>2, <1>3, <1>5 DEF Before, StateOK, TableOK
<1>6. CASE Behold \/ WoeUnto \/ MissingThen \/ Nothing
  BY <1>4, <1>6 DEF Behold, WoeUnto, MissingThen, Nothing, Executes, StateOK
<1>7. CASE ThouShalt
  <2>. DEFINE s == Selected(Means)
  <2>1. AtLine /\ Advance /\ s.op = "shalt" /\ s \in Statement
    BY <1>7, SelectedIs DEF ThouShalt, Executes
  <2>2. CASE ~Known(s.var) /\ Len(vars) = MAX_VARS
    BY <1>4, <1>7, <2>1, <2>2 DEF ThouShalt
  <2>3. CASE ~(~Known(s.var) /\ Len(vars) = MAX_VARS)
    <3>1. vars' = Stored(s.var, eval_value(s.value)) /\ error_flag' = error_flag
      BY <1>7, <2>3 DEF ThouShalt
    <3>2. Known(s.var) \/ Len(vars) < MAX_VARS
      BY <2>3 DEF StateOK, TableOK
    <3>. HIDE DEF s
    <3>3. s.var \in Name /\ eval_value(s.value) \in Int32
      BY <2>1, ShaltIs, EvalIs DEF StateOK
    <3>4. TableOK'
      BY <3>1, <3>2, <3>3, StoredIs DEF StateOK
    <3>. QED BY <1>2, <1>3, <2>1, <3>1, <3>4 DEF StateOK, Advance
  <2>. QED BY <2>2, <2>3
<1>8. CASE Finish
  <2>1. pos' \in 0 .. ed'.pos /\ pos' = 0
    BY <1>1, <1>2, <1>8 DEF Finish
  <2>2. TableOK'
    BY <1>8 DEF Finish, StateOK, TableOK
  <2>3. /\ phase' = "key" /\ in_program' \in BOOLEAN
        /\ error_flag' = error_flag
    BY <1>8, Zenon DEF Finish
  <2>. QED BY <1>2, <2>1, <2>2, <2>3, Zenon DEF StateOK
<1>. QED BY <1>5, <1>6, <1>7, <1>8 DEF Step

LEMMA StateStep == StateOK /\ [Next]_wog => StateOK'
<1>. SUFFICES ASSUME StateOK, [Next]_wog
              PROVE  StateOK'
  OBVIOUS
<1>1. ASSUME phase = "edit", Holds(ed, typed)',
             UNCHANGED <<phase, pos, in_program, vars, error_flag>>
      PROVE  StateOK'
  <2>1. ed'.pos \in Nat
    BY <1>1 DEF Holds, Closed, Editors
  <2>. QED BY <1>1, <2>1 DEF StateOK, TableOK
<1>2. ASSUME NEW c \in EditorChar, Character(c)
      PROVE  StateOK'
  BY <1>1, <1>2, TypedHolds DEF Character, StateOK
<1>3. CASE Backspace
  BY <1>1, <1>3, ErasedHolds DEF Backspace, StateOK
<1>4. CASE Run
  <2>1. TableOK'
    BY <1>4 DEF Run, NoVars, TableOK
  <2>2. Holds(ed, typed)' /\ pos' \in 0 .. ed'.pos
    BY <1>4 DEF Run, editing, StateOK
  <2>3. /\ phase' = "run" /\ in_program' = in_program
        /\ error_flag' \in BOOLEAN
    BY <1>4, Zenon DEF Run
  <2>. QED BY <2>1, <2>2, <2>3, Zenon DEF StateOK
<1>5. CASE Step
  BY <1>5, StepState
<1>6. CASE AnyKey \/ Exit
  BY <1>6 DEF AnyKey, Exit, editing, StateOK, TableOK
<1>7. CASE wog_run
  <2>1. Holds(ed, typed)' /\ ed'.pos = 0
    BY <1>7, OpenedHolds DEF wog_run, StateOK, Holds, Opened, Ended, EditorAt
  <2>. QED BY <1>7, <2>1 DEF wog_run, StateOK, TableOK
<1>8. CASE UNCHANGED wog
  BY <1>8 DEF wog, StateOK, TableOK
<1>. QED BY <1>2, <1>3, <1>4, <1>5, <1>6, <1>7, <1>8 DEF Next

LEMMA StateSound == Spec => []StateOK
BY StateInit, StateStep, PTL DEF Spec

\* For arrays, lines and tables of every size and every program: the text
\* leaves room for its NUL, a run does not get behind the text, and no two
\* variables have the same name.
THEOREM WogTypes == Spec => []TypeOK
BY StateSound, StateIsTyped, PTL

-----------------------------------------------------------------------------
(* The lines of a text, and the screen.                                    *)

\* What the k-th value of Read has to be, and that g has them up to n.
ReadValue(text, g, k) ==
  IF k = 0 THEN [closed |-> <<>>, open |-> <<>>] ELSE WithCharacter(g[k - 1], text[k])

IsRead(text, g, n) == g = [k \in 0 .. n |-> ReadValue(text, g, k)]

LEMMA ReadExtends ==
  ASSUME NEW text, NEW n \in Nat \ {0}, NEW g, IsRead(text, g, n - 1)
  PROVE  \E h : IsRead(text, h, n)
<1>. DEFINE h == [k \in 0 .. n |-> IF k = n THEN ReadValue(text, g, n) ELSE g[k]]
<1>1. \A k \in 0 .. n - 1 : h[k] = g[k] /\ g[k] = ReadValue(text, g, k)
  <2>1. \A k \in 0 .. n - 1 : g[k] = ReadValue(text, g, k)
    BY Zenon DEF IsRead
  <2>2. \A k \in 0 .. n - 1 : k \in 0 .. n /\ k # n
    OBVIOUS
  <2>. QED BY <2>1, <2>2, Zenon
<1>2. h[n] = ReadValue(text, g, n) /\ h = [k \in 0 .. n |-> h[k]]
  OBVIOUS
<1>. HIDE DEF h
<1>3. \A k \in 0 .. n : ReadValue(text, h, k) = ReadValue(text, g, k)
  <2>1. \A k \in 0 .. n : k # 0 => k - 1 \in 0 .. n - 1
    OBVIOUS
  <2>. QED BY <1>1, <2>1 DEF ReadValue
<1>4. \A k \in 0 .. n : h[k] = ReadValue(text, h, k)
  <2>1. \A k \in 0 .. n : k \in 0 .. n - 1 \/ k = n
    OBVIOUS
  <2>. QED BY <1>1, <1>2, <1>3, <2>1, Zenon
<1>. QED BY <1>2, <1>4 DEF IsRead

\* The function that reads a text exists, and is what Read returns.
LEMMA ReadIs ==
  ASSUME NEW text \in Seq(EditorChar)
  PROVE  /\ Read(text)[0] = [closed |-> <<>>, open |-> <<>>]
         /\ \A k \in 1 .. Len(text) :
              Read(text)[k] = WithCharacter(Read(text)[k - 1], text[k])
<1>1. Len(text) \in Nat
  OBVIOUS
<1>2. \A n \in Nat : \E g : IsRead(text, g, n)
  <2>. DEFINE S == {n \in Nat : ~ \E g : IsRead(text, g, n)}
  <2>. SUFFICES ASSUME S # {} PROVE FALSE
    OBVIOUS
  <2>1. PICK n \in S : \A m \in S : n <= m
    <3>1. S \subseteq Nat
      OBVIOUS
    <3>. HIDE DEF S
    <3>. QED BY <3>1, Least
  <2>2. n \in Nat /\ ~ \E g : IsRead(text, g, n)
    OBVIOUS
  <2>3. n # 0
    <3>. DEFINE g == [k \in 0 .. 0 |-> ReadValue(text, <<>>, 0)]
    <3>1. \A k \in 0 .. 0 : ReadValue(text, g, k) = ReadValue(text, <<>>, 0)
      BY DEF ReadValue
    <3>2. IsRead(text, g, 0)
      BY <3>1 DEF IsRead
    <3>. QED BY <2>2, <3>2
  <2>4. n - 1 \in Nat /\ ~ n - 1 \in S
    BY <2>1, <2>2, <2>3
  <2>5. \E g : IsRead(text, g, n - 1)
    BY <2>4
  <2>. QED BY <2>2, <2>3, <2>5, ReadExtends
<1>3. IsRead(text, Read(text), Len(text))
  <2>1. \E g : IsRead(text, g, Len(text))
    BY <1>1, <1>2
  <2>. QED BY <2>1 DEF IsRead, ReadValue, Read
<1>4. \A k \in 0 .. Len(text) : Read(text)[k] = ReadValue(text, Read(text), k)
  BY <1>3 DEF IsRead
<1>. QED BY <1>1, <1>4 DEF ReadValue

Row == Seq(EditorChar)

LEMMA WithCharacterIs ==
  ASSUME NEW r, NEW c
  PROVE  LET w == WithCharacter(r, c)
         IN  /\ c = Newline => w.closed = Append(r.closed, r.open) /\ w.open = <<>>
             /\ c # Newline /\ Len(r.open) = MAX_LINE_LEN - 1
                  => w.closed = Append(r.closed, r.open) /\ w.open = <<c>>
             /\ c # Newline /\ Len(r.open) # MAX_LINE_LEN - 1
                  => w.closed = r.closed /\ w.open = Append(r.open, c)
BY DEF WithCharacter

LEMMA SubSeqOfOne ==
  ASSUME NEW text \in Row, NEW m \in 1 .. Len(text)
  PROVE  SubSeq(text, m, m) = <<text[m]>>
<1>1. Len(text) \in Nat /\ m \in m .. Len(text) /\ m - 1 < m /\ m - 1 \in Int
      /\ text[m] \in EditorChar
  BY DEF Row
<1>2. SubSeq(text, m, m) = SubSeq(text, m, m - 1) \o <<text[m]>>
  BY <1>1, SubSeqRecursiveSecond DEF Row
<1>3. SubSeq(text, m, m - 1) = <<>>
  BY <1>1, SubSeqEmpty
<1>4. <<text[m]>> \in Seq(EditorChar)
  BY <1>1
<1>. QED BY <1>2, <1>3, <1>4, ConcatEmptySeq

LEMMA ReadTypes ==
  ASSUME NEW text \in Row, NEW k \in 0 .. Len(text)
  PROVE  Read(text)[k].closed \in Seq(Row) /\ Read(text)[k].open \in Row
<1>. DEFINE P(n) == Read(text)[n].closed \in Seq(Row) /\ Read(text)[n].open \in Row
            S == {n \in 0 .. Len(text) : ~P(n)}
<1>1. Len(text) \in Nat /\ \A n \in 1 .. Len(text) : text[n] \in EditorChar
  BY DEF Row
<1>2. P(0)
  <2>1. Read(text)[0] = [closed |-> <<>>, open |-> <<>>]
    BY ReadIs DEF Row
  <2>2. Read(text)[0].closed = <<>> /\ Read(text)[0].open = <<>>
    BY <2>1
  <2>. QED BY <2>2 DEF Row
<1>3. ASSUME NEW n \in 1 .. Len(text), P(n - 1)
      PROVE  P(n)
  <2>. DEFINE r == Read(text)[n - 1]
  <2>1. Read(text)[n] = WithCharacter(r, text[n])
    BY ReadIs DEF Row
  <2>. HIDE DEF r
  <2>2. r.closed \in Seq(Row) /\ r.open \in Row /\ text[n] \in EditorChar
    BY <1>1, <1>3 DEF r
  <2>3. /\ Append(r.closed, r.open) \in Seq(Row) /\ Append(r.open, text[n]) \in Row
        /\ <<>> \in Row /\ <<text[n]>> \in Row
    BY <2>2, AppendProperties DEF Row
  <2>4. /\ WithCharacter(r, text[n]).closed \in {r.closed, Append(r.closed, r.open)}
        /\ WithCharacter(r, text[n]).open \in {<<>>, <<text[n]>>, Append(r.open, text[n])}
    BY DEF WithCharacter
  <2>. QED BY <2>1, <2>2, <2>3, <2>4
<1>. HIDE DEF P
<1>4. S = {}
  <2>. SUFFICES ASSUME S # {} PROVE FALSE
    OBVIOUS
  <2>1. PICK n \in S : \A m \in S : n <= m
    <3>1. S \subseteq Nat
      BY <1>1
    <3>. HIDE DEF S
    <3>. QED BY <3>1, Least
  <2>2. n \in 0 .. Len(text) /\ ~P(n)
    OBVIOUS
  <2>3. n \in 1 .. Len(text) /\ n - 1 \in 0 .. Len(text) /\ ~ n - 1 \in S
    BY <1>1, <1>2, <2>1, <2>2
  <2>4. P(n - 1)
    BY <2>3
  <2>. QED BY <1>3, <2>2, <2>3, <2>4
<1>5. P(k)
  BY <1>4
<1>. QED BY <1>5 DEF P

\* The first p characters of the text are the lines ls, and the next
\* character, if any, does not belong to them.
Cut(text, p, ls) ==
  /\ p \in 0 .. Len(text)
  /\ AllLines(Read(text)[p]) = ls
  /\ p < Len(text) => \/ Read(text)[p].open = <<>>
                      \/ /\ Len(Read(text)[p].open) = MAX_LINE_LEN - 1
                         /\ text[p + 1] # Newline

LEMMA CutStart ==
  ASSUME NEW text \in Row
  PROVE  Cut(text, 0, <<>>)
<1>1. Len(text) \in Nat
  BY DEF Row
<1>. QED BY <1>1, ReadIs DEF Cut, AllLines, Row

\* The line that starts behind p is not over before k.
InOneLine(text, p, k) ==
  \A j \in p .. k - 1 : text[j + 1] # Newline /\ j - p < MAX_LINE_LEN - 1

\* Behind the lines ls, a line has been read from p up to k.
Collected(text, p, ls, k) ==
  Read(text)[k].closed = ls /\ Read(text)[k].open = SubSeq(text, p + 1, k)

\* Within a line, the characters are collected.
LEMMA InLine ==
  ASSUME NEW text \in Row, NEW p, NEW ls, Cut(text, p, ls), NEW k \in p .. Len(text),
         InOneLine(text, p, k), p < k
  PROVE  Collected(text, p, ls, k)
<1>. DEFINE P(n) == /\ Read(text)[n].closed = ls
                    /\ Read(text)[n].open = SubSeq(text, p + 1, n)
            S == {n \in p + 1 .. k : ~P(n)}
<1>1. Len(text) \in Nat /\ p \in 0 .. Len(text) /\ k \in Nat
  BY DEF Row, Cut
<1>2. ASSUME NEW n \in p + 1 .. k
      PROVE  /\ n \in 1 .. Len(text) /\ text[n] # Newline /\ text[n] \in EditorChar
             /\ n - 1 - p < MAX_LINE_LEN - 1
             /\ Read(text)[n] = WithCharacter(Read(text)[n - 1], text[n])
  <2>1. n - 1 \in p .. k - 1 /\ (n - 1) + 1 = n /\ n \in 1 .. Len(text)
    BY <1>1
  <2>2. text[(n - 1) + 1] # Newline /\ n - 1 - p < MAX_LINE_LEN - 1
    BY <2>1 DEF InOneLine
  <2>3. text[n] \in EditorChar
    BY <2>1 DEF Row
  <2>. QED BY <2>1, <2>2, <2>3, ReadIs DEF Row
<1>3. P(p + 1)
  <2>. DEFINE r == Read(text)[p]
  <2>1. p + 1 \in p + 1 .. k /\ p < Len(text) /\ (p + 1) - 1 = p
    BY <1>1
  <2>2. Read(text)[p + 1] = WithCharacter(r, text[p + 1]) /\ text[p + 1] # Newline
    BY <1>2, <2>1
  <2>3. SubSeq(text, p + 1, p + 1) = <<text[p + 1]>>
    <3>1. p + 1 \in 1 .. Len(text)
      BY <1>1, <2>1
    <3>. QED BY <3>1, SubSeqOfOne
  <2>4. r.open \in Row /\ r.closed \in Seq(Row) /\ AllLines(r) = ls
    BY <1>1, ReadTypes DEF Cut
  <2>5. r.open = <<>> \/ Len(r.open) = MAX_LINE_LEN - 1
    BY <2>1 DEF Cut
  <2>. HIDE DEF r
  <2>6. CASE r.open = <<>>
    <3>1. Len(r.open) # MAX_LINE_LEN - 1 /\ Append(r.open, text[p + 1]) = <<text[p + 1]>>
      BY <2>6
    <3>2. /\ WithCharacter(r, text[p + 1]).closed = r.closed
          /\ WithCharacter(r, text[p + 1]).open = Append(r.open, text[p + 1])
      BY <2>2, <3>1, WithCharacterIs
    <3>3. r.closed = ls
      BY <2>4, <2>6 DEF AllLines
    <3>. QED BY <2>2, <2>3, <3>1, <3>2, <3>3
  <2>7. CASE r.open # <<>>
    <3>1. /\ WithCharacter(r, text[p + 1]).closed = Append(r.closed, r.open)
          /\ WithCharacter(r, text[p + 1]).open = <<text[p + 1]>>
      BY <2>2, <2>5, <2>7, WithCharacterIs
    <3>2. Append(r.closed, r.open) = ls
      BY <2>4, <2>7 DEF AllLines
    <3>. QED BY <2>2, <2>3, <3>1, <3>2
  <2>. QED BY <2>6, <2>7
<1>4. ASSUME NEW n \in p + 2 .. k, P(n - 1)
      PROVE  P(n)
  <2>. DEFINE r == Read(text)[n - 1]
  <2>1. n \in p + 1 .. k /\ p + 1 \in 1 .. Len(text) /\ n \in p + 1 .. Len(text)
        /\ n - 1 \in p + 1 .. Len(text)
    BY <1>1
  <2>2. Read(text)[n] = WithCharacter(r, text[n]) /\ text[n] # Newline
        /\ n - 1 - p < MAX_LINE_LEN - 1 /\ text[n] \in EditorChar
    BY <1>2, <2>1
  <2>3. r.closed = ls /\ r.open = SubSeq(text, p + 1, n - 1)
    BY <1>4
  <2>. HIDE DEF r
  <2>4. r.open \in Row /\ Len(r.open) = n - 1 - p
    BY <1>1, <2>1, <2>3 DEF Row
  <2>5. SubSeq(text, p + 1, n) = Append(r.open, text[n])
    <3>1. SubSeq(text, p + 1, n) = SubSeq(text, p + 1, n - 1) \o <<text[n]>>
      BY <2>1, SubSeqRecursiveSecond DEF Row
    <3>2. Append(r.open, text[n]) = r.open \o <<text[n]>>
      BY <2>2, <2>4, AppendIsConcat DEF Row
    <3>. QED BY <2>3, <3>1, <3>2
  <2>6. Len(r.open) # MAX_LINE_LEN - 1
    BY <2>2, <2>4
  <2>7. /\ WithCharacter(r, text[n]).closed = r.closed
        /\ WithCharacter(r, text[n]).open = Append(r.open, text[n])
    BY <2>2, <2>6, WithCharacterIs
  <2>. QED BY <2>2, <2>3, <2>5, <2>7
<1>. HIDE DEF P
<1>5. S = {}
  <2>. SUFFICES ASSUME S # {} PROVE FALSE
    OBVIOUS
  <2>1. PICK n \in S : \A m \in S : n <= m
    <3>1. S \subseteq Nat
      BY <1>1
    <3>. HIDE DEF S
    <3>. QED BY <3>1, Least
  <2>2. n \in p + 1 .. k /\ ~P(n)
    OBVIOUS
  <2>3. n # p + 1
    BY <1>3, <2>2
  <2>4. n \in p + 2 .. k /\ n - 1 \in p + 1 .. k /\ ~ n - 1 \in S
    BY <1>1, <2>1, <2>2, <2>3
  <2>5. P(n - 1)
    BY <2>4
  <2>. QED BY <1>4, <2>2, <2>4, <2>5
<1>6. P(k)
  <2>1. k \in p + 1 .. k
    BY <1>1
  <2>. QED BY <1>5, <2>1
<1>. QED BY <1>6 DEF P, Collected

LEMMA LineTextIs ==
  ASSUME NEW e, NEW text, Holds(e, text), NEW p \in 0 .. e.pos
  PROVE  LineText(e, p) = SubSeq(text, p + 1, EndOfLine(e, p))
<1>. DEFINE k == EndOfLine(e, p)
            a == LineText(e, p)
            b == SubSeq(text, p + 1, k)
<1>1. /\ e.pos \in Nat /\ text \in Row /\ Len(text) = e.pos
      /\ \A i \in 1 .. e.pos : e.buf[i - 1] = text[i] /\ text[i] \in EditorChar
  <2>1. e.pos \in Nat /\ text \in Seq(EditorChar) /\ Len(text) = e.pos
    BY DEF Holds, Closed, Editors
  <2>2. \A i \in 1 .. e.pos : text[i] \in EditorChar
    BY <2>1
  <2>. QED BY <2>1, <2>2, Zenon DEF Holds, Row
<1>2. k \in p .. e.pos /\ p \in Nat /\ k \in Nat /\ k - p \in Nat
  BY <1>1, EndOfLineIs, SMTT(30)
<1>3. a = [i \in 1 .. k - p |-> e.buf[p + i - 1]]
  BY DEF LineText
<1>. HIDE DEF k, a
<1>4. \A i \in 1 .. k - p : p + i \in 1 .. e.pos /\ p + i - 1 = (p + i) - 1
  BY <1>1, <1>2
<1>5. \A i \in 1 .. k - p : e.buf[p + i - 1] = text[p + i] /\ text[p + i] \in EditorChar
  BY <1>1, <1>4
<1>6. a \in Seq(EditorChar) /\ Len(a) = k - p /\ \A i \in 1 .. k - p : a[i] = text[p + i]
  <2>1. a = [i \in 1 .. k - p |-> text[p + i]]
    BY <1>3, <1>5
  <2>2. a \in [1 .. k - p -> EditorChar]
    BY <1>5, <2>1
  <2>3. a \in Seq(EditorChar) /\ Len(a) = k - p
    BY <1>2, <2>2
  <2>. QED BY <2>1, <2>3
<1>7. b \in Seq(EditorChar) /\ Len(b) = k - p /\ \A i \in 1 .. k - p : b[i] = text[p + i]
  <2>1. \A i \in p + 1 .. k : text[i] \in EditorChar
    BY <1>1, <1>2
  <2>2. /\ b \in Seq(EditorChar)
        /\ Len(b) = IF p + 1 <= k THEN k - (p + 1) + 1 ELSE 0
        /\ \A i \in 1 .. k - (p + 1) + 1 : b[i] = text[p + 1 + i - 1]
    BY <1>2, <2>1, SubSeqProperties
  <2>3. k - (p + 1) + 1 = k - p /\ \A i \in 1 .. k - p : p + 1 + i - 1 = p + i
    BY <1>2
  <2>. QED BY <1>2, <2>2, <2>3
<1>. HIDE DEF b
<1>8. a = b
  BY <1>6, <1>7, SeqEqual
<1>. QED BY <1>8 DEF a, b, k

\* The loop of editor_display and run_program cuts off the next line.
LEMMA CutStep ==
  ASSUME NEW e, NEW text, Holds(e, text), NEW p, NEW ls, Cut(text, p, ls),
         p < Len(text)
  PROVE  Cut(text, NextLine(e, p), Append(ls, LineText(e, p)))
<1>. DEFINE k == EndOfLine(e, p)
            line == SubSeq(text, p + 1, k)
            R == Read(text)
<1>1. /\ e.pos \in Nat /\ text \in Row /\ Len(text) = e.pos /\ p \in 0 .. e.pos
      /\ p \in Nat /\ \A i \in 1 .. e.pos : e.buf[i - 1] = text[i]
      /\ e.buf[e.pos] = NUL
  <2>1. text \in Row /\ Len(text) = e.pos /\ e.buf[e.pos] = NUL
    BY Zenon DEF Holds, Closed, Row
  <2>2. \A i \in 1 .. e.pos : e.buf[i - 1] = text[i]
    BY Zenon DEF Holds
  <2>3. e.pos \in Nat
    BY <2>1 DEF Row
  <2>4. p \in 0 .. Len(text)
    BY Zenon DEF Cut
  <2>. QED BY <2>1, <2>2, <2>3, <2>4
<1>2. /\ k \in p .. e.pos /\ k \in Nat /\ IsOver(e, p, k)
      /\ \A j \in p .. k - 1 : ~IsOver(e, p, j)
  BY <1>1, EndOfLineIs, SMTT(30)
<1>3. LineText(e, p) = line
  BY <1>1, LineTextIs
<1>4. NextLine(e, p) = IF e.buf[k] = Newline THEN k + 1 ELSE k
  BY DEF NextLine, BehindLine
<1>. HIDE DEF k
<1>5. ASSUME NEW j \in 0 .. e.pos - 1
      PROVE  e.buf[j] = text[j + 1]
  <2>1. j + 1 \in 1 .. e.pos /\ (j + 1) - 1 = j
    BY <1>1
  <2>. QED BY <1>1, <2>1
<1>6. ASSUME NEW j \in p .. k - 1
      PROVE  text[j + 1] # Newline /\ j - p < MAX_LINE_LEN - 1
  <2>. DEFINE Q(n) == n - p < MAX_LINE_LEN - 1
              S == {n \in p .. k - 1 : ~Q(n)}
  <2>1. \A n \in p .. k - 1 : n - p # MAX_LINE_LEN - 1 /\ e.buf[n] # Newline
    BY <1>2 DEF IsOver
  <2>2. Q(j)
    <3>. SUFFICES ASSUME ~Q(j) PROVE FALSE
      OBVIOUS
    <3>1. p + (MAX_LINE_LEN - 1) \in p .. k - 1
      BY <1>1, <1>2
    <3>. QED BY <1>1, <2>1, <3>1
  <2>3. j \in 0 .. e.pos - 1
    BY <1>1, <1>2
  <2>. QED BY <1>5, <2>1, <2>2, <2>3
<1>7. ASSUME p < k
      PROVE  R[k].closed = ls /\ R[k].open = line /\ Len(line) = k - p /\ line # <<>>
  <2>1. k \in p + 1 .. k /\ k \in p .. Len(text) /\ k - p > 0
    BY <1>1, <1>2, <1>7
  <2>2. R[k].closed = ls /\ R[k].open = line
    <3>1. InOneLine(text, p, k)
      BY <1>6 DEF InOneLine
    <3>2. Collected(text, p, ls, k)
      BY <1>1, <2>1, <3>1, InLine
    <3>. QED BY <3>2 DEF Collected
  <2>3. Len(line) = k - p
    <3>1. \A i \in p + 1 .. k : text[i] \in EditorChar
      BY <1>1, <1>2 DEF Row
    <3>2. Len(line) = IF p + 1 <= k THEN k - (p + 1) + 1 ELSE 0
      BY <1>1, <1>2, <3>1, SubSeqProperties
    <3>. QED BY <1>1, <1>2, <1>7, <3>2
  <2>4. line # <<>>
    <3>. HIDE DEF line
    <3>. QED BY <2>1, <2>3
  <2>. QED BY <2>2, <2>3, <2>4
<1>8. CASE e.buf[k] = Newline
  <2>1. k < e.pos /\ k \in 0 .. e.pos - 1 /\ k + 1 \in 1 .. Len(text) /\ (k + 1) - 1 = k
    BY <1>1, <1>2, <1>8
  <2>2. text[k + 1] = Newline
    BY <1>5, <1>8, <2>1
  <2>3. R[k + 1] = WithCharacter(R[k], text[k + 1])
    BY <1>1, <2>1, ReadIs DEF Row
  <2>4. R[k + 1].closed = Append(R[k].closed, R[k].open) /\ R[k + 1].open = <<>>
    BY <2>2, <2>3, WithCharacterIs
  <2>5. R[k].closed = ls /\ R[k].open = line
    <3>1. CASE p = k
      <4>1. R[k].open = <<>>
        BY <1>1, <2>1, <2>2, <3>1 DEF Cut
      <4>2. R[k].closed = ls
        BY <3>1, <4>1 DEF Cut, AllLines
      <4>3. line = <<>>
        BY <1>1, <3>1, SubSeqEmpty
      <4>. QED BY <4>1, <4>2, <4>3
    <3>2. CASE p # k
      BY <1>1, <1>2, <1>7, <3>2
    <3>. QED BY <3>1, <3>2
  <2>6. AllLines(R[k + 1]) = Append(ls, line)
    BY <2>4, <2>5 DEF AllLines
  <2>7. k + 1 \in 0 .. Len(text)
    BY <2>1
  <2>. QED BY <1>3, <1>4, <1>8, <2>4, <2>6, <2>7 DEF Cut
<1>9. CASE e.buf[k] # Newline
  <2>1. p < k /\ (k < e.pos => k - p = MAX_LINE_LEN - 1)
    BY <1>1, <1>2, <1>9 DEF IsOver
  <2>2. R[k].closed = ls /\ R[k].open = line /\ Len(line) = k - p /\ line # <<>>
    BY <1>7, <2>1
  <2>3. AllLines(R[k]) = Append(ls, line)
    BY <2>2 DEF AllLines
  <2>4. ASSUME k < Len(text)
        PROVE  Len(R[k].open) = MAX_LINE_LEN - 1 /\ text[k + 1] # Newline
    <3>1. k \in 0 .. e.pos - 1
      BY <1>1, <1>2, <2>4
    <3>. QED BY <1>1, <1>5, <1>9, <2>1, <2>2, <2>4, <3>1
  <2>5. k \in 0 .. Len(text)
    BY <1>1, <1>2
  <2>. QED BY <1>3, <1>4, <1>9, <2>3, <2>4, <2>5 DEF Cut
<1>. QED BY <1>8, <1>9

\* The lines ls are the first of all.
Prefix(ls, all) ==
  Len(ls) <= Len(all) /\ \A i \in 1 .. Len(ls) : all[i] = ls[i]

LEMMA PrefixAppend ==
  ASSUME NEW S, NEW a \in Seq(S), NEW b \in Seq(S), NEW x \in S, Prefix(a, b)
  PROVE  Prefix(a, Append(b, x))
<1>1. /\ Len(a) \in Nat /\ Len(b) \in Nat /\ Len(Append(b, x)) = Len(b) + 1
      /\ \A i \in 1 .. Len(b) : Append(b, x)[i] = b[i]
  BY AppendProperties
<1>. QED BY <1>1 DEF Prefix

\* Lines that are closed stay.
LEMMA ClosedStays ==
  ASSUME NEW text \in Row, NEW m \in 0 .. Len(text)
  PROVE  Prefix(Read(text)[m].closed, LinesOf(text))
<1>. DEFINE R == Read(text)
            P(n) == Prefix(R[m].closed, R[n].closed)
            S == {n \in m .. Len(text) : ~P(n)}
<1>1. Len(text) \in Nat /\ m \in Nat
  BY DEF Row
<1>2. \A n \in 0 .. Len(text) : R[n].closed \in Seq(Row) /\ R[n].open \in Row
  BY ReadTypes
<1>3. P(m)
  BY DEF Prefix
<1>4. ASSUME NEW n \in m + 1 .. Len(text), P(n - 1)
      PROVE  P(n)
  <2>1. n \in 1 .. Len(text) /\ n - 1 \in 0 .. Len(text)
    BY <1>1
  <2>2. R[n] = WithCharacter(R[n - 1], text[n])
    BY <2>1, ReadIs DEF Row
  <2>3. R[n].closed \in {R[n - 1].closed, Append(R[n - 1].closed, R[n - 1].open)}
    <3>1. WithCharacter(R[n - 1], text[n]).closed
            \in {R[n - 1].closed, Append(R[n - 1].closed, R[n - 1].open)}
      BY WithCharacterIs
    <3>. QED BY <2>2, <3>1
  <2>4. Prefix(R[m].closed, Append(R[n - 1].closed, R[n - 1].open))
    BY <1>2, <1>4, <2>1, PrefixAppend
  <2>. QED BY <1>4, <2>3, <2>4
<1>. HIDE DEF P
<1>5. S = {}
  <2>. SUFFICES ASSUME S # {} PROVE FALSE
    OBVIOUS
  <2>1. PICK n \in S : \A i \in S : n <= i
    <3>1. S \subseteq Nat
      BY <1>1
    <3>. HIDE DEF S
    <3>. QED BY <3>1, Least
  <2>2. n \in m .. Len(text) /\ ~P(n)
    OBVIOUS
  <2>3. n # m
    BY <1>3, <2>2
  <2>4. n \in m + 1 .. Len(text) /\ n - 1 \in m .. Len(text) /\ ~ n - 1 \in S
    BY <1>1, <2>1, <2>2, <2>3
  <2>5. P(n - 1)
    BY <2>4
  <2>. QED BY <1>4, <2>2, <2>4, <2>5
<1>6. P(Len(text))
  BY <1>1, <1>5
<1>. DEFINE r == R[Len(text)]
<1>7. LinesOf(text) \in {r.closed, Append(r.closed, r.open)}
  BY DEF LinesOf, AllLines
<1>8. r.closed \in Seq(Row) /\ r.open \in Row /\ Prefix(R[m].closed, r.closed)
  BY <1>1, <1>2, <1>6 DEF P
<1>9. R[m].closed \in Seq(Row)
  BY <1>2
<1>. HIDE DEF r, R
<1>10. Prefix(R[m].closed, Append(r.closed, r.open))
  BY <1>8, <1>9, PrefixAppend
<1>. QED BY <1>7, <1>8, <1>10 DEF R

\* What is cut off are the first lines of the text, and in the end all.
LEMMA CutIs ==
  ASSUME NEW text \in Row, NEW p, NEW ls, Cut(text, p, ls)
  PROVE  /\ ls \in Seq(Row)
         /\ Prefix(ls, LinesOf(text))
         /\ p = Len(text) => ls = LinesOf(text)
<1>. DEFINE r == Read(text)[p]
<1>1. /\ r.closed \in Seq(Row) /\ r.open \in Row /\ AllLines(r) = ls
      /\ p \in 0 .. Len(text) /\ Len(text) \in Nat
  BY ReadTypes DEF Cut, Row
<1>2. ls \in Seq(Row)
  BY <1>1, AppendProperties DEF AllLines
<1>3. p = Len(text) => ls = LinesOf(text)
  BY <1>1 DEF LinesOf
<1>4. CASE p = Len(text)
  BY <1>2, <1>3, <1>4 DEF Prefix
<1>5. CASE p # Len(text) /\ r.open = <<>>
  BY <1>1, <1>2, <1>3, <1>5, ClosedStays DEF AllLines
<1>6. CASE p # Len(text) /\ r.open # <<>>
  <2>1. Len(r.open) = MAX_LINE_LEN - 1 /\ text[p + 1] # Newline
    BY <1>1, <1>6 DEF Cut
  <2>2. p + 1 \in 1 .. Len(text) /\ (p + 1) - 1 = p
    BY <1>1, <1>6
  <2>3. Read(text)[p + 1] = WithCharacter(r, text[p + 1])
    BY <2>2, ReadIs DEF Row
  <2>. HIDE DEF r
  <2>4. WithCharacter(r, text[p + 1]).closed = Append(r.closed, r.open)
    BY <2>1, WithCharacterIs
  <2>5. Append(r.closed, r.open) = ls
    BY <1>1, <1>6 DEF AllLines
  <2>6. Prefix(Read(text)[p + 1].closed, LinesOf(text))
    BY <2>2, ClosedStays
  <2>. QED BY <1>2, <1>3, <2>3, <2>4, <2>5, <2>6
<1>. QED BY <1>4, <1>5, <1>6

-----------------------------------------------------------------------------
(* The screen.                                                             *)

\* What the n-th value of Drawn has to be, and that g has them up to n.
DrawnValue(e, g, n) ==
  IF n = 0 THEN [pos |-> 0, lines |-> <<>>] ELSE Draw(e, g[n - 1])

IsDrawn(e, g, n) == g = [k \in 0 .. n |-> DrawnValue(e, g, k)]

LEMMA DrawnExtends ==
  ASSUME NEW e, NEW n \in Nat \ {0}, NEW g, IsDrawn(e, g, n - 1)
  PROVE  \E h : IsDrawn(e, h, n)
<1>. DEFINE h == [k \in 0 .. n |-> IF k = n THEN DrawnValue(e, g, n) ELSE g[k]]
<1>1. \A k \in 0 .. n - 1 : h[k] = g[k] /\ g[k] = DrawnValue(e, g, k)
  <2>1. \A k \in 0 .. n - 1 : g[k] = DrawnValue(e, g, k)
    BY Zenon DEF IsDrawn
  <2>2. \A k \in 0 .. n - 1 : k \in 0 .. n /\ k # n
    OBVIOUS
  <2>. QED BY <2>1, <2>2, Zenon
<1>2. h[n] = DrawnValue(e, g, n) /\ h = [k \in 0 .. n |-> h[k]]
  OBVIOUS
<1>. HIDE DEF h
<1>3. \A k \in 0 .. n : DrawnValue(e, h, k) = DrawnValue(e, g, k)
  <2>1. \A k \in 0 .. n : k # 0 => k - 1 \in 0 .. n - 1
    OBVIOUS
  <2>. QED BY <1>1, <2>1 DEF DrawnValue
<1>4. \A k \in 0 .. n : h[k] = DrawnValue(e, h, k)
  <2>1. \A k \in 0 .. n : k \in 0 .. n - 1 \/ k = n
    OBVIOUS
  <2>. QED BY <1>1, <1>2, <1>3, <2>1, Zenon
<1>. QED BY <1>2, <1>4 DEF IsDrawn

LEMMA DrawnIs ==
  ASSUME NEW e
  PROVE  /\ Drawn(e)[0] = [pos |-> 0, lines |-> <<>>]
         /\ \A n \in 1 .. SHOWN : Drawn(e)[n] = Draw(e, Drawn(e)[n - 1])
<1>1. \A n \in Nat : \E g : IsDrawn(e, g, n)
  <2>. DEFINE S == {n \in Nat : ~ \E g : IsDrawn(e, g, n)}
  <2>. SUFFICES ASSUME S # {} PROVE FALSE
    OBVIOUS
  <2>1. PICK n \in S : \A m \in S : n <= m
    <3>1. S \subseteq Nat
      OBVIOUS
    <3>. HIDE DEF S
    <3>. QED BY <3>1, Least
  <2>2. n \in Nat /\ ~ \E g : IsDrawn(e, g, n)
    OBVIOUS
  <2>3. n # 0
    <3>. DEFINE g == [k \in 0 .. 0 |-> DrawnValue(e, <<>>, 0)]
    <3>1. \A k \in 0 .. 0 : DrawnValue(e, g, k) = DrawnValue(e, <<>>, 0)
      BY DEF DrawnValue
    <3>2. IsDrawn(e, g, 0)
      BY <3>1 DEF IsDrawn
    <3>. QED BY <2>2, <3>2
  <2>4. n - 1 \in Nat /\ ~ n - 1 \in S
    BY <2>1, <2>2, <2>3
  <2>5. \E g : IsDrawn(e, g, n - 1)
    BY <2>4
  <2>. QED BY <2>2, <2>3, <2>5, DrawnExtends
<1>2. IsDrawn(e, Drawn(e), SHOWN)
  <2>1. \E g : IsDrawn(e, g, SHOWN)
    BY <1>1
  <2>. QED BY <2>1 DEF IsDrawn, DrawnValue, Drawn
<1>3. \A n \in 0 .. SHOWN : Drawn(e)[n] = DrawnValue(e, Drawn(e), n)
  BY <1>2 DEF IsDrawn
<1>4. 0 \in 0 .. SHOWN /\ \A n \in 1 .. SHOWN : n \in 0 .. SHOWN /\ n # 0
  OBVIOUS
<1>5. Drawn(e)[0] = [pos |-> 0, lines |-> <<>>]
  BY <1>3, <1>4 DEF DrawnValue
<1>6. ASSUME NEW n \in 1 .. SHOWN
      PROVE  Drawn(e)[n] = Draw(e, Drawn(e)[n - 1])
  BY <1>3, <1>4 DEF DrawnValue
<1>. QED BY <1>5, <1>6

\* After n lines there are n lines on the screen, or all that the text has.
DrawnRight(text, d, n) ==
  /\ Cut(text, d.pos, d.lines)
  /\ Len(d.lines) <= n
  /\ d.pos < Len(text) => Len(d.lines) = n

LEMMA DrawRight ==
  ASSUME NEW e, NEW text, Holds(e, text), NEW n \in Nat, NEW d, DrawnRight(text, d, n)
  PROVE  DrawnRight(text, Draw(e, d), n + 1)
<1>1. /\ Len(text) = e.pos /\ Len(text) \in Nat /\ text \in Row
      /\ d.pos \in 0 .. Len(text) /\ d.lines \in Seq(Row) /\ Len(d.lines) \in Nat
  <2>1. Len(text) = e.pos /\ Len(text) \in Nat /\ text \in Row
    BY DEF Holds, Row
  <2>2. d.pos \in 0 .. Len(text)
    BY DEF DrawnRight, Cut
  <2>3. d.lines \in Seq(Row)
    BY <2>1, CutIs DEF DrawnRight
  <2>. QED BY <2>1, <2>2, <2>3
<1>2. CASE d.pos >= e.pos
  <2>1. Draw(e, d) = d
    BY <1>2 DEF Draw
  <2>. QED BY <1>1, <1>2, <2>1 DEF DrawnRight
<1>3. CASE ~(d.pos >= e.pos)
  <2>. DEFINE f == Draw(e, d)
  <2>1. /\ f.pos = NextLine(e, d.pos)
        /\ f.lines = Append(d.lines, LineText(e, d.pos))
    BY <1>3 DEF Draw
  <2>2. d.pos < Len(text) /\ Len(d.lines) = n
    BY <1>1, <1>3 DEF DrawnRight
  <2>. HIDE DEF f
  <2>3. Cut(text, f.pos, f.lines)
    <3>1. Cut(text, NextLine(e, d.pos), Append(d.lines, LineText(e, d.pos)))
      BY <2>2, CutStep DEF DrawnRight
    <3>. QED BY <2>1, <3>1
  <2>4. Len(f.lines) = n + 1
    <3>1. \A x : Len(Append(d.lines, x)) = Len(d.lines) + 1
      BY <1>1
    <3>. QED BY <2>1, <2>2, <3>1
  <2>5. DrawnRight(text, f, n + 1)
    BY <2>3, <2>4 DEF DrawnRight
  <2>. QED BY <2>5 DEF f
<1>. QED BY <1>2, <1>3

LEMMA ScreenRight ==
  ASSUME NEW e, NEW text, Holds(e, text)
  PROVE  DrawnRight(text, Drawn(e)[SHOWN], SHOWN)
<1>. DEFINE P(n) == DrawnRight(text, Drawn(e)[n], n)
            S == {n \in 0 .. SHOWN : ~P(n)}
<1>1. P(0)
  <2>1. Drawn(e)[0].pos = 0 /\ Drawn(e)[0].lines = <<>>
    <3>1. Drawn(e)[0] = [pos |-> 0, lines |-> <<>>]
      BY DrawnIs
    <3>. QED BY <3>1
  <2>2. Cut(text, 0, <<>>)
    BY CutStart DEF Holds, Row
  <2>. QED BY <2>1, <2>2 DEF DrawnRight
<1>2. ASSUME NEW n \in 1 .. SHOWN, P(n - 1)
      PROVE  P(n)
  <2>1. n - 1 \in Nat /\ (n - 1) + 1 = n
    OBVIOUS
  <2>2. Drawn(e)[n] = Draw(e, Drawn(e)[n - 1])
    BY DrawnIs
  <2>3. DrawnRight(text, Draw(e, Drawn(e)[n - 1]), (n - 1) + 1)
    BY <1>2, <2>1, DrawRight
  <2>. QED BY <2>1, <2>2, <2>3
<1>. HIDE DEF P
<1>3. S = {}
  <2>. SUFFICES ASSUME S # {} PROVE FALSE
    OBVIOUS
  <2>1. PICK n \in S : \A i \in S : n <= i
    <3>1. S \subseteq Nat
      OBVIOUS
    <3>. HIDE DEF S
    <3>. QED BY <3>1, Least
  <2>2. n \in 0 .. SHOWN /\ ~P(n)
    OBVIOUS
  <2>3. n # 0
    BY <1>1, <2>2
  <2>4. n \in 1 .. SHOWN /\ n - 1 \in 0 .. SHOWN /\ ~ n - 1 \in S
    BY <2>1, <2>2, <2>3
  <2>5. P(n - 1)
    BY <2>4
  <2>. QED BY <1>2, <2>2, <2>4, <2>5
<1>4. P(SHOWN)
  BY <1>3
<1>. QED BY <1>4 DEF P

\* All lines of the text are lines of characters.
LEMMA AllLinesAre ==
  ASSUME NEW text \in Row
  PROVE  LinesOf(text) \in Seq(Row)
<1>. DEFINE r == Read(text)[Len(text)]
<1>1. Len(text) \in 0 .. Len(text)
  BY DEF Row
<1>2. r.closed \in Seq(Row) /\ r.open \in Row
  BY <1>1, ReadTypes
<1>3. LinesOf(text) \in {r.closed, Append(r.closed, r.open)}
  BY DEF LinesOf, AllLines
<1>. HIDE DEF r
<1>4. Append(r.closed, r.open) \in Seq(Row)
  <2>. DEFINE closed == r.closed
              open == r.open
  <2>1. closed \in Seq(Row) /\ open \in Row
    BY <1>2
  <2>. HIDE DEF closed, open
  <2>2. Append(closed, open) \in Seq(Row)
    BY <2>1
  <2>. QED BY <2>2 DEF closed, open
<1>. QED BY <1>2, <1>3, <1>4

LEMMA DisplayedIs ==
  ASSUME NEW e, NEW text, Holds(e, text)
  PROVE  LET lines == LinesOf(text)
         IN  Displayed(e) = SubSeq(lines, 1, IF Len(lines) < SHOWN THEN Len(lines) ELSE SHOWN)
<1>. DEFINE d == Drawn(e)[SHOWN]
            all == LinesOf(text)
            m == IF Len(all) < SHOWN THEN Len(all) ELSE SHOWN
            a == d.lines
            b == SubSeq(all, 1, m)
<1>1. text \in Row /\ Len(text) \in Nat
  BY DEF Holds, Row
<1>2. DrawnRight(text, d, SHOWN)
  BY ScreenRight
<1>3. Displayed(e) = a
  BY DEF Displayed
<1>. HIDE DEF d
<1>4. /\ a \in Seq(Row) /\ Prefix(a, all)
      /\ d.pos = Len(text) => a = all
  BY <1>1, <1>2, CutIs DEF DrawnRight
<1>5. /\ d.pos \in 0 .. Len(text) /\ Len(a) <= SHOWN
      /\ d.pos < Len(text) => Len(a) = SHOWN
  BY <1>2 DEF DrawnRight, Cut
<1>6. all \in Seq(Row)
  BY <1>1, AllLinesAre
<1>. HIDE DEF all, a
<1>7. Len(all) \in Nat /\ Len(a) \in Nat /\ m \in Nat /\ m <= Len(all)
  BY <1>4, <1>6
<1>8. Len(a) = m
  <2>1. CASE d.pos < Len(text)
    BY <1>4, <1>5, <1>7, <2>1 DEF Prefix
  <2>2. CASE ~(d.pos < Len(text))
    BY <1>1, <1>4, <1>5, <1>7, <2>2
  <2>. QED BY <2>1, <2>2
<1>. HIDE DEF m
<1>9. b \in Seq(Row) /\ Len(b) = m /\ \A i \in 1 .. m : b[i] = all[i]
  BY <1>6, <1>7
<1>. HIDE DEF b
<1>10. \A i \in 1 .. Len(a) : a[i] = b[i]
  BY <1>4, <1>8, <1>9 DEF Prefix
<1>11. a = b
  BY <1>4, <1>8, <1>9, <1>10, SeqEqual
<1>. QED BY <1>3, <1>11 DEF b, m, all

(* For arrays, lines and screens of every size: what the editor shows is   *)
(* the beginning of what was typed and not deleted, cut into lines as they *)
(* were typed, and nothing that the array held before.                     *)
THEOREM ScreenShowsText == Spec => []ShowsWhatWasTyped
<1>1. StateOK => ShowsWhatWasTyped
  BY DisplayedIs DEF StateOK, ShowsWhatWasTyped
<1>. QED BY <1>1, StateSound, PTL

-----------------------------------------------------------------------------
(* What a program promises, line by line.                                  *)

\* The first n lines of the text end at p.
Reached(text, p, n) == \E ls : Cut(text, p, ls) /\ Len(ls) = n

LEMMA ReachedStart == ASSUME NEW text \in Row PROVE Reached(text, 0, 0)
<1>1. Len(<<>>) = 0
  OBVIOUS
<1>. QED BY <1>1, CutStart DEF Reached

LEMMA ReachedIs ==
  ASSUME NEW text \in Row, NEW p, NEW n, Reached(text, p, n)
  PROVE  /\ n \in 0 .. Len(LinesOf(text))
         /\ p = Len(text) => n = Len(LinesOf(text))
<1>1. PICK ls : Cut(text, p, ls) /\ Len(ls) = n
  BY DEF Reached
<1>2. ls \in Seq(Row) /\ Prefix(ls, LinesOf(text)) /\ (p = Len(text) => ls = LinesOf(text))
  BY <1>1, CutIs
<1>3. LinesOf(text) \in Seq(Row)
  BY AllLinesAre
<1>4. Len(ls) \in Nat /\ Len(LinesOf(text)) \in Nat /\ Len(ls) <= Len(LinesOf(text))
  BY <1>2, <1>3 DEF Prefix
<1>. QED BY <1>1, <1>2, <1>4

LEMMA ReachedStep ==
  ASSUME NEW e, NEW text, Holds(e, text), NEW p, NEW n, Reached(text, p, n), p < e.pos
  PROVE  /\ n + 1 \in 1 .. Len(LinesOf(text))
         /\ LinesOf(text)[n + 1] = LineText(e, p)
         /\ Reached(text, NextLine(e, p), n + 1)
<1>. DEFINE line == LineText(e, p)
            all == LinesOf(text)
<1>1. PICK ls : Cut(text, p, ls) /\ Len(ls) = n
  BY DEF Reached
<1>2. text \in Row /\ Len(text) = e.pos
  BY DEF Holds, Row
<1>3. ls \in Seq(Row) /\ n \in Nat
  BY <1>1, <1>2, CutIs
<1>4. Cut(text, NextLine(e, p), Append(ls, line))
  BY <1>1, <1>2, CutStep
<1>5. Append(ls, line) \in Seq(Row) /\ Prefix(Append(ls, line), all)
  BY <1>2, <1>4, CutIs
<1>6. all \in Seq(Row)
  BY <1>2, AllLinesAre
<1>. HIDE DEF line, all
<1>7. Len(Append(ls, line)) = n + 1 /\ Append(ls, line)[n + 1] = line
  BY <1>1, <1>3
<1>8. n + 1 \in 1 .. Len(all) /\ all[n + 1] = line
  <2>1. Len(all) \in Nat /\ n + 1 <= Len(all) /\ n + 1 \in 1 .. n + 1
    BY <1>3, <1>5, <1>6, <1>7 DEF Prefix
  <2>. QED BY <1>3, <1>5, <1>7, <2>1 DEF Prefix
<1>. QED BY <1>4, <1>7, <1>8 DEF Reached, line, all

Op(lines, k) == MeaningOf(lines[k]).op

Begun(lines, n) == \E b \in 1 .. n : Op(lines, b) = "begin"

NotEnded(lines, n) == \A k \in 1 .. n : Op(lines, k) = "end" => ~Begun(lines, k - 1)

\* Which lines are statements of the program.
LEMMA BodyIs ==
  ASSUME NEW lines \in Seq(Row), NEW n \in Nat, n + 1 \in 1 .. Len(lines)
  PROVE  /\ ~Begun(lines, n) => n + 1 \notin Body(lines)
         /\ Begun(lines, n) /\ NotEnded(lines, n) /\ Op(lines, n + 1) # "end" /\ Bounded(lines)
              => n + 1 \in Body(lines)
         /\ Op(lines, n + 1) = "end" => \A k \in n + 1 .. Len(lines) : k \notin Body(lines)
<1>1. DOMAIN lines = 1 .. Len(lines) /\ Len(lines) \in Nat
  OBVIOUS
<1>2. \A op, k : k \in At(lines, op) <=> k \in 1 .. Len(lines) /\ Op(lines, k) = op
  BY <1>1 DEF At, Op
<1>3. \A k \in 1 .. Len(lines) :
        Begun(lines, k - 1) <=> \E b \in At(lines, "begin") : b < k
  <2>. SUFFICES ASSUME NEW k \in 1 .. Len(lines)
                PROVE  Begun(lines, k - 1) <=> \E b \in At(lines, "begin") : b < k
    OBVIOUS
  <2>1. \A b : b \in 1 .. k - 1 <=> b \in 1 .. Len(lines) /\ b < k
    BY <1>1
  <2>. QED BY <1>2, <2>1 DEF Begun
<1>4. (n + 1) - 1 = n
  OBVIOUS
<1>5. \A k : k \in Body(lines) <=>
        /\ k \in DOMAIN lines
        /\ \E b \in At(lines, "begin") : b < k
        /\ \A e \in At(lines, "end") : k < e
  BY DEF Body
<1>6. ~Begun(lines, n) => n + 1 \notin Body(lines)
  BY <1>3, <1>4, <1>5
<1>7. ASSUME Begun(lines, n), NotEnded(lines, n), Op(lines, n + 1) # "end", Bounded(lines)
      PROVE  n + 1 \in Body(lines)
  <2>1. n + 1 \in DOMAIN lines /\ \E b \in At(lines, "begin") : b < n + 1
    BY <1>1, <1>3, <1>4, <1>7
  <2>2. ASSUME NEW e \in At(lines, "end"), ~(n + 1 < e)
        PROVE  FALSE
    <3>1. e \in 1 .. Len(lines) /\ Op(lines, e) = "end"
      BY <1>2
    <3>2. e \in 1 .. n
      BY <1>7, <2>2, <3>1
    <3>3. ~Begun(lines, e - 1)
      BY <1>7, <3>1, <3>2 DEF NotEnded
    <3>4. \E b \in At(lines, "begin") : b < e
      BY <1>7 DEF Bounded
    <3>. QED BY <1>3, <3>1, <3>3, <3>4
  <2>. QED BY <1>5, <2>1, <2>2
<1>8. ASSUME Op(lines, n + 1) = "end", NEW k \in n + 1 .. Len(lines)
      PROVE  k \notin Body(lines)
  <2>1. n + 1 \in At(lines, "end") /\ ~(k < n + 1)
    BY <1>2, <1>8
  <2>. QED BY <1>5, <2>1
<1>. QED BY <1>6, <1>7, <1>8

\* What the k-th value of Results has to be, and that g has them up to n.
ResultValue(lines, g, k) ==
  IF k = 0 THEN [env |-> [n \in {} |-> 0], out |-> <<>>, halted |-> FALSE]
  ELSE IF k \notin Body(lines) \/ g[k - 1].halted THEN g[k - 1]
  ELSE After(g[k - 1], lines[k])

IsResults(lines, g, n) == g = [k \in 0 .. n |-> ResultValue(lines, g, k)]

LEMMA ResultsExtend ==
  ASSUME NEW lines, NEW n \in Nat \ {0}, NEW g, IsResults(lines, g, n - 1)
  PROVE  \E h : IsResults(lines, h, n)
<1>. DEFINE h == [k \in 0 .. n |-> IF k = n THEN ResultValue(lines, g, n) ELSE g[k]]
<1>1. \A k \in 0 .. n - 1 : h[k] = g[k] /\ g[k] = ResultValue(lines, g, k)
  <2>1. \A k \in 0 .. n - 1 : g[k] = ResultValue(lines, g, k)
    BY Zenon DEF IsResults
  <2>2. \A k \in 0 .. n - 1 : k \in 0 .. n /\ k # n
    OBVIOUS
  <2>. QED BY <2>1, <2>2, Zenon
<1>2. h[n] = ResultValue(lines, g, n) /\ h = [k \in 0 .. n |-> h[k]]
  OBVIOUS
<1>. HIDE DEF h
<1>3. ASSUME NEW k \in 0 .. n
      PROVE  ResultValue(lines, h, k) = ResultValue(lines, g, k)
  <2>1. k # 0 => h[k - 1] = g[k - 1]
    <3>1. k # 0 => k - 1 \in 0 .. n - 1
      OBVIOUS
    <3>. QED BY <1>1, <3>1
  <2>. QED BY <2>1, Zenon DEF ResultValue
<1>4. \A k \in 0 .. n : h[k] = ResultValue(lines, h, k)
  <2>1. \A k \in 0 .. n : k \in 0 .. n - 1 \/ k = n
    OBVIOUS
  <2>. QED BY <1>1, <1>2, <1>3, <2>1, Zenon
<1>. QED BY <1>2, <1>4 DEF IsResults

LEMMA ResultsAre ==
  ASSUME NEW lines \in Seq(Row)
  PROVE  \A k \in 0 .. Len(lines) :
           Results(lines)[k] = ResultValue(lines, Results(lines), k)
<1>1. \A n \in Nat : \E g : IsResults(lines, g, n)
  <2>. DEFINE S == {n \in Nat : ~ \E g : IsResults(lines, g, n)}
  <2>. SUFFICES ASSUME S # {} PROVE FALSE
    OBVIOUS
  <2>1. PICK n \in S : \A m \in S : n <= m
    <3>1. S \subseteq Nat
      OBVIOUS
    <3>. HIDE DEF S
    <3>. QED BY <3>1, Least
  <2>2. n \in Nat /\ ~ \E g : IsResults(lines, g, n)
    OBVIOUS
  <2>3. n # 0
    <3>. DEFINE g == [k \in 0 .. 0 |-> ResultValue(lines, <<>>, 0)]
    <3>1. \A k \in 0 .. 0 : ResultValue(lines, g, k) = ResultValue(lines, <<>>, 0)
      BY DEF ResultValue
    <3>2. IsResults(lines, g, 0)
      BY <3>1 DEF IsResults
    <3>. QED BY <2>2, <3>2
  <2>4. n - 1 \in Nat /\ ~ n - 1 \in S
    BY <2>1, <2>2, <2>3
  <2>5. \E g : IsResults(lines, g, n - 1)
    BY <2>4
  <2>. QED BY <2>2, <2>3, <2>5, ResultsExtend
<1>2. IsResults(lines, Results(lines), Len(lines))
  <2>1. Len(lines) \in Nat
    OBVIOUS
  <2>2. \E g : IsResults(lines, g, Len(lines))
    BY <1>1, <2>1
  <2>. QED BY <2>2, Zenon DEF IsResults, ResultValue, Results
<1>. QED BY <1>2 DEF IsResults

\* Behind an error, and behind the last statement, nothing changes.
LEMMA ResultsStay ==
  ASSUME NEW lines \in Seq(Row), NEW m \in 0 .. Len(lines),
         \/ Results(lines)[m].halted
         \/ \A k \in m + 1 .. Len(lines) : k \notin Body(lines)
  PROVE  Results(lines)[Len(lines)] = Results(lines)[m]
<1>. DEFINE P(n) == Results(lines)[n] = Results(lines)[m]
            S == {n \in m .. Len(lines) : ~P(n)}
<1>1. Len(lines) \in Nat /\ m \in Nat
  OBVIOUS
<1>2. ASSUME NEW n \in m + 1 .. Len(lines), P(n - 1)
      PROVE  P(n)
  <2>1. n \in 0 .. Len(lines) /\ n # 0
    BY <1>1
  <2>2. n \notin Body(lines) \/ Results(lines)[n - 1].halted
    BY <1>2
  <2>3. Results(lines)[n] = ResultValue(lines, Results(lines), n)
    BY <2>1, ResultsAre
  <2>. QED BY <1>2, <2>1, <2>2, <2>3, Zenon DEF ResultValue
<1>3. P(m)
  OBVIOUS
<1>. HIDE DEF P
<1>4. S = {}
  <2>. SUFFICES ASSUME S # {} PROVE FALSE
    OBVIOUS
  <2>1. PICK n \in S : \A i \in S : n <= i
    <3>1. S \subseteq Nat
      BY <1>1
    <3>. HIDE DEF S
    <3>. QED BY <3>1, Least
  <2>2. n \in m .. Len(lines) /\ ~P(n)
    OBVIOUS
  <2>3. n # m
    BY <1>3, <2>2
  <2>4. n \in m + 1 .. Len(lines) /\ n - 1 \in m .. Len(lines) /\ ~ n - 1 \in S
    BY <1>1, <2>1, <2>2, <2>3
  <2>5. P(n - 1)
    BY <2>4
  <2>. QED BY <1>2, <2>2, <2>4, <2>5
<1>5. P(Len(lines))
  BY <1>1, <1>4
<1>. QED BY <1>5 DEF P

-----------------------------------------------------------------------------
(* A run and its promise.                                                  *)

\* The table holds what the map env says.
Holding(env) ==
  /\ \A x : x \in DOMAIN env <=> Known(x)
  /\ \A i \in DOMAIN vars : env[vars[i].name] = vars[i].int
  /\ IsFiniteSet(DOMAIN env) /\ Cardinality(DOMAIN env) = Len(vars)

\* The run has come to the result r.
Agrees(r) ==
  /\ r = [env |-> r.env, out |-> r.out, halted |-> r.halted]
  /\ out = r.out
  /\ error_flag = r.halted
  /\ Holding(r.env)

LEMMA ValueHeld ==
  ASSUME TableOK, NEW env, Holding(env), NEW x, Known(x)
  PROVE  ValueOf(x) = env[x]
<1>1. find_var(x) \in DOMAIN vars /\ vars[find_var(x)].name = x
  BY FindVar
<1>. QED BY <1>1 DEF ValueOf, Holding

\* What the map says of a variable is what the table does.
LEMMA HeldIs ==
  ASSUME TableOK, NEW env, Holding(env)
  PROVE  \A x : Held(env, x) = ValueOf(x)
<1>1. \A x : x \in DOMAIN env <=> Known(x)
  BY DEF Holding
<1>2. \A x : Known(x) => ValueOf(x) = env[x]
  BY ValueHeld
<1>. QED BY <1>1, <1>2, Zenon DEF Held, ValueOf

\* s is empty, or documented and clear: it means the same to the interpreter
\* and to WOG.MD.
IsPlain(s, env) == s = None \/ (Documented(s) /\ Clear(s, env))

LEMMA DoesIs ==
  ASSUME TableOK, NEW env, Holding(env), NEW s, IsPlain(s, env)
  PROVE  Does(s, env) = Selected(s) /\ Selected(s).op # "if"
<1>1. CASE s.op # "if"
  BY <1>1 DEF Does, Selected, Branch
<1>2. CASE s.op = "if"
  <2>1. Documented(s) /\ Clear(s, env)
    BY <1>2 DEF IsPlain, None
  <2>2. s.then /\ s.stmt.op # "if"
    BY <1>2, <2>1 DEF Documented
  <2>3. s.var \in DOMAIN env
    BY <1>2, <2>1 DEF Clear
  <2>4. eval_condition(s) <=> Compare(s.rel, Held(env, s.var), s.int)
    <3>1. Known(s.var) /\ Held(env, s.var) = ValueOf(s.var)
      BY <2>3, HeldIs DEF Holding
    <3>. QED BY <3>1, Zenon DEF eval_condition
  <2>5. Branch(s) = Does(s, env) /\ Does(s, env) \in {s.stmt, None}
    BY <1>2, <2>2, <2>4, Zenon DEF Branch, Does, None
  <2>6. Does(s, env).op # "if"
    BY <2>2, <2>5 DEF None
  <2>7. Selected(s) = Branch(Does(s, env))
    BY <2>5 DEF Selected
  <2>. QED BY <2>6, <2>7, Zenon DEF Branch
<1>. QED BY <1>1, <1>2

LEMMA MeantIs ==
  ASSUME TableOK, NEW env, Holding(env), NEW v
  PROVE  Meant(v, env) = eval_value(v)
BY HeldIs, Zenon DEF Meant, eval_value

LEMMA ShownIs ==
  ASSUME TableOK, NEW env, Holding(env), NEW s, IsPlain(s, env),
         Selected(s).op = "behold"
  PROVE  Shown(Selected(s), env) = Beheld(Selected(s))
<1>1. PICK d : d = Selected(s)
  OBVIOUS
<1>2. d = Does(s, env) /\ d.op = "behold"
  BY <1>1, DoesIs
<1>3. Clear(s, env)
  <2>1. s # None
    BY <1>1, <1>2 DEF Does, None
  <2>. QED BY <2>1 DEF IsPlain
<1>4. d.quoted \/ (IF d.number THEN d.word \notin DOMAIN env
                   ELSE d.word \in DOMAIN env /\ env[d.word] # INT_MIN)
  BY <1>2, <1>3 DEF Clear
<1>5. /\ d.word \in DOMAIN env <=> Known(d.word)
      /\ Held(env, d.word) = ValueOf(d.word)
      /\ d.word \in DOMAIN env => Held(env, d.word) = env[d.word]
  BY HeldIs DEF Holding, Held
<1>6. Shown(d, env) = Beheld(d)
  <2>1. CASE d.quoted
    BY <2>1, Zenon DEF Shown, Beheld
  <2>2. CASE ~d.quoted /\ d.number
    BY <1>4, <1>5, <2>2, Zenon DEF Shown, Beheld
  <2>3. CASE ~d.quoted /\ ~d.number
    <3>1. Known(d.word) /\ ValueOf(d.word) # INT_MIN
      BY <1>4, <1>5, <2>3
    <3>. QED BY <1>5, <2>3, <3>1, Zenon DEF Shown, Beheld, int_to_str
  <2>. QED BY <2>1, <2>2, <2>3
<1>. QED BY <1>1, <1>6

\* The table is full when the map would get too large.
LEMMA FullIs ==
  ASSUME TableOK, NEW env, Holding(env), NEW x
  PROVE  Cardinality(DOMAIN env \union {x}) > MAX_VARS
           <=> ~Known(x) /\ Len(vars) = MAX_VARS
<1>1. /\ IsFiniteSet(DOMAIN env) /\ Cardinality(DOMAIN env) = Len(vars)
      /\ x \in DOMAIN env <=> Known(x)
      /\ Len(vars) \in Nat /\ Len(vars) <= MAX_VARS
  BY DEF Holding, TableOK
<1>2. Cardinality(DOMAIN env \union {x})
        = IF x \in DOMAIN env THEN Cardinality(DOMAIN env) ELSE Cardinality(DOMAIN env) + 1
  BY <1>1, FS_AddElement
<1>. QED BY <1>1, <1>2

\* The map env with the value n for the name.
With(env, name, n) ==
  [x \in DOMAIN env \union {name} |-> IF x = name THEN n ELSE env[x]]

LEMMA StoredHolds ==
  ASSUME TableOK, NEW env, Holding(env), NEW name \in Name, NEW n \in Int32,
         vars' = Stored(name, n), NEW new, new = With(env, name, n)
  PROVE  Holding(new)'
<1>1. /\ vars \in Seq(Variable) /\ Len(vars) \in Nat /\ DOMAIN vars = 1 .. Len(vars)
      /\ \A i \in DOMAIN vars : vars[i] \in Variable
  BY DEF TableOK
<1>2. /\ DOMAIN new = DOMAIN env \union {name} /\ new[name] = n
      /\ \A x \in DOMAIN env : x # name => new[x] = env[x]
  BY DEF With
<1>3. /\ \A x : x \in DOMAIN env <=> Known(x)
      /\ \A i \in DOMAIN vars : env[vars[i].name] = vars[i].int
      /\ IsFiniteSet(DOMAIN env) /\ Cardinality(DOMAIN env) = Len(vars)
  BY DEF Holding
<1>4. /\ IsFiniteSet(DOMAIN new)
      /\ Cardinality(DOMAIN new)
           = IF Known(name) THEN Len(vars) ELSE Len(vars) + 1
  <2>1. /\ IsFiniteSet(DOMAIN env \union {name})
        /\ Cardinality(DOMAIN env \union {name})
             = IF name \in DOMAIN env THEN Cardinality(DOMAIN env)
               ELSE Cardinality(DOMAIN env) + 1
    BY <1>3, FS_AddElement
  <2>2. DOMAIN new = DOMAIN env \union {name} /\ (name \in DOMAIN env <=> Known(name))
    BY <1>2, <1>3
  <2>3. Cardinality(DOMAIN env) = Len(vars)
    BY <1>3
  <2>. QED BY <2>1, <2>2, <2>3, Zenon
<1>5. CASE Known(name)
  <2>. DEFINE k == find_var(name)
              v == [vars[k] EXCEPT !.int = n]
  <2>1. k \in DOMAIN vars /\ vars[k].name = name /\ vars[k] \in Variable
    BY <1>1, <1>5, FindVar
  <2>2. v \in Variable /\ v.name = name /\ v.int = n
    BY <2>1 DEF Variable
  <2>3. vars' = [vars EXCEPT ![k] = v]
    BY <1>5 DEF Stored
  <2>. HIDE DEF k, v
  <2>4. /\ DOMAIN vars' = DOMAIN vars /\ Len(vars') = Len(vars)
        /\ vars'[k] = v /\ \A i \in DOMAIN vars : i # k => vars'[i] = vars[i]
    BY <1>1, <2>1, <2>2, <2>3, ExceptSeq
  <2>5. \A i \in DOMAIN vars : i # k => vars[i].name # name
    BY <2>1 DEF TableOK
  <2>6. \A i \in DOMAIN vars : vars'[i].name = vars[i].name
    BY <2>1, <2>2, <2>4
  <2>7. \A x : x \in DOMAIN new <=> Known(x)'
    <3>1. \A x : x \in DOMAIN new <=> Known(x)
      BY <1>2, <1>3, <1>5
    <3>2. \A x : Known(x)' <=> Known(x)
      BY <2>4, <2>6 DEF Known
    <3>. QED BY <3>1, <3>2
  <2>8. ASSUME NEW i \in DOMAIN vars
        PROVE  new[vars'[i].name] = vars'[i].int
    <3>1. CASE i = k
      BY <1>2, <2>2, <2>4, <3>1
    <3>2. CASE i # k
      <4>1. vars'[i] = vars[i] /\ vars[i].name # name /\ vars[i].name \in DOMAIN env
        BY <1>3, <2>4, <2>5, <3>2 DEF Known
      <4>. QED BY <1>2, <1>3, <4>1
    <3>. QED BY <3>1, <3>2
  <2>. QED BY <1>4, <1>5, <2>4, <2>7, <2>8 DEF Holding
<1>6. CASE ~Known(name)
  <2>. DEFINE v == [name |-> name, int |-> n]
  <2>1. v \in Variable /\ v.name = name /\ v.int = n /\ vars' = Append(vars, v)
    BY <1>6 DEF Variable, Stored
  <2>. HIDE DEF v
  <2>2. /\ DOMAIN vars' = 1 .. Len(vars) + 1 /\ Len(vars') = Len(vars) + 1
        /\ vars'[Len(vars) + 1] = v /\ \A i \in DOMAIN vars : vars'[i] = vars[i]
    BY <1>1, <2>1, AppendProperties
  <2>3. \A i : i \in DOMAIN vars' <=> i \in DOMAIN vars \/ i = Len(vars) + 1
    BY <1>1, <2>2
  <2>4. \A x : Known(x)' <=> Known(x) \/ x = name
    BY <2>1, <2>2, <2>3 DEF Known
  <2>5. \A x : x \in DOMAIN new <=> Known(x)'
    BY <1>2, <1>3, <2>4
  <2>6. ASSUME NEW i \in DOMAIN vars'
        PROVE  new[vars'[i].name] = vars'[i].int
    <3>1. CASE i = Len(vars) + 1
      BY <1>2, <2>1, <2>2, <3>1
    <3>2. CASE i \in DOMAIN vars
      <4>1. vars'[i] = vars[i] /\ vars[i].name # name /\ vars[i].name \in DOMAIN env
        BY <1>3, <1>6, <2>2, <3>2 DEF Known
      <4>. QED BY <1>2, <1>3, <3>2, <4>1
    <3>. QED BY <2>3, <3>1, <3>2
  <2>. QED BY <1>4, <1>6, <2>2, <2>5, <2>6 DEF Holding
<1>. QED BY <1>5, <1>6

\* The result of a line that is not skipped, by what its statement is (but
\* for WOE UNTO).
LEMMA AfterIs ==
  ASSUME NEW r, NEW line, NEW s, s = Does(MeaningOf(line), r.env),
         r = [env |-> r.env, out |-> r.out, halted |-> r.halted]
  PROVE  /\ s.op = "behold" => After(r, line)
              = [env |-> r.env, out |-> Append(r.out, Shown(s, r.env)),
                 halted |-> r.halted]
         /\ s.op = "shalt" /\ Cardinality(DOMAIN r.env \union {s.var}) > MAX_VARS
              => After(r, line) = Halts(r, TableFull)
         /\ s.op = "shalt" /\ ~(Cardinality(DOMAIN r.env \union {s.var}) > MAX_VARS)
              => After(r, line)
                   = [env |-> With(r.env, s.var, Meant(s.value, r.env)),
                      out |-> r.out, halted |-> r.halted]
         /\ s.op \in {"none", "begin", "end"} => After(r, line) = r
<1>1. \A x : [r EXCEPT !.out = x] = [env |-> r.env, out |-> x, halted |-> r.halted]
  OBVIOUS
<1>2. \A x : [r EXCEPT !.env = x] = [env |-> x, out |-> r.out, halted |-> r.halted]
  OBVIOUS
<1>3. CASE s.op = "behold"
  BY <1>1, <1>3 DEF After
<1>5. CASE s.op = "shalt"
  BY <1>2, <1>5 DEF After, With
<1>6. CASE s.op \in {"none", "begin", "end"}
  BY <1>6 DEF After
<1>7. CASE s.op \notin {"behold", "shalt", "none", "begin", "end"}
  BY <1>7
<1>. QED BY <1>3, <1>5, <1>6, <1>7

Statements == Behold \/ ThouShalt \/ WoeUnto \/ MissingThen \/ Nothing

\* A statement does to the table and the output what WOG.MD says of its line.
LEMMA StatementAgrees ==
  ASSUME TableOK, NEW r, Agrees(r), Statements, NEW q, q = After(r, Line),
         IsPlain(Means, r.env)
  PROVE  Agrees(q)'
<1>. DEFINE s == Selected(Means)
            env == r.env
<1>1. /\ r = [env |-> env, out |-> r.out, halted |-> r.halted]
      /\ out = r.out /\ error_flag = r.halted /\ Holding(env)
  BY DEF Agrees
<1>2. s = Does(MeaningOf(Line), env)
  BY <1>1, DoesIs DEF Means
<1>3. /\ s \in Statement /\ s.op # "if"
      /\ s.op = "behold" => Shown(s, env) = Beheld(s)
      /\ Meant(s.value, env) = eval_value(s.value)
      /\ Cardinality(DOMAIN env \union {s.var}) > MAX_VARS
           <=> ~Known(s.var) /\ Len(vars) = MAX_VARS
  BY <1>1, SelectedIs, DoesIs, ShownIs, MeantIs, FullIs
<1>. HIDE DEF env, s
<1>4. ASSUME UNCHANGED vars, NEW o, NEW h, q = [env |-> env, out |-> o, halted |-> h],
             out' = o, error_flag' = h
      PROVE  Agrees(q)'
  <2>1. Holding(env)'
    BY <1>1, <1>4 DEF Holding, Known
  <2>. QED BY <1>4, <2>1 DEF Agrees
<1>5. CASE Behold
  <2>1. s.op = "behold" /\ out' = Append(out, Beheld(s)) /\ UNCHANGED <<vars, error_flag>>
    BY <1>5 DEF Behold, Executes, s
  <2>2. q = [env |-> env, out |-> Append(r.out, Shown(s, env)), halted |-> r.halted]
    <3>1. /\ s = Does(MeaningOf(Line), r.env)
          /\ r = [env |-> r.env, out |-> r.out, halted |-> r.halted]
      BY <1>1, <1>2, Zenon DEF env
    <3>2. After(r, Line) = [r EXCEPT !.out = Append(r.out, Shown(s, r.env))]
      BY <2>1, <3>1 DEF After
    <3>3. \A x : [r EXCEPT !.out = x] = [env |-> r.env, out |-> x, halted |-> r.halted]
      BY <3>1
    <3>. QED BY <3>2, <3>3, Zenon DEF env
  <2>. QED BY <1>1, <1>3, <1>4, <2>1, <2>2
<1>6. CASE WoeUnto
  <2>1. s.op = "woe" /\ out' = Append(out, Report(s.text)) /\ error_flag' = TRUE
        /\ UNCHANGED vars
    BY <1>6 DEF WoeUnto, Executes, s
  <2>2. q = Halts(r, Report(s.text))
    <3>1. Does(MeaningOf(Line), r.env) = s
      BY <1>2 DEF env
    <3>. QED BY <2>1, <3>1 DEF After
  <2>3. q = [env |-> env, out |-> Append(r.out, Report(s.text)), halted |-> TRUE]
    BY <2>2 DEF Halts, env
  <2>. QED BY <1>1, <1>4, <2>1, <2>3
<1>7. CASE MissingThen
  BY <1>3, <1>7 DEF MissingThen, Executes, s
<1>8. CASE Nothing
  <2>1. s.op \in {"none", "begin", "end"} /\ UNCHANGED <<vars, error_flag, out>>
    BY <1>8 DEF Nothing, Executes, s
  <2>2. q = r
    BY <1>1, <1>2, <2>1, AfterIs DEF Means, env
  <2>. QED BY <1>1, <1>4, <2>1, <2>2
<1>9. CASE ThouShalt
  <2>1. s.op = "shalt"
    BY <1>9 DEF ThouShalt, Executes, s
  <2>2. CASE ~Known(s.var) /\ Len(vars) = MAX_VARS
    <3>1. error_flag' = TRUE /\ out' = Append(out, TableFull) /\ UNCHANGED vars
      BY <1>9, <2>2 DEF ThouShalt, s
    <3>2. q = Halts(r, TableFull)
      BY <1>1, <1>2, <1>3, <2>1, <2>2, AfterIs DEF Means, env
    <3>3. q = [env |-> env, out |-> Append(r.out, TableFull), halted |-> TRUE]
      BY <3>2 DEF Halts, env
    <3>. QED BY <1>1, <1>4, <3>1, <3>3
  <2>3. CASE ~(~Known(s.var) /\ Len(vars) = MAX_VARS)
    <3>. DEFINE v == eval_value(s.value)
                new == With(env, s.var, v)
    <3>1. vars' = Stored(s.var, v) /\ UNCHANGED <<error_flag, out>>
      BY <1>9, <2>3 DEF ThouShalt, s
    <3>2. s.var \in Name /\ v \in Int32
      BY <1>3, <2>1, ShaltIs, EvalIs
    <3>3. After(r, Line)
            = [env |-> With(r.env, s.var, Meant(s.value, r.env)),
               out |-> r.out, halted |-> r.halted]
      BY <1>1, <1>2, <1>3, <2>1, <2>3, AfterIs DEF Means, env
    <3>4. q = [env |-> new, out |-> r.out, halted |-> r.halted]
      BY <1>3, <3>3 DEF env
    <3>. HIDE DEF new, v
    <3>5. PICK w : w = new
      OBVIOUS
    <3>6. Holding(w)'
      BY <1>1, <3>1, <3>2, <3>5, StoredHolds DEF new
    <3>7. q = [env |-> w, out |-> r.out, halted |-> r.halted]
      BY <3>4, <3>5
    <3>. QED BY <1>1, <3>1, <3>6, <3>7 DEF Agrees
  <2>. QED BY <2>2, <2>3
<1>. QED BY <1>5, <1>6, <1>7, <1>8, <1>9 DEF Statements

Lines == LinesOf(typed)

\* The run has got through the first n lines of the text, and to the end of
\* the program in none of them, with the result that they promise.
RunsAlong ==
  \E n : /\ Reached(typed, pos, n)
         /\ in_program = Begun(Lines, n)
         /\ NotEnded(Lines, n)
         /\ Agrees(Results(Lines)[n])

RunInv ==
  /\ phase \in {"edit", "closed"} => out = <<>>
  /\ phase # "run" => in_program = FALSE
  /\ phase = "run" /\ Proper(typed) => RunsAlong
  /\ KeepsItsPromise

LEMMA RunInit == Init => RunInv
<1>. SUFFICES ASSUME Init PROVE RunInv
  OBVIOUS
<1>1. phase = "closed" /\ out = <<>> /\ in_program = FALSE
  BY DEF Init
<1>. QED BY <1>1 DEF RunInv, KeepsItsPromise

\* A run begins before the first line, with no variables.
LEMMA RunStarts ==
  ASSUME StateOK, RunInv, Run
  PROVE  RunInv'
<1>1. /\ phase = "edit" /\ phase' = "run" /\ vars' = <<>> /\ error_flag' = FALSE
      /\ UNCHANGED <<ed, typed, pos, in_program, out>>
  BY DEF Run, NoVars, editing
<1>2. pos' = 0 /\ in_program' = FALSE /\ out' = <<>> /\ typed \in Row
  BY <1>1 DEF StateOK, RunInv, Holds, Row
<1>. DEFINE lines == LinesOf(typed)
            r == Results(lines)[0]
<1>3. Reached(typed, 0, 0) /\ lines \in Seq(Row)
  BY <1>2, ReachedStart, AllLinesAre
<1>4. ~Begun(lines, 0) /\ NotEnded(lines, 0) /\ Begun(lines, 0) \in BOOLEAN
  BY DEF Begun, NotEnded
<1>5. r = [env |-> [n \in {} |-> 0], out |-> <<>>, halted |-> FALSE]
  <2>1. 0 \in 0 .. Len(lines)
    BY <1>3
  <2>. HIDE DEF lines
  <2>2. r = ResultValue(lines, Results(lines), 0)
    BY <1>3, <2>1, ResultsAre
  <2>. QED BY <2>2 DEF ResultValue
<1>6. PICK q : q = r
  OBVIOUS
<1>. HIDE DEF r
<1>7. Holding(q.env)'
  <2>1. PICK env : env = [n \in {} |-> 0]
    OBVIOUS
  <2>2. DOMAIN env = {} /\ DOMAIN vars' = {} /\ Len(vars') = 0
    BY <1>1, <2>1
  <2>3. IsFiniteSet(DOMAIN env) /\ Cardinality(DOMAIN env) = 0
    BY <2>2, FS_EmptySet
  <2>4. Holding(env)'
    BY <2>2, <2>3 DEF Holding, Known
  <2>5. q.env = env
    BY <1>5, <1>6, <2>1
  <2>. QED BY <2>4, <2>5
<1>8. q = [env |-> q.env, out |-> <<>>, halted |-> FALSE]
  BY <1>5, <1>6
<1>9. Agrees(q)'
  <2>1. q.out = <<>> /\ q.halted = FALSE
    BY <1>8
  <2>2. q = [env |-> q.env, out |-> q.out, halted |-> q.halted]
    BY <1>8, <2>1
  <2>3. out' = q.out /\ error_flag' = q.halted
    BY <1>1, <1>2, <2>1
  <2>. QED BY <1>7, <2>2, <2>3, Zenon DEF Agrees
<1>10. typed' = typed
  BY <1>1
<1>11. RunsAlong'
  <2>1. Lines' = lines
    BY <1>10 DEF Lines
  <2>2. Agrees(Results(Lines)[0])'
    BY <1>6, <1>9, <2>1 DEF r
  <2>3. Reached(typed, pos, 0)'
    BY <1>2, <1>3, <1>10
  <2>. HIDE DEF lines
  <2>4. in_program' = Begun(lines, 0)
    BY <1>2, <1>4, Zenon
  <2>5. (in_program = Begun(Lines, 0))' /\ NotEnded(Lines, 0)'
    BY <1>4, <2>1, <2>4
  <2>. QED BY <2>2, <2>3, <2>5 DEF RunsAlong
<1>. QED BY <1>1, <1>2, <1>11 DEF RunInv, KeepsItsPromise

\* Where a run is: the next line of the text, and what is promised so far.
LEMMA NextIs ==
  ASSUME StateOK, AtLine, NEW n, Reached(typed, pos, n)
  PROVE  /\ n \in Nat /\ n + 1 \in 1 .. Len(Lines) /\ Lines \in Seq(Row)
         /\ Lines[n + 1] = Line /\ Op(Lines, n + 1) = Means.op
         /\ Reached(typed, NextLine(ed, pos), n + 1)
<1>1. /\ Holds(ed, typed) /\ pos < ed.pos /\ typed \in Row
  BY DEF StateOK, AtLine, Holds, Row
<1>2. /\ n + 1 \in 1 .. Len(Lines) /\ Lines[n + 1] = Line
      /\ Reached(typed, NextLine(ed, pos), n + 1)
  BY <1>1, ReachedStep DEF Lines, Line
<1>3. Lines \in Seq(Row) /\ n \in 0 .. Len(Lines)
  BY <1>1, AllLinesAre, ReachedIs DEF Lines
<1>4. Op(Lines, n + 1) = Means.op
  BY <1>2 DEF Op, Means
<1>. QED BY <1>2, <1>3, <1>4

\* A line is behind the run, with the result that is promised.
LEMMA RunGoesOn ==
  ASSUME StateOK, RunInv, AtLine, NEW n, Reached(typed, pos, n),
         UNCHANGED <<phase, ed, typed>>, pos' = NextLine(ed, pos),
         in_program = Begun(Lines, n), NotEnded(Lines, n),
         in_program' = (in_program \/ Means.op = "begin"),
         Means.op = "end" => ~in_program,
         Agrees(Results(Lines)[n + 1])'
  PROVE  RunInv'
<1>1. /\ n \in Nat /\ n + 1 \in 1 .. Len(Lines) /\ Op(Lines, n + 1) = Means.op
      /\ Reached(typed, NextLine(ed, pos), n + 1)
  BY NextIs
<1>2. Lines' = Lines
  BY DEF Lines
<1>3. \A k : k \in 1 .. n + 1 <=> k \in 1 .. n \/ k = n + 1
  BY <1>1
<1>4. Begun(Lines, n + 1) <=> Begun(Lines, n) \/ Means.op = "begin"
  BY <1>1, <1>3 DEF Begun
<1>5. NotEnded(Lines, n + 1)
  <2>1. (n + 1) - 1 = n
    BY <1>1
  <2>2. Op(Lines, n + 1) = "end" => ~Begun(Lines, n)
    BY <1>1
  <2>. QED BY <1>3, <2>1, <2>2 DEF NotEnded
<1>6. Reached(typed, pos, n + 1)'
  BY <1>1
<1>7. (in_program = Begun(Lines, n + 1))'
  <2>1. in_program' = Begun(Lines, n + 1)
    BY <1>4, Zenon DEF Begun
  <2>. QED BY <1>2, <2>1
<1>8. NotEnded(Lines, n + 1)'
  BY <1>2, <1>5
<1>9. phase = "run" /\ phase' = "run"
  BY DEF AtLine
<1>10. RunsAlong'
  BY <1>6, <1>7, <1>8 DEF RunsAlong
<1>. QED BY <1>9, <1>10 DEF RunInv, KeepsItsPromise

\* Outside the program a line promises nothing.
LEMMA BeforeOK ==
  ASSUME StateOK, RunInv, Proper(typed), Before
  PROVE  RunInv'
<1>1. /\ AtLine /\ in_program = FALSE /\ in_program' = (Means.op = "begin")
      /\ pos' = NextLine(ed, pos) /\ UNCHANGED <<phase, ed, typed, vars, error_flag, out>>
  BY DEF Before, editing, StateOK
<1>2. PICK n : /\ Reached(typed, pos, n) /\ in_program = Begun(Lines, n)
               /\ NotEnded(Lines, n) /\ Agrees(Results(Lines)[n])
  BY <1>1 DEF RunInv, RunsAlong, AtLine
<1>3. /\ n \in Nat /\ n + 1 \in 1 .. Len(Lines) /\ Lines \in Seq(Row)
      /\ (n + 1) - 1 = n /\ n + 1 # 0 /\ n + 1 \in 0 .. Len(Lines)
  BY <1>1, <1>2, NextIs
<1>4. n + 1 \notin Body(Lines)
  <2>1. ~Begun(Lines, n)
    BY <1>1, <1>2, Zenon
  <2>. QED BY <1>3, <2>1, BodyIs
<1>5. Results(Lines)[n + 1] = Results(Lines)[n]
  <2>1. Results(Lines)[n + 1] = ResultValue(Lines, Results(Lines), n + 1)
    BY <1>3, ResultsAre
  <2>. QED BY <1>3, <1>4, <2>1 DEF ResultValue
<1>6. PICK q : q = Results(Lines)[n]
  OBVIOUS
<1>7. Agrees(q)'
  <2>1. Agrees(q)
    BY <1>2, <1>6
  <2>2. Holding(q.env)'
    BY <1>1, <2>1 DEF Agrees, Holding, Known
  <2>. QED BY <1>1, <2>1, <2>2 DEF Agrees
<1>8. Lines' = Lines
  BY <1>1 DEF Lines
<1>9. Agrees(Results(Lines)[n + 1])'
  BY <1>5, <1>6, <1>7, <1>8
<1>10. in_program' = (in_program \/ Means.op = "begin")
  BY <1>1, Zenon
<1>. QED BY <1>1, <1>2, <1>9, <1>10, RunGoesOn

\* No statement is the end of the program.
LEMMA StatementsGoOn ==
  ASSUME StateOK, Statements
  PROVE  /\ AtLine /\ in_program = TRUE /\ in_program' = TRUE /\ Means.op # "end"
         /\ pos' = NextLine(ed, pos) /\ UNCHANGED <<phase, ed, typed>>
<1>1. Means.op = "end" => Selected(Means).op = "end"
  BY DEF Selected, Branch
<1>2. \A op : Executes(op) => AtLine /\ in_program = TRUE
  BY Zenon DEF Executes, StateOK
<1>3. AtLine /\ in_program = TRUE /\ Advance
  BY <1>2, Zenon DEF Statements, Behold, ThouShalt, WoeUnto, MissingThen, Nothing
<1>4. Means.op # "end"
  BY <1>1 DEF Statements, Behold, ThouShalt, WoeUnto, MissingThen, Nothing, Executes
<1>. QED BY <1>3, <1>4 DEF Advance, editing

\* A statement of the program does what it promises.
LEMMA StatementsOK ==
  ASSUME StateOK, RunInv, Proper(typed), Statements
  PROVE  RunInv'
<1>1. /\ AtLine /\ in_program = TRUE /\ in_program' = TRUE /\ Means.op # "end"
      /\ pos' = NextLine(ed, pos) /\ UNCHANGED <<phase, ed, typed>>
  BY StatementsGoOn
<1>2. PICK n : /\ Reached(typed, pos, n) /\ in_program = Begun(Lines, n)
               /\ NotEnded(Lines, n) /\ Agrees(Results(Lines)[n])
  BY <1>1 DEF RunInv, RunsAlong, AtLine
<1>3. /\ n \in Nat /\ n + 1 \in 1 .. Len(Lines) /\ Lines \in Seq(Row)
      /\ (n + 1) - 1 = n /\ n + 1 # 0 /\ n + 1 \in 0 .. Len(Lines)
      /\ Lines[n + 1] = Line /\ Op(Lines, n + 1) = Means.op
  BY <1>1, <1>2, NextIs
<1>4. n + 1 \in Body(Lines)
  <2>1. Begun(Lines, n)
    BY <1>1, <1>2, Zenon
  <2>2. Bounded(Lines)
    BY DEF Proper, Lines
  <2>. QED BY <1>1, <1>2, <1>3, <2>1, <2>2, BodyIs
<1>5. PICK r : r = Results(Lines)[n]
  OBVIOUS
<1>6. Agrees(r) /\ ~r.halted
  BY <1>1, <1>2, <1>5, Zenon DEF Agrees, AtLine
<1>7. PICK q : q = After(r, Line)
  OBVIOUS
<1>8. Results(Lines)[n + 1] = q
  <2>1. Results(Lines)[n + 1] = ResultValue(Lines, Results(Lines), n + 1)
    BY <1>3, ResultsAre
  <2>. QED BY <1>3, <1>4, <1>5, <1>6, <1>7, <2>1 DEF ResultValue
<1>9. Agrees(q)'
  <2>1. /\ Results(Lines)[(n + 1) - 1] = r /\ n + 1 \in Body(Lines)
        /\ MeaningOf(Lines[n + 1]) = Means /\ Lines[n + 1] = Line
    BY <1>3, <1>4, <1>5 DEF Means
  <2>2. Line # <<>> => Documented(Means) /\ Clear(Means, r.env)
    <3>1. \A k \in Body(Lines) :
            Lines[k] # <<>> =>
              /\ Documented(MeaningOf(Lines[k]))
              /\ \/ Results(Lines)[k - 1].halted
                 \/ Clear(MeaningOf(Lines[k]), Results(Lines)[k - 1].env)
      BY Zenon DEF Proper, Lines
    <3>. QED BY <1>6, <2>1, <3>1
  <2>3. Line = <<>> => Means = None
    BY DEF Means, MeaningOf, None
  <2>4. IsPlain(Means, r.env)
    BY <2>2, <2>3 DEF IsPlain
  <2>. QED BY <1>6, <1>7, <2>4, StatementAgrees DEF StateOK
<1>10. Lines' = Lines
  BY <1>1 DEF Lines
<1>11. Agrees(Results(Lines)[n + 1])'
  BY <1>8, <1>9, <1>10
<1>12. in_program' = (in_program \/ Means.op = "begin")
  BY <1>1, Zenon
<1>. QED BY <1>1, <1>2, <1>11, <1>12, RunGoesOn

\* Where a run stops, all that was promised is printed.
LEMMA FinishOK ==
  ASSUME StateOK, RunInv, Proper(typed), Finish
  PROVE  RunInv'
<1>1. /\ phase = "run" /\ phase' = "key" /\ in_program' = FALSE
      /\ ~AtLine \/ (in_program /\ Means.op = "end")
      /\ UNCHANGED <<ed, typed, out>>
  BY DEF Finish, editing
<1>2. PICK n : /\ Reached(typed, pos, n) /\ in_program = Begun(Lines, n)
               /\ NotEnded(Lines, n) /\ Agrees(Results(Lines)[n])
  BY <1>1 DEF RunInv, RunsAlong
<1>3. /\ typed \in Row /\ Len(typed) = ed.pos /\ pos \in 0 .. ed.pos /\ ed.pos \in Nat
  BY DEF StateOK, Holds, Row, Closed, Editors
<1>4. /\ Lines \in Seq(Row) /\ n \in 0 .. Len(Lines)
      /\ pos = Len(typed) => n = Len(Lines)
  BY <1>2, <1>3, AllLinesAre, ReachedIs DEF Lines
<1>5. out = Results(Lines)[n].out /\ error_flag = Results(Lines)[n].halted
  BY <1>2, Zenon DEF Agrees
<1>6. Results(Lines)[Len(Lines)] = Results(Lines)[n]
  <2>1. CASE error_flag
    <3>1. Results(Lines)[n].halted
      BY <1>5, <2>1, Zenon
    <3>. QED BY <1>4, <3>1, ResultsStay
  <2>2. CASE ~error_flag /\ ~AtLine
    <3>1. pos = Len(typed)
      BY <1>1, <1>3, <2>2 DEF AtLine
    <3>. QED BY <1>4, <3>1
  <2>3. CASE AtLine /\ in_program /\ Means.op = "end"
    <3>1. n \in Nat /\ n + 1 \in 1 .. Len(Lines) /\ Op(Lines, n + 1) = "end"
      BY <1>2, <2>3, NextIs
    <3>3. \A k \in n + 1 .. Len(Lines) : k \notin Body(Lines)
      BY <1>4, <3>1, BodyIs
    <3>. QED BY <1>4, <3>3, ResultsStay
  <2>. QED BY <1>1, <2>1, <2>2, <2>3
<1>7. out = Promised(typed)
  BY <1>5, <1>6 DEF Promised, Lines
<1>8. out' = Promised(typed)'
  BY <1>1, <1>7
<1>. QED BY <1>1, <1>8 DEF RunInv, KeepsItsPromise

\* Nothing is promised of the other programs.
LEMMA ImproperRuns ==
  ASSUME StateOK, RunInv, ~Proper(typed), Step
  PROVE  RunInv'
<1>1. phase = "run" /\ phase' \in {"run", "key"} /\ UNCHANGED <<ed, typed>>
  BY DEF Step, Before, Behold, ThouShalt, WoeUnto, MissingThen, Nothing, Finish,
     Executes, AtLine, Advance, editing
<1>2. phase' # "run" => in_program' = FALSE
  BY DEF Step, Before, Behold, ThouShalt, WoeUnto, MissingThen, Nothing, Finish,
     Executes, AtLine, Advance, editing
<1>3. ~Proper(typed)'
  BY <1>1
<1>. QED BY <1>1, <1>2, <1>3, Zenon DEF RunInv, KeepsItsPromise

LEMMA RunStep == StateOK /\ RunInv /\ [Next]_wog => RunInv'
<1>. SUFFICES ASSUME StateOK, RunInv, [Next]_wog
              PROVE  RunInv'
  OBVIOUS
<1>1. ASSUME phase \in {"edit", "closed"}, phase' \in {"edit", "closed"},
             UNCHANGED <<in_program, out>>
      PROVE  RunInv'
  BY <1>1 DEF RunInv, KeepsItsPromise
<1>2. ASSUME NEW c \in EditorChar, Character(c)
      PROVE  RunInv'
  BY <1>1, <1>2 DEF Character
<1>3. CASE Backspace \/ Exit \/ wog_run
  BY <1>1, <1>3 DEF Backspace, Exit, wog_run
<1>4. CASE Run
  BY <1>4, RunStarts
<1>5. CASE Step
  <2>1. CASE Proper(typed)
    BY <1>5, <2>1, BeforeOK, StatementsOK, FinishOK DEF Step, Statements
  <2>2. CASE ~Proper(typed)
    BY <1>5, <2>2, ImproperRuns
  <2>. QED BY <2>1, <2>2
<1>6. CASE AnyKey
  BY <1>6 DEF AnyKey, RunInv, KeepsItsPromise
<1>7. CASE UNCHANGED wog
  <2>1. UNCHANGED <<phase, ed, typed, pos, in_program, vars, error_flag, out>>
    BY <1>7 DEF wog
  <2>2. Lines' = Lines
    BY <2>1 DEF Lines
  <2>3. ASSUME RunsAlong PROVE RunsAlong'
    <3>1. PICK n : /\ Reached(typed, pos, n) /\ in_program = Begun(Lines, n)
                   /\ NotEnded(Lines, n) /\ Agrees(Results(Lines)[n])
      BY <2>3 DEF RunsAlong
    <3>2. PICK q : q = Results(Lines)[n]
      OBVIOUS
    <3>3. Agrees(q)'
      <4>1. Agrees(q)
        BY <3>1, <3>2
      <4>2. Holding(q.env)'
        BY <2>1, <4>1 DEF Agrees, Holding, Known
      <4>. QED BY <2>1, <4>1, <4>2 DEF Agrees
    <3>4. Agrees(Results(Lines)[n])'
      BY <2>2, <3>2, <3>3
    <3>5. (in_program = Begun(Lines, n))'
      BY <2>1, <2>2, <3>1
    <3>6. Reached(typed, pos, n)' /\ NotEnded(Lines, n)'
      BY <2>1, <2>2, <3>1
    <3>. QED BY <3>4, <3>5, <3>6 DEF RunsAlong
  <2>4. Promised(typed)' = Promised(typed)
    BY <2>1
  <2>. QED BY <2>1, <2>3, <2>4 DEF RunInv, KeepsItsPromise
<1>. QED BY <1>2, <1>3, <1>4, <1>5, <1>6, <1>7 DEF Next

\* For arrays, lines, tables and proper programs of every size: a run that is
\* over printed what WOG.MD says of its text, whatever was typed, deleted and
\* run before it in this array.
THEOREM PromiseKept == Spec => []KeepsItsPromise
<1>1. Init => StateOK /\ RunInv
  BY StateInit, RunInit
<1>2. StateOK /\ RunInv /\ [Next]_wog => StateOK' /\ RunInv'
  BY StateStep, RunStep
<1>3. RunInv => KeepsItsPromise
  BY DEF RunInv
<1>. QED BY <1>1, <1>2, <1>3, PTL DEF Spec

-----------------------------------------------------------------------------
(* Programs that end.                                                      *)

(* Every step of a run takes it further in the text or ends it, also the   *)
(* steps that report an error or find the table full (run_program,         *)
(* wog.c): no line is executed twice.  With a text that is finite this is  *)
(* what Ends needs of the steps; that they are taken is fairness.          *)
GoesThrough == [][Step => phase' = "key" \/ (phase' = "run" /\ pos' > pos)]_wog

THEOREM NoLineTwice == Spec => GoesThrough
<1>1. ASSUME StateOK, Step
      PROVE  phase' = "key" \/ (phase' = "run" /\ pos' > pos)
  <2>. USE <1>1
  <2>1. ASSUME AtLine, pos' = NextLine(ed, pos)
        PROVE  pos' > pos
    <3>1. Closed(ed) /\ pos \in 0 .. ed.pos /\ pos < ed.pos /\ ed.pos \in Nat
      BY <2>1 DEF AtLine, StateOK, Holds, Closed, Editors
    <3>2. pos < NextLine(ed, pos) /\ NextLine(ed, pos) \in pos .. ed.pos
      BY <3>1, NextLineIs
    <3>. QED BY <2>1, <3>1, <3>2
  <2>2. CASE Before
    BY <2>1, <2>2 DEF Before, AtLine
  <2>3. CASE Finish
    BY <2>3 DEF Finish
  <2>4. CASE Behold \/ ThouShalt \/ WoeUnto \/ MissingThen \/ Nothing
    <3>1. AtLine /\ Advance
      BY <2>4, Zenon DEF Behold, ThouShalt, WoeUnto, MissingThen, Nothing, Executes
    <3>. QED BY <2>1, <3>1 DEF Advance, AtLine
  <2>. QED BY <2>2, <2>3, <2>4 DEF Step
<1>2. StateOK /\ [Next]_wog
        => [Step => phase' = "key" \/ (phase' = "run" /\ pos' > pos)]_wog
  BY <1>1
<1>. QED BY <1>2, StateSound, PTL DEF Spec, GoesThrough
=============================================================================

------------------------------- MODULE QBasic -------------------------------
(***************************************************************************)
(* The QBASIC interpreter of src/kernel/apps/qbasic.c, from Ctrl+R to      *)
(* "Press any key".                                                        *)
(*                                                                         *)
(* The program text is a sequence of parsed lines.  A code position of the *)
(* source is the index of its line: the interpreter only ever jumps to     *)
(* places from which the rest of one line is executed.  The one position   *)
(* whose value matters is 0, which find_line_by_number and find_label also *)
(* return for "not found".                                                 *)
(***************************************************************************)
EXTENDS Integers, Sequences

CONSTANTS
  Name,            \* variable names, and words that PRINT takes for one
  Text,            \* string contents
  Label,           \* labels that find_label can find, NoLabel among them
  NoLabel,
  Program,         \* the programs typed into the editor
  Reply,           \* the lines typed at an INPUT prompt
  FirstBytes,      \* [Text -> Int32], a string's first four bytes as an int32_t
  MAX_LINES,       \* entries of the line map, 100 in the source
  MAX_VARS,        \* entries of the variable table, 50 in the source
  MAX_FOR_STACK,   \* entries of the FOR stack, 10 in the source
  INT_MAX,         \* the largest int32_t
  MaxOut           \* how many printed lines the history variable out keeps

INT_MIN == -INT_MAX - 1
Int32 == INT_MIN .. INT_MAX

NoNumber == -1

(* What the parsing of a line yields.  An operand keeps its characters and *)
(* what parse_int makes of them, which is 0 for a name or a quoted string. *)
Operand == [quoted : BOOLEAN, text : Text, int : Int32]

\* "stop" is an '=' or ':' outside quotes, which extract_token never consumes.
Item == [kind : {"text"}, text : Text]
        \union [kind : {"tab", "stop"}]
        \union [kind : {"word"}, word : Name, number : BOOLEAN, int : Int32]

\* "rem" stands for everything execute_line does nothing for: empty lines,
\* comments, unknown commands, a missing ELSE part.
Simple == [op : {"rem", "next"}]
          \union [op : {"print"}, items : Seq(Item)]
          \union [op : {"let"}, var : Name, operand : Operand]
          \union [op : {"input"}, names : Seq(Name)]
          \union [op : {"goto"}, numbered : {TRUE}, number : Int32]
          \union [op : {"goto"}, numbered : {FALSE}, label : Label]
          \union [op : {"for"}, var : Name, from : Int32, to : Int32]

If(S) == [op : {"if"}, var : Name, rel : {"=", "<=", ">=", "<>", "<", ">", "?"},
          int : Int32, then : S, else : S]

Statement == Simple \union If(Simple) \union If(If(Simple))

\* colon: the first ':' of the line is followed by a blank or ends the line.
Line == [num : {NoNumber} \union Nat, indented : BOOLEAN, label : Label,
         colon : BOOLEAN, stmt : Statement]

ASSUME QBasicAssumption ==
  /\ INT_MAX \in Nat \ {0}
  /\ MAX_LINES \in Nat \ {0}
  /\ MAX_VARS \in Nat \ {0}
  /\ MAX_FOR_STACK \in Nat \ {0}
  /\ MaxOut \in Nat
  /\ NoLabel \in Label
  /\ FirstBytes \in [Text -> Int32]
  /\ Program \subseteq Seq(Line)
  /\ Reply \subseteq [number : BOOLEAN, text : Text, int : Int32]

VARIABLES
  phase,      \* "edit", "run", "input", "hung" or "key"
  code,       \* qb.code, the lines of the program that runs or ran last
  exec_pos,   \* the line to execute, Len(code) + 1 at the end
  vars,       \* qb.vars[0 .. var_count - 1]
  for_stack,  \* qb.for_stack[0 .. for_depth - 1]
  asked,      \* the names INPUT still has to read
  wild,       \* whether this run stored through the NULL of a full table
  out         \* the first MaxOut lines printed by this run

qb == <<phase, code, exec_pos, vars, for_stack, asked, wild, out>>

-----------------------------------------------------------------------------
(* The variable table.                                                     *)

\* The union of a variable holds what was stored last, whatever its type.
IntRaw(n) == [as |-> "int", int |-> n]
StrRaw(s) == [as |-> "str", str |-> s]

Raw == [as : {"int"}, int : Int32] \union [as : {"str"}, str : Text]

Type == {"INT", "STR"}

Variable == [name : Name, type : Type, raw : Raw]

\* Mutant: the type of the variable is not looked at.
StoredUntyped(type, int, text) == StrRaw(text)

\* What a variable of this type holds once a number or a text is stored in it.
Stored(type, int, text) == IF type = "INT" THEN IntRaw(int) ELSE StrRaw(text)

\* Mutant: a store gives the variable the type of what is stored.
HoldingRetyped(v, raw) ==
  [name |-> v.name, type |-> IF raw.as = "int" THEN "INT" ELSE "STR", raw |-> raw]

Holding(v, raw) == [name |-> v.name, type |-> v.type, raw |-> raw]

AsInt(raw) == IF raw.as = "int" THEN raw.int ELSE FirstBytes[raw.str]

Known(name) == \E i \in DOMAIN vars : vars[i].name = name

find_var(name) ==
  CHOOSE i \in DOMAIN vars :
    /\ vars[i].name = name
    /\ \A j \in DOMAIN vars : vars[j].name = name => i <= j

\* find_var, create_var if there is none, and the store through the result,
\* which is NULL when the table is full.  value gives the raw value by type.
Store(name, type, value) ==
  IF Known(name) THEN
    /\ vars' = [vars EXCEPT ![find_var(name)] = Holding(@, value[@.type])]
    /\ UNCHANGED wild
  ELSE IF Len(vars) < MAX_VARS THEN
    /\ vars' = Append(vars, [name |-> name, type |-> type, raw |-> value[type]])
    /\ UNCHANGED wild
  ELSE
    /\ wild' = TRUE
    /\ UNCHANGED vars

-----------------------------------------------------------------------------
(* Looking up the target of a jump: 0 is "not found".                      *)

FirstOf(S) == CHOOSE i \in S : \A j \in S : i <= j

\* parse_line_map numbers an unnumbered line by its index in the map.
LineNumber(i) == IF code[i].num = NoNumber THEN i - 1 ELSE code[i].num

find_line_by_number(n) ==
  LET found == {i \in DOMAIN code : i <= MAX_LINES /\ LineNumber(i) = n}
      i == FirstOf(found)
  IN  IF found = {} \/ (i = 1 /\ ~code[1].indented) THEN 0 ELSE i

\* The position of a label is behind the line number.
find_label(label) ==
  LET found == {i \in DOMAIN code : code[i].label = label}
      i == FirstOf(found)
  IN  IF found = {} \/ (i = 1 /\ ~code[1].indented /\ code[1].num = NoNumber)
      THEN 0 ELSE i

Target(s) ==
  IF s.numbered THEN find_line_by_number(s.number) ELSE find_label(s.label)

-----------------------------------------------------------------------------
(* Conditions and printing.                                                *)

Compare(rel, a, b) ==
  CASE rel = "="  -> a = b
    [] rel = "<=" -> a <= b
    [] rel = ">=" -> a >= b
    [] rel = "<>" -> a # b
    [] rel = "<"  -> a < b
    [] rel = ">"  -> a > b
    [] rel = "?"  -> FALSE

eval_condition(s) ==
  /\ Known(s.var)
  /\ LET v == vars[find_var(s.var)]
     IN  v.type = "INT" /\ Compare(s.rel, v.raw.int, s.int)

\* The part of an IF that is executed, and the statement this comes down to.
Branch(s) ==
  IF s.op # "if" THEN s ELSE IF eval_condition(s) THEN s.then ELSE s.else

Selected(s) == Branch(Branch(s))

\* int_to_str negates a negative number first, and INT_MIN stays negative.
Digits(n) == IF n = INT_MIN THEN [as |-> "str", str |-> "-"]
                            ELSE [as |-> "int", int |-> n]

Shown(item) ==
  CASE item.kind = "text" -> [as |-> "str", str |-> item.text]
    [] item.kind = "tab"  -> [as |-> "str", str |-> "    "]
    [] item.kind = "word" ->
         IF Known(item.word) THEN
           LET v == vars[find_var(item.word)]
           IN  IF v.type = "INT" THEN Digits(v.raw.int)
               ELSE IF v.raw.as = "str" THEN v.raw
               ELSE [as |-> "bytes", int |-> v.raw.int]
         ELSE IF item.number THEN Digits(item.int)
         ELSE [as |-> "str", str |-> "?"]

Printed(items) == [i \in DOMAIN items |-> Shown(items[i])]

NeverEnds(items) == \E i \in DOMAIN items : items[i].kind = "stop"

-----------------------------------------------------------------------------
(* The loop of run_program, one line at a time.                            *)

AtLine == phase = "run" /\ exec_pos <= Len(code)

Top == code[exec_pos].stmt

\* The statement at exec_pos, the branches of an IF already taken.
Executes(op) ==
  AtLine /\ ~code[exec_pos].colon /\ Selected(Top).op = op

\* Mutant: the last line has no newline behind it and is not moved past.
AdvancePastNewline == exec_pos' = IF exec_pos < Len(code) THEN exec_pos + 1 ELSE exec_pos

\* execute_line returned 1.
Advance == exec_pos' = exec_pos + 1

\* GOTO and NEXT return 0 and leave the position to exec_pos, but the IF they
\* are part of returns 1, and run_program then moves on to the next line.
JumpOr(moved) == exec_pos' = IF Top.op = "if" THEN exec_pos + 1 ELSE moved

\* Where qb.exec_pos stands while the line is executed: run_program has moved it
\* already if the first word of the line is FOR.
Position == IF Top.op = "for" THEN exec_pos + 1 ELSE exec_pos

\* Mutant: the saved position is used instead of the next line's.
StartAtFor(stack) ==
  IF Top.op = "for" /\ stack # <<>>
  THEN [stack EXCEPT ![Len(stack)] = [var |-> @.var, to |-> @.to,
                                      start |-> exec_pos, depth |-> @.depth]]
  ELSE stack

\* What run_program does to the stack after a line whose first word is FOR.
StartAfter(stack) ==
  IF Top.op = "for" /\ stack # <<>>
  THEN [stack EXCEPT ![Len(stack)] = [var |-> @.var, to |-> @.to,
                                      start |-> exec_pos + 1, depth |-> @.depth]]
  ELSE stack

\* A line taken for a label only: nothing on it is executed.
SkipLabel ==
  /\ AtLine
  /\ code[exec_pos].colon
  /\ for_stack' = StartAfter(for_stack)
  /\ Advance
  /\ UNCHANGED <<phase, code, vars, asked, wild, out>>

Rem ==
  /\ Executes("rem")
  /\ Advance
  /\ UNCHANGED <<phase, code, vars, for_stack, asked, wild, out>>

PrintItems ==
  LET items == Selected(Top).items
  IN  /\ Executes("print")
      /\ IF NeverEnds(items)
         THEN phase' = "hung" /\ UNCHANGED <<exec_pos, out>>
         ELSE /\ Advance
              /\ out' = IF Len(out) < MaxOut THEN Append(out, Printed(items)) ELSE out
              /\ UNCHANGED phase
      /\ UNCHANGED <<code, vars, for_stack, asked, wild>>

Let ==
  LET s == Selected(Top)
      value == [t \in Type |-> Stored(t, s.operand.int, s.operand.text)]
  IN  /\ Executes("let")
      /\ Store(s.var, IF s.operand.quoted THEN "STR" ELSE "INT", value)
      /\ Advance
      /\ UNCHANGED <<phase, code, for_stack, asked, out>>

\* INPUT blocks in read_input_line for each of its variables.
Input ==
  /\ Executes("input")
  /\ IF Selected(Top).names = <<>>
     THEN Advance /\ UNCHANGED <<phase, asked>>
     ELSE /\ phase' = "input"
          /\ asked' = Selected(Top).names
          /\ UNCHANGED exec_pos
  /\ UNCHANGED <<code, vars, for_stack, wild, out>>

Answer(reply) ==
  LET value == [t \in Type |-> Stored(t, reply.int, reply.text)]
  IN  /\ phase = "input"
      /\ Store(Head(asked), IF reply.number THEN "INT" ELSE "STR", value)
      /\ asked' = Tail(asked)
      /\ IF Tail(asked) = <<>>
         THEN Advance /\ phase' = "run"
         ELSE UNCHANGED <<exec_pos, phase>>
      /\ UNCHANGED <<code, for_stack, out>>

Goto ==
  LET target == Target(Selected(Top))
  IN  /\ Executes("goto")
      /\ JumpOr(IF target > 0 THEN target ELSE exec_pos)
      /\ UNCHANGED <<phase, code, vars, for_stack, asked, wild, out>>

\* Mutant: the check against MAX_FOR_STACK is missing.
PushUnchecked(loop) == Append(for_stack, loop)

Push(loop) ==
  IF Len(for_stack) < MAX_FOR_STACK THEN Append(for_stack, loop) ELSE for_stack

\* The loop variable is stored as an integer even if it is a STR variable.
For ==
  LET s == Selected(Top)
      value == [t \in Type |-> IntRaw(s.from)]
      loop == [var |-> s.var, to |-> s.to, start |-> Position,
               depth |-> Len(for_stack)]
  IN  /\ Executes("for")
      /\ Store(s.var, "INT", value)
      /\ for_stack' = StartAfter(Push(loop))
      /\ Advance
      /\ UNCHANGED <<phase, code, asked, out>>

Plus1(n) == IF n = INT_MAX THEN INT_MIN ELSE n + 1

\* Mutant: < for <=.
GoesOnBelow(count, loop) == count < loop.to

GoesOn(count, loop) == count <= loop.to

\* Mutant: the outermost loop is popped.
PoppedOutermost == Tail(for_stack)

Popped == SubSeq(for_stack, 1, Len(for_stack) - 1)

NextLoop ==
  LET top == for_stack[Len(for_stack)]
      count == Plus1(AsInt(vars[find_var(top.var)].raw))
  IN  /\ Executes("next")
      /\ IF for_stack = <<>> \/ ~Known(top.var) THEN
           JumpOr(exec_pos) /\ UNCHANGED <<vars, for_stack>>
         ELSE
           /\ vars' = [vars EXCEPT ![find_var(top.var)] = Holding(@, IntRaw(count))]
           /\ IF GoesOn(count, top)
              THEN JumpOr(top.start) /\ UNCHANGED for_stack
              ELSE /\ JumpOr(exec_pos)
                   /\ for_stack' = Popped
      /\ UNCHANGED <<phase, code, asked, wild, out>>

-----------------------------------------------------------------------------
(* The editor around a run.                                                *)

\* Mutant: run_program does not reset for_depth.
RunKeepsLoops(program) ==
  /\ phase = "edit"
  /\ phase' = "run"
  /\ code' = program
  /\ exec_pos' = 1
  /\ vars' = <<>>
  /\ asked' = <<>>
  /\ wild' = FALSE
  /\ out' = <<>>
  /\ UNCHANGED for_stack

Run(program) ==
  /\ phase = "edit"
  /\ phase' = "run"
  /\ code' = program
  /\ exec_pos' = 1
  /\ vars' = <<>>
  /\ for_stack' = <<>>
  /\ asked' = <<>>
  /\ wild' = FALSE
  /\ out' = <<>>

Finish ==
  /\ phase = "run"
  /\ exec_pos > Len(code)
  /\ phase' = "key"
  /\ UNCHANGED <<code, exec_pos, vars, for_stack, asked, wild, out>>

AnyKey ==
  /\ phase = "key"
  /\ phase' = "edit"
  /\ UNCHANGED <<code, exec_pos, vars, for_stack, asked, wild, out>>

Init ==
  /\ phase = "edit"
  /\ code = <<>>
  /\ exec_pos = 1
  /\ vars = <<>>
  /\ for_stack = <<>>
  /\ asked = <<>>
  /\ wild = FALSE
  /\ out = <<>>

Step ==
  SkipLabel \/ Rem \/ PrintItems \/ Let \/ Input \/ Goto \/ For \/ NextLoop \/ Finish

Next ==
  \/ \E program \in Program : Run(program)
  \/ Step
  \/ \E reply \in Reply : Answer(reply)
  \/ AnyKey

\* The processor executes run_program; the user owes it nothing.
Spec == Init /\ [][Next]_qb /\ WF_qb(Step)

-----------------------------------------------------------------------------
(* Every variable has its type, and the tables never outgrow their arrays. *)
ForLoop == [var : Name, to : Int32, start : Nat \ {0}, depth : Nat]

\* "-", four blanks and "?" are what the interpreter prints of its own accord.
PrintedItem == [as : {"str"}, str : Text \union {"-", "    ", "?"}]
               \union [as : {"int", "bytes"}, int : Int32]

TypeOK ==
  /\ phase \in {"edit", "run", "input", "hung", "key"}
  /\ code \in Seq(Line)
  /\ exec_pos \in 1 .. Len(code) + 1
  /\ vars \in Seq(Variable) /\ Len(vars) <= MAX_VARS
  /\ for_stack \in Seq(ForLoop) /\ Len(for_stack) <= MAX_FOR_STACK
  /\ asked \in Seq(Name)
  /\ (phase = "input") = (asked # <<>>)
  /\ phase \in {"input", "hung"} => exec_pos <= Len(code)
  /\ wild \in BOOLEAN
  /\ out \in Seq(Seq(PrintedItem)) /\ Len(out) <= MaxOut

(* The variable table is sound: no name has two entries, an INT variable   *)
(* never holds the bytes of a string, whichever statement stored last, and *)
(* only a full table loses a store.                                        *)
VarsSound ==
  /\ \A i, j \in DOMAIN vars : vars[i].name = vars[j].name => i = j
  /\ \A i \in DOMAIN vars : vars[i].type = "INT" => vars[i].raw.as = "int"
  /\ wild => Len(vars) = MAX_VARS

(* Every record on the FOR stack can be used by NEXT: its depth is its     *)
(* index, it resumes inside the program or at its end, and its variable is *)
(* in the table unless the table was full.                                 *)
LoopsSound ==
  \A i \in DOMAIN for_stack :
    /\ for_stack[i].depth = i - 1
    /\ for_stack[i].start <= Len(code) + 1
    /\ Known(for_stack[i].var) \/ wild

(* Within a run a variable keeps its place and its type: the table only    *)
(* grows at its end.                                                       *)
VarsKeepType ==
  [][phase # "edit" =>
       /\ Len(vars) <= Len(vars')
       /\ \A i \in DOMAIN vars : /\ vars'[i].name = vars[i].name
                                 /\ vars'[i].type = vars[i].type]_qb

\* A statement with all that it may come down to.
Arms(s) == IF s.op = "if" THEN {s.then, s.else} ELSE {}

Parts(s) == {s} \union Arms(s) \union UNION {Arms(t) : t \in Arms(s)}

(* A program whose GOTOs, those in IFs included, all find a later line, and *)
(* which has no NEXT and no PRINT with an '=' or ':' outside quotes, ends  *)
(* or asks for input: nothing else can make the interpreter loop.          *)
Harmless(i) ==
  \A s \in Parts(code[i].stmt) :
    /\ s.op # "next"
    /\ s.op = "goto" => Target(s) > i
    /\ s.op = "print" => ~NeverEnds(s.items)

Forward == \A i \in DOMAIN code : code[i].colon \/ Harmless(i)

Terminates == (phase = "run" /\ Forward) ~> phase \in {"key", "input"}

(* FOR i = a TO b, PRINT i, NEXT prints a, a+1, .. b in this order, and a  *)
(* alone if b is not larger: the counter, the comparison and the jump back *)
(* agree.  The counter wraps behind INT_MAX, which neither a nor b may be. *)
(* What happens behind NEXT is another matter.                             *)
Counting ==
  /\ Len(code) >= 3
  /\ \A i \in 1 .. 3 : ~code[i].colon
  /\ code[1].stmt.op = "for" /\ code[3].stmt.op = "next"
  /\ code[1].stmt.from < INT_MAX /\ code[1].stmt.to < INT_MAX
  /\ code[2].stmt.op = "print"
  /\ code[2].stmt.items = <<[kind |-> "word", word |-> code[1].stmt.var,
                             number |-> FALSE, int |-> 0]>>

Counted ==
  /\ Counting
  /\ LET s == code[1].stmt
         last == IF s.to > s.from THEN s.to ELSE s.from
     IN  out = [n \in 1 .. last - s.from + 1 |-> <<Digits(s.from + n - 1)>>]

CountsThrough == (phase = "run" /\ Counting) ~> Counted

(* Nor does such a program ever print anything else: what has been printed *)
(* is at all times the beginning of that count.                            *)
CountsInOrder ==
  Counting =>
    LET s == code[1].stmt
        last == IF s.to > s.from THEN s.to ELSE s.from
    IN  /\ Len(out) <= last - s.from + 1
        /\ out = [n \in 1 .. Len(out) |-> <<Digits(s.from + n - 1)>>]

-----------------------------------------------------------------------------
(* What the comments and documents say of jumps, loops and limits.         *)

(* When a loop is done, NEXT pops the FOR stack and execution continues    *)
(* past NEXT (comment at qbasic.c:469, example at README.MD:190-193).      *)
ContinuesPastNext ==
  [][Executes("next") /\ Len(for_stack') < Len(for_stack)
       => exec_pos' = exec_pos + 1]_qb

(* A GOTO that finds its target makes the program go on there, also when   *)
(* it is the action of an IF (comment at qbasic.c:506).                    *)
GotoIsTaken ==
  [][Executes("goto") /\ Target(Selected(Top)) > 0
       => exec_pos' = Target(Selected(Top))]_qb
=============================================================================

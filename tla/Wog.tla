-------------------------------- MODULE Wog ---------------------------------
(***************************************************************************)
(* The WOG interpreter of src/kernel/apps/wog.c: its editor, and the run   *)
(* of a program line by line, without jumps.                               *)
(*                                                                         *)
(* What a line means is a constant: the splitting of a statement into its  *)
(* words is left out, all that is done with the words is here.             *)
(***************************************************************************)
EXTENDS Editor, FiniteSets

CONSTANTS
  Name,       \* the words that stand for variables
  Text,       \* string contents, messages and literals
  INT_MAX,    \* the largest int32_t
  MAX_VARS,   \* entries of the variable table, 128 in the source
  Meaning     \* [the lines that mean something -> Statement]

INT_MIN == -INT_MAX - 1
Int32 == INT_MIN .. INT_MAX

(* Statements.  "begin" and "end" are AND GOD SAID and AND IT CAME TO PASS.*)
(* A word that BEHOLD prints may be a number, which is printed as typed.   *)
(* The value of THOU SHALT is a number (VERILY is 1) or all the rest of    *)
(* the line, taken for one name.  "none" is what nothing is done for:      *)
(* empty lines, comments, and unknown commands, LET THERE BE among them.   *)
Simple == [op : {"begin", "end", "none"}]
          \union [op : {"behold"}, quoted : {TRUE}, text : Text]
          \union [op : {"behold"}, quoted : {FALSE}, word : Name,
                  number : BOOLEAN, text : Text]
          \union [op : {"shalt"}, var : Name, value : [int : Int32]]
          \union [op : {"shalt"}, var : Name, value : [word : Name]]
          \union [op : {"woe"}, text : Text]

If(S) == [op : {"if"}, then : BOOLEAN, var : Name,
          rel : {"=", "<>", "<=", ">=", "<", ">", "?"}, int : Int32, stmt : S]

Statement == Simple \union If(Simple) \union If(If(Simple))

ASSUME WogAssumption ==
  /\ INT_MAX \in Nat \ {0}
  /\ MAX_VARS \in Nat \ {0}
  /\ \A t \in DOMAIN Meaning :
       t \in Seq(Printable) /\ t # <<>> /\ Meaning[t] \in Statement

VARIABLES
  phase,        \* "edit", "run", "key" or "closed"
  ed,           \* editor_buf and editor_pos
  typed,        \* what was typed and not deleted
  pos,          \* run_program's place in the text
  in_program,
  vars,         \* wog.vars[0 .. var_count - 1]
  error_flag,
  out           \* what this run printed

editing == <<ed, typed>>
wog == <<phase, ed, typed, pos, in_program, vars, error_flag, out>>

-----------------------------------------------------------------------------
(* Variables and values.                                                   *)

\* LET THERE BE is never executed, so all variables are of type VAR_INT.
Variable == [name : Name, int : Int32]

Known(name) == \E i \in DOMAIN vars : vars[i].name = name

find_var(name) ==
  CHOOSE i \in DOMAIN vars :
    /\ vars[i].name = name
    /\ \A j \in DOMAIN vars : vars[j].name = name => i <= j

ValueOf(name) == IF Known(name) THEN vars[find_var(name)].int ELSE 0

eval_value(value) ==
  IF "int" \in DOMAIN value THEN value.int ELSE ValueOf(value.word)

Compare(rel, a, b) ==
  CASE rel = "="  -> a = b
    [] rel = "<>" -> a # b
    [] rel = "<=" -> a <= b
    [] rel = ">=" -> a >= b
    [] rel = "<"  -> a < b
    [] rel = ">"  -> a > b
    [] rel = "?"  -> FALSE

eval_condition(s) == Known(s.var) /\ Compare(s.rel, ValueOf(s.var), s.int)

\* What an IF comes down to; a missing THEN is noticed before the condition.
Branch(s) ==
  IF s.op # "if" \/ ~s.then THEN s
  ELSE IF eval_condition(s) THEN s.stmt ELSE [op |-> "none"]

Selected(s) == Branch(Branch(s))

-----------------------------------------------------------------------------
(* What is printed.                                                        *)

Number(n) == [int |-> n]
Words(t) == [text |-> t]
Report(t) == [woe |-> t]
WogError(m) == [error |-> m]

TableFull == WogError("Variable table full")
ThenMissing == WogError("IF missing THEN")

\* int_to_str negates a negative number first, and INT_MIN stays negative.
int_to_str(n) == IF n = INT_MIN THEN Words("-") ELSE Number(n)

Beheld(s) ==
  IF s.quoted THEN Words(s.text)
  ELSE IF Known(s.word) THEN int_to_str(ValueOf(s.word))
  ELSE IF s.number THEN Words(s.text)
  ELSE Words("")

-----------------------------------------------------------------------------
(* The loop of run_program, one line at a time.                            *)

AtLine == phase = "run" /\ pos < ed.pos /\ ~error_flag

Line == LineText(ed, pos)

MeaningOf(line) ==
  IF line \in DOMAIN Meaning THEN Meaning[line] ELSE [op |-> "none"]

Means == MeaningOf(Line)

\* The next line is in the program, and this is what it comes down to.
Executes(op) == AtLine /\ in_program /\ Selected(Means).op = op

Advance == pos' = NextLine(ed, pos) /\ UNCHANGED <<phase, editing, in_program>>

\* Outside the program only AND GOD SAID is looked for.
Before ==
  /\ AtLine
  /\ ~in_program
  /\ in_program' = (Means.op = "begin")
  /\ pos' = NextLine(ed, pos)
  /\ UNCHANGED <<phase, editing, vars, error_flag, out>>

Behold ==
  /\ Executes("behold")
  /\ out' = Append(out, Beheld(Selected(Means)))
  /\ Advance
  /\ UNCHANGED <<vars, error_flag>>

Stored(name, n) ==
  IF Known(name) THEN [vars EXCEPT ![find_var(name)].int = n]
  ELSE Append(vars, [name |-> name, int |-> n])

ThouShalt ==
  LET s == Selected(Means)
  IN  /\ Executes("shalt")
      /\ IF ~Known(s.var) /\ Len(vars) = MAX_VARS
         THEN /\ error_flag' = TRUE
              /\ out' = Append(out, TableFull)
              /\ UNCHANGED vars
         ELSE /\ vars' = Stored(s.var, eval_value(s.value))
              /\ UNCHANGED <<error_flag, out>>
      /\ Advance

WoeUnto ==
  /\ Executes("woe")
  /\ out' = Append(out, Report(Selected(Means).text))
  /\ error_flag' = TRUE
  /\ Advance
  /\ UNCHANGED vars

\* An IF is left over only when its THEN is missing.
MissingThen ==
  /\ Executes("if")
  /\ out' = Append(out, ThenMissing)
  /\ error_flag' = TRUE
  /\ Advance
  /\ UNCHANGED vars

\* A second AND GOD SAID is an unknown command, and so is either of the two
\* as the statement of an IF.
Nothing ==
  /\ \E op \in {"none", "begin", "end"} : Executes(op)
  /\ Means.op # "end"
  /\ Advance
  /\ UNCHANGED <<vars, error_flag, out>>

\* AND IT CAME TO PASS, the end of the text, or an error.
Finish ==
  /\ phase = "run"
  /\ ~AtLine \/ (in_program /\ Means.op = "end")
  /\ phase' = "key"
  /\ pos' = 0
  /\ in_program' = FALSE
  /\ UNCHANGED <<editing, vars, error_flag, out>>

Step == Before \/ Behold \/ ThouShalt \/ WoeUnto \/ MissingThen \/ Nothing \/ Finish

-----------------------------------------------------------------------------
(* The editor.                                                             *)

Character(c) ==
  /\ phase = "edit"
  /\ ed' = TypeInto(ed, c)
  /\ typed' = IF Len(typed) < MAX_CODE_LEN - 1 THEN Append(typed, c) ELSE typed
  /\ UNCHANGED <<phase, pos, in_program, vars, error_flag, out>>

Backspace ==
  /\ phase = "edit"
  /\ ed' = EraseFrom(ed)
  /\ typed' = IF typed = <<>> THEN typed ELSE SubSeq(typed, 1, Len(typed) - 1)
  /\ UNCHANGED <<phase, pos, in_program, vars, error_flag, out>>

\* Mutant: var_count is not reset.
NoVarsKept == vars

NoVars == <<>>

Run ==
  /\ phase = "edit"
  /\ phase' = "run"
  /\ vars' = NoVars
  /\ error_flag' = FALSE
  /\ UNCHANGED <<editing, pos, in_program, out>>

\* The key after the output: the editor draws over it.
AnyKey ==
  /\ phase = "key"
  /\ phase' = "edit"
  /\ out' = <<>>
  /\ UNCHANGED <<editing, pos, in_program, vars, error_flag>>

Exit ==
  /\ phase = "edit"
  /\ phase' = "closed"
  /\ UNCHANGED <<editing, pos, in_program, vars, error_flag, out>>

wog_run ==
  /\ phase = "closed"
  /\ phase' = "edit"
  /\ ed' = Opened(ed)
  /\ typed' = <<>>
  /\ UNCHANGED <<pos, in_program, vars, error_flag, out>>

Init ==
  /\ phase = "closed"
  /\ ed = Untouched
  /\ typed = <<>>
  /\ pos = 0
  /\ in_program = FALSE
  /\ vars = <<>>
  /\ error_flag = FALSE
  /\ out = <<>>

Next ==
  \/ \E c \in EditorChar : Character(c)
  \/ Backspace
  \/ Run
  \/ Step
  \/ AnyKey
  \/ Exit
  \/ wog_run

\* Once started, a program runs without waiting for anyone.
Spec == Init /\ [][Next]_wog /\ WF_wog(Step)

-----------------------------------------------------------------------------
(* The text fits into the editor with room for its NUL, the place of a run *)
(* stays in the text, and the variables are 32-bit numbers under names of  *)
(* their own, no more than the table holds.                                *)
TypeOK ==
  /\ phase \in {"edit", "run", "key", "closed"}
  /\ ed \in Editors
  /\ pos \in 0 .. ed.pos
  /\ in_program \in BOOLEAN
  /\ vars \in Seq(Variable) /\ Len(vars) <= MAX_VARS
  /\ \A i, j \in DOMAIN vars : vars[i].name = vars[j].name => i = j
  /\ error_flag \in BOOLEAN

(* The editor prints the first lines of what was typed and not deleted, a  *)
(* line that fills the line buffer continued as the next one, and nothing  *)
(* of the characters that deletions and earlier sessions leave in the      *)
(* array.                                                                  *)
ShowsWhatWasTyped ==
  phase = "edit" =>
    LET lines == LinesOf(typed)
    IN  Displayed(ed) = SubSeq(lines, 1, IF Len(lines) < SHOWN THEN Len(lines) ELSE SHOWN)

(* What WOG.MD says a program prints.  A variable that was not set is 0    *)
(* (WOG.MD:400), and an error is the last thing that happens.              *)
None == [op |-> "none"]

Held(env, name) == IF name \in DOMAIN env THEN env[name] ELSE 0

Does(s, env) ==
  IF s.op # "if" THEN s
  ELSE IF Compare(s.rel, Held(env, s.var), s.int) THEN s.stmt ELSE None

Meant(value, env) ==
  IF "int" \in DOMAIN value THEN value.int ELSE Held(env, value.word)

Shown(s, env) ==
  IF s.quoted \/ s.number THEN Words(s.text) ELSE Number(Held(env, s.word))

Halts(r, report) ==
  [env |-> r.env, out |-> Append(r.out, report), halted |-> TRUE]

After(r, line) ==
  LET s == Does(MeaningOf(line), r.env)
      names == DOMAIN r.env
  IN  CASE s.op = "behold" -> [r EXCEPT !.out = Append(@, Shown(s, r.env))]
        [] s.op = "woe" -> Halts(r, Report(s.text))
        [] s.op = "shalt" ->
             IF Cardinality(names \union {s.var}) > MAX_VARS
             THEN Halts(r, TableFull)
             ELSE [r EXCEPT !.env =
                    [n \in names \union {s.var} |->
                       IF n = s.var THEN Meant(s.value, r.env) ELSE r.env[n]]]
        [] OTHER -> r

At(lines, op) == {k \in DOMAIN lines : MeaningOf(lines[k]).op = op}

\* The statements are behind the first beginning and before the first end
\* (WOG.MD:61-69).
Body(lines) ==
  {k \in DOMAIN lines : /\ \E b \in At(lines, "begin") : b < k
                        /\ \A e \in At(lines, "end") : k < e}

Results(lines) ==
  LET r[k \in 0 .. Len(lines)] ==
        IF k = 0 THEN [env |-> [n \in {} |-> 0], out |-> <<>>, halted |-> FALSE]
        ELSE IF k \notin Body(lines) \/ r[k - 1].halted THEN r[k - 1]
        ELSE After(r[k - 1], lines[k])
  IN  r

Promised(text) == LET lines == LinesOf(text) IN Results(lines)[Len(lines)].out

(* Programs as WOG.MD wants them: no line is too long, there is an end     *)
(* (384) and none before the beginning (61-69), ...                        *)
Fits(text) ==
  \A i \in 1 .. Len(text) - MAX_LINE_LEN + 1 :
    \E j \in i .. i + MAX_LINE_LEN - 1 : text[j] = Newline

Bounded(lines) ==
  /\ At(lines, "end") # {}
  /\ \A e \in At(lines, "end") : \E b \in At(lines, "begin") : b < e

\* ... every statement is one of those described, with an IF in front of it
\* at most (5.1 to 5.5), ...
Documented(s) ==
  \/ s.op \in {"begin", "behold", "shalt", "woe"}
  \/ /\ s.op = "if" /\ s.then
     /\ s.rel \in {"=", "<>", "<", ">"}
     /\ s.stmt.op \in {"behold", "shalt", "woe"}

\* ... and what is executed looks at variables that were set, under no name
\* that is a number, and prints no INT_MIN.
Clear(s, env) ==
  LET d == Does(s, env)
  IN  /\ s.op = "if" => s.var \in DOMAIN env
      /\ d.op = "behold" /\ ~d.quoted =>
           IF d.number THEN d.word \notin DOMAIN env
           ELSE d.word \in DOMAIN env /\ env[d.word] # INT_MIN
      /\ d.op = "shalt" => "int" \in DOMAIN d.value \/ d.value.word \in DOMAIN env

Proper(text) ==
  LET lines == LinesOf(text)
      means(k) == MeaningOf(lines[k])
      so_far(k) == Results(lines)[k - 1]
  IN  /\ Fits(text)
      /\ Bounded(lines)
      /\ \A k \in Body(lines) :
           lines[k] # <<>> =>
             /\ Documented(means(k))
             /\ so_far(k).halted \/ Clear(means(k), so_far(k).env)

(* The run of a proper program prints what WOG.MD says: nothing else of    *)
(* the array, of the lines outside the boundaries, of the lines behind an  *)
(* error, or of the variables and errors of earlier runs has any effect.   *)
KeepsItsPromise == phase = "key" /\ Proper(typed) => out = Promised(typed)

(* "Missing AND IT CAME TO PASS -> Report error, don't execute"            *)
(* (WOG.MD:384): a run of such a text sets no variable and prints no more  *)
(* than errors.                                                            *)
RefusesOpenPrograms ==
  phase = "key" /\ At(LinesOf(typed), "end") = {}
    => vars = <<>> /\ \A i \in DOMAIN out : "error" \in DOMAIN out[i]

(* Every program ends (WOG.MD:53, "prevents infinite loops"), also after   *)
(* an error and with a full variable table, and the editor gets the        *)
(* machine back.                                                           *)
Ends == (phase = "run") ~> (phase = "key")
=============================================================================

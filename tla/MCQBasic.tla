------------------------------ MODULE MCQBasic ------------------------------
(* All programs of a few lines over small sets of lines.  Every set is a   *)
(* question of its own: see the configurations.                            *)
EXTENDS QBasic, FiniteSets

CONSTANTS Length, Lines

MCOf(lines, length) == UNION {[1 .. n -> lines] : n \in 0 .. length}

MCProgram == MCOf(Lines, Length)

Plain(stmt) == [num |-> NoNumber, indented |-> FALSE, label |-> NoLabel,
                colon |-> FALSE, stmt |-> stmt]
Numbered(n, line) == [line EXCEPT !.num = n]
Labelled(name) == [Plain([op |-> "rem"]) EXCEPT !.label = name, !.colon = TRUE]
Indented(line) == [line EXCEPT !.indented = TRUE]

Rest == [op |-> "rem"]
NextStmt == [op |-> "next"]
ForStmt(v, a, b) == [op |-> "for", var |-> v, from |-> a, to |-> b]
Word(v) == [kind |-> "word", word |-> v, number |-> FALSE, int |-> 0]
PrintStmt(v) == [op |-> "print", items |-> <<Word(v)>>]
LetInt(v, n) == [op |-> "let", var |-> v,
                 operand |-> [quoted |-> FALSE, text |-> "1", int |-> n]]
LetStr(v) == [op |-> "let", var |-> v,
              operand |-> [quoted |-> TRUE, text |-> "abcd", int |-> 0]]
InputStmt(v) == [op |-> "input", names |-> v]
GotoLine(n) == [op |-> "goto", numbered |-> TRUE, number |-> n]
GotoLabel(l) == [op |-> "goto", numbered |-> FALSE, label |-> l]
IfStmt(v, rel, n, s, t) ==
  [op |-> "if", var |-> v, rel |-> rel, int |-> n, then |-> s, else |-> t]

MCFirstBytes == [t \in Text |-> 3]
MCReply == {[number |-> TRUE, text |-> "1", int |-> 1],
            [number |-> FALSE, text |-> "abcd", int |-> 0]}

\* Everything at once: loops, jumps both ways, IFs with each kind of action,
\* one name used as a number and as a string, one name too many for the table.
AllLines ==
  {Plain(ForStmt("I", 1, 2)), Plain(NextStmt), Plain(PrintStmt("I")),
   Plain(LetStr("I")), Plain(GotoLabel("L")), Labelled("L"),
   Indented(Numbered(1, Plain(ForStmt("J", 2, 1)))), Plain(GotoLine(1)),
   Plain(IfStmt("I", ">=", 1, NextStmt, ForStmt("K", 1, 1))),
   Plain(InputStmt(<<"K", "I">>)), Plain(Rest)}

\* Loops nested as deep as the stack allows, with their variables reassigned
\* and printed in their bodies.
LoopLines ==
  {Plain(ForStmt("I", 1, 2)), Plain(ForStmt("J", 1, 2)), Plain(NextStmt),
   Plain(PrintStmt("I")), Plain(LetInt("I", 1)), Plain(Rest),
   Plain(IfStmt("J", "=", 2, LetInt("J", 2), PrintStmt("J")))}

\* Programs that end, left to run again: loops, pending or not, IFs that tell
\* an old value or an old loop from none.
AgainLines ==
  {Plain(ForStmt("I", 1, 2)), Plain(GotoLabel("L")), Labelled("L"),
   Plain(LetStr("I")), Plain(PrintStmt("I")),
   Plain(IfStmt("I", ">=", 2, PrintStmt("I"), NextStmt))}

\* A numbered program, its first line at the very start of the text, and the
\* actions of IFs that jump.
NumberedLines ==
  {Numbered(1, Plain(PrintStmt("I"))), Numbered(2, Plain(GotoLine(1))),
   Plain(IfStmt("I", "=", 0, GotoLine(1), GotoLine(2))), Plain(LetInt("I", 0))}

\* No more FORs than the FOR stack has entries.
MCNested ==
  {p \in MCOf(LoopLines, 5) :
     Cardinality({i \in DOMAIN p : p[i].stmt.op = "for"}) <= MAX_FOR_STACK}

\* Every loop of at most MaxOut rounds, at the ends of Int32 and empty ones too.
MCCounting ==
  {<<Plain(ForStmt("I", n, m)), Plain(PrintStmt("I")), Plain(NextStmt)>> :
     <<n, m>> \in {r \in Int32 \X Int32 : r[2] - r[1] < MaxOut}}
=============================================================================

---------------------------- MODULE QBasicAgain ----------------------------
(* The QBASIC interpreter with a history of the programs it ran to their   *)
(* end, in whichever order and however often, and of what they printed.    *)
EXTENDS QBasic

VARIABLES
  ended,    \* the pairs <<program, what it printed>>
  misaimed  \* whether a FOR of this run has changed another loop's record

AgainInit == Init /\ ended = {} /\ misaimed = FALSE

\* run_program corrects the topmost record whenever the first word of a line is
\* FOR.  It is another loop's if this FOR pushed none, because the stack is full
\* or because the line is taken for a label.
AimsAtAnother ==
  /\ AtLine
  /\ Top.op = "for"
  /\ for_stack # <<>>
  /\ code[exec_pos].colon \/ Len(for_stack) = MAX_FOR_STACK

Remember ==
  /\ ended' = IF phase = "run" /\ phase' = "key"
              THEN ended \union {<<code, out>>} ELSE ended
  /\ misaimed' = IF phase = "edit" THEN FALSE ELSE misaimed \/ AimsAtAnother

AgainNext == Next /\ Remember

again == <<qb, ended, misaimed>>

AgainSpec == AgainInit /\ [][AgainNext]_again

(* A loop resumes on the line after its own FOR, or on the line of the IF  *)
(* that held it: no other FOR changes where its NEXT jumps (comments at    *)
(* qbasic.c:448 and 591), as long as every FOR that corrects a record has  *)
(* pushed one.                                                             *)
Opens(s, loop) == s.op = "for" /\ s.var = loop.var /\ s.to = loop.to

LoopOwnsItsStart ==
  ~misaimed =>
    \A i \in DOMAIN for_stack :
      LET loop == for_stack[i] IN
      \/ loop.start > 1 /\ Opens(code[loop.start - 1].stmt, loop)
      \/ /\ loop.start <= Len(code)
         /\ code[loop.start].stmt.op = "if"
         /\ \E s \in Parts(code[loop.start].stmt) : Opens(s, loop)

\* No line of the program is an INPUT, nor may an IF come down to one.
AsksNothing(program) ==
  \A i \in DOMAIN program : \A s \in Parts(program[i].stmt) : s.op # "input"

(* A run owes nothing to earlier ones: neither variables nor FOR records   *)
(* nor anything else that runs of this or other programs leave behind      *)
(* change what a program without INPUT prints (README.MD:67,               *)
(* "Deterministic control flow").                                          *)
RerunsAgree ==
  \A r, s \in ended : r[1] = s[1] /\ AsksNothing(r[1]) => r[2] = s[2]
=============================================================================

------------------------------- MODULE Console -------------------------------
(***************************************************************************)
(* The machine from _init in src/kernel/core/kernel.c on: the boot         *)
(* messages, init_gdt, and the shell on its screen.  This composes Boot,   *)
(* Shell and the functions of Vga: what is echoed, printed and cleared.    *)
(***************************************************************************)
EXTENDS Shell, Boot

CONSTANTS
  VGA_WIDTH, VGA_HEIGHT, Newline, BackspaceChar,
  Color, LightGrey, Green,
  PROMPT,        \* the text of the prompt
  Words,         \* a word of the texts the kernel and the commands print
  AppScreen      \* what an application may leave: [clears, text]

VARIABLES
  stage,    \* "power", "gdt", "welcome", "tty" or "shell"
  screen,   \* the terminal
  erased    \* whether a character of this line was deleted

ConsoleChar == Printable \union {Newline, BackspaceChar} \union {PROMPT[k] : k \in DOMAIN PROMPT}
               \union {Words[k] : k \in DOMAIN Words}

Screen == INSTANCE Vga
            WITH Char <- ConsoleChar, Space <- Blank, String <- {}, term <- screen,
                 pending <- <<>>

console == <<vars, stage, screen, erased, boot>>

ASSUME ConsoleAssumption ==
  /\ VGA_WIDTH \in Nat \ {0} /\ VGA_HEIGHT \in Nat \ {0}
  /\ LightGrey \in Color /\ Green \in Color
  /\ PROMPT \in Seq(ConsoleChar) /\ Words \in Seq(ConsoleChar)
  /\ Newline \notin Printable \union {PROMPT[k] : k \in DOMAIN PROMPT}
  /\ AppScreen \subseteq [clears : BOOLEAN, text : Seq(ConsoleChar)]

-----------------------------------------------------------------------------
(* Printing.                                                               *)

\* terminal_writestring.  The set makes TLC evaluate each screen once only.
Printed(t, s) ==
  LET after[k \in 0 .. Len(s)] ==
        IF k = 0 THEN t
        ELSE CHOOSE u \in {Screen!terminal_putchar(v, s[k]) : v \in {after[k - 1]}} :
               TRUE
  IN  after[Len(s)]

println(t, s) == Printed(t, Append(s, Newline))

\* Mutant: the colour is not set back.
pr_okGreen(t, s) == Printed(Screen!terminal_setcolor(t, Green), s)

pr_ok(t, s) ==
  Screen!terminal_setcolor(Printed(Screen!terminal_setcolor(t, Green), s), LightGrey)

Prompted(t) == pr_ok(t, PROMPT)

\* The level klog is called with is 1, "OK   " in green.
klog(t) == Printed(pr_ok(t, Words), Words)

-----------------------------------------------------------------------------
(* _init, up to the first prompt.                                          *)

Power ==
  /\ stage = "power"
  /\ stage' = "gdt"
  /\ screen' = Printed(klog(Screen!terminal_initialize), <<Newline>>)
  /\ UNCHANGED <<vars, erased, boot>>

InitGdt ==
  /\ stage = "gdt"
  /\ BootNext
  /\ stage' = IF Done' THEN "welcome" ELSE "gdt"
  /\ UNCHANGED <<vars, screen, erased>>

Welcome ==
  /\ stage = "welcome"
  /\ stage' = "tty"
  /\ screen' = println(Printed(klog(screen), <<Newline>>), Words)
  /\ UNCHANGED <<vars, erased, boot>>

\* The start of tty_main, its first prompt included.
TtyMain ==
  /\ stage = "tty"
  /\ stage' = "shell"
  /\ screen' = Prompted(println(println(Screen!terminal_initialize, Words), Words))
  /\ UNCHANGED <<vars, erased, boot>>

-----------------------------------------------------------------------------
(* The shell with its screen: every step of Shell, and what it draws.      *)

InShell == stage = "shell" /\ UNCHANGED <<stage, boot>>

EchoCharacter(c) ==
  /\ InShell
  /\ Character(c)
  /\ screen' = IF input'.i > input.i THEN Printed(screen, <<c>>) ELSE screen
  /\ UNCHANGED erased

\* The echo of a backspace, of which the terminal interprets nothing.
EchoBackspace ==
  /\ InShell
  /\ Backspace
  /\ IF input.i > 0
     THEN /\ screen' = Printed(screen, <<BackspaceChar, Blank, BackspaceChar>>)
          /\ erased' = TRUE
     ELSE UNCHANGED <<screen, erased>>

\* An empty line is answered with the next prompt.
EchoEnter ==
  /\ InShell
  /\ Enter
  /\ LET t == Printed(screen, <<Newline>>)
     IN  screen' = IF phase' = "read" THEN Prompted(t) ELSE t
  /\ erased' = (erased /\ phase' # "read")

\* What a command leaves on the screen, without the prompt.
Drawn(fn) ==
  CASE fn = "text"  -> println(screen, Words)
    [] fn = "halt"  -> println(screen, Words)
    [] fn = "echo"  -> println(screen, EchoText)
    [] fn = "clear" -> Screen!terminal_initialize
    [] fn = "app"   -> screen

RunCommand(k) ==
  LET t == Drawn(Command[k].fn)
  IN  /\ InShell
      /\ Dispatch(k)
      /\ screen' = IF phase' = "read" THEN Prompted(t) ELSE t
      /\ erased' = (erased /\ phase' # "read")

NotFound ==
  /\ InShell
  /\ Unknown
  /\ screen' = Prompted(println(screen, Words \o Typed))
  /\ erased' = FALSE

\* Mutant: the application leaves the cursor behind its last word.
FarewellOnLine(t, text) == Printed(t, text)

\* The last line of the calculator, and every line of an editor's screen,
\* ends with a newline, in light grey.
Farewell(t, text) == println(t, text)

Return(app) ==
  LET t == IF app.clears THEN Screen!terminal_initialize ELSE screen
  IN  /\ InShell
      /\ AppReturns
      /\ screen' = Prompted(Farewell(t, app.text))
      /\ erased' = FALSE

ConsoleInit ==
  /\ Init
  /\ BootInit
  /\ stage = "power"
  /\ screen = Screen!terminal_initialize
  /\ erased = FALSE

Booting == Power \/ InitGdt \/ Welcome \/ TtyMain

ConsoleNext ==
  \/ Booting
  \/ \E c \in Printable : EchoCharacter(c)
  \/ EchoBackspace
  \/ EchoEnter
  \/ \E k \in DOMAIN Command : RunCommand(k)
  \/ NotFound
  \/ \E app \in AppScreen : Return(app)

ConsoleSpec == ConsoleInit /\ [][ConsoleNext]_console

-----------------------------------------------------------------------------
(* While the shell reads, the user sees the prompt, in green and at the    *)
(* left margin, the line that was typed, in light grey (TTY.MD:41-42), and *)
(* the cursor behind it, also after wraps and scrolls, after a clear and   *)
(* after an application has drawn.  This holds as long as no character of  *)
(* the line was deleted.                                                   *)
Visible ==
  [k \in DOMAIN PROMPT |-> Screen!vga_entry(PROMPT[k], Green)]
    \o [k \in DOMAIN typed |-> Screen!vga_entry(typed[k], LightGrey)]

ShowsLine ==
  stage = "shell" /\ phase = "read" /\ ~erased =>
    LET n == Len(Visible)
        at == Screen!Position(screen)
    IN  /\ screen.color = LightGrey
        /\ (at - n) % VGA_WIDTH = 0
        /\ \A k \in 1 .. n : at - n + k > 0
             => screen.cells[at - n + k - 1] = Visible[k]
=============================================================================

# LazyDOS in TLA+

LazyDOS is a small 32-bit operating system: a Multiboot loader stub, a text-mode
terminal, a polled keyboard, a shell, a QBASIC interpreter with a full-screen
editor, an interpreter for the WOG language, a calculator, and small libraries.
Everything runs in one thread of control with interrupts never used. This
directory holds a TLA+ model of it, the TLC configurations that check the model
on small instances, and proofs for TLAPS.

    tlc -workers 2 -config drivers.cfg MCDrivers   # one run
    tlapm VgaProofs.tla                            # one proof module

`PROJECT.json` lists runs, mutants, theorems, findings and hazards, and maps every
definition to the lines it models. Source paths below are relative to
`src/kernel/` of the repository.

## 1. Inventory

| Component | Source | State it keeps | Operations | Model |
| --- | --- | --- | --- | --- |
| VGA terminal | `io/vga.c` | row, column, colour, video memory, hardware cursor | initialize, setcolor, putchar, write, writestring | `Vga`, `Teletype` |
| Keyboard | `io/keyboard.c` | four modifier bits | lazy_getchar, lazy_trygetchar, lazy_key_available | `Keyboard`, `Typeahead` |
| Shell | `core/tty.c` | the line buffer `input`, its index | line editing, dispatch, ten commands | `LineInput`, `Shell`, `Console` |
| QBASIC | `apps/qbasic.c` | program text, line map, variable table, FOR stack, `exec_pos` | editor keys, run, one operation per statement | `QBasic` (interpreter), `Editor` |
| WOG | `apps/wog.c` | program text, variable table, error flag | editor keys, run, one operation per statement | `Editor`, `Wog` |
| Calculator | `apps/calculator.c` | the line buffer, an accumulator | read a line, evaluate, report | `LineInput`, `Calculator` |
| Integer library | `lib/int.c` | none | division and remainder by shift and subtract, per width | `Division` |
| String library | `lib/string.c` | none | strlen, strcmp, strncmp, strcpy, memcpy, memmove, memset | `StringLib` |
| GDT and TSS | `core/gdt.c` | six descriptors, TSS, the processor's registers | init_gdt | `Boot` |
| Boot | `bootloader/boot.asm`, `core/kernel.c` | order of initialisation | start, `_init` | `Console` |
| Float library | `lib/float.c` | none | arithmetic on bit patterns | not modelled: nothing calls it |
| Port access | `io/port.c` | none | inb, outb, outw | in its callers |

**How they interact.** All by direct calls in one thread. `boot.asm` calls
`_init`, which initialises the terminal and the GDT and enters `tty_main`, which
never returns. The shell calls an application, which takes over keyboard and
screen until it returns. Everything that prints goes through `terminal_putchar`;
everything that reads goes through `lazy_getchar`. The only concurrency is
between the processor and the keyboard with its typist: scan codes queue up in
the hardware while a program computes.

**What is hard.**

- *Terminal*: wrap, newline and scroll can meet in one call, on a flat array
  with index arithmetic; a mistake shows only after long mixtures of calls.
  Correct means: nothing is ever written outside video memory, the hardware
  cursor is where the next character goes, and the screen is the tail of what was
  printed.
- *Keyboard*: the driver learns of a modifier only when it reads its code, maybe
  long after the key came up. Correct means: every character is read once, in
  order, translated with the modifiers of the moment it was struck; no modifier
  sticks; a waiting program is answered. The hardware queue is bounded and drops
  what does not fit.
- *Shell*: one static buffer serves all lines. Correct means: a command is what
  was typed, and never the remains of an earlier line.
- *QBASIC*: control flow by positions in the text. `exec_pos` is written by GOTO,
  NEXT and by the loop that called them; position 0 doubles as "not found"; the
  FOR record is written in two places; both tables are bounded, and a variable
  created by one statement is used by another much later. Correct means: jumps
  arrive, loops count, the tables stay consistent at their limits, and a run does
  not depend on earlier runs.
- *Calculator and integers*: width and sign at the boundaries; signs, operators and
  blanks that share characters; two error reports. Correct means: a line is
  answered with the value of what was typed, or with the right report.
- *WOG*: boundaries, an error flag, and an editor whose array is never cleared.
  Correct means: the editor shows what was typed, a run prints what `SPEC/WOG.MD`
  says that text does and nothing else, and it ends.
- *Strings*: overlapping ranges, counters that wrap.
- *Boot*: tables, registers and selectors in an order the processor accepts, when
  nothing could handle a fault; base addresses cut into three fields.

## 2. Plan

Done, in this order:

1. `Vga` with the abstract `Teletype`; `VgaProofs`.
2. `Keyboard` with the abstract `Typeahead`; `KeyboardProofs`.
3. `QBasic`: the interpreter on parsed lines, and `QBasicAgain`, with a history of its
   runs; `QBasicProofs`.
4. `LineInput`, `Shell`.
5. `Division`; `DivisionProofs`. `Calculator`, which divides in `Division`;
   `CalculatorProofs`, which builds on `DivisionProofs`.
6. `Editor`, the text editor that QBASIC and WOG have in a copy each, and `Wog`, the
   interpreter on top of it; `WogProofs`.
7. `Boot`. `Console`: boot, shell and terminal composed; `ConsoleProofs`, also for `Shell`
   and `Boot`.
8. `StringLib`; `StringLibProofs`.

There is no component left whose state could be modelled and is not; section 7 lists
what is left out. Every safety invariant and every action property that a passing run
checks has a theorem; the liveness properties stay with TLC, and what they need of the
steps has one for all but `CountsThrough` (section 6).

One run answers the questions about one part. A module that extends another one takes
its properties into its own run (`console` checks the shell's, `qbasic` those of `QBasic`
and `QBasicAgain`), and parts that share no state are explored one at a time in one run
(`drivers`: terminal and keyboard; `library`: `Division` and `StringLib`).

## 3. Modules

### Vga

`term` is one record of the driver's statics (`term_row`, `term_col`,
`term_color`), video memory and the CRT cursor register; each C function is an
operator from record to record (`scroll`, `update_cursor`, `terminal_putchar`),
and each public function an action. `terminal_write` is a loop: `WriteString`
starts it, `WriteNext` is one turn, and no other call starts until it has ended.
`terminal_writestring` is the same with `strlen` in front. Colours and characters
are small sets; a newline is the only character the driver interprets, and `'\b'`
is a character like any other, as in the code. `Position` is the index
arithmetic of the source on the flat array.

`Teletype` is the promise: lines of paper, the last one typed on, the oldest one
disappearing. `Vga` implements it through `Shown`, which cuts the array into the
rows down to the current one. A blank has no visible colour, so `Look` forgets
it: `scroll` paints the new row in the current colour, and a row that scrolls in
during green text is as blank as any other.

### Keyboard

`obuf` is what waits at port 0x60 (keyboard and controller together, `Capacity`
bytes), `state` the four modifier bits. The typist's `Press`, `Repeat` and
`Release`, and the 0xE0 prefix, are external. `Poll` is one turn of the loop in
`lazy_getchar`: read a byte, update the modifiers, translate, and return unless
the result is 0. The guard `data_waiting` is the status bit of port 0x64; turns
that find nothing are stuttering steps. Each byte carries `meant`, the character
the key meant when it was struck, which no action of the driver looks at.

The prefix byte 0xE0 has its high bit set and is read as a release of code 0x60;
the driver has no other treatment of it, and nor has the model.
`lazy_is_ctrl_alt_del` has no caller and is left out. Typematic repeat repeats the
last key pressed, modifiers included.

`Typeahead` is the promise: characters struck are read in order and once. It
ends when the hardware drops a byte, since that may be the release of a modifier.

### QBasic

From Ctrl+R to "Press any key". The program is a sequence of parsed lines
(`Line`), and a position in the text the index of its line: the interpreter only
ever jumps to places from which the rest of one line is executed. The value 0,
which the lookups return for "not found", is kept: an unindented first line is at
position 0 (`find_line_by_number`, `find_label`). One action per statement, each
executing one line, with IF taken apart by `Selected`: IF, its branches and the
statement they come to are one call of `execute_line` in the code. `JumpOr` is the
place where an IF loses the jump of its branch: `execute_line` drops the inner
result and `run_program` advances. `StartAfter` is `run_program`'s own treatment of
lines that begin with FOR, label lines among them; it has moved `exec_pos` to the next
line before it executes such a line (`Position`), which is what `execute_for` puts into its
record. `wild` records a store through
the NULL that `create_var` returns for a full table; what such a store does to
memory is not followed further, as with the whole of what happens when a program
goes on after it. INPUT blocks once per variable (`Input`, `Answer`). A PRINT with
`=` or `:` outside quotes never ends (`hung`). `Plus1` wraps as `int32_t` does in
the compiled code.

`FirstBytes` is what NEXT reads from a loop variable of type string: `FOR` stores
an integer into the variable without looking at its type, later a `LET` may store
text into the same union, and NEXT reads the first four bytes. `out` is a history of
the first `MaxOut` lines printed. Abstracted: tokens and operands are parsed already
(`parse_int` makes 0 of a name or a quoted text, hence `Operand`), IFs nest two
levels deep, and a line has at most 127 characters (longer ones are cut into
pieces, see `Editor`, and what the pieces mean as statements is left out).

`QBasicAgain` adds two history variables to it. `ended`: which programs ran to their end, in
whichever order, and what each run printed; only `RerunsAgree` reads it. `misaimed`: whether a FOR
of this run has corrected a record that is not its own (`AimsAtAnother`: the FOR stack was full,
or the line was taken for a label); only `LoopOwnsItsStart` reads it.

### LineInput and Shell

`LineInput` is the buffer as an array with an index, the shape that `tty_main` and
`calculator_run` share; it is never cleared, only terminated. `Shell` is
`tty_main`: `Character`, `Backspace`, `Enter` (with the skip of an empty line and
`rtrim`), then `Dispatch` to the first command of the table with this name or
`Unknown`. `cmd_echo` reads from a fixed offset of the buffer (`EchoText`), whatever
the length of the line. `reboot` and `shutdown` end in a `hlt` loop: the phase
`halted`, the one place where the system really stops (`CHECK_DEADLOCK FALSE`).
Applications only return here. `typed` is a history of the line as typed. The
texts of help, info and cfetch are left out.

### Boot

`init_gdt`: `pc` counts the calls of `set_gdt_entry` and then names the steps, one per
statement that the processor could refuse. `Packed` cuts base, limit and flags into
fields as the code does, `BaseOf`, `LimitOf`, `Paged` and `Wide` put them together as the
processor does; `Reload` and `Ltr` make the checks the processor makes on a selector
(within the limit, present, of the right kind, a task segment not busy) and end
in `pc = 99` if one fails, for there is no handler. The marks the processor leaves in
a descriptor (accessed, busy) are part of them.

### Console

The machine from `_init` on: `Power`, `InitGdt` (a step of `Boot`), `Welcome`, `TtyMain`, and then
every action of `Shell` together with what it draws through the functions of
`Vga`: the echo of a key, the green prompt, what a command prints, the screen an
application leaves (`AppScreen`, a set of possibilities: cleared or not, a last line).
`erased` records that a character of the line was deleted, for the properties
only. A text of the source is a short word here: what matters is that it is
printed, wraps and scrolls.

### Editor and Wog

`Editor` is `editor_buf` with `editor_pos` (text is typed at its end only), the NUL kept after
every key, and the loop that cuts the text into lines: at newlines, and where the
line's buffer is full. `BehindLine` reads the array at the end of the text without
asking where that is, as the code does. The same code is in `qbasic.c` (with 128
bytes per line) and in `wog.c` (256); it is checked with `Wog`. `Displayed` is the sequence of the
lines that `editor_display` prints: that the terminal wraps a line longer than its 80 columns,
and may scroll for it, is not in it.

`Wog` has one action per statement of a line (`Behold`, `ThouShalt`, `WoeUnto`, `MissingThen`,
`Nothing`), after `Selected` has taken its IFs apart, `Before` for a line outside the boundaries and
`Finish` for each way a run ends. What a line means is the constant `Meaning`: the
splitting into words is left out, all that is done with the words is not. A value
is a number or the rest of the line as one name (`eval_value`). LET THERE BE has a
function in the source and no caller, so all variables are numbers.

The reference for `KeepsItsPromise` is written from `SPEC/WOG.MD` and not from the code: `Promised` is a
fold over the lines behind the first AND GOD SAID and before the first AND IT CAME TO PASS
(61-69), with a map for the variables in which a name that was not set is 0 (400), ended by the
first error (10.2). `Proper` says which texts are as that document wants a program, and so what it
leaves open or the code does otherwise: lines that fit the line buffer, an end and none before
the beginning, statements that are described (an IF has its THEN, one of the relations
`= <> < >` and a statement behind it that is no IF), and variables that are set before they are
looked at. Section 5 lists what the code does with the others.

### Calculator

`LineInput` again, then `eval_expr`: `First` reads a number, `Apply` an operator with its
number, `Divide` enters `Division` (an INSTANCE whose variables are the calculator's) and
`Dividing` takes its turns; `Malformed` and `DivideByZero` fail; `Answer` and `Invalid` print. `read_int` is an
operator on places in the buffer, digit by digit modulo 2^32 in `ValueOf`. `Reading` pairs texts
with the expressions they spell, so that parsing is checked against a definition
that does not parse: `Spelled` is the grammar of `SPEC/CALC.MD`, a relation between an expression
and its text, and `CalculatorAssumption` asks it of every pair (TLC evaluates it for the
twelve of the run). `Verdict` says which report comes first, and not whether a second one follows:
that is `ReportedOnce`. `itoa` of the most negative number prints characters that are no
digits (`garbled`).

### StringLib

All seven functions, one turn of a loop per step, on one memory into which both
pointers point. `Legal` is what the callers owe (ranges inside the memory, strings
that end in it, no overlap for `strcpy`, whose pointers are `restrict`). `left` is the
`size_t` counter and -1 the value it wraps to. `NextBytes` are the bytes that the next turn reads or
writes (`StaysInMemory`). `before` is the memory at the time of the call.

### Division

The twelve division and remainder functions of `lib/int.c`. A *format* is a width:
`Top` is the weight of its sign bit, `Modulus` the range in which `den << bit` is
computed. C promotes 8 and 16 bits to a 32-bit `int`, so that nothing is lost
there; in `uint32_div` the shifted divisor is taken modulo 2^32. The loop counter
`bit` appears as its weight `shift`. `Enter` is the call (divisor 0, the
magnitudes of `SIGNED_DIV_BODY`), `Turn` one turn of the loop, `Return` the sign, the
conversion to the result type and, in the remainder functions, the
multiplication back. Calls follow each other, with all arguments. Left out, with no
caller: `sadd8` to `sadd32`, the conversions to float. `ExactWhenOdd` names operands for which the
full-width division is right although bits are lost: an odd divisor whose product
with the dividend is in range.

## 4. Runs

The bounds are in the `.cfg` files and MC modules. Every property of a passing run has a
mutant: a plausible mistake in a mapped definition (kept beside the original,
marked "Mutant") under which TLC finds the property violated.

| Run | Asks | Bounds, and why they are enough |
| --- | --- | --- |
| `drivers` | Does a modifier stick (`NoStuckModifier`), is a waiting program answered (`Answered`), are characters right and in order (`ImplementsTypeahead`)? Is the terminal in range (`VgaTypeOK`), blank from the cursor on (`BlankAhead`), and a teletype (`ImplementsTeletype`)? | One key per modifier, so that the shared Shift bit does not matter; the right Ctrl sends two bytes. Three bytes of queue: an extended press and one more, or a drop in the middle of a prefixed code. A screen of 2 columns and 3 rows: every wrap, a scroll that moves more than one row, and both at once; strings that wrap and scroll within one call; two colours. The two drivers share no state and are explored one at a time. |
| `console` | Does the boot pass without a fault (`NoFault`) and leave the segments right (`SegmentsInPlace`)? Does the dispatcher see what was typed (`RunsWhatWasTyped`), does echo stay in its array (`EchoEnds`)? Does the screen show the line being typed (`ShowsLine`)? | A buffer of four, three characters with the blank: lines that fill it, deletions, long lines before short ones, blanks before, inside and behind words. A screen of 3 by 3, on which a prompt and a full line wrap and scroll. A command of every kind. A TSS at 0x1234567, an address with bits in all three fields. |
| `library` | Does the division loop keep its balance (`Balanced`), where is the result exact (`ExactWhenWide`, `ExactWhenOdd`)? Do the string functions stay in what they were given (`StaysInMemory`), copy (`Copies`) and compare (`Compares`) it? | 3 bits in arithmetic of 6, as 8 and 16 bits are in 32, and 4 bits in arithmetic of 4, as 32 bits are in 32: all arguments, the signed extremes and divisor 0 included. All memories of four bytes of three values, all calls: ranges that overlap by up to three bytes both ways, limits on and around the deciding byte. The two halves share no state and are explored one at a time. |
| `calculator` | Is each line answered (`Answers`), with its value from left to right (`LeftToRight`) or the right report first (`Verdict`)? | Twelve expressions and eight lines that are none, one after the other in one buffer of six characters, with corrections and overlong lines; 8-bit numbers, so that sums, products and literals overflow, and `3 /90` loses bits. |
| `wog` | Does the editor show what was typed (`ShowsWhatWasTyped`), does a proper program print what WOG.MD says (`KeepsItsPromise`), does every run end (`Ends`)? | Eight programs, any two of them in succession, run and edited at any time, so that beginnings of programs are run as well. Five are proper: values copied from other variables, a full table, WOE UNTO as the statement of an IF, an IF on a line that fills the buffer, a text that does not fit into the editor. Three are not: an open one that prints the most negative number, one with an IF in an IF, a sum and a missing THEN, one that has its end first. Lines of two characters and a text of eleven: texts that fill the editor, lines that are cut just before a newline, more lines than the four the screen has. A table of two names and a third one. |
| `qbasic` | Do the tables stay sound (`VarsSound`, `LoopsSound`), do types last (`VarsKeepType`), do programs that only go forward end (`Terminates`)? Does each loop resume behind its own FOR (`LoopOwnsItsStart`), count its range (`CountsThrough`) and print nothing else (`CountsInOrder`), and does a rerun print the same (`RerunsAgree`)? | All programs of up to three lines over eleven kinds of line, with labels, numbers, lines without a number and lines at position 0; nests of up to five loop lines; loops left by a jump and run again, up to five lines; and a counting loop for every pair of bounds of at most `MaxOut` rounds, empty ranges and the lower end of the integers included. A table of two variables for three names, a line map of two lines, a FOR stack of three, integers of -4 .. 3: tables fill up, lines are missing from the map, bounds wrap. |
| `qbasic_next` | violation of `ContinuesPastNext`: a loop that is done executes its NEXT again | loop lines |
| `qbasic_if_goto` | violation of `GotoIsTaken`: the jump of an IF is overwritten | numbered lines |
| `shell_echo` | violation of `EchoesItsLine`: echo prints the rest of an earlier line | a buffer of five |
| `calculator_zero` | violation of `ReportedOnce`: a division by zero is reported as an invalid expression too | as `calculator` |
| `wog_boundaries` | violation of `RefusesOpenPrograms`: a program without its end is executed | as `wog` |
| `division_full_width` | violation of `Divides`: the shifted divisor loses bits | as `library` |

What the properties leave out on purpose: `Terminates` excludes programs with a NEXT, also
in an IF (`qbasic_next` shows why), programs with a GOTO, also in an IF, that does not find a later
line, and PRINTs that hang; `CountsThrough` and `CountsInOrder` exclude loops from or up to
`INT_MAX`, which wrap, and say nothing of what follows the loop; `LoopOwnsItsStart` makes no promise for the
rest of a run in which a FOR has met a full stack or a label line, for `run_program` then changes
the record of the loop around; `VarsSound` and `LoopsSound` hold with a table that is full, and say
nothing of what the store through NULL does to memory; no property speaks of which line a GOTO
finds; `KeepsItsPromise` is about proper programs (section 3); `ShowsWhatWasTyped` is about the
lines that are printed, not about how the terminal wraps them; `Verdict` leaves open whether a
second report follows the first, which `ReportedOnce` does not;
`ImplementsTypeahead` and `NoStuckModifier` end with the first dropped byte; `ShowsLine` ends with the first
deletion (section 5), so that nothing says what the screen shows after one; `LeftToRight` excludes divisions in which bits are
lost, and the value -2^31. `Keyboard!AsMeant`, that every character is the one the typist
meant, is false when both Shift keys, which share one bit, are held; no document
promises more, so no run checks it. It is proved for a typist who does not do that. `MCQBasicAgain!SameNext` keeps one program once it is typed; that other programs before it
make no difference is what `RunsRepeat` proves of `AgainSpec`, where any program may be
next.

**Fairness.** `WF(Poll)`: `lazy_getchar` spins on the status port and never gives up,
so a byte that waits is read. The typist owes nothing. `WF(Step)` in `QBasic` and in `Wog`, and
`WF(Evaluate)` in `Calculator`: the processor executes the run, or the evaluation, and
nothing else can run; the user who should answer an INPUT, press a key or start a
run owes nothing. Terminal, shell, boot and libraries need none.

## 5. Findings

The violation runs show where the code does something else than its comments or
documents say. `PROJECT.json` quotes them.

1. `qbasic_next`: `execute_line` returns 0 after every NEXT, so nothing after a loop is
   ever executed and the machine hangs; the README's example never prints "Done".
2. `qbasic_if_goto`: GOTO within IF is lost.
3. `shell_echo`: echo works only alone on its line, and then prints stale text.
4. `calculator_zero`: `5/0` is answered with "divide by zero" and then "invalid expression";
   the session in `SPEC/CALC.MD:35-36` shows the first alone.
5. `wog_boundaries`: a WOG program without AND IT CAME TO PASS is executed up to the end of the text and
   nothing is reported; `SPEC/WOG.MD:384` wants an error and no execution.
6. `division_full_width`: in `uint32_div`, `den << bit` drops the divisor's high bits;
   `20 / 2` gives `0x8000000A`. The calculator divides with it.

Seen while modelling, in the model, and stated by no run:

- The terminal prints `'\b'` as a glyph, so the echo of a backspace erases nothing on
  the screen and moves the cursor forward (`SPEC/TTY.MD:35` "Delete last character");
  in `Console`, `EchoBackspace`.
- `a AND b` is looked up as one variable name, so the sum in the example of
  `SPEC/WOG.MD:526-539` is 0 and not 30; in `Wog`, `eval_value`.
- Other things that WOG does not do as `SPEC/WOG.MD` says: an end before the beginning is ignored
  (64-65 breaks there), a missing beginning (383) and invalid syntax (385) are not reported, BEHOLD of a
  variable that was never set prints nothing and an IF on it is false (400: such a reference
  returns 0), LET THERE BE is never dispatched; in `Wog`, `Before`, `Nothing`, `Beheld` and `eval_condition`.
- The most negative number is not printed as digits, in the calculator, QBASIC and WOG.
- A GOTO to a line at position 0 of the text finds none and is repeated for ever
  (`find_line_by_number`, `find_label`).
- The loop that finds the FOR stack full moves the loop around it (`StartAfter`).
- A line longer than its buffer is executed in pieces.
- The two Shift keys share a bit.

## 6. Proofs

A theorem holds for every value of the constants that the named assumptions allow:
screens, buffers, tables and integers of every size. Each safety theorem comes from an
inductive invariant: it holds initially (`Init...`), every action keeps it (one lemma per
action), and it implies the property.

`VgaProofs`, from `VgaAssumption` (at least one row and one column; a blank is not a newline).
`ScreenSound`, `VgaSpec => [](VgaTypeOK /\ BlankAhead)`: the conjunction is inductive, neither part
is. That a row scrolled in is blank depends on the position being in range, and that what
is written lies before the cursor depends on both. `OnScreen` and `TimesMonotone` do the index
arithmetic, `MoveSound` the store and the step to the next column or row (where the row may
be one too large), `PutcharSound` the scroll. `TerminalIsTeletype` is the refinement,
`VgaSpec => ImplementsTeletype`: on sound screens every step maps to the teletype's step
or to a stutter. `PutcharAdvances` says what a character does to the array
seen from the cursor (`Advanced`: one cell more, and what is before it moves by a row or not at
all), which is what `ConsoleProofs` builds on.

`KeyboardProofs`, from `KeyboardAssumption`, for every set of keys and scan codes (several keys per
modifier included), every pair of tables and every capacity. `NoModifierSticks`: the
invariant speaks of the future. `Foreseen` is the value a modifier bit will have once the
waiting bytes have been read, which makes it inductive: reading a byte does not change
what is foreseen (`PollForesees`), and a key event that fits into the queue makes it what the
event says, or leaves it (`SendForesees`). `DriverIsTypeahead` is the refinement,
`Spec /\ []OneHeldPerModifier => ImplementsTypeahead`. Its invariant `InStep` says that the modifier bits
replayed over the waiting bytes give each byte the character it meant, and end in
the keys that are held. The hypothesis is about the typist: no two keys of
one modifier are held at a time. Without it the refinement is false, for the release of one
Shift key clears the bit that the other still holds. `ReturnsAsMeant` follows from the same.

`DivisionProofs`, from `DivisionAssumption`: weights are closed under halving and the arithmetic is a
multiple of the word. `LongDivision`, `Spec => [](TypeOK /\ Balanced /\ ExactWhenWide /\ ExactWhenOdd)`;
`WordsSound`, `LoopBalanced` and `OddExact` are its parts. `Balanced` is about the loop alone; what
makes it inductive, and leads from it to the result, is `IInv`: bits of the quotient from
the one tried next on down are clear and the rest is below twice the shifted divisor
(`LoopInv`), the divisor does not fit once more at the end (`ReturnInv`), and quotient times
divisor plus rest is the dividend, exactly where no bits are lost and up to a multiple of the
range otherwise (`TakenInv`). For an odd divisor the bits that are lost never decide a
comparison wrongly, as long as dividend times divisor is within the width.

`CalculatorProofs`, from `CalculatorAssumption` and `LineInputAssumption`, for buffers, characters and words of every
size. The division is `DivisionProofs` under an INSTANCE: its invariant (`DivisionSound`) is part of
the calculator's, and gives the answer of `int32_div` when the division ends (`DivisionAnswers`).
- `CalculatorTypes` (`TypeOK`). `Sound` says that the array holds what was typed and a NUL behind it,
  and that the pointer does not pass that NUL: blanks and digits are skipped up to it
  at most (`SkipStops`), and an operator is passed only if it is not it (`TermRead`).
- `ExpressionsAnswered` (`LeftToRight`). For every expression that the typed text spells, the
  evaluation stands behind its k-th number and has its value up to there (`Follows`), as long as
  the divisions before were ones that `int32_div` gets right. What is spelled is read
  (`SpelledReads`, `TermStands`): a number is followed by no digit, so `read_int` stops where the
  expression says (`BehindNumber`). Digits read modulo the range of the word make the
  number modulo that range (`ValueOfDecimal`), which is why a literal may overflow.
- `NumbersForExpressions`, `Complete => (Spec => []Verdict)`, adds the converse: what has been read is at
  any time the beginning of an expression (`Recognised`; `ReadSpells`, `Longer`), so a line that is none
  gets no number. `Complete` says that `Reading` holds every expression there is; without it a
  line could be an expression that nobody asks about.

`StringLibProofs`, from `StringAssumption`. `StringSound` (`Copies`): one part of the invariant per loop; after
k turns memory is the old one with k bytes copied, from the front or from the back.
`BlockGrows` and `TailGrows` are the heart: the next byte to be read has not been overwritten
yet, if the direction is the right one. `ComparesSound` (`Compares`): what was passed is equal and
holds no NUL; and the counter of `strncmp` is at its wrapped value only where the limit was
reached, which is what decides the answer. `PointersSound` (`StaysInMemory`): where a string or a range of
the call ends, and that the loop has not got behind it, says which bytes the next turn touches
(`StringsInMemory`, `BlocksInMemory`).

`QBasicProofs`, from `QBasicAssumption`, for every set of programs. One invariant (`QInv`) carries
`TypesSound`, `VariablesSound` and `RecordsSound`: the three depend on each other, for NEXT finds
its variable by the name in a record (types, records), and FOR may write through a
variable another statement made (records, variables). `TypesKept` is the action property.
`LoopsResume`, `AgainSpec => []LoopOwnsItsStart`: in every run a loop resumes behind its own FOR until a
FOR meets a full stack or a label line, for then `run_program` aims the record of another loop. The
property is inductive with `QInv`: a FOR that has pushed aims its own record, and nothing else
changes one.
- `RunsRepeat`, `AgainSpec => []RerunsAgree`, for any programs in any order. The program and a
  `Moment` (phase, place, tables, output) are all that a step without INPUT looks at:
  `After` gives the moment that follows, written with the operators of `QBasic` at that moment
  (`At`, an INSTANCE with the moment's parts for the variables), and `StepIsAfter` says that every
  step leads there. Every run begins at the same moment `Fresh`, so the moments of a run are `Reached`:
  they belong to every set that holds `Fresh` and what follows its members (`OnItsWay`). Of two
  ends of one program each would have to be in the set of what leads to the other (`OneEnd`), so
  they are the same, and so is the output (`EndsOnItsWay`).
- `LoopCounts`, `Spec => []CountsInOrder`: `CountInv` says for each of the three lines of the loop what
  the table and the stack hold, one variable with the counter and one record that resumes
  on the second line, and that the output is the count up to there.

`WogProofs`, from the assumptions of `Editor` and `Wog`, for arrays, lines, screens, tables and programs
of every size. `WogTypes`; `ScreenShowsText`, where `Holds` says that the array holds the text that was
typed and a NUL behind it, and `EndOfLineIs` that the loop that cuts a line stops inside the
text although it reads behind it; `PromiseKept`, where, for a proper text, the run's state at every
line is the state of the fold in `Promised` over the lines before it, and a run that has stopped is one
that the fold leaves alone (`RunsAlong`). The two are defined apart from each other, so each
part of the reference has to be found in the run: a line is in the `Body` if and only if the run
is in the program there (`BodyIs`), the map holds what the table does for names that were set
(`HeldIs`), and what an IF comes down to, is assigned and is shown is the same (`DoesIs`, `MeantIs`, `ShownIs`).
Of a text that is not proper the proof needs no more than that its run goes on (`ImproperRuns`).
Proving `ScreenShowsText` showed that the model's end of a line was
ambiguous for a line that fills its buffer exactly at the end of the text; `IsOver` and
`EndOfLine` now say which place the code stops at.

`ConsoleProofs`, for `Shell`, `Boot` and `Console`.
- `LineSound`, `Spec => [](TypeOK /\ RunsWhatWasTyped /\ EchoEnds)` (`ShellTypes` and `EchoFindsNUL` are its
  parts), from `LineInputAssumption` and `ShellAssumption`. The invariant adds two parts: while a
  line is read, the array holds what was typed up to the index (`InBuffer`), and its last
  byte is always NUL (`LastIsNUL`), which no action states and all keep: it is why echo,
  reading behind the line, ends. `StringIs` and `HeldString` say what string an array
  holds, `TrimmedHolds` what `rtrim` does to it.
- `BootSound`, `BootSpec => [](NoFault /\ SegmentsInPlace)`, from `BootAssumption` (32-bit addresses).
  `PackedReads` is the arithmetic: what `set_gdt_entry` cuts into fields, the processor reads as
  the same base and limit. `BootInv` says for every `pc` which entries are filled, which access
  bytes the processor has marked, and what the registers hold; `NoFault` follows
  because each load finds its entry in it.
- `ConsoleSound`: every step of the machine is a step of `Shell` or leaves its variables alone
  (`ShellSteps`), the same for `Boot` (`BootSteps`), so the invariants of the parts are invariants
  of the whole. It adds that the shell reads only after `init_gdt` is done.
- `LineIsShown` (`ShowsLine`), from `ConsoleAssumption`: the lemmas of `VgaProofs`
  about a character, instantiated for the shell's terminal (`Term`), carried over a string
  (`PrintedGood`, `PrintedShows`). `Shows` says that given cells stand before the cursor
  and begin at the left margin, as far as they are still on the screen. `ScreenInv` ties
  that to the line: while it is read and nothing was deleted, prompt and line stand
  there in their colours. It needs the shell's invariant, because a character is echoed if
  and only if the buffer took it, and that every command ends its output at the left margin.

Strings are printed, digits read and expressions evaluated by recursive functions. What they do is
proved by a minimal counterexample (`Least`, `UpTo`), and that they exist by building them up step by
step (`AlongExists`), instead of the library's induction theorems, which take an operator.

**Liveness, the half that can be proved.** Each run that must end does so for two reasons: its
steps lead towards the end, and they are taken. The first is an action property, and proved:

- `ForwardGoesOn` (for `Terminates`): a step of a program whose jumps go forward raises `exec_pos`, ends
  the run or asks for input.
- `NoLineTwice` (for `Ends`): a step of a WOG run raises `pos`, which stays in the text, or ends the run.
- `EvaluationEnds` (for `Answers`): a step of the calculator moves the pointer forward in the line, or
  leaves it and lowers the stage of the evaluation, or the turns left of the division.
- `WaitersServed` (for `Answered`): a printing byte keeps its place under the typist, moves up by one
  with each read, and at the front ends the wait, in any state of the modifiers.

**Only model-checked.** The other half: that the steps are taken, by the fairness of section 4, is
beyond TLAPS, and with it the properties themselves, `Answered`, `Terminates`, `CountsThrough`, `Ends` and
`Answers`. The violations are single behaviours, which TLC shows.

## 7. Not modelled, and why

- Parsing of QBASIC and WOG text into tokens: the models start from lines, statements
  and values. What a line longer than its buffer means, once cut into pieces, is
  modelled for WOG (a piece is a line) and left out for QBASIC.
- `float.c`, `sadd*` and the conversions to float of `int.c`, `set_kernel_stack`, `execute_let_there_be`,
  `lazy_is_ctrl_alt_del`, and `qbasic_run` with a program as argument: no caller, so no state
  depends on them.
- `port.c`: single instructions; their effects are in the callers' actions.
- `boot.asm`: the Multiboot header and the stack pointer, which nothing changes later.
  The loader's own descriptor table is only "not yet ours" (`gdtr = <<>>`).
- Interrupts: never enabled. User-mode descriptors are filled in and never loaded.
- Waiting for the keyboard controller in `reboot`: the machine is reset or stops either way.
- Texts on the screen that no property speaks of: help, info, cfetch, banners, the
  frames of the editors.
- The effect on memory of a store through NULL: only recorded (`wild`).
- Optimisation: the build asks for none, and without it signed overflow wraps, as it
  does in the models.

-------------------------------- MODULE Vga --------------------------------
(***************************************************************************)
(* The VGA text-mode terminal of src/kernel/io/vga.c.                      *)
(*                                                                         *)
(* The driver keeps a row, a column and a colour, writes cells of video    *)
(* memory, scrolls when the last row is left, and programs the position of *)
(* the hardware cursor through two CRT controller registers.  The four are *)
(* one record, so that a client which calls terminal_putchar several times *)
(* in one step can compose the calls.                                      *)
(***************************************************************************)
EXTENDS Integers, Sequences

CONSTANTS
  VGA_WIDTH,   \* columns of the screen, 80 in the source
  VGA_HEIGHT,  \* rows of the screen, 25 in the source
  Char,        \* the bytes callers pass to terminal_putchar, never NUL
  Color,       \* the attribute bytes callers pass to terminal_setcolor
  Newline,     \* '\n', the only byte the driver interprets
  Space,       \* ' '
  LightGrey,   \* the attribute terminal_initialize selects
  String       \* the strings callers pass to terminal_writestring

ASSUME VgaAssumption ==
  /\ VGA_WIDTH \in Nat \ {0}
  /\ VGA_HEIGHT \in Nat \ {0}
  /\ Newline \in Char
  /\ Space \in Char \ {Newline}
  /\ LightGrey \in Color
  /\ String \subseteq Seq(Char)

VARIABLES
  term,     \* [row, col, color, cells, cursor]: driver state and video memory
  pending   \* what terminal_write still has to print of its argument

vgaVars == <<term, pending>>

-----------------------------------------------------------------------------
(* The driver's functions, on the record of its state.                     *)

Slot == 0 .. (VGA_WIDTH * VGA_HEIGHT - 1)

vga_entry(c, color) == [ch |-> c, color |-> color]

Cell == [ch : Char \ {Newline}, color : Color]

Terminal == [row    : 0 .. VGA_HEIGHT - 1,
             col    : 0 .. VGA_WIDTH - 1,
             color  : Color,
             cells  : [Slot -> Cell],
             cursor : Slot]

Position(t) == t.row * VGA_WIDTH + t.col

update_cursor(t) == [t EXCEPT !.cursor = Position(t)]

\* Mutant: the bottom row is not cleared.
scrollUncleared(t) ==
  [s \in Slot |-> IF s < (VGA_HEIGHT - 1) * VGA_WIDTH
                  THEN t.cells[s + VGA_WIDTH] ELSE t.cells[s]]

\* memmove of all rows but the first onto the screen's start, then a blank
\* bottom row in the current colour.
scroll(t) ==
  [s \in Slot |-> IF s < (VGA_HEIGHT - 1) * VGA_WIDTH
                  THEN t.cells[s + VGA_WIDTH]
                  ELSE vga_entry(Space, t.color)]

terminal_initialize ==
  [row    |-> 0,
   col    |-> 0,
   color  |-> LightGrey,
   cells  |-> [s \in Slot |-> vga_entry(Space, LightGrey)],
   cursor |-> 0]

terminal_setcolor(t, color) == [t EXCEPT !.color = color]

\* t with another position and other video memory.
At(t, row, col, cells) ==
  [row |-> row, col |-> col, color |-> t.color, cells |-> cells,
   cursor |-> t.cursor]

\* Mutant: term_col is not reset.
NextRowSameColumn(t, cells) == At(t, t.row + 1, t.col, cells)

NextRow(t, cells) == At(t, t.row + 1, 0, cells)

\* The store into BUFFER, and the step to the next column or the next row.
Store(t, c) ==
  LET cells == [t.cells EXCEPT ![Position(t)] = vga_entry(c, t.color)]
  IN  IF t.col + 1 = VGA_WIDTH
      THEN NextRow(t, cells)
      ELSE At(t, t.row, t.col + 1, cells)

\* Mutant: term_row is not taken back after the scroll.
KeepOnScreenBelow(t) ==
  IF t.row = VGA_HEIGHT THEN At(t, t.row, t.col, scroll(t)) ELSE t

KeepOnScreen(t) ==
  IF t.row = VGA_HEIGHT THEN At(t, t.row - 1, t.col, scroll(t)) ELSE t

terminal_putchar(t, c) ==
  update_cursor(KeepOnScreen(IF c = Newline THEN NextRow(t, t.cells) ELSE Store(t, c)))

-----------------------------------------------------------------------------
(* The driver as a state machine: the kernel is single threaded, so a call *)
(* starts only when the previous one has returned.                         *)

\* kernel.c calls terminal_initialize before anything else touches the screen.
VgaInit ==
  /\ term = terminal_initialize
  /\ pending = <<>>

Initialize ==
  /\ pending = <<>>
  /\ term' = terminal_initialize
  /\ UNCHANGED pending

SetColor(color) ==
  /\ pending = <<>>
  /\ term' = terminal_setcolor(term, color)
  /\ UNCHANGED pending

PutChar(c) ==
  /\ pending = <<>>
  /\ term' = terminal_putchar(term, c)
  /\ UNCHANGED pending

WriteString(s) ==
  /\ pending = <<>>
  /\ pending' = s
  /\ UNCHANGED term

\* One iteration of the loop in terminal_write.
WriteNext ==
  /\ pending # <<>>
  /\ term' = terminal_putchar(term, Head(pending))
  /\ pending' = Tail(pending)

VgaNext ==
  \/ Initialize
  \/ \E color \in Color : SetColor(color)
  \/ \E c \in Char : PutChar(c)
  \/ \E s \in String : WriteString(s)
  \/ WriteNext

VgaSpec == VgaInit /\ [][VgaNext]_vgaVars

-----------------------------------------------------------------------------
(* Every field of the driver has its range: the row and the column are on  *)
(* the screen whenever a function of vga.c is entered, and the cursor      *)
(* register holds the index of a cell.                                     *)
VgaTypeOK ==
  /\ term \in Terminal
  /\ pending \in Seq(Char)

(* The hardware cursor stands where the next character will be stored, and *)
(* every cell from it to the end of video memory is blank: the interplay   *)
(* of wrap, newline, scroll and update_cursor never leaves text of an      *)
(* earlier line under or after the cursor.                                 *)
BlankFrom(t, pos) == \A s \in Slot : s >= pos => t.cells[s].ch = Space

BlankAhead == term.cursor = Position(term) /\ BlankFrom(term, term.cursor)

-----------------------------------------------------------------------------
(* What the terminal promises: a teletype whose last VGA_HEIGHT lines show.*)

\* A blank looks the same in every foreground colour.
Look(cell) == IF cell.ch = Space THEN vga_entry(Space, LightGrey) ELSE cell

Shown ==
  [r \in 1 .. term.row + 1 |->
    [x \in 0 .. VGA_WIDTH - 1 |-> Look(term.cells[(r - 1) * VGA_WIDTH + x])]]

Paper == INSTANCE Teletype
           WITH lines <- Shown, column <- term.col, ink <- term.color,
                Width <- VGA_WIDTH, Height <- VGA_HEIGHT

(* The flat cell array with its index arithmetic, memmove and in-place     *)
(* blanking behaves as the teletype does: every character lands on the     *)
(* last line, and what leaves the screen is always the oldest line.        *)
ImplementsTeletype == Paper!Spec
=============================================================================

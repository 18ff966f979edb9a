------------------------------ MODULE VgaProofs -----------------------------
(***************************************************************************)
(* Proofs about the terminal of module Vga, for screens of every size.     *)
(***************************************************************************)
EXTENDS Vga, TLAPS

\* Multiplying by a screen width keeps the order of row numbers.
LEMMA TimesMonotone ==
  ASSUME NEW a \in Int, NEW b \in Int, NEW w \in Nat, a <= b
  PROVE  a * w <= b * w
<1>1. (b - a) * w >= 0
  BY SMT
<1>2. (b - a) * w = b * w - a * w
  BY SMT
<1>. QED BY <1>1, <1>2, SMT

\* A row and a column on the screen address a cell, and the rows above the
\* last one end before it begins.
LEMMA OnScreen ==
  ASSUME NEW r \in 0 .. VGA_HEIGHT - 1, NEW x \in 0 .. VGA_WIDTH - 1
  PROVE  /\ r * VGA_WIDTH + x \in Slot
         /\ (r + 1) * VGA_WIDTH = r * VGA_WIDTH + VGA_WIDTH
         /\ (VGA_HEIGHT - 1) * VGA_WIDTH = VGA_WIDTH * VGA_HEIGHT - VGA_WIDTH
         /\ (VGA_HEIGHT - 1) * VGA_WIDTH \in Nat
         /\ r * VGA_WIDTH \in Int
<1>. USE VgaAssumption
<1>1. r * VGA_WIDTH <= (VGA_HEIGHT - 1) * VGA_WIDTH
  BY TimesMonotone
<1>2. 0 * VGA_WIDTH <= r * VGA_WIDTH
  BY TimesMonotone
<1>3. (VGA_HEIGHT - 1) * VGA_WIDTH = VGA_WIDTH * VGA_HEIGHT - VGA_WIDTH
  BY SMT
<1>4. (r + 1) * VGA_WIDTH = r * VGA_WIDTH + VGA_WIDTH
  BY SMT
<1>5. r * VGA_WIDTH \in Int /\ VGA_WIDTH * VGA_HEIGHT \in Int
  BY SMT
<1>. QED BY <1>1, <1>2, <1>3, <1>4, <1>5, SMT DEF Slot

\* The driver's record between the move to the next position and the check
\* of the last row: the row may have left the screen by one.
Moved == [row    : 0 .. VGA_HEIGHT,
          col    : 0 .. VGA_WIDTH - 1,
          color  : Color,
          cells  : [Slot -> Cell],
          cursor : Slot]

\* Inside terminal_putchar, before the screen may scroll: the record keeps its
\* shape and nothing is written at or after the new position.
LEMMA MoveSound ==
  ASSUME NEW t \in Terminal, BlankFrom(t, Position(t)),
         NEW c \in Char
  PROVE  LET m == IF c = Newline THEN NextRow(t, t.cells) ELSE Store(t, c)
         IN  m \in Moved /\ BlankFrom(m, Position(m))
<1>. USE VgaAssumption
<1>. DEFINE m == IF c = Newline THEN NextRow(t, t.cells) ELSE Store(t, c)
<1>1. /\ Position(t) \in Slot
      /\ (t.row + 1) * VGA_WIDTH = t.row * VGA_WIDTH + VGA_WIDTH
  BY OnScreen DEF Terminal, Position
<1>. SUFFICES m \in Moved /\ BlankFrom(m, Position(m))
  OBVIOUS
<1>2. CASE c = Newline
  <2>1. m = At(t, t.row + 1, 0, t.cells)
    BY <1>2 DEF NextRow
  <2>. HIDE DEF m
  <2>2. m \in Moved /\ m.cells = t.cells
    BY <2>1, SMT DEF At, Terminal, Moved
  <2>3. Position(m) = (t.row + 1) * VGA_WIDTH
    BY <2>1, <1>1, SMT DEF At, Position, Terminal
  <2>4. Position(m) >= Position(t)
    BY <2>3, <1>1, SMT DEF Position, Terminal, Slot
  <2>5. \A i \in Slot : i >= Position(m) => i >= Position(t)
    BY <2>3, <2>4, <1>1, SMT DEF Slot, Terminal
  <2>. QED BY <2>2, <2>5 DEF BlankFrom
<1>3. CASE c # Newline
  <2>. DEFINE stored == [t.cells EXCEPT ![Position(t)] = vga_entry(c, t.color)]
  <2>1. m = IF t.col + 1 = VGA_WIDTH THEN At(t, t.row + 1, 0, stored)
                                     ELSE At(t, t.row, t.col + 1, stored)
    BY <1>3 DEF Store, NextRow
  <2>2. stored \in [Slot -> Cell]
    <3>1. vga_entry(c, t.color) \in Cell
      BY <1>3 DEF Terminal, vga_entry, Cell
    <3>. QED BY <3>1, <1>1 DEF Terminal
  <2>3. \A i \in Slot : i # Position(t) => stored[i] = t.cells[i]
    BY <1>1 DEF Terminal
  <2>. HIDE DEF stored, m
  <2>4. m \in Moved /\ m.cells = stored
    BY <2>1, <2>2, SMT DEF At, Terminal, Moved
  <2>5. Position(m) = Position(t) + 1
    BY <2>1, <1>1, SMTT(30) DEF At, Position, Terminal
  <2>. QED BY <2>3, <2>4, <2>5, <1>1, SMT DEF BlankFrom, Slot
<1>. QED BY <1>2, <1>3

\* terminal_putchar leaves the driver's state in its ranges, the cursor where
\* the next character goes and only blanks from there on.
LEMMA PutcharSound ==
  ASSUME NEW t \in Terminal, BlankFrom(t, Position(t)),
         NEW c \in Char
  PROVE  LET u == terminal_putchar(t, c)
         IN  u \in Terminal /\ u.cursor = Position(u) /\ BlankFrom(u, u.cursor)
<1>. USE VgaAssumption
<1>. DEFINE m == IF c = Newline THEN NextRow(t, t.cells) ELSE Store(t, c)
            k == KeepOnScreen(m)
            u == terminal_putchar(t, c)
<1>1. m \in Moved /\ BlankFrom(m, Position(m))
  BY MoveSound
<1>2. u = update_cursor(k)
  BY DEF terminal_putchar
<1>. HIDE DEF m
<1>3. k \in Moved /\ k.row < VGA_HEIGHT /\ BlankFrom(k, Position(k))
  <2>1. CASE m.row # VGA_HEIGHT
    BY <2>1, <1>1, SMT DEF KeepOnScreen, Moved
  <2>2. CASE m.row = VGA_HEIGHT
    <3>. DEFINE last == (VGA_HEIGHT - 1) * VGA_WIDTH
    <3>1. /\ last \in Nat
          /\ last = VGA_WIDTH * VGA_HEIGHT - VGA_WIDTH
      BY OnScreen, 0 \in 0 .. VGA_HEIGHT - 1, 0 \in 0 .. VGA_WIDTH - 1
    <3>2. vga_entry(Space, m.color) \in Cell
      BY <1>1 DEF Moved, vga_entry, Cell
    <3>3. \A s \in Slot : s < last => s + VGA_WIDTH \in Slot
      BY <3>1, SMT DEF Slot
    <3>4. scroll(m) \in [Slot -> Cell]
      BY <3>2, <3>3, <1>1 DEF scroll, Moved
    <3>5. \A s \in Slot : s >= last => scroll(m)[s].ch = Space
      BY <3>1, SMT DEF scroll, vga_entry, Slot
    <3>6. k = At(m, m.row - 1, m.col, scroll(m))
      BY <2>2 DEF KeepOnScreen
    <3>. HIDE DEF k
    <3>7. k \in Moved /\ k.row = VGA_HEIGHT - 1 /\ k.cells = scroll(m)
      BY <3>4, <3>6, <2>2, <1>1, SMT DEF At, Moved
    <3>8. \A s \in Slot : s >= Position(k) => s >= last
      BY <3>1, <3>7, SMT DEF Position, Moved, Slot
    <3>. QED BY <3>5, <3>7, <3>8, SMT DEF BlankFrom
  <2>. QED BY <2>1, <2>2
<1>. HIDE DEF k, u
<1>4. k \in Terminal
  BY <1>3, SMT DEF Moved, Terminal
<1>5. Position(k) \in Slot
  BY <1>4, OnScreen DEF Terminal, Position
<1>6. /\ u \in Terminal
      /\ u.cursor = Position(k)
      /\ u.row = k.row /\ u.col = k.col /\ u.cells = k.cells
  BY <1>2, <1>4, <1>5 DEF update_cursor, Terminal
<1>7. u.cursor = Position(u) /\ BlankFrom(u, u.cursor)
  BY <1>3, <1>6 DEF Position, BlankFrom
<1>. QED BY <1>6, <1>7 DEF u

\* The terminal u is t after one more character on its line: perhaps one row
\* further up, with all that was written before it.
Advanced(t, u, c) ==
  /\ u.color = t.color
  /\ \E d \in {0, VGA_WIDTH} :
       /\ Position(u) = Position(t) + 1 - d
       /\ \A s \in Slot : s < Position(u) =>
            /\ s + d \in Slot
            /\ u.cells[s] = IF s + d = Position(t) THEN vga_entry(c, t.color)
                            ELSE t.cells[s + d]

\* Wrap and scroll keep what stands before the cursor.
LEMMA PutcharAdvances ==
  ASSUME NEW t \in Terminal, NEW c \in Char \ {Newline}
  PROVE  Advanced(t, terminal_putchar(t, c), c)
<1>. USE VgaAssumption
<1>. DEFINE W == VGA_WIDTH
            stored == [t.cells EXCEPT ![Position(t)] = vga_entry(c, t.color)]
            m == Store(t, c)
            k == KeepOnScreen(m)
            u == terminal_putchar(t, c)
<1>1. /\ Position(t) \in Slot /\ t.row \in 0 .. VGA_HEIGHT - 1 /\ t.col \in 0 .. W - 1
      /\ Position(t) = t.row * W + t.col /\ t.row * W \in Int
      /\ (t.row + 1) * W = t.row * W + W
      /\ (VGA_HEIGHT - 1) * W = W * VGA_HEIGHT - W
  BY OnScreen DEF Terminal, Position
<1>2. \A s \in Slot : stored[s] = IF s = Position(t) THEN vga_entry(c, t.color)
                                  ELSE t.cells[s]
  BY <1>1 DEF Terminal
<1>3. m = IF t.col + 1 = W THEN At(t, t.row + 1, 0, stored)
                           ELSE At(t, t.row, t.col + 1, stored)
  BY DEF Store, NextRow
<1>. HIDE DEF stored, m
<1>4. /\ m.cells = stored /\ m.color = t.color
      /\ m.row \in 0 .. VGA_HEIGHT /\ m.row = VGA_HEIGHT => m.col = 0
      /\ Position(m) = Position(t) + 1
  <2>1. m.cells = stored /\ m.color = t.color
    BY <1>3 DEF At
  <2>2. CASE t.col + 1 = W
    <3>1. m.row = t.row + 1 /\ m.col = 0
      BY <1>3, <2>2 DEF At
    <3>2. Position(m) = t.row * W + W
      BY <1>1, <3>1 DEF Position
    <3>. QED BY <1>1, <2>1, <2>2, <3>1, <3>2
  <2>3. CASE t.col + 1 # W
    <3>1. m.row = t.row /\ m.col = t.col + 1
      BY <1>3, <2>3 DEF At
    <3>2. Position(m) = t.row * W + (t.col + 1)
      BY <3>1 DEF Position
    <3>3. Position(m) = Position(t) + 1
      <4>. DEFINE base == t.row * W
      <4>1. base \in Int /\ t.col \in Int /\ Position(t) = base + t.col
            /\ Position(m) = base + (t.col + 1)
        BY <1>1, <3>2
      <4>. HIDE DEF base
      <4>. QED BY <4>1
    <3>4. m.row \in 0 .. VGA_HEIGHT /\ m.row # VGA_HEIGHT
      BY <1>1, <3>1
    <3>. QED BY <2>1, <3>3, <3>4
  <2>. QED BY <2>2, <2>3
<1>5. u = update_cursor(k)
  BY DEF terminal_putchar, m
<1>6. /\ u.cells = k.cells /\ u.color = k.color /\ Position(u) = Position(k)
  BY <1>5 DEF update_cursor, Position
<1>. HIDE DEF u
<1>7. CASE m.row # VGA_HEIGHT
  <2>1. k = m
    BY <1>7 DEF KeepOnScreen
  <2>2. Position(u) = Position(t) + 1 - 0 /\ u.cells = stored /\ u.color = t.color
    BY <1>1, <1>4, <1>6, <2>1 DEF Slot
  <2>3. \A s \in Slot : s + 0 = s
    BY DEF Slot
  <2>. QED BY <1>2, <2>2, <2>3 DEF Advanced, u
<1>8. CASE m.row = VGA_HEIGHT
  <2>. DEFINE last == (VGA_HEIGHT - 1) * W
  <2>1. k = At(m, m.row - 1, m.col, scroll(m))
    BY <1>8 DEF KeepOnScreen
  <2>2. /\ k.cells = scroll(m) /\ k.color = t.color
        /\ k.row = VGA_HEIGHT - 1 /\ k.col = 0
    BY <1>4, <1>8, <2>1 DEF At
  <2>3. Position(k) = last + 0 /\ Position(m) = VGA_HEIGHT * W + 0
    BY <1>4, <1>8, <2>2 DEF Position
  <2>4. VGA_HEIGHT * W = W * VGA_HEIGHT /\ W * VGA_HEIGHT \in Int
    OBVIOUS
  <2>5. Position(k) = Position(t) + 1 - W /\ Position(k) = last
    <3>. DEFINE size == W * VGA_HEIGHT
                below == last
    <3>1. /\ size \in Int /\ Position(t) \in Int /\ below = size - W
          /\ Position(k) = below + 0 /\ Position(t) + 1 = size + 0
      BY <1>1, <1>4, <2>3, <2>4 DEF Slot
    <3>. HIDE DEF size, below, k
    <3>2. Position(k) = Position(t) + 1 - W /\ Position(k) = below
      BY <3>1
    <3>. QED BY <3>2 DEF below
  <2>6. ASSUME NEW s \in Slot, s < last
        PROVE  s + W \in Slot /\ scroll(m)[s] = stored[s + W]
    <3>1. s + W \in Slot
      BY <1>1, <2>4, <2>6 DEF Slot
    <3>. QED BY <1>4, <2>6, <3>1 DEF scroll
  <2>. HIDE DEF k, last
  <2>7. \A s \in Slot : s < Position(u) =>
          /\ s + W \in Slot
          /\ u.cells[s] = IF s + W = Position(t) THEN vga_entry(c, t.color)
                          ELSE t.cells[s + W]
    BY <1>2, <1>6, <2>2, <2>5, <2>6
  <2>8. Position(u) = Position(t) + 1 - W /\ u.color = t.color
    BY <1>6, <2>2, <2>5
  <2>. QED BY <2>7, <2>8 DEF Advanced, u
<1>. QED BY <1>7, <1>8

-----------------------------------------------------------------------------
(* At every point where a function of vga.c may be entered, on a screen of *)
(* any size and for any sequence of calls: row, column, cells and cursor   *)
(* register are in their ranges, the hardware cursor is where the next     *)
(* character will be stored, and from there to the end of video memory     *)
(* there are only blanks.                                                  *)
THEOREM ScreenSound == VgaSpec => [](VgaTypeOK /\ BlankAhead)
<1>. USE VgaAssumption
<1>. DEFINE IInv == VgaTypeOK /\ BlankAhead
<1>1. terminal_initialize \in Terminal
      /\ terminal_initialize.cursor = Position(terminal_initialize)
      /\ BlankFrom(terminal_initialize, terminal_initialize.cursor)
  <2>. DEFINE blank == [s \in Slot |-> vga_entry(Space, LightGrey)]
  <2>1. vga_entry(Space, LightGrey) \in Cell
    BY DEF vga_entry, Cell
  <2>2. blank \in [Slot -> Cell] /\ \A s \in Slot : blank[s].ch = Space
    BY <2>1 DEF vga_entry
  <2>3. 0 \in Slot
    <3>1. 0 * VGA_WIDTH + 0 \in Slot
      BY OnScreen, 0 \in 0 .. VGA_HEIGHT - 1, 0 \in 0 .. VGA_WIDTH - 1
    <3>2. 0 * VGA_WIDTH + 0 = 0
      BY SMT
    <3>. QED BY <3>1, <3>2
  <2>4. terminal_initialize = [row |-> 0, col |-> 0, color |-> LightGrey,
                               cells |-> blank, cursor |-> 0]
    BY DEF terminal_initialize
  <2>. HIDE DEF blank
  <2>. QED BY <2>2, <2>3, <2>4, SMT DEF Terminal, Position, BlankFrom
<1>2. VgaInit => IInv
  BY <1>1 DEF VgaInit, VgaTypeOK, BlankAhead
<1>3. IInv /\ [VgaNext]_vgaVars => IInv'
  <2>. SUFFICES ASSUME IInv, [VgaNext]_vgaVars PROVE IInv'
    OBVIOUS
  <2>. USE DEF VgaTypeOK, BlankAhead
  <2>1. CASE Initialize
    BY <2>1, <1>1 DEF Initialize
  <2>2. ASSUME NEW color \in Color, SetColor(color) PROVE IInv'
    <3>1. /\ term'  \in Terminal
          /\ term'.cursor = term.cursor /\ term'.cells = term.cells
          /\ term'.row = term.row /\ term'.col = term.col
      BY <2>2 DEF SetColor, terminal_setcolor, Terminal
    <3>. QED BY <2>2, <3>1 DEF SetColor, Position, BlankFrom
  <2>3. ASSUME NEW c \in Char, PutChar(c) PROVE IInv'
    BY <2>3, PutcharSound DEF PutChar
  <2>4. ASSUME NEW s \in String, WriteString(s) PROVE IInv'
    BY <2>4 DEF WriteString
  <2>5. CASE WriteNext
    <3>1. Head(pending) \in Char /\ Tail(pending) \in Seq(Char)
      BY <2>5, SMT DEF WriteNext
    <3>. QED BY <2>5, <3>1, PutcharSound DEF WriteNext
  <2>6. CASE UNCHANGED vgaVars
    BY <2>6 DEF vgaVars
  <2>. QED BY <2>1, <2>2, <2>3, <2>4, <2>5, <2>6 DEF VgaNext
<1>. QED BY <1>2, <1>3, PTL DEF VgaSpec

\* On a screen of any size: no character is stored outside video memory, and
\* the two cursor registers hold a slot of it.
THEOREM TerminalInRange == VgaSpec => []VgaTypeOK
<1>. QED BY ScreenSound, PTL

-----------------------------------------------------------------------------
(* The terminal is a teletype: the cell array, row by row.                 *)

\* What a row of the screen looks like, and what its first rows do: Shown is
\* RowsOf of all that the driver has used.
RowOf(cells, r) == [x \in 0 .. VGA_WIDTH - 1 |-> Look(cells[r * VGA_WIDTH + x])]

RowsOf(cells, row) == [r \in 1 .. row + 1 |-> RowOf(cells, r - 1)]

Glyph == [ch : Char, color : Color]
RowGlyphs == [0 .. VGA_WIDTH - 1 -> Glyph]

LEMMA RowIs ==
  ASSUME NEW cells \in [Slot -> Cell], NEW r \in 0 .. VGA_HEIGHT - 1
  PROVE  RowOf(cells, r) \in RowGlyphs
<1>. USE VgaAssumption
<1>1. \A cell \in Cell : Look(cell) \in Glyph
  BY DEF Look, Cell, Glyph, vga_entry
<1>2. \A x \in 0 .. VGA_WIDTH - 1 : Look(cells[r * VGA_WIDTH + x]) \in Glyph
  BY <1>1, OnScreen
<1>. QED BY <1>2 DEF RowOf, RowGlyphs

LEMMA RowsAre ==
  ASSUME NEW cells \in [Slot -> Cell], NEW row \in 0 .. VGA_HEIGHT - 1
  PROVE  /\ RowsOf(cells, row) \in Seq(RowGlyphs)
         /\ Len(RowsOf(cells, row)) = row + 1
         /\ \A r \in 1 .. row + 1 : RowsOf(cells, row)[r] = RowOf(cells, r - 1)
<1>1. \A r \in 1 .. row + 1 : RowOf(cells, r - 1) \in RowGlyphs
  <2>1. \A r \in 1 .. row + 1 : r - 1 \in 0 .. VGA_HEIGHT - 1
    BY VgaAssumption
  <2>. QED BY <2>1, RowIs
<1>2. row + 1 \in Nat
  OBVIOUS
<1>. QED BY <1>1, <1>2 DEF RowsOf

\* A row of spaces is a blank line.
LEMMA BlankRow ==
  ASSUME NEW a, NEW r,
         \A x \in 0 .. VGA_WIDTH - 1 : a[r * VGA_WIDTH + x].ch = Space
  PROVE  RowOf(a, r) = Paper!BlankLine
<1>1. \A cell : cell.ch = Space => Look(cell) = Paper!BlankCell
  BY DEF Look, vga_entry, Paper!BlankCell
<1>2. \A x \in 0 .. VGA_WIDTH - 1 : Look(a[r * VGA_WIDTH + x]) = Paper!BlankCell
  BY <1>1
<1>. QED BY <1>2 DEF RowOf, Paper!BlankLine

\* A cell after the end of one row is a cell of a later row.
LEMMA Below ==
  ASSUME NEW r \in 0 .. VGA_HEIGHT - 1, NEW q \in 0 .. VGA_HEIGHT - 1, r < q,
         NEW x \in 0 .. VGA_WIDTH - 1, NEW y \in 0 .. VGA_WIDTH - 1
  PROVE  r * VGA_WIDTH + x < q * VGA_WIDTH + y
<1>. USE VgaAssumption
<1>1. (r + 1) * VGA_WIDTH <= q * VGA_WIDTH
  BY TimesMonotone
<1>2. (r + 1) * VGA_WIDTH = r * VGA_WIDTH + VGA_WIDTH
  BY OnScreen
<1>3. r * VGA_WIDTH \in Int /\ q * VGA_WIDTH \in Int
  OBVIOUS
<1>. QED BY <1>1, <1>2, <1>3

\* Leaving a row below which all is blank feeds a line: on the last row the
\* oldest line is torn off, whatever memmove and blanking do to the cells.
LEMMA FedIs ==
  ASSUME NEW t \in Terminal, NEW cells \in [Slot -> Cell],
         \A s \in Slot : s >= (t.row + 1) * VGA_WIDTH => cells[s].ch = Space
  PROVE  LET k == KeepOnScreen(NextRow(t, cells))
         IN  /\ RowsOf(k.cells, k.row) = Paper!Fed(RowsOf(cells, t.row))
             /\ k.col = 0 /\ k.color = t.color
<1>. USE VgaAssumption
<1>. DEFINE W == VGA_WIDTH
            old == RowsOf(cells, t.row)
            n == NextRow(t, cells)
            k == KeepOnScreen(n)
            blank == Paper!BlankLine
<1>1. t.row \in 0 .. VGA_HEIGHT - 1 /\ t.row \in Nat
  BY DEF Terminal
<1>2. n = [row |-> t.row + 1, col |-> 0, color |-> t.color, cells |-> cells,
           cursor |-> t.cursor]
  BY DEF NextRow, At
<1>3. blank \in RowGlyphs
  BY DEF Paper!BlankLine, Paper!BlankCell, RowGlyphs, Glyph
<1>4. /\ old \in Seq(RowGlyphs) /\ Len(old) = t.row + 1
      /\ \A r \in 1 .. t.row + 1 : old[r] = RowOf(cells, r - 1)
  BY <1>1, RowsAre
<1>. HIDE DEF blank
<1>5. CASE t.row + 1 < VGA_HEIGHT
  <2>1. k = n
    BY <1>1, <1>2, <1>5 DEF KeepOnScreen
  <2>. DEFINE new == RowsOf(cells, t.row + 1)
  <2>2. t.row + 1 \in 0 .. VGA_HEIGHT - 1
    BY <1>1, <1>5
  <2>3. /\ new \in Seq(RowGlyphs) /\ Len(new) = (t.row + 1) + 1
        /\ \A r \in 1 .. (t.row + 1) + 1 : new[r] = RowOf(cells, r - 1)
    <3>. HIDE DEF new
    <3>. QED BY <2>2, RowsAre DEF new
  <2>4. RowOf(cells, t.row + 1) = blank
    <3>1. ASSUME NEW x \in 0 .. W - 1
          PROVE  cells[(t.row + 1) * W + x].ch = Space
      <4>1. (t.row + 1) * W + x \in Slot
        BY <2>2, OnScreen
      <4>2. (t.row + 1) * W + x >= (t.row + 1) * W
        BY <1>1
      <4>. QED BY <4>1, <4>2
    <3>. QED BY <3>1, BlankRow DEF blank
  <2>5. Paper!Fed(old) = Append(old, blank)
    <3>1. Len(old) # VGA_HEIGHT
      BY <1>1, <1>4, <1>5
    <3>. HIDE DEF old
    <3>. QED BY <3>1 DEF Paper!Fed, blank
  <2>. HIDE DEF new, old
  <2>6. \A r \in 1 .. t.row + 1 : new[r] = old[r]
    BY <1>1, <1>4, <2>3
  <2>7. new[t.row + 2] = blank
    BY <1>1, <2>3, <2>4
  <2>8. new = Append(old, blank)
    BY <1>1, <1>3, <1>4, <2>3, <2>6, <2>7, SMTT(30)
  <2>9. k.cells = cells /\ k.row = t.row + 1 /\ k.col = 0 /\ k.color = t.color
    BY <1>2, <2>1
  <2>. QED BY <2>5, <2>8, <2>9 DEF new, old
<1>6. CASE t.row + 1 = VGA_HEIGHT
  <2>. DEFINE last == (VGA_HEIGHT - 1) * W
              moved == scroll(n)
  <2>1. k = [row |-> t.row, col |-> 0, color |-> t.color, cells |-> moved,
             cursor |-> t.cursor]
    BY <1>1, <1>2, <1>6 DEF KeepOnScreen, At
  <2>2. last \in Nat /\ last = W * VGA_HEIGHT - W
    BY OnScreen, 0 \in 0 .. VGA_HEIGHT - 1, 0 \in 0 .. W - 1
  <2>3. moved = [s \in Slot |-> IF s < last THEN cells[s + W]
                                 ELSE vga_entry(Space, t.color)]
    BY <1>2 DEF scroll
  <2>4. \A s \in Slot : s < last => s + W \in Slot
    BY <2>2 DEF Slot
  <2>5. vga_entry(Space, t.color) \in Cell
    BY DEF Terminal, vga_entry, Cell
  <2>. HIDE DEF last, moved
  <2>6. moved \in [Slot -> Cell]
    BY <2>3, <2>4, <2>5
  <2>. DEFINE new == RowsOf(moved, t.row)
  <2>7. /\ new \in Seq(RowGlyphs) /\ Len(new) = t.row + 1
        /\ \A r \in 1 .. t.row + 1 : new[r] = RowOf(moved, r - 1)
    <3>. HIDE DEF new
    <3>. QED BY <1>1, <2>6, RowsAre DEF new
  <2>8. ASSUME NEW r \in 1 .. t.row
        PROVE  RowOf(moved, r - 1) = RowOf(cells, r)
    <3>1. r - 1 \in 0 .. VGA_HEIGHT - 1 /\ r - 1 < VGA_HEIGHT - 1
      BY <1>1
    <3>2. ((r - 1) + 1) * W = (r - 1) * W + W
      BY <3>1, OnScreen, 0 \in 0 .. W - 1
    <3>3. (r - 1) + 1 = r /\ (r - 1) * W \in Int
      BY <3>1
    <3>4. ASSUME NEW x \in 0 .. W - 1
          PROVE  Look(moved[(r - 1) * W + x]) = Look(cells[r * W + x])
      <4>1. (r - 1) * W + x \in Slot
        BY <3>1, OnScreen
      <4>2. (r - 1) * W + x < (VGA_HEIGHT - 1) * W + 0
        BY <3>1, Below, 0 \in 0 .. W - 1, VGA_HEIGHT - 1 \in 0 .. VGA_HEIGHT - 1
      <4>3. (r - 1) * W + x < last
        BY <4>2, <2>2 DEF last
      <4>4. ((r - 1) * W + x) + W = r * W + x
        BY <3>2, <3>3
      <4>. QED BY <2>3, <4>1, <4>3, <4>4
    <3>5. \A x \in 0 .. VGA_WIDTH - 1 :
            Look(moved[(r - 1) * VGA_WIDTH + x]) = Look(cells[r * VGA_WIDTH + x])
      BY <3>4
    <3>. QED BY <3>5 DEF RowOf
  <2>9. RowOf(moved, t.row) = blank
    <3>1. ASSUME NEW x \in 0 .. W - 1
          PROVE  moved[t.row * W + x].ch = Space
      <4>1. t.row * W + x \in Slot
        BY <1>1, OnScreen
      <4>2. t.row * W + x >= last
        <5>1. t.row = VGA_HEIGHT - 1
          BY <1>1, <1>6
        <5>2. last + x >= last
          BY <2>2
        <5>. QED BY <5>1, <5>2 DEF last
      <4>3. moved[t.row * W + x] = vga_entry(Space, t.color)
        BY <2>2, <2>3, <4>1, <4>2 DEF Slot
      <4>. QED BY <4>3 DEF vga_entry
    <3>. QED BY <3>1, BlankRow DEF blank
  <2>10. Paper!Fed(old) = Append(Tail(old), blank)
    <3>1. Len(old) = VGA_HEIGHT
      BY <1>1, <1>4, <1>6
    <3>. HIDE DEF old
    <3>. QED BY <3>1 DEF Paper!Fed, blank
  <2>. HIDE DEF new, old
  <2>11. /\ Tail(old) \in Seq(RowGlyphs) /\ Len(Tail(old)) = t.row
         /\ \A r \in 1 .. t.row : Tail(old)[r] = old[r + 1]
    BY <1>1, <1>4
  <2>12. \A r \in 1 .. t.row : new[r] = Tail(old)[r]
    BY <1>1, <1>4, <2>7, <2>8, <2>11
  <2>13. new[t.row + 1] = blank
    BY <1>1, <2>7, <2>9
  <2>14. new = Append(Tail(old), blank)
    BY <1>1, <1>3, <2>7, <2>11, <2>12, <2>13
  <2>15. k.cells = moved /\ k.row = t.row /\ k.col = 0 /\ k.color = t.color
    BY <2>1
  <2>. QED BY <2>10, <2>14, <2>15 DEF new, old
<1>. QED BY <1>1, <1>5, <1>6

\* A store at the cursor marks that place of the last line.
LEMMA TypedIs ==
  ASSUME NEW t \in Terminal, NEW c \in Char \ {Newline}
  PROVE  LET stored == [t.cells EXCEPT ![Position(t)] = vga_entry(c, t.color)]
             old == RowsOf(t.cells, t.row)
         IN  /\ stored \in [Slot -> Cell]
             /\ RowsOf(stored, t.row) =
                  [old EXCEPT ![t.row + 1] =
                     [old[t.row + 1] EXCEPT ![t.col] = Look(vga_entry(c, t.color))]]
<1>. USE VgaAssumption
<1>. DEFINE W == VGA_WIDTH
            mark == vga_entry(c, t.color)
            stored == [t.cells EXCEPT ![Position(t)] = mark]
            old == RowsOf(t.cells, t.row)
            new == RowsOf(stored, t.row)
            line == [RowOf(t.cells, t.row) EXCEPT ![t.col] = Look(mark)]
<1>1. /\ t.row \in 0 .. VGA_HEIGHT - 1 /\ t.row \in Nat /\ t.col \in 0 .. W - 1
      /\ t.cells \in [Slot -> Cell] /\ Position(t) = t.row * W + t.col
      /\ mark \in Cell
  BY DEF Terminal, Position, vga_entry, Cell
<1>2. Position(t) \in Slot
  BY <1>1, OnScreen
<1>. HIDE DEF mark
<1>3. /\ stored \in [Slot -> Cell]
      /\ \A s \in Slot : stored[s] = IF s = Position(t) THEN mark ELSE t.cells[s]
  BY <1>1, <1>2
<1>. HIDE DEF stored
<1>4. /\ old \in Seq(RowGlyphs) /\ Len(old) = t.row + 1
      /\ \A r \in 1 .. t.row + 1 : old[r] = RowOf(t.cells, r - 1)
  BY <1>1, RowsAre
<1>5. /\ new \in Seq(RowGlyphs) /\ Len(new) = t.row + 1
      /\ \A r \in 1 .. t.row + 1 : new[r] = RowOf(stored, r - 1)
  BY <1>1, <1>3, RowsAre
<1>. HIDE DEF old, new
<1>6. ASSUME NEW r \in 1 .. t.row
      PROVE  RowOf(stored, r - 1) = RowOf(t.cells, r - 1)
  <2>1. r - 1 \in 0 .. VGA_HEIGHT - 1 /\ r - 1 < t.row
    BY <1>1
  <2>2. ASSUME NEW x \in 0 .. W - 1
        PROVE  stored[(r - 1) * W + x] = t.cells[(r - 1) * W + x]
    <3>1. (r - 1) * W + x \in Slot
      BY <2>1, OnScreen
    <3>2. (r - 1) * W + x < t.row * W + t.col
      BY <1>1, <2>1, Below
    <3>3. (r - 1) * W + x # Position(t)
      BY <1>1, <1>2, <3>1, <3>2 DEF Slot
    <3>. QED BY <1>3, <3>1, <3>3
  <2>. QED BY <2>2 DEF RowOf
<1>7. RowOf(stored, t.row) = line
  <2>1. ASSUME NEW x \in 0 .. W - 1
        PROVE  stored[t.row * W + x] =
                 IF x = t.col THEN mark ELSE t.cells[t.row * W + x]
    <3>1. t.row * W + x \in Slot /\ t.row * W \in Int
      BY <1>1, OnScreen
    <3>2. t.row * W + x = Position(t) <=> x = t.col
      <4>. DEFINE base == t.row * W
      <4>1. base \in Int /\ x \in Int /\ t.col \in Int /\ Position(t) = base + t.col
        BY <1>1, <3>1
      <4>. HIDE DEF base
      <4>2. base + x = Position(t) <=> x = t.col
        BY <4>1
      <4>. QED BY <4>2 DEF base
    <3>. QED BY <1>3, <3>1, <3>2
  <2>. QED BY <1>1, <2>1 DEF RowOf
<1>8. line \in RowGlyphs
  BY <1>1, <1>3, <1>7, RowIs
<1>9. RowOf(t.cells, t.row) = old[t.row + 1] /\ new[t.row + 1] = line
  <2>1. (t.row + 1) - 1 = t.row /\ t.row + 1 \in 1 .. t.row + 1
    <3>1. \A n \in Nat : (n + 1) - 1 = n /\ n + 1 \in 1 .. n + 1
      OBVIOUS
    <3>. QED BY <1>1, <3>1
  <2>. HIDE DEF line
  <2>. QED BY <1>4, <1>5, <1>7, <2>1
<1>. HIDE DEF line
<1>10. \A r \in 1 .. t.row + 1 : new[r] = IF r = t.row + 1 THEN line ELSE old[r]
  BY <1>1, <1>4, <1>5, <1>6, <1>9, SMTT(30)
<1>11. new = [old EXCEPT ![t.row + 1] = line]
  <2>1. /\ old \in [1 .. t.row + 1 -> RowGlyphs] /\ new \in [1 .. t.row + 1 -> RowGlyphs]
        /\ t.row + 1 \in 1 .. t.row + 1
    BY <1>1, <1>4, <1>5, SMTT(30)
  <2>. QED BY <1>10, <2>1
<1>12. line = [old[t.row + 1] EXCEPT ![t.col] = Look(mark)]
  BY <1>9 DEF line
<1>. QED BY <1>3, <1>11, <1>12 DEF old, new, stored, mark

\* Updating the cursor register changes nothing that is seen.
LEMMA CursorUnseen ==
  ASSUME NEW k
  PROVE  /\ update_cursor(k).cells = k.cells /\ update_cursor(k).row = k.row
         /\ update_cursor(k).col = k.col /\ update_cursor(k).color = k.color
BY DEF update_cursor

\* The newline of the driver is the line feed of the teletype.
LEMMA NewlineFeeds ==
  ASSUME NEW t \in Terminal, BlankFrom(t, Position(t))
  PROVE  LET u == terminal_putchar(t, Newline)
         IN  /\ RowsOf(u.cells, u.row) = Paper!Fed(RowsOf(t.cells, t.row))
             /\ u.col = 0 /\ u.color = t.color
<1>. USE VgaAssumption
<1>. DEFINE k == KeepOnScreen(NextRow(t, t.cells))
<1>1. /\ t.row \in 0 .. VGA_HEIGHT - 1 /\ t.col \in 0 .. VGA_WIDTH - 1
      /\ t.cells \in [Slot -> Cell] /\ t.row * VGA_WIDTH \in Int
  BY DEF Terminal
<1>2. (t.row + 1) * VGA_WIDTH = t.row * VGA_WIDTH + VGA_WIDTH
  BY <1>1, OnScreen
<1>3. \A s \in Slot : s >= (t.row + 1) * VGA_WIDTH => t.cells[s].ch = Space
  <2>. DEFINE base == t.row * VGA_WIDTH
              next == (t.row + 1) * VGA_WIDTH
  <2>1. base \in Int /\ next = base + VGA_WIDTH /\ Position(t) = base + t.col
    BY <1>1, <1>2 DEF Position
  <2>2. Slot \subseteq Int
    BY DEF Slot
  <2>. HIDE DEF base, next
  <2>3. \A s \in Slot : s >= next => s >= Position(t)
    BY <1>1, <2>1, <2>2
  <2>. QED BY <1>1, <2>3 DEF BlankFrom, next
<1>4. /\ RowsOf(k.cells, k.row) = Paper!Fed(RowsOf(t.cells, t.row))
      /\ k.col = 0 /\ k.color = t.color
  BY <1>1, <1>3, FedIs
<1>5. terminal_putchar(t, Newline) = update_cursor(k)
  BY DEF terminal_putchar
<1>. HIDE DEF k
<1>. QED BY <1>4, <1>5, CursorUnseen

\* What typing c at column col of the last line makes of the lines.
Typed(lines, col, c, color) ==
  [lines EXCEPT ![Len(lines)] =
    [lines[Len(lines)] EXCEPT ![col] = Look(vga_entry(c, color))]]

\* Any other character is typed on the last line, and at its end a line is fed.
LEMMA CharacterTypes ==
  ASSUME NEW t \in Terminal, BlankFrom(t, Position(t)), NEW c \in Char \ {Newline}
  PROVE  LET u == terminal_putchar(t, c)
             typed == Typed(RowsOf(t.cells, t.row), t.col, c, t.color)
         IN  /\ IF t.col = VGA_WIDTH - 1
                THEN RowsOf(u.cells, u.row) = Paper!Fed(typed) /\ u.col = 0
                ELSE RowsOf(u.cells, u.row) = typed /\ u.col = t.col + 1
             /\ u.color = t.color
<1>. USE VgaAssumption
<1>. DEFINE stored == [t.cells EXCEPT ![Position(t)] = vga_entry(c, t.color)]
            old == RowsOf(t.cells, t.row)
            typed == Typed(old, t.col, c, t.color)
            k == KeepOnScreen(Store(t, c))
            u == terminal_putchar(t, c)
<1>1. /\ t.row \in 0 .. VGA_HEIGHT - 1 /\ t.col \in 0 .. VGA_WIDTH - 1
      /\ t.cells \in [Slot -> Cell] /\ t.row * VGA_WIDTH \in Int
      /\ Position(t) = t.row * VGA_WIDTH + t.col /\ Position(t) \in Slot
  <2>1. t.row \in 0 .. VGA_HEIGHT - 1 /\ t.col \in 0 .. VGA_WIDTH - 1
    BY DEF Terminal
  <2>2. t.cells \in [Slot -> Cell]
    BY DEF Terminal
  <2>3. Position(t) = t.row * VGA_WIDTH + t.col
    BY DEF Position
  <2>4. t.row * VGA_WIDTH + t.col \in Slot /\ t.row * VGA_WIDTH \in Int
    BY <2>1, OnScreen
  <2>. QED BY <2>1, <2>2, <2>3, <2>4
<1>2. u = update_cursor(k)
  BY DEF terminal_putchar
<1>3. Len(old) = t.row + 1
  BY <1>1, RowsAre
<1>4. stored \in [Slot -> Cell] /\ RowsOf(stored, t.row) = typed
  <2>1. RowsOf(stored, t.row) =
          [old EXCEPT ![t.row + 1] =
            [old[t.row + 1] EXCEPT ![t.col] = Look(vga_entry(c, t.color))]]
    BY TypedIs
  <2>2. stored \in [Slot -> Cell]
    BY TypedIs
  <2>. HIDE DEF stored, old
  <2>. QED BY <1>3, <2>1, <2>2 DEF Typed
<1>5. \A s \in Slot : s # Position(t) => stored[s] = t.cells[s]
  BY <1>1
<1>6. Store(t, c) = IF t.col + 1 = VGA_WIDTH THEN NextRow(t, stored)
                    ELSE At(t, t.row, t.col + 1, stored)
  BY DEF Store
<1>. HIDE DEF stored, typed, old, u
<1>7. CASE t.col = VGA_WIDTH - 1
  <2>1. k = KeepOnScreen(NextRow(t, stored))
    BY <1>6, <1>7
  <2>2. (t.row + 1) * VGA_WIDTH = t.row * VGA_WIDTH + VGA_WIDTH
    BY <1>1, OnScreen
  <2>3. \A s \in Slot : s >= (t.row + 1) * VGA_WIDTH => stored[s].ch = Space
    <3>. DEFINE next == (t.row + 1) * VGA_WIDTH
    <3>1. next = Position(t) + 1 /\ Position(t) \in Int
      BY <1>1, <1>7, <2>2
    <3>2. Slot \subseteq Int
      BY DEF Slot
    <3>. HIDE DEF next
    <3>3. \A s \in Slot : s >= next => s >= Position(t) /\ s # Position(t)
      BY <3>1, <3>2
    <3>. QED BY <1>5, <3>3 DEF BlankFrom, next
  <2>. DEFINE f == KeepOnScreen(NextRow(t, stored))
  <2>4. /\ RowsOf(f.cells, f.row) = Paper!Fed(RowsOf(stored, t.row))
        /\ f.col = 0 /\ f.color = t.color
    BY <1>4, <2>3, FedIs
  <2>. HIDE DEF k, f
  <2>5. k = f
    BY <2>1 DEF f
  <2>. QED BY <1>2, <1>4, <1>7, <2>4, <2>5, CursorUnseen DEF u, typed, old
<1>8. CASE t.col # VGA_WIDTH - 1
  <2>1. Store(t, c) = At(t, t.row, t.col + 1, stored)
    BY <1>1, <1>6, <1>8
  <2>2. k = At(t, t.row, t.col + 1, stored)
    BY <1>1, <2>1 DEF KeepOnScreen, At
  <2>3. k.cells = stored /\ k.row = t.row /\ k.col = t.col + 1 /\ k.color = t.color
    BY <2>2 DEF At
  <2>. HIDE DEF k
  <2>. QED BY <1>2, <1>4, <1>8, <2>3, CursorUnseen DEF u, typed, old
<1>. QED BY <1>7, <1>8

LEMMA ShownIs ==
  /\ Shown = RowsOf(term.cells, term.row)
  /\ Shown' = RowsOf(term'.cells, term'.row)
BY DEF Shown, RowsOf, RowOf

\* A call of terminal_putchar is a step of the teletype.
LEMMA PutcharRefines ==
  ASSUME VgaTypeOK, BlankAhead, NEW c \in Char, term' = terminal_putchar(term, c)
  PROVE  Paper!Next
<1>. USE VgaAssumption
<1>1. term \in Terminal /\ BlankFrom(term, Position(term))
  BY DEF VgaTypeOK, BlankAhead
<1>2. CASE c = Newline
  <2>1. /\ Shown' = Paper!Fed(Shown) /\ term'.col = 0 /\ term'.color = term.color
    BY <1>1, <1>2, NewlineFeeds, ShownIs
  <2>2. Paper!Feed
    BY <2>1 DEF Paper!Feed
  <2>. QED BY <2>2 DEF Paper!Next
<1>3. CASE c # Newline
  <2>. DEFINE typed == Typed(Shown, term.col, c, term.color)
  <2>1. /\ IF term.col = VGA_WIDTH - 1
           THEN Shown' = Paper!Fed(typed) /\ term'.col = 0
           ELSE Shown' = typed /\ term'.col = term.col + 1
        /\ term'.color = term.color
    BY <1>1, <1>3, CharacterTypes, ShownIs
  <2>2. Look(vga_entry(c, term.color)) = Paper!Mark(c)
    BY DEF Look, vga_entry, Paper!Mark, Paper!BlankCell
  <2>3. typed = [Shown EXCEPT ![Len(Shown)][term.col] = Paper!Mark(c)]
    BY <2>2 DEF Typed
  <2>. HIDE DEF typed
  <2>4. Paper!Type(c)
    BY <2>1, <2>3 DEF Paper!Type
  <2>. QED BY <1>3, <2>4 DEF Paper!Next
<1>. QED BY <1>2, <1>3

\* A freshly initialised terminal shows one blank line.
LEMMA FreshIsTorn ==
  RowsOf(terminal_initialize.cells, terminal_initialize.row) = <<Paper!BlankLine>>
<1>. USE VgaAssumption
<1>. DEFINE cells == terminal_initialize.cells
            new == RowsOf(cells, 0)
<1>1. /\ terminal_initialize.row = 0
      /\ cells = [s \in Slot |-> vga_entry(Space, LightGrey)]
  BY DEF terminal_initialize
<1>2. cells \in [Slot -> Cell]
  BY <1>1 DEF vga_entry, Cell
<1>3. \A s \in Slot : cells[s].ch = Space
  BY <1>1 DEF vga_entry
<1>. HIDE DEF cells
<1>4. 0 \in 0 .. VGA_HEIGHT - 1
  OBVIOUS
<1>5. RowOf(cells, 0) = Paper!BlankLine
  <2>1. \A x \in 0 .. VGA_WIDTH - 1 : cells[0 * VGA_WIDTH + x].ch = Space
    BY <1>3, <1>4, OnScreen
  <2>. QED BY <2>1, BlankRow
<1>6. new = [r \in 1 .. 1 |-> Paper!BlankLine]
  BY <1>5 DEF RowsOf
<1>. HIDE DEF new
<1>7. new = <<Paper!BlankLine>>
  BY <1>6
<1>. QED BY <1>1, <1>7 DEF new, cells

(* The terminal implements the teletype, whatever the size of the screen:  *)
(* every call of a function of vga.c types one character on the last line, *)
(* feeds a line, changes the ink or tears the paper off, and nothing else  *)
(* of the index arithmetic, of memmove or of the blanking in vga.c:24-71   *)
(* ever shows.                                                             *)
THEOREM TerminalIsTeletype == VgaSpec => ImplementsTeletype
<1>1. VgaInit => Paper!Init
  <2>. SUFFICES ASSUME VgaInit PROVE Paper!Init
    OBVIOUS
  <2>1. /\ Shown = <<Paper!BlankLine>>
    BY FreshIsTorn, ShownIs DEF VgaInit
  <2>2. term.col = 0 /\ term.color = LightGrey
    BY DEF VgaInit, terminal_initialize
  <2>. QED BY <2>1, <2>2 DEF Paper!Init
<1>2. VgaTypeOK /\ BlankAhead /\ [VgaNext]_vgaVars => [Paper!Next]_(Paper!vars)
  <2>. SUFFICES ASSUME VgaTypeOK, BlankAhead, [VgaNext]_vgaVars
                PROVE  Paper!Next \/ UNCHANGED Paper!vars
    OBVIOUS
  <2>1. CASE Initialize
    <3>1. Shown' = <<Paper!BlankLine>>
      BY <2>1, FreshIsTorn, ShownIs DEF Initialize
    <3>2. term'.col = 0 /\ term'.color = LightGrey
      BY <2>1 DEF Initialize, terminal_initialize
    <3>3. Paper!TearOff
      BY <3>1, <3>2 DEF Paper!TearOff
    <3>. QED BY <3>3 DEF Paper!Next
  <2>2. ASSUME NEW color \in Color, SetColor(color)
        PROVE  Paper!Next
    <3>1. /\ term'.cells = term.cells /\ term'.row = term.row
          /\ term'.col = term.col /\ term'.color = color
      BY <2>2 DEF SetColor, terminal_setcolor, VgaTypeOK, Terminal
    <3>2. Shown' = Shown
      BY <3>1, ShownIs
    <3>3. Paper!ChangeInk
      BY <3>1, <3>2 DEF Paper!ChangeInk
    <3>. QED BY <3>3 DEF Paper!Next
  <2>3. ASSUME NEW c \in Char, PutChar(c)
        PROVE  Paper!Next
    BY <2>3, PutcharRefines DEF PutChar
  <2>4. CASE UNCHANGED term
    BY <2>4, ShownIs DEF Paper!vars
  <2>5. CASE WriteNext
    <3>1. Head(pending) \in Char
      BY <2>5 DEF WriteNext, VgaTypeOK
    <3>. QED BY <2>5, <3>1, PutcharRefines DEF WriteNext
  <2>. QED BY <2>1, <2>2, <2>3, <2>4, <2>5 DEF VgaNext, WriteString, vgaVars
<1>. QED BY <1>1, <1>2, ScreenSound, PTL DEF VgaSpec, Paper!Spec, ImplementsTeletype
=============================================================================

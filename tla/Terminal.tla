------------------------------ MODULE Terminal ------------------------------
(***************************************************************************)
(* The text terminal of src/kernel/sys/term.c: a ring of rows, a cursor    *)
(* kept both as a row of the ring and as a row of the display, and the     *)
(* first row of the ring that is shown.  Operations are functions of the   *)
(* terminal, because the code prints strings and lets the screen follow    *)
(* once at the end.                                                        *)
(***************************************************************************)
EXTENDS Integers, Sequences, SequencesExt

CONSTANTS Width,          \* k_sys_term_width
          Height,         \* k_sys_term_height, rows of the ring
          DisplayHeight   \* k_gfx_vga_height

Blank == " "
NewLineChar == "\n"
BackSpaceChar == "backspace"
ZeroChar == "zero"

Cells == 0 .. Width * Height - 1
Cell(t) == t.cursor_x + t.buffer_cursor_y * Width

TerminalInit ==
  [cursor_x |-> 0, buffer_cursor_y |-> 0, display_cursor_y |-> 0, scroll_y |-> 0,
   output_buffer |-> [c \in Cells |-> Blank]]

NewLine_Display(t) ==
  [t EXCEPT !.cursor_x = 0, !.buffer_cursor_y = (@ + 1) % Height,
            !.display_cursor_y = IF @ = DisplayHeight - 1 THEN @ ELSE @ + 1]
NewLine(t) ==
  [t EXCEPT !.cursor_x = 0, !.buffer_cursor_y = (@ + 1) % Height, !.display_cursor_y = @ + 1]

PrevLine(t) ==
  [t EXCEPT !.cursor_x = Width - 1,
            !.buffer_cursor_y = IF @ = 0 THEN Height - 1 ELSE @ - 1,
            !.display_cursor_y = @ - 1]

\* No newline character is ever stored in the ring, so the search for one in the
\* row before ends at the row's last cell.
BackSpace_Short(t) ==
  IF t.cursor_x > 0 THEN [t EXCEPT !.cursor_x = @ - 1, !.output_buffer[Cell(t) - 1] = Blank]
  ELSE LET u == PrevLine(t) IN [u EXCEPT !.cursor_x = @ - 1, !.output_buffer[Cell(u)] = Blank]
BackSpace(t) ==
  LET u == IF t.cursor_x > 0 THEN [t EXCEPT !.cursor_x = @ - 1] ELSE PrevLine(t)
  IN [u EXCEPT !.output_buffer[Cell(u)] = Blank]

PutSingleChar(t, c) ==
  IF c = NewLineChar THEN NewLine(t)
  ELSE IF c = BackSpaceChar THEN BackSpace(t)
  ELSE LET u == [t EXCEPT !.output_buffer[Cell(t)] = c, !.cursor_x = @ + 1]
       IN IF u.cursor_x >= Width THEN NewLine(u) ELSE u

\* The rows behind the cursor that scroll into view are cleared; the code does not
\* wrap their number, so the ones behind the ring's end are cleared in other memory.
Scrolled(t) == IF t.display_cursor_y < 0 THEN t.display_cursor_y
               ELSE IF t.display_cursor_y >= DisplayHeight
                    THEN 1 + (t.display_cursor_y - DisplayHeight) ELSE 0
ClearRows(t, n) == LET first == (t.buffer_cursor_y + 1) % Height IN first .. first + n - 1

Scroll(t, lines) ==
  LET y == t.scroll_y + lines
  IN [t EXCEPT !.display_cursor_y = @ - lines,
               !.scroll_y = IF y < 0 THEN y + Height ELSE y % Height]

Follow(t) ==
  LET n == Scrolled(t)
      cleared == [t EXCEPT !.output_buffer =
                    [c \in Cells |-> IF c \div Width \in ClearRows(t, n) THEN Blank ELSE @[c]]]
  IN IF n > 0 THEN Scroll(cleared, n) ELSE Scroll(t, n)

\* A string ends at its first zero.
StringOf(bytes) ==
  LET ends == {i \in DOMAIN bytes : bytes[i] = ZeroChar}
  IN IF ends = {} THEN bytes ELSE SubSeq(bytes, 1, Min(ends) - 1)

TerminalPuts(t, str) == Follow(FoldLeft(PutSingleChar, t, StringOf(str)))
TerminalClear(t) == TerminalInit

\* TerminalUpdate, at the end of every one of these: the screen is filled from the row
\* scroll_y of the ring on, and from the ring's start where the ring ends before it.
Screen(t) ==
  LET first == t.scroll_y * Width
      behind == (Height - t.scroll_y) * Width
  IN [c \in 0 .. DisplayHeight * Width - 1 |->
        IF c < behind THEN t.output_buffer[first + c] ELSE t.output_buffer[c - behind]]
=============================================================================

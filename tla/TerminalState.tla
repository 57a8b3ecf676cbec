---------------------------- MODULE TerminalState ---------------------------
(***************************************************************************)
(* spencer::terminal::TerminalState: the grid, the cursor, the scrollback, *)
(* the active style and the modes.  The whole object is the one variable   *)
(* terminal, a record with a field per member; an operation is an operator *)
(* from the object before to the object after, so that the calls one byte  *)
(* makes can be composed.  modes_.insert and modes_.auto_wrap never change *)
(* from false and true, so the branches they choose are fixed here, and    *)
(* modes_.origin and modes_.alternate_screen are never read.               *)
(***************************************************************************)
EXTENDS GraphicRendition

CONSTANTS
  Codepoints,       \* code points that may be printed
  Counts,           \* distances and coordinates of cursor movements
  Renditions,       \* parameters of set_graphics_rendition()
  ModeParameters,   \* parameters of set_private_mode()
  Titles,           \* arguments of set_title()
  Sizes,            \* <<rows, columns>> a caller may ask for
  Limits,           \* scrollback limits a caller may ask for
  MaximumScrollbackRows,
  MaximumTitleBytes,
  MarkBound         \* bound of the model: code points in one cell

ASSUME LimitAssumption ==
  /\ MaximumScrollbackRows \in Nat
  /\ MaximumTitleBytes \in Nat
  /\ MarkBound \in Nat

ASSUME InputAssumption ==
  /\ Codepoints \subseteq Nat
  /\ Counts \subseteq Nat
  /\ Titles \subseteq Seq(0..255)
  /\ Sizes \subseteq Nat \X Nat /\ Sizes # {}
  /\ Limits \subseteq Nat

VARIABLE terminal

Space == 32
ReplacementCharacter == 65533

NewCell(text, style, width) == [text |-> text, style |-> style, width |-> width]
Blank == NewCell(<<Space>>, DefaultStyle, "normal")
Columns(columns) == 0..columns - 1
BlankRow(columns) == [c \in Columns(columns) |-> Blank]
Home == [row |-> 0, column |-> 0, visible |-> TRUE]

Sanitized(n) == IF n = 0 THEN 1 ELSE n
Lower(a, b) == IF a < b THEN a ELSE b

Within(c, ranges) == \E range \in ranges : range[1] <= c /\ c <= range[2]

IsCombining(c) ==
  Within(c, {<<768, 879>>, <<6832, 6911>>, <<7616, 7679>>, <<8400, 8447>>,
             <<65056, 65071>>})

\* The code points width_of() gives two cells.
IsWide(c) ==
  Within(c, {<<4352, 4447>>, <<9001, 9002>>, <<11904, 42191>>, <<44032, 55203>>,
             <<63744, 64255>>, <<65040, 65049>>, <<65072, 65135>>,
             <<65280, 65376>>, <<65504, 65510>>, <<127744, 129791>>,
             <<131072, 262141>>})

-----------------------------------------------------------------------------
New(rows, columns, limit) ==
  [rows |-> Sanitized(rows), columns |-> Sanitized(columns),
   limit |-> Lower(limit, MaximumScrollbackRows),
   screen |-> [r \in 0..Sanitized(rows) - 1 |-> BlankRow(Sanitized(columns))],
   scrollback |-> <<>>, cursor |-> Home, saved |-> Home,
   style |-> DefaultStyle, bracketed_paste |-> FALSE, title |-> <<>>,
   wrap_pending |-> FALSE, damaged |-> TRUE]

\* The last n of a sequence of rows: pop_front() until the limit is met.
Newest(rows, n) ==
  IF Len(rows) > n THEN SubSeq(rows, Len(rows) - n + 1, Len(rows)) ELSE rows

\* Faulty variant of Remember: one row too many is kept.
RememberOneMore(rows, row, limit) ==
  IF limit > 0 THEN Newest(Append(rows, row), limit + 1) ELSE rows

Remember(rows, row, limit) ==
  IF limit > 0 THEN Newest(Append(rows, row), limit) ELSE rows

\* Faulty variant of MoveTo: the pending wrap survives the movement.
MoveToStillPending(t, row, column) ==
  [t EXCEPT !.cursor.row = row, !.cursor.column = column, !.damaged = TRUE]

\* Faulty variant of MoveTo: the window is not told to redraw.
MoveToUnseen(t, row, column) ==
  [t EXCEPT !.cursor.row = row, !.cursor.column = column, !.wrap_pending = FALSE]

MoveTo(t, row, column) ==
  [t EXCEPT !.cursor.row = row, !.cursor.column = column,
            !.wrap_pending = FALSE, !.damaged = TRUE]

Minus(a, b) == IF a > b THEN a - b ELSE 0

CursorUp(t, n) == MoveTo(t, Minus(t.cursor.row, n), t.cursor.column)
CursorDown(t, n) == MoveTo(t, Lower(t.cursor.row + n, t.rows - 1), t.cursor.column)
CursorForward(t, n) ==
  MoveTo(t, t.cursor.row, Lower(t.cursor.column + n, t.columns - 1))
CursorBack(t, n) == MoveTo(t, t.cursor.row, Minus(t.cursor.column, n))
CursorPosition(t, row, column) ==
  MoveTo(t, Lower(row, t.rows - 1), Lower(column, t.columns - 1))

CarriageReturn(t) == MoveTo(t, t.cursor.row, 0)
Backspace(t) == MoveTo(t, t.cursor.row, Minus(t.cursor.column, 1))
Tab(t) ==
  MoveTo(t, t.cursor.row, Lower((t.cursor.column \div 8 + 1) * 8, t.columns - 1))

\* Faulty variant of Scroll: the row is remembered after it was dropped.
ScrollTooLate(t) ==
  LET below == [r \in 0..t.rows - 1 |->
                  IF r = t.rows - 1 THEN BlankRow(t.columns) ELSE t.screen[r + 1]]
  IN [t EXCEPT !.scrollback = Remember(@, below[0], t.limit), !.screen = below]

\* The top row goes to the scrollback and a blank one comes in below.
Scroll(t) ==
  [t EXCEPT
     !.scrollback = Remember(@, t.screen[0], t.limit),
     !.screen = [r \in 0..t.rows - 1 |->
                   IF r = t.rows - 1 THEN BlankRow(t.columns) ELSE t.screen[r + 1]]]

LineFeed(t) ==
  IF t.cursor.row + 1 < t.rows THEN MoveTo(t, t.cursor.row + 1, t.cursor.column)
  ELSE MoveTo(Scroll(t), t.cursor.row, t.cursor.column)

NextLine(t) == CarriageReturn(LineFeed(t))

ExecuteControl(t, control) ==
  CASE control = 8 -> Backspace(t)
    [] control = 9 -> Tab(t)
    [] control \in {10, 11, 12} -> LineFeed(t)
    [] control = 13 -> CarriageReturn(t)
    [] OTHER -> t

-----------------------------------------------------------------------------
\* clear_range() over the given cells, pairs of a row and a column.
Erase(t, cells) ==
  [t EXCEPT
     !.screen = [r \in 0..t.rows - 1 |->
                   [c \in Columns(t.columns) |->
                      IF <<r, c>> \in cells THEN Blank ELSE t.screen[r][c]]],
     !.damaged = TRUE]

Cells(t) == (0..t.rows - 1) \X Columns(t.columns)
OnCursorRow(t) == {cell \in Cells(t) : cell[1] = t.cursor.row}
Onward(t) == {cell \in OnCursorRow(t) : cell[2] >= t.cursor.column}
UpToCursor(t) == {cell \in OnCursorRow(t) : cell[2] <= t.cursor.column}
Below(t) == {cell \in Cells(t) : cell[1] > t.cursor.row}
Above(t) == {cell \in Cells(t) : cell[1] < t.cursor.row}

EraseInLine(t, mode) ==
  CASE mode = 0 -> Erase(t, Onward(t))
    [] mode = 1 -> Erase(t, UpToCursor(t))
    [] mode = 2 -> Erase(t, OnCursorRow(t))
    [] OTHER -> t

EraseInDisplay(t, mode) ==
  CASE mode = 0 -> Erase(t, Onward(t) \cup Below(t))
    [] mode = 1 -> Erase(t, Above(t) \cup UpToCursor(t))
    [] mode = 2 -> Erase(t, Cells(t))
    [] mode = 3 -> [t EXCEPT !.scrollback = <<>>, !.damaged = TRUE]
    [] OTHER -> t

-----------------------------------------------------------------------------
\* Faulty variant of Wrapped: the cursor stays in its column.
WrappedBelow(t) == IF t.wrap_pending THEN LineFeed(t) ELSE t

\* The pending wrap is taken before the next character.
Wrapped(t) == IF t.wrap_pending THEN NextLine(t) ELSE t

WidthIn(codepoint, columns) ==
  IF IsWide(codepoint) /\ columns >= 2 THEN "wide" ELSE "normal"

\* A wide character does not start in the last column.
Placed(t, width) ==
  IF width = "wide" /\ t.cursor.column + 1 >= t.columns THEN NextLine(t) ELSE t

\* The character in the cursor's cell and, if it is wide, a continuation
\* cell right of it; then the cursor moves on or the wrap is pending.
Write(t, codepoint, width) ==
  LET row == t.cursor.row
      column == t.cursor.column
      next == column + (IF width = "wide" THEN 2 ELSE 1)
  IN [t EXCEPT
        !.screen[row] =
           [c \in Columns(t.columns) |->
              CASE c = column -> NewCell(<<codepoint>>, t.style, width)
                [] c = column + 1 /\ width = "wide" ->
                     NewCell(<<>>, t.style, "continuation")
                [] OTHER -> t.screen[row][c]],
        !.cursor.column = IF next >= t.columns THEN t.columns - 1 ELSE next,
        !.wrap_pending = next >= t.columns,
        !.damaged = TRUE]

PutPrintable(t, codepoint) ==
  LET width == WidthIn(codepoint, t.columns)
  IN Write(Placed(Wrapped(t), width), codepoint, width)

\* Where a combining mark goes: the cell before the cursor, or before that
\* the one its continuation cells belong to.
BaseRow(t) == IF t.cursor.column = 0 THEN t.cursor.row - 1 ELSE t.cursor.row
BaseColumn(t) ==
  LET last == IF t.cursor.column = 0 THEN t.columns - 1 ELSE t.cursor.column - 1
  IN CHOOSE c \in 0..last :
       /\ c = 0 \/ t.screen[BaseRow(t)][c].width # "continuation"
       /\ \A d \in c + 1..last : t.screen[BaseRow(t)][d].width = "continuation"

AttachTo(t, row, column, mark) ==
  [t EXCEPT
     !.screen[row] = [c \in Columns(t.columns) |->
                        IF c = column THEN [t.screen[row][c] EXCEPT !.text = Append(@, mark)]
                        ELSE t.screen[row][c]],
     !.damaged = TRUE]

\* Faulty variant of AppendCombiningMark: it does not step back over the
\* second half of a wide character.
AppendMarkInPlace(t, mark) ==
  IF t.cursor.row = 0 /\ t.cursor.column = 0
  THEN PutPrintable(t, ReplacementCharacter)
  ELSE AttachTo(t, BaseRow(t),
                IF t.cursor.column = 0 THEN t.columns - 1 ELSE t.cursor.column - 1, mark)

AppendCombiningMark(t, mark) ==
  IF t.cursor.row = 0 /\ t.cursor.column = 0
  THEN PutPrintable(t, ReplacementCharacter)
  ELSE AttachTo(t, BaseRow(t), BaseColumn(t), mark)

PrintCodepoint(t, codepoint) ==
  IF IsCombining(codepoint) THEN AppendCombiningMark(t, codepoint)
  ELSE PutPrintable(t, codepoint)

-----------------------------------------------------------------------------
SetGraphicsRendition(t, parameters) ==
  [t EXCEPT !.style = Rendition(@, parameters), !.damaged = TRUE]

SetTitle(t, title) ==
  [t EXCEPT !.title = SubSeq(title, 1, Lower(Len(title), MaximumTitleBytes))]

Listed(parameters, p) == \E i \in DOMAIN parameters : parameters[i] = p

SetPrivateMode(t, parameters, enabled) ==
  [t EXCEPT
     !.cursor.visible = IF Listed(parameters, 25) THEN enabled ELSE @,
     !.bracketed_paste = IF Listed(parameters, 2004) THEN enabled ELSE @,
     !.damaged = TRUE]

SaveCursor(t) == [t EXCEPT !.saved = t.cursor]

Clamped(cursor, rows, columns) ==
  [cursor EXCEPT !.row = Lower(@, rows - 1), !.column = Lower(@, columns - 1)]

RestoreCursor(t) ==
  [t EXCEPT !.cursor = Clamped(t.saved, t.rows, t.columns),
            !.saved = Clamped(@, t.rows, t.columns),
            !.wrap_pending = FALSE, !.damaged = TRUE]

\* Scrollback, title and limit stay.
ResetState(t) ==
  [t EXCEPT !.cursor = Home, !.saved = Home, !.style = DefaultStyle,
            !.bracketed_paste = FALSE, !.wrap_pending = FALSE,
            !.screen = [r \in 0..t.rows - 1 |-> BlankRow(t.columns)],
            !.damaged = TRUE]

\* Faulty variant of ResizeTo: the saved cursor is not brought back in.
ResizeKeepingSaved(t, rows, columns) ==
  [t EXCEPT !.rows = rows, !.columns = columns,
            !.screen = [r \in 0..rows - 1 |->
                          [c \in Columns(columns) |->
                             IF r < t.rows /\ c < t.columns THEN t.screen[r][c]
                             ELSE Blank]],
            !.cursor = Clamped(@, rows, columns),
            !.wrap_pending = FALSE, !.damaged = TRUE]

\* The top left part of the grid is kept; nothing is reflowed or remembered.
ResizeTo(t, rows, columns) ==
  [t EXCEPT !.rows = rows, !.columns = columns,
            !.screen = [r \in 0..rows - 1 |->
                          [c \in Columns(columns) |->
                             IF r < t.rows /\ c < t.columns THEN t.screen[r][c]
                             ELSE Blank]],
            !.cursor = Clamped(@, rows, columns),
            !.saved = Clamped(@, rows, columns),
            !.wrap_pending = FALSE, !.damaged = TRUE]

Resize(t, rows, columns) ==
  IF Sanitized(rows) = t.rows /\ Sanitized(columns) = t.columns THEN t
  ELSE ResizeTo(t, Sanitized(rows), Sanitized(columns))

SetScrollbackLimit(t, requested) ==
  LET limit == Lower(requested, MaximumScrollbackRows)
  IN [t EXCEPT !.limit = limit, !.scrollback = Newest(@, limit)]

ClearDamage(t) == [t EXCEPT !.damaged = FALSE]

-----------------------------------------------------------------------------
\* A call of the parser, as TerminalOperations dispatches it.
Apply(t, call) ==
  LET args == call.args
      n == args[1]
  IN CASE call.op = "print" -> PrintCodepoint(t, n)
       [] call.op = "execute_control" -> ExecuteControl(t, n)
       [] call.op = "cursor_up" -> CursorUp(t, n)
       [] call.op = "cursor_down" -> CursorDown(t, n)
       [] call.op = "cursor_forward" -> CursorForward(t, n)
       [] call.op = "cursor_back" -> CursorBack(t, n)
       [] call.op = "cursor_position" -> CursorPosition(t, n, args[2])
       [] call.op = "erase_in_display" -> EraseInDisplay(t, n)
       [] call.op = "erase_in_line" -> EraseInLine(t, n)
       [] call.op = "set_graphics_rendition" -> SetGraphicsRendition(t, args)
       [] call.op = "private_mode_on" -> SetPrivateMode(t, args, TRUE)
       [] call.op = "private_mode_off" -> SetPrivateMode(t, args, FALSE)
       [] call.op = "set_title" -> SetTitle(t, args)
       [] call.op = "save_cursor" -> SaveCursor(t)
       [] call.op = "restore_cursor" -> RestoreCursor(t)
       [] call.op = "reset" -> ResetState(t)

HasMarkRoom ==
  \A r \in DOMAIN terminal.screen : \A c \in DOMAIN terminal.screen[r] :
    Len(terminal.screen[r][c].text) < MarkBound

PrintStep(codepoint) ==
  /\ IsCombining(codepoint) => HasMarkRoom
  /\ terminal' = PrintCodepoint(terminal, codepoint)
ControlStep == \E control \in 8..13 : terminal' = ExecuteControl(terminal, control)
MoveStep ==
  \E n \in Counts :
    \/ n > 0 /\ terminal' = CursorUp(terminal, n)
    \/ n > 0 /\ terminal' = CursorDown(terminal, n)
    \/ n > 0 /\ terminal' = CursorForward(terminal, n)
    \/ n > 0 /\ terminal' = CursorBack(terminal, n)
    \/ \E m \in Counts : terminal' = CursorPosition(terminal, n, m)
EraseStep ==
  \/ \E mode \in 0..3 : terminal' = EraseInDisplay(terminal, mode)
  \/ \E mode \in 0..2 : terminal' = EraseInLine(terminal, mode)
StyleStep == \E p \in Renditions : terminal' = SetGraphicsRendition(terminal, p)
ModeStep == \E p \in ModeParameters, enabled \in BOOLEAN :
              terminal' = SetPrivateMode(terminal, p, enabled)
TitleStep == \E title \in Titles : terminal' = SetTitle(terminal, title)
CursorStep == \/ terminal' = SaveCursor(terminal)
              \/ terminal' = RestoreCursor(terminal)
ResetStep == terminal' = ResetState(terminal)
ResizeStep == \E size \in Sizes : terminal' = Resize(terminal, size[1], size[2])
LimitStep == \E n \in Limits : terminal' = SetScrollbackLimit(terminal, n)
DrawnStep == terminal' = ClearDamage(terminal)

Init == \E size \in Sizes, limit \in Limits : terminal = New(size[1], size[2], limit)

Next ==
  \/ \E codepoint \in Codepoints : PrintStep(codepoint)
  \/ ControlStep \/ MoveStep \/ EraseStep \/ StyleStep \/ ModeStep
  \/ TitleStep \/ CursorStep \/ ResetStep \/ ResizeStep \/ LimitStep \/ DrawnStep

Spec == Init /\ [][Next]_terminal
=============================================================================

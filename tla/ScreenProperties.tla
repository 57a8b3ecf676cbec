-------------------------- MODULE ScreenProperties --------------------------
(***************************************************************************)
(* What the grid of TerminalState keeps to, whatever sequence of calls the *)
(* parser and the window make.                                             *)
(***************************************************************************)
EXTENDS TerminalState, FiniteSets

Widths == {"normal", "wide", "continuation"}
IsRow(row, columns) ==
  /\ DOMAIN row = Columns(columns)
  /\ \A c \in Columns(columns) : DOMAIN row[c] = {"text", "style", "width"}

InGrid(cursor, rows, columns) ==
  cursor.row \in 0..rows - 1 /\ cursor.column \in 0..columns - 1

(* Types and shape: there is a row and a column, the screen has exactly    *)
(* dimensions_ rows of dimensions_ cells, and both the cursor and the      *)
(* saved cursor are inside, so that no indexing of screen_ is out of range *)
(* (terminal_state.hpp:64-74, and every screen_[cursor_.row]).             *)
TypeOK ==
  /\ terminal.rows \in Nat \ {0} /\ terminal.columns \in Nat \ {0}
  /\ DOMAIN terminal.screen = 0..terminal.rows - 1
  /\ \A r \in 0..terminal.rows - 1 : IsRow(terminal.screen[r], terminal.columns)
  /\ InGrid(terminal.cursor, terminal.rows, terminal.columns)
  /\ InGrid(terminal.saved, terminal.rows, terminal.columns)
  /\ Len(terminal.title) <= MaximumTitleBytes

(* A wrap is pending only behind the last column: no movement, resize or   *)
(* restore leaves it set elsewhere, where the next character would jump to *)
(* the next line for no reason (terminal_state.cpp:319-323,351-358).       *)
WrapOnlyAtMargin ==
  terminal.wrap_pending => terminal.cursor.column = terminal.columns - 1

(* The scrollback never holds more rows than its limit, none at all when   *)
(* the limit is 0, also right after the limit was lowered                  *)
(* (terminal_state.cpp:57-62,249-254).                                     *)
ScrollbackBounded ==
  /\ terminal.limit <= MaximumScrollbackRows
  /\ Len(terminal.scrollback) <= terminal.limit

(* The second half of a wide character has no text of its own and every    *)
(* other cell has some; a row never begins with a second half.  A mark     *)
(* therefore never disappears in a cell the renderer skips                 *)
(* (terminal_state.cpp:312-315,346-349).                                   *)
ContinuationsEmpty ==
  \A r \in DOMAIN terminal.screen : \A c \in DOMAIN terminal.screen[r] :
    LET cell == terminal.screen[r][c] IN
    /\ cell.width = "continuation" <=> cell.text = <<>>
    /\ cell.width = "continuation" => c > 0

(* The window redraws only when it finds damaged() set: a call that        *)
(* changes a cell, the scrollback, the cursor or the grid's size sets it.  *)
(* set_scrollback_limit() does not, and has no caller.                     *)
DamageCoversChanges ==
  [][~LimitStep /\ <<terminal.screen, terminal.scrollback, terminal.cursor>>'
                     # <<terminal.screen, terminal.scrollback, terminal.cursor>>
       => terminal'.damaged]_terminal

\* Scrollback and screen, read as one text from the oldest row on.
Document(t) == t.scrollback \o [i \in 1..t.rows |-> t.screen[i - 1]]

Changed(old, new) ==
  UNION {{<<i, c>> : c \in {d \in DOMAIN old[i] : old[i][d] # new[i][d]}} : i \in DOMAIN old}

Text(t) == <<t.screen, t.scrollback>>
Printed == \E codepoint \in Codepoints : PrintStep(codepoint)

(* Printing is local: a character changes at most two cells of the whole   *)
(* text, scrolls it by at most one blank row (never one for the pending    *)
(* wrap and another for a wide character that does not fit), and lets go   *)
(* only of the oldest row, and only when the scrollback is full            *)
(* (terminal_state.cpp:245-260,319-360).                                   *)
PrintIsLocal ==
  [][Text(terminal)' # Text(terminal) /\ Printed =>
       LET before == Document(terminal)
           new == Document(terminal')
       IN \E scrolled \in 0..1, dropped \in 0..1 :
            /\ dropped = 1 => scrolled = 1 /\ Len(terminal.scrollback) = terminal.limit
            /\ Len(new) = Len(before) + scrolled - dropped
            /\ LET old == before \o [i \in 1..scrolled |-> BlankRow(terminal.columns)]
               IN /\ \A i \in DOMAIN new : DOMAIN new[i] = DOMAIN old[i + dropped]
                  /\ Cardinality(Changed(SubSeq(old, 1 + dropped, Len(old)), new)) <= 2]_terminal

History == INSTANCE LineHistory WITH
  history <- terminal.scrollback, limit <- terminal.limit, top <- terminal.screen[0]

(* The scrollback is a log of the rows that left the top of the screen, in *)
(* order and unchanged, cut only at its old end (terminal_state.cpp:57-62, *)
(* 137,245-260).                                                           *)
ScrollbackIsHistory == History!HSpec

-----------------------------------------------------------------------------
\* What the documents say and the code does not do; each has a run of its own.

(* "Common East Asian wide ranges occupy two cells"                        *)
(* (docs/terminal-compatibility.md:10): a wide cell is followed by its     *)
(* continuation and a continuation has its wide cell before it, also after *)
(* half of a pair was overwritten, erased or cut off.                      *)
WideOccupiesTwoCells ==
  \A r \in DOMAIN terminal.screen : \A c \in DOMAIN terminal.screen[r] :
    LET row == terminal.screen[r] IN
    /\ row[c].width = "wide" =>
         c + 1 \in DOMAIN row /\ row[c + 1].width = "continuation"
    /\ row[c].width = "continuation" =>
         c - 1 \in DOMAIN row /\ row[c - 1].width = "wide"
=============================================================================

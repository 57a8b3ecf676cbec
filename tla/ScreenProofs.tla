---------------------------- MODULE ScreenProofs ----------------------------
(***************************************************************************)
(* Proofs about the screen for every size of the grid, every limit of the  *)
(* scrollback and every character: nothing is ever outside the grid, a     *)
(* wrap is pending behind the last column only, the scrollback is bounded  *)
(* and a log of the rows that left the screen, what changes is redrawn, no *)
(* mark is lost in the second half of a wide character, and printing is    *)
(* local.                                                                  *)
(***************************************************************************)
EXTENDS ScreenProperties, Induction, SequenceTheorems, FiniteSetTheorems

Members == {"rows", "columns", "limit", "screen", "scrollback", "cursor", "saved", "style",
            "bracketed_paste", "title", "wrap_pending", "damaged"}
CursorMembers == {"row", "column", "visible"}

IsSequence(s) == \E S : s \in Seq(S)

IsCursor(cursor, t) == DOMAIN cursor = CursorMembers /\ InGrid(cursor, t.rows, t.columns)

IsGrid(screen, rows, columns) ==
  DOMAIN screen = 0..rows - 1 /\ \A r \in 0..rows - 1 : IsRow(screen[r], columns)

\* The inductive invariant, as a property of one object.
Sound(t) ==
  /\ DOMAIN t = Members
  /\ t.rows \in Nat \ {0} /\ t.columns \in Nat \ {0}
  /\ IsCursor(t.cursor, t) /\ IsCursor(t.saved, t)
  /\ IsGrid(t.screen, t.rows, t.columns)
  /\ t.wrap_pending => t.cursor.column = t.columns - 1
  /\ t.limit \in Nat /\ t.limit <= MaximumScrollbackRows
  /\ IsSequence(t.scrollback) /\ Len(t.scrollback) <= t.limit
  /\ Len(t.title) <= MaximumTitleBytes

\* The scrollback and its limit stay, or the top row joins the log.
Logged(t, u) ==
  /\ u.limit = t.limit
  /\ \/ u.scrollback = t.scrollback
     \/ u.scrollback = Newest(Append(t.scrollback, t.screen[0]), t.limit)

\* Nothing but the cursor, the pending wrap and the damage may differ.
Moved(t, u) ==
  /\ DOMAIN u = Members
  /\ \A f \in Members \ {"cursor", "wrap_pending", "damaged"} : u[f] = t[f]

-----------------------------------------------------------------------------
LEMMA MoveToSound ==
  ASSUME NEW t, Sound(t), NEW row \in 0..t.rows - 1, NEW column \in 0..t.columns - 1
  PROVE  /\ Sound(MoveTo(t, row, column)) /\ Moved(t, MoveTo(t, row, column))
         /\ MoveTo(t, row, column).cursor.column = column
         /\ MoveTo(t, row, column).cursor.row = row
         /\ MoveTo(t, row, column).wrap_pending = FALSE
<1> DEFINE u == MoveTo(t, row, column)
<1>1. DOMAIN t = Members /\ DOMAIN t.cursor = CursorMembers
  BY DEF Sound, IsCursor
<1>2. Moved(t, u)
  BY <1>1 DEF MoveTo, Moved, Members
<1>3. /\ DOMAIN u.cursor = CursorMembers /\ u.cursor.row = row /\ u.cursor.column = column
      /\ u.wrap_pending = FALSE
  BY <1>1 DEF MoveTo, Members, CursorMembers
<1> HIDE DEF u
<1>4. /\ u.rows = t.rows /\ u.columns = t.columns /\ u.saved = t.saved /\ u.screen = t.screen
      /\ u.limit = t.limit /\ u.scrollback = t.scrollback /\ u.title = t.title
      /\ DOMAIN u = Members
  BY <1>2 DEF Moved, Members
<1>5. Sound(u)
  BY <1>3, <1>4 DEF Sound, IsCursor, InGrid
<1> QED BY <1>2, <1>3, <1>5 DEF u

LEMMA MoveToAnywhere ==
  ASSUME NEW t, Sound(t)
  PROVE  \A row \in 0..t.rows - 1 : \A column \in 0..t.columns - 1 :
           /\ Sound(MoveTo(t, row, column)) /\ Moved(t, MoveTo(t, row, column))
           /\ MoveTo(t, row, column).cursor.column = column
<1>1. ASSUME NEW row \in 0..t.rows - 1, NEW column \in 0..t.columns - 1
      PROVE  /\ Sound(MoveTo(t, row, column)) /\ Moved(t, MoveTo(t, row, column))
             /\ MoveTo(t, row, column).cursor.column = column
  <2>1. Sound(MoveTo(t, row, column)) /\ Moved(t, MoveTo(t, row, column))
    BY <1>1, MoveToSound
  <2>2. MoveTo(t, row, column).cursor.column = column
    <3>1. DOMAIN t = Members /\ DOMAIN t.cursor = CursorMembers
      BY DEF Sound, IsCursor
    <3> QED BY <3>1 DEF MoveTo, Members, CursorMembers
  <2> QED BY <2>1, <2>2
<1> QED BY <1>1, Zenon

LEMMA MovedKeeps ==
  ASSUME NEW t, NEW u, Moved(t, u)
  PROVE  /\ u.rows = t.rows /\ u.columns = t.columns /\ u.limit = t.limit
         /\ u.screen = t.screen /\ u.scrollback = t.scrollback
  BY DEF Moved, Members

LEMMA MovementsSound ==
  ASSUME NEW t, Sound(t), NEW n \in Nat, NEW m \in Nat
  PROVE  \A u \in {CursorUp(t, n), CursorDown(t, n), CursorForward(t, n), CursorBack(t, n),
                   CursorPosition(t, n, m), CarriageReturn(t), Backspace(t), Tab(t)} :
           Sound(u) /\ Moved(t, u)
<1>1. /\ t.rows \in Nat \ {0} /\ t.columns \in Nat \ {0}
      /\ t.cursor.row \in 0..t.rows - 1 /\ t.cursor.column \in 0..t.columns - 1
  BY DEF Sound, IsCursor, InGrid
<1>2. /\ \A k \in Nat : Minus(t.cursor.row, k) \in 0..t.rows - 1
      /\ \A k \in Nat : Minus(t.cursor.column, k) \in 0..t.columns - 1
      /\ \A k \in Nat : Lower(k, t.rows - 1) \in 0..t.rows - 1
      /\ \A k \in Nat : Lower(k, t.columns - 1) \in 0..t.columns - 1
  BY <1>1 DEF Minus, Lower
<1>3. /\ t.cursor.row + n \in Nat /\ t.cursor.column + n \in Nat /\ 0 \in 0..t.columns - 1
      /\ (t.cursor.column \div 8 + 1) * 8 \in Nat
  BY <1>1
<1>4. ASSUME NEW row \in 0..t.rows - 1, NEW column \in 0..t.columns - 1
      PROVE  Sound(MoveTo(t, row, column)) /\ Moved(t, MoveTo(t, row, column))
  BY <1>4, MoveToSound
<1>5. /\ Sound(CursorUp(t, n)) /\ Moved(t, CursorUp(t, n))
      /\ Sound(CursorDown(t, n)) /\ Moved(t, CursorDown(t, n))
  BY <1>1, <1>2, <1>3, <1>4 DEF CursorUp, CursorDown
<1>6. /\ Sound(CursorForward(t, n)) /\ Moved(t, CursorForward(t, n))
      /\ Sound(CursorBack(t, n)) /\ Moved(t, CursorBack(t, n))
  BY <1>1, <1>2, <1>3, <1>4 DEF CursorForward, CursorBack
<1>7. /\ Sound(CursorPosition(t, n, m)) /\ Moved(t, CursorPosition(t, n, m))
      /\ Sound(CarriageReturn(t)) /\ Moved(t, CarriageReturn(t))
  BY <1>1, <1>2, <1>3, <1>4 DEF CursorPosition, CarriageReturn
<1>8. /\ Sound(Backspace(t)) /\ Moved(t, Backspace(t))
      /\ Sound(Tab(t)) /\ Moved(t, Tab(t))
  BY <1>1, <1>2, <1>3, <1>4 DEF Backspace, Tab
<1> QED BY <1>5, <1>6, <1>7, <1>8

-----------------------------------------------------------------------------
\* The scrollback.
LEMMA NewestShort ==
  ASSUME NEW rows, IsSequence(rows), NEW n \in Nat
  PROVE  IsSequence(Newest(rows, n)) /\ Len(Newest(rows, n)) <= n
<1>1. PICK S : rows \in Seq(S)
  BY DEF IsSequence
<1>2. Len(rows) \in Nat
  BY <1>1, LenProperties
<1>3. CASE Len(rows) > n
  <2> DEFINE m == Len(rows) - n + 1
  <2>1. Newest(rows, n) = SubSeq(rows, m, Len(rows)) /\ m \in 1..Len(rows) + 1
    BY <1>2, <1>3 DEF Newest
  <2>2. \A i \in m..Len(rows) : i \in 1..Len(rows)
    BY <1>2, <2>1
  <2>3. \A i \in 1..Len(rows) : rows[i] \in S
    BY <1>1, ElementOfSeq
  <2>4. \A i \in m..Len(rows) : rows[i] \in S
    BY <2>2, <2>3, Zenon
  <2>5. m \in Int /\ Len(rows) \in Int
    BY <1>2
  <2>6. /\ SubSeq(rows, m, Len(rows)) \in Seq(S)
        /\ Len(SubSeq(rows, m, Len(rows))) = IF m <= Len(rows) THEN Len(rows) - m + 1 ELSE 0
    <3> HIDE DEF m
    <3> QED BY <2>4, <2>5, SubSeqProperties
  <2>7. Len(SubSeq(rows, m, Len(rows))) <= n
    BY <1>2, <1>3, <2>6
  <2> QED BY <2>1, <2>6, <2>7 DEF IsSequence
<1>4. CASE ~(Len(rows) > n)
  BY <1>2, <1>4 DEF Newest
<1> QED BY <1>3, <1>4

LEMMA RememberShort ==
  ASSUME NEW rows, IsSequence(rows), NEW row, NEW limit \in Nat, Len(rows) <= limit
  PROVE  /\ IsSequence(Remember(rows, row, limit)) /\ Len(Remember(rows, row, limit)) <= limit
         /\ \/ Remember(rows, row, limit) = rows
            \/ Remember(rows, row, limit) = Newest(Append(rows, row), limit)
<1>1. PICK S : rows \in Seq(S)
  BY DEF IsSequence
<1>2. rows \in Seq(S \cup {row}) /\ row \in S \cup {row}
  BY <1>1, SeqMonotonic
<1>3. Append(rows, row) \in Seq(S \cup {row})
  BY <1>2, AppendProperties
<1>4. IsSequence(Append(rows, row))
  BY <1>3 DEF IsSequence
<1> QED BY <1>4, NewestShort DEF Remember

LEMMA BlankRowIsRow == \A n : IsRow(BlankRow(n), n)
  BY DEF IsRow, BlankRow, Blank, NewCell

LEMMA ScrollSound ==
  ASSUME NEW t, Sound(t)
  PROVE  /\ Sound(Scroll(t)) /\ Logged(t, Scroll(t))
         /\ Scroll(t).rows = t.rows /\ Scroll(t).columns = t.columns
<1> DEFINE u == Scroll(t)
           below == [r \in 0..t.rows - 1 |->
                       IF r = t.rows - 1 THEN BlankRow(t.columns) ELSE t.screen[r + 1]]
<1>1. DOMAIN t = Members
  BY DEF Sound
<1>2. /\ DOMAIN u = Members /\ u.rows = t.rows /\ u.columns = t.columns /\ u.limit = t.limit
      /\ u.cursor = t.cursor /\ u.saved = t.saved /\ u.title = t.title
      /\ u.wrap_pending = t.wrap_pending
      /\ u.screen = below /\ u.scrollback = Remember(t.scrollback, t.screen[0], t.limit)
  BY <1>1 DEF Scroll, Members
<1>3. IsGrid(below, t.rows, t.columns)
  <2>1. \A r \in 0..t.rows - 1 : r # t.rows - 1 => r + 1 \in 0..t.rows - 1
    BY DEF Sound
  <2>2. \A r \in 0..t.rows - 1 : IsRow(t.screen[r], t.columns)
    BY DEF Sound, IsGrid
  <2> QED BY <2>1, <2>2, BlankRowIsRow DEF IsGrid
<1>4. /\ IsSequence(u.scrollback) /\ Len(u.scrollback) <= t.limit
      /\ \/ u.scrollback = t.scrollback
         \/ u.scrollback = Newest(Append(t.scrollback, t.screen[0]), t.limit)
  BY <1>2, RememberShort DEF Sound
<1> HIDE DEF u, below
<1>5. Sound(u) /\ Logged(t, u)
  BY <1>2, <1>3, <1>4 DEF Sound, Logged, IsCursor
<1> QED BY <1>2, <1>5 DEF u

LEMMA MovedLogged ==
  ASSUME NEW t, NEW u, NEW v, Logged(t, u), Moved(u, v)
  PROVE  Logged(t, v)
  BY MovedKeeps DEF Logged

LEMMA LineFeedSound ==
  ASSUME NEW t, Sound(t)
  PROVE  /\ Sound(LineFeed(t)) /\ Logged(t, LineFeed(t))
         /\ LineFeed(t).rows = t.rows /\ LineFeed(t).columns = t.columns
<1>1. /\ t.rows \in Nat \ {0} /\ t.cursor.row \in 0..t.rows - 1
      /\ t.cursor.column \in 0..t.columns - 1
  BY DEF Sound, IsCursor, InGrid
<1>2. CASE t.cursor.row + 1 < t.rows
  <2>1. t.cursor.row + 1 \in 0..t.rows - 1 /\ LineFeed(t) = MoveTo(t, t.cursor.row + 1, t.cursor.column)
    BY <1>1, <1>2 DEF LineFeed
  <2>2. Sound(LineFeed(t)) /\ Moved(t, LineFeed(t))
    <3>1. \A column \in 0..t.columns - 1 : /\ Sound(MoveTo(t, t.cursor.row + 1, column))
                                          /\ Moved(t, MoveTo(t, t.cursor.row + 1, column))
      BY <2>1, MoveToAnywhere, Zenon
    <3> QED BY <1>1, <2>1, <3>1, Zenon
  <2> QED BY <2>2, MovedKeeps DEF Logged
<1>3. CASE ~(t.cursor.row + 1 < t.rows)
  <2> DEFINE u == Scroll(t)
  <2>1. Sound(u) /\ Logged(t, u) /\ u.rows = t.rows /\ u.columns = t.columns
    BY ScrollSound
  <2>2. LineFeed(t) = MoveTo(u, t.cursor.row, t.cursor.column)
    BY <1>3 DEF LineFeed
  <2> HIDE DEF u
  <2>3. Sound(LineFeed(t)) /\ Moved(u, LineFeed(t))
    <3>1. t.cursor.row \in 0..u.rows - 1 /\ t.cursor.column \in 0..u.columns - 1
      BY <1>1, <2>1
    <3>2. \A column \in 0..u.columns - 1 : /\ Sound(MoveTo(u, t.cursor.row, column))
                                          /\ Moved(u, MoveTo(u, t.cursor.row, column))
      BY <2>1, <3>1, MoveToAnywhere, Zenon
    <3> QED BY <2>2, <3>1, <3>2, Zenon
  <2>4. Logged(t, LineFeed(t))
    BY <2>1, <2>3, MovedLogged
  <2> QED BY <2>1, <2>3, <2>4, MovedKeeps
<1> QED BY <1>2, <1>3

LEMMA NextLineSound ==
  ASSUME NEW t, Sound(t)
  PROVE  /\ Sound(NextLine(t)) /\ Logged(t, NextLine(t))
         /\ NextLine(t).rows = t.rows /\ NextLine(t).columns = t.columns
         /\ NextLine(t).cursor.column = 0
<1> DEFINE u == LineFeed(t)
<1>1. Sound(u) /\ Logged(t, u) /\ u.rows = t.rows /\ u.columns = t.columns
  BY LineFeedSound
<1>2. NextLine(t) = MoveTo(u, u.cursor.row, 0)
  BY DEF NextLine, CarriageReturn
<1> HIDE DEF u
<1>3. u.cursor.row \in 0..u.rows - 1 /\ 0 \in 0..u.columns - 1
  BY <1>1 DEF Sound, IsCursor, InGrid
<1>4. Sound(NextLine(t)) /\ Moved(u, NextLine(t)) /\ NextLine(t).cursor.column = 0
  <2>1. \A column \in 0..u.columns - 1 : /\ Sound(MoveTo(u, u.cursor.row, column))
                                        /\ Moved(u, MoveTo(u, u.cursor.row, column))
                                        /\ MoveTo(u, u.cursor.row, column).cursor.column = column
    BY <1>1, <1>3, MoveToAnywhere, Zenon
  <2> QED BY <1>2, <1>3, <2>1, Zenon
<1>5. Logged(t, NextLine(t))
  BY <1>1, <1>4, MovedLogged
<1> QED BY <1>1, <1>4, <1>5, MovedKeeps

LEMMA ControlSound ==
  ASSUME NEW t, Sound(t), NEW control
  PROVE  Sound(ExecuteControl(t, control)) /\ Logged(t, ExecuteControl(t, control))
<1>1. /\ Sound(Backspace(t)) /\ Moved(t, Backspace(t))
      /\ Sound(Tab(t)) /\ Moved(t, Tab(t))
      /\ Sound(CarriageReturn(t)) /\ Moved(t, CarriageReturn(t))
  <2>1. 0 \in Nat
    OBVIOUS
  <2> QED BY <2>1, MovementsSound
<1>2. Sound(LineFeed(t)) /\ Logged(t, LineFeed(t)) /\ Logged(t, t)
  BY LineFeedSound DEF Logged
<1>3. \A u : Moved(t, u) => Logged(t, u)
  BY <1>2, MovedLogged
<1> QED BY <1>1, <1>2, <1>3 DEF ExecuteControl

-----------------------------------------------------------------------------
\* Characters.
LEMMA WrappedSound ==
  ASSUME NEW t, Sound(t), NEW codepoint
  PROVE  LET u == Placed(Wrapped(t), WidthIn(codepoint, t.columns))
         IN Sound(u) /\ Logged(t, u) /\ u.columns = t.columns
<1> DEFINE width == WidthIn(codepoint, t.columns)
<1>1. /\ Sound(NextLine(t)) /\ Logged(t, NextLine(t)) /\ NextLine(t).cursor.column = 0
      /\ NextLine(t).columns = t.columns
  BY NextLineSound
<1>2. width = "wide" => t.columns >= 2
  BY DEF WidthIn
<1>3. CASE t.wrap_pending
  <2>1. Wrapped(t) = NextLine(t)
    BY <1>3 DEF Wrapped
  <2>2. width = "wide" => ~(NextLine(t).cursor.column + 1 >= NextLine(t).columns)
    BY <1>1, <1>2 DEF Sound
  <2>3. Placed(Wrapped(t), width) = NextLine(t)
    BY <2>1, <2>2 DEF Placed
  <2> QED BY <1>1, <2>3
<1>4. CASE ~t.wrap_pending
  <2>1. Placed(Wrapped(t), width) \in {t, NextLine(t)}
    BY <1>4 DEF Wrapped, Placed
  <2> QED BY <1>1, <2>1 DEF Logged
<1> QED BY <1>3, <1>4

LEMMA WriteSound ==
  ASSUME NEW t, Sound(t), NEW codepoint, NEW width
  PROVE  /\ Sound(Write(t, codepoint, width))
         /\ Write(t, codepoint, width).limit = t.limit
         /\ Write(t, codepoint, width).scrollback = t.scrollback
<1> DEFINE row == t.cursor.row
           column == t.cursor.column
           next == column + (IF width = "wide" THEN 2 ELSE 1)
           line == [c \in Columns(t.columns) |->
                      CASE c = column -> NewCell(<<codepoint>>, t.style, width)
                        [] c = column + 1 /\ width = "wide" ->
                             NewCell(<<>>, t.style, "continuation")
                        [] OTHER -> t.screen[row][c]]
           u == Write(t, codepoint, width)
<1>1. /\ DOMAIN t = Members /\ DOMAIN t.cursor = CursorMembers /\ t.columns \in Nat \ {0}
      /\ DOMAIN t.screen = 0..t.rows - 1 /\ t.rows \in Nat \ {0}
      /\ row \in 0..t.rows - 1 /\ column \in 0..t.columns - 1
      /\ \A r \in 0..t.rows - 1 : IsRow(t.screen[r], t.columns)
  BY DEF Sound, IsCursor, InGrid, IsGrid
<1>2. /\ DOMAIN u = Members /\ u.rows = t.rows /\ u.columns = t.columns /\ u.limit = t.limit
      /\ u.saved = t.saved /\ u.title = t.title /\ u.scrollback = t.scrollback
      /\ u.screen = [t.screen EXCEPT ![row] = line]
      /\ u.cursor = [t.cursor EXCEPT !.column = IF next >= t.columns THEN t.columns - 1 ELSE next]
      /\ u.wrap_pending = (next >= t.columns)
  BY <1>1 DEF Write, Members
<1>3. next \in Nat
  BY <1>1
<1>4. IsRow(line, t.columns)
  <2>1. DOMAIN line = Columns(t.columns)
    OBVIOUS
  <2>2. ASSUME NEW c \in Columns(t.columns) PROVE DOMAIN line[c] = {"text", "style", "width"}
    <3>1. DOMAIN t.screen[row][c] = {"text", "style", "width"}
      BY <1>1, <2>2 DEF IsRow
    <3>2. \A text, style, w : DOMAIN NewCell(text, style, w) = {"text", "style", "width"}
      BY DEF NewCell
    <3>3. \/ line[c] = NewCell(<<codepoint>>, t.style, width)
          \/ line[c] = NewCell(<<>>, t.style, "continuation")
          \/ line[c] = t.screen[row][c]
      BY <2>2
    <3> HIDE DEF line
    <3> QED BY <3>1, <3>2, <3>3
  <2> QED BY <2>1, <2>2 DEF IsRow
<1> HIDE DEF line
<1>5. IsGrid(u.screen, t.rows, t.columns)
  BY <1>1, <1>2, <1>4 DEF IsGrid
<1> HIDE DEF next
<1>6. /\ DOMAIN u.cursor = CursorMembers /\ u.cursor.row = row
      /\ u.cursor.column = IF next >= t.columns THEN t.columns - 1 ELSE next
  BY <1>1, <1>2 DEF CursorMembers
<1>7. u.cursor.column \in 0..t.columns - 1
  BY <1>1, <1>3, <1>6
<1>8. u.wrap_pending => u.cursor.column = t.columns - 1
  BY <1>2, <1>6
<1> HIDE DEF u
<1>9. Sound(u)
  BY <1>1, <1>2, <1>5, <1>6, <1>7, <1>8 DEF Sound, IsCursor, InGrid
<1> QED BY <1>2, <1>9 DEF u

LEMMA PutPrintableSound ==
  ASSUME NEW t, Sound(t), NEW codepoint
  PROVE  Sound(PutPrintable(t, codepoint)) /\ Logged(t, PutPrintable(t, codepoint))
<1> DEFINE width == WidthIn(codepoint, t.columns)
           u == Placed(Wrapped(t), width)
<1>1. Sound(u) /\ Logged(t, u)
  BY WrappedSound
<1>2. PutPrintable(t, codepoint) = Write(u, codepoint, width)
  BY DEF PutPrintable
<1> HIDE DEF u, width
<1> QED BY <1>1, <1>2, WriteSound DEF Logged

LEMMA AttachSound ==
  ASSUME NEW t, Sound(t), NEW row \in 0..t.rows - 1, NEW column, NEW mark
  PROVE  Sound(AttachTo(t, row, column, mark)) /\ Logged(t, AttachTo(t, row, column, mark))
<1> DEFINE line == [c \in Columns(t.columns) |->
                      IF c = column THEN [t.screen[row][c] EXCEPT !.text = Append(@, mark)]
                      ELSE t.screen[row][c]]
           u == AttachTo(t, row, column, mark)
<1>1. /\ DOMAIN t = Members /\ DOMAIN t.screen = 0..t.rows - 1
      /\ \A r \in 0..t.rows - 1 : IsRow(t.screen[r], t.columns)
  BY DEF Sound, IsGrid
<1>2. /\ DOMAIN u = Members /\ u.rows = t.rows /\ u.columns = t.columns /\ u.limit = t.limit
      /\ u.cursor = t.cursor /\ u.saved = t.saved /\ u.title = t.title
      /\ u.scrollback = t.scrollback /\ u.wrap_pending = t.wrap_pending
      /\ u.screen = [t.screen EXCEPT ![row] = line]
  BY <1>1 DEF AttachTo, Members
<1>3. IsRow(line, t.columns)
  <2>1. \A c \in Columns(t.columns) : DOMAIN t.screen[row][c] = {"text", "style", "width"}
    BY <1>1 DEF IsRow
  <2> QED BY <2>1 DEF IsRow
<1> HIDE DEF line
<1>4. IsGrid(u.screen, t.rows, t.columns)
  BY <1>1, <1>2, <1>3 DEF IsGrid
<1> HIDE DEF u
<1>5. Sound(u) /\ Logged(t, u)
  BY <1>1, <1>2, <1>4 DEF Sound, IsCursor, Logged
<1> QED BY <1>5 DEF u

LEMMA BaseRowInGrid ==
  ASSUME NEW t, Sound(t), ~(t.cursor.row = 0 /\ t.cursor.column = 0)
  PROVE  BaseRow(t) \in 0..t.rows - 1
<1>1. t.rows \in Nat /\ t.cursor.row \in 0..t.rows - 1 /\ t.cursor.column \in Nat
  BY DEF Sound, IsCursor, InGrid
<1>2. t.cursor.column = 0 => t.cursor.row # 0
  OBVIOUS
<1> QED BY <1>1, <1>2 DEF BaseRow

LEMMA PrintSound ==
  ASSUME NEW t, Sound(t), NEW codepoint
  PROVE  Sound(PrintCodepoint(t, codepoint)) /\ Logged(t, PrintCodepoint(t, codepoint))
<1>1. CASE PrintCodepoint(t, codepoint) = PutPrintable(t, codepoint)
  BY <1>1, PutPrintableSound
<1>2. CASE PrintCodepoint(t, codepoint) = PutPrintable(t, ReplacementCharacter)
  BY <1>2, PutPrintableSound
<1>3. CASE /\ ~(t.cursor.row = 0 /\ t.cursor.column = 0)
           /\ PrintCodepoint(t, codepoint) = AttachTo(t, BaseRow(t), BaseColumn(t), codepoint)
  <2>1. BaseRow(t) \in 0..t.rows - 1
    BY <1>3, BaseRowInGrid
  <2> QED BY <1>3, <2>1, AttachSound
<1> QED BY <1>1, <1>2, <1>3 DEF PrintCodepoint, AppendCombiningMark

-----------------------------------------------------------------------------
\* What a screen full of cells may become, and everything else.
LEMMA RegridSound ==
  ASSUME NEW t, Sound(t), NEW u, NEW rows \in Nat \ {0}, NEW columns \in Nat \ {0},
         DOMAIN u = Members, u.rows = rows, u.columns = columns,
         IsGrid(u.screen, rows, columns),
         DOMAIN u.cursor = CursorMembers, InGrid(u.cursor, rows, columns),
         DOMAIN u.saved = CursorMembers, InGrid(u.saved, rows, columns),
         u.wrap_pending => u.cursor.column = columns - 1,
         u.limit = t.limit, u.scrollback = t.scrollback, u.title = t.title
  PROVE  Sound(u) /\ Logged(t, u)
  BY DEF Sound, IsCursor, Logged

\* A member that Sound() says nothing about, and the saved cursor.
LEMMA RestSound ==
  ASSUME NEW t, Sound(t), NEW u, DOMAIN u = Members,
         \A f \in Members \ {"style", "bracketed_paste", "damaged", "cursor", "saved", "title"} :
           u[f] = t[f],
         DOMAIN u.cursor = CursorMembers,
         u.cursor.row = t.cursor.row, u.cursor.column = t.cursor.column,
         u.saved \in {t.saved, t.cursor},
         Len(u.title) <= MaximumTitleBytes
  PROVE  Sound(u) /\ Logged(t, u)
<1>1. /\ u.rows = t.rows /\ u.columns = t.columns /\ u.limit = t.limit /\ u.screen = t.screen
      /\ u.scrollback = t.scrollback /\ u.wrap_pending = t.wrap_pending
  BY DEF Members
<1> QED BY <1>1 DEF Sound, IsCursor, InGrid, Logged

LEMMA EraseSound ==
  ASSUME NEW t, Sound(t), NEW cells
  PROVE  Sound(Erase(t, cells)) /\ Logged(t, Erase(t, cells))
<1> DEFINE u == Erase(t, cells)
           screen == [r \in 0..t.rows - 1 |->
                        [c \in Columns(t.columns) |->
                           IF <<r, c>> \in cells THEN Blank ELSE t.screen[r][c]]]
<1>1. DOMAIN t = Members
  BY DEF Sound
<1>2. /\ DOMAIN u = Members /\ u.rows = t.rows /\ u.columns = t.columns /\ u.limit = t.limit
      /\ u.cursor = t.cursor /\ u.saved = t.saved /\ u.title = t.title
      /\ u.scrollback = t.scrollback /\ u.wrap_pending = t.wrap_pending
      /\ u.screen = screen
  BY <1>1 DEF Erase, Members
<1>3. IsGrid(screen, t.rows, t.columns)
  <2>1. ASSUME NEW r \in 0..t.rows - 1 PROVE IsRow(screen[r], t.columns)
    <3>1. \A c \in Columns(t.columns) : DOMAIN t.screen[r][c] = {"text", "style", "width"}
      BY DEF Sound, IsGrid, IsRow
    <3>2. DOMAIN Blank = {"text", "style", "width"}
      BY DEF Blank, NewCell
    <3> QED BY <3>1, <3>2 DEF IsRow
  <2> QED BY <2>1 DEF IsGrid
<1> HIDE DEF u, screen
<1>4. Sound(u) /\ Logged(t, u)
  BY <1>2, <1>3 DEF Sound, IsCursor, Logged
<1> QED BY <1>4 DEF u

LEMMA EraseInLineSound ==
  ASSUME NEW t, Sound(t), NEW mode
  PROVE  Sound(EraseInLine(t, mode)) /\ Logged(t, EraseInLine(t, mode))
<1>1. Logged(t, t)
  BY DEF Logged
<1>2. \A cells : Sound(Erase(t, cells)) /\ Logged(t, Erase(t, cells))
  BY EraseSound
<1> QED BY <1>1, <1>2 DEF EraseInLine

LEMMA ForgetSound ==
  ASSUME NEW t, Sound(t)
  PROVE  LET u == EraseInDisplay(t, 3)
         IN Sound(u) /\ u.limit = t.limit /\ u.scrollback = <<>> /\ u.screen = t.screen
<1> DEFINE u == EraseInDisplay(t, 3)
<1>1. DOMAIN t = Members
  BY DEF Sound
<1>2. /\ DOMAIN u = Members /\ u.rows = t.rows /\ u.columns = t.columns /\ u.limit = t.limit
      /\ u.cursor = t.cursor /\ u.saved = t.saved /\ u.title = t.title
      /\ u.scrollback = <<>> /\ u.wrap_pending = t.wrap_pending /\ u.screen = t.screen
  <2>1. u = [t EXCEPT !.scrollback = <<>>, !.damaged = TRUE]
    BY DEF EraseInDisplay
  <2> HIDE DEF u
  <2> QED BY <1>1, <2>1 DEF Members
<1>3. IsSequence(<<>>) /\ Len(<<>>) = 0
  <2>1. <<>> \in Seq({}) /\ Len(<<>>) = 0
    BY EmptySeq
  <2> QED BY <2>1 DEF IsSequence
<1> HIDE DEF u
<1>4. Sound(u)
  BY <1>2, <1>3 DEF Sound, IsCursor
<1> QED BY <1>2, <1>4 DEF u

LEMMA EraseInDisplaySound ==
  ASSUME NEW t, Sound(t), NEW mode, mode # 3
  PROVE  Sound(EraseInDisplay(t, mode)) /\ Logged(t, EraseInDisplay(t, mode))
<1>1. Logged(t, t)
  BY DEF Logged
<1>2. \A cells : Sound(Erase(t, cells)) /\ Logged(t, Erase(t, cells))
  BY EraseSound
<1> QED BY <1>1, <1>2 DEF EraseInDisplay

LEMMA StyleSound ==
  ASSUME NEW t, Sound(t), NEW parameters
  PROVE  /\ Sound(SetGraphicsRendition(t, parameters))
         /\ Logged(t, SetGraphicsRendition(t, parameters))
<1> DEFINE u == SetGraphicsRendition(t, parameters)
<1>1. DOMAIN t = Members /\ DOMAIN t.cursor = CursorMembers /\ Len(t.title) <= MaximumTitleBytes
  BY DEF Sound, IsCursor
<1>2. DOMAIN u = Members /\ \A f \in Members \ {"style", "damaged"} : u[f] = t[f]
  BY <1>1 DEF SetGraphicsRendition, Members
<1> HIDE DEF u
<1>3. u.cursor = t.cursor /\ u.saved = t.saved /\ u.title = t.title
  BY <1>2 DEF Members
<1>4. Sound(u) /\ Logged(t, u)
  BY <1>1, <1>2, <1>3, RestSound
<1> QED BY <1>4 DEF u

LEMMA CutLength ==
  ASSUME NEW s \in Seq(0..255), NEW n \in Nat, n <= Len(s)
  PROVE  Len(SubSeq(s, 1, n)) = n
<1>1. \A i \in 1..n : s[i] \in 0..255
  <2>1. \A i \in 1..Len(s) : s[i] \in 0..255
    BY ElementOfSeq
  <2>2. \A i \in 1..n : i \in 1..Len(s)
    BY LenProperties
  <2> QED BY <2>1, <2>2, Zenon
<1> QED BY <1>1, SubSeqProperties

LEMMA TitleSound ==
  ASSUME NEW t, Sound(t), NEW title \in Seq(0..255)
  PROVE  Sound(SetTitle(t, title)) /\ Logged(t, SetTitle(t, title))
<1> DEFINE u == SetTitle(t, title)
           n == Lower(Len(title), MaximumTitleBytes)
<1>1. DOMAIN t = Members /\ DOMAIN t.cursor = CursorMembers
  BY DEF Sound, IsCursor
<1>2. /\ DOMAIN u = Members /\ \A f \in Members \ {"title"} : u[f] = t[f]
      /\ u.title = SubSeq(title, 1, n)
  <2> DEFINE cut == SubSeq(title, 1, n)
  <2>1. u = [t EXCEPT !.title = cut]
    BY Zenon DEF SetTitle
  <2> HIDE DEF u, cut
  <2>2. DOMAIN u = Members /\ (\A f \in Members \ {"title"} : u[f] = t[f]) /\ u.title = cut
    BY <1>1, <2>1, SMT DEF Members
  <2> QED BY <2>2, Zenon DEF cut
<1>3. Len(SubSeq(title, 1, n)) <= MaximumTitleBytes
  <2>1. Len(title) \in Nat
    BY LenProperties
  <2>2. n \in Nat /\ n <= Len(title) /\ n <= MaximumTitleBytes
    BY <2>1, LimitAssumption DEF Lower
  <2> HIDE DEF n
  <2> QED BY <2>2, CutLength
<1> HIDE DEF u
<1>4. u.cursor = t.cursor /\ u.saved = t.saved
  BY <1>2 DEF Members
<1>5. Sound(u) /\ Logged(t, u)
  BY <1>1, <1>2, <1>3, <1>4, RestSound
<1> QED BY <1>5 DEF u

LEMMA ModeSound ==
  ASSUME NEW t, Sound(t), NEW parameters, NEW enabled
  PROVE  /\ Sound(SetPrivateMode(t, parameters, enabled))
         /\ Logged(t, SetPrivateMode(t, parameters, enabled))
<1> DEFINE u == SetPrivateMode(t, parameters, enabled)
<1>1. DOMAIN t = Members /\ DOMAIN t.cursor = CursorMembers /\ Len(t.title) <= MaximumTitleBytes
  BY DEF Sound, IsCursor
<1>2. /\ DOMAIN u = Members
      /\ \A f \in Members \ {"cursor", "bracketed_paste", "damaged"} : u[f] = t[f]
      /\ DOMAIN u.cursor = CursorMembers
      /\ u.cursor.row = t.cursor.row /\ u.cursor.column = t.cursor.column
  <2> DEFINE visible == IF Listed(parameters, 25) THEN enabled ELSE t.cursor.visible
             v == [t EXCEPT !.cursor.visible = visible]
             paste == IF Listed(parameters, 2004) THEN enabled ELSE v.bracketed_paste
             w == [v EXCEPT !.bracketed_paste = paste]
  <2>1. u = [w EXCEPT !.damaged = TRUE]
    BY SMT DEF SetPrivateMode
  <2> HIDE DEF visible, paste
  <2> HIDE DEF u
  <2> QED BY <1>1, <2>1 DEF Members, CursorMembers
<1> HIDE DEF u
<1>3. u.saved = t.saved /\ u.title = t.title
  BY <1>2 DEF Members
<1>4. Sound(u) /\ Logged(t, u)
  BY <1>1, <1>2, <1>3, RestSound
<1> QED BY <1>4 DEF u

LEMMA SaveSound ==
  ASSUME NEW t, Sound(t)
  PROVE  Sound(SaveCursor(t)) /\ Logged(t, SaveCursor(t))
<1> DEFINE u == SaveCursor(t)
<1>1. DOMAIN t = Members /\ DOMAIN t.cursor = CursorMembers /\ Len(t.title) <= MaximumTitleBytes
  BY DEF Sound, IsCursor
<1>2. DOMAIN u = Members /\ u.saved = t.cursor /\ \A f \in Members \ {"saved"} : u[f] = t[f]
  BY <1>1 DEF SaveCursor, Members
<1> HIDE DEF u
<1>3. u.cursor = t.cursor /\ u.title = t.title
  BY <1>2 DEF Members
<1>4. Sound(u) /\ Logged(t, u)
  BY <1>1, <1>2, <1>3, RestSound
<1> QED BY <1>4 DEF u

LEMMA ClampedInside ==
  ASSUME NEW cursor, DOMAIN cursor = CursorMembers, cursor.row \in Nat, cursor.column \in Nat,
         NEW rows \in Nat \ {0}, NEW columns \in Nat \ {0}
  PROVE  /\ DOMAIN Clamped(cursor, rows, columns) = CursorMembers
         /\ InGrid(Clamped(cursor, rows, columns), rows, columns)
<1> DEFINE u == Clamped(cursor, rows, columns)
<1>1. /\ DOMAIN u = CursorMembers
      /\ u.row = Lower(cursor.row, rows - 1) /\ u.column = Lower(cursor.column, columns - 1)
  BY DEF Clamped, CursorMembers
<1> HIDE DEF u
<1>2. InGrid(u, rows, columns)
  BY <1>1 DEF InGrid, Lower
<1> QED BY <1>1, <1>2 DEF u

LEMMA CursorsAreNumbers ==
  ASSUME NEW t, Sound(t)
  PROVE  /\ t.cursor.row \in Nat /\ t.cursor.column \in Nat /\ DOMAIN t.cursor = CursorMembers
         /\ t.saved.row \in Nat /\ t.saved.column \in Nat /\ DOMAIN t.saved = CursorMembers
  BY DEF Sound, IsCursor, InGrid

LEMMA RestoreSound ==
  ASSUME NEW t, Sound(t)
  PROVE  Sound(RestoreCursor(t)) /\ Logged(t, RestoreCursor(t))
<1> DEFINE u == RestoreCursor(t)
           back == Clamped(t.saved, t.rows, t.columns)
<1>1. DOMAIN t = Members /\ t.rows \in Nat \ {0} /\ t.columns \in Nat \ {0}
      /\ IsGrid(t.screen, t.rows, t.columns)
  BY DEF Sound
<1>2. DOMAIN back = CursorMembers /\ InGrid(back, t.rows, t.columns)
  BY <1>1, CursorsAreNumbers, ClampedInside
<1>3. /\ DOMAIN u = Members /\ u.rows = t.rows /\ u.columns = t.columns /\ u.limit = t.limit
      /\ u.cursor = back /\ u.saved = back /\ u.title = t.title
      /\ u.scrollback = t.scrollback /\ u.wrap_pending = FALSE /\ u.screen = t.screen
  <2> HIDE DEF back
  <2>1. u = [t EXCEPT !.cursor = back, !.saved = back, !.wrap_pending = FALSE, !.damaged = TRUE]
    BY DEF RestoreCursor, back
  <2> HIDE DEF u
  <2> QED BY <1>1, <2>1 DEF Members
<1> HIDE DEF u, back
<1>4. Sound(u) /\ Logged(t, u)
  BY <1>1, <1>2, <1>3, RegridSound
<1> QED BY <1>4 DEF u

LEMMA HomeInside ==
  ASSUME NEW rows \in Nat \ {0}, NEW columns \in Nat \ {0}
  PROVE  DOMAIN Home = CursorMembers /\ InGrid(Home, rows, columns) /\ Home.column = 0
  BY DEF Home, CursorMembers, InGrid

LEMMA ResetSound ==
  ASSUME NEW t, Sound(t)
  PROVE  Sound(ResetState(t)) /\ Logged(t, ResetState(t))
<1> DEFINE u == ResetState(t)
           screen == [r \in 0..t.rows - 1 |-> BlankRow(t.columns)]
<1>1. DOMAIN t = Members /\ t.rows \in Nat \ {0} /\ t.columns \in Nat \ {0}
  BY DEF Sound
<1>2. /\ DOMAIN u = Members /\ u.rows = t.rows /\ u.columns = t.columns /\ u.limit = t.limit
      /\ u.cursor = Home /\ u.saved = Home /\ u.title = t.title
      /\ u.scrollback = t.scrollback /\ u.wrap_pending = FALSE /\ u.screen = screen
  BY <1>1 DEF ResetState, Members
<1>3. IsGrid(screen, t.rows, t.columns)
  BY BlankRowIsRow DEF IsGrid
<1> HIDE DEF u, screen
<1>4. Sound(u) /\ Logged(t, u)
  BY <1>1, <1>2, <1>3, HomeInside, RegridSound
<1> QED BY <1>4 DEF u

LEMMA ResizeToSound ==
  ASSUME NEW t, Sound(t), NEW rows \in Nat \ {0}, NEW columns \in Nat \ {0}
  PROVE  Sound(ResizeTo(t, rows, columns)) /\ Logged(t, ResizeTo(t, rows, columns))
<1> DEFINE u == ResizeTo(t, rows, columns)
           screen == [r \in 0..rows - 1 |->
                        [c \in Columns(columns) |->
                           IF r < t.rows /\ c < t.columns THEN t.screen[r][c] ELSE Blank]]
           cursor == Clamped(t.cursor, rows, columns)
           saved == Clamped(t.saved, rows, columns)
<1>1. DOMAIN t = Members /\ t.rows \in Nat \ {0} /\ t.columns \in Nat \ {0}
      /\ \A r \in 0..t.rows - 1 : IsRow(t.screen[r], t.columns)
  BY DEF Sound, IsGrid
<1>2. /\ DOMAIN cursor = CursorMembers /\ InGrid(cursor, rows, columns)
      /\ DOMAIN saved = CursorMembers /\ InGrid(saved, rows, columns)
  BY CursorsAreNumbers, ClampedInside
<1>3. IsGrid(screen, rows, columns)
  <2>1. DOMAIN Blank = {"text", "style", "width"}
    BY DEF Blank, NewCell
  <2>2. ASSUME NEW r \in 0..rows - 1, NEW c \in Columns(columns)
        PROVE  DOMAIN screen[r][c] = {"text", "style", "width"}
    <3>1. CASE r < t.rows /\ c < t.columns
      <4>1. r \in 0..t.rows - 1 /\ c \in Columns(t.columns)
        BY <1>1, <2>2, <3>1 DEF Columns
      <4>2. screen[r][c] = t.screen[r][c]
        BY <2>2, <3>1
      <4> QED BY <1>1, <4>1, <4>2 DEF IsRow
    <3>2. CASE ~(r < t.rows /\ c < t.columns)
      BY <2>1, <2>2, <3>2
    <3> QED BY <3>1, <3>2
  <2>3. DOMAIN screen = 0..rows - 1 /\ \A r \in 0..rows - 1 : DOMAIN screen[r] = Columns(columns)
    OBVIOUS
  <2> HIDE DEF screen
  <2> QED BY <2>2, <2>3 DEF IsGrid, IsRow
<1>4. /\ DOMAIN u = Members /\ u.rows = rows /\ u.columns = columns /\ u.limit = t.limit
      /\ u.cursor = cursor /\ u.saved = saved /\ u.title = t.title
      /\ u.scrollback = t.scrollback /\ u.wrap_pending = FALSE /\ u.screen = screen
  <2>1. u = [t EXCEPT !.rows = rows, !.columns = columns, !.screen = screen, !.cursor = cursor,
                      !.saved = saved, !.wrap_pending = FALSE, !.damaged = TRUE]
    BY DEF ResizeTo
  <2> HIDE DEF u, screen, cursor, saved
  <2> QED BY <1>1, <2>1 DEF Members
<1> HIDE DEF u, screen, cursor, saved
<1>5. Sound(u) /\ Logged(t, u)
  BY <1>2, <1>3, <1>4, RegridSound
<1> QED BY <1>5 DEF u

LEMMA ResizeSound ==
  ASSUME NEW t, Sound(t), NEW rows \in Nat, NEW columns \in Nat
  PROVE  Sound(Resize(t, rows, columns)) /\ Logged(t, Resize(t, rows, columns))
<1>1. Sanitized(rows) \in Nat \ {0} /\ Sanitized(columns) \in Nat \ {0}
  BY DEF Sanitized
<1>2. /\ Sound(ResizeTo(t, Sanitized(rows), Sanitized(columns)))
      /\ Logged(t, ResizeTo(t, Sanitized(rows), Sanitized(columns)))
  BY <1>1, ResizeToSound
<1>3. Logged(t, t)
  BY DEF Logged
<1> QED BY <1>2, <1>3 DEF Resize

LEMMA LimitSound ==
  ASSUME NEW t, Sound(t), NEW requested \in Nat
  PROVE  LET u == SetScrollbackLimit(t, requested)
         IN Sound(u) /\ u.scrollback = Newest(t.scrollback, u.limit) /\ u.screen = t.screen
<1> DEFINE limit == Lower(requested, MaximumScrollbackRows)
           kept == Newest(t.scrollback, limit)
           u == SetScrollbackLimit(t, requested)
<1>1. limit \in Nat /\ limit <= MaximumScrollbackRows
  BY LimitAssumption DEF Lower
<1>2. DOMAIN t = Members /\ IsSequence(t.scrollback)
  BY DEF Sound
<1>3. u = [t EXCEPT !.limit = limit, !.scrollback = kept]
  BY DEF SetScrollbackLimit
<1> HIDE DEF limit
<1>4. IsSequence(kept) /\ Len(kept) <= limit
  BY <1>1, <1>2, NewestShort
<1> HIDE DEF u, kept
<1>5. /\ DOMAIN u = Members /\ u.rows = t.rows /\ u.columns = t.columns /\ u.limit = limit
      /\ u.cursor = t.cursor /\ u.saved = t.saved /\ u.title = t.title
      /\ u.scrollback = kept /\ u.wrap_pending = t.wrap_pending /\ u.screen = t.screen
  BY <1>2, <1>3 DEF Members
<1>6. Sound(u)
  BY <1>1, <1>4, <1>5 DEF Sound, IsCursor
<1> QED BY <1>5, <1>6 DEF u, kept

LEMMA DrawnSound ==
  ASSUME NEW t, Sound(t)
  PROVE  Sound(ClearDamage(t)) /\ Logged(t, ClearDamage(t))
<1> DEFINE u == ClearDamage(t)
<1>1. DOMAIN t = Members /\ DOMAIN t.cursor = CursorMembers /\ Len(t.title) <= MaximumTitleBytes
  BY DEF Sound, IsCursor
<1>2. DOMAIN u = Members /\ \A f \in Members \ {"damaged"} : u[f] = t[f]
  BY <1>1 DEF ClearDamage, Members
<1> HIDE DEF u
<1>3. u.cursor = t.cursor /\ u.saved = t.saved /\ u.title = t.title
  BY <1>2 DEF Members
<1>4. Sound(u) /\ Logged(t, u)
  BY <1>1, <1>2, <1>3, RestSound
<1> QED BY <1>4 DEF u

LEMMA NewSound ==
  ASSUME NEW rows \in Nat, NEW columns \in Nat, NEW limit \in Nat
  PROVE  Sound(New(rows, columns, limit)) /\ New(rows, columns, limit).scrollback = <<>>
<1> DEFINE u == New(rows, columns, limit)
           screen == [r \in 0..Sanitized(rows) - 1 |-> BlankRow(Sanitized(columns))]
<1>1. Sanitized(rows) \in Nat \ {0} /\ Sanitized(columns) \in Nat \ {0}
  BY DEF Sanitized
<1>2. Lower(limit, MaximumScrollbackRows) \in Nat
      /\ Lower(limit, MaximumScrollbackRows) <= MaximumScrollbackRows
  BY LimitAssumption DEF Lower
<1>3. IsGrid(screen, Sanitized(rows), Sanitized(columns))
  BY BlankRowIsRow DEF IsGrid
<1>4. <<>> \in Seq({}) /\ Len(<<>>) = 0
  BY EmptySeq
<1>5. /\ DOMAIN u = Members /\ u.rows = Sanitized(rows) /\ u.columns = Sanitized(columns)
      /\ u.limit = Lower(limit, MaximumScrollbackRows) /\ u.cursor = Home /\ u.saved = Home
      /\ u.title = <<>> /\ u.scrollback = <<>> /\ u.wrap_pending = FALSE /\ u.screen = screen
  BY DEF New, Members
<1> HIDE DEF u, screen
<1>6. IsSequence(u.scrollback)
  BY <1>4, <1>5 DEF IsSequence
<1>7. Sound(u)
  BY <1>1, <1>2, <1>3, <1>4, <1>5, <1>6, HomeInside, LimitAssumption DEF Sound, IsCursor
<1> QED BY <1>5, <1>7 DEF u

-----------------------------------------------------------------------------
\* The steps.
Good == Sound(terminal)

\* A step logs, or forgets the log, or cuts it.
Kept(t, u) ==
  \/ Logged(t, u)
  \/ u.limit = t.limit /\ u.scrollback = <<>> /\ u.screen = t.screen
  \/ u.scrollback = Newest(t.scrollback, u.limit) /\ u.screen = t.screen

LEMMA GoodInit == Init => Good /\ terminal.scrollback = <<>>
<1> SUFFICES ASSUME Init PROVE Good /\ terminal.scrollback = <<>>
  OBVIOUS
<1>1. PICK size \in Sizes, limit \in Limits : terminal = New(size[1], size[2], limit)
  BY DEF Init
<1>2. size[1] \in Nat /\ size[2] \in Nat /\ limit \in Nat
  BY InputAssumption
<1> QED BY <1>1, <1>2, NewSound DEF Good

LEMMA GoodStep ==
  ASSUME Good, [Next]_terminal
  PROVE  Good' /\ Kept(terminal, terminal')
<1> DEFINE t == terminal
<1> USE DEF Good
<1> SUFFICES Sound(terminal') /\ Kept(t, terminal')
  OBVIOUS
<1>0. ASSUME NEW u, Logged(t, u) PROVE Kept(t, u)
  BY <1>0 DEF Kept
<1>1. ASSUME NEW codepoint \in Codepoints, PrintStep(codepoint)
      PROVE  Sound(terminal') /\ Kept(t, terminal')
  BY <1>0, <1>1, PrintSound DEF PrintStep
<1>2. CASE ControlStep
  BY <1>0, <1>2, ControlSound DEF ControlStep
<1>3. CASE MoveStep
  <2>1. ASSUME NEW u, Moved(t, u) PROVE Logged(t, u)
    BY <2>1, MovedKeeps DEF Logged
  <2>2. PICK n \in Counts, m \in Counts :
          terminal' \in {CursorUp(t, n), CursorDown(t, n), CursorForward(t, n), CursorBack(t, n),
                         CursorPosition(t, n, m), CarriageReturn(t), Backspace(t), Tab(t)}
    BY <1>3 DEF MoveStep
  <2>3. n \in Nat /\ m \in Nat
    BY InputAssumption
  <2>4. Sound(terminal') /\ Moved(t, terminal')
    BY <2>2, <2>3, MovementsSound
  <2> QED BY <1>0, <2>1, <2>4
<1>4. CASE EraseStep
  <2>1. CASE \E mode \in 0..2 : terminal' = EraseInLine(t, mode)
    BY <1>0, <2>1, EraseInLineSound
  <2>2. CASE terminal' = EraseInDisplay(t, 3)
    BY <2>2, ForgetSound DEF Kept
  <2>3. CASE \E mode \in 0..2 : terminal' = EraseInDisplay(t, mode)
    <3>1. PICK mode \in 0..2 : terminal' = EraseInDisplay(t, mode)
      BY <2>3
    <3>2. mode # 3
      OBVIOUS
    <3> QED BY <1>0, <3>1, <3>2, EraseInDisplaySound
  <2>4. 0..3 = (0..2) \cup {3}
    OBVIOUS
  <2> QED BY <1>4, <2>1, <2>2, <2>3, <2>4 DEF EraseStep
<1>5. CASE StyleStep
  BY <1>0, <1>5, StyleSound DEF StyleStep
<1>6. CASE ModeStep
  BY <1>0, <1>6, ModeSound DEF ModeStep
<1>7. CASE TitleStep
  BY <1>0, <1>7, TitleSound, InputAssumption DEF TitleStep
<1>8. CASE CursorStep
  BY <1>0, <1>8, SaveSound, RestoreSound DEF CursorStep
<1>9. CASE ResetStep
  BY <1>0, <1>9, ResetSound DEF ResetStep
<1>10. CASE ResizeStep
  <2>1. PICK size \in Sizes : terminal' = Resize(t, size[1], size[2])
    BY <1>10 DEF ResizeStep
  <2>2. size[1] \in Nat /\ size[2] \in Nat
    BY InputAssumption
  <2> QED BY <1>0, <2>1, <2>2, ResizeSound
<1>11. CASE LimitStep
  <2>1. PICK n \in Limits : terminal' = SetScrollbackLimit(t, n)
    BY <1>11 DEF LimitStep
  <2>2. n \in Nat
    BY InputAssumption
  <2> QED BY <2>1, <2>2, LimitSound DEF Kept
<1>12. CASE DrawnStep
  BY <1>0, <1>12, DrawnSound DEF DrawnStep
<1>13. CASE UNCHANGED terminal
  BY <1>13 DEF Kept, Logged
<1> QED BY <1>1, <1>2, <1>3, <1>4, <1>5, <1>6, <1>7, <1>8, <1>9, <1>10, <1>11, <1>12, <1>13
      DEF Next

(* Nothing is ever outside the grid: the cursor, the saved cursor and      *)
(* every row keep to it (terminal_state.hpp:64-74).                        *)
THEOREM GridHolds == Spec => []TypeOK
<1>1. Good => TypeOK
  BY DEF Good, Sound, IsCursor, IsGrid, TypeOK
<1>2. Init => Good
  BY GoodInit
<1>3. Good /\ [Next]_terminal => Good'
  BY GoodStep
<1> QED BY <1>1, <1>2, <1>3, PTL DEF Spec

(* A wrap is pending behind the last column only                           *)
(* (terminal_state.cpp:319-323,351-358).                                   *)
THEOREM WrapsAtMargin == Spec => []WrapOnlyAtMargin
<1>1. Good => WrapOnlyAtMargin
  BY DEF Good, Sound, WrapOnlyAtMargin
<1>2. Init => Good
  BY GoodInit
<1>3. Good /\ [Next]_terminal => Good'
  BY GoodStep
<1> QED BY <1>1, <1>2, <1>3, PTL DEF Spec

(* The scrollback never holds more rows than its limit                     *)
(* (terminal_state.cpp:57-62,249-254).                                     *)
THEOREM ScrollbackWithinLimit == Spec => []ScrollbackBounded
<1>1. Good => ScrollbackBounded
  BY DEF Good, Sound, ScrollbackBounded
<1>2. Init => Good
  BY GoodInit
<1>3. Good /\ [Next]_terminal => Good'
  BY GoodStep
<1> QED BY <1>1, <1>2, <1>3, PTL DEF Spec

(* The screen implements the log of LineHistory: a step adds the row that  *)
(* leaves the top, lets go of the oldest, or leaves the log as it is       *)
(* (terminal_state.cpp:57-62,137,245-260).                                 *)
THEOREM ScrollbackIsLog == Spec => ScrollbackIsHistory
<1>1. Init => Good /\ History!HInit
  BY GoodInit DEF History!HInit
<1>2. Good /\ [Next]_terminal => Good' /\ [History!HNext]_(History!hvars)
  <2> SUFFICES ASSUME Good, [Next]_terminal PROVE Good' /\ History!HNext
    OBVIOUS
  <2>1. Good' /\ Kept(terminal, terminal')
    BY GoodStep
  <2>2. \A rows, n : History!Kept(rows, n) = Newest(rows, n)
    BY DEF History!Kept, Newest
  <2>3. CASE Logged(terminal, terminal')
    BY <2>1, <2>2, <2>3 DEF Logged, History!HNext, History!ScrollOut, History!Edit
  <2>4. CASE /\ terminal'.limit = terminal.limit /\ terminal'.scrollback = <<>>
             /\ terminal'.screen = terminal.screen
    BY <2>1, <2>4 DEF History!HNext, History!Forget
  <2>5. CASE /\ terminal'.scrollback = Newest(terminal.scrollback, terminal'.limit)
             /\ terminal'.screen = terminal.screen
    BY <2>1, <2>2, <2>5 DEF History!HNext, History!ChangeLimit
  <2> QED BY <2>1, <2>3, <2>4, <2>5 DEF Kept
<1> QED BY <1>1, <1>2, PTL DEF Spec, ScrollbackIsHistory, History!HSpec
-----------------------------------------------------------------------------
\* The damage: what an operation returns is marked, or looks as before.
SameLooks(t, u) ==
  u.screen = t.screen /\ u.scrollback = t.scrollback /\ u.cursor = t.cursor
Seen(t, u) == u.damaged \/ SameLooks(t, u)

LEMMA Marked ==
  ASSUME NEW t, DOMAIN t = Members
  PROVE  /\ \A row, column : MoveTo(t, row, column).damaged
         /\ \A cells : Erase(t, cells).damaged
         /\ \A codepoint, width : Write(t, codepoint, width).damaged
         /\ \A row, column, mark : AttachTo(t, row, column, mark).damaged
         /\ \A parameters : SetGraphicsRendition(t, parameters).damaged
         /\ \A parameters, enabled : SetPrivateMode(t, parameters, enabled).damaged
         /\ \A rows, columns : ResizeTo(t, rows, columns).damaged
         /\ RestoreCursor(t).damaged /\ ResetState(t).damaged
         /\ EraseInDisplay(t, 3).damaged
<1>1. \A row, column : MoveTo(t, row, column).damaged
  BY DEF MoveTo, Members
<1>2. \A cells : Erase(t, cells).damaged
  BY DEF Erase, Members
<1>3. \A codepoint, width : Write(t, codepoint, width).damaged
  BY DEF Write, Members
<1>4. \A row, column, mark : AttachTo(t, row, column, mark).damaged
  BY DEF AttachTo, Members
<1>5. \A parameters : SetGraphicsRendition(t, parameters).damaged
  BY DEF SetGraphicsRendition, Members
<1>6. \A parameters, enabled : SetPrivateMode(t, parameters, enabled).damaged
  BY DEF SetPrivateMode, Members
<1>7. \A rows, columns : ResizeTo(t, rows, columns).damaged
  BY DEF ResizeTo, Members
<1>8. RestoreCursor(t).damaged /\ ResetState(t).damaged
  BY DEF RestoreCursor, ResetState, Members
<1>9. EraseInDisplay(t, 3).damaged
  <2>1. EraseInDisplay(t, 3) = [t EXCEPT !.scrollback = <<>>, !.damaged = TRUE]
    BY DEF EraseInDisplay
  <2> QED BY <2>1 DEF Members
<1> QED BY <1>1, <1>2, <1>3, <1>4, <1>5, <1>6, <1>7, <1>8, <1>9

LEMMA SoundMarked == \A t : Sound(t) => DOMAIN t = Members
  BY DEF Sound

LEMMA MovementsMarked ==
  ASSUME NEW t, Sound(t)
  PROVE  /\ LineFeed(t).damaged /\ CarriageReturn(t).damaged /\ Backspace(t).damaged
         /\ Tab(t).damaged
         /\ \A n : /\ CursorUp(t, n).damaged /\ CursorDown(t, n).damaged
                   /\ CursorForward(t, n).damaged /\ CursorBack(t, n).damaged
                   /\ \A m : CursorPosition(t, n, m).damaged
<1>1. DOMAIN t = Members /\ DOMAIN Scroll(t) = Members
  BY ScrollSound, SoundMarked
<1>2. \A row, column : MoveTo(t, row, column).damaged /\ MoveTo(Scroll(t), row, column).damaged
  BY <1>1, Marked
<1> QED BY <1>2 DEF LineFeed, CarriageReturn, Backspace, Tab, CursorUp, CursorDown,
                    CursorForward, CursorBack, CursorPosition

LEMMA PrintMarked ==
  ASSUME NEW t, Sound(t), NEW codepoint
  PROVE  PrintCodepoint(t, codepoint).damaged
<1>1. \A c : PutPrintable(t, c).damaged
  <2>1. ASSUME NEW c PROVE PutPrintable(t, c).damaged
    <3> DEFINE u == Placed(Wrapped(t), WidthIn(c, t.columns))
    <3>1. Sound(u)
      BY WrappedSound
    <3>2. PutPrintable(t, c) = Write(u, c, WidthIn(c, t.columns))
      BY DEF PutPrintable
    <3> HIDE DEF u
    <3> QED BY <3>1, <3>2, SoundMarked, Marked
  <2> QED BY <2>1
<1>2. \A row, column, mark : AttachTo(t, row, column, mark).damaged
  BY SoundMarked, Marked
<1> QED BY <1>1, <1>2 DEF PrintCodepoint, AppendCombiningMark

LEMMA StepSeen ==
  ASSUME Good, Next, ~LimitStep
  PROVE  Seen(terminal, terminal')
<1> DEFINE t == terminal
<1>1. Sound(t) /\ DOMAIN t = Members
  BY SoundMarked DEF Good
<1>2. Seen(t, t)
  BY DEF Seen, SameLooks
<1>3. ASSUME NEW codepoint \in Codepoints, PrintStep(codepoint) PROVE Seen(t, terminal')
  BY <1>1, <1>3, PrintMarked DEF PrintStep, Seen
<1>4. CASE ControlStep
  BY <1>1, <1>2, <1>4, MovementsMarked DEF ControlStep, ExecuteControl, Seen
<1>5. CASE MoveStep
  BY <1>1, <1>5, MovementsMarked DEF MoveStep, Seen
<1>6. CASE EraseStep
  <2>1. \A cells : Erase(t, cells).damaged
    BY <1>1, Marked
  <2>2. \A mode : Seen(t, EraseInLine(t, mode))
    BY <1>2, <2>1 DEF EraseInLine, Seen
  <2>3. \A mode : Seen(t, EraseInDisplay(t, mode))
    <3>1. \A mode : mode # 3 => Seen(t, EraseInDisplay(t, mode))
      BY <1>2, <2>1 DEF EraseInDisplay, Seen
    <3>2. Seen(t, EraseInDisplay(t, 3))
      BY <1>1, Marked DEF Seen
    <3> QED BY <3>1, <3>2
  <2> QED BY <1>6, <2>2, <2>3 DEF EraseStep
<1>7. CASE StyleStep
  BY <1>1, <1>7, Marked DEF StyleStep, Seen
<1>8. CASE ModeStep
  BY <1>1, <1>8, Marked DEF ModeStep, Seen
<1>9. CASE TitleStep
  <2>1. PICK title : terminal' = [t EXCEPT !.title = SubSeq(title, 1, Lower(Len(title), MaximumTitleBytes))]
    BY <1>9 DEF TitleStep, SetTitle
  <2> QED BY <1>1, <2>1 DEF Seen, SameLooks, Members
<1>10. CASE CursorStep
  <2>1. SameLooks(t, SaveCursor(t))
    BY <1>1 DEF SaveCursor, SameLooks, Members
  <2>2. RestoreCursor(t).damaged
    BY <1>1, Marked
  <2> QED BY <1>10, <2>1, <2>2 DEF CursorStep, Seen
<1>11. CASE ResetStep
  BY <1>1, <1>11, Marked DEF ResetStep, Seen
<1>12. CASE ResizeStep
  BY <1>1, <1>2, <1>12, Marked DEF ResizeStep, Resize, Seen
<1>13. CASE DrawnStep
  BY <1>1, <1>13 DEF DrawnStep, ClearDamage, Seen, SameLooks, Members
<1> QED BY <1>3, <1>4, <1>5, <1>6, <1>7, <1>8, <1>9, <1>10, <1>11, <1>12, <1>13 DEF Next

(* Whatever changes what the window shows marks the terminal as damaged    *)
(* (terminal_state.cpp:140 and every operation).                           *)
THEOREM ChangesAreSeen == Spec => DamageCoversChanges
<1>1. Good /\ [Next]_terminal =>
        [~LimitStep /\ <<terminal.screen, terminal.scrollback, terminal.cursor>>'
                         # <<terminal.screen, terminal.scrollback, terminal.cursor>>
           => terminal'.damaged]_terminal
  BY StepSeen DEF Seen, SameLooks
<1>2. Init => Good
  BY GoodInit
<1>3. Good /\ [Next]_terminal => Good'
  BY GoodStep
<1> QED BY <1>1, <1>2, <1>3, PTL DEF Spec, DamageCoversChanges
-----------------------------------------------------------------------------
\* The cells: a second half of a wide character has no text, every other
\* cell has some, and no row begins with a second half.
IsCell(cell, c) ==
  /\ cell.text \in Seq(Nat)
  /\ cell.width = "continuation" <=> cell.text = <<>>
  /\ cell.width = "continuation" => c > 0

HasCells(row, columns) == \A c \in 0..columns - 1 : IsCell(row[c], c)
IsFilled(t) == \A r \in 0..t.rows - 1 : HasCells(t.screen[r], t.columns)

\* Every row of u is one of t, or one without a wide character's half.
SameScreen(t, u) == u.screen = t.screen /\ u.rows = t.rows /\ u.columns = t.columns

LEMMA SameFilled == \A t, u : IsFilled(t) /\ SameScreen(t, u) => IsFilled(u)
  BY DEF IsFilled, SameScreen

LEMMA OneIsCell ==
  ASSUME NEW codepoint \in Nat, NEW style, NEW width, width # "continuation", NEW c
  PROVE  IsCell(NewCell(<<codepoint>>, style, width), c)
<1>1. <<codepoint>> \in Seq(Nat) /\ <<codepoint>> # <<>>
  OBVIOUS
<1> QED BY <1>1 DEF IsCell, NewCell

LEMMA BlankIsCell == \A c : IsCell(Blank, c)
<1>1. Space \in Nat /\ "normal" # "continuation"
  BY DEF Space
<1> QED BY <1>1, OneIsCell DEF Blank

LEMMA BlankRowHasCells == \A n : HasCells(BlankRow(n), n)
  BY BlankIsCell DEF HasCells, BlankRow, Columns

LEMMA MovedFilled ==
  ASSUME NEW t, NEW u, IsFilled(t), Moved(t, u)
  PROVE  IsFilled(u)
  BY MovedKeeps, SameFilled DEF SameScreen

LEMMA ScrollFilled ==
  ASSUME NEW t, Sound(t), IsFilled(t)
  PROVE  IsFilled(Scroll(t))
<1> DEFINE u == Scroll(t)
           below == [r \in 0..t.rows - 1 |->
                       IF r = t.rows - 1 THEN BlankRow(t.columns) ELSE t.screen[r + 1]]
<1>1. DOMAIN t = Members /\ t.rows \in Nat \ {0}
  BY DEF Sound
<1>2. u.rows = t.rows /\ u.columns = t.columns /\ u.screen = below
  BY <1>1 DEF Scroll, Members
<1>3. ASSUME NEW r \in 0..t.rows - 1 PROVE HasCells(below[r], t.columns)
  <2>1. CASE r = t.rows - 1
    BY <2>1, BlankRowHasCells
  <2>2. CASE r # t.rows - 1
    <3>1. r + 1 \in 0..t.rows - 1 /\ below[r] = t.screen[r + 1]
      BY <1>1, <2>2
    <3> QED BY <3>1 DEF IsFilled
  <2> QED BY <2>1, <2>2
<1> HIDE DEF below, u
<1>4. IsFilled(u)
  BY <1>2, <1>3 DEF IsFilled
<1> QED BY <1>4 DEF u

LEMMA LineFeedFilled ==
  ASSUME NEW t, Sound(t), IsFilled(t)
  PROVE  IsFilled(LineFeed(t)) /\ IsFilled(NextLine(t))
<1>1. \A u, row, column : DOMAIN u = Members /\ IsFilled(u) => IsFilled(MoveTo(u, row, column))
  <2>1. \A u, row, column : DOMAIN u = Members => SameScreen(u, MoveTo(u, row, column))
    BY DEF MoveTo, SameScreen, Members
  <2> QED BY <2>1, SameFilled
<1>2. IsFilled(Scroll(t)) /\ DOMAIN t = Members /\ DOMAIN Scroll(t) = Members
  BY ScrollFilled, ScrollSound, SoundMarked
<1>3. IsFilled(LineFeed(t)) /\ DOMAIN LineFeed(t) = Members
  BY <1>1, <1>2, LineFeedSound, SoundMarked DEF LineFeed
<1> QED BY <1>1, <1>3 DEF NextLine, CarriageReturn

LEMMA WriteFilled ==
  ASSUME NEW t, Sound(t), IsFilled(t), NEW codepoint \in Nat, NEW width \in {"normal", "wide"}
  PROVE  IsFilled(Write(t, codepoint, width))
<1> DEFINE row == t.cursor.row
           column == t.cursor.column
           line == [c \in Columns(t.columns) |->
                      CASE c = column -> NewCell(<<codepoint>>, t.style, width)
                        [] c = column + 1 /\ width = "wide" ->
                             NewCell(<<>>, t.style, "continuation")
                        [] OTHER -> t.screen[row][c]]
           u == Write(t, codepoint, width)
<1>1. /\ DOMAIN t = Members /\ DOMAIN t.screen = 0..t.rows - 1
      /\ row \in 0..t.rows - 1 /\ column \in Nat
  BY DEF Sound, IsCursor, InGrid, IsGrid
<1>2. /\ u.rows = t.rows /\ u.columns = t.columns
      /\ u.screen = [t.screen EXCEPT ![row] = line]
  BY <1>1 DEF Write, Members
<1>3. HasCells(line, t.columns)
  <2> SUFFICES ASSUME NEW c \in 0..t.columns - 1 PROVE IsCell(line[c], c)
    BY DEF HasCells
  <2>1. c \in Columns(t.columns)
    BY DEF Columns
  <2>2. CASE c = column
    BY <2>1, <2>2, OneIsCell
  <2>3. CASE c = column + 1 /\ width = "wide"
    <3>1. line[c] = NewCell(<<>>, t.style, "continuation") /\ c > 0 /\ <<>> \in Seq(Nat)
      BY <1>1, <2>1, <2>3
    <3> HIDE DEF line
    <3> QED BY <3>1 DEF IsCell, NewCell
  <2>4. CASE c # column /\ ~(c = column + 1 /\ width = "wide")
    <3>1. line[c] = t.screen[row][c]
      BY <2>1, <2>4
    <3> HIDE DEF line
    <3> QED BY <1>1, <3>1 DEF IsFilled, HasCells
  <2> QED BY <2>2, <2>3, <2>4
<1> HIDE DEF line, u
<1>4. IsFilled(u)
  BY <1>1, <1>2, <1>3 DEF IsFilled
<1> QED BY <1>4 DEF u

LEMMA PutPrintableFilled ==
  ASSUME NEW t, Sound(t), IsFilled(t), NEW codepoint \in Nat
  PROVE  IsFilled(PutPrintable(t, codepoint))
<1> DEFINE width == WidthIn(codepoint, t.columns)
           u == Placed(Wrapped(t), width)
<1>1. Sound(u) /\ width \in {"normal", "wide"}
  BY WrappedSound DEF WidthIn
<1>2. IsFilled(u)
  <2>1. Sound(Wrapped(t)) /\ IsFilled(Wrapped(t))
    BY NextLineSound, LineFeedFilled DEF Wrapped
  <2> QED BY <2>1, LineFeedFilled DEF Placed
<1>3. PutPrintable(t, codepoint) = Write(u, codepoint, width)
  BY DEF PutPrintable
<1> HIDE DEF u, width
<1> QED BY <1>1, <1>2, <1>3, WriteFilled

\* The search of append_combining_mark() ends at a cell with text.
LEMMA BaseHasText ==
  ASSUME NEW t, Sound(t), IsFilled(t), ~(t.cursor.row = 0 /\ t.cursor.column = 0)
  PROVE  /\ BaseRow(t) \in 0..t.rows - 1 /\ BaseColumn(t) \in 0..t.columns - 1
         /\ t.screen[BaseRow(t)][BaseColumn(t)].width # "continuation"
<1> DEFINE row == t.screen[BaseRow(t)]
           last == IF t.cursor.column = 0 THEN t.columns - 1 ELSE t.cursor.column - 1
           bases == {c \in 0..last : c = 0 \/ row[c].width # "continuation"}
<1>1. BaseRow(t) \in 0..t.rows - 1 /\ last \in 0..t.columns - 1 /\ t.columns \in Nat \ {0}
  <2>1. /\ t.rows \in Nat \ {0} /\ t.columns \in Nat \ {0}
        /\ t.cursor.row \in 0..t.rows - 1 /\ t.cursor.column \in 0..t.columns - 1
    BY DEF Sound, IsCursor, InGrid
  <2>2. BaseRow(t) \in 0..t.rows - 1
    BY <2>1 DEF BaseRow
  <2>3. last \in 0..t.columns - 1
    BY <2>1
  <2> QED BY <2>1, <2>2, <2>3
<1>2. HasCells(row, t.columns)
  BY <1>1 DEF IsFilled
<1>3. BaseColumn(t) = CHOOSE c \in 0..last : /\ c = 0 \/ row[c].width # "continuation"
                                            /\ \A d \in c + 1..last : row[d].width = "continuation"
  BY DEF BaseColumn
<1> HIDE DEF row, last
<1>4. last \in Nat /\ bases \subseteq 0..last /\ 0 \in bases
  BY <1>1
<1>5. PICK c \in bases : \A d \in bases : d <= c
  <2> HIDE DEF bases
  <2> QED BY <1>4, HasGreatest
<1>6. \A d \in c + 1..last : row[d].width = "continuation"
  BY <1>4, <1>5
<1>7. /\ BaseColumn(t) \in 0..last
      /\ BaseColumn(t) = 0 \/ row[BaseColumn(t)].width # "continuation"
  BY <1>3, <1>5, <1>6
<1>8. 0 \in 0..t.columns - 1 /\ BaseColumn(t) \in 0..t.columns - 1
  BY <1>1, <1>4, <1>7
<1>9. row[0].width # "continuation"
  BY <1>2, <1>8 DEF HasCells, IsCell
<1> QED BY <1>1, <1>7, <1>8, <1>9 DEF row

LEMMA AttachFilled ==
  ASSUME NEW t, Sound(t), IsFilled(t), NEW row \in 0..t.rows - 1,
         NEW column \in 0..t.columns - 1, t.screen[row][column].width # "continuation",
         NEW mark \in Nat
  PROVE  IsFilled(AttachTo(t, row, column, mark))
<1> DEFINE line == [c \in Columns(t.columns) |->
                      IF c = column THEN [t.screen[row][c] EXCEPT !.text = Append(@, mark)]
                      ELSE t.screen[row][c]]
           u == AttachTo(t, row, column, mark)
<1>1. /\ DOMAIN t = Members /\ DOMAIN t.screen = 0..t.rows - 1
      /\ \A r \in 0..t.rows - 1 : IsRow(t.screen[r], t.columns)
  BY DEF Sound, IsGrid
<1>2. /\ u.rows = t.rows /\ u.columns = t.columns
      /\ u.screen = [t.screen EXCEPT ![row] = line]
  BY <1>1 DEF AttachTo, Members
<1>3. HasCells(line, t.columns)
  <2> SUFFICES ASSUME NEW c \in 0..t.columns - 1 PROVE IsCell(line[c], c)
    BY DEF HasCells
  <2>1. c \in Columns(t.columns) /\ IsCell(t.screen[row][c], c)
    BY DEF Columns, IsFilled, HasCells
  <2>2. CASE c = column
    <3> DEFINE cell == t.screen[row][c]
    <3>1. line[c] = [cell EXCEPT !.text = Append(@, mark)]
      BY <2>1, <2>2
    <3>2. DOMAIN cell = {"text", "style", "width"}
      BY <1>1, <2>1 DEF IsRow
    <3>3. cell.text \in Seq(Nat) /\ cell.width # "continuation"
      BY <2>1, <2>2 DEF IsCell
    <3> HIDE DEF cell, line
    <3>4. Append(cell.text, mark) \in Seq(Nat) /\ Append(cell.text, mark) # <<>>
      <4>1. Append(cell.text, mark) \in Seq(Nat) /\ Len(Append(cell.text, mark)) = Len(cell.text) + 1
        BY <3>3, AppendProperties
      <4>2. Len(cell.text) \in Nat /\ Len(<<>>) = 0
        BY <3>3
      <4> QED BY <4>1, <4>2
    <3>5. line[c].text = Append(cell.text, mark) /\ line[c].width = cell.width
      BY <3>1, <3>2
    <3> QED BY <3>3, <3>4, <3>5 DEF IsCell
  <2>3. CASE c # column
    BY <2>1, <2>3
  <2> QED BY <2>2, <2>3
<1> HIDE DEF line, u
<1>4. IsFilled(u)
  BY <1>1, <1>2, <1>3 DEF IsFilled
<1> QED BY <1>4 DEF u

LEMMA PrintFilled ==
  ASSUME NEW t, Sound(t), IsFilled(t), NEW codepoint \in Nat
  PROVE  IsFilled(PrintCodepoint(t, codepoint))
<1>1. ReplacementCharacter \in Nat
  BY DEF ReplacementCharacter
<1>2. IsFilled(PutPrintable(t, codepoint)) /\ IsFilled(PutPrintable(t, ReplacementCharacter))
  BY <1>1, PutPrintableFilled
<1>3. ~(t.cursor.row = 0 /\ t.cursor.column = 0) =>
        IsFilled(AttachTo(t, BaseRow(t), BaseColumn(t), codepoint))
  BY BaseHasText, AttachFilled
<1> QED BY <1>2, <1>3 DEF PrintCodepoint, AppendCombiningMark

LEMMA EraseFilled ==
  ASSUME NEW t, Sound(t), IsFilled(t), NEW cells
  PROVE  IsFilled(Erase(t, cells))
<1> DEFINE u == Erase(t, cells)
           screen == [r \in 0..t.rows - 1 |->
                        [c \in Columns(t.columns) |->
                           IF <<r, c>> \in cells THEN Blank ELSE t.screen[r][c]]]
<1>1. DOMAIN t = Members
  BY DEF Sound
<1>2. u.rows = t.rows /\ u.columns = t.columns /\ u.screen = screen
  BY <1>1 DEF Erase, Members
<1>3. ASSUME NEW r \in 0..t.rows - 1, NEW c \in 0..t.columns - 1
      PROVE  IsCell(screen[r][c], c)
  <2>1. IsCell(Blank, c) /\ IsCell(t.screen[r][c], c)
    BY BlankIsCell DEF IsFilled, HasCells
  <2>2. screen[r][c] = IF <<r, c>> \in cells THEN Blank ELSE t.screen[r][c]
    BY DEF Columns
  <2> HIDE DEF screen
  <2> QED BY <2>1, <2>2
<1> HIDE DEF u, screen
<1>4. IsFilled(u)
  BY <1>2, <1>3 DEF IsFilled, HasCells
<1> QED BY <1>4 DEF u

LEMMA ResizeFilled ==
  ASSUME NEW t, Sound(t), IsFilled(t), NEW rows \in Nat \ {0}, NEW columns \in Nat \ {0}
  PROVE  IsFilled(ResizeTo(t, rows, columns))
<1> DEFINE u == ResizeTo(t, rows, columns)
           screen == [r \in 0..rows - 1 |->
                        [c \in Columns(columns) |->
                           IF r < t.rows /\ c < t.columns THEN t.screen[r][c] ELSE Blank]]
<1>1. DOMAIN t = Members /\ t.rows \in Nat /\ t.columns \in Nat
  BY DEF Sound
<1>2. u.rows = rows /\ u.columns = columns /\ u.screen = screen
  BY <1>1 DEF ResizeTo, Members
<1>3. ASSUME NEW r \in 0..rows - 1, NEW c \in 0..columns - 1 PROVE IsCell(screen[r][c], c)
  <2>1. screen[r][c] = IF r < t.rows /\ c < t.columns THEN t.screen[r][c] ELSE Blank
    BY DEF Columns
  <2> HIDE DEF screen
  <2>2. CASE r < t.rows /\ c < t.columns
    <3>1. r \in 0..t.rows - 1 /\ c \in 0..t.columns - 1
      BY <1>1, <2>2
    <3> QED BY <2>1, <2>2, <3>1 DEF IsFilled, HasCells
  <2>3. CASE ~(r < t.rows /\ c < t.columns)
    BY <2>1, <2>3, BlankIsCell
  <2> QED BY <2>2, <2>3
<1> HIDE DEF u, screen
<1>4. IsFilled(u)
  BY <1>2, <1>3 DEF IsFilled, HasCells
<1> QED BY <1>4 DEF u

LEMMA NewFilled == \A rows, columns, limit : IsFilled(New(rows, columns, limit))
  BY BlankRowHasCells DEF New, IsFilled

LEMMA StepFilled ==
  ASSUME Good, IsFilled(terminal), [Next]_terminal
  PROVE  IsFilled(terminal')
<1> DEFINE t == terminal
<1>1. Sound(t) /\ DOMAIN t = Members /\ t.rows \in Nat \ {0} /\ t.columns \in Nat \ {0}
  BY SoundMarked DEF Good, Sound
<1>2. ASSUME NEW u, SameScreen(t, u) PROVE IsFilled(u)
  BY <1>2, SameFilled
<1>3. ASSUME NEW codepoint \in Codepoints, PrintStep(codepoint) PROVE IsFilled(terminal')
  BY <1>1, <1>3, PrintFilled, InputAssumption DEF PrintStep
<1>4. \A row, column : IsFilled(MoveTo(t, row, column))
  <2>1. \A row, column : SameScreen(t, MoveTo(t, row, column))
    BY <1>1 DEF MoveTo, SameScreen, Members
  <2> QED BY <1>2, <2>1
<1>5. CASE ControlStep
  BY <1>1, <1>4, <1>5, LineFeedFilled DEF ControlStep, ExecuteControl, Backspace, Tab, CarriageReturn
<1>6. CASE MoveStep
  BY <1>4, <1>6 DEF MoveStep, CursorUp, CursorDown, CursorForward, CursorBack, CursorPosition
<1>7. CASE EraseStep
  <2>1. \A cells : IsFilled(Erase(t, cells))
    BY <1>1, EraseFilled
  <2>2. \A mode : IsFilled(EraseInLine(t, mode))
    BY <2>1 DEF EraseInLine
  <2>3. \A mode : IsFilled(EraseInDisplay(t, mode))
    <3>1. \A mode : mode # 3 => IsFilled(EraseInDisplay(t, mode))
      BY <2>1 DEF EraseInDisplay
    <3>2. EraseInDisplay(t, 3) = [t EXCEPT !.scrollback = <<>>, !.damaged = TRUE]
      BY DEF EraseInDisplay
    <3>3. SameScreen(t, EraseInDisplay(t, 3))
      BY <1>1, <3>2 DEF SameScreen, Members
    <3> QED BY <1>2, <3>1, <3>3
  <2> QED BY <1>7, <2>2, <2>3 DEF EraseStep
<1>8. CASE StyleStep
  BY <1>1, <1>2, <1>8 DEF StyleStep, SetGraphicsRendition, SameScreen, Members
<1>9. CASE ModeStep
  <2>1. PICK p, enabled : terminal' = SetPrivateMode(t, p, enabled)
    BY <1>9 DEF ModeStep
  <2> DEFINE visible == IF Listed(p, 25) THEN enabled ELSE t.cursor.visible
             v == [t EXCEPT !.cursor.visible = visible]
             paste == IF Listed(p, 2004) THEN enabled ELSE v.bracketed_paste
             w == [v EXCEPT !.bracketed_paste = paste]
  <2>2. terminal' = [w EXCEPT !.damaged = TRUE]
    BY <2>1, SMT DEF SetPrivateMode
  <2> HIDE DEF visible, paste
  <2>3. SameScreen(t, terminal')
    BY <1>1, <2>2 DEF SameScreen, Members
  <2> QED BY <1>2, <2>3
<1>10. CASE TitleStep
  <2>1. PICK title : terminal' = [t EXCEPT !.title = SubSeq(title, 1, Lower(Len(title), MaximumTitleBytes))]
    BY <1>10 DEF TitleStep, SetTitle
  <2> QED BY <1>1, <1>2, <2>1 DEF SameScreen, Members
<1>11. CASE CursorStep
  <2>1. SameScreen(t, SaveCursor(t)) /\ SameScreen(t, RestoreCursor(t))
    BY <1>1 DEF SaveCursor, RestoreCursor, SameScreen, Members
  <2> QED BY <1>2, <1>11, <2>1 DEF CursorStep
<1>12. CASE ResetStep
  <2>1. /\ terminal'.rows = t.rows /\ terminal'.columns = t.columns
        /\ terminal'.screen = [r \in 0..t.rows - 1 |-> BlankRow(t.columns)]
    BY <1>1, <1>12 DEF ResetStep, ResetState, Members
  <2> QED BY <2>1, BlankRowHasCells DEF IsFilled
<1>13. CASE ResizeStep
  <2>1. PICK size \in Sizes : terminal' = Resize(t, size[1], size[2])
    BY <1>13 DEF ResizeStep
  <2>2. Sanitized(size[1]) \in Nat \ {0} /\ Sanitized(size[2]) \in Nat \ {0}
    BY InputAssumption DEF Sanitized
  <2> QED BY <1>1, <2>1, <2>2, ResizeFilled DEF Resize
<1>14. CASE LimitStep
  <2>1. PICK limit, kept : terminal' = [t EXCEPT !.limit = limit, !.scrollback = kept]
    BY <1>14 DEF LimitStep, SetScrollbackLimit
  <2> QED BY <1>1, <1>2, <2>1 DEF SameScreen, Members
<1>15. CASE DrawnStep
  BY <1>1, <1>2, <1>15 DEF DrawnStep, ClearDamage, SameScreen, Members
<1>16. CASE UNCHANGED terminal
  BY <1>16
<1> QED BY <1>3, <1>5, <1>6, <1>7, <1>8, <1>9, <1>10, <1>11, <1>12, <1>13, <1>14, <1>15, <1>16
      DEF Next

LEMMA FilledIsWhole == Good /\ IsFilled(terminal) => ContinuationsEmpty
<1> SUFFICES ASSUME Good, IsFilled(terminal), NEW r \in DOMAIN terminal.screen,
                    NEW c \in DOMAIN terminal.screen[r]
             PROVE  IsCell(terminal.screen[r][c], c)
  BY DEF ContinuationsEmpty, IsCell
<1>1. r \in 0..terminal.rows - 1 /\ c \in 0..terminal.columns - 1
  BY DEF Good, Sound, IsGrid, IsRow, Columns
<1> QED BY <1>1 DEF IsFilled, HasCells

(* A second half of a wide character has no text of its own, every other   *)
(* cell has some, and the search for a mark's cell ends in one of those    *)
(* (terminal_state.cpp:298-315,346-349).                                   *)
THEOREM SecondHalvesEmpty == Spec => []ContinuationsEmpty
<1>1. Init => Good /\ IsFilled(terminal)
  BY GoodInit, NewFilled DEF Init
<1>2. Good /\ IsFilled(terminal) /\ [Next]_terminal => Good' /\ IsFilled(terminal)'
  BY GoodStep, StepFilled
<1> QED BY <1>1, <1>2, FilledIsWhole, PTL DEF Spec
-----------------------------------------------------------------------------
\* The document: the scrollback, then the screen.
Height(t) == Len(t.scrollback) + t.rows
RowAt(t, i) ==
  IF i <= Len(t.scrollback) THEN t.scrollback[i] ELSE t.screen[i - Len(t.scrollback) - 1]
RowOrBlank(t, i) == IF i <= Height(t) THEN RowAt(t, i) ELSE BlankRow(t.columns)

LEMMA ScrollbackCounted ==
  ASSUME NEW t, Sound(t)
  PROVE  Len(t.scrollback) \in Nat
<1>1. PICK S : t.scrollback \in Seq(S)
  BY DEF Sound, IsSequence
<1> QED BY <1>1, LenProperties

\* The document with a number of blank rows below it.
LEMMA DocumentRows ==
  ASSUME NEW t, Sound(t), NEW scrolled \in 0..1
  PROVE  LET old == Document(t) \o [i \in 1..scrolled |-> BlankRow(t.columns)]
         IN /\ IsSequence(Document(t)) /\ Len(Document(t)) = Height(t)
            /\ \A i \in 1..Height(t) : Document(t)[i] = RowAt(t, i)
            /\ IsSequence(old) /\ Len(old) = Height(t) + scrolled
            /\ \A i \in 1..Height(t) + scrolled : old[i] = RowOrBlank(t, i)
<1> DEFINE history == t.scrollback
           page == [i \in 1..t.rows |-> t.screen[i - 1]]
           blanks == [i \in 1..scrolled |-> BlankRow(t.columns)]
           T == {t.screen[i - 1] : i \in 1..t.rows} \cup {BlankRow(t.columns)}
<1>1. PICK S : history \in Seq(S)
  BY DEF Sound, IsSequence
<1>2. t.rows \in Nat /\ Len(history) \in Nat
  BY ScrollbackCounted DEF Sound
<1>3. /\ page \in Seq(T) /\ Len(page) = t.rows
      /\ blanks \in Seq(T) /\ Len(blanks) = scrolled
  <2>1. page \in [1..t.rows -> T] /\ blanks \in [1..scrolled -> T]
    OBVIOUS
  <2>2. DOMAIN page = 1..t.rows /\ DOMAIN blanks = 1..scrolled
    OBVIOUS
  <2> HIDE DEF page, blanks, T
  <2>3. page \in Seq(T) /\ blanks \in Seq(T)
    BY <1>2, <2>1
  <2>4. Len(page) = t.rows
    BY <1>2, <2>2, <2>3, LenProperties
  <2>5. Len(blanks) = scrolled
    BY <2>2, <2>3, LenProperties
  <2> QED BY <2>3, <2>4, <2>5
<1>4. history \in Seq(S \cup T) /\ page \in Seq(S \cup T) /\ blanks \in Seq(S \cup T)
  BY <1>1, <1>3, SeqMonotonic
<1> DEFINE d == history \o page
<1>5. /\ d \in Seq(S \cup T) /\ Len(d) = Len(history) + Len(page)
      /\ \A i \in 1..Len(history) + Len(page) :
           d[i] = IF i <= Len(history) THEN history[i] ELSE page[i - Len(history)]
  <2> HIDE DEF page, history, T
  <2> QED BY <1>4, ConcatProperties
<1>6. /\ d \o blanks \in Seq(S \cup T) /\ Len(d \o blanks) = Len(d) + Len(blanks)
      /\ \A i \in 1..Len(d) + Len(blanks) :
           (d \o blanks)[i] = IF i <= Len(d) THEN d[i] ELSE blanks[i - Len(d)]
  <2>1. d \in Seq(S \cup T)
    BY <1>5
  <2> HIDE DEF d, blanks, T, page, history
  <2> QED BY <1>4, <2>1, ConcatProperties
<1>7. Len(d) = Height(t)
  BY <1>3, <1>5 DEF Height
<1>8. ASSUME NEW i \in 1..Height(t) PROVE d[i] = RowAt(t, i)
  <2>1. CASE i <= Len(history)
    <3>1. i \in 1..Len(history) + Len(page)
      BY <1>3, <1>5, <1>7, <1>8
    <3>2. d[i] = history[i]
      <4> HIDE DEF d, page, history
      <4> QED BY <1>5, <2>1, <3>1
    <3> QED BY <2>1, <3>2 DEF RowAt
  <2>2. CASE ~(i <= Len(history))
    <3>1. /\ i \in 1..Len(history) + Len(page) /\ i - Len(history) \in 1..t.rows
      BY <1>2, <1>3, <1>5, <1>7, <1>8, <2>2 DEF Height
    <3>2. d[i] = page[i - Len(history)]
      <4> HIDE DEF d, page, history
      <4> QED BY <1>5, <2>2, <3>1
    <3>3. d[i] = t.screen[(i - Len(history)) - 1]
      BY <3>1, <3>2
    <3> QED BY <2>2, <3>3 DEF RowAt
  <2> QED BY <2>1, <2>2
<1>9. Height(t) \in Nat
  BY <1>2 DEF Height
<1>10. ASSUME NEW i \in 1..Height(t) + scrolled PROVE (d \o blanks)[i] = RowOrBlank(t, i)
  <2>1. i \in 1..Len(d) + Len(blanks)
    BY <1>3, <1>7, <1>10
  <2>2. CASE i <= Height(t)
    <3>1. (d \o blanks)[i] = d[i]
      <4> HIDE DEF d, blanks
      <4> QED BY <1>6, <1>7, <2>1, <2>2
    <3>2. i \in 1..Height(t)
      BY <1>9, <1>10, <2>2
    <3> QED BY <1>8, <2>2, <3>1, <3>2 DEF RowOrBlank
  <2>3. CASE ~(i <= Height(t))
    <3>1. i - Height(t) \in 1..scrolled
      BY <1>9, <1>10, <2>3
    <3>2. (d \o blanks)[i] = blanks[i - Height(t)]
      <4> HIDE DEF d, blanks
      <4> QED BY <1>6, <1>7, <2>1, <2>3
    <3>3. (d \o blanks)[i] = BlankRow(t.columns)
      BY <3>1, <3>2
    <3> QED BY <2>3, <3>3 DEF RowOrBlank
  <2> QED BY <2>2, <2>3
<1>11. Document(t) = d
  BY DEF Document
<1>12. Len(d \o blanks) = Height(t) + scrolled
  BY <1>3, <1>6, <1>7
<1> HIDE DEF d, blanks
<1>13. IsSequence(d) /\ IsSequence(d \o blanks)
  BY <1>5, <1>6 DEF IsSequence
<1>14. /\ IsSequence(Document(t)) /\ Len(Document(t)) = Height(t)
       /\ \A i \in 1..Height(t) : Document(t)[i] = RowAt(t, i)
  BY <1>7, <1>8, <1>11, <1>13
<1>15. LET old == Document(t) \o blanks
       IN /\ IsSequence(old) /\ Len(old) = Height(t) + scrolled
          /\ \A i \in 1..Height(t) + scrolled : old[i] = RowOrBlank(t, i)
  BY <1>10, <1>11, <1>12, <1>13
<1> QED BY <1>14, <1>15 DEF blanks

\* What a new row does to a scrollback: at its limit the oldest one goes.
LEMMA RememberShifts ==
  ASSUME NEW rows, IsSequence(rows), NEW row, NEW limit \in Nat, Len(rows) <= limit
  PROVE  \E dropped \in 0..1 :
           /\ dropped = 1 => Len(rows) = limit
           /\ Len(Remember(rows, row, limit)) = Len(rows) + 1 - dropped
           /\ \A i \in 1..Len(rows) + 1 - dropped :
                Remember(rows, row, limit)[i]
                  = IF i + dropped <= Len(rows) THEN rows[i + dropped] ELSE row
<1>1. PICK S : rows \in Seq(S)
  BY DEF IsSequence
<1>2. Len(rows) \in Nat
  BY <1>1, LenProperties
<1> DEFINE longer == Append(rows, row)
           n == Len(rows)
<1>3. /\ longer \in Seq(S \cup {row}) /\ Len(longer) = n + 1
      /\ \A i \in 1..n : longer[i] = rows[i]
      /\ longer[n + 1] = row
  <2>1. rows \in Seq(S \cup {row}) /\ row \in S \cup {row}
    BY <1>1, SeqMonotonic
  <2> QED BY <2>1, AppendProperties
<1>4. Remember(rows, row, limit) = IF limit > 0 THEN Newest(longer, limit) ELSE rows
  BY DEF Remember
<1> HIDE DEF longer, n
<1>5. n \in Nat /\ n <= limit /\ n = Len(rows)
  BY <1>2 DEF n
<1>6. \A i \in 1..n + 1 : longer[i] = IF i <= n THEN rows[i] ELSE row
  BY <1>3, <1>5
<1>7. CASE limit = 0
  <2>1. n = 0 /\ Remember(rows, row, limit) = rows
    BY <1>4, <1>5, <1>7
  <2> WITNESS 1 \in 0..1
  <2>2. Len(rows) = 0 /\ Len(rows) = limit /\ Len(rows) + 1 - 1 = 0 /\ 1..0 = {}
    BY <1>5, <1>7, <2>1
  <2> QED BY <2>1, <2>2
<1>8. CASE limit > 0 /\ n < limit
  <2>1. Remember(rows, row, limit) = longer
    BY <1>3, <1>4, <1>5, <1>8 DEF Newest
  <2> WITNESS 0 \in 0..1
  <2> QED BY <1>3, <1>5, <1>6, <2>1
<1>9. CASE limit > 0 /\ n = limit
  <2>1. Remember(rows, row, limit) = SubSeq(longer, 2, n + 1)
    BY <1>3, <1>4, <1>5, <1>9 DEF Newest
  <2>2. \A i \in 2..n + 1 : longer[i] \in S \cup {row}
    <3>1. \A i \in 1..Len(longer) : longer[i] \in S \cup {row}
      BY <1>3, ElementOfSeq
    <3> QED BY <1>3, <1>5, <3>1
  <2>3. /\ Len(SubSeq(longer, 2, n + 1)) = n
        /\ \A i \in 1..(n + 1) - 2 + 1 : SubSeq(longer, 2, n + 1)[i] = longer[2 + i - 1]
    <3>1. n + 1 \in Int /\ 2 <= n + 1 /\ (n + 1) - 2 + 1 = n
      BY <1>5, <1>9
    <3>2. /\ Len(SubSeq(longer, 2, n + 1)) = IF 2 <= n + 1 THEN (n + 1) - 2 + 1 ELSE 0
          /\ \A i \in 1..(n + 1) - 2 + 1 : SubSeq(longer, 2, n + 1)[i] = longer[2 + i - 1]
      BY <2>2, <3>1, SubSeqProperties
    <3> QED BY <3>1, <3>2
  <2>4. \A i \in 1..n : SubSeq(longer, 2, n + 1)[i] = IF i + 1 <= n THEN rows[i + 1] ELSE row
    <3>1. \A i \in 1..n : 2 + i - 1 = i + 1 /\ i + 1 \in 1..n + 1 /\ i \in 1..(n + 1) - 2 + 1
      BY <1>5
    <3> QED BY <1>6, <2>3, <3>1
  <2> WITNESS 1 \in 0..1
  <2>5. /\ 1 = 1 => Len(rows) = limit
        /\ Len(Remember(rows, row, limit)) = Len(rows) + 1 - 1
    BY <1>5, <1>9, <2>1, <2>3
  <2>6. \A i \in 1..Len(rows) + 1 - 1 :
          Remember(rows, row, limit)[i] = IF i + 1 <= Len(rows) THEN rows[i + 1] ELSE row
    <3>1. Len(rows) + 1 - 1 = n
      BY <1>5
    <3> QED BY <1>5, <2>1, <2>4, <3>1
  <2> QED BY <2>5, <2>6
<1> QED BY <1>5, <1>7, <1>8, <1>9

-----------------------------------------------------------------------------
\* s is t with a number of rows added below and dropped above.
Shifted(t, s, scrolled, dropped) ==
  /\ s.rows = t.rows /\ s.columns = t.columns
  /\ dropped = 1 => scrolled = 1 /\ Len(t.scrollback) = t.limit
  /\ Len(s.scrollback) = Len(t.scrollback) + scrolled - dropped
  /\ \A i \in 1..Height(s) : RowAt(s, i) = RowOrBlank(t, i + dropped)

\* Which it is also after a movement.
LEMMA MovedShifted ==
  ASSUME NEW t, NEW s, NEW u, NEW scrolled, NEW dropped,
         Shifted(t, s, scrolled, dropped), Moved(s, u)
  PROVE  Shifted(t, u, scrolled, dropped)
  BY MovedKeeps DEF Shifted, Height, RowAt

LEMMA NotShifted ==
  ASSUME NEW t, Sound(t)
  PROVE  Shifted(t, t, 0, 0)
<1>1. Len(t.scrollback) \in Nat /\ t.rows \in Nat
  BY ScrollbackCounted DEF Sound
<1> QED BY <1>1 DEF Shifted, Height, RowOrBlank

LEMMA ScrollShifts ==
  ASSUME NEW t, Sound(t)
  PROVE  \E dropped \in 0..1 : Shifted(t, Scroll(t), 1, dropped)
<1> DEFINE s == Scroll(t)
           h == Len(t.scrollback)
           n == t.rows
<1>1. h \in Nat /\ n \in Nat \ {0} /\ t.limit \in Nat /\ h <= t.limit /\ DOMAIN t = Members
      /\ IsSequence(t.scrollback)
  BY ScrollbackCounted DEF Sound
<1>2. /\ s.rows = n /\ s.columns = t.columns
      /\ s.scrollback = Remember(t.scrollback, t.screen[0], t.limit)
      /\ s.screen = [r \in 0..n - 1 |->
                       IF r = n - 1 THEN BlankRow(t.columns) ELSE t.screen[r + 1]]
  BY <1>1 DEF Scroll, Members
<1>3. PICK dropped \in 0..1 :
        /\ dropped = 1 => h = t.limit
        /\ Len(s.scrollback) = h + 1 - dropped
        /\ \A i \in 1..h + 1 - dropped :
             s.scrollback[i] = IF i + dropped <= h THEN t.scrollback[i + dropped] ELSE t.screen[0]
  BY <1>1, <1>2, RememberShifts
<1> HIDE DEF s, h, n
<1>4. ASSUME NEW i \in 1..Height(s) PROVE RowAt(s, i) = RowOrBlank(t, i + dropped)
  <2>1. Height(s) = h + 1 - dropped + n /\ i \in Nat /\ i >= 1 /\ i <= h + 1 - dropped + n
    BY <1>1, <1>2, <1>3, <1>4 DEF Height, n
  <2>2. CASE i <= h + 1 - dropped
    <3>1. RowAt(s, i) = IF i + dropped <= h THEN t.scrollback[i + dropped] ELSE t.screen[0]
      BY <1>1, <1>3, <2>1, <2>2 DEF RowAt
    <3>2. i + dropped <= h \/ (i + dropped = h + 1 /\ i + dropped - h - 1 = 0)
      BY <1>1, <2>1, <2>2
    <3>3. i + dropped <= h + n
      BY <1>1, <2>1, <2>2
    <3>4. RowOrBlank(t, i + dropped) = IF i + dropped <= h THEN t.scrollback[i + dropped]
                                       ELSE t.screen[i + dropped - h - 1]
      BY <3>3 DEF RowOrBlank, RowAt, Height, h, n
    <3>5. CASE i + dropped <= h
      BY <3>1, <3>4, <3>5
    <3>6. CASE ~(i + dropped <= h)
      BY <3>1, <3>2, <3>4, <3>6
    <3> QED BY <3>5, <3>6
  <2>3. CASE ~(i <= h + 1 - dropped)
    <3> DEFINE r == i - (h + 1 - dropped) - 1
    <3>1. r \in 0..n - 1 /\ i + dropped = h + 2 + r
      BY <1>1, <2>1, <2>3
    <3>2. RowAt(s, i) = s.screen[r]
      BY <1>3, <2>1, <2>3 DEF RowAt
    <3> HIDE DEF r
    <3>3. RowAt(s, i) = IF r = n - 1 THEN BlankRow(t.columns) ELSE t.screen[r + 1]
      BY <1>2, <3>1, <3>2
    <3>4. CASE r = n - 1
      <4>1. ~(i + dropped <= h + n)
        BY <1>1, <3>1, <3>4
      <4> QED BY <3>3, <3>4, <4>1 DEF RowOrBlank, Height, h, n
    <3>5. CASE r # n - 1
      <4>1. /\ i + dropped <= h + n /\ ~(i + dropped <= h)
            /\ i + dropped - h - 1 = r + 1
        BY <1>1, <3>1, <3>5
      <4>2. RowOrBlank(t, i + dropped) = t.screen[i + dropped - h - 1]
        BY <4>1 DEF RowOrBlank, RowAt, Height, h, n
      <4> QED BY <3>3, <3>5, <4>1, <4>2
    <3> QED BY <3>4, <3>5
  <2> QED BY <2>2, <2>3
<1> WITNESS dropped \in 0..1
<1> QED BY <1>2, <1>3, <1>4 DEF s, h, n, Shifted

\* LineFeed(t) is a movement of t or of Scroll(t), and so is NextLine(t).
LEMMA NextLineShifts ==
  ASSUME NEW t, Sound(t)
  PROVE  \E scrolled, dropped \in 0..1 : Shifted(t, NextLine(t), scrolled, dropped)
<1> DEFINE u == LineFeed(t)
<1>1. \E scrolled, dropped \in 0..1 : Shifted(t, u, scrolled, dropped)
  <2>1. CASE t.cursor.row + 1 < t.rows
    <3>1. u = MoveTo(t, t.cursor.row + 1, t.cursor.column)
      BY <2>1 DEF LineFeed
    <3>2. Moved(t, u)
      BY <3>1 DEF Sound, MoveTo, Moved, Members
    <3> HIDE DEF u
    <3> QED BY <3>2, NotShifted, MovedShifted
  <2>2. CASE ~(t.cursor.row + 1 < t.rows)
    <3>1. u = MoveTo(Scroll(t), t.cursor.row, t.cursor.column)
      BY <2>2 DEF LineFeed
    <3>2. PICK dropped \in 0..1 : Shifted(t, Scroll(t), 1, dropped)
      BY ScrollShifts
    <3>3. DOMAIN Scroll(t) = Members
      BY ScrollSound, SoundMarked
    <3>4. ASSUME NEW s, DOMAIN s = Members, NEW row, NEW column
          PROVE  Moved(s, MoveTo(s, row, column))
      BY <3>4 DEF MoveTo, Moved, Members
    <3>5. Moved(Scroll(t), u)
      BY <3>1, <3>3, <3>4
    <3> HIDE DEF u
    <3> QED BY <3>2, <3>5, MovedShifted
  <2> QED BY <2>1, <2>2
<1>2. DOMAIN u = Members
  BY LineFeedSound, SoundMarked
<1>3. NextLine(t) = MoveTo(u, u.cursor.row, 0)
  BY DEF NextLine, CarriageReturn
<1> HIDE DEF u
<1>4. Moved(u, NextLine(t))
  BY <1>2, <1>3 DEF MoveTo, Moved, Members
<1> QED BY <1>1, <1>4, MovedShifted

\* The pending wrap and the one of a wide character never come together.
LEMMA PlacedShifts ==
  ASSUME NEW t, Sound(t), NEW codepoint
  PROVE  \E scrolled, dropped \in 0..1 :
           Shifted(t, Placed(Wrapped(t), WidthIn(codepoint, t.columns)), scrolled, dropped)
<1> DEFINE width == WidthIn(codepoint, t.columns)
<1>1. Placed(Wrapped(t), width) \in {t, NextLine(t)}
  <2>1. CASE t.wrap_pending
    <3>1. NextLine(t).cursor.column = 0 /\ NextLine(t).columns = t.columns
      BY NextLineSound
    <3>2. width = "wide" => ~(NextLine(t).cursor.column + 1 >= NextLine(t).columns)
      BY <3>1 DEF WidthIn, Sound
    <3> QED BY <2>1, <3>2 DEF Wrapped, Placed
  <2>2. CASE ~t.wrap_pending
    BY <2>2 DEF Wrapped, Placed
  <2> QED BY <2>1, <2>2
<1>2. Shifted(t, t, 0, 0) /\ 0 \in 0..1
  BY NotShifted
<1> HIDE DEF width
<1>3. CASE Placed(Wrapped(t), width) = t
  BY <1>2, <1>3 DEF width
<1>4. CASE Placed(Wrapped(t), width) = NextLine(t)
  BY <1>4, NextLineShifts DEF width
<1> QED BY <1>1, <1>3, <1>4

-----------------------------------------------------------------------------
\* u is s with other cells in two places of one row.
EditedAt(s, u, row, a, b) ==
  /\ u.rows = s.rows /\ u.columns = s.columns /\ u.scrollback = s.scrollback
  /\ \A r \in 0..s.rows - 1 :
       /\ DOMAIN u.screen[r] = DOMAIN s.screen[r]
       /\ \A c \in DOMAIN s.screen[r] :
            u.screen[r][c] # s.screen[r][c] => r = row /\ c \in {a, b}
Edited(s, u) == \E row \in 0..s.rows - 1 : \E a, b : EditedAt(s, u, row, a, b)

LEMMA WriteEdits ==
  ASSUME NEW s, Sound(s), NEW codepoint, NEW width
  PROVE  Edited(s, Write(s, codepoint, width))
<1> DEFINE row == s.cursor.row
           column == s.cursor.column
           line == [c \in Columns(s.columns) |->
                      CASE c = column -> NewCell(<<codepoint>>, s.style, width)
                        [] c = column + 1 /\ width = "wide" ->
                             NewCell(<<>>, s.style, "continuation")
                        [] OTHER -> s.screen[row][c]]
           u == Write(s, codepoint, width)
<1>1. /\ DOMAIN s = Members /\ DOMAIN s.screen = 0..s.rows - 1 /\ row \in 0..s.rows - 1
      /\ \A r \in 0..s.rows - 1 : DOMAIN s.screen[r] = Columns(s.columns)
  BY DEF Sound, IsCursor, InGrid, IsGrid, IsRow
<1>2. /\ u.rows = s.rows /\ u.columns = s.columns /\ u.scrollback = s.scrollback
      /\ u.screen = [s.screen EXCEPT ![row] = line]
  BY <1>1 DEF Write, Members
<1>3. /\ DOMAIN line = Columns(s.columns)
      /\ \A c \in Columns(s.columns) : line[c] # s.screen[row][c] => c \in {column, column + 1}
  <2>1. ASSUME NEW c \in Columns(s.columns), c \notin {column, column + 1}
        PROVE  line[c] = s.screen[row][c]
    BY <2>1
  <2> QED BY <2>1
<1> HIDE DEF u, line, row, column
<1>4. ASSUME NEW r \in 0..s.rows - 1
      PROVE  /\ DOMAIN u.screen[r] = DOMAIN s.screen[r]
             /\ \A c \in DOMAIN s.screen[r] :
                  u.screen[r][c] # s.screen[r][c] => r = row /\ c \in {column, column + 1}
  BY <1>1, <1>2, <1>3
<1>5. EditedAt(s, u, row, column, column + 1)
  BY <1>2, <1>4 DEF EditedAt
<1> QED BY <1>1, <1>5 DEF Edited, u

LEMMA AttachEdits ==
  ASSUME NEW s, Sound(s), NEW row \in 0..s.rows - 1, NEW column, NEW mark
  PROVE  Edited(s, AttachTo(s, row, column, mark))
<1> DEFINE line == [c \in Columns(s.columns) |->
                      IF c = column THEN [s.screen[row][c] EXCEPT !.text = Append(@, mark)]
                      ELSE s.screen[row][c]]
           u == AttachTo(s, row, column, mark)
<1>1. /\ DOMAIN s = Members /\ DOMAIN s.screen = 0..s.rows - 1
      /\ \A r \in 0..s.rows - 1 : DOMAIN s.screen[r] = Columns(s.columns)
  BY DEF Sound, IsGrid, IsRow
<1>2. /\ u.rows = s.rows /\ u.columns = s.columns /\ u.scrollback = s.scrollback
      /\ u.screen = [s.screen EXCEPT ![row] = line]
  BY <1>1 DEF AttachTo, Members
<1>3. /\ DOMAIN line = Columns(s.columns)
      /\ \A c \in Columns(s.columns) : line[c] # s.screen[row][c] => c \in {column, column}
  BY DEF Columns
<1> HIDE DEF u, line
<1>4. EditedAt(s, u, row, column, column)
  BY <1>1, <1>2, <1>3 DEF EditedAt
<1> QED BY <1>4 DEF Edited, u

\* The same of a document: it is the shifted one but for two places.
EqualBut(t, u, dropped, x, y) ==
  \A i \in 1..Height(u) :
    /\ DOMAIN RowAt(u, i) = DOMAIN RowOrBlank(t, i + dropped)
    /\ \A c \in DOMAIN RowAt(u, i) :
         RowAt(u, i)[c] # RowOrBlank(t, i + dropped)[c] => <<i, c>> \in {x, y}

LEMMA EditedRows ==
  ASSUME NEW t, Sound(t), NEW s, NEW u, NEW scrolled \in 0..1, NEW dropped \in 0..1,
         Shifted(t, s, scrolled, dropped), Edited(s, u)
  PROVE  /\ Height(u) = Height(t) + scrolled - dropped
         /\ \E x, y : EqualBut(t, u, dropped, x, y)
<1>1. /\ Len(t.scrollback) \in Nat /\ t.rows \in Nat
      /\ s.rows = t.rows /\ Len(s.scrollback) = Len(t.scrollback) + scrolled - dropped
      /\ \A i \in 1..Height(s) : RowAt(s, i) = RowOrBlank(t, i + dropped)
  BY ScrollbackCounted DEF Sound, Shifted
<1>2. PICK row \in 0..s.rows - 1 : \E a, b : EditedAt(s, u, row, a, b)
  BY DEF Edited
<1>3. PICK a, b : EditedAt(s, u, row, a, b)
  BY <1>2
<1> DEFINE h == Len(s.scrollback)
           x == <<h + row + 1, a>>
           y == <<h + row + 1, b>>
<1>4. u.rows = s.rows /\ u.scrollback = s.scrollback /\ Height(u) = Height(s)
  BY <1>3 DEF EditedAt, Height
<1>5. Height(u) = Height(t) + scrolled - dropped
  BY <1>1, <1>4 DEF Height
<1>6. ASSUME NEW i \in 1..Height(u)
      PROVE  /\ DOMAIN RowAt(u, i) = DOMAIN RowAt(s, i)
             /\ \A c \in DOMAIN RowAt(u, i) :
                  RowAt(u, i)[c] # RowAt(s, i)[c] => <<i, c>> \in {x, y}
  <2>1. CASE i <= h
    BY <1>4, <2>1 DEF RowAt
  <2>2. CASE ~(i <= h)
    <3> DEFINE r == i - h - 1
    <3>1. r \in 0..s.rows - 1 /\ i = h + r + 1
      <4>1. h \in Nat /\ s.rows \in Nat /\ i \in 1..h + s.rows
        BY <1>1, <1>4, <1>6 DEF Height
      <4> HIDE DEF h
      <4> QED BY <2>2, <4>1
    <3>2. RowAt(u, i) = u.screen[r] /\ RowAt(s, i) = s.screen[r]
      BY <1>4, <2>2 DEF RowAt
    <3> HIDE DEF r
    <3>3. /\ DOMAIN u.screen[r] = DOMAIN s.screen[r]
          /\ \A c \in DOMAIN s.screen[r] :
               u.screen[r][c] # s.screen[r][c] => r = row /\ c \in {a, b}
      BY <1>3, <3>1 DEF EditedAt
    <3>4. r = row => i = h + row + 1
      BY <3>1
    <3> QED BY <3>2, <3>3, <3>4
  <2> QED BY <2>1, <2>2
<1> HIDE DEF x, y
<1>7. EqualBut(t, u, dropped, x, y)
  BY <1>1, <1>4, <1>6 DEF EqualBut
<1> QED BY <1>5, <1>7

LEMMA TwoAtMost ==
  ASSUME NEW x, NEW y, NEW S \in SUBSET {x, y}
  PROVE  Cardinality(S) <= 2
<1>1. IsFiniteSet({x}) /\ Cardinality({x}) = 1
  BY FS_Singleton
<1>2. {x} \cup {y} = {x, y}
  OBVIOUS
<1>3. /\ IsFiniteSet({x, y})
      /\ Cardinality({x, y}) = IF y \in {x} THEN Cardinality({x}) ELSE Cardinality({x}) + 1
  BY <1>1, <1>2, FS_AddElement
<1>4. Cardinality({x, y}) <= 2
  BY <1>1, <1>3
<1>5. IsFiniteSet(S) /\ Cardinality(S) <= Cardinality({x, y})
  BY <1>3, FS_Subset
<1>6. Cardinality(S) \in Nat /\ Cardinality({x, y}) \in Nat
  BY <1>3, <1>5, FS_CardinalityType
<1> QED BY <1>4, <1>5, <1>6

IsLocal(t, u) ==
  LET before == Document(t)
      new == Document(u)
  IN \E scrolled \in 0..1, dropped \in 0..1 :
       /\ dropped = 1 => scrolled = 1 /\ Len(t.scrollback) = t.limit
       /\ Len(new) = Len(before) + scrolled - dropped
       /\ LET old == before \o [i \in 1..scrolled |-> BlankRow(t.columns)]
          IN /\ \A i \in DOMAIN new : DOMAIN new[i] = DOMAIN old[i + dropped]
             /\ Cardinality(Changed(SubSeq(old, 1 + dropped, Len(old)), new)) <= 2

LEMMA EditedIsLocal ==
  ASSUME NEW t, Sound(t), NEW s, NEW u, Sound(u), NEW scrolled \in 0..1, NEW dropped \in 0..1,
         Shifted(t, s, scrolled, dropped), Edited(s, u)
  PROVE  IsLocal(t, u)
<1> DEFINE new == Document(u)
           old == Document(t) \o [i \in 1..scrolled |-> BlankRow(t.columns)]
           cut == SubSeq(old, 1 + dropped, Len(old))
           n == Height(u)
<1>1. /\ n = Height(t) + scrolled - dropped /\ n \in Nat /\ Height(t) \in Nat
      /\ dropped = 1 => scrolled = 1 /\ Len(t.scrollback) = t.limit
  <2>1. n = Height(t) + scrolled - dropped
    BY EditedRows
  <2>2. ASSUME NEW v, Sound(v) PROVE Height(v) \in Nat
    <3>1. v.rows \in Nat
      BY <2>2 DEF Sound
    <3>2. Len(v.scrollback) \in Nat
      BY <2>2, ScrollbackCounted
    <3> QED BY <3>1, <3>2 DEF Height
  <2> QED BY <2>1, <2>2 DEF Shifted
<1>2. PICK x, y : EqualBut(t, u, dropped, x, y)
  BY EditedRows
<1>3. IsSequence(new) /\ Len(new) = n /\ \A i \in 1..n : new[i] = RowAt(u, i)
  <2>1. 0 \in 0..1
    OBVIOUS
  <2> QED BY <2>1, DocumentRows
<1>4. /\ IsSequence(old) /\ Len(old) = Height(t) + scrolled
      /\ \A i \in 1..Height(t) + scrolled : old[i] = RowOrBlank(t, i)
  BY DocumentRows
<1>5. Len(Document(t)) = Height(t)
  BY DocumentRows
<1> HIDE DEF new, old, n
<1>6. DOMAIN new = 1..n
  <2>1. PICK S : new \in Seq(S)
    BY <1>3 DEF IsSequence
  <2> QED BY <1>3, <2>1, LenProperties
<1>7. \A i \in 1..n : i + dropped \in 1..Height(t) + scrolled
  BY <1>1
<1>8. \A i \in 1..n : new[i] = RowAt(u, i) /\ old[i + dropped] = RowOrBlank(t, i + dropped)
  BY <1>3, <1>4, <1>7
<1>9. DOMAIN cut = 1..n /\ \A i \in 1..n : cut[i] = old[i + dropped]
  <2>1. PICK S : old \in Seq(S)
    BY <1>4 DEF IsSequence
  <2>2. \A i \in 1..Len(old) : old[i] \in S
    BY <2>1, ElementOfSeq
  <2>3. Len(old) \in Int /\ 1 + dropped \in Int /\ Len(old) = n + dropped
    BY <1>1, <1>4
  <2>4. \A i \in 1 + dropped..Len(old) : i \in 1..Len(old)
    BY <2>3
  <2>5. \A i \in 1 + dropped..Len(old) : old[i] \in S
    BY <2>2, <2>4, Zenon
  <2>6. /\ cut \in Seq(S)
        /\ Len(cut) = IF 1 + dropped <= Len(old) THEN Len(old) - (1 + dropped) + 1 ELSE 0
        /\ \A i \in 1..Len(old) - (1 + dropped) + 1 : cut[i] = old[(1 + dropped) + i - 1]
    BY <2>3, <2>5, SubSeqProperties
  <2>7. Len(cut) = n /\ Len(old) - (1 + dropped) + 1 = n
    BY <1>1, <2>3, <2>6
  <2>8. \A i \in 1..n : (1 + dropped) + i - 1 = i + dropped
    BY <1>1
  <2> HIDE DEF cut
  <2> QED BY <2>6, <2>7, <2>8, LenProperties
<1> HIDE DEF cut
<1>10. Changed(cut, new) \subseteq {x, y}
  <2> SUFFICES ASSUME NEW place \in Changed(cut, new) PROVE place \in {x, y}
    OBVIOUS
  <2>1. PICK i \in DOMAIN cut : place \in {<<i, c>> : c \in {d \in DOMAIN cut[i] : cut[i][d] # new[i][d]}}
    BY DEF Changed
  <2>2. PICK c \in DOMAIN cut[i] : cut[i][c] # new[i][c] /\ place = <<i, c>>
    BY <2>1
  <2>3. i \in 1..n /\ cut[i] = RowOrBlank(t, i + dropped) /\ new[i] = RowAt(u, i)
    BY <1>8, <1>9
  <2> QED BY <1>2, <2>2, <2>3 DEF EqualBut, n
<1>11. Cardinality(Changed(cut, new)) <= 2
  BY <1>10, TwoAtMost
<1>12. \A i \in DOMAIN new : DOMAIN new[i] = DOMAIN old[i + dropped]
  BY <1>2, <1>6, <1>8 DEF EqualBut, n
<1>13. Len(new) = Len(Document(t)) + scrolled - dropped
  BY <1>1, <1>3, <1>5
<1> QED BY <1>1, <1>11, <1>12, <1>13 DEF IsLocal, new, old, cut

LEMMA PrintLocal ==
  ASSUME NEW t, Sound(t), NEW codepoint
  PROVE  IsLocal(t, PrintCodepoint(t, codepoint))
<1> DEFINE u == PrintCodepoint(t, codepoint)
<1>1. Sound(u)
  BY PrintSound
<1>2. \E s : \E scrolled, dropped \in 0..1 : Shifted(t, s, scrolled, dropped) /\ Edited(s, u)
  <2>1. ASSUME NEW c, u = PutPrintable(t, c)
        PROVE  \E s : \E scrolled, dropped \in 0..1 :
                 Shifted(t, s, scrolled, dropped) /\ Edited(s, u)
    <3> DEFINE s == Placed(Wrapped(t), WidthIn(c, t.columns))
    <3>1. Sound(s) /\ u = Write(s, c, WidthIn(c, t.columns))
      BY <2>1, WrappedSound DEF PutPrintable
    <3>2. PICK scrolled, dropped \in 0..1 : Shifted(t, s, scrolled, dropped)
      BY PlacedShifts
    <3> HIDE DEF s, u
    <3>3. Edited(s, u)
      BY <3>1, WriteEdits
    <3> QED BY <3>2, <3>3
  <2>2. CASE /\ ~(t.cursor.row = 0 /\ t.cursor.column = 0)
             /\ u = AttachTo(t, BaseRow(t), BaseColumn(t), codepoint)
    <3>1. BaseRow(t) \in 0..t.rows - 1
      BY <2>2, BaseRowInGrid
    <3> HIDE DEF u
    <3>2. Edited(t, u)
      BY <2>2, <3>1, AttachEdits
    <3>3. Shifted(t, t, 0, 0) /\ 0 \in 0..1
      BY NotShifted
    <3> QED BY <3>2, <3>3
  <2> QED BY <2>1, <2>2 DEF PrintCodepoint, AppendCombiningMark
<1> HIDE DEF u
<1>3. IsLocal(t, u)
  BY <1>1, <1>2, EditedIsLocal
<1> QED BY <1>3 DEF u

(* A character changes at most two cells of the whole text, scrolls it by  *)
(* at most one row, and lets go of the oldest row only when the scrollback *)
(* is full (terminal_state.cpp:245-260,319-360).                           *)
THEOREM PrintsLocally == Spec => PrintIsLocal
<1>1. ASSUME Good, [Next]_terminal
      PROVE  [Text(terminal)' # Text(terminal) /\ Printed => IsLocal(terminal, terminal')]_terminal
  BY <1>1, PrintLocal DEF Good, PrintStep, Printed
<1>2. Init => Good
  BY GoodInit
<1>3. Good /\ [Next]_terminal => Good'
  BY GoodStep
<1> QED BY <1>1, <1>2, <1>3, PTL DEF Spec, PrintIsLocal, IsLocal
=============================================================================

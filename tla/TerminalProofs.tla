---------------------------- MODULE TerminalProofs ---------------------------
(***************************************************************************)
(* Proofs about the window and about the whole way of the output to it.    *)
(* First the viewport over any screen: for every size of the window, every *)
(* limit of the scrollback and every step of the wheel and the page keys.  *)
(* Then the screen behind the parser: for every stream of bytes, whatever  *)
(* numbers its sequences ask for.                                          *)
(***************************************************************************)
EXTENDS Terminal, ParserProofs, ScreenProofs

ViewInv == Good /\ viewport_offset_ \in Nat

\* What is known of every sound object, of the terminal.
LEMMA ScrollbackLength ==
  ASSUME Good
  PROVE  Len(terminal.scrollback) \in Nat
  BY ScrollbackCounted DEF Good

LEMMA ViewInit == WindowInit => ViewInv
  BY GoodInit DEF WindowInit, ViewInv

LEMMA ViewStep ==
  ASSUME ViewInv, [WindowNext]_wvars
  PROVE  ViewInv'
<1>1. Len(terminal.scrollback) \in Nat
  BY ScrollbackLength DEF ViewInv
<1>2. CASE Adjust
  <2>1. PICK rows \in {Wheel, Page} :
          \/ viewport_offset_' = Raised(terminal, viewport_offset_, rows)
          \/ viewport_offset_' = Lowered(viewport_offset_, rows)
    BY <1>2 DEF Adjust
  <2>2. rows \in Nat /\ viewport_offset_ \in Nat
    BY WindowAssumption DEF ViewInv
  <2>3. viewport_offset_' \in Nat
    BY <1>1, <2>1, <2>2 DEF Raised, Lowered, Lower, Minus
  <2> QED BY <1>2, <2>3 DEF Adjust, ViewInv, Good
<1>3. CASE KeyWritten
  BY <1>3 DEF KeyWritten, ViewInv, Good
<1>4. CASE Next /\ UNCHANGED viewport_offset_
  BY <1>4, GoodStep DEF ViewInv
<1>5. CASE UNCHANGED wvars
  BY <1>5 DEF wvars, ViewInv, Good
<1> QED BY <1>2, <1>3, <1>4, <1>5 DEF WindowNext

(* Only erasing the scrollback or lowering its limit leaves the offset     *)
(* beyond it (main.cpp:475,489-499).                                       *)
THEOREM ViewStrandedByErasing == WindowSpec => OnlyErasingStrandsView
<1> DEFINE Kept1 == OffsetInScrollback =>
             OffsetInScrollback' \/ Len(terminal'.scrollback) < Len(terminal.scrollback)
<1>1. ASSUME ViewInv, [WindowNext]_wvars PROVE ViewInv' /\ [Kept1]_wvars
  <2>1. ViewInv'
    BY <1>1, ViewStep
  <2>2. /\ viewport_offset_ \in Nat /\ viewport_offset_' \in Nat
        /\ Len(terminal.scrollback) \in Nat
    BY <1>1, <2>1, ScrollbackLength DEF ViewInv
  <2>3. Len(terminal'.scrollback) \in Nat
    <3>1. PICK S : terminal'.scrollback \in Seq(S)
      BY <2>1 DEF ViewInv, Good, Sound, IsSequence
    <3> QED BY <3>1, LenProperties
  <2>4. CASE Adjust
    <3>1. PICK rows \in {Wheel, Page} :
            \/ viewport_offset_' = Raised(terminal, viewport_offset_, rows)
            \/ viewport_offset_' = Lowered(viewport_offset_, rows)
      BY <2>4 DEF Adjust
    <3>2. rows \in Nat /\ terminal' = terminal
      BY <2>4, WindowAssumption DEF Adjust
    <3> QED BY <2>1, <2>2, <3>1, <3>2 DEF OffsetInScrollback, Raised, Lowered, Lower, Minus
  <2>5. CASE KeyWritten
    BY <2>1, <2>2, <2>3, <2>5 DEF KeyWritten, OffsetInScrollback
  <2>6. CASE UNCHANGED viewport_offset_
    BY <2>1, <2>2, <2>3, <2>6 DEF OffsetInScrollback
  <2>7. CASE UNCHANGED wvars
    BY <2>7, <2>1
  <2> QED BY <1>1, <2>1, <2>4, <2>5, <2>6, <2>7 DEF WindowNext
<1> QED BY <1>1, ViewInit, PTL DEF WindowSpec, OnlyErasingStrandsView

-----------------------------------------------------------------------------
\* The document: the scrollback, then the screen.
LEMMA DocumentParts ==
  ASSUME Good
  PROVE  LET d == Document(terminal)
             h == Len(terminal.scrollback)
         IN /\ \E S : d \in Seq(S)
            /\ Len(d) = h + terminal.rows
            /\ \A i \in 1..h : d[i] = terminal.scrollback[i]
            /\ \A i \in 1..terminal.rows : d[h + i] = terminal.screen[i - 1]
<1> DEFINE d == Document(terminal)
           h == Len(terminal.scrollback)
           n == terminal.rows
<1>1. h \in Nat /\ n \in Nat
  BY ScrollbackLength DEF Good, Sound
<1>2. /\ IsSequence(d) /\ Len(d) = h + n
      /\ \A i \in 1..h + n : d[i] = RowAt(terminal, i)
  <2>1. 0 \in 0..1 /\ Sound(terminal)
    BY DEF Good
  <2> QED BY <2>1, DocumentRows DEF Height
<1> HIDE DEF d
<1>3. ASSUME NEW i \in 1..h PROVE d[i] = terminal.scrollback[i]
  BY <1>1, <1>2, <1>3 DEF RowAt
<1>4. ASSUME NEW i \in 1..n PROVE d[h + i] = terminal.screen[i - 1]
  <2>1. h + i \in 1..h + n /\ ~(h + i <= h) /\ h + i - h - 1 = i - 1
    BY <1>1
  <2> QED BY <1>2, <2>1 DEF RowAt
<1> QED BY <1>2, <1>3, <1>4 DEF d, IsSequence

(* What is shown is one page of the document (main.cpp:379-396,474-501).   *)
LEMMA ShownPage ==
  ASSUME Good, NEW offset \in Nat
  PROVE  LET h == Len(terminal.scrollback)
             hidden == Lower(offset, h)
         IN VisibleRows(terminal, offset)
              = SubSeq(Document(terminal), h - hidden + 1, h + terminal.rows - hidden)
<1> DEFINE d == Document(terminal)
           h == Len(terminal.scrollback)
           n == terminal.rows
           hidden == Lower(offset, h)
           start == Start(d, n, Lower(offset, Minus(Len(d), n)))
<1>1. h \in Nat /\ n \in Nat \ {0} /\ Len(d) = h + n
  BY ScrollbackLength, DocumentParts DEF Good, Sound
<1>2. VisibleRows(terminal, offset) = SubSeq(d, start + 1, Lower(Len(d), start + n))
  BY DEF VisibleRows
<1> HIDE DEF d, h, n
<1>3. Minus(Len(d), n) = h
  BY <1>1 DEF Minus
<1>4. hidden \in Nat /\ hidden <= h /\ start = h - hidden
  BY <1>1, <1>3 DEF Start, Lower
<1>5. Lower(Len(d), start + n) = h + n - hidden /\ start + 1 = h - hidden + 1
  BY <1>1, <1>4 DEF Lower
<1> HIDE DEF start, hidden
<1>6. VisibleRows(terminal, offset) = SubSeq(d, h - hidden + 1, h + n - hidden)
  BY <1>2, <1>5
<1> QED BY <1>6 DEF d, h, n, hidden

LEMMA PageOfDocument ==
  ASSUME Good, NEW low \in Nat, low <= Len(terminal.scrollback)
  PROVE  LET page == SubSeq(Document(terminal), low + 1, low + terminal.rows)
         IN /\ \E S : page \in Seq(S)
            /\ Len(page) = terminal.rows
            /\ \A i \in 1..terminal.rows : page[i] = Document(terminal)[low + i]
<1> DEFINE d == Document(terminal)
           n == terminal.rows
           page == SubSeq(d, low + 1, low + n)
<1>1. /\ Len(terminal.scrollback) \in Nat /\ n \in Nat \ {0}
      /\ Len(d) = Len(terminal.scrollback) + n
  BY ScrollbackLength, DocumentParts DEF Good, Sound
<1>2. PICK S : d \in Seq(S)
  BY DocumentParts
<1> HIDE DEF d, n
<1>3. \A i \in low + 1..low + n : d[i] \in S
  <2>1. \A i \in 1..Len(d) : d[i] \in S
    BY <1>2, ElementOfSeq
  <2>2. \A i \in low + 1..low + n : i \in 1..Len(d)
    BY <1>1
  <2> QED BY <2>1, <2>2, Zenon
<1>4. low + 1 \in Int /\ low + n \in Int /\ low + 1 <= low + n
  BY <1>1
<1>5. /\ page \in Seq(S) /\ Len(page) = (low + n) - (low + 1) + 1
      /\ \A i \in 1..(low + n) - (low + 1) + 1 : page[i] = d[(low + 1) + i - 1]
  BY <1>3, <1>4, SubSeqProperties
<1>6. (low + n) - (low + 1) + 1 = n /\ \A i \in 1..n : (low + 1) + i - 1 = low + i
  BY <1>1
<1> HIDE DEF page
<1>7. Len(page) = n /\ \A i \in 1..n : page[i] = d[low + i]
  BY <1>5, <1>6
<1> QED BY <1>5, <1>7 DEF d, n, page

LEMMA PageShown == ViewInv => ViewIsAPage
<1> SUFFICES ASSUME ViewInv PROVE ViewIsAPage
  OBVIOUS
<1> DEFINE h == Len(terminal.scrollback)
           n == terminal.rows
           d == Document(terminal)
           v == viewport_offset_
<1>1. Good /\ v \in Nat /\ h \in Nat /\ n \in Nat \ {0} /\ Len(d) = h + n
  BY ScrollbackLength, DocumentParts DEF ViewInv, Good, Sound
<1>2. VisibleRows(terminal, v) = SubSeq(d, h - Lower(v, h) + 1, Len(d) - Lower(v, h))
  <2>1. VisibleRows(terminal, v) = SubSeq(d, h - Lower(v, h) + 1, h + n - Lower(v, h))
    BY <1>1, ShownPage
  <2> HIDE DEF d, h, n
  <2>2. Len(d) - Lower(v, h) = h + n - Lower(v, h)
    BY <1>1 DEF Lower
  <2> QED BY <2>1, <2>2
<1>3. ASSUME CursorDrawn
      PROVE  VisibleRows(terminal, v) = [i \in 1..n |-> terminal.screen[i - 1]]
  <2> DEFINE page == [i \in 1..n |-> terminal.screen[i - 1]]
             shown == SubSeq(d, h + 1, h + n)
  <2>1. VisibleRows(terminal, v) = shown
    <3>1. v = 0
      BY <1>3 DEF CursorDrawn
    <3>2. Lower(v, h) = 0 /\ h - 0 + 1 = h + 1 /\ Len(d) - 0 = h + n
      BY <1>1, <3>1 DEF Lower
    <3> QED BY <1>2, <3>2
  <2>2. /\ \E S : shown \in Seq(S)
        /\ Len(shown) = n
        /\ \A i \in 1..n : shown[i] = d[h + i]
    <3>1. h \in Nat /\ h <= Len(terminal.scrollback)
      BY <1>1
    <3> QED BY <1>1, <3>1, PageOfDocument, Zenon
  <2>3. \A i \in 1..n : d[h + i] = terminal.screen[i - 1]
    BY <1>1, DocumentParts
  <2>4. shown \in [1..n -> {shown[i] : i \in 1..n}]
    <3>1. PICK S : shown \in Seq(S)
      BY <2>2
    <3> HIDE DEF shown
    <3>2. DOMAIN shown = 1..n /\ shown \in [1..n -> S]
      BY <2>2, <3>1, LenProperties
    <3> QED BY <3>2
  <2> HIDE DEF shown
  <2>5. shown = page
    BY <2>2, <2>3, <2>4
  <2> QED BY <2>1, <2>5
<1>4. ASSUME NEW i \in 1..h
      PROVE  VisibleRows(terminal, h - i + 1)[1] = terminal.scrollback[i]
  <2>1. /\ h - i + 1 \in Nat /\ Lower(h - i + 1, h) = h - i + 1
        /\ h - (h - i + 1) + 1 = (i - 1) + 1 /\ h + n - (h - i + 1) = (i - 1) + n
        /\ i - 1 \in Nat /\ i - 1 <= h /\ 1 \in 1..n
    BY <1>1, <1>4 DEF Lower
  <2>2. VisibleRows(terminal, h - i + 1)
          = SubSeq(d, h - Lower(h - i + 1, h) + 1, h + n - Lower(h - i + 1, h))
    BY <1>1, <2>1, ShownPage
  <2>3. VisibleRows(terminal, h - i + 1) = SubSeq(d, (i - 1) + 1, (i - 1) + n)
    BY <2>1, <2>2
  <2>4. SubSeq(d, (i - 1) + 1, (i - 1) + n)[1] = d[(i - 1) + 1]
    BY <1>1, <2>1, PageOfDocument
  <2>5. d[(i - 1) + 1] = terminal.scrollback[i]
    BY <1>1, <1>4, DocumentParts
  <2> QED BY <2>3, <2>4, <2>5
<1>5. DOMAIN terminal.scrollback = 1..h
  <2>1. PICK S : terminal.scrollback \in Seq(S)
    BY <1>1 DEF Good, Sound, IsSequence
  <2> QED BY <2>1, LenProperties
<1> QED BY <1>2, <1>3, <1>4, <1>5 DEF ViewIsAPage

(* The window always shows one page of consecutive rows, and each row of   *)
(* the scrollback is on top of the page of some offset                     *)
(* (main.cpp:379-396,474-501).                                             *)
THEOREM ViewIsPaged == WindowSpec => []ViewIsAPage
<1>1. ViewInv /\ [WindowNext]_wvars => ViewInv'
  BY ViewStep
<1> QED BY <1>1, PageShown, ViewInit, PTL DEF WindowSpec

-----------------------------------------------------------------------------
(***************************************************************************)
(* The screen behind the parser.  Terminal!TerminalNext makes no call with *)
(* a member of the sets the screen is checked with, but with what the      *)
(* parser reads from the bytes; so first what any legal call does, and     *)
(* then that the parser makes legal calls only.                            *)
(***************************************************************************)

\* Damaged, or looking as before and as damaged as before.
Marks(t, u) == u.damaged \/ (SameLooks(t, u) /\ u.damaged = t.damaged)

\* What each call keeps and does.
Passes(t, u) == Sound(u) /\ (IsFilled(t) => IsFilled(u)) /\ Marks(t, u)

Anyhow == {"execute_control", "erase_in_display", "erase_in_line", "set_graphics_rendition",
           "private_mode_on", "private_mode_off", "save_cursor", "restore_cursor", "reset"}

\* The arguments TerminalOperations expects.
Legal(call) ==
  \/ call.op \in Anyhow
  \/ call.op \in Distances \cup {"print"} /\ call.args[1] \in Nat
  \/ call.op = "cursor_position" /\ call.args[1] \in Nat /\ call.args[2] \in Nat
  \/ call.op = "set_title" /\ call.args \in Seq(0..255)

LEMMA SamePasses ==
  ASSUME NEW t, Sound(t)
  PROVE  /\ Passes(t, t)
         /\ \A u : Sound(u) /\ SameScreen(t, u) /\ Marks(t, u) => Passes(t, u)
  BY SameFilled DEF Passes, Marks, SameLooks

LEMMA PrintPasses ==
  ASSUME NEW t, Sound(t), NEW codepoint \in Nat
  PROVE  Passes(t, PrintCodepoint(t, codepoint))
  BY PrintSound, PrintFilled, PrintMarked DEF Passes, Marks

LEMMA MovementsPass ==
  ASSUME NEW t, Sound(t), NEW n \in Nat, NEW m \in Nat
  PROVE  \A u \in {CursorUp(t, n), CursorDown(t, n), CursorForward(t, n), CursorBack(t, n),
                   CursorPosition(t, n, m), CarriageReturn(t), Backspace(t), Tab(t)} :
           Passes(t, u)
<1> DEFINE moves == {CursorUp(t, n), CursorDown(t, n), CursorForward(t, n), CursorBack(t, n),
                     CursorPosition(t, n, m), CarriageReturn(t), Backspace(t), Tab(t)}
<1>1. \A u \in moves : Sound(u) /\ Moved(t, u)
  BY MovementsSound
<1>2. \A u \in moves : u.damaged
  BY MovementsMarked
<1> HIDE DEF moves
<1>3. \A u \in moves : IsFilled(t) => IsFilled(u)
  BY <1>1, MovedFilled
<1>4. \A u \in moves : Passes(t, u)
  BY <1>1, <1>2, <1>3 DEF Passes, Marks
<1> QED BY <1>4 DEF moves

LEMMA ControlPasses ==
  ASSUME NEW t, Sound(t), NEW control
  PROVE  Passes(t, ExecuteControl(t, control))
<1>1. Passes(t, t)
  BY SamePasses
<1>2. Passes(t, Backspace(t)) /\ Passes(t, Tab(t)) /\ Passes(t, CarriageReturn(t))
  <2>1. 0 \in Nat
    OBVIOUS
  <2> QED BY <2>1, MovementsPass
<1>3. Passes(t, LineFeed(t))
  BY LineFeedSound, LineFeedFilled, MovementsMarked DEF Passes, Marks
<1> QED BY <1>1, <1>2, <1>3 DEF ExecuteControl

LEMMA ErasePasses ==
  ASSUME NEW t, Sound(t)
  PROVE  /\ \A mode : Passes(t, EraseInLine(t, mode))
         /\ \A mode : Passes(t, EraseInDisplay(t, mode))
<1>1. Passes(t, t)
  BY SamePasses
<1>2. \A cells : Passes(t, Erase(t, cells))
  BY EraseSound, EraseFilled, SoundMarked, Marked DEF Passes, Marks
<1>3. Passes(t, EraseInDisplay(t, 3))
  <2> DEFINE u == EraseInDisplay(t, 3)
  <2>1. DOMAIN t = Members
    BY SoundMarked
  <2>2. u = [t EXCEPT !.scrollback = <<>>, !.damaged = TRUE]
    BY DEF EraseInDisplay
  <2>3. Sound(u)
    BY ForgetSound
  <2> HIDE DEF u
  <2>4. SameScreen(t, u) /\ Marks(t, u)
    BY <2>1, <2>2 DEF SameScreen, Marks, Members
  <2>5. Passes(t, u)
    BY <2>3, <2>4, SamePasses
  <2> QED BY <2>5 DEF u
<1>4. ASSUME NEW mode PROVE Passes(t, EraseInLine(t, mode))
  BY <1>1, <1>2 DEF EraseInLine
<1>5. ASSUME NEW mode, mode # 3 PROVE Passes(t, EraseInDisplay(t, mode))
  BY <1>1, <1>2, <1>5 DEF EraseInDisplay
<1> QED BY <1>3, <1>4, <1>5

LEMMA StylePasses ==
  ASSUME NEW t, Sound(t), NEW parameters
  PROVE  Passes(t, SetGraphicsRendition(t, parameters))
<1> DEFINE u == SetGraphicsRendition(t, parameters)
<1>1. Sound(u) /\ DOMAIN t = Members /\ u.damaged
  BY StyleSound, SoundMarked, Marked
<1>2. SameScreen(t, u)
  BY <1>1 DEF SetGraphicsRendition, SameScreen, Members
<1> HIDE DEF u
<1>3. Passes(t, u)
  BY <1>1, <1>2, SamePasses DEF Marks
<1> QED BY <1>3 DEF u

LEMMA ModePasses ==
  ASSUME NEW t, Sound(t), NEW parameters, NEW enabled
  PROVE  Passes(t, SetPrivateMode(t, parameters, enabled))
<1> DEFINE u == SetPrivateMode(t, parameters, enabled)
           visible == IF Listed(parameters, 25) THEN enabled ELSE t.cursor.visible
           v == [t EXCEPT !.cursor.visible = visible]
           paste == IF Listed(parameters, 2004) THEN enabled ELSE v.bracketed_paste
           w == [v EXCEPT !.bracketed_paste = paste]
<1>1. Sound(u) /\ DOMAIN t = Members /\ u.damaged
  BY ModeSound, SoundMarked, Marked
<1>2. u = [w EXCEPT !.damaged = TRUE]
  BY SMT DEF SetPrivateMode
<1> HIDE DEF u, visible, paste
<1>3. SameScreen(t, u)
  BY <1>1, <1>2 DEF SameScreen, Members
<1>4. Passes(t, u)
  BY <1>1, <1>3, SamePasses DEF Marks
<1> QED BY <1>4 DEF u

LEMMA TitlePasses ==
  ASSUME NEW t, Sound(t), NEW title \in Seq(0..255)
  PROVE  Passes(t, SetTitle(t, title))
<1> DEFINE u == SetTitle(t, title)
           cut == SubSeq(title, 1, Lower(Len(title), MaximumTitleBytes))
<1>1. Sound(u) /\ DOMAIN t = Members
  BY TitleSound, SoundMarked
<1>2. u = [t EXCEPT !.title = cut]
  BY Zenon DEF SetTitle
<1> HIDE DEF u, cut
<1>3. SameScreen(t, u) /\ Marks(t, u)
  BY <1>1, <1>2 DEF SameScreen, Marks, SameLooks, Members
<1>4. Passes(t, u)
  BY <1>1, <1>3, SamePasses
<1> QED BY <1>4 DEF u

LEMMA CursorPasses ==
  ASSUME NEW t, Sound(t)
  PROVE  Passes(t, SaveCursor(t)) /\ Passes(t, RestoreCursor(t))
<1>1. DOMAIN t = Members /\ RestoreCursor(t).damaged
  BY SoundMarked, Marked
<1>2. SameScreen(t, SaveCursor(t)) /\ Marks(t, SaveCursor(t))
  BY <1>1 DEF SaveCursor, SameScreen, Marks, SameLooks, Members
<1>3. SameScreen(t, RestoreCursor(t)) /\ Marks(t, RestoreCursor(t))
  <2>1. SameScreen(t, RestoreCursor(t))
    BY <1>1 DEF RestoreCursor, SameScreen, Members
  <2> QED BY <1>1, <2>1 DEF Marks
<1> QED BY <1>2, <1>3, SaveSound, RestoreSound, SamePasses

LEMMA ResetPasses ==
  ASSUME NEW t, Sound(t)
  PROVE  Passes(t, ResetState(t))
<1> DEFINE u == ResetState(t)
           screen == [r \in 0..t.rows - 1 |-> BlankRow(t.columns)]
<1>1. Sound(u) /\ DOMAIN t = Members /\ u.damaged
  BY ResetSound, SoundMarked, Marked
<1>2. u.rows = t.rows /\ u.columns = t.columns /\ u.screen = screen
  BY <1>1 DEF ResetState, Members
<1> HIDE DEF u
<1>3. IsFilled(u)
  BY <1>2, BlankRowHasCells DEF IsFilled
<1>4. Passes(t, u)
  BY <1>1, <1>3 DEF Passes, Marks
<1> QED BY <1>4 DEF u

LEMMA CallPasses ==
  ASSUME NEW t, Sound(t), NEW call, Legal(call)
  PROVE  Passes(t, Apply(t, call))
<1> DEFINE n == call.args[1]
           u == Apply(t, call)
<1>1. CASE call.op \in Distances /\ n \in Nat
  <2>1. \/ u = CursorUp(t, n) \/ u = CursorDown(t, n)
        \/ u = CursorForward(t, n) \/ u = CursorBack(t, n)
    BY <1>1 DEF Apply, Distances
  <2> HIDE DEF u
  <2> QED BY <1>1, <2>1, MovementsPass DEF u
<1>2. CASE call.op = "print" /\ n \in Nat
  <2>1. u = PrintCodepoint(t, n)
    BY <1>2 DEF Apply
  <2> QED BY <1>2, <2>1, PrintPasses
<1>3. CASE call.op = "cursor_position" /\ n \in Nat /\ call.args[2] \in Nat
  <2>1. u = CursorPosition(t, n, call.args[2])
    BY <1>3 DEF Apply
  <2> HIDE DEF u
  <2> QED BY <1>3, <2>1, MovementsPass DEF u
<1>4. CASE call.op = "set_title" /\ call.args \in Seq(0..255)
  <2>1. u = SetTitle(t, call.args)
    BY <1>4 DEF Apply
  <2> QED BY <1>4, <2>1, TitlePasses
<1>5. CASE call.op \in Anyhow
  <2>1. \/ u = ExecuteControl(t, n) \/ u = EraseInDisplay(t, n) \/ u = EraseInLine(t, n)
        \/ u = SetGraphicsRendition(t, call.args)
        \/ u = SetPrivateMode(t, call.args, TRUE) \/ u = SetPrivateMode(t, call.args, FALSE)
        \/ u = SaveCursor(t) \/ u = RestoreCursor(t) \/ u = ResetState(t)
    BY <1>5 DEF Apply, Anyhow
  <2> HIDE DEF u, n
  <2> QED BY <2>1, ControlPasses, ErasePasses, StylePasses, ModePasses, CursorPasses,
             ResetPasses DEF u
<1> QED BY <1>1, <1>2, <1>3, <1>4, <1>5 DEF Legal

LEMMA TwoPass ==
  ASSUME NEW t, NEW u, NEW v, Passes(t, u), Passes(u, v)
  PROVE  Passes(t, v)
  BY DEF Passes, Marks, SameLooks

LEMMA DispatchUnfolds ==
  ASSUME NEW t, NEW calls, Len(calls) \in 0..2
  PROVE  /\ Len(calls) = 0 => Dispatch(t, calls) = t
         /\ Len(calls) = 1 => Dispatch(t, calls) = Apply(t, calls[1])
         /\ Len(calls) = 2 => Dispatch(t, calls) = Apply(Apply(t, calls[1]), calls[2])
<1> DEFINE n == Len(calls)
           one == Apply(t, calls[1])
           two == Apply(one, calls[2])
           unfolded(g) == [k \in 0..n |-> IF k = 0 THEN t ELSE Apply(g[k - 1], calls[k])]
           upTo == CHOOSE g : g = unfolded(g)
           f == [k \in 0..n |-> IF k = 0 THEN t ELSE IF k = 1 THEN one ELSE two]
<1>1. Dispatch(t, calls) = upTo[n]
  BY DEF Dispatch
<1>2. n \in 0..2
  OBVIOUS
<1> HIDE DEF n
<1>3. ASSUME NEW k \in 0..n
      PROVE  f[k] = IF k = 0 THEN t ELSE Apply(f[k - 1], calls[k])
  <2>1. CASE k = 0
    BY <2>1
  <2>2. CASE k = 1
    <3>1. f[1] = one /\ f[0] = t /\ 1 - 1 = 0
      BY <1>2, <2>2
    <3> QED BY <2>2, <3>1
  <2>3. CASE k = 2
    <3>1. f[2] = two /\ f[1] = one /\ 2 - 1 = 1
      BY <1>2, <2>3
    <3> QED BY <2>3, <3>1
  <2>4. k = 0 \/ k = 1 \/ k = 2
    BY <1>2
  <2> QED BY <2>1, <2>2, <2>3, <2>4
<1>4. f = unfolded(f)
  BY <1>3
<1>5. upTo = unfolded(upTo)
  BY <1>4
<1> HIDE DEF upTo
<1>6. upTo[0] = t
  BY <1>2, <1>5
<1>7. n >= 1 => upTo[1] = one
  BY <1>2, <1>5, <1>6
<1>8. n = 2 => upTo[2] = two
  BY <1>2, <1>5, <1>7
<1> HIDE DEF one, two
<1>9. /\ n = 0 => Dispatch(t, calls) = t
      /\ n = 1 => Dispatch(t, calls) = one
      /\ n = 2 => Dispatch(t, calls) = two
  BY <1>1, <1>6, <1>7, <1>8
<1> QED BY <1>9 DEF n, one, two

\* The calls of a byte: at most two, and legal.
AllLegal(calls) ==
  /\ Len(calls) \in 0..2 /\ DOMAIN calls = 1..Len(calls)
  /\ \A i \in 1..Len(calls) : Legal(calls[i])

LEMMA DispatchPasses ==
  ASSUME NEW t, Sound(t), NEW calls, AllLegal(calls)
  PROVE  Passes(t, Dispatch(t, calls))
<1>1. CASE Len(calls) = 0
  BY <1>1, DispatchUnfolds, SamePasses
<1>2. CASE Len(calls) = 1
  <2>1. Legal(calls[1])
    BY <1>2 DEF AllLegal
  <2>2. Dispatch(t, calls) = Apply(t, calls[1])
    BY <1>2, DispatchUnfolds
  <2> QED BY <2>1, <2>2, CallPasses
<1>3. CASE Len(calls) = 2
  <2>1. Legal(calls[1]) /\ Legal(calls[2])
    BY <1>3 DEF AllLegal
  <2>2. Dispatch(t, calls) = Apply(Apply(t, calls[1]), calls[2])
    BY <1>3, DispatchUnfolds
  <2>3. Passes(t, Apply(t, calls[1])) /\ Sound(Apply(t, calls[1]))
    BY <2>1, CallPasses DEF Passes
  <2>4. Passes(Apply(t, calls[1]), Apply(Apply(t, calls[1]), calls[2]))
    BY <2>1, <2>3, CallPasses
  <2> QED BY <2>2, <2>3, <2>4, TwoPass
<1> QED BY <1>1, <1>2, <1>3 DEF AllLegal
-----------------------------------------------------------------------------
\* The parser makes legal calls only.
LEMMA LegalAlone ==
  /\ AllLegal(<<>>)
  /\ \A call : Legal(call) => AllLegal(<<call>>)
  /\ \A a, b : Legal(a) /\ Legal(b) => AllLegal(<<a, b>>)
<1>1. AllLegal(<<>>)
  BY DEF AllLegal
<1>2. ASSUME NEW call, Legal(call) PROVE AllLegal(<<call>>)
  BY <1>2 DEF AllLegal
<1>3. ASSUME NEW a, NEW b, Legal(a), Legal(b) PROVE AllLegal(<<a, b>>)
  <2> DEFINE calls == <<a, b>>
  <2>1. Len(calls) = 2 /\ DOMAIN calls = 1..2 /\ calls[1] = a /\ calls[2] = b
    OBVIOUS
  <2> HIDE DEF calls
  <2>2. AllLegal(calls)
    BY <1>3, <2>1 DEF AllLegal
  <2> QED BY <2>2 DEF calls
<1> QED BY <1>1, <1>2, <1>3

LEMMA LegalByName == \A name \in Anyhow : \A args : Legal(Call(name, args))
  BY DEF Legal, Call

LEMMA LegalPrints ==
  ASSUME DecoderTypes'
  PROVE  AllLegal(Prints(emitted'))
<1> DEFINE codepoints == emitted'
           n == Len(codepoints)
           calls == [i \in 1..n |-> Call("print", <<codepoints[i]>>)]
<1>1. codepoints \in Seq(Nat) /\ n \in 0..2 /\ DOMAIN codepoints = 1..n
  <2>1. codepoints \in Seq(Nat) /\ n <= 2
    BY DEF DecoderTypes
  <2> HIDE DEF codepoints
  <2>2. n \in Nat /\ DOMAIN codepoints = 1..n
    BY <2>1, LenProperties
  <2> HIDE DEF n
  <2> QED BY <2>1, <2>2
<1>2. Prints(codepoints) = calls
  BY <1>1 DEF Prints
<1>3. \A i \in 1..n : codepoints[i] \in Nat
  BY <1>1, ElementOfSeq
<1> HIDE DEF n, codepoints
<1>4. Len(calls) = n /\ DOMAIN calls = 1..n
  BY <1>1
<1>5. ASSUME NEW i \in 1..n PROVE Legal(calls[i])
  <2>1. calls[i] = Call("print", <<codepoints[i]>>) /\ codepoints[i] \in Nat
    BY <1>3
  <2>2. \A c \in Nat : Legal(Call("print", <<c>>))
    BY DEF Legal, Call
  <2> HIDE DEF calls
  <2> QED BY <2>1, <2>2
<1> HIDE DEF calls
<1>6. AllLegal(calls)
  BY <1>1, <1>4, <1>5 DEF AllLegal
<1> QED BY <1>2, <1>6 DEF codepoints

LEMMA LegalEscapes ==
  \A byte : AllLegal(<<Control(byte)>>) /\ AllLegal(EscapeCalls(byte))
<1> TAKE byte
<1>1. \A c : Legal(Control(c))
  BY LegalByName DEF Control, Anyhow
<1>2. /\ Legal(Call("save_cursor", <<>>)) /\ Legal(Call("restore_cursor", <<>>))
      /\ Legal(Call("reset", <<>>))
  BY LegalByName DEF Anyhow
<1>3. AllLegal(<<Control(10), Control(13)>>)
  BY <1>1, LegalAlone
<1> QED BY <1>1, <1>2, <1>3, LegalAlone DEF EscapeCalls

LEMMA LegalCsi ==
  ASSUME parameters_ \in Seq(0..255)
  PROVE  \A final : AllLegal(ExecuteCsi(final))
<1> TAKE final
<1> DEFINE params == ParseParameters(parameters_)
           mode == ParameterOrDefault(params, 1, 0)
           row == Count(params, 1)
           column == Count(params, 2)
           calls == ExecuteCsi(final)
<1>1. params \in ParameterSeq
  <2>1. parameters_ \in Numbers
    BY BytesAreNumbers DEF Numbers
  <2> QED BY <2>1, ParametersInRange
<1> HIDE DEF params
<1>2. row \in Nat /\ row - 1 \in Nat /\ column - 1 \in Nat
  <2>1. row \in 1..IntMax /\ row - 1 \in 0..IntMax /\ column - 1 \in 0..IntMax
    BY <1>1, ParameterInRange
  <2> HIDE DEF row, column
  <2> QED BY <2>1
<1> HIDE DEF mode, row, column
<1>3. ASSUME NEW name \in Distances PROVE AllLegal(<<Call(name, <<row>>)>>)
  <2>1. Legal(Call(name, <<row>>))
    BY <1>2 DEF Legal, Call
  <2> QED BY <2>1, LegalAlone
<1>4. AllLegal(<<Call("cursor_position", <<row - 1, column - 1>>)>>)
  <2>1. Legal(Call("cursor_position", <<row - 1, column - 1>>))
    BY <1>2 DEF Legal, Call
  <2> QED BY <2>1, LegalAlone
<1>5. ASSUME NEW name \in Anyhow, NEW args PROVE AllLegal(<<Call(name, args)>>)
  BY LegalByName, LegalAlone
<1>6. \/ \E name \in Distances : calls = <<Call(name, <<row>>)>>
      \/ calls = <<Call("cursor_position", <<row - 1, column - 1>>)>>
      \/ \E name \in Anyhow : \E args : calls = <<Call(name, args)>>
      \/ calls = <<>>
  <2>1. CASE final \in {65, 66, 67, 68}
    <3>1. final = 65 => calls = <<Call("cursor_up", <<row>>)>>
      BY DEF ExecuteCsi, params, row
    <3>2. final = 66 => calls = <<Call("cursor_down", <<row>>)>>
      BY DEF ExecuteCsi, params, row
    <3>3. final = 67 => calls = <<Call("cursor_forward", <<row>>)>>
      BY DEF ExecuteCsi, params, row
    <3>4. final = 68 => calls = <<Call("cursor_back", <<row>>)>>
      BY DEF ExecuteCsi, params, row
    <3> HIDE DEF calls
    <3> QED BY <2>1, <3>1, <3>2, <3>3, <3>4 DEF Distances
  <2>2. CASE final \in {72, 102}
    BY <2>2 DEF ExecuteCsi, params, row, column
  <2>3. CASE final \notin {65, 66, 67, 68, 72, 102}
    <3>1. \/ calls = <<Call("erase_in_display", <<mode>>)>>
          \/ calls = <<Call("erase_in_line", <<mode>>)>>
          \/ calls = <<Call("set_graphics_rendition", params)>>
          \/ calls = <<Call("private_mode_on", params)>>
          \/ calls = <<Call("private_mode_off", params)>>
          \/ calls = <<Call("save_cursor", <<>>)>>
          \/ calls = <<Call("restore_cursor", <<>>)>>
          \/ calls = <<>>
      BY <2>3 DEF ExecuteCsi, params, mode
    <3> HIDE DEF calls
    <3> QED BY <3>1, Zenon DEF Anyhow
  <2> QED BY <2>1, <2>2, <2>3
<1> HIDE DEF calls
<1>7. AllLegal(calls)
  BY <1>3, <1>4, <1>5, <1>6, LegalAlone
<1> QED BY <1>7 DEF calls

LEMMA LegalOsc ==
  ASSUME osc_payload_ \in Seq(0..255)
  PROVE  AllLegal(ExecuteOsc)
<1> DEFINE title == SubSeq(osc_payload_, 3, Len(osc_payload_))
<1>1. title \in Seq(0..255)
  <2>1. Len(osc_payload_) \in Nat /\ \A i \in 1..Len(osc_payload_) : osc_payload_[i] \in 0..255
    BY LenProperties, ElementOfSeq
  <2>2. \A i \in 3..Len(osc_payload_) : osc_payload_[i] \in 0..255
    BY <2>1
  <2>3. 3 \in Int /\ Len(osc_payload_) \in Int
    BY <2>1
  <2> QED BY <2>2, <2>3, SubSeqProperties
<1> HIDE DEF title
<1>2. Legal(Call("set_title", title))
  BY <1>1 DEF Legal, Call
<1>3. ExecuteOsc \in {<<>>, <<Call("set_title", title)>>}
  BY DEF ExecuteOsc, title
<1> QED BY <1>2, <1>3, LegalAlone

LEMMA HearLegal ==
  ASSUME TypeInv, TypeInv', NEW byte \in Bytes, Hear(byte)
  PROVE  AllLegal(ops')
<1>1. /\ parameters_ \in Seq(0..255) /\ osc_payload_ \in Seq(0..255)
      /\ DecoderTypes' /\ ProcessByte(byte)
  BY DEF TypeInv, BufferInv, BufferTypes, Hear
<1>2. FlushDecoder => AllLegal(ops')
  BY <1>1, LegalPrints DEF FlushDecoder
<1>3. ProcessGround(byte) => AllLegal(ops')
  BY <1>1, <1>2, LegalPrints, LegalEscapes DEF ProcessGround
<1>4. ProcessEscape(byte) \/ ProcessString(byte) => AllLegal(ops')
  BY LegalAlone, LegalEscapes DEF ProcessEscape, ProcessString
<1>5. ProcessCsi(byte) => AllLegal(ops')
  BY <1>1, LegalAlone, LegalEscapes, LegalCsi DEF ProcessCsi
<1>6. ProcessOsc(byte) => AllLegal(ops')
  BY <1>1, LegalAlone, LegalOsc DEF ProcessOsc
<1> QED BY <1>1, <1>2, <1>3, <1>4, <1>5, <1>6 DEF ProcessByte

-----------------------------------------------------------------------------
\* The invariant of both, and of the window.
TerminalInv == TypeInv /\ ViewInv /\ IsFilled(terminal)

LEMMA TerminalStarts == TerminalInit => TerminalInv
<1>1. StreamInit => TypeInv
  BY StreamTyped
<1>2. WindowInit => ViewInv /\ IsFilled(terminal)
  BY ViewInit, NewFilled DEF WindowInit, Init
<1> QED BY <1>1, <1>2 DEF TerminalInit, TerminalInv

\* A step of the whole is one of the parser.
LEMMA TerminalHears == [TerminalNext]_tvars => [StreamNext]_svars
  BY DEF TerminalNext, Feed, FlushTerminal, ResetTerminal, Outside, StreamNext, tvars

LEMMA RelayPasses ==
  ASSUME TerminalInv, TypeInv',
         (\E byte \in Bytes : Feed(byte)) \/ FlushTerminal \/ ResetTerminal
  PROVE  Passes(terminal, terminal')
<1>1. terminal' = Dispatch(terminal, ops')
  BY DEF Feed, FlushTerminal, ResetTerminal, Relay
<1>2. AllLegal(ops')
  <2>1. ASSUME NEW byte \in Bytes, Feed(byte) PROVE AllLegal(ops')
    BY <2>1, HearLegal DEF Feed, TerminalInv
  <2>2. CASE FlushTerminal
    BY <2>2, LegalPrints DEF FlushTerminal, FlushStream, Flush, FlushDecoder, TypeInv
  <2>3. CASE ResetTerminal
    BY <2>3, LegalAlone DEF ResetTerminal, ResetStream, Reset
  <2> QED BY <2>1, <2>2, <2>3
<1> QED BY <1>1, <1>2, DispatchPasses DEF TerminalInv, ViewInv, Good

LEMMA TerminalStep ==
  ASSUME TerminalInv, [TerminalNext]_tvars
  PROVE  /\ TerminalInv'
         /\ ~LimitStep => Seen(terminal, terminal') \/ UNCHANGED terminal
<1>1. TypeInv'
  BY TerminalHears, TypeInvStep DEF TerminalInv
<1>2. CASE (\E byte \in Bytes : Feed(byte)) \/ FlushTerminal \/ ResetTerminal
  <2>1. Passes(terminal, terminal')
    BY <1>1, <1>2, RelayPasses
  <2>2. UNCHANGED viewport_offset_
    BY <1>2 DEF Feed, FlushTerminal, ResetTerminal, Relay
  <2>3. ViewInv' /\ IsFilled(terminal')
    BY <2>1, <2>2 DEF TerminalInv, ViewInv, Good, Passes
  <2> QED BY <1>1, <2>1, <2>3 DEF TerminalInv, Passes, Marks, Seen
<1>3. CASE Outside
  <2>1. [WindowNext]_wvars /\ (UNCHANGED terminal \/ Next)
    BY <1>3 DEF Outside, WindowNext, Adjust, KeyWritten, Next
  <2>2. ViewInv'
    BY <2>1, ViewStep DEF TerminalInv
  <2>3. IsFilled(terminal')
    BY <2>1, StepFilled DEF TerminalInv, ViewInv
  <2>4. ~LimitStep => Seen(terminal, terminal') \/ UNCHANGED terminal
    BY <2>1, StepSeen DEF TerminalInv, ViewInv
  <2> QED BY <1>1, <2>2, <2>3, <2>4 DEF TerminalInv
<1>4. CASE UNCHANGED tvars
  BY <1>1, <1>4 DEF tvars, wvars, TerminalInv, ViewInv, Good
<1> QED BY <1>2, <1>3, <1>4 DEF TerminalNext

LEMMA TerminalKeeps == TerminalSpec => []TerminalInv
<1>1. TerminalInv /\ [TerminalNext]_tvars => TerminalInv'
  BY TerminalStep
<1> QED BY <1>1, TerminalStarts, PTL DEF TerminalSpec

(* Whatever bytes a shell writes, and however the window is resized        *)
(* meanwhile, nothing is ever outside the grid: the numbers of the         *)
(* sequences, as they were typed, never reach an index                     *)
(* (terminal_parser.cpp:214-238,288-325, every screen_[cursor_.row]).      *)
THEOREM StreamKeepsGrid == TerminalSpec => []TypeOK
<1>1. TerminalInv => TypeOK
  BY DEF TerminalInv, ViewInv, Good, Sound, IsCursor, IsGrid, TypeOK
<1> QED BY <1>1, TerminalKeeps, PTL

(* Nor is a wrap ever pending elsewhere than behind the last column        *)
(* (terminal_state.cpp:319-323,351-358).                                   *)
THEOREM StreamWrapsAtMargin == TerminalSpec => []WrapOnlyAtMargin
<1>1. TerminalInv => WrapOnlyAtMargin
  BY DEF TerminalInv, ViewInv, Good, Sound, WrapOnlyAtMargin
<1> QED BY <1>1, TerminalKeeps, PTL

(* No output, however long, makes the scrollback longer than its limit     *)
(* (terminal_state.cpp:57-62,249-254).                                     *)
THEOREM StreamBoundsScrollback == TerminalSpec => []ScrollbackBounded
<1>1. TerminalInv => ScrollbackBounded
  BY DEF TerminalInv, ViewInv, Good, Sound, ScrollbackBounded
<1> QED BY <1>1, TerminalKeeps, PTL

(* No byte stream puts a mark into the second half of a wide character,    *)
(* where it would not be drawn (terminal_state.cpp:298-315,346-349).       *)
THEOREM StreamLosesNoMark == TerminalSpec => []ContinuationsEmpty
<1>1. TerminalInv => ContinuationsEmpty
  BY FilledIsWhole DEF TerminalInv, ViewInv
<1> QED BY <1>1, TerminalKeeps, PTL

(* Whatever a byte changes of what the window shows, the window is told,   *)
(* also when the byte makes two calls and the second changes nothing       *)
(* (terminal_state.cpp:140 and every operation, terminal_parser.cpp:117).  *)
THEOREM StreamIsSeen == TerminalSpec => DamageCoversChanges
<1>1. TerminalInv /\ [TerminalNext]_tvars =>
        [~LimitStep /\ <<terminal.screen, terminal.scrollback, terminal.cursor>>'
                         # <<terminal.screen, terminal.scrollback, terminal.cursor>>
           => terminal'.damaged]_terminal
  BY TerminalStep DEF Seen, SameLooks
<1> QED BY <1>1, TerminalKeeps, PTL DEF TerminalSpec, DamageCoversChanges

(* And the window shows a page of it after every byte                      *)
(* (main.cpp:379-396,474-501).                                             *)
THEOREM StreamIsPaged == TerminalSpec => []ViewIsAPage
<1>1. TerminalInv => ViewIsAPage
  BY PageShown DEF TerminalInv
<1> QED BY <1>1, TerminalKeeps, PTL
-----------------------------------------------------------------------------
\* Setting the title changes nothing else.
OnlyTitle(t, u) ==
  DOMAIN u = DOMAIN t /\ \A member \in DOMAIN t \ {"title"} : u[member] = t[member]

LEMMA TitleOnly ==
  ASSUME NEW t, NEW call, call.op = "set_title"
  PROVE  OnlyTitle(t, Apply(t, call))
<1> DEFINE u == Apply(t, call)
           cut == SubSeq(call.args, 1, Lower(Len(call.args), MaximumTitleBytes))
<1>1. u = [t EXCEPT !.title = cut]
  BY Zenon DEF Apply, SetTitle
<1> HIDE DEF u, cut
<1>2. OnlyTitle(t, u)
  BY <1>1 DEF OnlyTitle
<1> QED BY <1>2 DEF u

LEMMA SilentDispatch ==
  ASSUME NEW t, NEW calls, AllLegal(calls), Silent(calls)
  PROVE  OnlyTitle(t, Dispatch(t, calls))
<1>1. \A i \in 1..Len(calls) : calls[i].op = "set_title"
  BY DEF AllLegal, Silent
<1>2. CASE Len(calls) = 0
  BY <1>2, DispatchUnfolds DEF OnlyTitle
<1>3. CASE Len(calls) = 1
  <2>1. calls[1].op = "set_title" /\ Dispatch(t, calls) = Apply(t, calls[1])
    BY <1>1, <1>3, DispatchUnfolds
  <2> QED BY <2>1, TitleOnly
<1>4. CASE Len(calls) = 2
  <2>1. /\ calls[1].op = "set_title" /\ calls[2].op = "set_title"
        /\ Dispatch(t, calls) = Apply(Apply(t, calls[1]), calls[2])
    BY <1>1, <1>4, DispatchUnfolds
  <2>2. /\ OnlyTitle(t, Apply(t, calls[1]))
        /\ OnlyTitle(Apply(t, calls[1]), Apply(Apply(t, calls[1]), calls[2]))
    BY <2>1, TitleOnly
  <2> QED BY <2>1, <2>2 DEF OnlyTitle
<1> QED BY <1>2, <1>3, <1>4 DEF AllLegal

(* From its introducer to its terminator a string changes nothing of the   *)
(* screen but the title (terminal_parser.cpp:157-212,253-264).             *)
THEOREM StringsReachTitle == TerminalSpec => StringsOnlyTitle
<1>1. TerminalInv /\ [TerminalNext]_tvars =>
        [opened # "none" /\ (\E byte \in Bytes : Feed(byte))
           => \A member \in DOMAIN terminal \ {"title"} :
                terminal'[member] = terminal[member]]_tvars
  <2> SUFFICES ASSUME TerminalInv, [TerminalNext]_tvars, opened # "none",
                      NEW byte \in Bytes, Feed(byte)
               PROVE  OnlyTitle(terminal, terminal')
    BY DEF OnlyTitle
  <2>1. TypeInv' /\ Hear(byte) /\ terminal' = Dispatch(terminal, ops')
    BY TerminalStep DEF TerminalInv, Feed, Relay
  <2>2. AllLegal(ops')
    BY <2>1, HearLegal DEF TerminalInv
  <2>3. Silent(ops')
    BY <2>1, ControlHear DEF TerminalInv, TypeInv, BufferInv
  <2> QED BY <2>1, <2>2, <2>3, SilentDispatch
<1> QED BY <1>1, TerminalKeeps, PTL DEF TerminalSpec, StringsOnlyTitle
=============================================================================

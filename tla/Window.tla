-------------------------------- MODULE Window -------------------------------
(***************************************************************************)
(* What SpencerApplication shows of a TerminalState: the page of its rows  *)
(* that the wheel and the page keys have moved to.  viewport_offset_ counts *)
(* rows back from the bottom and lives beside the terminal, which goes on  *)
(* scrolling, resizing and forgetting under it.                            *)
(***************************************************************************)
EXTENDS ScreenProperties

CONSTANTS
  Wheel, Page       \* rows per notch of the wheel (3) and per page key (5)

ASSUME WindowAssumption == Wheel \in Nat \ {0} /\ Page \in Nat \ {0}

VARIABLE viewport_offset_

wvars == <<terminal, viewport_offset_>>

\* Faulty variant of Raised: the offset is bounded by all the rows.
RaisedBeyond(t, offset, rows) == Lower(Len(t.scrollback) + t.rows, offset + rows)

\* The two branches of adjust_viewport().
Raised(t, offset, rows) == Lower(Len(t.scrollback), offset + rows)
Lowered(offset, rows) == Minus(offset, rows)

\* Faulty variant of Start: scrolled all the way up, the oldest row is lost.
StartBelowOldest(all, rows, offset) ==
  IF Len(all) > rows + offset + 1 THEN Len(all) - rows - offset ELSE 1

Start(all, rows, offset) == IF Len(all) > rows + offset THEN Len(all) - rows - offset ELSE 0

\* visible_rows(): scrollback and screen as one, and a page of it.
VisibleRows(t, offset) ==
  LET all == Document(t)
      start == Start(all, t.rows, Lower(offset, Minus(Len(all), t.rows)))
  IN SubSeq(all, start + 1, Lower(Len(all), start + t.rows))

\* draw_cursor() draws it, but for the blinking.
CursorDrawn == terminal.cursor.visible /\ viewport_offset_ = 0

-----------------------------------------------------------------------------
Adjust ==
  /\ \E rows \in {Wheel, Page} :
       \/ viewport_offset_' = Raised(terminal, viewport_offset_, rows)
       \/ viewport_offset_' = Lowered(viewport_offset_, rows)
  /\ UNCHANGED terminal

\* A key that was written whole.
KeyWritten == viewport_offset_' = 0 /\ UNCHANGED terminal

WindowInit == Init /\ viewport_offset_ = 0
WindowNext == Adjust \/ KeyWritten \/ (Next /\ UNCHANGED viewport_offset_)
WindowSpec == WindowInit /\ [][WindowNext]_wvars

-----------------------------------------------------------------------------
(* The window always shows one page of consecutive rows: the screen itself *)
(* where the cursor is drawn, else the page that ends as many rows above   *)
(* the bottom as the offset says, or as there are.  Each row of the        *)
(* scrollback, the oldest too, is on top of the page of some offset        *)
(* (main.cpp:379-396,474-501).                                             *)
ViewIsAPage ==
  LET shown == VisibleRows(terminal, viewport_offset_)
      history == terminal.scrollback
      hidden == Lower(viewport_offset_, Len(history))
      screen == Document(terminal)
  IN /\ shown = SubSeq(screen, Len(history) - hidden + 1, Len(screen) - hidden)
     /\ CursorDrawn => shown = [i \in 1..terminal.rows |-> terminal.screen[i - 1]]
     /\ \A i \in DOMAIN history :
          VisibleRows(terminal, Len(history) - i + 1)[1] = history[i]

(* The offset points into the scrollback.  Only erasing the scrollback     *)
(* (CSI 3 J) or lowering its limit leaves it beyond, where the window      *)
(* shows the bottom but draws no cursor there; printing, scrolling,        *)
(* resizing and resetting never do (main.cpp:475,489-499).                 *)
OffsetInScrollback == viewport_offset_ <= Len(terminal.scrollback)
OnlyErasingStrandsView ==
  [][OffsetInScrollback =>
       OffsetInScrollback' \/ Len(terminal'.scrollback) < Len(terminal.scrollback)]_wvars
=============================================================================

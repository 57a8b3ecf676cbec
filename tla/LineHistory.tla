----------------------------- MODULE LineHistory ----------------------------
(***************************************************************************)
(* What a scrollback promises its reader: a log of rows, oldest first.     *)
(* A step may add the row at the top of the page and may let go of the     *)
(* oldest rows; no remembered row is ever changed, and none is added that  *)
(* was not at the top of the page.                                         *)
(***************************************************************************)
EXTENDS Integers, Sequences

VARIABLES
  history,   \* the rows remembered
  limit,     \* how many may be kept
  top        \* the row at the top of the page

hvars == <<history, limit, top>>

\* The n newest rows.
Kept(rows, n) == IF Len(rows) > n THEN SubSeq(rows, Len(rows) - n + 1, Len(rows)) ELSE rows

\* The top row leaves the page for the log and another row takes its place.
ScrollOut == history' = Kept(Append(history, top), limit) /\ UNCHANGED limit

\* The page changes and the log does not.
Edit == UNCHANGED <<history, limit>>

Forget == history' = <<>> /\ UNCHANGED <<limit, top>>

ChangeLimit == history' = Kept(history, limit') /\ UNCHANGED top

HInit == history = <<>>
HNext == ScrollOut \/ Edit \/ Forget \/ ChangeLimit
HSpec == HInit /\ [][HNext]_hvars
=============================================================================

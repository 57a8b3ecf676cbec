------------------------------ MODULE Terminal ------------------------------
(***************************************************************************)
(* The way of the shell's output to the window: TerminalParser reads it    *)
(* byte by byte and calls TerminalState at once, and the window shows a    *)
(* page of that and resizes it between two bytes.  Of the calls that reach *)
(* the screen, only those the parser makes are left, with the arguments it *)
(* makes them with.                                                        *)
(***************************************************************************)
EXTENDS ParserStream, Window

tvars == <<svars, wvars>>

\* The calls of one byte, in order.
Dispatch(t, calls) ==
  LET upTo[n \in 0..Len(calls)] == IF n = 0 THEN t ELSE Apply(upTo[n - 1], calls[n])
  IN upTo[Len(calls)]

\* Bound of the model: a mark is not put into a full cell.
WithinMarkBound ==
  \A i \in DOMAIN ops' :
    ops'[i].op = "print" /\ IsCombining(ops'[i].args[1]) => HasMarkRoom

Relay == terminal' = Dispatch(terminal, ops') /\ UNCHANGED viewport_offset_

\* feed() of a byte; flush() and reset().
Feed(byte) == Hear(byte) /\ WithinMarkBound /\ Relay
FlushTerminal == FlushStream /\ WithinMarkBound /\ Relay
ResetTerminal == ResetStream /\ Relay

\* What the window does between two bytes.
Outside ==
  /\ Adjust \/ KeyWritten \/ ((ResizeStep \/ LimitStep \/ DrawnStep) /\ UNCHANGED viewport_offset_)
  /\ UNCHANGED svars

TerminalInit == StreamInit /\ WindowInit
TerminalNext == (\E byte \in Bytes : Feed(byte)) \/ FlushTerminal \/ ResetTerminal \/ Outside
TerminalSpec == TerminalInit /\ [][TerminalNext]_tvars

-----------------------------------------------------------------------------
(* "DCS/APC/PM strings are safely ignored until ST" and OSC strings set    *)
(* titles (docs/terminal-compatibility.md:17-18), seen from the screen: no *)
(* byte between an introducer and its terminator changes anything but the  *)
(* title (terminal_parser.cpp:157-212,253-264).                            *)
StringsOnlyTitle ==
  [][opened # "none" /\ (\E byte \in Bytes : Feed(byte))
       => \A member \in DOMAIN terminal \ {"title"} : terminal'[member] = terminal[member]]_tvars
=============================================================================

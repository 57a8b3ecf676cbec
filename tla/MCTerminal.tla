----------------------------- MODULE MCTerminal -----------------------------
(* Bytes that make a wide character (E4 81 81), a combining mark (CC 81),  *)
(* letters, a line feed and the sequences CSI H and CSI K with and without *)
(* a parameter 0, on a grid of one or two rows of two cells each, between  *)
(* which the window resizes.                                               *)
EXTENDS Terminal

None == {}
Zero == {0}
Shrinking == {<<2, 2>>, <<1, 2>>}
TerminalBytes == {10, 48, 72, 75, 129, 155, 204, 228}
=============================================================================

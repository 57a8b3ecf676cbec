------------------------------- MODULE MCWindow ------------------------------
(* One row of two cells or two rows of one, a letter and an ideograph, in  *)
(* a window whose wheel moves one row and whose page keys move two, of a   *)
(* scrollback of two rows at most.  Styles, modes and titles are called    *)
(* once each: with the defaults, an unknown mode and a title too long.     *)
EXTENDS Window

None == {}
LetterAndWide == {65, 19968}
ZeroTwo == {0, 2}
One == {1}
Normal == {<<>>}
UnknownMode == {<<7>>}
LongTitle == {<<84, 105, 116>>}
LineSizes == {<<1, 2>>, <<2, 0>>}
=============================================================================

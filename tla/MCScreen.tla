------------------------------ MODULE MCScreen ------------------------------
(* A grid of two rows of three cells, and a code point of each width: A, a *)
(* CJK ideograph.                                                          *)
EXTENDS ScreenProperties

None == {}
LetterAndWide == {65, 19968}
One == {1}
TwoByThree == {<<2, 3>>}
=============================================================================

---------------------------- MODULE MCUtf8Stream ----------------------------
(* The decoder on the bytes at both ends of every range its code           *)
(* distinguishes, so that overlong, surrogate and out-of-range sequences   *)
(* and their neighbours all occur.                                         *)
EXTENDS Utf8Stream

MCBytes == {0, 65, 127, 128, 143, 144, 159, 160, 191, 192, 193, 194, 223,
            224, 225, 237, 239, 240, 241, 244, 245, 255}
=============================================================================

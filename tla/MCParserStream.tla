--------------------------- MODULE MCParserStream ---------------------------
(* A few bytes of every class the parser tells apart, with buffers of      *)
(* three bytes, two parameters and an INT_MAX of 20, so that overflow of   *)
(* each of them occurs.                                                    *)
EXTENDS ParserStream

\* BEL CAN ESC SP 0 3 ; ? @ A E H [ \ ] m, DCS, CSI, ST, OSC, a lead byte
MCBytes == {7, 24, 27, 32, 48, 51, 59, 63, 64, 65, 69, 72, 91, 92, 93, 109,
            144, 155, 156, 157, 194}

\* The same for the runs about single sentences of the documentation.
DocBytes == {7, 10, 27, 40, 48, 59, 62, 66, 80, 91, 92, 93, 109,
             128, 156, 157, 226}
=============================================================================

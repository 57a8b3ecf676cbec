-------------------------- MODULE MCRenditionStream -------------------------
(* An empty parameter, the two mode numbers of extended colours, which are *)
(* an attribute and nothing elsewhere, both colours and a value out of     *)
(* range, in sequences long enough for an RGB colour and a command after   *)
(* it.  Sequences follow the default style and one that has a colour and   *)
(* an attribute, so that what a sequence must leave alone is visible.      *)
EXTENDS RenditionStream

MCParameters == {-1, 2, 5, 38, 48, 300}
MCStarts == {DefaultStyle,
             [DefaultStyle EXCEPT !.foreground = Indexed(255), !.attributes = {"dim"}]}
=============================================================================

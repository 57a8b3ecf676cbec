-------------------------- MODULE GraphicRendition --------------------------
(***************************************************************************)
(* TerminalState::set_graphics_rendition(): what the parameters of one     *)
(* "CSI ... m" make of the active style.  The loop of the source reads the *)
(* parameters with an index that apply_extended_color() moves on; here it  *)
(* recurs over all of them, keeping how many are already used up.          *)
(***************************************************************************)
EXTENDS Integers, Sequences

Attributes == {"bold", "dim", "italic", "underline", "inverse", "strikethrough"}
DefaultColor == <<"default">>
Indexed(n) == <<"indexed", n>>
TrueColor(red, green, blue) == <<"rgb", red, green, blue>>

DefaultStyle ==
  [foreground |-> DefaultColor, background |-> DefaultColor, attributes |-> {}]

\* Faulty variant of Component: only negative values are clamped.
ComponentUnclamped(value) == IF value < 0 THEN 0 ELSE value

Component(value) == IF value < 0 THEN 0 ELSE IF value > 255 THEN 255 ELSE value

\* Attributes switched on and off by a parameter.
Sets(p) ==
  CASE p = 1 -> {"bold"} [] p = 2 -> {"dim"} [] p = 3 -> {"italic"}
    [] p = 4 -> {"underline"} [] p = 7 -> {"inverse"}
    [] p = 9 -> {"strikethrough"} [] OTHER -> {}
Clears(p) ==
  CASE p = 22 -> {"bold", "dim"} [] p = 23 -> {"italic"} [] p = 24 -> {"underline"}
    [] p = 27 -> {"inverse"} [] p = 29 -> {"strikethrough"} [] OTHER -> {}

Plain(style, p) ==
  CASE p = 0 -> DefaultStyle
    [] p \in 30..37 -> [style EXCEPT !.foreground = Indexed(p - 30)]
    [] p \in 90..97 -> [style EXCEPT !.foreground = Indexed(p - 82)]
    [] p = 39 -> [style EXCEPT !.foreground = DefaultColor]
    [] p \in 40..47 -> [style EXCEPT !.background = Indexed(p - 40)]
    [] p \in 100..107 -> [style EXCEPT !.background = Indexed(p - 92)]
    [] p = 49 -> [style EXCEPT !.background = DefaultColor]
    [] OTHER -> [style EXCEPT !.attributes = (@ \cup Sets(p)) \ Clears(p)]

\* apply_extended_color() at parameter i: how many parameters after the i-th
\* it reads.  A colour cut short gives up only the mode.
ExtendedLength(params, i) ==
  LET left == Len(params) - i IN
  CASE left = 0 -> 0
    [] left >= 2 /\ params[i + 1] = 5 -> 2
    [] left >= 4 /\ params[i + 1] = 2 -> 4
    [] OTHER -> 1

ExtendedColor(style, params, i) ==
  LET color == IF params[i + 1] = 5 THEN Indexed(Component(params[i + 2]))
               ELSE TrueColor(Component(params[i + 2]), Component(params[i + 3]),
                              Component(params[i + 4]))
  IN IF ExtendedLength(params, i) < 2 THEN style
     ELSE IF params[i] = 38 THEN [style EXCEPT !.foreground = color]
     ELSE [style EXCEPT !.background = color]

\* Faulty variant of Used: a colour cut short takes the rest of the sequence.
UsedRest(params, i) ==
  IF params[i] \notin {38, 48} THEN 0
  ELSE IF ExtendedLength(params, i) = 1 /\ params[i + 1] \in {2, 5} THEN Len(params) - i
  ELSE ExtendedLength(params, i)

\* The parameters that parameter i takes with it.
Used(params, i) == IF params[i] \in {38, 48} THEN ExtendedLength(params, i) ELSE 0

RenditionStep(params, s, i) ==
  LET p == IF params[i] < 0 THEN 0 ELSE params[i] IN
  IF s.used > 0 THEN [s EXCEPT !.used = @ - 1]
  ELSE [used |-> Used(params, i),
        style |-> IF p \in {38, 48} THEN ExtendedColor(s.style, params, i)
                  ELSE Plain(s.style, p)]

Rendition(style, parameters) ==
  LET params == IF parameters = <<>> THEN <<0>> ELSE parameters
      upTo[n \in 0..Len(params)] ==
        IF n = 0 THEN [used |-> 0, style |-> style] ELSE RenditionStep(params, upTo[n - 1], n)
  IN upTo[Len(params)].style
=============================================================================

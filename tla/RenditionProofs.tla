--------------------------- MODULE RenditionProofs ---------------------------
(***************************************************************************)
(* Proofs about graphic renditions, for every parameter and every length   *)
(* of a sequence: the style stays one the screen can show, and a sequence  *)
(* means what its commands mean one after another.                         *)
(***************************************************************************)
EXTENDS RenditionStream, Induction, TLAPS, SequenceTheorems

-----------------------------------------------------------------------------
(***************************************************************************)
(* Types.                                                                  *)
(***************************************************************************)

Colors ==
  {DefaultColor} \cup {Indexed(n) : n \in 0..255}
    \cup {TrueColor(rgb[1], rgb[2], rgb[3]) : rgb \in (0..255) \X (0..255) \X (0..255)}
Styles == [foreground : Colors, background : Colors, attributes : SUBSET Attributes]

\* What the loop over the parameters keeps.
Loops == [used : Nat, style : Styles]

LEMMA ColorsAreColors == \A c \in Colors : IsColor(c)
<1> TAKE c \in Colors
<1>1. CASE c = DefaultColor
  BY <1>1 DEF IsColor
<1>2. CASE \E n \in 0..255 : c = Indexed(n)
  BY <1>2 DEF IsColor, Indexed
<1>3. CASE \E rgb \in (0..255) \X (0..255) \X (0..255) : c = TrueColor(rgb[1], rgb[2], rgb[3])
  <2>1. PICK red \in 0..255, green \in 0..255, blue \in 0..255 : c = TrueColor(red, green, blue)
    BY <1>3
  <2>2. c[1] = "rgb" /\ Len(c) = 4 /\ c[2] = red /\ c[3] = green /\ c[4] = blue
    BY <2>1 DEF TrueColor
  <2> QED BY <2>2 DEF IsColor
<1> QED BY <1>1, <1>2, <1>3 DEF Colors

LEMMA ComponentInRange == \A value \in Int : Component(value) \in 0..255
  BY DEF Component

LEMMA IndexedIsColor == \A n \in 0..255 : Indexed(n) \in Colors
  BY DEF Colors

LEMMA TrueColorIsColor ==
  \A red, green, blue \in 0..255 : TrueColor(red, green, blue) \in Colors
<1> TAKE red, green, blue \in 0..255
<1> DEFINE rgb == <<red, green, blue>>
<1>1. rgb \in (0..255) \X (0..255) \X (0..255)
  OBVIOUS
<1>2. TrueColor(red, green, blue) = TrueColor(rgb[1], rgb[2], rgb[3])
  OBVIOUS
<1> HIDE DEF rgb
<1> QED BY <1>1, <1>2 DEF Colors

LEMMA DefaultStyled == DefaultStyle \in Styles
  BY DEF DefaultStyle, Styles, Colors

LEMMA Colored ==
  ASSUME NEW s \in Styles, NEW color \in Colors
  PROVE  [s EXCEPT !.foreground = color] \in Styles /\ [s EXCEPT !.background = color] \in Styles
  BY DEF Styles

LEMMA PlainStyled ==
  ASSUME NEW s \in Styles, NEW p \in Int
  PROVE  Plain(s, p) \in Styles
<1> DEFINE Fore(color) == [s EXCEPT !.foreground = color]
           Back(color) == [s EXCEPT !.background = color]
<1>1. \A color \in Colors : Fore(color) \in Styles /\ Back(color) \in Styles
  BY Colored
<1>2. DefaultColor \in Colors /\ \A n \in 0..255 : Indexed(n) \in Colors
  BY IndexedIsColor DEF Colors
<1>3. [s EXCEPT !.attributes = (@ \cup Sets(p)) \ Clears(p)] \in Styles
  <2>1. Sets(p) \subseteq Attributes
    BY DEF Sets, Attributes
  <2> QED BY <2>1 DEF Styles
<1>4. /\ p \in 30..37 => p - 30 \in 0..255 /\ Plain(s, p) = Fore(Indexed(p - 30))
      /\ p \in 90..97 => p - 82 \in 0..255 /\ Plain(s, p) = Fore(Indexed(p - 82))
      /\ p = 39 => Plain(s, p) = Fore(DefaultColor)
  BY DEF Plain
<1>5. /\ p \in 40..47 => p - 40 \in 0..255 /\ Plain(s, p) = Back(Indexed(p - 40))
      /\ p \in 100..107 => p - 92 \in 0..255 /\ Plain(s, p) = Back(Indexed(p - 92))
      /\ p = 49 => Plain(s, p) = Back(DefaultColor)
  BY DEF Plain
<1>6. p \notin (30..37) \cup (90..97) \cup (40..47) \cup (100..107) \cup {39, 49}
        => Plain(s, p) \in Styles
  BY <1>3, DefaultStyled DEF Plain
<1> HIDE DEF Fore, Back
<1>7. CASE p \in (30..37) \cup (90..97) \cup {39}
  BY <1>1, <1>2, <1>4, <1>7
<1>8. CASE p \in (40..47) \cup (100..107) \cup {49}
  BY <1>1, <1>2, <1>5, <1>8
<1> QED BY <1>6, <1>7, <1>8

\* How many parameters a colour takes, in the cases of the source.
LEMMA ExtendedCases ==
  ASSUME NEW params \in Seq(Int), NEW i \in 1..Len(params)
  PROVE  LET left == Len(params) - i IN
         /\ left \in Nat /\ ExtendedLength(params, i) \in 0..left
         /\ left = 0 => ExtendedLength(params, i) = 0
         /\ left >= 2 /\ params[i + 1] = 5 => ExtendedLength(params, i) = 2
         /\ left >= 4 /\ params[i + 1] = 2 => ExtendedLength(params, i) = 4
         /\ left >= 1 /\ params[i + 1] \notin {2, 5} => ExtendedLength(params, i) = 1
         /\ ExtendedLength(params, i) \in {0, 1, 2, 4}
         /\ ExtendedLength(params, i) = 2 => params[i + 1] = 5
         /\ ExtendedLength(params, i) = 4 => params[i + 1] = 2
<1> DEFINE left == Len(params) - i
           length == ExtendedLength(params, i)
<1>1. left \in Nat
  BY LenProperties
<1>2. length = CASE left = 0 -> 0
                 [] left >= 2 /\ params[i + 1] = 5 -> 2
                 [] left >= 4 /\ params[i + 1] = 2 -> 4
                 [] OTHER -> 1
  BY DEF ExtendedLength
<1> HIDE DEF left, length
<1>3. /\ left = 0 => length = 0
      /\ left >= 2 /\ params[i + 1] = 5 => length = 2
      /\ left >= 4 /\ params[i + 1] = 2 => length = 4
      /\ left >= 1 /\ params[i + 1] \notin {2, 5} => length = 1
  BY <1>1, <1>2
<1>4. \/ left = 0 /\ length = 0
      \/ left >= 2 /\ params[i + 1] = 5 /\ length = 2
      \/ left >= 4 /\ params[i + 1] = 2 /\ length = 4
      \/ left >= 1 /\ length = 1
  BY <1>1, <1>2
<1>5. length \in 0..left /\ length \in {0, 1, 2, 4}
  BY <1>1, <1>4
<1>6. (length = 2 => params[i + 1] = 5) /\ (length = 4 => params[i + 1] = 2)
  BY <1>4
<1> QED BY <1>1, <1>3, <1>5, <1>6 DEF left, length

LEMMA ExtendedStyled ==
  ASSUME NEW s \in Styles, NEW params \in Seq(Int), NEW i \in 1..Len(params)
  PROVE  ExtendedColor(s, params, i) \in Styles
<1>1. Len(params) \in Nat /\ \A j \in 1..Len(params) : params[j] \in Int
  BY LenProperties, ElementOfSeq
<1> DEFINE color == IF params[i + 1] = 5 THEN Indexed(Component(params[i + 2]))
                    ELSE TrueColor(Component(params[i + 2]), Component(params[i + 3]),
                                   Component(params[i + 4]))
           length == ExtendedLength(params, i)
<1>2. length \in {0, 1, 2, 4} /\ length <= Len(params) - i
      /\ (length = 2 => params[i + 1] = 5) /\ (length = 4 => params[i + 1] = 2)
  BY <1>1, ExtendedCases
<1>3. ExtendedColor(s, params, i) =
        IF length < 2 THEN s
        ELSE IF params[i] = 38 THEN [s EXCEPT !.foreground = color]
        ELSE [s EXCEPT !.background = color]
  BY DEF ExtendedColor
<1> HIDE DEF length
<1>4. length >= 2 => color \in Colors
  <2>1. CASE length = 2
    <3>1. i + 2 \in 1..Len(params)
      BY <1>1, <1>2, <2>1
    <3>2. Component(params[i + 2]) \in 0..255
      BY <1>1, <3>1, ComponentInRange
    <3> QED BY <1>2, <2>1, <3>2, IndexedIsColor
  <2>2. CASE length = 4
    <3>1. i + 2 \in 1..Len(params) /\ i + 3 \in 1..Len(params) /\ i + 4 \in 1..Len(params)
      BY <1>1, <1>2, <2>2
    <3>2. /\ Component(params[i + 2]) \in 0..255 /\ Component(params[i + 3]) \in 0..255
          /\ Component(params[i + 4]) \in 0..255
      BY <1>1, <3>1, ComponentInRange
    <3>3. TrueColor(Component(params[i + 2]), Component(params[i + 3]),
                    Component(params[i + 4])) \in Colors
      BY <3>2, TrueColorIsColor
    <3> QED BY <1>2, <2>2, <3>3
  <2> QED BY <1>2, <2>1, <2>2
<1> HIDE DEF color
<1>5. CASE length < 2
  BY <1>3, <1>5
<1>6. CASE length >= 2
  <2>1. /\ [s EXCEPT !.foreground = color] \in Styles
        /\ [s EXCEPT !.background = color] \in Styles
    BY <1>4, <1>6, Colored
  <2> QED BY <1>2, <1>3, <1>6, <2>1
<1> QED BY <1>2, <1>5, <1>6

LEMMA StepStyled ==
  ASSUME NEW params \in Seq(Int), NEW loop \in Loops, NEW i \in 1..Len(params)
  PROVE  RenditionStep(params, loop, i) \in Loops
<1>1. loop.used \in Nat /\ loop.style \in Styles /\ params[i] \in Int
  BY ElementOfSeq DEF Loops
<1>2. CASE loop.used > 0
  <2>1. loop.used - 1 \in Nat
    BY <1>1, <1>2
  <2>2. [loop EXCEPT !.used = @ - 1] \in Loops
    BY <2>1 DEF Loops
  <2> QED BY <1>2, <2>2 DEF RenditionStep
<1>3. CASE ~(loop.used > 0)
  <2> DEFINE p == IF params[i] < 0 THEN 0 ELSE params[i]
  <2>1. Used(params, i) \in Nat
    BY ExtendedCases DEF Used
  <2>2. p \in Int
    BY <1>1
  <2> HIDE DEF p
  <2>3. Plain(loop.style, p) \in Styles /\ ExtendedColor(loop.style, params, i) \in Styles
    BY <1>1, <2>2, PlainStyled, ExtendedStyled
  <2>4. RenditionStep(params, loop, i) =
          [used |-> Used(params, i),
           style |-> IF p \in {38, 48} THEN ExtendedColor(loop.style, params, i)
                     ELSE Plain(loop.style, p)]
    BY <1>3 DEF RenditionStep, p
  <2> QED BY <2>1, <2>3, <2>4 DEF Loops
<1> QED BY <1>2, <1>3

-----------------------------------------------------------------------------
(***************************************************************************)
(* The loop.  Its recursion has a value at every parameter, and so has the *)
(* reading of the commands one after another.                              *)
(***************************************************************************)

Runs(f, params, s) ==
  /\ f \in [0..Len(params) -> Loops] /\ f[0] = [used |-> 0, style |-> s]
  /\ \A k \in 1..Len(params) : f[k] = RenditionStep(params, f[k - 1], k)

LEMMA LoopUnfolds ==
  ASSUME NEW params \in Seq(Int), params # <<>>, NEW s \in Styles
  PROVE  \E f : Runs(f, params, s) /\ Rendition(s, params) = f[Len(params)].style
<1> DEFINE n == Len(params)
           base == [used |-> 0, style |-> s]
           unfolded(g) == [k \in 0..n |-> IF k = 0 THEN base
                                          ELSE RenditionStep(params, g[k - 1], k)]
           upTo == CHOOSE g : g = unfolded(g)
           step == [p \in Loops \X Nat |->
                     IF p[2] < n THEN RenditionStep(params, p[1], p[2] + 1) ELSE p[1]]
<1>1. n \in Nat /\ base \in Loops
  BY LenProperties DEF Loops
<1>2. ASSUME NEW loop \in Loops, NEW k \in 1..n PROVE RenditionStep(params, loop, k) \in Loops
  BY StepStyled
<1> HIDE DEF n, base
<1>3. step \in [Loops \X Nat -> Loops]
  <2>1. ASSUME NEW loop \in Loops, NEW k \in Nat, k < n
        PROVE  RenditionStep(params, loop, k + 1) \in Loops
    <3>1. k + 1 \in 1..n
      BY <1>1, <2>1
    <3> QED BY <1>2, <3>1
  <2> QED BY <2>1
<1>4. PICK f \in [0..n -> Loops] : Follows(f, base, step, n)
  <2> HIDE DEF step
  <2> QED BY <1>1, <1>3, Recursion
<1>5. ASSUME NEW k \in 0..n
      PROVE  f[k] = IF k = 0 THEN base ELSE RenditionStep(params, f[k - 1], k)
  <2>1. CASE k = 0
    BY <1>4, <2>1 DEF Follows
  <2>2. CASE k # 0
    <3>1. k - 1 \in 0..n - 1 /\ (k - 1) + 1 = k /\ k - 1 < n /\ k - 1 \in Nat /\ k - 1 \in 0..n
      BY <1>1, <2>2
    <3>2. f[(k - 1) + 1] = step[<<f[k - 1], k - 1>>]
      BY <1>4, <3>1 DEF Follows
    <3>3. <<f[k - 1], k - 1>> \in Loops \X Nat
      BY <3>1
    <3>4. step[<<f[k - 1], k - 1>>] = RenditionStep(params, f[k - 1], (k - 1) + 1)
      BY <3>1, <3>3
    <3> QED BY <2>2, <3>1, <3>2, <3>4
  <2> QED BY <2>1, <2>2
<1>6. f = unfolded(f)
  BY <1>5
<1> HIDE DEF step
<1>7. upTo = unfolded(upTo)
  BY <1>6
<1>8. Rendition(s, params) = upTo[n].style
  BY DEF Rendition, n, base
<1> HIDE DEF upTo
<1>9. upTo[0] = base /\ \A k \in 1..n : upTo[k] = RenditionStep(params, upTo[k - 1], k)
  BY <1>1, <1>7
<1>10. upTo = [k \in 0..n |-> upTo[k]]
  BY <1>7
<1> HIDE DEF unfolded
<1> DEFINE Good == {k \in Nat : k <= n => upTo[k] \in Loops}
<1>11. 0 \in Good
  BY <1>1, <1>9
<1>12. ASSUME NEW k \in Nat, k \in Good PROVE k + 1 \in Good
  <2> SUFFICES ASSUME k + 1 <= n PROVE upTo[k + 1] \in Loops
    OBVIOUS
  <2>1. k + 1 \in 1..n /\ (k + 1) - 1 = k /\ k <= n
    BY <1>1
  <2>2. upTo[k + 1] = RenditionStep(params, upTo[k], k + 1)
    BY <1>9, <2>1
  <2>3. upTo[k] \in Loops
    BY <1>12, <2>1
  <2> QED BY <1>2, <2>1, <2>2, <2>3
<1> HIDE DEF Good
<1>13. \A k \in Nat : k \in Good
  BY <1>11, <1>12, SetInduction
<1>14. \A k \in 0..n : upTo[k] \in Loops
  BY <1>1, <1>13 DEF Good
<1>15. Runs(upTo, params, s)
  BY <1>9, <1>10, <1>14 DEF Runs, n, base
<1> QED BY <1>8, <1>15 DEF n

LEMMA RenditionStyled ==
  ASSUME NEW params \in Seq(Int), NEW s \in Styles
  PROVE  Rendition(s, params) \in Styles
<1>1. ASSUME NEW some \in Seq(Int), some # <<>> PROVE Rendition(s, some) \in Styles
  <2>1. PICK f : Runs(f, some, s) /\ Rendition(s, some) = f[Len(some)].style
    BY <1>1, LoopUnfolds
  <2>2. f[Len(some)] \in Loops
    BY <2>1, LenProperties DEF Runs
  <2> QED BY <2>1, <2>2 DEF Loops
<1>2. CASE params = <<>>
  <2>1. <<0>> \in Seq(Int) /\ <<0>> # <<>>
    OBVIOUS
  <2>2. Rendition(s, params) = Rendition(s, <<0>>)
    BY <1>2, <2>1 DEF Rendition
  <2> QED BY <1>1, <2>1, <2>2
<1> QED BY <1>1, <1>2

(* Every colour a sequence leaves behind is a default, an index or three   *)
(* bytes, whatever numbers were sent and however many                      *)
(* (terminal_state.cpp:13-15,408-415).                                     *)
THEOREM StylesTyped == RSpec => []TypeOK
<1> DEFINE StyleInv == style \in Styles /\ received \in Seq(Int)
<1>1. RInit => StyleInv
  BY DefaultStyled, EmptySeq DEF RInit
<1>2. StyleInv /\ [RNext]_rvars => StyleInv'
  <2> SUFFICES ASSUME StyleInv, [RNext]_rvars PROVE StyleInv'
    OBVIOUS
  <2>1. ASSUME NEW p \in Parameters, Receive(p) PROVE StyleInv'
    <3>1. p \in Int
      BY RenditionAssumption
    <3> QED BY <2>1, <3>1, AppendProperties DEF Receive
  <2>2. CASE Execute
    BY <2>2, RenditionStyled, EmptySeq DEF Execute
  <2>3. CASE UNCHANGED rvars
    BY <2>3 DEF rvars
  <2> QED BY <2>1, <2>2, <2>3 DEF RNext
<1>3. StyleInv => TypeOK
  BY ColorsAreColors DEF Styles, TypeOK
<1> QED BY <1>1, <1>2, <1>3, PTL DEF RSpec

-----------------------------------------------------------------------------
(***************************************************************************)
(* Commands.  A command that is complete is read by the loop alone: what   *)
(* it does to the style depends on its own parameters, wherever it is in   *)
(* the sequence, and at its end no parameter is left to be skipped.        *)
(***************************************************************************)

Complete(c) ==
  /\ c \in Seq(Int)
  /\ \/ c[1] \notin {38, 48} /\ Len(c) = 1
     \/ c[1] \in {38, 48} /\ Len(c) = 2 /\ c[2] \notin {2, 5}
     \/ c[1] \in {38, 48} /\ Len(c) = 3 /\ c[2] = 5
     \/ c[1] \in {38, 48} /\ Len(c) = 5 /\ c[2] = 2

\* The colour a complete command ends in, if it ends in one.
ColorOf(c) ==
  IF c[2] = 5 THEN Indexed(Component(c[3]))
  ELSE TrueColor(Component(c[3]), Component(c[4]), Component(c[5]))

Effect(s, c) ==
  IF c[1] \notin {38, 48} THEN Plain(s, IF c[1] < 0 THEN 0 ELSE c[1])
  ELSE IF Len(c) = 2 THEN s
  ELSE IF c[1] = 38 THEN [s EXCEPT !.foreground = ColorOf(c)]
  ELSE [s EXCEPT !.background = ColorOf(c)]

\* What the loop keeps with m parameters left to skip.
Left(m, s) == [used |-> m, style |-> s]

\* The command stands in the parameters behind the first k.
StandsAt(c, params, k) ==
  /\ k + Len(c) <= Len(params)
  /\ \A i \in 1..Len(c) : params[k + i] = c[i]

LEMMA CommandBegins ==
  ASSUME NEW params \in Seq(Int), NEW c, Complete(c), NEW k \in Nat, StandsAt(c, params, k),
         NEW s \in Styles
  PROVE  RenditionStep(params, Left(0, s), k + 1) = Left(Len(c) - 1, Effect(s, c))
<1> DEFINE i == k + 1
           left == Len(params) - i
           length == ExtendedLength(params, i)
           p == IF params[i] < 0 THEN 0 ELSE params[i]
<1>1. Len(params) \in Nat /\ k \in Nat /\ Len(c) \in {1, 2, 3, 5} /\ i \in 1..Len(params)
      /\ left \in Nat /\ left >= Len(c) - 1
  BY LenProperties DEF Complete, StandsAt
<1>2. c[1] \in Int /\ params[i] = c[1]
  BY <1>1, ElementOfSeq DEF Complete, StandsAt
<1>3. /\ Len(c) >= 2 => params[i + 1] = c[2]
      /\ Len(c) >= 3 => params[i + 2] = c[3]
      /\ Len(c) = 5 => params[i + 3] = c[4] /\ params[i + 4] = c[5]
  <2>1. \A j \in 1..Len(c) : params[k + j] = c[j]
    BY DEF StandsAt
  <2>2. Len(c) >= 2 => params[k + 2] = c[2]
    BY <1>1, <2>1
  <2>3. Len(c) >= 3 => params[k + 3] = c[3]
    BY <1>1, <2>1
  <2>4. Len(c) = 5 => params[k + 4] = c[4] /\ params[k + 5] = c[5]
    BY <1>1, <2>1
  <2>5. i + 1 = k + 2 /\ i + 2 = k + 3 /\ i + 3 = k + 4 /\ i + 4 = k + 5
    BY <1>1
  <2> QED BY <2>2, <2>3, <2>4, <2>5
<1>4. RenditionStep(params, Left(0, s), i) =
        Left(Used(params, i), IF p \in {38, 48} THEN ExtendedColor(s, params, i) ELSE Plain(s, p))
  BY DEF RenditionStep, Left
<1>5. CASE c[1] \notin {38, 48}
  <2>1. Len(c) = 1 /\ Used(params, i) = 0
    BY <1>2, <1>5 DEF Complete, Used
  <2>2. p \notin {38, 48} /\ p = IF c[1] < 0 THEN 0 ELSE c[1]
    BY <1>2, <1>5
  <2> HIDE DEF p
  <2> QED BY <1>4, <1>5, <2>1, <2>2 DEF Effect
<1>6. CASE c[1] \in {38, 48}
  <2>1. p = c[1] /\ Used(params, i) = length
    BY <1>2, <1>6 DEF Used
  <2>2. /\ left >= 2 /\ params[i + 1] = 5 => length = 2
        /\ left >= 4 /\ params[i + 1] = 2 => length = 4
        /\ left >= 1 /\ params[i + 1] \notin {2, 5} => length = 1
    BY <1>1, ExtendedCases
  <2> DEFINE color == IF params[i + 1] = 5 THEN Indexed(Component(params[i + 2]))
                      ELSE TrueColor(Component(params[i + 2]), Component(params[i + 3]),
                                     Component(params[i + 4]))
  <2>3. ExtendedColor(s, params, i) =
          IF length < 2 THEN s
          ELSE IF c[1] = 38 THEN [s EXCEPT !.foreground = color]
          ELSE [s EXCEPT !.background = color]
    BY <1>2 DEF ExtendedColor
  <2>4. length = Len(c) - 1 /\ (Len(c) # 2 => color = ColorOf(c))
    <3>1. CASE Len(c) = 2
      <4>1. left >= 1 /\ params[i + 1] \notin {2, 5}
        BY <1>1, <1>3, <1>6, <3>1 DEF Complete
      <4> HIDE DEF left, length
      <4> QED BY <2>2, <3>1, <4>1
    <3>2. CASE Len(c) = 3
      <4>1. c[2] = 5
        BY <1>6, <3>2 DEF Complete
      <4>2. left >= 2 /\ params[i + 1] = 5 /\ params[i + 2] = c[3]
        BY <1>1, <1>3, <3>2, <4>1
      <4>3. length = 2
        BY <2>2, <4>2
      <4>4. color = ColorOf(c)
        BY <4>1, <4>2 DEF ColorOf
      <4> QED BY <3>2, <4>3, <4>4
    <3>3. CASE Len(c) = 5
      <4>1. c[2] = 2
        BY <1>6, <3>3 DEF Complete
      <4>2. /\ left >= 4 /\ params[i + 1] = 2
            /\ params[i + 2] = c[3] /\ params[i + 3] = c[4] /\ params[i + 4] = c[5]
        BY <1>1, <1>3, <3>3, <4>1
      <4>3. length = 4
        BY <2>2, <4>2
      <4>4. color = ColorOf(c)
        BY <4>1, <4>2 DEF ColorOf
      <4> QED BY <3>3, <4>3, <4>4
    <3> QED BY <1>1, <1>6, <3>1, <3>2, <3>3 DEF Complete
  <2> HIDE DEF p, length, color
  <2>5. ExtendedColor(s, params, i) = Effect(s, c)
    <3>1. CASE Len(c) = 2
      BY <1>6, <2>3, <2>4, <3>1 DEF Effect
    <3>2. CASE Len(c) = 3
      <4>1. color = ColorOf(c) /\ length = 2
        BY <2>4, <3>2
      <4> QED BY <1>6, <2>3, <3>2, <4>1 DEF Effect
    <3>3. CASE Len(c) = 5
      <4>1. color = ColorOf(c) /\ length = 4
        BY <2>4, <3>3
      <4> QED BY <1>6, <2>3, <3>3, <4>1 DEF Effect
    <3>4. Len(c) # 1
      BY <1>6 DEF Complete
    <3> QED BY <1>1, <3>1, <3>2, <3>3, <3>4
  <2> QED BY <1>4, <1>6, <2>1, <2>4, <2>5
<1> QED BY <1>5, <1>6

LEMMA Skips ==
  ASSUME NEW params \in Seq(Int), NEW s0, NEW f, Runs(f, params, s0)
  PROVE  \A s \in Styles, m \in 1..4, k \in 0..Len(params) - 1 :
           f[k] = Left(m, s) => f[k + 1] = Left(m - 1, s)
<1> SUFFICES ASSUME NEW s \in Styles, NEW m \in 1..4, NEW k \in 0..Len(params) - 1,
                    f[k] = Left(m, s)
             PROVE  f[k + 1] = Left(m - 1, s)
  OBVIOUS
<1>1. k + 1 \in 1..Len(params) /\ (k + 1) - 1 = k
  BY LenProperties
<1>2. f[k + 1] = RenditionStep(params, f[k], k + 1)
  BY <1>1 DEF Runs
<1>3. RenditionStep(params, Left(m, s), k + 1) = Left(m - 1, s)
  BY DEF RenditionStep, Left
<1> QED BY <1>1, <1>2, <1>3

LEMMA CommandRuns ==
  ASSUME NEW params \in Seq(Int), NEW s0, NEW f, Runs(f, params, s0),
         NEW c, Complete(c), NEW k \in Nat, StandsAt(c, params, k),
         NEW s \in Styles, f[k] = Left(0, s)
  PROVE  f[k + Len(c)] = Left(0, Effect(s, c))
<1> DEFINE t == Effect(s, c)
           n == Len(params)
<1>1. n \in Nat /\ k \in Nat /\ Len(c) \in {1, 2, 3, 5} /\ k + Len(c) <= n
  BY LenProperties DEF Complete, StandsAt
<1> HIDE DEF t, n
<1>2. k + 1 \in 1..n /\ (k + 1) - 1 = k
  <2>1. ASSUME NEW l \in {1, 2, 3, 5}, k + l <= n PROVE k + 1 \in 1..n
    BY <1>1, <2>1
  <2>2. (k + 1) - 1 = k
    OBVIOUS
  <2> QED BY <1>1, <2>1, <2>2
<1>3. f[k + 1] = Left(Len(c) - 1, t)
  <2>1. f[k + 1] = RenditionStep(params, f[k], k + 1)
    BY <1>2 DEF Runs, n
  <2>2. RenditionStep(params, Left(0, s), k + 1) = Left(Len(c) - 1, t)
    BY CommandBegins DEF t
  <2> QED BY <2>1, <2>2
<1>4. t \in Styles
  <2>1. k + 1 \in 0..Len(params)
    BY <1>1, <1>2 DEF n
  <2>2. f[k + 1] \in Loops
    BY <2>1 DEF Runs
  <2> QED BY <1>3, <2>2 DEF Loops, Left
<1>5. ASSUME NEW m \in 1..4, NEW j \in 0..n - 1, f[j] = Left(m, t) PROVE f[j + 1] = Left(m - 1, t)
  <2>1. \A u \in Styles, d \in 1..4, l \in 0..Len(params) - 1 :
          f[l] = Left(d, u) => f[l + 1] = Left(d - 1, u)
    BY Skips
  <2>2. j \in 0..Len(params) - 1
    BY DEF n
  <2> QED BY <1>4, <1>5, <2>1, <2>2
<1>6. CASE Len(c) = 1
  BY <1>3, <1>6 DEF t
<1>7. CASE Len(c) = 2
  <2>1. k + 1 \in 0..n - 1 /\ (k + 1) + 1 = k + 2
    BY <1>1, <1>7
  <2>2. f[k + 2] = Left(0, t)
    BY <1>3, <1>5, <1>7, <2>1
  <2> QED BY <1>7, <2>2 DEF t
<1>8. CASE Len(c) = 3
  <2>1. /\ k + 1 \in 0..n - 1 /\ (k + 1) + 1 = k + 2
        /\ k + 2 \in 0..n - 1 /\ (k + 2) + 1 = k + 3
    BY <1>1, <1>8
  <2>2. f[k + 2] = Left(1, t)
    BY <1>3, <1>5, <1>8, <2>1
  <2>3. f[k + 3] = Left(0, t)
    BY <1>5, <2>1, <2>2
  <2> QED BY <1>8, <2>3 DEF t
<1>9. CASE Len(c) = 5
  <2>1. /\ k + 1 \in 0..n - 1 /\ (k + 1) + 1 = k + 2
        /\ k + 2 \in 0..n - 1 /\ (k + 2) + 1 = k + 3
        /\ k + 3 \in 0..n - 1 /\ (k + 3) + 1 = k + 4
        /\ k + 4 \in 0..n - 1 /\ (k + 4) + 1 = k + 5
    BY <1>1, <1>9
  <2>2. f[k + 2] = Left(3, t)
    BY <1>3, <1>5, <1>9, <2>1
  <2>3. f[k + 3] = Left(2, t)
    BY <1>5, <2>1, <2>2
  <2>4. f[k + 4] = Left(1, t)
    BY <1>5, <2>1, <2>3
  <2>5. f[k + 5] = Left(0, t)
    BY <1>5, <2>1, <2>4
  <2> QED BY <1>9, <2>5 DEF t
<1> QED BY <1>1, <1>6, <1>7, <1>8, <1>9

\* A sequence of one command.
LEMMA CommandAlone ==
  ASSUME NEW c, Complete(c), NEW s \in Styles
  PROVE  Rendition(s, c) = Effect(s, c)
<1>1. c \in Seq(Int) /\ Len(c) \in Nat /\ c # <<>>
  <2>1. c \in Seq(Int) /\ Len(c) > 0 /\ Len(c) \in Nat
    BY LenProperties DEF Complete
  <2> QED BY <2>1, EmptySeq
<1>2. PICK f : Runs(f, c, s) /\ Rendition(s, c) = f[Len(c)].style
  BY <1>1, LoopUnfolds
<1>3. StandsAt(c, c, 0)
  BY <1>1 DEF StandsAt
<1>4. f[0 + Len(c)] = Left(0, Effect(s, c))
  <2>1. f[0] = Left(0, s)
    BY <1>2 DEF Runs, Left
  <2>2. Runs(f, c, s) /\ 0 \in Nat
    BY <1>2
  <2> QED BY <1>1, <1>3, <2>1, <2>2, CommandRuns
<1> QED BY <1>1, <1>2, <1>4 DEF Left

-----------------------------------------------------------------------------
(***************************************************************************)
(* Commands one after another.                                             *)
(***************************************************************************)

Steps(g, list, s) ==
  /\ g \in [0..Len(list) -> Styles] /\ g[0] = s
  /\ \A j \in 1..Len(list) : g[j] = Rendition(g[j - 1], list[j])

LEMMA MeaningUnfolds ==
  ASSUME NEW list \in Seq(Seq(Int)), NEW s \in Styles
  PROVE  \E g : Steps(g, list, s) /\ Meaning(s, list) = g[Len(list)]
<1> DEFINE n == Len(list)
           unfolded(h) == [k \in 0..n |-> IF k = 0 THEN s ELSE Rendition(h[k - 1], list[k])]
           upTo == CHOOSE h : h = unfolded(h)
           step == [p \in Styles \X Nat |->
                     IF p[2] < n THEN Rendition(p[1], list[p[2] + 1]) ELSE p[1]]
<1>1. n \in Nat
  BY LenProperties
<1>2. ASSUME NEW u \in Styles, NEW k \in 1..n PROVE Rendition(u, list[k]) \in Styles
  <2>1. list[k] \in Seq(Int)
    BY ElementOfSeq
  <2> QED BY <2>1, RenditionStyled
<1> HIDE DEF n
<1>3. step \in [Styles \X Nat -> Styles]
  <2>1. ASSUME NEW u \in Styles, NEW k \in Nat, k < n PROVE Rendition(u, list[k + 1]) \in Styles
    <3>1. k + 1 \in 1..n
      BY <1>1, <2>1
    <3> QED BY <1>2, <3>1
  <2> QED BY <2>1
<1>4. PICK f \in [0..n -> Styles] : Follows(f, s, step, n)
  <2> HIDE DEF step
  <2> QED BY <1>1, <1>3, Recursion
<1>5. ASSUME NEW k \in 0..n
      PROVE  f[k] = IF k = 0 THEN s ELSE Rendition(f[k - 1], list[k])
  <2>1. CASE k = 0
    BY <1>4, <2>1 DEF Follows
  <2>2. CASE k # 0
    <3>1. k - 1 \in 0..n - 1 /\ (k - 1) + 1 = k /\ k - 1 < n /\ k - 1 \in Nat /\ k - 1 \in 0..n
      BY <1>1, <2>2
    <3>2. f[(k - 1) + 1] = step[<<f[k - 1], k - 1>>]
      BY <1>4, <3>1 DEF Follows
    <3>3. <<f[k - 1], k - 1>> \in Styles \X Nat
      BY <3>1
    <3>4. step[<<f[k - 1], k - 1>>] = Rendition(f[k - 1], list[(k - 1) + 1])
      BY <3>1, <3>3
    <3> QED BY <2>2, <3>1, <3>2, <3>4
  <2> QED BY <2>1, <2>2
<1>6. f = unfolded(f)
  BY <1>5
<1> HIDE DEF step
<1>7. upTo = unfolded(upTo)
  BY <1>6
<1>8. Meaning(s, list) = upTo[n]
  BY DEF Meaning, n
<1> HIDE DEF upTo
<1>9. upTo[0] = s /\ \A k \in 1..n : upTo[k] = Rendition(upTo[k - 1], list[k])
  BY <1>1, <1>7
<1>10. upTo = [k \in 0..n |-> upTo[k]]
  BY <1>7
<1> HIDE DEF unfolded
<1> DEFINE Good == {k \in Nat : k <= n => upTo[k] \in Styles}
<1>11. 0 \in Good
  BY <1>1, <1>9
<1>12. ASSUME NEW k \in Nat, k \in Good PROVE k + 1 \in Good
  <2> SUFFICES ASSUME k + 1 <= n PROVE upTo[k + 1] \in Styles
    OBVIOUS
  <2>1. k + 1 \in 1..n /\ (k + 1) - 1 = k /\ k <= n
    BY <1>1
  <2>2. upTo[k + 1] = Rendition(upTo[k], list[k + 1])
    BY <1>9, <2>1
  <2>3. upTo[k] \in Styles
    BY <1>12, <2>1
  <2> QED BY <1>2, <2>1, <2>2, <2>3
<1> HIDE DEF Good
<1>13. \A k \in Nat : k \in Good
  BY <1>11, <1>12, SetInduction
<1>14. \A k \in 0..n : upTo[k] \in Styles
  BY <1>1, <1>13 DEF Good
<1>15. Steps(upTo, list, s)
  BY <1>9, <1>10, <1>14 DEF Steps, n
<1> QED BY <1>8, <1>15 DEF n

\* The parameters are the commands of the list end to end; starts[j] is how
\* many stand before the j-th command.
SplitAt(starts, list, params) ==
  /\ starts \in [1..Len(list) + 1 -> Nat]
  /\ starts[1] = 0 /\ starts[Len(list) + 1] = Len(params)
  /\ \A j \in 1..Len(list) : /\ starts[j + 1] = starts[j] + Len(list[j])
                             /\ StandsAt(list[j], params, starts[j])

Splits(list, params) == \E starts : SplitAt(starts, list, params)

\* g follows the meanings of the first m commands, all of them complete.
Leads(g, list, m, s) ==
  /\ g[0] = s /\ \A j \in 0..m : g[j] \in Styles
  /\ \A j \in 1..m : Complete(list[j]) /\ g[j] = Rendition(g[j - 1], list[j])

\* Behind the first m commands, all of them complete, the loop has done what
\* they mean one after another.
LEMMA SplitRuns ==
  ASSUME NEW params \in Seq(Int), NEW list \in Seq(Seq(Int)), NEW s \in Styles, NEW f,
         Runs(f, params, s), NEW starts, SplitAt(starts, list, params),
         NEW m \in 0..Len(list), NEW g, Leads(g, list, m, s)
  PROVE  f[starts[m + 1]] = Left(0, g[m])
<1> DEFINE n == Len(list)
<1>1. /\ n \in Nat /\ m \in Nat /\ m <= n
      /\ g[0] = s /\ \A j \in 0..m : g[j] \in Styles
      /\ \A j \in 1..m : Complete(list[j]) /\ g[j] = Rendition(g[j - 1], list[j])
  BY LenProperties DEF Leads
<1> HIDE DEF n
<1> DEFINE Good == {j \in Nat : j <= m => f[starts[j + 1]] = Left(0, g[j])}
<1>2. 0 \in Good
  <2>1. starts[0 + 1] = 0 /\ g[0] = s /\ f[0] = Left(0, s)
    BY <1>1 DEF SplitAt, Runs, Left
  <2> QED BY <2>1
<1>3. ASSUME NEW j \in Nat, j \in Good PROVE j + 1 \in Good
  <2> SUFFICES ASSUME j + 1 <= m PROVE f[starts[(j + 1) + 1]] = Left(0, g[j + 1])
    OBVIOUS
  <2>1. /\ j + 1 \in 1..n /\ j + 1 \in 1..m /\ j + 1 \in 1..n + 1
        /\ j <= m /\ (j + 1) - 1 = j /\ j \in 0..m
    BY <1>1
  <2> DEFINE c == list[j + 1]
             k == starts[j + 1]
             u == g[j]
  <2>2. f[k] = Left(0, u)
    BY <1>3, <2>1
  <2>3. starts[(j + 1) + 1] = k + Len(c) /\ StandsAt(c, params, k) /\ k \in Nat
    BY <2>1 DEF SplitAt, n
  <2>4. Complete(c)
    BY <1>1, <2>1
  <2>5. u \in Styles /\ g[j + 1] = Rendition(u, c)
    BY <1>1, <2>1
  <2> HIDE DEF c, k, u
  <2>6. f[k + Len(c)] = Left(0, Effect(u, c))
    BY <2>2, <2>3, <2>4, <2>5, CommandRuns
  <2>7. Rendition(u, c) = Effect(u, c)
    BY <2>4, <2>5, CommandAlone
  <2> QED BY <2>3, <2>5, <2>6, <2>7
<1> HIDE DEF Good
<1>4. \A j \in Nat : j \in Good
  BY <1>2, <1>3, SetInduction
<1> QED BY <1>1, <1>4 DEF Good

\* A command still waiting for the rest of its colour.
Partial(c) ==
  /\ c \in Seq(Int) /\ c[1] \in {38, 48}
  /\ \/ Len(c) = 1
     \/ Len(c) = 2 /\ c[2] = 5
     \/ Len(c) \in 2..4 /\ c[2] = 2

LEMMA PartialIsOpen == \A c : (Complete(c) => ~Open(c)) /\ (Partial(c) => Open(c))
<1>1. ASSUME NEW c, NEW n, Len(c) = n, Complete(c) PROVE ~Open(c)
  BY <1>1 DEF Complete, Open
<1>2. ASSUME NEW c, NEW n, Len(c) = n, Partial(c) PROVE Open(c)
  BY <1>2 DEF Partial, Open
<1> QED BY <1>1, <1>2

\* Behind the first k parameters stands an introducer without room for its colour.
Cut(params, k) ==
  /\ k + 1 <= Len(params) /\ params[k + 1] \in {38, 48}
  /\ k + 3 <= Len(params) => params[k + 2] # 5
  /\ k + 5 <= Len(params) => params[k + 2] # 2

\* It is given up with the mode.
LEMMA IntroducerGivenUp ==
  ASSUME NEW params \in Seq(Int), NEW s0, NEW f, Runs(f, params, s0), NEW k \in Nat,
         Cut(params, k), NEW u \in Styles, f[k] = Left(0, u)
  PROVE  /\ k + 1 = Len(params) => f[k + 1] = Left(0, u)
         /\ k + 1 # Len(params) => f[k + 2] = Left(0, u)
<1> DEFINE i == k + 1
           n == Len(params)
           left == n - i
           length == ExtendedLength(params, i)
<1>1. n \in Nat /\ i \in 1..n /\ i - 1 = k /\ i + 1 = k + 2 /\ left \in Nat
      /\ params[i] \in {38, 48}
  BY LenProperties DEF Cut
<1>2. length = CASE left = 0 -> 0
                 [] left >= 2 /\ params[i + 1] = 5 -> 2
                 [] left >= 4 /\ params[i + 1] = 2 -> 4
                 [] OTHER -> 1
  BY DEF ExtendedLength
<1>3. (left >= 2 => params[i + 1] # 5) /\ (left >= 4 => params[i + 1] # 2)
  BY <1>1 DEF Cut
<1>4. ExtendedColor(u, params, i) = u \/ length >= 2
  <2> HIDE DEF left
  <2>1. length \in Int
    BY <1>1, ExtendedCases
  <2> QED BY <2>1 DEF ExtendedColor
<1>5. f[i] = RenditionStep(params, Left(0, u), i)
  BY <1>1 DEF Runs
<1>6. RenditionStep(params, Left(0, u), i) = Left(length, ExtendedColor(u, params, i))
  BY <1>1, SMTT(30) DEF RenditionStep, Left, Used
<1> HIDE DEF length
<1>7. CASE left = 0
  <2>1. length = 0
    BY <1>2, <1>7
  <2>2. f[i] = Left(0, u) /\ i = n
    BY <1>1, <1>4, <1>5, <1>6, <1>7, <2>1
  <2> QED BY <2>2
<1>8. CASE left # 0
  <2>1. length = 1
    BY <1>1, <1>2, <1>3, <1>8
  <2>2. f[i] = Left(1, u)
    BY <1>4, <1>5, <1>6, <2>1
  <2>3. i \in 0..Len(params) - 1 /\ i # n
    BY <1>1, <1>8
  <2>4. f[i + 1] = Left(1 - 1, u)
    BY <2>2, <2>3, Skips
  <2> QED BY <1>1, <2>3, <2>4
<1> QED BY <1>7, <1>8

\* A parameter that introduces no colour is a command by itself.
Ordinary(p, params, k) ==
  k + 1 <= Len(params) /\ params[k + 1] = p /\ p \in Int \ {38, 48}

LEMMA ParameterAlone ==
  ASSUME NEW params \in Seq(Int), NEW s0, NEW f, Runs(f, params, s0), NEW k \in Nat,
         NEW p, Ordinary(p, params, k), NEW u \in Styles, f[k] = Left(0, u)
  PROVE  f[k + 1] = Left(0, Rendition(u, <<p>>)) /\ Rendition(u, <<p>>) \in Styles
<1>1. PICK c : c = <<p>>
  OBVIOUS
<1>2. Complete(c) /\ c \in Seq(Int) /\ Len(c) = 1 /\ StandsAt(c, params, k)
  BY <1>1 DEF Complete, StandsAt, Ordinary
<1>3. ASSUME NEW d, Complete(d), StandsAt(d, params, k)
      PROVE  f[k + Len(d)] = Left(0, Effect(u, d))
  BY <1>3, CommandRuns
<1>4. f[k + Len(c)] = Left(0, Effect(u, c))
  BY <1>2, <1>3
<1>5. Rendition(u, c) = Effect(u, c) /\ Rendition(u, c) \in Styles
  BY <1>2, CommandAlone, RenditionStyled
<1> QED BY <1>1, <1>2, <1>4, <1>5

LEMMA GivenUpTyped ==
  ASSUME NEW c, Partial(c)
  PROVE  GivenUp(c) \in Seq(Seq(Int)) /\ Len(GivenUp(c)) \in 0..2
<1>1. \A i \in 1..Len(c) : c[i] \in Int
  BY ElementOfSeq DEF Partial
<1>2. Len(c) \in 1..4
  BY DEF Partial
<1>3. (Len(c) >= 3 => c[3] \in Int) /\ (Len(c) = 4 => c[4] \in Int)
  BY <1>1, <1>2
<1> QED BY <1>2, <1>3 DEF GivenUp

\* A colour cut short at the end of the parameters means what is left of it.
LEMMA CutRuns ==
  ASSUME NEW params \in Seq(Int), NEW s0, NEW f, Runs(f, params, s0),
         NEW c, Partial(c), NEW k \in Nat, StandsAt(c, params, k), k + Len(c) = Len(params),
         NEW u \in Styles, f[k] = Left(0, u)
  PROVE  LET rest == GivenUp(c)
             end == f[Len(params)].style
         IN /\ Len(rest) = 0 => end = u
            /\ Len(rest) = 1 => end = Rendition(u, rest[1])
            /\ Len(rest) = 2 => end = Rendition(Rendition(u, rest[1]), rest[2])
<1> DEFINE n == Len(params)
           end == f[n].style
           rest == GivenUp(c)
<1>1. n \in Nat /\ n = k + Len(c) /\ \A i \in 1..Len(c) : params[k + i] = c[i]
  BY LenProperties DEF StandsAt
<1>2. \A s : Left(0, s).style = s
  BY DEF Left
<1>8. ASSUME NEW j \in Nat, NEW v \in Styles, f[j] = Left(0, v), Cut(params, j)
      PROVE  (j + 1 = n => f[j + 1] = Left(0, v)) /\ (j + 1 # n => f[j + 2] = Left(0, v))
  BY <1>8, IntroducerGivenUp
<1>9. ASSUME NEW j \in Nat, NEW v \in Styles, f[j] = Left(0, v),
             NEW p, Ordinary(p, params, j)
      PROVE  f[j + 1] = Left(0, Rendition(v, <<p>>)) /\ Rendition(v, <<p>>) \in Styles
  BY <1>9, ParameterAlone
<1> HIDE DEF n, end, rest
<1>10. \A i \in 1..Len(c) : c[i] \in Int
  BY ElementOfSeq DEF Partial
<1>11. ASSUME NEW j \in 1..2, n = k + 2 + j
       PROVE  /\ f[k + 2] = Left(0, u) /\ k + 2 \in Nat
              /\ params[k + 1] \in {38, 48} /\ params[k + 2] = 2 /\ params[k + 3] = c[3]
              /\ j = 2 => params[k + 4] = c[4]
  <2>1. Len(c) = 2 + j
    BY <1>1, <1>11
  <2>2. /\ params[k + 1] = c[1] /\ params[k + 2] = c[2] /\ params[k + 3] = c[3]
        /\ j = 2 => params[k + 4] = c[4]
    BY <1>1, <2>1
  <2>3. c[1] \in {38, 48} /\ c[2] = 2
    BY <2>1 DEF Partial
  <2>4. Cut(params, k) /\ k + 1 # n /\ k + 2 \in Nat
    BY <1>11, <2>2, <2>3, SMTT(30) DEF Cut, n
  <2> QED BY <1>8, <2>2, <2>3, <2>4
<1>3. CASE Len(c) = 1
  <2>1. Cut(params, k) /\ k + 1 = n
    BY <1>1, <1>3 DEF Partial, Cut, n
  <2>2. f[n] = Left(0, u)
    BY <1>8, <2>1
  <2>3. rest = <<>>
    BY <1>3 DEF GivenUp, rest
  <2> QED BY <1>2, <2>2, <2>3 DEF n, end, rest
<1>4. CASE Len(c) = 2
  <2>1. Cut(params, k) /\ k + 1 # n /\ k + 2 = n
    BY <1>1, <1>4 DEF Partial, Cut, n
  <2>2. f[n] = Left(0, u)
    BY <1>8, <2>1
  <2>3. rest = <<>>
    BY <1>4 DEF GivenUp, rest
  <2> QED BY <1>2, <2>2, <2>3 DEF n, end, rest
<1>5. CASE Len(c) = 3
  <2>1. n = k + 2 + 1 /\ n = (k + 2) + 1 /\ c[3] \in Int
    BY <1>1, <1>5, <1>10
  <2>2. f[k + 2] = Left(0, u) /\ k + 2 \in Nat /\ params[(k + 2) + 1] = c[3]
    BY <1>11, <2>1
  <2>3. CASE c[3] \in {38, 48}
    <3>1. Cut(params, k + 2)
      BY <2>1, <2>2, <2>3 DEF Cut, n
    <3>2. f[n] = Left(0, u)
      BY <1>8, <2>1, <2>2, <3>1
    <3>3. rest = <<>>
      BY <1>5, <2>3 DEF GivenUp, rest
    <3> QED BY <1>2, <3>2, <3>3 DEF n, end, rest
  <2>4. CASE c[3] \notin {38, 48}
    <3>1. Ordinary(c[3], params, k + 2)
      BY <2>1, <2>2, <2>4 DEF Ordinary, n
    <3>2. f[n] = Left(0, Rendition(u, <<c[3]>>))
      BY <1>9, <2>1, <2>2, <3>1
    <3>3. rest = <<<<c[3]>>>>
      BY <1>5, <2>4 DEF GivenUp, rest
    <3> QED BY <1>2, <3>2, <3>3 DEF n, end, rest
  <2> QED BY <2>3, <2>4
<1>6. CASE Len(c) = 4
  <2>1. /\ n = k + 2 + 2 /\ n = (k + 2) + 2 /\ n = (k + 3) + 1 /\ (k + 2) + 1 # n
        /\ k + 3 \in Nat /\ (k + 2) + 1 = k + 3 /\ c[3] \in Int /\ c[4] \in Int
    BY <1>1, <1>6, <1>10
  <2>2. /\ f[k + 2] = Left(0, u) /\ k + 2 \in Nat
        /\ params[(k + 2) + 1] = c[3] /\ params[(k + 3) + 1] = c[4]
    BY <1>11, <2>1
  <2>3. CASE c[3] \in {38, 48}
    <3>1. Cut(params, k + 2)
      BY <2>1, <2>2, <2>3 DEF Cut, n
    <3>2. f[n] = Left(0, u)
      BY <1>8, <2>1, <2>2, <3>1
    <3>3. rest = <<>>
      BY <1>6, <2>3 DEF GivenUp, rest
    <3> QED BY <1>2, <3>2, <3>3 DEF n, end, rest
  <2>4. CASE c[3] \notin {38, 48}
    <3> DEFINE v == Rendition(u, <<c[3]>>)
    <3>1. Ordinary(c[3], params, k + 2)
      BY <2>1, <2>2, <2>4 DEF Ordinary, n
    <3>2. f[k + 3] = Left(0, v) /\ v \in Styles
      BY <1>9, <2>1, <2>2, <3>1, SMTT(30)
    <3> HIDE DEF v
    <3>3. CASE c[4] \in {38, 48}
      <4>1. Cut(params, k + 3)
        BY <2>1, <2>2, <3>3 DEF Cut, n
      <4>2. f[n] = Left(0, v)
        BY <1>8, <2>1, <3>2, <4>1
      <4>3. rest = <<<<c[3]>>>>
        BY <1>6, <2>4, <3>3 DEF GivenUp, rest
      <4> QED BY <1>2, <4>2, <4>3 DEF v, n, end, rest
    <3>4. CASE c[4] \notin {38, 48}
      <4>1. Ordinary(c[4], params, k + 3)
        BY <2>1, <2>2, <3>4 DEF Ordinary, n
      <4>2. f[(k + 3) + 1] = Left(0, Rendition(v, <<c[4]>>))
        BY <1>9, <2>1, <3>2, <4>1
      <4>3. rest = <<<<c[3]>>, <<c[4]>>>>
        BY <1>6, <2>4, <3>4 DEF GivenUp, rest
      <4>4. f[n] = Left(0, Rendition(v, <<c[4]>>))
        BY <2>1, <4>2
      <4> QED BY <1>2, <4>3, <4>4 DEF v, n, end, rest
    <3> QED BY <3>3, <3>4
  <2> QED BY <2>3, <2>4
<1>7. Len(c) \in 1..4
  BY DEF Partial
<1> QED BY <1>3, <1>4, <1>5, <1>6, <1>7 DEF n, end, rest

\* The commands of a sequence, of which only the last may be cut short.
Commands(list) ==
  \A j \in 1..Len(list) : Complete(list[j]) \/ (j = Len(list) /\ Partial(list[j]))

LEMMA SplitMeaning ==
  ASSUME NEW params \in Seq(Int), NEW list \in Seq(Seq(Int)), NEW s \in Styles, list # <<>>,
         Commands(list), Splits(list, params)
  PROVE  Rendition(s, params) = Meaning(s, Resolved(list))
<1> DEFINE n == Len(list)
<1>1. n \in Nat /\ n >= 1 /\ Len(params) \in Nat
  BY LenProperties, EmptySeq
<1>2. PICK starts : SplitAt(starts, list, params)
  BY DEF Splits
<1> HIDE DEF n
<1>3. /\ \A j \in 1..n : Complete(list[j]) \/ (j = n /\ Partial(list[j]))
      /\ starts \in [1..n + 1 -> Nat] /\ starts[1] = 0 /\ starts[n + 1] = Len(params)
      /\ \A j \in 1..n : /\ starts[j + 1] = starts[j] + Len(list[j])
                         /\ StandsAt(list[j], params, starts[j])
  BY <1>2 DEF SplitAt, Commands, n
<1>4. params # <<>>
  <2>1. 1 \in 1..n
    BY <1>1
  <2>2. (Complete(list[1]) \/ Partial(list[1])) /\ StandsAt(list[1], params, 0)
    BY <1>3, <2>1
  <2>3. Len(list[1]) \in 1..5 /\ 0 + Len(list[1]) <= Len(params)
    BY <2>2 DEF Complete, Partial, StandsAt
  <2>4. ASSUME NEW l \in 1..5, 0 + l <= Len(params) PROVE Len(params) # 0
    BY <1>1, <2>4
  <2> QED BY <2>3, <2>4, EmptySeq
<1>5. PICK f : Runs(f, params, s) /\ Rendition(s, params) = f[Len(params)].style
  BY <1>4, LoopUnfolds
<1>6. CASE ~Open(list[n])
  <2>1. Resolved(list) = list
    BY <1>6 DEF Resolved, n
  <2>2. \A j \in 1..n : Complete(list[j])
    BY <1>3, <1>6, PartialIsOpen
  <2>3. PICK g : Steps(g, list, s) /\ Meaning(s, list) = g[n]
    BY MeaningUnfolds DEF n
  <2>4. Leads(g, list, n, s)
    BY <2>2, <2>3 DEF Steps, Leads, n
  <2>5. n \in 0..Len(list)
    BY <1>1 DEF n
  <2>6. f[starts[n + 1]] = Left(0, g[n])
    BY <1>2, <1>5, <2>4, <2>5, SplitRuns
  <2> QED BY <1>3, <1>5, <2>1, <2>3, <2>6 DEF Left
<1>7. CASE Open(list[n])
  <2> DEFINE c == list[n]
             k == starts[n]
             rest == GivenUp(c)
             front == SubSeq(list, 1, n - 1)
             all == front \o rest
             m == n - 1
  <2>1. n \in 1..n /\ m \in 0..Len(list) /\ m \in Nat /\ m + 1 = n
    BY <1>1 DEF n
  <2>2. Partial(c) /\ StandsAt(c, params, k) /\ k \in Nat /\ k + Len(c) = Len(params)
    BY <1>1, <1>3, <1>7, <2>1, PartialIsOpen
  <2>3. rest \in Seq(Seq(Int)) /\ Len(rest) \in 0..2
    BY <2>2, GivenUpTyped
  <2>4. front \in Seq(Seq(Int)) /\ Len(front) = m /\ \A j \in 1..m : front[j] = list[j]
    <3>1. m \in 0..Len(list)
      BY <2>1
    <3> HIDE DEF m
    <3>2. /\ SubSeq(list, 1, m) \in Seq(Seq(Int)) /\ Len(SubSeq(list, 1, m)) = m
          /\ \A j \in 1..m : SubSeq(list, 1, m)[j] = list[j]
      <4>1. \A j \in 1..m : list[j] \in Seq(Int)
        <5>1. \A j \in 1..m : j \in 1..Len(list)
          BY <3>1, LenProperties
        <5> QED BY <5>1, ElementOfSeq
      <4>2. m = 0 \/ (1 \in 1..Len(list) /\ m \in 1..Len(list))
        BY <3>1, LenProperties
      <4> QED BY <3>1, <4>1, <4>2, SubSeqProperties
    <3> QED BY <3>2 DEF m
  <2>5. Resolved(list) = all
    BY <1>7 DEF Resolved, n
  <2> HIDE DEF rest, front, m, c, k
  <2>6. /\ all \in Seq(Seq(Int)) /\ Len(all) = m + Len(rest)
        /\ \A j \in 1..m : all[j] = list[j]
        /\ \A i \in 1..Len(rest) : all[m + i] = rest[i]
    <3>1. /\ all \in Seq(Seq(Int)) /\ Len(all) = Len(front) + Len(rest)
          /\ \A j \in 1..Len(front) + Len(rest) :
               all[j] = IF j <= Len(front) THEN front[j] ELSE rest[j - Len(front)]
      BY <2>3, <2>4, ConcatProperties
    <3>2. ASSUME NEW j \in 1..m PROVE all[j] = list[j]
      <4>1. j \in 1..Len(front) + Len(rest) /\ j <= Len(front)
        BY <2>1, <2>3, <2>4
      <4> QED BY <2>4, <3>1, <4>1
    <3>3. ASSUME NEW i \in 1..Len(rest) PROVE all[m + i] = rest[i]
      <4>1. /\ m + i \in 1..Len(front) + Len(rest) /\ ~(m + i <= Len(front))
            /\ (m + i) - Len(front) = i
        BY <2>1, <2>3, <2>4
      <4> QED BY <3>1, <4>1
    <3> QED BY <2>4, <3>1, <3>2, <3>3
  <2> HIDE DEF all
  <2>7. PICK g : Steps(g, all, s) /\ Meaning(s, all) = g[Len(all)]
    BY <2>6, MeaningUnfolds
  <2>8. /\ \A j \in 0..m + Len(rest) : g[j] \in Styles
        /\ g[0] = s /\ \A j \in 1..m + Len(rest) : g[j] = Rendition(g[j - 1], all[j])
    BY <2>6, <2>7 DEF Steps
  <2>9. f[k] = Left(0, g[m])
    <3>1. /\ \A j \in 0..m : g[j] \in Styles
          /\ \A j \in 1..m : g[j] = Rendition(g[j - 1], list[j])
      <4>1. (\A j \in 0..m : j \in 0..m + Len(rest)) /\ (\A j \in 1..m : j \in 1..m + Len(rest))
        BY <2>1, <2>3
      <4> QED BY <2>6, <2>8, <4>1
    <3>2. \A j \in 1..m : Complete(list[j])
      <4>1. \A j \in 1..m : j \in 1..n /\ j # n
        BY <2>1
      <4> QED BY <1>3, <4>1
    <3>3. Leads(g, list, m, s)
      BY <2>8, <3>1, <3>2 DEF Leads
    <3>4. f[starts[m + 1]] = Left(0, g[m])
      BY <1>2, <1>5, <2>1, <3>3, SplitRuns
    <3> QED BY <2>1, <3>4 DEF k
  <2>10. g[m] \in Styles
    BY <2>1, <2>3, <2>8
  <2> DEFINE end == f[Len(params)].style
  <2>11. /\ Len(rest) = 0 => end = g[m]
         /\ Len(rest) = 1 => end = Rendition(g[m], rest[1])
         /\ Len(rest) = 2 => end = Rendition(Rendition(g[m], rest[1]), rest[2])
    BY <1>5, <2>2, <2>9, <2>10, CutRuns DEF rest
  <2> HIDE DEF end
  <2>12. end = g[m + Len(rest)]
    <3>1. CASE Len(rest) = 0
      BY <2>1, <2>11, <3>1
    <3>2. CASE Len(rest) = 1
      <4>1. m + 1 \in 1..m + Len(rest) /\ (m + 1) - 1 = m /\ 1 \in 1..Len(rest)
        BY <2>1, <3>2
      <4>2. g[m + 1] = Rendition(g[m], rest[1])
        BY <2>6, <2>8, <4>1
      <4> QED BY <2>11, <3>2, <4>2
    <3>3. CASE Len(rest) = 2
      <4>1. /\ m + 1 \in 1..m + Len(rest) /\ (m + 1) - 1 = m /\ 1 \in 1..Len(rest)
            /\ m + 2 \in 1..m + Len(rest) /\ (m + 2) - 1 = m + 1 /\ 2 \in 1..Len(rest)
        BY <2>1, <3>3
      <4>2. g[m + 1] = Rendition(g[m], rest[1]) /\ g[m + 2] = Rendition(g[m + 1], rest[2])
        BY <2>6, <2>8, <4>1, ZenonT(40)
      <4> QED BY <2>11, <3>3, <4>2
    <3> QED BY <2>3, <3>1, <3>2, <3>3
  <2> QED BY <1>5, <2>5, <2>6, <2>7, <2>12 DEF end
<1> QED BY <1>6, <1>7

LEMMA CommandStarts ==
  ASSUME NEW p \in Int
  PROVE  Complete(<<p>>) \/ Partial(<<p>>)
  BY DEF Complete, Partial

LEMMA CommandGrows ==
  ASSUME NEW c, Partial(c), NEW p \in Int
  PROVE  Complete(Append(c, p)) \/ Partial(Append(c, p))
<1>1. c \in Seq(Int) /\ c[1] \in {38, 48}
  BY DEF Partial
<1>2. ASSUME NEW n, Len(c) = n
      PROVE  n \in 1..4 /\ (n # 1 => (c[2] = 5 /\ n = 2) \/ (c[2] = 2 /\ n \in 2..4))
  BY <1>2 DEF Partial
<1>3. ASSUME NEW d \in Seq(Int), NEW n \in 1..4, Len(d) = n + 1, d[1] \in {38, 48},
             n # 1 => (d[2] = 5 /\ n = 2) \/ (d[2] = 2 /\ n \in 2..4)
      PROVE  Complete(d) \/ Partial(d)
  BY <1>3 DEF Complete, Partial
<1>4. /\ Append(c, p) \in Seq(Int) /\ Len(Append(c, p)) = Len(c) + 1
      /\ \A i \in 1..Len(c) : Append(c, p)[i] = c[i]
  BY <1>1, AppendProperties
<1>5. /\ Append(c, p)[1] = c[1]
      /\ Len(c) # 1 => Append(c, p)[2] = c[2]
  <2>1. ASSUME NEW n \in 1..4 PROVE 1 \in 1..n /\ (n # 1 => 2 \in 1..n)
    OBVIOUS
  <2> QED BY <1>2, <1>4, <2>1
<1> QED BY <1>1, <1>2, <1>3, <1>4, <1>5

\* A parameter more after the commands moves none of them.
LEMMA StandsStill ==
  ASSUME NEW params \in Seq(Int), NEW p \in Int, NEW c, Len(c) \in Nat, NEW k \in Nat,
         StandsAt(c, params, k)
  PROVE  StandsAt(c, Append(params, p), k)
<1>1. Len(params) \in Nat /\ Len(Append(params, p)) = Len(params) + 1
      /\ \A i \in 1..Len(params) : Append(params, p)[i] = params[i]
  BY LenProperties, AppendProperties
<1>2. k + Len(c) <= Len(params) /\ \A i \in 1..Len(c) : params[k + i] = c[i]
  BY DEF StandsAt
<1>3. ASSUME NEW i \in 1..Len(c) PROVE Append(params, p)[k + i] = c[i]
  <2>1. k + i \in 1..Len(params)
    BY <1>1, <1>2
  <2> QED BY <1>1, <1>2, <2>1
<1> QED BY <1>1, <1>2, <1>3 DEF StandsAt

LEMMA StandsLonger ==
  ASSUME NEW params \in Seq(Int), NEW p \in Int, NEW c \in Seq(Int), NEW k \in Nat,
         StandsAt(c, params, k), k + Len(c) = Len(params)
  PROVE  StandsAt(Append(c, p), Append(params, p), k)
<1> DEFINE d == Append(c, p)
           longer == Append(params, p)
<1>1. /\ Len(params) \in Nat /\ Len(c) \in Nat
      /\ Len(longer) = Len(params) + 1 /\ Len(d) = Len(c) + 1
      /\ longer[Len(params) + 1] = p /\ d[Len(c) + 1] = p
      /\ \A i \in 1..Len(c) : d[i] = c[i]
  BY LenProperties, AppendProperties
<1>2. \A i \in 1..Len(c) : longer[k + i] = c[i]
  BY <1>1, StandsStill DEF StandsAt
<1> HIDE DEF d, longer
<1>3. ASSUME NEW i \in 1..Len(d) PROVE longer[k + i] = d[i]
  <2>1. CASE i = Len(c) + 1
    <3>1. k + i = Len(params) + 1
      BY <1>1, <2>1
    <3> QED BY <1>1, <2>1, <3>1
  <2>2. CASE i # Len(c) + 1
    <3>1. ASSUME NEW n \in Nat, i \in 1..n + 1, i # n + 1 PROVE i \in 1..n
      BY <3>1
    <3>2. i \in 1..Len(c)
      BY <1>1, <2>2, <3>1
    <3> QED BY <1>1, <1>2, <3>2
  <2> QED BY <2>1, <2>2
<1>4. k + Len(d) <= Len(longer)
  BY <1>1
<1> QED BY <1>3, <1>4 DEF StandsAt, d, longer

\* The last command of the list grows by a parameter.
LEMMA SplitsGrowing ==
  ASSUME NEW params \in Seq(Int), NEW list \in Seq(Seq(Int)), list # <<>>, NEW p \in Int,
         Splits(list, params)
  PROVE  Splits([list EXCEPT ![Len(list)] = Append(@, p)], Append(params, p))
<1> DEFINE n == Len(list)
           longer == [list EXCEPT ![n] = Append(@, p)]
<1>1. n \in Nat /\ n >= 1 /\ Len(params) \in Nat /\ Len(Append(params, p)) = Len(params) + 1
  BY LenProperties, EmptySeq, AppendProperties
<1>2. PICK starts : SplitAt(starts, list, params)
  BY DEF Splits
<1>3. \A j \in 1..n : list[j] \in Seq(Int) /\ Len(list[j]) \in Nat
  BY ElementOfSeq, LenProperties
<1>4. /\ Len(longer) = n /\ longer[n] = Append(list[n], p)
      /\ \A j \in 1..n : j # n => longer[j] = list[j]
  BY <1>1, ExceptSeq
<1>5. /\ starts \in [1..n + 1 -> Nat] /\ starts[1] = 0 /\ starts[n + 1] = Len(params)
      /\ \A j \in 1..n : /\ starts[j + 1] = starts[j] + Len(list[j])
                         /\ StandsAt(list[j], params, starts[j])
  BY <1>2 DEF SplitAt
<1> DEFINE moved == [starts EXCEPT ![n + 1] = Len(params) + 1]
<1> HIDE DEF n, longer
<1>6. /\ moved \in [1..n + 1 -> Nat] /\ moved[n + 1] = Len(params) + 1
      /\ \A j \in 1..n : moved[j] = starts[j] /\ (j # n => moved[j + 1] = starts[j + 1])
  BY <1>1, <1>5
<1> HIDE DEF moved
<1>7. ASSUME NEW j \in 1..n
      PROVE  /\ moved[j + 1] = moved[j] + Len(longer[j])
             /\ StandsAt(longer[j], Append(params, p), moved[j])
  <2>1. starts[j] \in Nat /\ moved[j] = starts[j] /\ list[j] \in Seq(Int) /\ Len(list[j]) \in Nat
        /\ starts[j + 1] = starts[j] + Len(list[j]) /\ StandsAt(list[j], params, starts[j])
    BY <1>1, <1>3, <1>5, <1>6
  <2>2. CASE j # n
    <3>1. longer[j] = list[j] /\ moved[j + 1] = starts[j + 1]
      BY <1>4, <1>6, <2>2
    <3>2. StandsAt(list[j], Append(params, p), starts[j])
      BY <2>1, StandsStill
    <3> QED BY <2>1, <3>1, <3>2
  <2>3. CASE j = n
    <3>1. starts[n] + Len(list[n]) = Len(params) /\ longer[n] = Append(list[n], p)
      BY <1>4, <1>5, <2>1, <2>3
    <3>2. Len(longer[n]) = Len(list[n]) + 1
      BY <2>1, <2>3, <3>1, AppendProperties
    <3>3. moved[n + 1] = moved[n] + Len(longer[n])
      <4>1. /\ moved[n + 1] = Len(params) + 1 /\ moved[n] = starts[n]
            /\ Len(params) = starts[n] + Len(list[n])
            /\ starts[n] \in Nat /\ Len(list[n]) \in Nat
        BY <1>6, <2>1, <2>3, <3>1
      <4>2. ASSUME NEW a \in Nat, NEW b \in Nat PROVE (a + b) + 1 = a + (b + 1)
        OBVIOUS
      <4> QED BY <3>2, <4>1, <4>2
    <3>4. StandsAt(Append(list[n], p), Append(params, p), starts[n])
      BY <2>1, <2>3, <3>1, StandsLonger
    <3> QED BY <2>1, <2>3, <3>1, <3>3, <3>4
  <2> QED BY <2>2, <2>3
<1>8. moved[1] = 0
  BY <1>1, <1>5, <1>6
<1>9. SplitAt(moved, longer, Append(params, p))
  BY <1>1, <1>4, <1>6, <1>7, <1>8 DEF SplitAt
<1> QED BY <1>9 DEF Splits, longer, n

\* A command of one parameter follows the list.
LEMMA SplitsFollowed ==
  ASSUME NEW params \in Seq(Int), NEW list \in Seq(Seq(Int)), NEW p \in Int,
         Splits(list, params)
  PROVE  Splits(Append(list, <<p>>), Append(params, p))
<1> DEFINE n == Len(list)
           longer == Append(list, <<p>>)
<1>1. n \in Nat /\ Len(params) \in Nat /\ Len(Append(params, p)) = Len(params) + 1
      /\ Append(params, p)[Len(params) + 1] = p
  BY LenProperties, AppendProperties
<1>2. PICK starts : SplitAt(starts, list, params)
  BY DEF Splits
<1>3. \A j \in 1..n : Len(list[j]) \in Nat
  BY ElementOfSeq, LenProperties
<1>4. /\ Len(longer) = n + 1 /\ longer[n + 1] = <<p>>
      /\ \A j \in 1..n : longer[j] = list[j]
  BY AppendProperties
<1>5. /\ starts \in [1..n + 1 -> Nat] /\ starts[1] = 0 /\ starts[n + 1] = Len(params)
      /\ \A j \in 1..n : /\ starts[j + 1] = starts[j] + Len(list[j])
                         /\ StandsAt(list[j], params, starts[j])
  BY <1>2 DEF SplitAt
<1> DEFINE moved == [j \in 1..(n + 1) + 1 |-> IF j = n + 2 THEN Len(params) + 1 ELSE starts[j]]
<1> HIDE DEF n, longer
<1>6. /\ moved \in [1..(n + 1) + 1 -> Nat] /\ moved[(n + 1) + 1] = Len(params) + 1
      /\ \A j \in 1..n + 1 : moved[j] = starts[j]
  BY <1>1, <1>5
<1> HIDE DEF moved
<1>7. ASSUME NEW j \in 1..n + 1
      PROVE  /\ moved[j + 1] = moved[j] + Len(longer[j])
             /\ StandsAt(longer[j], Append(params, p), moved[j])
  <2>1. CASE j # n + 1
    <3>1. j \in 1..n /\ j + 1 \in 1..n + 1
      BY <1>1, <2>1
    <3>2. longer[j] = list[j] /\ moved[j + 1] = starts[j + 1] /\ moved[j] = starts[j]
          /\ starts[j] \in Nat /\ Len(list[j]) \in Nat
      BY <1>3, <1>4, <1>5, <1>6, <3>1
    <3>3. StandsAt(list[j], Append(params, p), starts[j])
      BY <1>5, <3>1, <3>2, StandsStill
    <3> QED BY <1>5, <3>1, <3>2, <3>3
  <2>2. CASE j = n + 1
    <3>1. longer[j] = <<p>> /\ moved[j] = Len(params) /\ moved[j + 1] = Len(params) + 1
      BY <1>1, <1>4, <1>5, <1>6, <2>2
    <3>2. StandsAt(<<p>>, Append(params, p), Len(params))
      BY <1>1 DEF StandsAt
    <3>3. Len(<<p>>) = 1
      OBVIOUS
    <3> QED BY <3>1, <3>2, <3>3
  <2> QED BY <2>1, <2>2
<1>8. moved[1] = 0
  BY <1>1, <1>5, <1>6
<1>9. SplitAt(moved, longer, Append(params, p))
  BY <1>1, <1>4, <1>6, <1>7, <1>8 DEF SplitAt
<1> QED BY <1>9 DEF Splits, longer, n

LEMMA SplitsNothing == Splits(<<>>, <<>>)
<1>1. SplitAt([j \in 1..1 |-> 0], <<>>, <<>>)
  BY DEF SplitAt
<1> QED BY <1>1 DEF Splits

\* The history splits what is received into commands, of which only the last
\* may wait for more.
CommandInv ==
  /\ style \in Styles /\ received \in Seq(Int) /\ commands \in Seq(Seq(Int))
  /\ Splits(commands, received)
  /\ Commands(commands)

LEMMA CommandInvReceive ==
  ASSUME CommandInv, NEW p \in Parameters, Receive(p)
  PROVE  CommandInv'
<1> DEFINE n == Len(commands)
<1>1. p \in Int /\ n \in Nat
  BY RenditionAssumption, LenProperties DEF CommandInv
<1>2. style' \in Styles /\ received' \in Seq(Int) /\ received' = Append(received, p)
  BY <1>1, AppendProperties DEF CommandInv, Receive
<1>3. CASE commands # <<>> /\ Open(Latest)
  <2>1. commands' = [commands EXCEPT ![n] = Append(@, p)]
    BY <1>3 DEF Receive
  <2>2. n \in 1..n /\ commands[n] \in Seq(Int)
    BY <1>1, <1>3, EmptySeq, ElementOfSeq DEF CommandInv
  <2>3. Partial(commands[n])
    BY <1>3, <2>2, PartialIsOpen DEF CommandInv, Commands, Latest
  <2>4. Append(commands[n], p) \in Seq(Int)
    BY <1>1, <2>2, AppendProperties
  <2>5. /\ commands' \in Seq(Seq(Int)) /\ Len(commands') = n
        /\ commands'[n] = Append(commands[n], p)
        /\ \A j \in 1..n : j # n => commands'[j] = commands[j]
    BY <2>1, <2>2, <2>4, ExceptSeq DEF CommandInv
  <2>6. Splits(commands', received')
    BY <1>1, <1>2, <1>3, <2>1, SplitsGrowing DEF CommandInv
  <2>7. Complete(commands'[n]) \/ Partial(commands'[n])
    BY <1>1, <2>3, <2>5, CommandGrows
  <2>8. \A j \in 1..n : j # n => Complete(commands'[j])
    BY <2>5 DEF CommandInv, Commands
  <2> QED BY <1>2, <2>5, <2>6, <2>7, <2>8 DEF CommandInv, Commands
<1>4. CASE ~(commands # <<>> /\ Open(Latest))
  <2>1. commands' = Append(commands, <<p>>)
    BY <1>4 DEF Receive
  <2>2. <<p>> \in Seq(Int)
    BY <1>1
  <2>3. /\ commands' \in Seq(Seq(Int)) /\ Len(commands') = n + 1
        /\ commands'[n + 1] = <<p>> /\ \A j \in 1..n : commands'[j] = commands[j]
    BY <2>1, <2>2, AppendProperties DEF CommandInv
  <2>4. Splits(commands', received')
    BY <1>1, <1>2, <2>1, SplitsFollowed DEF CommandInv
  <2>5. ASSUME NEW j \in 1..n PROVE Complete(commands'[j])
    <3>1. commands'[j] = commands[j]
      BY <2>3
    <3>2. CASE j # n
      BY <3>1, <3>2 DEF CommandInv, Commands
    <3>3. CASE j = n
      <4>1. commands # <<>>
        BY <1>1, <3>3
      <4>2. ~Open(commands[n])
        BY <1>4, <4>1 DEF Latest
      <4> QED BY <3>1, <3>3, <4>2, PartialIsOpen DEF CommandInv, Commands
    <3> QED BY <3>2, <3>3
  <2>6. Complete(commands'[n + 1]) \/ Partial(commands'[n + 1])
    BY <1>1, <2>3, CommandStarts
  <2>7. \A j \in 1..n + 1 : j \in 1..n \/ j = n + 1
    BY <1>1
  <2> QED BY <1>2, <2>3, <2>4, <2>5, <2>6, <2>7 DEF CommandInv, Commands
<1> QED BY <1>3, <1>4

(* A sequence means what its commands mean one after another, whatever its *)
(* parameters and however many: those of a complete colour are never taken *)
(* for attributes, nothing after it is swallowed, and a colour cut short   *)
(* loses introducer and mode and nothing more                              *)
(* (terminal_state.cpp:157-201,400-426).                                   *)
THEOREM SequencesAreTheirCommands == RSpec => SequenceIsItsCommands
<1>1. RInit => CommandInv
  BY DefaultStyled, EmptySeq, SplitsNothing DEF RInit, CommandInv, Commands
<1>2. CommandInv /\ [RNext]_rvars => CommandInv'
  <2> SUFFICES ASSUME CommandInv, [RNext]_rvars PROVE CommandInv'
    OBVIOUS
  <2>1. ASSUME NEW p \in Parameters, Receive(p) PROVE CommandInv'
    BY <2>1, CommandInvReceive
  <2>2. CASE Execute
    <3>1. style' \in Styles /\ received' = <<>> /\ commands' = <<>>
      BY <2>2, RenditionStyled DEF Execute, CommandInv
    <3> QED BY <3>1, EmptySeq, SplitsNothing DEF CommandInv, Commands
  <2>3. CASE UNCHANGED rvars
    BY <2>3 DEF rvars, CommandInv, Commands
  <2> QED BY <2>1, <2>2, <2>3 DEF RNext
<1>3. CommandInv /\ [RNext]_rvars
        => [Execute => style' = IF commands = <<>> THEN DefaultStyle
                                ELSE Meaning(style, Resolved(commands))]_rvars
  <2> SUFFICES ASSUME CommandInv, Execute
               PROVE  style' = IF commands = <<>> THEN DefaultStyle
                               ELSE Meaning(style, Resolved(commands))
    BY DEF rvars
  <2>1. style' = Rendition(style, received)
    BY DEF Execute
  <2>2. CASE commands # <<>>
    <3>1. Rendition(style, received) = Meaning(style, Resolved(commands))
      BY <2>2, SplitMeaning DEF CommandInv
    <3> QED BY <2>1, <2>2, <3>1
  <2>3. CASE commands = <<>>
    <3>1. received = <<>>
      <4>1. PICK starts : SplitAt(starts, <<>>, received)
        BY <2>3 DEF CommandInv, Splits
      <4>2. Len(received) = 0
        BY <4>1 DEF SplitAt
      <4> QED BY <4>2, EmptySeq DEF CommandInv
    <3>2. Rendition(style, <<>>) = Rendition(style, <<0>>)
      BY DEF Rendition
    <3>3. Rendition(style, <<0>>) = DefaultStyle
      <4>1. Complete(<<0>>)
        BY DEF Complete
      <4>2. Effect(style, <<0>>) = DefaultStyle
        BY DEF Effect, Plain
      <4> QED BY <4>1, <4>2, CommandAlone DEF CommandInv
    <3> QED BY <2>1, <2>3, <3>1, <3>2, <3>3
  <2> QED BY <2>2, <2>3
<1> QED BY <1>1, <1>2, <1>3, PTL DEF RSpec, SequenceIsItsCommands
=============================================================================

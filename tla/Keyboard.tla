------------------------------ MODULE Keyboard ------------------------------
(***************************************************************************)
(* What SpencerApplication::key_pressed() sends for a key.  A press is the *)
(* key's name, the character gdk_keyval_to_unicode() gives for it (0 when  *)
(* it gives none), and whether Control and Alt are held.                   *)
(***************************************************************************)
EXTENDS Integers, Sequences

Escape == 27
Csi(letter) == <<Escape, 91, letter>>
Ss3(letter) == <<Escape, 79, letter>>
Tilde(digits) == <<Escape, 91>> \o digits \o <<126>>

Named ==
  [Return |-> <<13>>, KP_Enter |-> <<13>>, BackSpace |-> <<127>>, Tab |-> <<9>>,
   Escape |-> <<Escape>>,
   Up |-> Csi(65), Down |-> Csi(66), Right |-> Csi(67), Left |-> Csi(68),
   Home |-> Csi(72), End |-> Csi(70),
   Insert |-> Tilde(<<50>>), Delete |-> Tilde(<<51>>),
   F1 |-> Ss3(80), F2 |-> Ss3(81), F3 |-> Ss3(82), F4 |-> Ss3(83),
   F5 |-> Tilde(<<49, 53>>), F6 |-> Tilde(<<49, 55>>), F7 |-> Tilde(<<49, 56>>),
   F8 |-> Tilde(<<49, 57>>), F9 |-> Tilde(<<50, 48>>), F10 |-> Tilde(<<50, 49>>)]

\* g_unichar_to_utf8()
Utf8(c) ==
  LET Six(shift) == 128 + ((c \div shift) % 64) IN
  CASE c < 128 -> <<c>>
    [] c \in 128..2047 -> <<192 + (c \div 64), Six(1)>>
    [] c \in 2048..65535 -> <<224 + (c \div 4096), Six(64), Six(1)>>
    [] OTHER -> <<240 + (c \div 262144), Six(4096), Six(64), Six(1)>>

\* g_ascii_tolower(character) & 0x1F; upper and lower case agree there.  The
\* result 0, of Control and a space or an @, leaves the sequence empty.
Controlled(character) == IF character % 32 = 0 THEN <<>> ELSE <<character % 32>>

Characters(press) ==
  CASE press.character = 0 -> <<>>
    [] press.control /\ press.character \in 1..127 -> Controlled(press.character)
    [] OTHER -> Utf8(press.character)

IsNamed(press) == press.key \in DOMAIN Named
IsSent(press) == IsNamed(press) \/ press.character # 0

\* Alt puts an ESC in front, also of nothing; the Escape key is the exception.
Sequence(press) ==
  LET plain == IF IsNamed(press) THEN Named[press.key] ELSE Characters(press)
  IN IF press.alt /\ press.key # "Escape" /\ IsSent(press)
     THEN <<Escape>> \o plain ELSE plain
=============================================================================

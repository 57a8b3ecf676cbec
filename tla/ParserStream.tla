---------------------------- MODULE ParserStream ----------------------------
(***************************************************************************)
(* TerminalParser reading the output of a shell, with two history          *)
(* variables a reader of the byte stream would keep: the bytes that came   *)
(* after the introducer of the open sequence, and which introducer it was. *)
(* The parser keeps neither, it keeps what its buffers hold.               *)
(***************************************************************************)
EXTENDS TerminalParser

VARIABLES
  body,    \* history: bytes since the introducer, without the controls that
           \* a CSI sequence executes in passing, and at most BodyBound
  opened,  \* history: the string being received, until its terminator
  recent   \* history: "esc" after ESC, "nf" after ESC and an intermediate

svars == <<vars, body, opened, recent>>

\* Long enough to show one byte more than the buffers can hold.
BodyBound == MaxSequenceBytes + 1

\* The sequences the parser is inside of, and those whose bytes it keeps.
Inside == {"Csi"} \cup StringStates
Buffering == {"Csi", "Osc", "OscEscape"}
Begins == state_ \notin Inside /\ state_' \in Inside

KindOf(s) == CASE s = "Osc" -> "osc" [] s = "String" -> "string" [] OTHER -> "none"

\* What ends a string for a reader of ECMA-48: CAN, SUB and ST, also in its
\* seven-bit form ESC \, and BEL for the strings of OSC.
Terminates(byte) ==
  \/ byte \in Cancels \cup {StringTerminator}
  \/ opened = "osc" /\ byte = Bell
  \/ recent = "esc" /\ byte = Backslash

Hear(byte) ==
  /\ ProcessByte(byte)
  /\ body' = IF Begins \/ state_' \notin Buffering THEN <<>>
             ELSE IF Len(body) = BodyBound \/ (state_ = "Csi" /\ byte \in C0)
             THEN body ELSE Append(body, byte)
  /\ opened' = IF Begins THEN KindOf(state_')
               ELSE IF Terminates(byte) THEN "none" ELSE opened
  /\ recent' = IF byte = Esc THEN "esc"
               ELSE IF recent = "esc" /\ byte \in IntermediateBytes THEN "nf"
               ELSE "other"

Fresh == body' = <<>> /\ opened' = "none" /\ recent' = "other"

FlushStream == Flush /\ Fresh
ResetStream == Reset /\ Fresh

StreamInit == ParserInit /\ body = <<>> /\ opened = "none" /\ recent = "other"
StreamNext == (\E byte \in Bytes : Hear(byte)) \/ FlushStream \/ ResetStream
StreamSpec == StreamInit /\ [][StreamNext]_svars

-----------------------------------------------------------------------------
\* The bytes of a CSI sequence that the buffer is for.
Collected == 32..63

Prefix(s, n) == SubSeq(s, 1, Lesser(n, Len(s)))

Distances == {"cursor_up", "cursor_down", "cursor_forward", "cursor_back"}
Absolutes == {"cursor_position", "erase_in_display", "erase_in_line"}

(* Types: only parameter and intermediate bytes are collected, the decoder *)
(* awaits at most three bytes, and no byte makes more than two calls       *)
(* (terminal_parser.hpp:50-56).                                            *)
ParserTypeOK ==
  /\ state_ \in States
  /\ parameters_ \in Seq(Collected)
  /\ osc_payload_ \in Seq(0..255)
  /\ private_mode_ \in BOOLEAN
  /\ accumulator_ \in Nat /\ minimum_value_ \in Nat /\ remaining_ \in 0..3
  /\ emitted \in Seq(Nat) /\ Len(emitted) <= 2
  /\ Len(ops) <= 2
  /\ opened \in {"none", "osc", "string"} /\ recent \in {"other", "esc", "nf"}
  /\ body \in Seq(0..255) /\ Len(body) <= BodyBound

(* SECURITY.md:18, "CSI parameter count and OSC/string payloads are        *)
(* bounded": whatever arrives, in whatever order the states are visited,   *)
(* neither buffer outgrows kMaximumSequenceBytes, the two-byte append of   *)
(* an ESC inside an OSC string included (terminal_parser.cpp:136,165,191). *)
BuffersBounded ==
  Len(parameters_) <= MaxSequenceBytes /\ Len(osc_payload_) <= MaxSequenceBytes

(* A sequence is executed with its own bytes only: while one is open, the  *)
(* buffers hold what arrived since its introducer, an excess of            *)
(* intermediates left out, and nothing of an earlier sequence, however  *)
(* that one ended (clear_sequence_buffers() and the paths without it,      *)
(* terminal_parser.cpp:198-208,281-286); '?' in front means private mode.  *)
BuffersHoldSequence ==
  /\ state_ = "Csi" =>
       /\ osc_payload_ = <<>>
       /\ parameters_ = Prefix(body, MaxSequenceBytes)
       /\ private_mode_ = (parameters_ # <<>> /\ parameters_[1] = Question)
  /\ state_ = "Osc" => osc_payload_ = body
  /\ state_ = "OscEscape" => Append(osc_payload_, Esc) = body
  /\ state_ \in {"Osc", "OscEscape"} => parameters_ = <<>> /\ ~private_mode_

(* The decoder holds half a character only in Ground: every introducer     *)
(* flushes it first (terminal_parser.cpp:79-94), so that no character is   *)
(* completed by bytes on both sides of a sequence.                         *)
DecoderIdleInSequence == state_ # "Ground" => remaining_ = 0

(* "DCS/APC/PM strings are safely ignored until ST" and OSC strings set    *)
(* titles (docs/terminal-compatibility.md:17-18): from its introducer to   *)
(* its terminator nothing of a string reaches the screen, with any bytes   *)
(* inside, ESC and those of other introducers included, and also past the  *)
(* length bound (terminal_parser.cpp:157-212).                             *)
StringsAreSilent ==
  [][(opened # "none") => \A i \in DOMAIN ops' : ops'[i].op = "set_title"]_svars

(* A title is the whole text between "OSC 0 ;" or "OSC 2 ;" and the        *)
(* terminator: an overlong string sets no title rather than a cut one      *)
(* (terminal_parser.cpp:157-196,253-264).                                  *)
TitleIsWhole ==
  [][\A i \in DOMAIN ops' : ops'[i].op = "set_title" =>
       \E kind \in {48, 50} :
         <<kind, Semicolon>> \o ops'[i].args =
           IF state_ = "OscEscape" THEN SubSeq(body, 1, Len(body) - 1) ELSE body]_svars

(* The screen is never asked to move by nothing or to a negative place,    *)
(* and never gets more than kMaximumParameterCount parameters, for empty,  *)
(* malformed, out-of-range and surplus parameters alike                    *)
(* (terminal_parser.cpp:214-238,288-325).                                  *)
ArgumentsInRange ==
  \A i \in DOMAIN ops :
    /\ ops[i].op \in Distances => ops[i].args[1] \in 1..IntMax
    /\ ops[i].op \in Absolutes => \A j \in DOMAIN ops[i].args : ops[i].args[j] \in 0..IntMax
    /\ ops[i].op \in {"set_graphics_rendition", "private_mode_on", "private_mode_off"}
         => Len(ops[i].args) <= MaxParameterCount

-----------------------------------------------------------------------------
\* What the documents say and the code does not do; each has a run of its own.

(* "ASCII and UTF-8 scalar decoding" (docs/terminal-compatibility.md:9): a *)
(* continuation byte of a character being received belongs to it, it is    *)
(* not the introducer of a control sequence.                               *)
CharactersStayWhole ==
  [][\A byte \in Bytes \cap (128..191) :
       remaining_ > 0 /\ Hear(byte) => state_' = "Ground"]_svars

(* "the parser safely ignores unsupported commands" (line 22): the final   *)
(* byte of an unsupported escape sequence with an intermediate, such as    *)
(* the character-set selection ESC ( B, is not text.                       *)
UnsupportedEscapeSilent ==
  [][\A byte \in Bytes \cap (48..126) :
       recent = "nf" /\ Hear(byte)
         => \A i \in DOMAIN ops' : ops'[i].op # "print"]_svars
=============================================================================

--------------------------- MODULE TerminalParser ---------------------------
(***************************************************************************)
(* spencer::parser::TerminalParser: the byte-driven recogniser of ECMA-48  *)
(* control sequences.  Every byte of the shell's output goes through       *)
(* process_byte(); what the byte makes the parser call on                  *)
(* TerminalOperations, in order, is the value of  ops  after the step.     *)
(* The member sequence_bytes_ is only ever set to 0 and never read.        *)
(***************************************************************************)
EXTENDS Integers, Sequences

CONSTANTS
  Bytes,              \* the bytes that may arrive
  MaxSequenceBytes,   \* kMaximumSequenceBytes
  MaxParameterCount,  \* kMaximumParameterCount
  IntMax              \* INT_MAX, where std::from_chars reports out_of_range

ASSUME ParserAssumption ==
  /\ Bytes \subseteq 0..255
  /\ MaxSequenceBytes \in Nat \ {0}
  /\ MaxParameterCount \in Nat \ {0}
  /\ IntMax \in Nat \ {0}

VARIABLES
  state_,                        \* one of States
  parameters_,                   \* bytes of the open CSI sequence
  osc_payload_,                  \* bytes of the open OSC string
  private_mode_,                 \* the CSI sequence began with '?'
  accumulator_, minimum_value_, remaining_, emitted,  \* decoder_
  ops                            \* calls on operations_ made by the last step

Decoder == INSTANCE Utf8Decoder

buffers == <<parameters_, osc_payload_, private_mode_>>
decoder == <<accumulator_, minimum_value_, remaining_, emitted>>
vars == <<state_, buffers, decoder, ops>>

States == {"Ground", "Escape", "Csi", "Osc", "OscEscape", "String", "StringEscape"}
StringStates == {"Osc", "OscEscape", "String", "StringEscape"}

Bell == 7
Cancels == {24, 26}        \* CAN, SUB
Esc == 27
Semicolon == 59
Question == 63
Backslash == 92
CsiIntroducer == 155       \* the 8-bit forms of CSI, OSC, DCS and ST
OscIntroducer == 157
DcsIntroducer == 144
StringTerminator == 156

C0 == 0..31 \cup {127}
\* Faulty variant of ParameterBytes: '@' counts as a parameter.
ParameterBytesAndOne == 48..64

ParameterBytes == 48..63
IntermediateBytes == 32..47
FinalBytes == 64..126

Call(name, args) == [op |-> name, args |-> args]
Prints(codepoints) == [i \in DOMAIN codepoints |-> Call("print", <<codepoints[i]>>)]
Control(byte) == Call("execute_control", <<byte>>)

-----------------------------------------------------------------------------
\* parse_parameters(): the fields between semicolons, at most
\* MaxParameterCount of them.

Lesser(a, b) == IF a < b THEN a ELSE b
Greater(a, b) == IF a > b THEN a ELSE b

Fields(s) ==
  LET Split(fields, b) == IF b = Semicolon THEN Append(fields, <<>>)
                          ELSE [fields EXCEPT ![Len(fields)] = Append(@, b)]
      upTo[n \in 0..Len(s)] == IF n = 0 THEN << <<>> >> ELSE Split(upTo[n - 1], s[n])
  IN upTo[Len(s)]

\* std::from_chars over the whole field, -1 when it fails.  '-' may come
\* first; every negative value is treated alike by the callers.
FieldValue(field) ==
  LET negative == field # <<>> /\ field[1] = 45
      digits == IF negative THEN Tail(field) ELSE field
      upTo[n \in 0..Len(digits)] ==
        IF n = 0 THEN 0 ELSE Lesser(10 * upTo[n - 1] + (digits[n] - 48), IntMax + 1)
      value == upTo[Len(digits)]
  IN CASE digits = <<>> \/ \E i \in DOMAIN digits : digits[i] \notin 48..57 -> -1
       [] OTHER -> IF value > IntMax THEN -1 ELSE IF negative THEN -value ELSE value

ParseParameters(bytes) ==
  IF bytes = <<>> THEN <<>>
  ELSE LET fields == Fields(IF bytes[1] = Question THEN Tail(bytes) ELSE bytes)
       IN [i \in 1..Lesser(Len(fields), MaxParameterCount) |-> FieldValue(fields[i])]

ParameterOrDefault(params, i, default) ==
  IF i > Len(params) THEN default
  ELSE IF params[i] < 0 THEN default ELSE params[i]

\* Faulty variant of Count: the number as it was typed.
CountUnclamped(params, i) == ParameterOrDefault(params, i, 1)

Count(params, i) == Greater(1, ParameterOrDefault(params, i, 1))

\* execute_csi(): 'A' to 'D', 'H' and 'f', 'J', 'K', 'm', 'h', 'l', 's', 'u'.
ExecuteCsi(final) ==
  LET params == ParseParameters(parameters_)
      mode == ParameterOrDefault(params, 1, 0)
  IN CASE final = 65 -> <<Call("cursor_up", <<Count(params, 1)>>)>>
       [] final = 66 -> <<Call("cursor_down", <<Count(params, 1)>>)>>
       [] final = 67 -> <<Call("cursor_forward", <<Count(params, 1)>>)>>
       [] final = 68 -> <<Call("cursor_back", <<Count(params, 1)>>)>>
       [] final \in {72, 102} ->
            <<Call("cursor_position", <<Count(params, 1) - 1, Count(params, 2) - 1>>)>>
       [] final = 74 -> <<Call("erase_in_display", <<mode>>)>>
       [] final = 75 -> <<Call("erase_in_line", <<mode>>)>>
       [] final = 109 -> <<Call("set_graphics_rendition", params)>>
       [] final = 104 /\ private_mode_ -> <<Call("private_mode_on", params)>>
       [] final = 108 /\ private_mode_ -> <<Call("private_mode_off", params)>>
       [] final = 115 -> <<Call("save_cursor", <<>>)>>
       [] final = 117 -> <<Call("restore_cursor", <<>>)>>
       [] OTHER -> <<>>

\* execute_osc(): the text before the first ';' must be "0" or "2".
ExecuteOsc ==
  IF /\ Len(osc_payload_) >= 2
     /\ osc_payload_[1] \in {48, 50}
     /\ osc_payload_[2] = Semicolon
  THEN <<Call("set_title", SubSeq(osc_payload_, 3, Len(osc_payload_)))>>
  ELSE <<>>

-----------------------------------------------------------------------------
ClearSequenceBuffers ==
  parameters_' = <<>> /\ osc_payload_' = <<>> /\ private_mode_' = FALSE

\* Faulty variant of Enter: the buffers keep the previous sequence.
EnterUncleared(s) == state_' = s /\ UNCHANGED buffers

Enter(s) == state_' = s /\ ClearSequenceBuffers
GoTo(s) == state_' = s /\ UNCHANGED buffers

\* Faulty variant of FlushDecoder: a half-received character stays open.
LeaveDecoder == Decoder!Idle /\ ops' = <<>>

FlushDecoder == Decoder!Flush /\ ops' = Prints(emitted')

ProcessGround(byte) ==
  \/ byte = Esc /\ FlushDecoder /\ GoTo("Escape")
  \/ byte = CsiIntroducer /\ FlushDecoder /\ Enter("Csi")
  \/ byte = OscIntroducer /\ FlushDecoder /\ Enter("Osc")
  \/ byte = DcsIntroducer /\ FlushDecoder /\ Enter("String")
  \/ /\ byte \in C0 \ {Esc}
     /\ Decoder!Idle /\ ops' = <<Control(byte)>> /\ GoTo("Ground")
  \/ /\ byte \notin C0 \cup {CsiIntroducer, OscIntroducer, DcsIntroducer}
     /\ Decoder!Feed(byte) /\ ops' = Prints(emitted') /\ GoTo("Ground")

\* ESC 7, 8, c, D and E; any other byte ends the sequence without effect.
EscapeCalls(byte) ==
  CASE byte = 55 -> <<Call("save_cursor", <<>>)>>
    [] byte = 56 -> <<Call("restore_cursor", <<>>)>>
    [] byte = 99 -> <<Call("reset", <<>>)>>
    [] byte = 68 -> <<Control(10)>>
    [] byte = 69 -> <<Control(10), Control(13)>>
    [] OTHER -> <<>>

ProcessEscape(byte) ==
  /\ Decoder!Idle
  /\ ops' = EscapeCalls(byte)
  /\ \/ byte = 91 /\ Enter("Csi")
     \/ byte = 93 /\ Enter("Osc")
     \/ byte \in {80, 94, 95} /\ Enter("String")
     \/ byte \notin {80, 91, 93, 94, 95} /\ GoTo("Ground")

\* Faulty variant of Room: off by one.
RoomForOneMore == Len(parameters_) <= MaxSequenceBytes

\* parameters_.push_back() where there is room.
Room == Len(parameters_) < MaxSequenceBytes

Collect(byte) ==
  /\ parameters_' = Append(parameters_, byte)
  /\ UNCHANGED <<state_, osc_payload_, private_mode_>>

ProcessCsi(byte) ==
  LET marker == byte = Question /\ parameters_ = <<>> IN
  /\ Decoder!Idle
  /\ \/ /\ marker
        /\ private_mode_' = TRUE /\ parameters_' = <<Question>>
        /\ ops' = <<>> /\ UNCHANGED <<state_, osc_payload_>>
     \/ byte \in C0 /\ ops' = <<Control(byte)>> /\ GoTo("Csi")
     \/ /\ byte \in ParameterBytes /\ ~marker /\ ops' = <<>>
        /\ IF Room THEN Collect(byte) ELSE Enter("Ground")
     \/ /\ byte \in IntermediateBytes /\ ops' = <<>>
        /\ IF Room THEN Collect(byte) ELSE GoTo("Csi")
     \/ byte \in FinalBytes /\ ops' = ExecuteCsi(byte) /\ Enter("Ground")
     \/ byte \in 128..255 /\ ops' = <<>> /\ Enter("Ground")

\* Faulty variant of Payload: a full buffer keeps the beginning of the string.
PayloadTruncated(bytes) ==
  /\ IF Len(osc_payload_) + Len(bytes) <= MaxSequenceBytes
     THEN osc_payload_' = osc_payload_ \o bytes ELSE UNCHANGED osc_payload_
  /\ state_' = "Osc" /\ UNCHANGED <<parameters_, private_mode_>>

\* osc_payload_ grows by the given bytes, or the rest of the string is
\* ignored in state String, the payload staying as it is.
Payload(bytes) ==
  IF Len(osc_payload_) + Len(bytes) <= MaxSequenceBytes
  THEN /\ osc_payload_' = osc_payload_ \o bytes
       /\ state_' = "Osc" /\ UNCHANGED <<parameters_, private_mode_>>
  ELSE GoTo("String")

ProcessOsc(byte) ==
  /\ Decoder!Idle
  /\ \/ /\ IF state_ = "OscEscape" THEN byte = Backslash
           ELSE byte \in {Bell, StringTerminator}
        /\ ops' = ExecuteOsc /\ Enter("Ground")
     \/ /\ state_ = "OscEscape" /\ byte # Backslash
        /\ ops' = <<>> /\ Payload(<<Esc, byte>>)
     \/ state_ = "Osc" /\ byte = Esc /\ ops' = <<>> /\ GoTo("OscEscape")
     \/ /\ state_ = "Osc" /\ byte \notin {Bell, Esc, StringTerminator}
        /\ ops' = <<>> /\ Payload(<<byte>>)

\* Faulty variant of ProcessString: any byte after ESC ends the string.
ProcessStringLeaky(byte) ==
  /\ Decoder!Idle /\ ops' = <<>>
  /\ \/ state_ = "StringEscape" /\ GoTo("Ground")
     \/ state_ = "String" /\ byte = Esc /\ GoTo("StringEscape")
     \/ state_ = "String" /\ byte = StringTerminator /\ GoTo("Ground")
     \/ /\ state_ = "String" /\ byte \notin {Esc, StringTerminator}
        /\ GoTo("String")

ProcessString(byte) ==
  /\ Decoder!Idle /\ ops' = <<>>
  /\ \/ state_ = "StringEscape" /\ byte = Backslash /\ GoTo("Ground")
     \/ state_ = "StringEscape" /\ byte # Backslash /\ GoTo("String")
     \/ state_ = "String" /\ byte = Esc /\ GoTo("StringEscape")
     \/ state_ = "String" /\ byte = StringTerminator /\ GoTo("Ground")
     \/ /\ state_ = "String" /\ byte \notin {Esc, StringTerminator}
        /\ GoTo("String")

\* CAN and SUB abort whatever is open; every other byte goes to its state.
ProcessByte(byte) ==
  \/ byte \in Cancels /\ FlushDecoder /\ Enter("Ground")
  \/ /\ byte \notin Cancels
     /\ \/ state_ = "Ground" /\ ProcessGround(byte)
        \/ state_ = "Escape" /\ ProcessEscape(byte)
        \/ state_ = "Csi" /\ ProcessCsi(byte)
        \/ state_ \in {"Osc", "OscEscape"} /\ ProcessOsc(byte)
        \/ state_ \in {"String", "StringEscape"} /\ ProcessString(byte)

\* flush() and reset() of the public interface.
Flush ==
  /\ FlushDecoder
  /\ IF state_ # "Ground" THEN Enter("Ground") ELSE GoTo("Ground")

Reset == Decoder!Reset /\ ops' = <<>> /\ Enter("Ground")

ParserInit ==
  /\ state_ = "Ground" /\ parameters_ = <<>> /\ osc_payload_ = <<>>
  /\ private_mode_ = FALSE /\ Decoder!Init /\ ops = <<>>

ParserNext == (\E byte \in Bytes : ProcessByte(byte)) \/ Flush \/ Reset

ParserSpec == ParserInit /\ [][ParserNext]_vars
=============================================================================

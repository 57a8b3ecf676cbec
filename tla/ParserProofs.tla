---------------------------- MODULE ParserProofs ----------------------------
(***************************************************************************)
(* Proofs about the parser for every set of bytes, every size of the       *)
(* buffers and every number of parameters: whatever stream arrives, what   *)
(* the buffers hold, that strings stay away from the screen and that the   *)
(* screen is asked for nothing out of range.                               *)
(***************************************************************************)
EXTENDS ParserStream, Induction, TLAPS, SequenceTheorems

-----------------------------------------------------------------------------
(***************************************************************************)
(* The control part: the state, the decoder and the two histories, without *)
(* the contents of the buffers.                                            *)
(***************************************************************************)

\* A reader who is inside a string finds the parser inside one, and knows
\* whether the last byte was an ESC whenever that matters to the parser.
ReaderAgrees ==
  /\ opened \in {"none", "osc", "string"}
  /\ opened # "none" => state_ \in StringStates
  /\ opened = "string" => state_ \in {"String", "StringEscape"}
  /\ state_ \in {"OscEscape", "StringEscape"} => recent = "esc"

ControlInv == state_ \in States /\ remaining_ \in 0..3 /\ DecoderIdleInSequence /\ ReaderAgrees

Silent(calls) == \A i \in DOMAIN calls : calls[i].op = "set_title"

LEMMA ControlInit == StreamInit => ControlInv
  BY DEF StreamInit, ParserInit, Decoder!Init, ControlInv, States, DecoderIdleInSequence, ReaderAgrees

LEMMA DecoderStep ==
  ASSUME remaining_ \in 0..3
  PROVE  /\ \A byte : Decoder!Feed(byte) => remaining_' \in 0..3
         /\ Decoder!Idle => UNCHANGED remaining_
         /\ Decoder!Flush \/ Decoder!Reset => remaining_' = 0
  BY DEF Decoder!Feed, Decoder!Lead, Decoder!Continue, Decoder!Open, Decoder!Clear,
    Decoder!Idle, Decoder!Flush, Decoder!Reset

\* With nothing half received a flush of the decoder calls nothing.
LEMMA IdleFlush ==
  ASSUME remaining_ = 0, FlushDecoder
  PROVE  ops' = <<>>
  BY DEF FlushDecoder, Decoder!Flush, Prints

LEMMA GroundStep ==
  ASSUME ControlInv, NEW byte \in 0..255, state_ = "Ground", ProcessGround(byte)
  PROVE  /\ state_' \in {"Ground", "Escape", "Csi", "Osc", "String"}
         /\ remaining_' \in 0..3 /\ (state_' # "Ground" => remaining_' = 0)
  BY DecoderStep DEF ProcessGround, FlushDecoder, GoTo, Enter, ControlInv

LEMMA EscapeStep ==
  ASSUME ControlInv, NEW byte \in 0..255, state_ = "Escape", ProcessEscape(byte)
  PROVE  /\ state_' \in {"Ground", "Csi", "Osc", "String"}
         /\ remaining_' = 0
  BY DecoderStep DEF ProcessEscape, GoTo, Enter, ControlInv, DecoderIdleInSequence

LEMMA CsiStep ==
  ASSUME ControlInv, NEW byte \in 0..255, state_ = "Csi", ProcessCsi(byte)
  PROVE  /\ state_' \in {"Ground", "Csi"}
         /\ remaining_' = 0
  BY DecoderStep DEF ProcessCsi, Collect, GoTo, Enter, ControlInv, DecoderIdleInSequence

LEMMA OscStep ==
  ASSUME ControlInv, NEW byte \in 0..255, state_ \in {"Osc", "OscEscape"}, ProcessOsc(byte)
  PROVE  /\ state_' \in {"Osc", "OscEscape", "String", "Ground"}
         /\ state_' = "OscEscape" => byte = Esc
         /\ state_' = "Ground" =>
              \/ state_ = "OscEscape" /\ byte = Backslash
              \/ byte \in {Bell, StringTerminator}
         /\ remaining_' = 0 /\ Silent(ops')
<1>1. remaining_' = 0
  BY DecoderStep DEF ProcessOsc, ControlInv, DecoderIdleInSequence
<1>2. Silent(ops')
  <2>1. ops' = <<>> \/ ops' = ExecuteOsc
    BY DEF ProcessOsc
  <2>2. Silent(<<>>) /\ Silent(ExecuteOsc)
    BY DEF Silent, ExecuteOsc, Call
  <2> QED BY <2>1, <2>2
<1> QED BY <1>1, <1>2 DEF ProcessOsc, Payload, GoTo, Enter

LEMMA StringStep ==
  ASSUME ControlInv, NEW byte \in 0..255, state_ \in {"String", "StringEscape"},
         ProcessString(byte)
  PROVE  /\ state_' \in {"String", "StringEscape", "Ground"}
         /\ state_' = "StringEscape" => byte = Esc
         /\ state_' = "Ground" =>
              (state_ = "StringEscape" /\ byte = Backslash) \/ byte = StringTerminator
         /\ remaining_' = 0 /\ ops' = <<>>
  BY DecoderStep DEF ProcessString, GoTo, ControlInv, DecoderIdleInSequence

LEMMA CancelStep ==
  ASSUME ControlInv, FlushDecoder, Enter("Ground")
  PROVE  state_' = "Ground" /\ remaining_' = 0 /\ (opened # "none" => ops' = <<>>)
  BY DecoderStep, IdleFlush
    DEF FlushDecoder, Enter, ControlInv, DecoderIdleInSequence, ReaderAgrees, StringStates

LEMMA ControlHear ==
  ASSUME ControlInv, NEW byte \in Bytes, Hear(byte)
  PROVE  ControlInv' /\ (opened # "none" => Silent(ops'))
<1>0. byte \in 0..255 /\ ProcessByte(byte)
  BY ParserAssumption DEF Hear
<1>1. /\ opened' = IF Begins THEN KindOf(state_')
                   ELSE IF Terminates(byte) THEN "none" ELSE opened
      /\ byte = Esc => recent' = "esc"
  BY DEF Hear
<1>2. Silent(<<>>)
  BY DEF Silent
<1>3. CASE byte \in Cancels
  <2>1. FlushDecoder /\ Enter("Ground")
    BY <1>0, <1>3 DEF ProcessByte
  <2>2. state_' = "Ground" /\ remaining_' = 0 /\ (opened # "none" => ops' = <<>>)
    BY <2>1, CancelStep
  <2>3. opened' = "none"
    BY <1>1, <1>3, <2>2 DEF Begins, Inside, StringStates, Terminates
  <2> QED BY <1>2, <2>2, <2>3 DEF ControlInv, States, DecoderIdleInSequence, ReaderAgrees
<1>4. CASE state_ = "Ground" /\ ProcessGround(byte)
  BY <1>0, <1>1, <1>4, GroundStep DEF ControlInv, States, DecoderIdleInSequence, ReaderAgrees,
    Begins, Inside, StringStates, KindOf
<1>5. CASE state_ = "Escape" /\ ProcessEscape(byte)
  BY <1>0, <1>1, <1>5, EscapeStep DEF ControlInv, States, DecoderIdleInSequence, ReaderAgrees,
    Begins, Inside, StringStates, KindOf
<1>6. CASE state_ = "Csi" /\ ProcessCsi(byte)
  BY <1>0, <1>1, <1>6, CsiStep DEF ControlInv, States, DecoderIdleInSequence, ReaderAgrees,
    Begins, Inside, StringStates
<1>7. CASE state_ \in {"Osc", "OscEscape"} /\ ProcessOsc(byte)
  BY <1>0, <1>1, <1>7, OscStep DEF ControlInv, States, DecoderIdleInSequence, ReaderAgrees,
    Begins, Inside, StringStates, Terminates
<1>8. CASE state_ \in {"String", "StringEscape"} /\ ProcessString(byte)
  <2>1. byte \in 0..255 /\ ControlInv
    BY <1>0
  <2>2. /\ state_' \in {"String", "StringEscape", "Ground"}
        /\ state_' = "StringEscape" => byte = Esc
        /\ state_' = "Ground" =>
             (state_ = "StringEscape" /\ byte = Backslash) \/ byte = StringTerminator
        /\ remaining_' = 0 /\ ops' = <<>>
    BY <1>8, <2>1, StringStep
  <2>3. ~Begins
    BY <1>8 DEF Begins, Inside, StringStates
  <2>4. opened' = IF Terminates(byte) THEN "none" ELSE opened
    BY <1>1, <2>3
  <2>5. state_' = "Ground" => opened' = "none"
    BY <1>8, <2>1, <2>2, <2>4 DEF Terminates, ControlInv, ReaderAgrees
  <2>6. ReaderAgrees'
    BY <1>1, <1>8, <2>1, <2>2, <2>4, <2>5 DEF ControlInv, ReaderAgrees, StringStates
  <2> QED BY <1>2, <2>2, <2>6 DEF ControlInv, States, DecoderIdleInSequence
<1> QED BY <1>0, <1>3, <1>4, <1>5, <1>6, <1>7, <1>8 DEF ProcessByte

LEMMA ControlKept ==
  ASSUME ControlInv, [StreamNext]_svars
  PROVE  ControlInv' /\ (opened # "none" => Silent(ops') \/ UNCHANGED svars)
<1>1. ASSUME NEW byte \in Bytes, Hear(byte) PROVE ControlInv' /\ (opened # "none" => Silent(ops'))
  BY <1>1, ControlHear
<1>2. CASE FlushStream
  <2>1. state_' = "Ground" /\ remaining_' = 0 /\ opened' = "none"
    BY <1>2, DecoderStep DEF FlushStream, Flush, FlushDecoder, Fresh, Enter, GoTo, ControlInv
  <2>2. opened # "none" => ops' = <<>>
    BY <1>2, IdleFlush DEF FlushStream, Flush, ControlInv, DecoderIdleInSequence, ReaderAgrees,
      StringStates
  <2> QED BY <2>1, <2>2 DEF ControlInv, States, DecoderIdleInSequence, ReaderAgrees, Silent
<1>3. CASE ResetStream
  BY <1>3, DecoderStep DEF ResetStream, Reset, Fresh, Enter, ControlInv, States,
    DecoderIdleInSequence, ReaderAgrees, Silent
<1>4. CASE UNCHANGED svars
  BY <1>4 DEF svars, vars, decoder, ControlInv, DecoderIdleInSequence, ReaderAgrees
<1> QED BY <1>1, <1>2, <1>3, <1>4 DEF StreamNext

(* No character is completed by bytes on both sides of a sequence          *)
(* (terminal_parser.cpp:79-94).                                            *)
THEOREM DecoderIdle == StreamSpec => []DecoderIdleInSequence
<1>1. ControlInv => DecoderIdleInSequence
  BY DEF ControlInv
<1>2. ControlInv /\ [StreamNext]_svars => ControlInv'
  BY ControlKept
<1> QED BY <1>1, <1>2, ControlInit, PTL DEF StreamSpec

(* From its introducer to its terminator nothing of a string reaches the   *)
(* screen but a title (terminal_parser.cpp:157-212).                       *)
THEOREM StringsSilent == StreamSpec => StringsAreSilent
<1>1. ControlInv /\ [StreamNext]_svars =>
        ControlInv' /\ [(opened # "none") => \A i \in DOMAIN ops' : ops'[i].op = "set_title"]_svars
  BY ControlKept DEF Silent
<1> QED BY <1>1, ControlInit, PTL DEF StreamSpec, StringsAreSilent

-----------------------------------------------------------------------------
(***************************************************************************)
(* The buffers.  BuffersHoldSequence is inductive with the bounds: a byte  *)
(* is appended to the buffer and to the history, or there was no room.     *)
(***************************************************************************)
BufferTypes ==
  /\ parameters_ \in Seq(0..255) /\ osc_payload_ \in Seq(0..255)
  /\ body \in Seq(0..255) /\ Len(body) <= BodyBound

BufferInv == ControlInv /\ BufferTypes /\ BuffersBounded /\ BuffersHoldSequence
BuffersRight == BufferTypes /\ BuffersBounded /\ BuffersHoldSequence

LEMMA Bounds == MaxSequenceBytes \in Nat /\ MaxSequenceBytes > 0 /\ BodyBound = MaxSequenceBytes + 1
  BY ParserAssumption DEF BodyBound

LEMMA PrefixShort ==
  ASSUME NEW s \in Seq(0..255), Len(s) <= MaxSequenceBytes
  PROVE  Prefix(s, MaxSequenceBytes) = s
<1>1. Len(s) \in Nat /\ Lesser(MaxSequenceBytes, Len(s)) = Len(s)
  BY Bounds, LenProperties DEF Lesser
<1> QED BY <1>1, SubSeqFull DEF Prefix

LEMMA PrefixLength ==
  ASSUME NEW s \in Seq(0..255), Len(s) > MaxSequenceBytes
  PROVE  Len(Prefix(s, MaxSequenceBytes)) = MaxSequenceBytes
<1>1. Len(s) \in Nat /\ Lesser(MaxSequenceBytes, Len(s)) = MaxSequenceBytes
  BY Bounds, LenProperties DEF Lesser
<1>2. \A i \in 1..MaxSequenceBytes : s[i] \in 0..255
  <2>1. \A i \in 1..MaxSequenceBytes : i \in 1..Len(s)
    BY <1>1, Bounds
  <2>2. \A i \in 1..Len(s) : s[i] \in 0..255
    BY ElementOfSeq
  <2> QED BY <2>1, <2>2, Zenon
<1> QED BY <1>1, <1>2, Bounds, SubSeqProperties DEF Prefix

LEMMA PrefixStays ==
  ASSUME NEW s \in Seq(0..255), NEW b \in 0..255, Len(s) >= MaxSequenceBytes
  PROVE  Prefix(Append(s, b), MaxSequenceBytes) = Prefix(s, MaxSequenceBytes)
<1> DEFINE m == MaxSequenceBytes
           t == Append(s, b)
<1>1. /\ t \in Seq(0..255) /\ Len(t) = Len(s) + 1 /\ Len(s) \in Nat
      /\ \A i \in 1..Len(s) : t[i] = s[i]
  BY AppendProperties, LenProperties
<1>2. Lesser(m, Len(t)) = m /\ Lesser(m, Len(s)) = m
  BY <1>1, Bounds DEF Lesser
<1>3. \A i \in 1..m : t[i] = s[i] /\ s[i] \in 0..255
  <2>1. \A i \in 1..m : i \in 1..Len(s)
    BY <1>1, Bounds
  <2>2. \A i \in 1..Len(s) : s[i] \in 0..255
    BY ElementOfSeq
  <2> QED BY <1>1, <2>1, <2>2, Zenon
<1>4. SubSeq(t, 1, m) \in Seq(0..255) /\ Len(SubSeq(t, 1, m)) = m
        /\ \A i \in 1..m : SubSeq(t, 1, m)[i] = t[i]
  BY <1>3, Bounds, SubSeqProperties
<1>5. SubSeq(s, 1, m) \in Seq(0..255) /\ Len(SubSeq(s, 1, m)) = m
        /\ \A i \in 1..m : SubSeq(s, 1, m)[i] = s[i]
  BY <1>3, Bounds, SubSeqProperties
<1>6. SubSeq(t, 1, m) = SubSeq(s, 1, m)
  BY <1>3, <1>4, <1>5, SeqEqual
<1> QED BY <1>2, <1>6 DEF Prefix

LEMMA BufferInit == StreamInit => BufferInv
<1> SUFFICES ASSUME StreamInit PROVE BufferInv
  OBVIOUS
<1>1. parameters_ = <<>> /\ osc_payload_ = <<>> /\ body = <<>> /\ state_ = "Ground"
  BY DEF StreamInit, ParserInit
<1> QED BY <1>1, ControlInit, Bounds, EmptySeq
  DEF BufferInv, BufferTypes, BuffersBounded, BuffersHoldSequence

LEMMA EnterBuffers ==
  ASSUME NEW s \in {"Ground", "Csi", "Osc", "String"}, Enter(s), body' = <<>>
  PROVE  BuffersRight'
<1>1. /\ parameters_' = <<>> /\ osc_payload_' = <<>> /\ private_mode_' = FALSE
      /\ body' = <<>> /\ state_' = s
  BY DEF Enter, ClearSequenceBuffers
<1>2. BufferTypes' /\ BuffersBounded'
  BY <1>1, Bounds, EmptySeq DEF BufferTypes, BuffersBounded
<1>3. Prefix(body', MaxSequenceBytes) = <<>>
  <2>1. <<>> \in Seq(0..255) /\ Len(<<>>) <= MaxSequenceBytes
    BY Bounds, EmptySeq
  <2> QED BY <1>1, <2>1, PrefixShort
<1>4. BuffersHoldSequence'
  BY <1>1, <1>3 DEF BuffersHoldSequence
<1> QED BY <1>2, <1>4 DEF BuffersRight

LEMMA LeaveBuffers ==
  ASSUME BufferInv, state_' \notin Buffering, UNCHANGED buffers, body' = <<>>
  PROVE  BuffersRight'
  BY Bounds, EmptySeq DEF BufferInv, BufferTypes, BuffersBounded, BuffersHoldSequence, buffers,
    Buffering, BuffersRight

\* How Hear() keeps the history while a sequence goes on.
Grown(byte) ==
  body' = IF Len(body) = BodyBound \/ (state_ = "Csi" /\ byte \in C0)
          THEN body ELSE Append(body, byte)

LEMMA CollectBuffers ==
  ASSUME BufferInv, NEW byte \in 0..255 \ C0, state_ = "Csi", Room, Grown(byte),
         state_' = "Csi", parameters_' = Append(parameters_, byte), UNCHANGED osc_payload_,
         private_mode_' = (private_mode_ \/ (byte = Question /\ parameters_ = <<>>))
  PROVE  BuffersRight'
<1>1. /\ parameters_ \in Seq(0..255) /\ Len(parameters_) \in Nat
      /\ body \in Seq(0..255) /\ Len(body) \in Nat /\ byte \in 0..255
  BY LenProperties DEF BufferInv, BufferTypes
<1>2. Len(parameters_) < MaxSequenceBytes /\ parameters_ = Prefix(body, MaxSequenceBytes)
  BY DEF Room, BufferInv, BuffersHoldSequence
<1>3. Len(body) <= MaxSequenceBytes
  BY <1>1, <1>2, PrefixLength, Bounds
<1>4. parameters_ = body
  BY <1>1, <1>2, <1>3, PrefixShort
<1>5. body' = Append(body, byte) /\ parameters_' = body'
  BY <1>1, <1>3, <1>4, Bounds DEF Grown
<1>6. /\ body' \in Seq(0..255) /\ Len(body') = Len(body) + 1 /\ body' # <<>>
      /\ \A i \in 1..Len(body) : body'[i] = body[i]
      /\ body'[Len(body) + 1] = byte
  BY <1>1, <1>5, AppendProperties
<1>7. BufferTypes' /\ BuffersBounded'
  BY <1>1, <1>2, <1>4, <1>5, <1>6, Bounds DEF BufferInv, BufferTypes, BuffersBounded
<1>8. Prefix(body', MaxSequenceBytes) = body'
  BY <1>1, <1>2, <1>4, <1>6, PrefixShort, Bounds
<1>9. body = <<>> => Len(body) = 0
  BY <1>1, EmptySeq
<1>10. body # <<>> => body'[1] = body[1]
  BY <1>1, <1>6, EmptySeq
<1>11. private_mode_' = (parameters_' # <<>> /\ parameters_'[1] = Question)
  <2>1. private_mode_ = (parameters_ # <<>> /\ parameters_[1] = Question)
    BY DEF BufferInv, BuffersHoldSequence
  <2>2. CASE body = <<>>
    <3>1. parameters_ = <<>> /\ ~private_mode_
      BY <1>4, <2>1, <2>2
    <3>2. parameters_' # <<>> /\ parameters_'[1] = byte
      BY <1>5, <1>6, <1>9, <2>2
    <3>3. private_mode_' = (byte = Question)
      BY <3>1, Zenon
    <3> QED BY <3>2, <3>3, Zenon
  <2>3. CASE body # <<>>
    BY <1>4, <1>5, <1>6, <1>10, <2>1, <2>3
  <2> QED BY <2>2, <2>3
<1>12. BuffersHoldSequence'
  BY <1>5, <1>8, <1>11 DEF BufferInv, BuffersHoldSequence
<1> QED BY <1>7, <1>12 DEF BuffersRight

LEMMA FullBuffers ==
  ASSUME BufferInv, NEW byte \in 0..255, state_ = "Csi", byte \in C0 \/ ~Room, Grown(byte),
         state_' = "Csi", UNCHANGED buffers
  PROVE  BuffersRight'
<1>1. /\ Len(parameters_) \in Nat /\ body \in Seq(0..255) /\ Len(body) \in Nat
  BY LenProperties DEF BufferInv, BufferTypes
<1>2. CASE body' = body
  BY <1>2 DEF BufferInv, BufferTypes, BuffersBounded, BuffersHoldSequence, buffers, BuffersRight
<1>3. CASE body' # body
  <2>1. ~Room /\ body' = Append(body, byte) /\ Len(body) # BodyBound
    BY <1>3 DEF Grown
  <2>2. Len(body) >= MaxSequenceBytes
    <3>1. Len(body) <= MaxSequenceBytes => Prefix(body, MaxSequenceBytes) = body
      BY <1>1, PrefixShort
    <3> QED BY <1>1, <2>1, <3>1, Bounds DEF Room, BufferInv, BuffersHoldSequence
  <2>3. Prefix(body', MaxSequenceBytes) = Prefix(body, MaxSequenceBytes)
    BY <1>1, <2>1, <2>2, PrefixStays
  <2>4. body' \in Seq(0..255) /\ Len(body') = Len(body) + 1
    BY <1>1, <2>1, AppendProperties
  <2>5. BufferTypes' /\ BuffersBounded'
    BY <1>1, <2>1, <2>4, Bounds DEF BufferInv, BufferTypes, BuffersBounded, buffers
  <2>6. BuffersHoldSequence'
    BY <2>3 DEF BufferInv, BuffersHoldSequence, buffers
  <2> QED BY <2>5, <2>6 DEF BuffersRight
<1> QED BY <1>2, <1>3

LEMMA CsiBuffers ==
  ASSUME BufferInv, NEW byte \in 0..255, state_ = "Csi", ProcessCsi(byte),
         IF state_' = "Csi" THEN Grown(byte) ELSE body' = <<>>
  PROVE  BuffersRight'
<1>1. CASE Enter("Ground")
  BY <1>1, EnterBuffers DEF Enter
<1>2. CASE GoTo("Csi") /\ (byte \in C0 \/ ~Room)
  BY <1>2, FullBuffers DEF GoTo
<1>3. CASE byte = Question /\ parameters_ = <<>> /\ private_mode_' = TRUE
             /\ parameters_' = <<Question>> /\ UNCHANGED <<state_, osc_payload_>>
  <2>1. Append(parameters_, byte) = <<Question>> /\ byte \notin C0 /\ Room
    <3>1. Len(parameters_) = 0
      BY <1>3, EmptySeq
    <3> QED BY <1>3, <3>1, Bounds DEF C0, Room, Question
  <2> QED BY <1>3, <2>1, CollectBuffers
<1>4. CASE byte \in 32..63 /\ ~(byte = Question /\ parameters_ = <<>>) /\ Room /\ Collect(byte)
  <2>1. private_mode_' = (private_mode_ \/ (byte = Question /\ parameters_ = <<>>))
    <3>1. private_mode_ = (parameters_ # <<>> /\ parameters_[1] = Question)
      BY DEF BufferInv, BuffersHoldSequence
    <3>2. private_mode_ = (private_mode_ \/ (byte = Question /\ parameters_ = <<>>))
      BY <1>4, <3>1, Zenon
    <3> QED BY <1>4, <3>2 DEF Collect
  <2>2. byte \in 0..255 \ C0
    BY <1>4 DEF C0
  <2> QED BY <1>4, <2>1, <2>2, CollectBuffers DEF Collect
<1>5. CASE byte \in ParameterBytes \cup IntermediateBytes
             /\ ~(byte = Question /\ parameters_ = <<>>)
  <2>1. byte \in 32..63 /\ byte \notin C0 \cup FinalBytes \cup 128..255
    BY <1>5 DEF ParameterBytes, IntermediateBytes, C0, FinalBytes
  <2>2. \/ Room /\ Collect(byte)
        \/ ~Room /\ (Enter("Ground") \/ GoTo("Csi"))
    BY <1>5, <2>1 DEF ProcessCsi
  <2> QED BY <1>1, <1>2, <1>4, <1>5, <2>1, <2>2
<1>6. CASE byte = Question /\ parameters_ = <<>>
  <2>1. byte \notin C0 \cup IntermediateBytes \cup FinalBytes \cup 128..255
    BY <1>6 DEF Question, C0, IntermediateBytes, FinalBytes
  <2> QED BY <1>3, <1>6, <2>1 DEF ProcessCsi
<1>7. CASE byte \notin ParameterBytes \cup IntermediateBytes
             /\ ~(byte = Question /\ parameters_ = <<>>)
  BY <1>1, <1>2, <1>7 DEF ProcessCsi
<1> QED BY <1>5, <1>6, <1>7

LEMMA OscBuffers ==
  ASSUME BufferInv, NEW byte \in 0..255, state_ \in {"Osc", "OscEscape"}, ProcessOsc(byte),
         IF state_' \in Buffering THEN Grown(byte) ELSE body' = <<>>
  PROVE  BuffersRight'
<1>1. /\ osc_payload_ \in Seq(0..255) /\ Len(osc_payload_) \in Nat
      /\ Len(osc_payload_) <= MaxSequenceBytes /\ parameters_ = <<>> /\ private_mode_ = FALSE
      /\ state_ = "Osc" => body = osc_payload_
      /\ state_ = "OscEscape" => body = Append(osc_payload_, Esc)
  BY LenProperties DEF BufferInv, BufferTypes, BuffersBounded, BuffersHoldSequence
<1>2. CASE Enter("Ground")
  BY <1>2, EnterBuffers DEF Enter, Buffering
<1>3. CASE GoTo("String")
  BY <1>3, LeaveBuffers DEF GoTo, Buffering
<1>4. CASE state_ = "Osc" /\ byte = Esc /\ GoTo("OscEscape")
  <2>1. body' = Append(osc_payload_, Esc)
    BY <1>1, <1>4, Bounds DEF Grown, GoTo, Buffering
  <2>2. body' \in Seq(0..255) /\ Len(body') = Len(osc_payload_) + 1
    BY <1>1, <2>1, AppendProperties DEF Esc
  <2> QED BY <1>1, <1>4, <2>1, <2>2, Bounds DEF GoTo, buffers, BufferTypes, BuffersBounded,
        BuffersHoldSequence, BuffersRight
<1>5. ASSUME NEW bytes \in Seq(0..255), Len(osc_payload_) + Len(bytes) <= MaxSequenceBytes,
             osc_payload_' = osc_payload_ \o bytes, state_' = "Osc",
             UNCHANGED <<parameters_, private_mode_>>, body' = osc_payload_'
      PROVE  BuffersRight'
  <2>1. osc_payload_' \in Seq(0..255) /\ Len(osc_payload_') <= MaxSequenceBytes
    BY <1>1, <1>5, ConcatProperties
  <2>2. parameters_' = <<>> /\ private_mode_' = FALSE /\ <<>> \in Seq(0..255) /\ Len(<<>>) = 0
    BY <1>1, <1>5, EmptySeq
  <2> QED BY <1>5, <2>1, <2>2, Bounds DEF BufferTypes, BuffersBounded, BuffersHoldSequence,
        BuffersRight
<1>6. CASE state_ = "Osc" /\ Payload(<<byte>>) /\ ~GoTo("String")
  <2>1. Len(osc_payload_) + 1 <= MaxSequenceBytes /\ osc_payload_' = osc_payload_ \o <<byte>>
          /\ state_' = "Osc" /\ UNCHANGED <<parameters_, private_mode_>>
    BY <1>6 DEF Payload
  <2>2. body' = Append(osc_payload_, byte)
    BY <1>1, <1>6, <2>1, Bounds DEF Grown, Buffering
  <2>3. Append(osc_payload_, byte) = osc_payload_ \o <<byte>>
    BY <1>1, AppendIsConcat
  <2>4. <<byte>> \in Seq(0..255) /\ Len(<<byte>>) = 1
    OBVIOUS
  <2> QED BY <1>5, <2>1, <2>2, <2>3, <2>4
<1>7. CASE state_ = "OscEscape" /\ Payload(<<Esc, byte>>) /\ ~GoTo("String")
  <2>1. Len(osc_payload_) + 2 <= MaxSequenceBytes /\ osc_payload_' = osc_payload_ \o <<Esc, byte>>
          /\ state_' = "Osc" /\ UNCHANGED <<parameters_, private_mode_>>
    BY <1>7 DEF Payload
  <2>2. body' = Append(Append(osc_payload_, Esc), byte)
    <3>1. Len(Append(osc_payload_, Esc)) = Len(osc_payload_) + 1
      BY <1>1, AppendProperties DEF Esc
    <3> QED BY <1>1, <1>7, <2>1, <3>1, Bounds DEF Grown, Buffering
  <2>3. Append(Append(osc_payload_, Esc), byte) = osc_payload_ \o <<Esc, byte>>
    BY <1>1 DEF Esc
  <2>4. <<Esc, byte>> \in Seq(0..255) /\ Len(<<Esc, byte>>) = 2
    BY DEF Esc
  <2> QED BY <1>5, <2>1, <2>2, <2>3, <2>4
<1> QED BY <1>2, <1>3, <1>4, <1>6, <1>7 DEF ProcessOsc, Payload

\* body' of Hear(), as the lemmas about the buffers want it.
LEMMA HearBody ==
  ASSUME NEW byte \in Bytes, Hear(byte)
  PROVE  /\ Begins \/ state_' \notin Buffering => body' = <<>>
         /\ ~Begins /\ state_' \in Buffering => Grown(byte)
  BY DEF Hear, Grown

LEMMA BufferHear ==
  ASSUME BufferInv, NEW byte \in Bytes, Hear(byte)
  PROVE  BuffersRight'
<1>1. byte \in 0..255 /\ ProcessByte(byte)
  BY ParserAssumption DEF Hear
<1>2. ASSUME NEW s \in {"Ground", "Csi", "Osc", "String"}, Enter(s),
             state_ \in {"Ground", "Escape"} \/ s = "Ground"
      PROVE  BuffersRight'
  <2>1. state_' = s
    BY <1>2 DEF Enter
  <2>2. Begins \/ state_' \notin Buffering
    BY <1>2, <2>1 DEF Begins, Inside, StringStates, Buffering
  <2> QED BY <1>2, <2>2, HearBody, EnterBuffers
<1>3. ASSUME NEW s \in {"Ground", "Escape", "String", "StringEscape"}, GoTo(s)
      PROVE  BuffersRight'
  <2>1. state_' \notin Buffering /\ UNCHANGED buffers
    BY <1>3 DEF GoTo, Buffering
  <2> QED BY <2>1, HearBody, LeaveBuffers
<1>4. CASE Enter("Ground")
  BY <1>2, <1>4
<1>5. CASE state_ = "Ground" /\ ProcessGround(byte)
  BY <1>2, <1>3, <1>5 DEF ProcessGround
<1>6. CASE state_ = "Escape" /\ ProcessEscape(byte)
  BY <1>2, <1>3, <1>6 DEF ProcessEscape
<1>7. CASE state_ = "Csi" /\ ProcessCsi(byte)
  <2>1. state_' \in {"Ground", "Csi"}
    BY <1>1, <1>7, CsiStep DEF BufferInv
  <2>2. IF state_' = "Csi" THEN Grown(byte) ELSE body' = <<>>
    BY <1>7, <2>1, HearBody DEF Begins, Inside, Buffering
  <2> QED BY <1>1, <1>7, <2>2, CsiBuffers
<1>8. CASE state_ \in {"Osc", "OscEscape"} /\ ProcessOsc(byte)
  <2>1. IF state_' \in Buffering THEN Grown(byte) ELSE body' = <<>>
    BY <1>8, HearBody DEF Begins, Inside, StringStates
  <2> QED BY <1>1, <1>8, <2>1, OscBuffers
<1>9. CASE state_ \in {"String", "StringEscape"} /\ ProcessString(byte)
  BY <1>3, <1>9 DEF ProcessString
<1> QED BY <1>1, <1>4, <1>5, <1>6, <1>7, <1>8, <1>9 DEF ProcessByte

LEMMA BufferStep == BufferInv /\ [StreamNext]_svars => BufferInv'
<1> SUFFICES ASSUME BufferInv, [StreamNext]_svars PROVE BufferInv'
  OBVIOUS
<1>1. ControlInv'
  BY ControlKept DEF BufferInv
<1>2. ASSUME NEW byte \in Bytes, Hear(byte) PROVE BuffersRight'
  BY <1>2, BufferHear
<1>3. ASSUME Enter("Ground") \/ GoTo("Ground"), Fresh PROVE BuffersRight'
  <2>1. body' = <<>>
    BY <1>3 DEF Fresh
  <2>2. GoTo("Ground") => BuffersRight'
    BY <2>1, LeaveBuffers DEF GoTo, Buffering
  <2> QED BY <1>3, <2>1, <2>2, EnterBuffers
<1>4. CASE FlushStream
  BY <1>1, <1>3, <1>4 DEF FlushStream, Flush, BuffersRight, BufferInv
<1>5. CASE ResetStream
  BY <1>1, <1>3, <1>5 DEF ResetStream, Reset, BuffersRight, BufferInv
<1>6. CASE UNCHANGED svars
  BY <1>1, <1>6 DEF svars, vars, buffers, BufferInv, BufferTypes, BuffersBounded, BuffersHoldSequence,
    BuffersRight
<1> QED BY <1>1, <1>2, <1>4, <1>5, <1>6 DEF StreamNext, BuffersRight, BufferInv

(* Neither buffer outgrows kMaximumSequenceBytes                           *)
(* (terminal_parser.cpp:136,165,191).                                      *)
THEOREM BuffersStayBounded == StreamSpec => []BuffersBounded
<1>1. BufferInv => BuffersBounded
  BY DEF BufferInv
<1> QED BY <1>1, BufferInit, BufferStep, PTL DEF StreamSpec

(* A sequence is executed with its own bytes only                          *)
(* (terminal_parser.cpp:198-208,281-286).                                  *)
THEOREM BuffersHoldOneSequence == StreamSpec => []BuffersHoldSequence
<1>1. BufferInv => BuffersHoldSequence
  BY DEF BufferInv
<1> QED BY <1>1, BufferInit, BufferStep, PTL DEF StreamSpec

-----------------------------------------------------------------------------
(***************************************************************************)
(* Titles.  Only the two states of an OSC string ever set one.             *)
(***************************************************************************)
Untitled(calls) == \A i \in DOMAIN calls : calls[i].op # "set_title"

LEMMA UntitledCalls ==
  /\ Untitled(<<>>)
  /\ \A byte : Untitled(<<Control(byte)>>) /\ Untitled(EscapeCalls(byte))
  /\ \A codepoints : Untitled(Prints(codepoints))
<1>1. \A codepoints : Untitled(Prints(codepoints))
  BY DEF Untitled, Prints, Call
<1>2. \A byte : Untitled(<<Control(byte)>>)
  BY DEF Untitled, Control, Call
<1>3. \A byte : Untitled(EscapeCalls(byte))
  <2> TAKE byte
  <2>1. /\ Untitled(<<>>) /\ Untitled(<<Control(10)>>) /\ Untitled(<<Control(10), Control(13)>>)
        /\ \A name \in {"save_cursor", "restore_cursor", "reset"} :
             Untitled(<<Call(name, <<>>)>>)
    BY DEF Untitled, Control, Call
  <2> QED BY <2>1 DEF EscapeCalls
<1> QED BY <1>1, <1>2, <1>3 DEF Untitled

LEMMA UntitledCsi == \A final : Untitled(ExecuteCsi(final))
<1> TAKE final
<1>1. ASSUME NEW name \in {"cursor_up", "cursor_down", "cursor_forward", "cursor_back",
                           "cursor_position", "erase_in_display", "erase_in_line",
                           "set_graphics_rendition", "private_mode_on", "private_mode_off",
                           "save_cursor", "restore_cursor"},
             NEW args
      PROVE  Untitled(<<Call(name, args)>>)
  BY <1>1 DEF Untitled, Call
<1> QED BY <1>1, UntitledCalls DEF ExecuteCsi

LEMMA TitleHear ==
  ASSUME NEW byte \in Bytes, Hear(byte), ~Untitled(ops')
  PROVE  state_ \in {"Osc", "OscEscape"} /\ ops' = ExecuteOsc
<1>1. ProcessByte(byte)
  BY DEF Hear
<1>2. ~FlushDecoder
  BY UntitledCalls DEF FlushDecoder
<1>3. ~ProcessGround(byte)
  BY <1>2, UntitledCalls DEF ProcessGround
<1>4. ~ProcessEscape(byte) /\ ~ProcessString(byte)
  BY UntitledCalls DEF ProcessEscape, ProcessString
<1>5. ~ProcessCsi(byte)
  BY UntitledCalls, UntitledCsi DEF ProcessCsi
<1>6. state_ \in {"Osc", "OscEscape"} /\ ProcessOsc(byte)
  BY <1>1, <1>2, <1>3, <1>4, <1>5 DEF ProcessByte
<1> QED BY <1>6, UntitledCalls DEF ProcessOsc

\* A payload is its first two bytes and the rest.
LEMMA Payload3 ==
  ASSUME NEW p \in Seq(0..255), Len(p) >= 2
  PROVE  <<p[1], p[2]>> \o SubSeq(p, 3, Len(p)) = p
<1> DEFINE rest == SubSeq(p, 3, Len(p))
           two == <<p[1], p[2]>>
<1>1. Len(p) \in Nat /\ \A i \in 1..Len(p) : p[i] \in 0..255
  BY LenProperties, ElementOfSeq
<1>2. rest \in Seq(0..255) /\ Len(rest) = Len(p) - 2
        /\ \A i \in 1..(Len(p) - 2) : rest[i] = p[i + 2]
  <2>1. \A i \in 3..Len(p) : p[i] \in 0..255
    BY <1>1
  <2>2. /\ rest \in Seq(0..255)
        /\ Len(rest) = IF 3 <= Len(p) THEN Len(p) - 3 + 1 ELSE 0
        /\ \A i \in 1..(Len(p) - 3 + 1) : rest[i] = p[3 + i - 1]
    BY <1>1, <2>1, SubSeqProperties
  <2>3. ASSUME NEW i \in 1..(Len(p) - 2) PROVE rest[i] = p[i + 2]
    <3>1. i \in 1..(Len(p) - 3 + 1) /\ 3 + i - 1 = i + 2
      BY <1>1
    <3>2. rest[i] = p[3 + i - 1]
      BY <2>2, <3>1
    <3> QED BY <3>1, <3>2, Zenon
  <2>4. Len(rest) = Len(p) - 2
    <3>1. \A n \in Nat : n >= 2 => (IF 3 <= n THEN n - 3 + 1 ELSE 0) = n - 2
      OBVIOUS
    <3>2. Len(p) \in Nat /\ Len(p) >= 2
      BY <1>1
    <3>3. (IF 3 <= Len(p) THEN Len(p) - 3 + 1 ELSE 0) = Len(p) - 2
      BY <3>1, <3>2, Zenon
    <3> HIDE DEF rest
    <3> QED BY <2>2, <3>3
  <2> QED BY <2>2, <2>3, <2>4
<1>3. two \in Seq(0..255) /\ Len(two) = 2 /\ two[1] = p[1] /\ two[2] = p[2]
  BY <1>1
<1>4. /\ two \o rest \in Seq(0..255) /\ Len(two \o rest) = Len(p)
      /\ \A i \in 1..Len(p) : (two \o rest)[i] = IF i <= 2 THEN two[i] ELSE rest[i - 2]
  BY <1>1, <1>2, <1>3, ConcatProperties
<1>5. ASSUME NEW i \in 1..Len(p) PROVE (two \o rest)[i] = p[i]
  <2>1. CASE i <= 2
    <3>1. i = 1 \/ i = 2
      BY <1>1, <2>1
    <3> QED BY <1>3, <1>4, <2>1, <3>1
  <2>2. CASE i > 2
    <3>1. i - 2 \in 1..(Len(p) - 2) /\ (i - 2) + 2 = i
      BY <1>1, <2>2
    <3>2. rest[i - 2] = p[(i - 2) + 2]
      BY <1>2, <3>1
    <3> QED BY <1>1, <1>4, <2>2, <3>1, <3>2
  <2> QED BY <1>1, <2>1, <2>2
<1> HIDE DEF rest, two
<1>6. two \o rest = p
  BY <1>1, <1>4, <1>5, SeqEqual
<1> QED BY <1>6 DEF rest, two

LEMMA WithoutLast ==
  ASSUME NEW p \in Seq(0..255), NEW b \in 0..255
  PROVE  SubSeq(Append(p, b), 1, Len(Append(p, b)) - 1) = p
<1> DEFINE t == Append(p, b)
<1>1. /\ t \in Seq(0..255) /\ Len(t) = Len(p) + 1 /\ Len(p) \in Nat
      /\ \A i \in 1..Len(p) : t[i] = p[i] /\ p[i] \in 0..255
  BY AppendProperties, LenProperties, ElementOfSeq
<1> HIDE DEF t
<1>2. SubSeq(t, 1, Len(p)) \in Seq(0..255) /\ Len(SubSeq(t, 1, Len(p))) = Len(p)
        /\ \A i \in 1..Len(p) : SubSeq(t, 1, Len(p))[i] = t[i]
  BY <1>1, SubSeqProperties
<1>3. SubSeq(t, 1, Len(p)) = p
  BY <1>1, <1>2, SeqEqual
<1>4. Len(t) - 1 = Len(p)
  BY <1>1
<1> QED BY <1>3, <1>4 DEF t

(* A title is the whole text between its introducer and its terminator     *)
(* (terminal_parser.cpp:157-196,253-264).                                  *)
THEOREM TitlesAreWhole == StreamSpec => TitleIsWhole
<1> DEFINE Whole ==
      \A i \in DOMAIN ops' : ops'[i].op = "set_title" =>
        \E kind \in {48, 50} :
          <<kind, Semicolon>> \o ops'[i].args =
            IF state_ = "OscEscape" THEN SubSeq(body, 1, Len(body) - 1) ELSE body
<1>1. Untitled(ops') => Whole
  BY DEF Untitled
<1>2. ASSUME BufferInv, NEW byte \in Bytes, Hear(byte) PROVE Whole
  <2> SUFFICES ASSUME ~Untitled(ops') PROVE Whole
    BY <1>1
  <2>1. state_ \in {"Osc", "OscEscape"} /\ ops' = ExecuteOsc
    BY <1>2, TitleHear
  <2>2. osc_payload_ \in Seq(0..255) /\ Len(osc_payload_) \in Nat
    BY <1>2, LenProperties DEF BufferInv, BufferTypes
  <2>3. osc_payload_ = IF state_ = "OscEscape" THEN SubSeq(body, 1, Len(body) - 1) ELSE body
    <3>1. CASE state_ = "Osc"
      BY <1>2, <3>1 DEF BufferInv, BuffersHoldSequence
    <3>2. CASE state_ = "OscEscape"
      <4>1. body = Append(osc_payload_, Esc) /\ Esc \in 0..255
        BY <1>2, <3>2 DEF BufferInv, BuffersHoldSequence, Esc
      <4>2. SubSeq(body, 1, Len(body) - 1) = osc_payload_
        BY <2>2, <4>1, WithoutLast
      <4> QED BY <3>2, <4>2
    <3> QED BY <2>1, <3>1, <3>2
  <2>4. /\ Len(osc_payload_) >= 2 /\ osc_payload_[1] \in {48, 50} /\ osc_payload_[2] = Semicolon
        /\ ops' = <<Call("set_title", SubSeq(osc_payload_, 3, Len(osc_payload_)))>>
    BY <2>1, UntitledCalls DEF ExecuteOsc
  <2>5. ASSUME NEW i \in DOMAIN ops'
        PROVE  ops'[i].args = SubSeq(osc_payload_, 3, Len(osc_payload_))
    BY <2>4, <2>5 DEF Call
  <2>6. <<osc_payload_[1], Semicolon>> \o SubSeq(osc_payload_, 3, Len(osc_payload_)) = osc_payload_
    BY <2>2, <2>4, Payload3
  <2> DEFINE text == IF state_ = "OscEscape" THEN SubSeq(body, 1, Len(body) - 1) ELSE body
             kind == osc_payload_[1]
  <2>7. kind \in {48, 50}
    BY <2>4
  <2>8. ASSUME NEW i \in DOMAIN ops' PROVE <<kind, Semicolon>> \o ops'[i].args = text
    BY <2>3, <2>5, <2>6
  <2> HIDE DEF kind, text
  <2>9. \A i \in DOMAIN ops' :
          \E k \in {48, 50} : <<k, Semicolon>> \o ops'[i].args = text
    BY <2>7, <2>8
  <2> QED BY <2>9 DEF text
<1>3. BufferInv /\ FlushStream => Whole
  BY <1>1, UntitledCalls DEF FlushStream, Flush, FlushDecoder
<1>4. BufferInv /\ ResetStream => Whole
  BY <1>1, UntitledCalls DEF ResetStream, Reset
<1>5. BufferInv /\ [StreamNext]_svars => BufferInv' /\ [Whole]_svars
  BY <1>2, <1>3, <1>4, BufferStep DEF StreamNext
<1> QED BY <1>5, BufferInit, PTL DEF StreamSpec, TitleIsWhole

-----------------------------------------------------------------------------
(***************************************************************************)
(* Arguments.  What parse_parameters() makes of the bytes of a sequence,   *)
(* of any length: the recursion over the digits stays in the range that    *)
(* is told from an overflow, the recursion over the bytes makes fields.    *)
(***************************************************************************)

\* The value of some digits, as far as it is told from other values.
LEMMA DigitsInRange ==
  ASSUME NEW digits, NEW n \in Nat, \A i \in 1..n : digits[i] \in 48..57
  PROVE  LET upTo[k \in 0..n] ==
               IF k = 0 THEN 0 ELSE Lesser(10 * upTo[k - 1] + (digits[k] - 48), IntMax + 1)
         IN  upTo[n] \in 0..IntMax + 1
<1> DEFINE Values == 0..IntMax + 1
           unfolded(g) == [k \in 0..n |->
                        IF k = 0 THEN 0 ELSE Lesser(10 * g[k - 1] + (digits[k] - 48), IntMax + 1)]
           upTo == CHOOSE g : g = unfolded(g)
           step == [p \in Values \X Nat |->
                     IF p[2] < n THEN Lesser(10 * p[1] + (digits[p[2] + 1] - 48), IntMax + 1)
                     ELSE 0]
<1>1. IntMax \in Nat
  BY ParserAssumption
<1>2. ASSUME NEW v \in Values, NEW k \in 1..n
      PROVE  Lesser(10 * v + (digits[k] - 48), IntMax + 1) \in Values
  <2>1. digits[k] \in 48..57
    OBVIOUS
  <2>2. digits[k] - 48 \in 0..9
    BY <2>1
  <2>3. 10 * v + (digits[k] - 48) \in Nat
    BY <1>1, <2>2
  <2> QED BY <1>1, <2>3 DEF Lesser
<1>3. step \in [Values \X Nat -> Values]
  <2>1. ASSUME NEW v \in Values, NEW k \in Nat, k < n
        PROVE  Lesser(10 * v + (digits[k + 1] - 48), IntMax + 1) \in Values
    <3>1. k + 1 \in 1..n
      BY <2>1
    <3> QED BY <1>2, <3>1
  <2>2. 0 \in Values
    BY <1>1
  <2> HIDE DEF Values
  <2> QED BY <2>1, <2>2
<1>4. PICK f \in [0..n -> Values] : Follows(f, 0, step, n)
  <2>1. 0 \in Values
    BY <1>1
  <2> HIDE DEF step, Values
  <2> QED BY <1>3, <2>1, Recursion
<1>5. ASSUME NEW k \in 0..n
      PROVE  f[k] = IF k = 0 THEN 0 ELSE Lesser(10 * f[k - 1] + (digits[k] - 48), IntMax + 1)
  <2>1. CASE k = 0
    BY <1>4, <2>1 DEF Follows
  <2>2. CASE k # 0
    <3>1. k - 1 \in 0..n - 1 /\ (k - 1) + 1 = k /\ k - 1 < n /\ k - 1 \in Nat /\ k - 1 \in 0..n
      BY <2>2
    <3>2. f[(k - 1) + 1] = step[<<f[k - 1], k - 1>>]
      BY <1>4, <3>1 DEF Follows
    <3>3. <<f[k - 1], k - 1>> \in Values \X Nat
      BY <3>1
    <3> HIDE DEF Values
    <3>4. step[<<f[k - 1], k - 1>>] = Lesser(10 * f[k - 1] + (digits[(k - 1) + 1] - 48), IntMax + 1)
      BY <3>1, <3>3
    <3> QED BY <2>2, <3>1, <3>2, <3>4
  <2> QED BY <2>1, <2>2
<1>6. f = unfolded(f)
  BY <1>5
<1> HIDE DEF step
<1>7. upTo = unfolded(upTo)
  BY <1>6
<1> HIDE DEF upTo
<1>8. upTo[0] = 0 /\ \A k \in 1..n :
        upTo[k] = Lesser(10 * upTo[k - 1] + (digits[k] - 48), IntMax + 1)
  BY <1>7
<1> HIDE DEF unfolded
<1> DEFINE Ranged == {k \in Nat : k <= n => upTo[k] \in Values}
<1>9. 0 \in Ranged
  BY <1>1, <1>8
<1>10. ASSUME NEW k \in Nat, k \in Ranged PROVE k + 1 \in Ranged
  <2> SUFFICES ASSUME k + 1 <= n PROVE upTo[k + 1] \in Values
    OBVIOUS
  <2>1. k + 1 \in 1..n /\ (k + 1) - 1 = k /\ k <= n
    OBVIOUS
  <2>2. upTo[k + 1] = Lesser(10 * upTo[k] + (digits[k + 1] - 48), IntMax + 1)
    BY <1>8, <2>1
  <2>3. upTo[k] \in Values
    BY <1>10, <2>1
  <2> HIDE DEF Values
  <2> QED BY <1>2, <2>1, <2>2, <2>3
<1> HIDE DEF Ranged
<1>11. \A k \in Nat : k \in Ranged
  BY <1>9, <1>10, SetInduction
<1>12. upTo[n] \in Values
  BY <1>11 DEF Ranged
<1> QED BY <1>12 DEF upTo, unfolded

Numbers == Seq(Nat)

\* A field is a number from_chars() accepts, or -1 stands for it.
LEMMA FieldInRange ==
  ASSUME NEW field \in Numbers
  PROVE  FieldValue(field) \in Int /\ FieldValue(field) <= IntMax
<1> DEFINE negative == field # <<>> /\ field[1] = 45
           digits == IF negative THEN Tail(field) ELSE field
<1>1. IntMax \in Nat
  BY ParserAssumption
<1>2. digits \in Numbers
  BY HeadTailProperties DEF Numbers
<1>3. Len(digits) \in Nat /\ DOMAIN digits = 1..Len(digits)
  BY <1>2, LenProperties DEF Numbers
<1> DEFINE value == LET upTo[k \in 0..Len(digits)] ==
                          IF k = 0 THEN 0
                          ELSE Lesser(10 * upTo[k - 1] + (digits[k] - 48), IntMax + 1)
                    IN  upTo[Len(digits)]
<1>4. FieldValue(field) =
        CASE digits = <<>> \/ \E i \in DOMAIN digits : digits[i] \notin 48..57 -> -1
          [] OTHER -> IF value > IntMax THEN -1 ELSE IF negative THEN -value ELSE value
  BY DEF FieldValue
<1>5. CASE digits = <<>> \/ \E i \in DOMAIN digits : digits[i] \notin 48..57
  <2> HIDE DEF digits, value, negative
  <2>1. FieldValue(field) = -1
    BY <1>4, <1>5
  <2> QED BY <1>1, <2>1
<1>6. CASE ~(digits = <<>> \/ \E i \in DOMAIN digits : digits[i] \notin 48..57)
  <2>1. \A i \in 1..Len(digits) : digits[i] \in 48..57
    BY <1>3, <1>6
  <2>2. value \in 0..IntMax + 1
    <3> HIDE DEF digits
    <3> QED BY <1>3, <2>1, DigitsInRange
  <2> HIDE DEF digits, value, negative
  <2>3. FieldValue(field) = IF value > IntMax THEN -1 ELSE IF negative THEN -value ELSE value
    BY <1>4, <1>6
  <2> QED BY <1>1, <2>2, <2>3
<1> QED BY <1>5, <1>6

\* There is always a field, if only an empty one.
LEMMA FieldsAreFields ==
  ASSUME NEW s \in Numbers
  PROVE  Fields(s) \in Seq(Numbers) /\ Len(Fields(s)) \in Nat
<1> DEFINE n == Len(s)
           Split(fields, b) == IF b = Semicolon THEN Append(fields, <<>>)
                               ELSE [fields EXCEPT ![Len(fields)] = Append(@, b)]
           Values == {fields \in Seq(Numbers) : Len(fields) > 0}
           unfolded(g) == [k \in 0..n |-> IF k = 0 THEN << <<>> >> ELSE Split(g[k - 1], s[k])]
           upTo == CHOOSE g : g = unfolded(g)
           step == [p \in Values \X Nat |-> IF p[2] < n THEN Split(p[1], s[p[2] + 1]) ELSE p[1]]
<1>1. n \in Nat /\ \A i \in 1..n : s[i] \in Nat
  BY LenProperties, ElementOfSeq DEF Numbers
<1>2. << <<>> >> \in Values
  <2>1. <<>> \in Numbers
    BY EmptySeq DEF Numbers
  <2> QED BY <2>1
<1>3. ASSUME NEW fields \in Values, NEW k \in 1..n PROVE Split(fields, s[k]) \in Values
  <2>1. s[k] \in Nat /\ fields \in Seq(Numbers) /\ Len(fields) \in Nat /\ Len(fields) > 0
    BY <1>1, LenProperties
  <2>2. Append(fields, <<>>) \in Values
    <3>1. <<>> \in Numbers
      BY EmptySeq DEF Numbers
    <3> QED BY <2>1, <3>1, AppendProperties
  <2>3. [fields EXCEPT ![Len(fields)] = Append(@, s[k])] \in Values
    <3>1. Len(fields) \in 1..Len(fields)
      BY <2>1
    <3>2. fields[Len(fields)] \in Seq(Nat)
      BY <2>1, <3>1, ElementOfSeq DEF Numbers
    <3>3. Append(fields[Len(fields)], s[k]) \in Numbers
      BY <2>1, <3>2, AppendProperties DEF Numbers
    <3>4. [fields EXCEPT ![Len(fields)] = Append(fields[Len(fields)], s[k])] \in Values
      BY <2>1, <3>1, <3>3, ExceptSeq
    <3>5. [fields EXCEPT ![Len(fields)] = Append(@, s[k])]
            = [fields EXCEPT ![Len(fields)] = Append(fields[Len(fields)], s[k])]
      OBVIOUS
    <3> HIDE DEF Values
    <3> QED BY <3>4, <3>5
  <2> HIDE DEF Values
  <2> QED BY <2>2, <2>3
<1> HIDE DEF Split
<1>4. step \in [Values \X Nat -> Values]
  <2>1. ASSUME NEW v \in Values, NEW k \in Nat, k < n PROVE Split(v, s[k + 1]) \in Values
    <3>1. k + 1 \in 1..n
      BY <1>1, <2>1
    <3> QED BY <1>3, <3>1
  <2> HIDE DEF Values
  <2> QED BY <2>1
<1>5. PICK f \in [0..n -> Values] : Follows(f, << <<>> >>, step, n)
  <2> HIDE DEF step, Values
  <2> QED BY <1>1, <1>2, <1>4, Recursion
<1>6. ASSUME NEW k \in 0..n
      PROVE  f[k] = IF k = 0 THEN << <<>> >> ELSE Split(f[k - 1], s[k])
  <2>1. CASE k = 0
    BY <1>5, <2>1 DEF Follows
  <2>2. CASE k # 0
    <3>1. k - 1 \in 0..n - 1 /\ (k - 1) + 1 = k /\ k - 1 < n /\ k - 1 \in Nat /\ k - 1 \in 0..n
      BY <1>1, <2>2
    <3>2. f[(k - 1) + 1] = step[<<f[k - 1], k - 1>>]
      BY <1>5, <3>1 DEF Follows
    <3>3. <<f[k - 1], k - 1>> \in Values \X Nat
      <4> HIDE DEF Values
      <4> QED BY <3>1
    <3> HIDE DEF Values
    <3>4. step[<<f[k - 1], k - 1>>] = Split(f[k - 1], s[(k - 1) + 1])
      BY <3>1, <3>3
    <3> QED BY <2>2, <3>1, <3>2, <3>4
  <2> QED BY <2>1, <2>2
<1>7. f = unfolded(f)
  <2> HIDE DEF Values
  <2> QED BY <1>6
<1> HIDE DEF step
<1>8. upTo = unfolded(upTo)
  BY <1>7
<1>9. Fields(s) = upTo[n]
  BY DEF Fields, Split
<1> HIDE DEF upTo
<1>10. upTo[0] = << <<>> >> /\ \A k \in 1..n : upTo[k] = Split(upTo[k - 1], s[k])
  BY <1>1, <1>8
<1> HIDE DEF unfolded, n
<1> DEFINE Good == {k \in Nat : k <= n => upTo[k] \in Values}
<1>11. 0 \in Good
  BY <1>2, <1>10
<1>12. ASSUME NEW k \in Nat, k \in Good PROVE k + 1 \in Good
  <2> SUFFICES ASSUME k + 1 <= n PROVE upTo[k + 1] \in Values
    OBVIOUS
  <2>1. k + 1 \in 1..n /\ (k + 1) - 1 = k /\ k <= n
    BY <1>1
  <2>2. upTo[k + 1] = Split(upTo[k], s[k + 1])
    BY <1>10, <2>1
  <2>3. upTo[k] \in Values
    BY <1>12, <2>1
  <2> HIDE DEF Values
  <2> QED BY <1>3, <2>1, <2>2, <2>3
<1> HIDE DEF Good
<1>13. \A k \in Nat : k \in Good
  BY <1>11, <1>12, SetInduction
<1>14. upTo[n] \in Values
  BY <1>1, <1>13 DEF Good
<1> QED BY <1>9, <1>14, LenProperties

ParameterSeq == {params \in Seq(Int) :
  Len(params) <= MaxParameterCount /\ \A i \in 1..Len(params) : params[i] <= IntMax}

LEMMA BytesAreNumbers ==
  ASSUME NEW s \in Seq(0..255)
  PROVE  s \in Seq(Nat) /\ Len(s) \in Nat
<1>1. Len(s) \in Nat /\ s \in [1..Len(s) -> 0..255]
  <2> DEFINE S == 0..255
  <2>1. s \in Seq(S)
    OBVIOUS
  <2> HIDE DEF S
  <2>2. Len(s) \in Nat /\ s \in [1..Len(s) -> S]
    BY <2>1, LenProperties
  <2> QED BY <2>2 DEF S
<1>2. ASSUME NEW i \in 1..Len(s) PROVE s[i] \in Nat
  <2>1. s[i] \in 0..255
    BY <1>1
  <2>2. \A byte \in 0..255 : byte \in Nat
    OBVIOUS
  <2> QED BY <2>1, <2>2, Zenon
<1>3. SubSeq(s, 1, Len(s)) \in Seq(Nat)
  BY <1>1, <1>2, SubSeqProperties
<1> QED BY <1>1, <1>3, SubSeqFull

LEMMA ParametersInRange ==
  ASSUME NEW bytes \in Numbers
  PROVE  ParseParameters(bytes) \in ParameterSeq
<1>1. MaxParameterCount \in Nat
  BY ParserAssumption
<1>2. CASE bytes = <<>>
  <2>1. ParseParameters(bytes) = <<>>
    BY <1>2 DEF ParseParameters
  <2> QED BY <1>1, <2>1, EmptySeq DEF ParameterSeq
<1>3. CASE bytes # <<>>
  <2> DEFINE text == IF bytes[1] = Question THEN Tail(bytes) ELSE bytes
             fields == Fields(text)
             count == Lesser(Len(fields), MaxParameterCount)
  <2>1. text \in Numbers
    BY <1>3, HeadTailProperties DEF Numbers
  <2>2. ParseParameters(bytes) = [i \in 1..count |-> FieldValue(fields[i])]
    BY <1>3 DEF ParseParameters
  <2> HIDE DEF text
  <2>3. fields \in Seq(Numbers) /\ Len(fields) \in Nat
    BY <2>1, FieldsAreFields
  <2> HIDE DEF fields
  <2>4. count \in Nat /\ count <= Len(fields) /\ count <= MaxParameterCount
    BY <1>1, <2>3 DEF Lesser
  <2> HIDE DEF count
  <2>5. ASSUME NEW i \in 1..count
        PROVE  FieldValue(fields[i]) \in Int /\ FieldValue(fields[i]) <= IntMax
    <3>1. i \in 1..Len(fields)
      BY <2>3, <2>4
    <3>2. fields[i] \in Numbers
      BY <2>3, <3>1, ElementOfSeq
    <3> QED BY <3>2, FieldInRange
  <2> DEFINE params == [i \in 1..count |-> FieldValue(fields[i])]
  <2>6. params \in [1..count -> Int] /\ \A i \in 1..count : params[i] <= IntMax
    BY <2>5
  <2> HIDE DEF params
  <2>7. params \in Seq(Int) /\ Len(params) = count
    BY <2>4, <2>6, SeqDef, LenProperties
  <2>8. params \in ParameterSeq
    BY <2>4, <2>6, <2>7 DEF ParameterSeq
  <2> QED BY <2>2, <2>8 DEF params
<1> QED BY <1>2, <1>3

LEMMA ParameterInRange ==
  ASSUME NEW params \in ParameterSeq, NEW i \in 1..2
  PROVE  /\ ParameterOrDefault(params, i, 0) \in 0..IntMax
         /\ Count(params, i) \in 1..IntMax /\ Count(params, i) - 1 \in 0..IntMax
<1>1. IntMax \in Nat /\ IntMax > 0
  BY ParserAssumption
<1>2. Len(params) \in Nat /\ \A j \in 1..Len(params) : params[j] \in Int /\ params[j] <= IntMax
  BY LenProperties, ElementOfSeq DEF ParameterSeq
<1>3. i > Len(params) \/ (params[i] \in Int /\ params[i] <= IntMax)
  BY <1>2
<1>4. ASSUME NEW default \in {0, 1} PROVE ParameterOrDefault(params, i, default) \in 0..IntMax
  BY <1>1, <1>2, <1>3 DEF ParameterOrDefault
<1>5. ParameterOrDefault(params, i, 1) \in 0..IntMax
  BY <1>4
<1>6. Count(params, i) \in 1..IntMax
  BY <1>1, <1>5 DEF Count, Greater
<1> QED BY <1>1, <1>4, <1>6

Ranged(calls) == \A i \in DOMAIN calls :
  /\ calls[i].op \in Distances => calls[i].args[1] \in 1..IntMax
  /\ calls[i].op \in Absolutes => \A j \in DOMAIN calls[i].args : calls[i].args[j] \in 0..IntMax
  /\ calls[i].op \in {"set_graphics_rendition", "private_mode_on", "private_mode_off"}
       => Len(calls[i].args) <= MaxParameterCount

\* The calls the property does not speak of.
Unranged == {"print", "execute_control", "save_cursor", "restore_cursor", "reset", "set_title"}

LEMMA RangedCalls ==
  /\ Ranged(<<>>)
  /\ \A byte : Ranged(<<Control(byte)>>) /\ Ranged(EscapeCalls(byte))
  /\ \A codepoints : Ranged(Prints(codepoints))
  /\ Ranged(ExecuteOsc)
<1>1. \A codepoints : Ranged(Prints(codepoints))
  BY DEF Ranged, Prints, Call, Distances, Absolutes
<1>2. \A byte : Ranged(<<Control(byte)>>)
  BY DEF Ranged, Control, Call, Distances, Absolutes
<1>3. \A name \in Unranged : \A args : Ranged(<<Call(name, args)>>)
  BY DEF Ranged, Call, Distances, Absolutes, Unranged
<1>4. Ranged(<<>>)
  BY DEF Ranged
<1>5. \A byte : Ranged(EscapeCalls(byte))
  <2> TAKE byte
  <2>1. Ranged(<<Control(10), Control(13)>>)
    BY DEF Ranged, Control, Call, Distances, Absolutes
  <2> QED BY <1>2, <1>3, <1>4, <2>1 DEF EscapeCalls, Unranged
<1>6. Ranged(ExecuteOsc)
  BY <1>3, <1>4 DEF ExecuteOsc, Unranged
<1> QED BY <1>1, <1>2, <1>4, <1>5, <1>6

LEMMA RangedCsi ==
  ASSUME parameters_ \in Seq(0..255)
  PROVE  \A final : Ranged(ExecuteCsi(final))
<1> TAKE final
<1> DEFINE params == ParseParameters(parameters_)
           mode == ParameterOrDefault(params, 1, 0)
           row == Count(params, 1)
           column == Count(params, 2)
<1>1. params \in ParameterSeq
  <2>1. parameters_ \in Numbers
    BY BytesAreNumbers DEF Numbers
  <2> QED BY <2>1, ParametersInRange
<1> HIDE DEF params
<1>2. mode \in 0..IntMax /\ row \in 1..IntMax /\ row - 1 \in 0..IntMax /\ column - 1 \in 0..IntMax
  BY <1>1, ParameterInRange
<1> HIDE DEF mode, row, column
<1>3. ASSUME NEW name \in Distances PROVE Ranged(<<Call(name, <<row>>)>>)
  BY <1>2 DEF Ranged, Call, Distances, Absolutes
<1>4. Ranged(<<Call("cursor_position", <<row - 1, column - 1>>)>>)
  <2> DEFINE args == <<row - 1, column - 1>>
  <2>1. \A j \in DOMAIN args : args[j] \in 0..IntMax
    BY <1>2
  <2> HIDE DEF args
  <2>2. Ranged(<<Call("cursor_position", args)>>)
    BY <2>1 DEF Ranged, Call, Distances, Absolutes
  <2> QED BY <2>2 DEF args
<1>5. ASSUME NEW name \in {"erase_in_display", "erase_in_line"}
      PROVE  Ranged(<<Call(name, <<mode>>)>>)
  <2> DEFINE args == <<mode>>
  <2>1. \A j \in DOMAIN args : args[j] \in 0..IntMax
    BY <1>2
  <2> HIDE DEF args
  <2>2. Ranged(<<Call(name, args)>>)
    BY <2>1 DEF Ranged, Call, Distances, Absolutes
  <2> QED BY <2>2 DEF args
<1>6. ASSUME NEW name \in {"set_graphics_rendition", "private_mode_on", "private_mode_off"}
      PROVE  Ranged(<<Call(name, params)>>)
  <2>1. Len(params) <= MaxParameterCount
    BY <1>1 DEF ParameterSeq
  <2> QED BY <2>1 DEF Ranged, Call, Distances, Absolutes
<1>7. ASSUME NEW name \in {"save_cursor", "restore_cursor"} PROVE Ranged(<<Call(name, <<>>)>>)
  BY DEF Ranged, Call, Distances, Absolutes
<1>8. Ranged(<<>>)
  BY RangedCalls
<1> DEFINE calls == ExecuteCsi(final)
           handled == {65, 66, 67, 68, 72, 102, 74, 75, 109, 104, 108, 115, 117}
<1>9. CASE final \in {65, 66, 67, 68}
  <2>1. final = 65 => calls = <<Call("cursor_up", <<row>>)>>
    BY DEF ExecuteCsi, params, row
  <2>2. final = 66 => calls = <<Call("cursor_down", <<row>>)>>
    BY DEF ExecuteCsi, params, row
  <2>3. final = 67 => calls = <<Call("cursor_forward", <<row>>)>>
    BY DEF ExecuteCsi, params, row
  <2>4. final = 68 => calls = <<Call("cursor_back", <<row>>)>>
    BY DEF ExecuteCsi, params, row
  <2> HIDE DEF calls
  <2>5. \E name \in Distances : calls = <<Call(name, <<row>>)>>
    BY <1>9, <2>1, <2>2, <2>3, <2>4 DEF Distances
  <2>6. Ranged(calls)
    BY <1>3, <2>5
  <2> QED BY <2>6 DEF calls
<1>10. CASE final \in {72, 102}
  <2>1. calls = <<Call("cursor_position", <<row - 1, column - 1>>)>>
    BY <1>10 DEF ExecuteCsi, params, row, column
  <2> QED BY <1>4, <2>1
<1>11. CASE final \in {74, 75}
  <2>1. final = 74 => calls = <<Call("erase_in_display", <<mode>>)>>
    BY DEF ExecuteCsi, params, mode
  <2>2. final = 75 => calls = <<Call("erase_in_line", <<mode>>)>>
    BY DEF ExecuteCsi, params, mode
  <2> QED BY <1>5, <1>11, <2>1, <2>2
<1>12. CASE final \in {109, 104, 108}
  <2>1. final = 109 => calls = <<Call("set_graphics_rendition", params)>>
    BY DEF ExecuteCsi, params
  <2>2. final = 104 => calls \in {<<>>, <<Call("private_mode_on", params)>>}
    BY DEF ExecuteCsi, params
  <2>3. final = 108 => calls \in {<<>>, <<Call("private_mode_off", params)>>}
    BY DEF ExecuteCsi, params
  <2>4. /\ Ranged(<<Call("set_graphics_rendition", params)>>)
        /\ Ranged(<<Call("private_mode_on", params)>>)
        /\ Ranged(<<Call("private_mode_off", params)>>)
    BY <1>6
  <2> HIDE DEF calls
  <2>5. Ranged(calls)
    BY <1>8, <1>12, <2>1, <2>2, <2>3, <2>4
  <2> QED BY <2>5 DEF calls
<1>13. CASE final \in {115, 117}
  <2>1. final = 115 => calls = <<Call("save_cursor", <<>>)>>
    BY DEF ExecuteCsi
  <2>2. final = 117 => calls = <<Call("restore_cursor", <<>>)>>
    BY DEF ExecuteCsi
  <2> QED BY <1>7, <1>13, <2>1, <2>2
<1>14. CASE final \notin handled
  <2>1. calls = <<>>
    BY <1>14 DEF ExecuteCsi
  <2> QED BY <1>8, <2>1
<1> QED BY <1>9, <1>10, <1>11, <1>12, <1>13, <1>14

LEMMA RangedHear ==
  ASSUME BufferInv, NEW byte \in Bytes, Hear(byte)
  PROVE  Ranged(ops')
<1>1. ProcessByte(byte)
  BY DEF Hear
<1>2. FlushDecoder => Ranged(ops')
  BY RangedCalls DEF FlushDecoder
<1>3. ProcessGround(byte) => Ranged(ops')
  BY <1>2, RangedCalls DEF ProcessGround
<1>4. ProcessEscape(byte) \/ ProcessString(byte) => Ranged(ops')
  BY RangedCalls DEF ProcessEscape, ProcessString
<1>5. ProcessCsi(byte) => Ranged(ops')
  <2>1. parameters_ \in Seq(0..255)
    BY DEF BufferInv, BufferTypes
  <2> QED BY <2>1, RangedCalls, RangedCsi DEF ProcessCsi
<1>6. ProcessOsc(byte) => Ranged(ops')
  BY RangedCalls DEF ProcessOsc
<1> QED BY <1>1, <1>2, <1>3, <1>4, <1>5, <1>6 DEF ProcessByte

(* The screen is never asked to move by nothing or to a negative place,    *)
(* for every sequence of bytes, however long its numbers are               *)
(* (terminal_parser.cpp:214-238,288-325).                                  *)
THEOREM ArgumentsRanged == StreamSpec => []ArgumentsInRange
<1>1. StreamInit => ArgumentsInRange
  BY DEF StreamInit, ParserInit, ArgumentsInRange
<1>2. BufferInv /\ ArgumentsInRange /\ [StreamNext]_svars => BufferInv' /\ ArgumentsInRange'
  <2> SUFFICES ASSUME BufferInv, ArgumentsInRange, [StreamNext]_svars PROVE Ranged(ops')
    BY BufferStep DEF Ranged, ArgumentsInRange
  <2>1. ASSUME NEW byte \in Bytes, Hear(byte) PROVE Ranged(ops')
    BY <2>1, RangedHear
  <2>2. CASE FlushStream \/ ResetStream
    BY <2>2, RangedCalls DEF FlushStream, ResetStream, Flush, Reset, FlushDecoder
  <2>3. CASE UNCHANGED svars
    BY <2>3 DEF svars, vars, Ranged, ArgumentsInRange
  <2> QED BY <2>1, <2>2, <2>3 DEF StreamNext
<1> QED BY <1>1, <1>2, BufferInit, PTL DEF StreamSpec

-----------------------------------------------------------------------------
(***************************************************************************)
(* Types.  A byte feeds, flushes, resets or leaves the decoder alone, and  *)
(* adds at most itself to the parameters, only when it may be collected.   *)
(***************************************************************************)
DecoderTypes ==
  /\ accumulator_ \in Nat /\ minimum_value_ \in Nat /\ remaining_ \in 0..3
  /\ emitted \in Seq(Nat) /\ Len(emitted) <= 2
CollectedTypes == parameters_ \in Seq(Collected)
ModeTypes == private_mode_ \in BOOLEAN
FewCalls == Len(ops) <= 2

TypeInv == BufferInv /\ DecoderTypes /\ CollectedTypes /\ ModeTypes /\ FewCalls

LEMMA LeadTyped ==
  ASSUME NEW byte \in 0..255, NEW before \in {<<>>, Decoder!BrokenOff}, Decoder!Lead(byte, before)
  PROVE  DecoderTypes'
<1>1. before \in Seq(Nat) /\ Len(before) <= 1 /\ Len(before) \in Nat
  <2>1. CASE before = <<>>
    BY <2>1
  <2>2. CASE before = <<Decoder!Replacement>>
    <3>1. Decoder!Replacement \in Nat
      BY DEF Decoder!Replacement
    <3> HIDE DEF Decoder!Replacement
    <3> QED BY <2>2, <3>1
  <2> QED BY <2>1, <2>2 DEF Decoder!BrokenOff
<1>2. \A c \in Nat : Append(before, c) \in Seq(Nat) /\ Len(Append(before, c)) <= 2
  <2> TAKE c \in Nat
  <2>1. Append(before, c) \in Seq(Nat) /\ Len(Append(before, c)) = Len(before) + 1
    BY <1>1, AppendProperties
  <2> QED BY <1>1, <2>1
<1>3. byte \in Nat /\ Decoder!Replacement \in Nat
  BY DEF Decoder!Replacement
<1>4. emitted' \in Seq(Nat) /\ Len(emitted') <= 2
  <2>1. emitted' \in {before, Append(before, byte), Append(before, Decoder!Replacement)}
    BY DEF Decoder!Lead
  <2>2. Len(before) <= 2
    BY <1>1
  <2> QED BY <1>1, <1>2, <1>3, <2>1, <2>2
<1>5. accumulator_' \in Nat /\ minimum_value_' \in Nat /\ remaining_' \in 0..3
  <2>1. byte % 32 \in Nat /\ byte % 16 \in Nat /\ byte % 8 \in Nat
    OBVIOUS
  <2> QED BY <2>1 DEF Decoder!Lead, Decoder!Open, Decoder!Clear
<1> QED BY <1>4, <1>5 DEF DecoderTypes

LEMMA DecoderTyped ==
  ASSUME DecoderTypes, NEW byte \in 0..255,
         Decoder!Feed(byte) \/ Decoder!Flush \/ Decoder!Reset \/ Decoder!Idle
  PROVE  DecoderTypes'
<1>1. CASE remaining_ = 0 /\ Decoder!Lead(byte, <<>>)
  BY <1>1, LeadTyped
<1>2. CASE remaining_ > 0 /\ Decoder!Lead(byte, Decoder!BrokenOff)
  BY <1>2, LeadTyped
<1>3. CASE remaining_ > 0 /\ Decoder!Continue(byte)
  <2> DEFINE value == accumulator_ * 64 + (byte % 64)
             scalar == Decoder!Decoded(value, minimum_value_)
  <2>1. value \in Nat
    <3>1. byte % 64 \in Nat
      OBVIOUS
    <3> QED BY <3>1 DEF DecoderTypes
  <2> HIDE DEF value
  <2>2. scalar \in Nat
    BY <2>1 DEF Decoder!Decoded, Decoder!Replacement
  <2> HIDE DEF scalar
  <2>3. emitted' \in {<<>>, <<scalar>>}
        /\ \/ accumulator_' = value /\ minimum_value_' = minimum_value_
              /\ remaining_' = remaining_ - 1
           \/ accumulator_' = 0 /\ minimum_value_' = 0 /\ remaining_' = 0
    BY <1>3 DEF Decoder!Continue, Decoder!Open, Decoder!Clear, value, scalar
  <2>4. emitted' \in Seq(Nat) /\ Len(emitted') <= 2
    <3>1. CASE emitted' = <<>>
      BY <3>1
    <3>2. CASE emitted' = <<scalar>>
      BY <2>2, <3>2
    <3> QED BY <2>3, <3>1, <3>2
  <2>5. accumulator_' \in Nat /\ minimum_value_' \in Nat /\ remaining_' \in 0..3
    BY <1>3, <2>1, <2>3 DEF DecoderTypes
  <2> QED BY <2>4, <2>5 DEF DecoderTypes
<1>4. CASE Decoder!Flush \/ Decoder!Reset
  <2>1. emitted' \in {<<>>, <<Decoder!Replacement>>} /\ accumulator_' = 0
        /\ minimum_value_' = 0 /\ remaining_' = 0
    BY <1>4 DEF Decoder!Flush, Decoder!Reset, Decoder!Clear
  <2>2. emitted' \in Seq(Nat) /\ Len(emitted') <= 2
    <3>1. CASE emitted' = <<>>
      BY <3>1
    <3>2. CASE emitted' = <<Decoder!Replacement>>
      BY <3>2 DEF Decoder!Replacement
    <3> QED BY <2>1, <3>1, <3>2
  <2> QED BY <2>1, <2>2 DEF DecoderTypes
<1>5. CASE Decoder!Idle
  <2>1. emitted' = <<>> /\ UNCHANGED <<accumulator_, minimum_value_, remaining_>>
    BY <1>5 DEF Decoder!Idle
  <2> QED BY <2>1 DEF DecoderTypes
<1> QED BY <1>1, <1>2, <1>3, <1>4, <1>5 DEF Decoder!Feed

\* What a byte does to the decoder and the buffers.
Decodes(byte) == Decoder!Feed(byte) \/ Decoder!Flush \/ Decoder!Reset \/ Decoder!Idle
Collects(byte) ==
  /\ \/ parameters_' \in {parameters_, <<>>, <<Question>>}
     \/ byte \in Collected /\ parameters_' = Append(parameters_, byte)
  /\ UNCHANGED private_mode_ \/ private_mode_' = TRUE \/ private_mode_' = FALSE

LEMMA HandlersCollect ==
  ASSUME NEW byte \in 0..255, ProcessByte(byte)
  PROVE  Decodes(byte) /\ Collects(byte)
<1>1. \A s : Enter(s) \/ GoTo(s) => Collects(byte)
  BY DEF Enter, GoTo, ClearSequenceBuffers, buffers, Collects
<1>2. FlushDecoder => Decodes(byte)
  BY DEF FlushDecoder, Decodes
<1>3. ProcessGround(byte) => Decodes(byte) /\ Collects(byte)
  BY <1>1, <1>2 DEF ProcessGround, Decodes
<1>4. ProcessEscape(byte) => Decodes(byte) /\ Collects(byte)
  BY <1>1 DEF ProcessEscape, Decodes
<1>5. ProcessString(byte) => Decodes(byte) /\ Collects(byte)
  BY <1>1 DEF ProcessString, Decodes
<1>6. ProcessOsc(byte) => Decodes(byte) /\ Collects(byte)
  <2>1. \A bytes : Payload(bytes) => Collects(byte)
    BY <1>1 DEF Payload, Collects
  <2> QED BY <1>1, <2>1 DEF ProcessOsc, Decodes
<1>7. ProcessCsi(byte) => Decodes(byte) /\ Collects(byte)
  <2>1. byte \in ParameterBytes \cup IntermediateBytes => byte \in Collected
    BY DEF ParameterBytes, IntermediateBytes, Collected
  <2>2. byte \in ParameterBytes \cup IntermediateBytes /\ Collect(byte) => Collects(byte)
    BY <2>1 DEF Collect, Collects
  <2>3. parameters_' = <<Question>> /\ private_mode_' = TRUE => Collects(byte)
    BY DEF Collects
  <2> QED BY <1>1, <2>2, <2>3 DEF ProcessCsi, Decodes
<1> QED BY <1>1, <1>2, <1>3, <1>4, <1>5, <1>6, <1>7 DEF ProcessByte

LEMMA CollectedStep ==
  ASSUME CollectedTypes, ModeTypes, NEW byte \in 0..255, Collects(byte)
  PROVE  CollectedTypes' /\ ModeTypes'
<1>1. ModeTypes'
  BY Zenon DEF ModeTypes, Collects
<1>2. CASE parameters_' = parameters_
  BY <1>1, <1>2 DEF CollectedTypes
<1>3. CASE parameters_' = <<>>
  BY <1>1, <1>3, EmptySeq DEF CollectedTypes
<1>4. CASE parameters_' = <<Question>>
  <2>1. Question \in Collected
    BY DEF Question, Collected
  <2> HIDE DEF Collected
  <2>2. <<Question>> \in Seq(Collected)
    BY <2>1
  <2> QED BY <1>1, <1>4, <2>2 DEF CollectedTypes
<1>5. CASE byte \in Collected /\ parameters_' = Append(parameters_, byte)
  BY <1>1, <1>5, AppendProperties DEF CollectedTypes
<1> QED BY <1>2, <1>3, <1>4, <1>5 DEF Collects

\* A byte makes two calls at most.
Few(calls) == Len(calls) <= 2

LEMMA PrintsFew ==
  ASSUME DecoderTypes'
  PROVE  Few(Prints(emitted'))
<1>1. emitted' \in Seq(Nat) /\ Len(emitted') <= 2 /\ Len(emitted') \in Nat
      /\ DOMAIN emitted' = 1..Len(emitted')
  BY LenProperties DEF DecoderTypes
<1> DEFINE n == Len(emitted')
           calls == [i \in 1..n |-> Call("print", <<emitted'[i]>>)]
<1>2. Prints(emitted') = calls
  BY <1>1 DEF Prints
<1>3. Len(calls) = n
  <2> HIDE DEF n
  <2>1. n \in Nat
    BY <1>1 DEF n
  <2> QED BY <2>1
<1> QED BY <1>1, <1>2, <1>3 DEF Few

LEMMA CallsFew ==
  /\ Few(<<>>)
  /\ \A byte : Few(<<Control(byte)>>) /\ Few(EscapeCalls(byte))
  /\ \A final : Few(ExecuteCsi(final))
  /\ Few(ExecuteOsc)
<1>1. Few(<<>>) /\ \A call : Few(<<call>>)
  BY DEF Few
<1>2. \A a, b : Few(<<a, b>>)
  BY DEF Few
<1>3. \A byte : Few(EscapeCalls(byte))
  BY <1>1, <1>2 DEF EscapeCalls
<1>4. \A final : Few(ExecuteCsi(final))
  BY <1>1 DEF ExecuteCsi
<1>5. Few(ExecuteOsc)
  BY <1>1 DEF ExecuteOsc
<1> QED BY <1>1, <1>3, <1>4, <1>5

LEMMA HearFew ==
  ASSUME DecoderTypes', NEW byte \in Bytes, ProcessByte(byte)
  PROVE  Few(ops')
<1>1. FlushDecoder => Few(ops')
  BY PrintsFew DEF FlushDecoder
<1>2. ProcessGround(byte) => Few(ops')
  BY <1>1, PrintsFew, CallsFew DEF ProcessGround
<1>3. ProcessEscape(byte) \/ ProcessString(byte) => Few(ops')
  BY CallsFew DEF ProcessEscape, ProcessString
<1>4. ProcessCsi(byte) => Few(ops')
  BY CallsFew DEF ProcessCsi
<1>5. ProcessOsc(byte) => Few(ops')
  BY CallsFew DEF ProcessOsc
<1> QED BY <1>1, <1>2, <1>3, <1>4, <1>5 DEF ProcessByte

LEMMA TypeInvStep == TypeInv /\ [StreamNext]_svars => TypeInv'
<1> SUFFICES ASSUME TypeInv, [StreamNext]_svars PROVE TypeInv'
  OBVIOUS
<1>1. BufferInv'
  BY BufferStep DEF TypeInv
<1>2. ASSUME NEW byte \in Bytes, Hear(byte) PROVE TypeInv'
  <2>1. byte \in 0..255 /\ ProcessByte(byte)
    BY <1>2, ParserAssumption DEF Hear
  <2>2. Decodes(byte) /\ Collects(byte)
    BY <2>1, HandlersCollect
  <2>3. DecoderTypes'
    BY <2>1, <2>2, DecoderTyped DEF Decodes, TypeInv
  <2>4. CollectedTypes' /\ ModeTypes'
    BY <2>1, <2>2, CollectedStep DEF TypeInv
  <2>5. Few(ops')
    BY <1>2, <2>1, <2>3, HearFew
  <2> QED BY <1>1, <2>3, <2>4, <2>5 DEF TypeInv, FewCalls, Few
<1>3. ASSUME FlushStream \/ ResetStream PROVE TypeInv'
  <2>1. Decoder!Flush \/ Decoder!Reset
    BY <1>3 DEF FlushStream, ResetStream, Flush, Reset, FlushDecoder
  <2>2. DecoderTypes'
    BY <2>1, DecoderTyped DEF TypeInv
  <2>3. Collects(0)
    BY <1>3 DEF FlushStream, ResetStream, Flush, Reset, Enter, GoTo, ClearSequenceBuffers,
      buffers, Collects
  <2>4. CollectedTypes' /\ ModeTypes'
    BY <2>3, CollectedStep DEF TypeInv
  <2>5. Few(ops')
    BY <1>3, <2>2, PrintsFew, CallsFew DEF FlushStream, ResetStream, Flush, Reset, FlushDecoder
  <2> QED BY <1>1, <2>2, <2>4, <2>5 DEF TypeInv, FewCalls, Few
<1>4. CASE UNCHANGED svars
  BY <1>1, <1>4 DEF svars, vars, buffers, decoder, TypeInv, DecoderTypes, CollectedTypes,
    ModeTypes, FewCalls
<1> QED BY <1>2, <1>3, <1>4 DEF StreamNext

LEMMA StreamTyped == StreamInit => TypeInv
<1> SUFFICES ASSUME StreamInit PROVE TypeInv
  OBVIOUS
<1>1. DecoderTypes
  BY EmptySeq DEF StreamInit, ParserInit, Decoder!Init, DecoderTypes
<1>2. CollectedTypes /\ FewCalls
  BY EmptySeq DEF StreamInit, ParserInit, CollectedTypes, FewCalls
<1>3. ModeTypes
  BY DEF StreamInit, ParserInit, ModeTypes
<1> QED BY <1>1, <1>2, <1>3, BufferInit DEF TypeInv

(* Only parameter and intermediate bytes are collected, the decoder awaits *)
(* at most three bytes, and no byte makes more than two calls              *)
(* (terminal_parser.hpp:50-56).                                            *)
THEOREM ParserTyped == StreamSpec => []ParserTypeOK
<1>1. ASSUME NEW byte \in Bytes, Hear(byte) PROVE recent' \in {"other", "esc", "nf"}
  BY <1>1 DEF Hear
<1>2. TypeInv => (recent \in {"other", "esc", "nf"} => ParserTypeOK)
  BY DEF TypeInv, BufferInv, BufferTypes, ControlInv, ReaderAgrees, DecoderTypes,
    CollectedTypes, ModeTypes, FewCalls, ParserTypeOK
<1>3. StreamInit => recent \in {"other", "esc", "nf"}
  BY DEF StreamInit
<1>4. recent \in {"other", "esc", "nf"} /\ [StreamNext]_svars
        => (recent \in {"other", "esc", "nf"})'
  BY <1>1 DEF StreamNext, FlushStream, ResetStream, Fresh, svars
<1> QED BY <1>2, <1>3, <1>4, StreamTyped, TypeInvStep, PTL DEF StreamSpec
=============================================================================

---------------------------- MODULE Utf8Decoder ----------------------------
(***************************************************************************)
(* spencer::parser::Utf8Decoder: the incremental UTF-8 decoder that sits   *)
(* between the terminal parser and the screen.  feed() takes one byte and  *)
(* calls consumer_ for every code point the byte completes; flush() closes *)
(* an unfinished sequence.  The calls of consumer_ made by one operation   *)
(* are the value of  emitted  after it, in order.                          *)
(***************************************************************************)
EXTENDS Integers, Sequences

VARIABLES
  accumulator_,    \* payload bits of the open sequence
  minimum_value_,  \* least scalar its length may encode
  remaining_,      \* continuation bytes still expected; 0 when none is open
  emitted          \* code points handed to consumer_ by the last operation

vars == <<accumulator_, minimum_value_, remaining_, emitted>>

Byte == 0..255
Continuations == 128..191               \* (byte & 0xC0) == 0x80
Replacement == 65533                    \* U+FFFD
MaximumScalar == 1114111                \* U+10FFFF
Surrogates == 55296..57343              \* U+D800..U+DFFF

Clear ==
  /\ accumulator_' = 0
  /\ minimum_value_' = 0
  /\ remaining_' = 0

Open(payload, minimum, count) ==
  /\ accumulator_' = payload
  /\ minimum_value_' = minimum
  /\ remaining_' = count

\* Faulty variant of Decoded: overlong forms are accepted.
DecodedOverlong(value, minimum) ==
  IF value > MaximumScalar \/ value \in Surrogates THEN Replacement ELSE value

\* Faulty variant of Decoded: nothing is replaced.
DecodedAnyhow(value, minimum) == value

\* What one complete sequence decodes to: overlong forms, surrogates and
\* values past U+10FFFF are replaced.
Decoded(value, minimum) ==
  IF value < minimum \/ value > MaximumScalar \/ value \in Surrogates
  THEN Replacement ELSE value

\* process(byte) with no open sequence, after the code points in  before.
\* Nothing is open, so Clear leaves the three fields as they are.
Lead(byte, before) ==
  \/ byte <= 127 /\ Clear /\ emitted' = Append(before, byte)
  \/ byte \in 194..223 /\ Open(byte % 32, 128, 1) /\ emitted' = before
  \/ byte \in 224..239 /\ Open(byte % 16, 2048, 2) /\ emitted' = before
  \/ byte \in 240..244 /\ Open(byte % 8, 65536, 3) /\ emitted' = before
  \/ byte \in 128..193 \cup 245..255 /\ Clear
     /\ emitted' = Append(before, Replacement)

Continue(byte) ==
  LET value == accumulator_ * 64 + (byte % 64) IN
  \/ remaining_ > 1 /\ Open(value, minimum_value_, remaining_ - 1)
     /\ emitted' = <<>>
  \/ remaining_ = 1 /\ Clear /\ emitted' = <<Decoded(value, minimum_value_)>>

\* Faulty variant of BrokenOff: the open sequence disappears.
BrokenOffSilently == <<>>

\* What a byte that breaks off the open sequence emits before it is looked
\* at afresh.
BrokenOff == <<Replacement>>

Feed(byte) ==
  \/ remaining_ = 0 /\ Lead(byte, <<>>)
  \/ remaining_ > 0 /\ byte \in Continuations /\ Continue(byte)
  \/ remaining_ > 0 /\ byte \notin Continuations /\ Lead(byte, BrokenOff)

Flush ==
  /\ emitted' = IF remaining_ # 0 THEN <<Replacement>> ELSE <<>>
  /\ Clear

\* reset(): the open sequence is forgotten without a word.
Reset == Clear /\ emitted' = <<>>

Idle == emitted' = <<>> /\ UNCHANGED <<accumulator_, minimum_value_, remaining_>>

Init ==
  /\ accumulator_ = 0 /\ minimum_value_ = 0 /\ remaining_ = 0
  /\ emitted = <<>>
=============================================================================

----------------------------- MODULE Utf8Stream -----------------------------
(***************************************************************************)
(* The decoder fed one byte after another, with a history variable that    *)
(* remembers the bytes of the sequence the decoder is in or has just       *)
(* finished.  The Unicode Standard's table of well-formed sequences is the *)
(* reference the decoder's minimum-value arithmetic is compared with.      *)
(***************************************************************************)
EXTENDS Utf8Decoder

CONSTANT Bytes    \* the bytes that may arrive
ASSUME BytesAssumption == Bytes \subseteq Byte

VARIABLE sequence \* history: bytes since the last sequence boundary

svars == <<vars, sequence>>

FeedByte(byte) ==
  /\ Feed(byte)
  /\ sequence' = IF remaining_ > 0 /\ byte \in Continuations
                 THEN Append(sequence, byte) ELSE <<byte>>

FlushStream == Flush /\ sequence' = <<>>
ResetStream == Reset /\ sequence' = <<>>

StreamInit == Init /\ sequence = <<>>
StreamNext == (\E byte \in Bytes : FeedByte(byte)) \/ FlushStream \/ ResetStream
StreamSpec == StreamInit /\ [][StreamNext]_svars

-----------------------------------------------------------------------------
\* The Unicode Standard, table 3-7: the well-formed byte sequences.
Trail == 128..191
WellFormed(s) ==
  \/ Len(s) = 1 /\ s[1] \in 0..127
  \/ Len(s) = 2 /\ s[1] \in 194..223 /\ s[2] \in Trail
  \/ /\ Len(s) = 3 /\ s[3] \in Trail
     /\ \/ s[1] = 224 /\ s[2] \in 160..191
        \/ s[1] \in 225..236 \cup 238..239 /\ s[2] \in Trail
        \/ s[1] = 237 /\ s[2] \in 128..159
  \/ /\ Len(s) = 4 /\ s[3] \in Trail /\ s[4] \in Trail
     /\ \/ s[1] = 240 /\ s[2] \in 144..191
        \/ s[1] \in 241..243 /\ s[2] \in Trail
        \/ s[1] = 244 /\ s[2] \in 128..143

\* The scalar a well-formed sequence stands for.
Scalar(s) ==
  IF Len(s) = 1 THEN s[1]
  ELSE IF Len(s) = 2 THEN (s[1] - 192) * 64 + (s[2] - 128)
  ELSE IF Len(s) = 3 THEN (s[1] - 224) * 4096 + (s[2] - 128) * 64 + (s[3] - 128)
  ELSE (s[1] - 240) * 262144 + (s[2] - 128) * 4096 + (s[3] - 128) * 64 + (s[4] - 128)

-----------------------------------------------------------------------------
(* Types of the decoder's fields: at most three continuation bytes are     *)
(* awaited, the accumulator keeps within the 21 bits a sequence can carry  *)
(* (so the shift in process() never loses a bit of a char32_t), and one    *)
(* call reports at most two code points (utf8_decoder.cpp:66-71).          *)
TypeOK ==
  /\ accumulator_ \in Nat /\ accumulator_ < 2097152
  /\ minimum_value_ \in {0, 128, 2048, 65536}
  /\ remaining_ \in 0..3
  /\ emitted \in Seq(0..MaximumScalar) /\ Len(emitted) <= 2
  /\ sequence \in Seq(Byte)

(* Once a sequence is finished, what the consumer was told last is the     *)
(* scalar the Unicode table assigns to its bytes, or U+FFFD when the table *)
(* has no such sequence: overlong forms, surrogates and values past        *)
(* U+10FFFF never get through, and no well-formed sequence is refused.     *)
DecodesAsUnicode ==
  remaining_ = 0 /\ sequence # <<>> =>
    /\ emitted # <<>>
    /\ emitted[Len(emitted)] = IF WellFormed(sequence)
                               THEN Scalar(sequence) ELSE Replacement

(* "malformed/incomplete encodings become U+FFFD": an open sequence that a *)
(* byte breaks off or a flush closes is reported as U+FFFD before anything *)
(* else; only reset() may forget it.                                       *)
IncompleteIsReplaced ==
  [][remaining_ > 0 /\ ~(sequence' # <<>> /\ Len(sequence') > 1)
       => ResetStream \/ (emitted' # <<>> /\ emitted'[1] = Replacement)]_svars
=============================================================================

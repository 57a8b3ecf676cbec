----------------------------- MODULE Utf8Proofs -----------------------------
(***************************************************************************)
(* That the decoder agrees with the Unicode Standard's table of well-      *)
(* formed sequences on every stream of bytes.  The table names byte        *)
(* ranges, the code compares one accumulated number with a minimum; what   *)
(* connects them is that the fields of an open sequence are a function of  *)
(* its bytes so far, which  FieldsFollowBytes  says.                       *)
(***************************************************************************)
EXTENDS Utf8Stream, TLAPS

PayloadOf(lead) ==
  IF lead <= 223 THEN lead - 192 ELSE IF lead <= 239 THEN lead - 224 ELSE lead - 240

MinimumOf(lead) == IF lead <= 223 THEN 128 ELSE IF lead <= 239 THEN 2048 ELSE 65536

\* How many bytes a sequence with this lead has.
Needs(lead) == IF lead <= 223 THEN 2 ELSE IF lead <= 239 THEN 3 ELSE 4

\* The fields of an open sequence  s  that awaits  r  more bytes.
Fields(s, r, accumulator, minimum) ==
  /\ Len(s) \in 1..3 /\ s[1] \in 194..244
  /\ Len(s) + r = Needs(s[1])
  /\ Len(s) >= 2 => s[2] \in Trail
  /\ Len(s) >= 3 => s[3] \in Trail
  /\ minimum = MinimumOf(s[1])
  /\ Len(s) = 1 => accumulator = PayloadOf(s[1])
  /\ Len(s) = 2 => accumulator = PayloadOf(s[1]) * 64 + (s[2] - 128)
  /\ Len(s) = 3 => accumulator = PayloadOf(s[1]) * 4096 + (s[2] - 128) * 64 + (s[3] - 128)

FieldsFollowBytes ==
  remaining_ > 0 => Fields(sequence, remaining_, accumulator_, minimum_value_)

IInv == TypeOK /\ FieldsFollowBytes /\ DecodesAsUnicode


\* What the proofs need to know of the largest scalar.
LEMMA ScalarRange ==
  /\ MaximumScalar \in Nat /\ MaximumScalar >= 255
  /\ Replacement \in Nat /\ Replacement <= MaximumScalar
  BY SMT DEF MaximumScalar, Replacement

LEMMA LeadPayload ==
  ASSUME NEW byte \in 194..244
  PROVE  /\ byte <= 223 => byte % 32 = byte - 192
         /\ byte \in 224..239 => byte % 16 = byte - 224
         /\ byte >= 240 => byte % 8 = byte - 240
  OBVIOUS

LEMMA ContinuationPayload ==
  ASSUME NEW byte \in 128..191
  PROVE  byte % 64 = byte - 128
  OBVIOUS

\* The checks at the end of a sequence amount to its row of the table.
LEMMA LastOfTwo ==
  ASSUME NEW t, Len(t) = 2, t[1] \in 194..223, t[2] \in Trail
  PROVE  Decoded((t[1] - 192) * 64 + (t[2] - 128), 128) =
           IF WellFormed(t) THEN Scalar(t) ELSE Replacement
<1>1. PICK a \in 194..223, b \in Trail : t[1] = a /\ t[2] = b
  OBVIOUS
<1> QED
  BY SMT, <1>1 DEF Decoded, WellFormed, Trail, Scalar, Surrogates, MaximumScalar, Replacement

LEMMA LastOfThree ==
  ASSUME NEW t, Len(t) = 3, t[1] \in 224..239, t[2] \in Trail, t[3] \in Trail
  PROVE  Decoded(((t[1] - 224) * 64 + (t[2] - 128)) * 64 + (t[3] - 128), 2048) =
           IF WellFormed(t) THEN Scalar(t) ELSE Replacement
<1>1. PICK a \in 224..239, b \in Trail, c \in Trail : t[1] = a /\ t[2] = b /\ t[3] = c
  OBVIOUS
<1> QED
  BY SMT, <1>1 DEF Decoded, WellFormed, Trail, Scalar, Surrogates, MaximumScalar, Replacement

LEMMA LastOfFour ==
  ASSUME NEW t, Len(t) = 4, t[1] \in 240..244,
         t[2] \in Trail, t[3] \in Trail, t[4] \in Trail
  PROVE  Decoded(((t[1] - 240) * 4096 + (t[2] - 128) * 64 + (t[3] - 128)) * 64 + (t[4] - 128), 65536) =
           IF WellFormed(t) THEN Scalar(t) ELSE Replacement
<1>1. PICK a \in 240..244, b \in Trail, c \in Trail, d \in Trail :
        t[1] = a /\ t[2] = b /\ t[3] = c /\ t[4] = d
  OBVIOUS
<1> QED
  BY SMT, <1>1 DEF Decoded, WellFormed, Trail, Scalar, Surrogates, MaximumScalar, Replacement

LEMMA PayloadRange ==
  ASSUME NEW lead \in 194..244
  PROVE  PayloadOf(lead) \in 0..31
  BY DEF PayloadOf

\* A byte that starts afresh, after whatever  before  reports.
LEMMA LeadKeeps ==
  ASSUME NEW byte \in Byte, NEW before \in Seq(0..MaximumScalar), Len(before) <= 1,
         Lead(byte, before), sequence' = <<byte>>
  PROVE  IInv'
<1> USE SMT DEF IInv, TypeOK, FieldsFollowBytes, Fields, DecodesAsUnicode, Byte
<1>1. CASE byte <= 127 /\ Clear /\ emitted' = Append(before, byte)
  BY <1>1, ScalarRange DEF Clear, WellFormed, Scalar
<1>2. CASE byte \in 194..223 /\ Open(byte % 32, 128, 1) /\ emitted' = before
  <2>1. byte % 32 = byte - 192
    BY <1>2, LeadPayload
  <2> QED BY <1>2, <2>1 DEF Open, Needs, MinimumOf, PayloadOf
<1>3. CASE byte \in 224..239 /\ Open(byte % 16, 2048, 2) /\ emitted' = before
  <2>1. byte % 16 = byte - 224
    BY <1>3, LeadPayload
  <2> QED BY <1>3, <2>1 DEF Open, Needs, MinimumOf, PayloadOf
<1>4. CASE byte \in 240..244 /\ Open(byte % 8, 65536, 3) /\ emitted' = before
  <2>1. byte % 8 = byte - 240
    BY <1>4, LeadPayload
  <2> QED BY <1>4, <2>1 DEF Open, Needs, MinimumOf, PayloadOf
<1>5. CASE byte \in 128..193 \cup 245..255 /\ Clear /\ emitted' = Append(before, Replacement)
  BY <1>5, ScalarRange DEF Clear, WellFormed
<1> QED BY <1>1, <1>2, <1>3, <1>4, <1>5 DEF Lead

LEMMA AppendByte ==
  ASSUME NEW s \in Seq(Byte), NEW b \in Byte
  PROVE  /\ Append(s, b) \in Seq(Byte) /\ Len(Append(s, b)) = Len(s) + 1
         /\ \A i \in 1..Len(s) : Append(s, b)[i] = s[i]
         /\ Append(s, b)[Len(s) + 1] = b
  OBVIOUS

\* A continuation byte that is not the last one.
LEMMA Grows ==
  ASSUME NEW s \in Seq(Byte), NEW r \in 2..3, NEW accumulator, NEW minimum,
         Fields(s, r, accumulator, minimum), NEW byte \in Trail,
         NEW value, value = accumulator * 64 + (byte - 128)
  PROVE  /\ Fields(Append(s, byte), r - 1, value, minimum)
         /\ value \in Nat /\ value < 2097152
<1> DEFINE t == Append(s, byte)
<1>1. PICK lead \in 194..244 : s[1] = lead
  BY DEF Fields
<1>2. /\ minimum = MinimumOf(lead) /\ Len(s) \in 1..3 /\ Len(s) + r = Needs(lead)
      /\ Len(s) >= 2 => s[2] \in Trail
      /\ Len(s) >= 3 => s[3] \in Trail
      /\ Len(s) = 1 => accumulator = PayloadOf(lead)
      /\ Len(s) = 2 => accumulator = PayloadOf(lead) * 64 + (s[2] - 128)
      /\ Len(s) = 3 => accumulator = PayloadOf(lead) * 4096 + (s[2] - 128) * 64 + (s[3] - 128)
  BY SMT, <1>1 DEF Fields
<1>3. PICK p \in 0..31 : p = PayloadOf(lead)
  BY PayloadRange
<1>4. /\ Len(t) = Len(s) + 1 /\ t[Len(s) + 1] = byte
      /\ \A i \in 1..Len(s) : t[i] = s[i]
  BY AppendByte DEF Trail, Byte
<1> HIDE DEF t
<1>5. CASE Len(s) = 1
  <2>1. /\ Len(t) = 2 /\ t[1] = lead /\ t[2] = byte
        /\ r + 1 = Needs(lead) /\ value = p * 64 + (byte - 128)
    BY SMT, <1>2, <1>1, <1>3, <1>4, <1>5
  <2>2. value \in Nat /\ value < 2097152
    <3>1. value = p * 64 + (byte - 128)
      BY <2>1
    <3> QED BY SMT, <3>1 DEF Trail
  <2>3. Fields(t, r - 1, value, minimum)
    BY SMT, <1>2, <1>1, <1>3, <2>1 DEF Fields
  <2> QED BY <2>2, <2>3 DEF t
<1>6. CASE Len(s) = 2
  <2>1. PICK b \in Trail : s[2] = b
    BY <1>2, <1>6
  <2>2. /\ r + 2 = Needs(lead) /\ s[2] = b
        /\ accumulator = p * 64 + (b - 128)
    BY SMT, <1>2, <1>3, <1>6, <2>1
  <2>3. value = p * 4096 + (b - 128) * 64 + (byte - 128)
    BY SMT, <2>2 DEF Trail
  <2>4. Len(t) = 3 /\ t[1] = lead /\ t[2] = b /\ t[3] = byte
    BY SMT, <1>1, <1>4, <1>6, <2>2
  <2>5. value \in Nat /\ value < 2097152
    BY SMT, <2>3 DEF Trail
  <2>6. Fields(t, r - 1, value, minimum)
    BY SMT, <1>2, <1>1, <1>3, <2>1, <2>2, <2>3, <2>4 DEF Fields
  <2> QED BY <2>5, <2>6 DEF t
<1> QED BY SMT, <1>2, <1>5, <1>6 DEF Needs

\* The last continuation byte.
LEMMA Finishes ==
  ASSUME NEW s \in Seq(Byte), NEW accumulator, NEW minimum,
         Fields(s, 1, accumulator, minimum), NEW byte \in Trail,
         NEW value, value = accumulator * 64 + (byte - 128)
  PROVE  /\ Decoded(value, minimum) = IF WellFormed(Append(s, byte))
                                      THEN Scalar(Append(s, byte)) ELSE Replacement
         /\ Decoded(value, minimum) \in 0..MaximumScalar
<1> DEFINE t == Append(s, byte)
           Agrees == Decoded(value, minimum) = IF WellFormed(t) THEN Scalar(t) ELSE Replacement
           InRange == value \in Nat /\ minimum \in Nat
<1>1. PICK lead \in 194..244 : s[1] = lead
  BY DEF Fields
<1>2. /\ minimum = MinimumOf(lead) /\ Len(s) \in 1..3 /\ Len(s) + 1 = Needs(lead)
      /\ Len(s) >= 2 => s[2] \in Trail
      /\ Len(s) >= 3 => s[3] \in Trail
      /\ Len(s) = 1 => accumulator = PayloadOf(lead)
      /\ Len(s) = 2 => accumulator = PayloadOf(lead) * 64 + (s[2] - 128)
      /\ Len(s) = 3 => accumulator = PayloadOf(lead) * 4096 + (s[2] - 128) * 64 + (s[3] - 128)
  BY SMT, <1>1 DEF Fields
<1>3. /\ Len(t) = Len(s) + 1 /\ t[Len(s) + 1] = byte
      /\ \A i \in 1..Len(s) : t[i] = s[i]
  BY AppendByte DEF Trail, Byte
<1> HIDE DEF t
<1>4. ASSUME Len(s) = 1 PROVE Agrees /\ InRange
  <2>1. Len(t) = 2 /\ t[1] = lead /\ t[2] = byte
    BY SMT, <1>2, <1>1, <1>3, <1>4
  <2>2. lead \in 194..223 /\ minimum = 128 /\ accumulator = lead - 192
    BY SMT, <1>2, <1>4 DEF Needs, MinimumOf, PayloadOf
  <2>3. value = (lead - 192) * 64 + (byte - 128)
    BY SMT, <2>2
  <2>4. Agrees
    <3>1. t[1] \in 194..223 /\ t[2] \in Trail
      BY <2>1, <2>2
    <3>2. Decoded((t[1] - 192) * 64 + (t[2] - 128), 128) =
            IF WellFormed(t) THEN Scalar(t) ELSE Replacement
      BY <2>1, <3>1, LastOfTwo
    <3> QED BY <2>1, <2>2, <2>3, <3>2
  <2>5. InRange
    BY SMT, <2>2, <2>3 DEF Trail
  <2> QED BY <2>4, <2>5
<1>5. ASSUME Len(s) = 2 PROVE Agrees /\ InRange
  <2>1. PICK b \in Trail : s[2] = b
    BY <1>2, <1>5
  <2>2. /\ 1 + 2 = Needs(lead) /\ s[2] = b
        /\ accumulator = PayloadOf(lead) * 64 + (b - 128)
    BY SMT, <1>2, <1>5, <2>1
  <2>3. Len(t) = 3 /\ t[1] = lead /\ t[2] = b /\ t[3] = byte
    BY SMT, <1>1, <1>3, <1>5, <2>2
  <2>4. /\ lead \in 224..239 /\ minimum = 2048
        /\ accumulator = (lead - 224) * 64 + (b - 128)
    BY SMT, <1>2, <2>2 DEF Needs, MinimumOf, PayloadOf
  <2>5. value = ((lead - 224) * 64 + (b - 128)) * 64 + (byte - 128)
    BY SMT, <2>4
  <2>6. Agrees
    <3>1. t[1] \in 224..239 /\ t[2] \in Trail /\ t[3] \in Trail
      BY <2>1, <2>3, <2>4
    <3>2. Decoded(((t[1] - 224) * 64 + (t[2] - 128)) * 64 + (t[3] - 128), 2048) =
            IF WellFormed(t) THEN Scalar(t) ELSE Replacement
      BY SMTT(30), <2>3, <3>1, LastOfThree
    <3> QED BY <2>3, <2>4, <2>5, <3>2
  <2>7. InRange
    BY SMT, <2>4, <2>5 DEF Trail
  <2> QED BY <2>6, <2>7
<1>6. ASSUME Len(s) = 3 PROVE Agrees /\ InRange
  <2>1. PICK b, c \in Trail : s[2] = b /\ s[3] = c
    BY <1>2, <1>6
  <2>2. /\ 1 + 3 = Needs(lead) /\ s[2] = b /\ s[3] = c
        /\ accumulator = PayloadOf(lead) * 4096 + (b - 128) * 64 + (c - 128)
    BY SMT, <1>2, <1>6, <2>1
  <2>3. Len(t) = 4 /\ t[1] = lead /\ t[2] = b /\ t[3] = c /\ t[4] = byte
    BY SMT, <1>1, <1>3, <1>6, <2>2
  <2>4. /\ lead \in 240..244 /\ minimum = 65536
        /\ accumulator = (lead - 240) * 4096 + (b - 128) * 64 + (c - 128)
    BY SMT, <1>2, <2>2 DEF Needs, MinimumOf, PayloadOf
  <2>5. value = ((lead - 240) * 4096 + (b - 128) * 64 + (c - 128)) * 64 + (byte - 128)
    BY SMT, <2>4
  <2>6. Agrees
    <3>1. t[1] \in 240..244 /\ t[2] \in Trail /\ t[3] \in Trail /\ t[4] \in Trail
      BY <2>1, <2>3, <2>4
    <3>2. Decoded(((t[1] - 240) * 4096 + (t[2] - 128) * 64 + (t[3] - 128)) * 64 + (t[4] - 128), 65536) =
            IF WellFormed(t) THEN Scalar(t) ELSE Replacement
      BY <2>3, <3>1, LastOfFour
    <3> QED BY <2>3, <2>4, <2>5, <3>2
  <2>7. InRange
    BY SMT, <2>4, <2>5 DEF Trail
  <2> QED BY <2>6, <2>7
<1>7. Agrees /\ InRange
  BY <1>2, <1>4, <1>5, <1>6
<1>8. Decoded(value, minimum) \in 0..MaximumScalar
  BY SMT, <1>7, ScalarRange DEF Decoded
<1> QED BY <1>7, <1>8 DEF t

\* A continuation byte of the open sequence.
LEMMA ContinueKeeps ==
  ASSUME IInv, NEW byte \in Continuations, remaining_ > 0,
         Continue(byte), sequence' = Append(sequence, byte)
  PROVE  IInv'
<1> DEFINE value == accumulator_ * 64 + (byte - 128)
<1>1. byte \in Trail /\ byte \in Byte /\ byte % 64 = byte - 128
  BY ContinuationPayload DEF Continuations, Byte, Trail
<1>2. /\ sequence \in Seq(Byte) /\ remaining_ \in 1..3
      /\ minimum_value_ \in {0, 128, 2048, 65536}
      /\ Fields(sequence, remaining_, accumulator_, minimum_value_)
  BY SMT DEF IInv, TypeOK, FieldsFollowBytes
<1>3. sequence' \in Seq(Byte) /\ sequence' # <<>>
  BY <1>1, <1>2, AppendByte
<1>4. CASE remaining_ > 1 /\ Open(value, minimum_value_, remaining_ - 1) /\ emitted' = <<>>
  <2>1. /\ Fields(sequence', remaining_ - 1, value, minimum_value_)
        /\ value \in Nat /\ value < 2097152
    <3>1. remaining_ \in 2..3
      BY <1>2, <1>4
    <3> QED BY <1>1, <1>2, <3>1, Grows
  <2> HIDE DEF value
  <2>2. FieldsFollowBytes'
    BY <1>4, <2>1 DEF FieldsFollowBytes, Open
  <2>3. TypeOK'
    BY SMT, <1>2, <1>3, <1>4, <2>1 DEF TypeOK, Open
  <2>4. DecodesAsUnicode'
    BY SMT, <1>2, <1>4 DEF DecodesAsUnicode, Open
  <2> QED BY <2>2, <2>3, <2>4 DEF IInv
<1>5. CASE remaining_ = 1 /\ Clear /\ emitted' = <<Decoded(value, minimum_value_)>>
  <2>1. /\ Decoded(value, minimum_value_) =
             IF WellFormed(sequence') THEN Scalar(sequence') ELSE Replacement
        /\ Decoded(value, minimum_value_) \in 0..MaximumScalar
    BY <1>1, <1>2, <1>5, Finishes
  <2> HIDE DEF value
  <2>2. TypeOK'
    BY SMT, <1>3, <1>5, <2>1 DEF TypeOK, Clear
  <2>3. FieldsFollowBytes'
    BY SMT, <1>5 DEF FieldsFollowBytes, Clear
  <2>4. DecodesAsUnicode'
    BY SMT, <1>5, <2>1 DEF DecodesAsUnicode
  <2> QED BY <2>2, <2>3, <2>4 DEF IInv
<1> QED BY SMT, <1>1, <1>4, <1>5 DEF Continue

LEMMA IInvInit == StreamInit => IInv
  BY SMT DEF StreamInit, Init, IInv, TypeOK, FieldsFollowBytes, DecodesAsUnicode

LEMMA IInvNext == IInv /\ [StreamNext]_svars => IInv'
<1> SUFFICES ASSUME IInv, [StreamNext]_svars PROVE IInv'
  OBVIOUS
<1>1. ASSUME NEW byte \in Bytes, FeedByte(byte) PROVE IInv'
  <2>1. byte \in Byte
    BY BytesAssumption
  <2>2. CASE remaining_ = 0 /\ Lead(byte, <<>>)
    <3>1. <<>> \in Seq(0..MaximumScalar) /\ Len(<<>>) <= 1
      OBVIOUS
    <3>2. sequence' = <<byte>>
      BY <1>1, <2>2 DEF FeedByte
    <3> QED BY <2>1, <2>2, <3>1, <3>2, LeadKeeps
  <2>3. CASE remaining_ > 0 /\ byte \in Continuations /\ Continue(byte)
    BY <1>1, <2>3, ContinueKeeps DEF FeedByte
  <2>4. CASE remaining_ > 0 /\ byte \notin Continuations /\ Lead(byte, BrokenOff)
    <3>1. BrokenOff \in Seq(0..MaximumScalar) /\ Len(BrokenOff) <= 1
      BY ScalarRange DEF BrokenOff
    <3>2. sequence' = <<byte>>
      BY <1>1, <2>4 DEF FeedByte
    <3> QED BY <2>1, <2>4, <3>1, <3>2, LeadKeeps
  <2> QED BY <1>1, <2>2, <2>3, <2>4 DEF FeedByte, Feed
<1>2. CASE FlushStream
  <2>1. /\ accumulator_' = 0 /\ minimum_value_' = 0 /\ remaining_' = 0 /\ sequence' = <<>>
        /\ emitted' \in {<<>>, <<Replacement>>}
    BY <1>2 DEF FlushStream, Flush, Clear
  <2>2. emitted' \in Seq(0..MaximumScalar) /\ Len(emitted') <= 2
    <3>1. CASE emitted' = <<>>
      BY <3>1
    <3>2. CASE emitted' = <<Replacement>>
      BY <3>2, ScalarRange
    <3> QED BY <2>1, <3>1, <3>2
  <2> QED BY SMT, <2>1, <2>2 DEF IInv, TypeOK, FieldsFollowBytes, DecodesAsUnicode
<1>3. CASE ResetStream
  BY SMT, <1>3 DEF ResetStream, Reset, Clear, IInv, TypeOK, FieldsFollowBytes, DecodesAsUnicode
<1>4. CASE UNCHANGED svars
  BY SMT, <1>4 DEF svars, vars, IInv, TypeOK, FieldsFollowBytes, DecodesAsUnicode
<1> QED BY <1>1, <1>2, <1>3, <1>4 DEF StreamNext

LEMMA Invariance == StreamSpec => []IInv
  BY IInvInit, IInvNext, PTL DEF StreamSpec

(* The fields stay within their ranges, so the shift by six bits of        *)
(* process() never drops a bit (utf8_decoder.cpp:41-59,73).                   *)
THEOREM TypeCorrect == StreamSpec => []TypeOK
<1>1. IInv => TypeOK
  BY DEF IInv
<1> QED BY <1>1, Invariance, PTL

(* On every stream of bytes the decoder and the Unicode table agree        *)
(* (utf8_decoder.cpp:34-87).                                               *)
THEOREM AgreesWithUnicode == StreamSpec => []DecodesAsUnicode
<1>1. IInv => DecodesAsUnicode
  BY DEF IInv
<1> QED BY <1>1, Invariance, PTL

(* No incomplete sequence is dropped without a U+FFFD, except by reset()   *)
(* (utf8_decoder.cpp:17-22,66-71).                                         *)
THEOREM NothingDropped == StreamSpec => IncompleteIsReplaced
<1>1. IInv /\ [StreamNext]_svars =>
        [remaining_ > 0 /\ ~(sequence' # <<>> /\ Len(sequence') > 1)
           => ResetStream \/ (emitted' # <<>> /\ emitted'[1] = Replacement)]_svars
  <2> SUFFICES ASSUME IInv, StreamNext, remaining_ > 0,
                      ~(sequence' # <<>> /\ Len(sequence') > 1), ~ResetStream
               PROVE  emitted' # <<>> /\ emitted'[1] = Replacement
    OBVIOUS
  <2>1. CASE FlushStream
    BY SMT, <2>1 DEF FlushStream, Flush, IInv, TypeOK
  <2>2. ASSUME NEW byte \in Bytes, FeedByte(byte)
        PROVE  emitted' # <<>> /\ emitted'[1] = Replacement
    <3>1. byte \notin Continuations
      BY SMT, <2>2, BytesAssumption DEF FeedByte, IInv, TypeOK, FieldsFollowBytes, Fields, Byte
    <3>2. Lead(byte, BrokenOff)
      BY <2>2, <3>1 DEF FeedByte, Feed
    <3> QED BY SMT, <3>2, BytesAssumption DEF Lead, BrokenOff, Byte
  <2> QED BY <2>1, <2>2 DEF StreamNext
<1> QED BY <1>1, Invariance, PTL DEF StreamSpec, IncompleteIsReplaced
=============================================================================

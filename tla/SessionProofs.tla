---------------------------- MODULE SessionProofs ----------------------------
(***************************************************************************)
(* Proofs about the session for every number of windows, every shell, and  *)
(* every bound: the sources, the sizes, that the bytes and the keys are    *)
(* relayed, and the types.                                                 *)
(***************************************************************************)
EXTENDS Session, Induction, TLAPS, SequenceTheorems

-----------------------------------------------------------------------------
(***************************************************************************)
(* Sources.  The invariant ties the ids to the sources: a closed session   *)
(* has no ids, the callback that runs is that of a live source, and the    *)
(* only source one activation can have is the one whose id is kept.        *)
(***************************************************************************)
SourceTypes ==
  /\ activations \in Nat /\ pty_ \in 0..activations
  /\ sources \subseteq 1..activations /\ timers \subseteq 1..activations
CallbackLive ==
  /\ pc \in {"loop", "reading", "fed", "writing"}
  /\ pc # "loop" => pty_ # Nobody
  /\ pc \in {"reading", "fed"} => dispatched \in sources
ClosedHasNoId == pty_ = Nobody => pty_source_id_ = Nobody /\ blink_source_id_ = Nobody
SoleSource ==
  activations = 1 => sources \subseteq {pty_source_id_} /\ timers \subseteq {blink_source_id_}

SourceInv ==
  SourceTypes /\ SessionWatched /\ IdsNameLiveSources /\ CallbackLive /\ ClosedHasNoId
    /\ SoleSource

\* The part of the state the invariant speaks of, but for pc.
sourceVars == <<loop, pty_, dispatched, exit_status_, failed>>

LEMMA SourceInvInit == Init => SourceInv
  BY DEF Init, SourceInv, SourceTypes, SessionWatched, IdsNameLiveSources,
    CallbackLive,
    ClosedHasNoId, SoleSource, Nobody

LEMMA SourceInvFrame ==
  ASSUME SourceInv, UNCHANGED sourceVars,
         \/ UNCHANGED pc
         \/ pc' \in {"loop", "writing"} /\ pty_ # Nobody
  PROVE  SourceInv'
  BY DEF SourceInv, SourceTypes, SessionWatched, IdsNameLiveSources, CallbackLive,
    ClosedHasNoId, SoleSource, sourceVars, loop, Nobody

LEMMA SourceInvActivate ==
  ASSUME SourceInv, NEW n \in Numbers, Activate(n) \/ ActivateFails(n)
  PROVE  SourceInv'
<1>0. n \in Nat /\ n # 0 /\ n = activations + 1
  BY SessionAssumption DEF Numbers, Activate, ActivateFails, Opened
<1>1. CASE Activate(n)
  <2>1. SourceTypes'
    BY <1>0, <1>1 DEF Activate, Opened, Spawned, Started, SourceInv,
      SourceTypes, Nobody
  <2>2. SessionWatched'
    BY <1>0, <1>1 DEF Activate, Opened, Spawned, Started, SourceInv,
      SourceTypes, SessionWatched, Nobody
  <2>3. IdsNameLiveSources'
    BY <1>0, <1>1 DEF Activate, Opened, Spawned, Started, SourceInv,
      SourceTypes, IdsNameLiveSources, Nobody
  <2>4. CallbackLive'
    BY <1>0, <1>1 DEF Activate, Opened, Spawned, Started, SourceInv,
      CallbackLive, Nobody
  <2>5. ClosedHasNoId'
    BY <1>0, <1>1 DEF Activate, Opened, Spawned, Started, SourceInv,
      ClosedHasNoId, Nobody
  <2>6. SoleSource'
    BY <1>0, <1>1 DEF Activate, Opened, Spawned, Started, SourceInv, SourceTypes,
      CallbackLive, ClosedHasNoId, SoleSource, IdsNameLiveSources, Nobody
  <2> QED BY <2>1, <2>2, <2>3, <2>4, <2>5, <2>6 DEF SourceInv
<1>2. CASE ActivateFails(n)
  BY <1>0, <1>2 DEF ActivateFails, Opened, process, SourceInv, SourceTypes,
    SessionWatched, IdsNameLiveSources, CallbackLive, ClosedHasNoId, SoleSource, Nobody
<1> QED BY <1>1, <1>2

LEMMA SourceInvDispatch ==
  ASSUME SourceInv, NEW s \in Numbers, Dispatch(s)
  PROVE  SourceInv'
<1>1. SourceTypes'
  BY DEF Dispatch, rest, process, SourceInv, SourceTypes, Nobody
<1>2. SessionWatched'
  BY DEF Dispatch, rest, process, SourceInv, SourceTypes, SessionWatched, Nobody
<1>3. IdsNameLiveSources'
  BY DEF Dispatch, rest, process, SourceInv, SourceTypes, IdsNameLiveSources,
    ClosedHasNoId, Nobody
<1>4. CallbackLive'
  BY DEF Dispatch, rest, process, SourceInv, CallbackLive, Nobody
<1>5. ClosedHasNoId'
  BY DEF Dispatch, rest, process, SourceInv, ClosedHasNoId, Nobody
<1>6. SoleSource'
  BY DEF Dispatch, rest, process, SourceInv, SourceTypes,
    CallbackLive, ClosedHasNoId, SoleSource, IdsNameLiveSources, Nobody
<1> QED BY <1>1, <1>2, <1>3, <1>4, <1>5, <1>6 DEF SourceInv

LEMMA SourceInvReadPty ==
  ASSUME SourceInv, ReadPty
  PROVE  SourceInv'
<1>1. CASE ReadSome
  BY <1>1, SourceInvFrame DEF ReadSome, rest, process, sourceVars, loop
<1>2. CASE ReadEnds
  BY <1>2 DEF ReadEnds, Reap, rest, SourceInv, SourceTypes, SessionWatched,
    IdsNameLiveSources, CallbackLive, ClosedHasNoId, SoleSource, Nobody
<1>3. CASE ReadThrows
  <2>1. SourceTypes'
    BY <1>3 DEF ReadThrows, Removed, rest, process, SourceInv, SourceTypes, Nobody
  <2>2. SessionWatched'
    BY <1>3 DEF ReadThrows, Removed, rest, process, SourceInv, SourceTypes,
      SessionWatched, Nobody
  <2>3. IdsNameLiveSources'
    BY <1>3 DEF ReadThrows, Removed, rest, process, SourceInv, SourceTypes,
      IdsNameLiveSources, Nobody
  <2>4. CallbackLive'
    BY <1>3 DEF ReadThrows, Removed, rest, process, SourceInv, CallbackLive, Nobody
  <2>5. ClosedHasNoId'
    BY <1>3 DEF ReadThrows, Removed, rest, process, SourceInv, ClosedHasNoId, Nobody
  <2>6. SoleSource'
    BY <1>3 DEF ReadThrows, Removed, rest, process, SourceInv, SourceTypes,
      CallbackLive, ClosedHasNoId, SoleSource, IdsNameLiveSources, Nobody
  <2> QED BY <2>1, <2>2, <2>3, <2>4, <2>5, <2>6 DEF SourceInv
<1>4. CASE CheckStatus
  <2>1. SourceTypes'
    BY <1>4 DEF CheckStatus, Reap, Removed, rest, SourceInv, SourceTypes, Nobody
  <2>2. SessionWatched'
    BY <1>4 DEF CheckStatus, Reap, Removed, rest, SourceInv, SourceTypes,
      SessionWatched, Nobody
  <2>3. IdsNameLiveSources'
    BY <1>4 DEF CheckStatus, Reap, Removed, rest, SourceInv, SourceTypes,
      IdsNameLiveSources, Nobody
  <2>4. CallbackLive'
    BY <1>4 DEF CheckStatus, Reap, Removed, rest, SourceInv, CallbackLive, Nobody
  <2>5. ClosedHasNoId'
    BY <1>4 DEF CheckStatus, Reap, Removed, rest, SourceInv, ClosedHasNoId, Nobody
  <2>6. SoleSource'
    BY <1>4 DEF CheckStatus, Reap, Removed, rest, SourceInv, SourceTypes,
      CallbackLive, ClosedHasNoId, SoleSource, IdsNameLiveSources, Nobody
  <2> QED BY <2>1, <2>2, <2>3, <2>4, <2>5, <2>6 DEF SourceInv
<1> QED BY <1>1, <1>2, <1>3, <1>4 DEF ReadPty

LEMMA SourceInvClose ==
  ASSUME SourceInv, NEW w \in Numbers, Close(w)
  PROVE  SourceInv'
<1>1. SourceTypes'
  <2>1. activations' = activations /\ activations \in Nat /\ pty_' = 0
    BY DEF Close, SourceInv, SourceTypes, Nobody
  <2>2. sources' \subseteq 1..activations /\ timers' \subseteq 1..activations
    BY DEF Close, Unwatched, SourceInv, SourceTypes
  <2> QED BY <2>1, <2>2 DEF SourceTypes
<1>2. SessionWatched'
  BY DEF Close, Unwatched, SourceInv, SourceTypes, SessionWatched, Nobody
<1>3. IdsNameLiveSources'
  BY DEF Close, Unwatched, SourceInv, SourceTypes, IdsNameLiveSources, Nobody
<1>4. CallbackLive'
  BY DEF Close, Unwatched, SourceInv, CallbackLive, Nobody
<1>5. ClosedHasNoId'
  BY DEF Close, Unwatched, SourceInv, ClosedHasNoId, Nobody
<1>6. SoleSource'
  BY DEF Close, Unwatched, SourceInv, SourceTypes,
    CallbackLive, ClosedHasNoId, SoleSource, IdsNameLiveSources, Nobody
<1> QED BY <1>1, <1>2, <1>3, <1>4, <1>5, <1>6 DEF SourceInv

LEMMA SourceInvStep == SourceInv /\ [Next]_vars => SourceInv'
<1> SUFFICES ASSUME SourceInv, [Next]_vars PROVE SourceInv'
  OBVIOUS
<1>1. CASE Shell
  BY <1>1, SourceInvFrame DEF Shell, ShellWrites, ShellReads, ShellDetaches,
    StartJob,
    JobEnds, ShellExits, external, sourceVars
<1>2. CASE \E n \in Numbers :
             Activate(n) \/ ActivateFails(n) \/ Dispatch(n) \/ Close(n)
  BY <1>2, SourceInvActivate, SourceInvDispatch, SourceInvClose
<1>3. CASE ReadPty
  BY <1>3, SourceInvReadPty
<1>4. CASE WriteToPty
  <2>1. UNCHANGED sourceVars
    BY <1>4 DEF WriteToPty, WriteSome, WriteRefused, aside, process, sourceVars
  <2>2. pc = "writing" /\ pc' \in {"loop", "writing"}
    BY <1>4 DEF WriteToPty, WriteSome, WriteRefused
  <2> QED BY <2>1, <2>2, SourceInvFrame DEF SourceInv, CallbackLive
<1>5. CASE QueueDraw
  BY <1>5, SourceInvFrame DEF QueueDraw, process, sourceVars
<1>6. CASE \E press \in Presses : KeyPressed(press)
  BY <1>6, SourceInvFrame DEF KeyPressed, aside, process, sourceVars
<1>7. CASE \E size \in Sizes : Draw(size)
  BY <1>7, SourceInvFrame DEF Draw, process, sourceVars
<1>8. CASE UNCHANGED vars
  BY <1>8, SourceInvFrame DEF vars, process, sourceVars
<1> QED BY <1>1, <1>2, <1>3, <1>4, <1>5, <1>6, <1>7, <1>8 DEF Next

LEMMA SourceInvariant == Spec => []SourceInv
  BY SourceInvInit, SourceInvStep, PTL DEF Spec

(* As long as nobody knows that the shell is gone, its descriptor has a    *)
(* source, whichever windows come and go (main.cpp:162,205-229,512-526).   *)
THEOREM Watched == Spec => []SessionWatched
<1>1. SourceInv => SessionWatched
  BY DEF SourceInv
<1> QED BY <1>1, SourceInvariant, PTL

(* g_source_remove() is only called with the id of a live source           *)
(* (main.cpp:513-520).                                                     *)
THEOREM IdsLive == Spec => []IdsNameLiveSources
<1>1. SourceInv => IdsNameLiveSources
  BY DEF SourceInv
<1> QED BY <1>1, SourceInvariant, PTL

(* A session of one window leaves neither source nor timer behind          *)
(* (main.cpp:512-526).                                                     *)
THEOREM NoSourceLeft == Spec => []ShutdownLeavesNoSource
<1>1. SourceInv => ShutdownLeavesNoSource
  BY DEF SourceInv, SourceTypes, ClosedHasNoId, SoleSource,
    ShutdownLeavesNoSource, Nobody
<1> QED BY <1>1, SourceInvariant, PTL

-----------------------------------------------------------------------------
(* The shell's idea of the size and the screen's part only at a failed     *)
(* activation (main.cpp:151-158,364-377).                                  *)
THEOREM SizesKept == Spec => OnlyFailurePartsSizes
<1>1. ASSUME [Next]_vars, SizesAgree PROVE SizesAgree' \/ \E n \in Numbers : ActivateFails(n)
  <2>1. CASE Shell
    BY <1>1, <2>1 DEF Shell, ShellWrites, ShellReads, ShellDetaches, StartJob, JobEnds,
      ShellExits, external, sizes, SizesAgree
  <2>2. ASSUME NEW n \in Numbers, Activate(n) PROVE SizesAgree'
    BY <2>2 DEF Activate, Opened, Spawned, SizesAgree
  <2>3. ASSUME NEW n \in Numbers, Dispatch(n) \/ Close(n) PROVE SizesAgree'
    BY <1>1, <2>3 DEF Dispatch, Close, rest, sizes, SizesAgree
  <2>4. CASE ReadPty
    BY <1>1, <2>4 DEF ReadPty, ReadSome, ReadEnds, ReadThrows, CheckStatus, rest, sizes,
      SizesAgree
  <2>5. CASE WriteToPty \/ QueueDraw \/ \E press \in Presses : KeyPressed(press)
    BY <1>1, <2>5 DEF WriteToPty, WriteSome, WriteRefused, QueueDraw, KeyPressed, aside,
      sizes, SizesAgree
  <2>6. CASE \E size \in Sizes : Draw(size)
    BY <1>1, <2>6 DEF Draw, ResizeTerminal, SizesAgree
  <2>7. CASE UNCHANGED vars
    BY <1>1, <2>7 DEF vars, sizes, SizesAgree
  <2> QED BY <1>1, <2>1, <2>2, <2>3, <2>4, <2>5, <2>6, <2>7 DEF Next
<1> QED BY <1>1, PTL DEF Spec, OnlyFailurePartsSizes

-----------------------------------------------------------------------------
(***************************************************************************)
(* The relay.  While the session is open, what its parsers were fed, what  *)
(* the running read_pty() holds and what waits in the kernel make up what  *)
(* was written.                                                            *)
(***************************************************************************)
LEMMA PrefixOfConcat ==
  ASSUME NEW s \in Seq(Nat), NEW t \in Seq(Nat)
  PROVE  /\ Len(s) \in 0..Len(s \o t)
         /\ SubSeq(s \o t, 1, Len(s)) = s
<1>1. s \o t \in Seq(Nat) /\ Len(s \o t) = Len(s) + Len(t)
        /\ \A i \in 1..Len(s) : (s \o t)[i] = s[i]
  BY ConcatProperties, LenProperties
<1>2. SubSeq(s \o t, 1, Len(s)) \in Seq(Nat) /\ Len(SubSeq(s \o t, 1, Len(s))) = Len(s)
        /\ \A i \in 1..Len(s) : SubSeq(s \o t, 1, Len(s))[i] = s[i]
  <2>1. \A i \in 1..Len(s) : (s \o t)[i] \in Nat
    BY <1>1, ElementOfSeq
  <2> QED BY <1>1, <2>1, LenProperties, SubSeqProperties
<1>3. SubSeq(s \o t, 1, Len(s)) = s
  BY <1>2, SeqEqual
<1> QED BY <1>1, <1>3, LenProperties

LEMMA SplitAt ==
  ASSUME NEW s \in Seq(Nat), NEW n \in 0..Len(s)
  PROVE  /\ SubSeq(s, 1, n) \in Seq(Nat) /\ SubSeq(s, n + 1, Len(s)) \in Seq(Nat)
         /\ SubSeq(s, 1, n) \o SubSeq(s, n + 1, Len(s)) = s
<1>1. Len(s) \in Nat /\ \A i \in 1..Len(s) : s[i] \in Nat
  BY LenProperties, ElementOfSeq
<1>2. SubSeq(s, 1, n) \in Seq(Nat) /\ SubSeq(s, n + 1, Len(s)) \in Seq(Nat)
  BY <1>1, SubSeqProperties
<1>3. SubSeq(s, 1, n) \o SubSeq(s, n + 1, Len(s)) = SubSeq(s, 1, Len(s))
  <2>1. 1 \in 1..Len(s) + 1 /\ n \in 1 - 1..Len(s) /\ Len(s) \in n..Len(s)
    BY <1>1
  <2> QED BY <2>1, ConcatAdjacentSubSeq
<1> QED BY <1>2, <1>3, SubSeqFull

LEMMA ConcatRegroups ==
  \A a, b, c \in Seq(Nat) : (a \o b) \o c = a \o (b \o c)
<1> SUFFICES ASSUME NEW a \in Seq(Nat), NEW b \in Seq(Nat), NEW c \in Seq(Nat)
             PROVE  (a \o b) \o c = a \o (b \o c)
  OBVIOUS
<1> QED BY ConcatAssociative, SMTT(60)

LEMMA RegroupConcat ==
  \A s, t, u, v \in Seq(Nat) : (s \o (t \o u)) \o v = (s \o t) \o (u \o v)
<1> SUFFICES ASSUME NEW s \in Seq(Nat), NEW t \in Seq(Nat),
                    NEW u \in Seq(Nat), NEW v \in Seq(Nat)
             PROVE  (s \o (t \o u)) \o v = (s \o t) \o (u \o v)
  OBVIOUS
<1>1. s \o t \in Seq(Nat)
  BY ConcatProperties
<1>2. s \o (t \o u) = (s \o t) \o u
  BY ConcatRegroups, ZenonT(40)
<1>3. ((s \o t) \o u) \o v = (s \o t) \o (u \o v)
  BY ConcatRegroups, <1>1, Zenon
<1> QED BY <1>2, <1>3, Zenon

LEMMA MinOfTwo ==
  ASSUME NEW a \in Int, NEW b \in Int
  PROVE  Min({a, b}) \in Int /\ Min({a, b}) <= a /\ Min({a, b}) <= b
<1>1. \E x \in {a, b} : \A y \in {a, b} : x <= y
  OBVIOUS
<1> QED BY <1>1 DEF Min

RelayTypes ==
  /\ written \in Seq(Nat) /\ output \in Seq(Nat)
  /\ result \in Seq(Nat) /\ fed \in Seq(Nat) /\ lost \in Seq(Nat)
ResultOfRead == pc # "reading" => result = <<>>
ShellHasSession == child = "running" => pty_ # Nobody
Open == pty_ # Nobody /\ ~failed
Relayed == lost \o fed
NothingLost == Open => (Relayed \o result) \o output = written

RelayInv == RelayTypes /\ ResultOfRead /\ ShellHasSession /\ NothingLost

\* The part of the state the relay speaks of, but for pc.
relayVars == <<pty_, failed, written, output, result, fed, lost>>

LEMMA RelayInvInit == Init => RelayInv
  BY EmptySeq, ConcatEmptySeq DEF Init, RelayInv, RelayTypes, ResultOfRead, ShellHasSession, NothingLost,
    Open, Relayed, Nobody

LEMMA RelayInvFrame ==
  ASSUME RelayInv, UNCHANGED relayVars,
         pc # "reading" \/ pc' = "reading",
         child' = "running" => child = "running"
  PROVE  RelayInv' /\ UNCHANGED Relay!rvars
  BY DEF RelayInv, RelayTypes, ResultOfRead, ShellHasSession, NothingLost, Open, Relayed, relayVars,
    Relay!rvars

LEMMA RelayedTyped == RelayInv => Relayed \in Seq(Nat)
  BY ConcatProperties DEF RelayInv, RelayTypes, Relayed

LEMMA RelaySend ==
  ASSUME RelayInv, ShellWrites
  PROVE  RelayInv' /\ [Relay!RNext]_(Relay!rvars)
<1> DEFINE byte == Len(written) + 1
<1>1. Len(written) \in Nat /\ byte \in Nat /\ <<byte>> \in Seq(Nat)
  BY LenProperties DEF RelayInv, RelayTypes
<1>2. written' = written \o <<byte>> /\ output' = output \o <<byte>>
  BY <1>1, AppendIsConcat DEF RelayInv, RelayTypes, ShellWrites
<1>3. UNCHANGED <<pc, pty_, failed, result, fed, lost, child>> /\ pty_ # Nobody
  BY DEF RelayInv, ShellHasSession, ShellWrites, external, screen
<1> HIDE DEF byte
<1>4. RelayTypes'
  BY <1>1, <1>2, <1>3, ConcatProperties DEF RelayInv, RelayTypes
<1>5. NothingLost'
  <2> SUFFICES ASSUME Open PROVE (Relayed \o result) \o (output \o <<byte>>) = written \o <<byte>>
    BY <1>2, <1>3 DEF NothingLost, Open, Relayed
  <2>1. Relayed \o result \in Seq(Nat)
    BY RelayedTyped, ConcatProperties DEF RelayInv, RelayTypes
  <2>2. (Relayed \o result) \o (output \o <<byte>>) = ((Relayed \o result) \o output) \o <<byte>>
    <3>1. output \in Seq(Nat)
      BY DEF RelayInv, RelayTypes
    <3>2. \A c \in Seq(Nat) :
            (Relayed \o result) \o (output \o c) = ((Relayed \o result) \o output) \o c
      BY <2>1, <3>1, ConcatRegroups, Zenon
    <3> QED BY <1>1, <3>2, Zenon
  <2> QED BY <2>2 DEF RelayInv, NothingLost
<1>6. RelayInv'
  BY <1>3, <1>4, <1>5 DEF RelayInv, ResultOfRead, ShellHasSession
<1>7. Len(written') = Len(written) + 1 /\ SubSeq(written', 1, Len(written)) = written
  BY <1>1, <1>2, PrefixOfConcat, ConcatProperties DEF RelayInv, RelayTypes
<1>8. CASE Open
  BY <1>3, <1>6, <1>7, <1>8 DEF Open, Relay!RNext, Relay!Send
<1>9. CASE ~Open
  BY <1>3, <1>6, <1>9 DEF Open, Relay!RNext, Relay!Closed
<1> QED BY <1>6, <1>8, <1>9

LEMMA RelayRead ==
  ASSUME RelayInv, ReadSome
  PROVE  RelayInv' /\ UNCHANGED Relay!rvars
<1>1. PICK n \in 1..Min({Len(output), ReadMaximum - Len(result)}) :
        /\ result' = result \o SubSeq(output, 1, n)
        /\ output' = SubSeq(output, n + 1, Len(output))
  BY DEF ReadSome
<1>2. UNCHANGED <<pc, pty_, failed, written, fed, lost, child>> /\ pc = "reading"
  BY DEF ReadSome, rest, process
<1>3. n \in 0..Len(output)
  <2>1. Len(output) \in Int /\ ReadMaximum - Len(result) \in Int
    BY SessionAssumption, LenProperties DEF RelayInv, RelayTypes
  <2>2. Min({Len(output), ReadMaximum - Len(result)}) \in Int
          /\ Min({Len(output), ReadMaximum - Len(result)}) <= Len(output)
    BY <2>1, MinOfTwo
  <2> QED BY <1>1, <2>1, <2>2
<1>4. SubSeq(output, 1, n) \in Seq(Nat) /\ SubSeq(output, n + 1, Len(output)) \in Seq(Nat)
        /\ SubSeq(output, 1, n) \o SubSeq(output, n + 1, Len(output)) = output
  BY <1>3, SplitAt DEF RelayInv, RelayTypes
<1>5. PICK front \in Seq(Nat), back \in Seq(Nat) :
        result' = result \o front /\ output' = back /\ front \o back = output
  BY <1>1, <1>4
<1>6. RelayTypes'
  BY <1>2, <1>5, ConcatProperties DEF RelayInv, RelayTypes
<1>7. (Relayed \o (result \o front)) \o back = (Relayed \o result) \o output
  <2>1. Relayed \in Seq(Nat) /\ result \in Seq(Nat)
    BY RelayedTyped DEF RelayInv, RelayTypes
  <2>2. \A x, y \in Seq(Nat) : (Relayed \o (result \o x)) \o y = (Relayed \o result) \o (x \o y)
    BY <2>1, RegroupConcat, Zenon
  <2>3. (Relayed \o (result \o front)) \o back = (Relayed \o result) \o (front \o back)
    BY <2>2, Zenon
  <2> QED BY <1>5, <2>3, Zenon
<1>8. NothingLost'
  BY <1>2, <1>5, <1>7 DEF RelayInv, NothingLost, Open, Relayed
<1> QED BY <1>2, <1>6, <1>8 DEF RelayInv, ResultOfRead, ShellHasSession, Relay!rvars

LEMMA RelayFeed ==
  ASSUME RelayInv, ReadEnds
  PROVE  RelayInv' /\ [Relay!RNext]_(Relay!rvars)
<1>1. /\ fed' = fed \o result /\ result' = <<>>
      /\ UNCHANGED <<pty_, failed, written, output, lost>>
  BY DEF ReadEnds, rest
<1>2. RelayTypes' /\ Relayed \in Seq(Nat) /\ Relayed' \in Seq(Nat)
  BY <1>1, RelayedTyped, ConcatProperties, EmptySeq DEF RelayInv, RelayTypes, Relayed
<1>3. ResultOfRead' /\ ShellHasSession'
  BY <1>1 DEF ReadEnds, Reap, rest, RelayInv, ResultOfRead, ShellHasSession
<1>4. Relayed' = Relayed \o result /\ Relayed' \o result' = Relayed \o result
  <2>1. lost \o (fed \o result) = (lost \o fed) \o result
    BY ConcatRegroups DEF RelayInv, RelayTypes
  <2> QED BY <1>1, <1>2, <2>1, ConcatEmptySeq DEF Relayed
<1>5. NothingLost'
  BY <1>1, <1>4 DEF RelayInv, NothingLost, Open
<1>6. RelayInv'
  BY <1>2, <1>3, <1>5 DEF RelayInv
<1>7. CASE Open
  <2>1. written = Relayed' \o output
    BY <1>1, <1>4, <1>7 DEF RelayInv, NothingLost
  <2>2. Len(Relayed') \in 0..Len(written) /\ SubSeq(written, 1, Len(Relayed')) = Relayed'
    BY <1>2, <2>1, PrefixOfConcat DEF RelayInv, RelayTypes
  <2>3. Len(Relayed) <= Len(Relayed')
    BY <1>2, <1>4, ConcatProperties, LenProperties DEF RelayInv, RelayTypes
  <2>4. Len(Relayed) \in Nat /\ Len(written) \in Nat
    BY <1>2, LenProperties DEF RelayInv, RelayTypes
  <2>5. Len(Relayed') \in Len(Relayed)..Len(written)
    BY <2>2, <2>3, <2>4
  <2>6. \E n \in Len(lost \o fed)..Len(written) : lost \o fed' = SubSeq(written, 1, n)
    BY <1>1, <2>2, <2>5 DEF Relayed
  <2> QED BY <1>1, <1>6, <1>7, <2>6 DEF Open, Relay!RNext, Relay!Receive
<1>8. CASE ~Open
  BY <1>1, <1>6, <1>8 DEF Open, Relay!RNext, Relay!Closed
<1> QED BY <1>7, <1>8

\* A new parser takes over where the old one is: nothing is under way.
LEMMA RelayReplaces ==
  ASSUME RelayInv, NEW n \in Numbers, ActivateFails(n)
  PROVE  RelayInv' /\ [Relay!RNext]_(Relay!rvars)
<1>1. /\ lost' = lost \o fed /\ fed' = <<>> /\ pc = "loop" /\ pc' = "loop"
      /\ UNCHANGED <<pty_, failed, written, output, result, child>>
  BY DEF ActivateFails, Opened, process
<1>2. RelayTypes'
  BY <1>1, ConcatProperties, EmptySeq DEF RelayInv, RelayTypes
<1>3. Relayed' = Relayed
  BY <1>1, <1>2, ConcatEmptySeq DEF RelayTypes, Relayed
<1>4. RelayInv'
  BY <1>1, <1>2, <1>3 DEF RelayInv, ResultOfRead, ShellHasSession, NothingLost, Open
<1>5. CASE Open
  BY <1>1, <1>4, <1>5 DEF Open, Relay!RNext, Relay!Replace
<1>6. CASE ~Open
  BY <1>1, <1>4, <1>6 DEF Open, Relay!RNext, Relay!Closed
<1> QED BY <1>5, <1>6

\* A step after which the relay is closed, and the opening of a new one.
LEMMA RelayEnds ==
  ASSUME RelayInv, UNCHANGED <<written, fed, lost>>, ~Open'
  PROVE  [Relay!RNext]_(Relay!rvars)
  BY DEF Open, Relay!RNext, Relay!Close, Relay!Closed

LEMMA RelayStarts ==
  ASSUME RelayInv, NEW n \in Numbers, Activate(n)
  PROVE  RelayInv' /\ [Relay!RNext]_(Relay!rvars)
<1>1. n # Nobody /\ pty_' = n /\ failed' = FALSE /\ fed' = <<>> /\ lost' = <<>> /\ output' = written'
        /\ result' = result /\ pc = "loop" /\ pc' = "loop"
  BY DEF Numbers, Nobody, Activate, Opened, Spawned
<1>2. written' \in Seq(Nat)
  <2>1. \A m \in Nat : Bytes(m) \in Seq(Nat)
    BY DEF Bytes
  <2>2. \A m \in 0..MaxOutput : m \in Nat
    BY SessionAssumption
  <2> QED BY <2>1, <2>2, EmptySeq DEF Activate, Spawned
<1>3. result = <<>>
  BY <1>1 DEF RelayInv, ResultOfRead
<1>4. RelayTypes' /\ ResultOfRead' /\ ShellHasSession'
  BY <1>1, <1>2, <1>3, EmptySeq DEF RelayTypes, ResultOfRead, ShellHasSession
<1>5. (Relayed' \o result') \o output' = written'
  <2>1. Relayed' \o result' = <<>>
    BY <1>1, <1>3, EmptySeq, ConcatEmptySeq DEF Relayed
  <2> QED BY <1>1, <1>2, <2>1, ConcatEmptySeq
<1>6. Relay!Start
  BY <1>1 DEF Relay!Start
<1> QED BY <1>4, <1>5, <1>6 DEF RelayInv, NothingLost, Relay!RNext

LEMMA RelayInvStep ==
  ASSUME RelayInv, [Next]_vars
  PROVE  RelayInv' /\ [Relay!RNext]_(Relay!rvars)
<1>1. CASE ShellWrites
  BY <1>1, RelaySend
<1>2. CASE ShellReads \/ ShellDetaches \/ StartJob \/ JobEnds \/ ShellExits
  <2>1. UNCHANGED relayVars /\ UNCHANGED pc /\ (child' = "running" => child = "running")
    BY <1>2 DEF ShellReads, ShellDetaches, StartJob, JobEnds, ShellExits, external, screen,
      relayVars
  <2> QED BY <2>1, RelayInvFrame
<1>3. ASSUME NEW n \in Numbers, Activate(n) PROVE RelayInv' /\ [Relay!RNext]_(Relay!rvars)
  BY <1>3, RelayStarts
<1>4. ASSUME NEW n \in Numbers, Dispatch(n) PROVE RelayInv' /\ [Relay!RNext]_(Relay!rvars)
  <2>1. UNCHANGED relayVars /\ UNCHANGED child /\ pc = "loop"
    BY <1>4 DEF Dispatch, process, rest, relayVars
  <2> QED BY <2>1, RelayInvFrame
<1>5. ASSUME NEW n \in Numbers, Close(n) PROVE RelayInv' /\ [Relay!RNext]_(Relay!rvars)
  <2>1. UNCHANGED <<pc, written, fed, lost, result>> /\ pty_' = Nobody /\ child' = "none"
          /\ output' = <<>> /\ ~Open'
    BY <1>5 DEF Close, screen, Open
  <2>2. RelayInv'
    BY <2>1, EmptySeq DEF RelayInv, RelayTypes, ResultOfRead, ShellHasSession, NothingLost
  <2> QED BY <2>1, <2>2, RelayEnds
<1>6. CASE ReadSome
  BY <1>6, RelayRead
<1>7. CASE ReadEnds
  BY <1>7, RelayFeed
<1>8. CASE ReadThrows
  <2>1. UNCHANGED <<pty_, written, output, fed, lost, child>> /\ result' = <<>> /\ ~Open'
    BY <1>8 DEF ReadThrows, rest, process, Open
  <2>2. RelayInv'
    BY <2>1, EmptySeq DEF RelayInv, RelayTypes, ResultOfRead, ShellHasSession, NothingLost
  <2> QED BY <2>1, <2>2, RelayEnds
<1>9. CASE CheckStatus
  <2>1. UNCHANGED relayVars /\ pc = "fed" /\ (child' = "running" => child = "running")
    BY <1>9 DEF CheckStatus, Reap, rest, relayVars
  <2> QED BY <2>1, RelayInvFrame
<1>10. CASE WriteToPty \/ \E press \in Presses : KeyPressed(press)
  <2>1. UNCHANGED relayVars /\ UNCHANGED child /\ pc # "reading"
    BY <1>10 DEF WriteToPty, WriteSome, WriteRefused, KeyPressed, aside, process, screen,
      relayVars
  <2> QED BY <2>1, RelayInvFrame
<1>11. CASE QueueDraw \/ (\E size \in Sizes : Draw(size)) \/ UNCHANGED vars
  <2>1. UNCHANGED relayVars /\ UNCHANGED child /\ UNCHANGED pc
    BY <1>11 DEF QueueDraw, Draw, process, screen, vars, relayVars
  <2> QED BY <2>1, RelayInvFrame
<1>12. ASSUME NEW n \in Numbers, ActivateFails(n) PROVE RelayInv' /\ [Relay!RNext]_(Relay!rvars)
  BY <1>12, RelayReplaces
<1> QED BY <1>1, <1>2, <1>3, <1>4, <1>5, <1>6, <1>7, <1>8, <1>9, <1>10, <1>11, <1>12
  DEF Next, Shell, ReadPty

(* The session implements the relay: each of the shell's bytes goes to one *)
(* parser and nothing is left out, doubled or moved on the way, whatever   *)
(* the sizes of the reads and of the buffer, and whichever window's source *)
(* was called (main.cpp:205-229); a failed activation, which replaces the  *)
(* parser, does so between two reads (main.cpp:151-158).                   *)
THEOREM OutputIsRelayed == Spec => OutputRelayed
<1>1. Init => Relay!RInit
  BY DEF Init, Relay!RInit, Nobody
<1>2. RelayInv /\ [Next]_vars => RelayInv' /\ [Relay!RNext]_(Relay!rvars)
  BY RelayInvStep
<1> QED BY <1>1, <1>2, RelayInvInit, PTL DEF Spec, OutputRelayed, Relay!RSpec

-----------------------------------------------------------------------------
(***************************************************************************)
(* The keys.  What was written of each, one after the other, is what the   *)
(* shell has read and what waits for it.                                   *)
(***************************************************************************)
\* flat[i] is the concatenation of the first i sequences.
Concatenates(flat, seqs) ==
  /\ flat[0] = <<>>
  /\ \A i \in 1..Len(seqs) : flat[i] \in Seq(Nat) /\ flat[i] = flat[i - 1] \o seqs[i]

\* FlattenSeq() is what its recursion says.
LEMMA FlattenUnfolds ==
  ASSUME NEW seqs \in Seq(Seq(Nat))
  PROVE  \E flat : Concatenates(flat, seqs) /\ FlattenSeq(seqs) = flat[Len(seqs)]
<1> DEFINE n == Len(seqs)
           step == [p \in Seq(Nat) \X Nat |-> IF p[2] < n THEN p[1] \o seqs[p[2] + 1] ELSE p[1]]
           unfolded(g) == [i \in 1..n |-> IF i = 1 THEN seqs[i] ELSE g[i - 1] \o seqs[i]]
           flatten == CHOOSE g : g = unfolded(g)
<1>1. n \in Nat /\ \A i \in 1..n : seqs[i] \in Seq(Nat)
  BY LenProperties, ElementOfSeq
<1>2. step \in [Seq(Nat) \X Nat -> Seq(Nat)]
  <2>1. ASSUME NEW s \in Seq(Nat), NEW i \in Nat, i < n PROVE s \o seqs[i + 1] \in Seq(Nat)
    <3>1. i + 1 \in 1..n
      BY <1>1, <2>1
    <3> QED BY <1>1, <3>1, ConcatProperties
  <2> QED BY <2>1
<1>3. PICK f \in [0..n -> Seq(Nat)] : Follows(f, <<>>, step, n)
  <2>1. <<>> \in Seq(Nat)
    BY EmptySeq
  <2> HIDE DEF step
  <2> QED BY <1>1, <1>2, <2>1, Recursion
<1>4. ASSUME NEW i \in 1..n PROVE f[i] \in Seq(Nat) /\ f[i] = f[i - 1] \o seqs[i]
  <2>1. /\ i - 1 \in 0..n - 1 /\ (i - 1) + 1 = i /\ i - 1 < n
        /\ i - 1 \in Nat /\ i - 1 \in 0..n /\ i \in 0..n
    BY <1>1
  <2>2. f[(i - 1) + 1] = step[<<f[i - 1], i - 1>>]
    BY <1>3, <2>1 DEF Follows
  <2>3. <<f[i - 1], i - 1>> \in Seq(Nat) \X Nat
    BY <2>1
  <2>4. step[<<f[i - 1], i - 1>>] = f[i - 1] \o seqs[(i - 1) + 1]
    BY <2>1, <2>3
  <2> QED BY <2>1, <2>2, <2>4
<1>5. f[0] = <<>>
  BY <1>3 DEF Follows
<1>8. 1 \in 1..n => f[1] = f[0] \o seqs[1]
  <2>1. 1 - 1 = 0
    OBVIOUS
  <2> HIDE DEF n
  <2> QED BY <1>4, <2>1
<1>6. CASE n = 0
  <2>1. FlattenSeq(seqs) = seqs /\ seqs = <<>>
    BY <1>6, EmptySeq DEF FlattenSeq
  <2> QED BY <1>4, <1>5, <1>6, <2>1 DEF Concatenates
<1>7. CASE n # 0
  <2> DEFINE g == [i \in 1..n |-> f[i]]
  <2>1. ASSUME NEW i \in 1..n
        PROVE  g[i] = IF i = 1 THEN seqs[i] ELSE g[i - 1] \o seqs[i]
    <3>1. CASE i = 1
      <4>1. f[1] = <<>> \o seqs[1]
        BY <1>5, <1>8, <3>1
      <4> QED BY <1>1, <3>1, <4>1, ConcatEmptySeq
    <3>2. CASE i # 1
      <4>1. i - 1 \in 1..n
        BY <3>2
      <4> QED BY <1>4, <3>2, <4>1
    <3> QED BY <3>1, <3>2
  <2>2. g = unfolded(g)
    BY <2>1
  <2> HIDE DEF g
  <2>3. flatten = unfolded(flatten)
    BY <2>2
  <2>4. FlattenSeq(seqs) = flatten[n]
    BY <1>7 DEF FlattenSeq
  <2> HIDE DEF flatten
  <2> DEFINE Same == {k \in Nat : k + 1 \in 1..n => flatten[k + 1] = f[k + 1]}
  <2>5. 0 \in Same
    <3>1. CASE 1 \in 1..n
      <4>1. flatten[1] = seqs[1] /\ f[1] = <<>> \o seqs[1]
        BY <1>5, <1>8, <2>3, <3>1
      <4> QED BY <1>1, <3>1, <4>1, ConcatEmptySeq
    <3> QED BY <3>1
  <2>6. ASSUME NEW k \in Nat, k \in Same PROVE k + 1 \in Same
    <3> SUFFICES ASSUME (k + 1) + 1 \in 1..n PROVE flatten[(k + 1) + 1] = f[(k + 1) + 1]
      OBVIOUS
    <3>1. k + 1 \in 1..n /\ ((k + 1) + 1) - 1 = k + 1 /\ (k + 1) + 1 # 1
      BY <1>1
    <3>2. flatten[(k + 1) + 1] = flatten[k + 1] \o seqs[(k + 1) + 1]
      BY <2>3, <3>1
    <3>3. f[(k + 1) + 1] = f[k + 1] \o seqs[(k + 1) + 1]
      BY <1>4, <3>1
    <3> QED BY <2>6, <3>1, <3>2, <3>3
  <2> HIDE DEF Same
  <2>7. \A k \in Nat : k \in Same
    BY <2>5, <2>6, SetInduction
  <2>8. n - 1 \in Nat /\ (n - 1) + 1 = n /\ n \in 1..n
    BY <1>1, <1>7
  <2>9. flatten[n] = f[n]
    BY <2>7, <2>8 DEF Same
  <2> QED BY <1>4, <1>5, <2>4, <2>9 DEF Concatenates
<1> QED BY <1>6, <1>7

\* The first n sequences are the same.
Agree(a, b, n) ==
  /\ Len(a) \in Nat /\ Len(b) \in Nat /\ n <= Len(a) /\ n <= Len(b)
  /\ \A i \in 1..n : a[i] = b[i]

\* Concatenations agree as far as the sequences do.
LEMMA PrefixesAgree ==
  ASSUME NEW a, NEW b, NEW f, NEW g, NEW n \in Nat,
         Concatenates(f, a), Concatenates(g, b), Agree(a, b, n)
  PROVE  f[n] = g[n]
<1> DEFINE Same == {k \in Nat : k <= n => f[k] = g[k]}
<1>1. 0 \in Same
  BY DEF Concatenates
<1>2. ASSUME NEW k \in Nat, k \in Same PROVE k + 1 \in Same
  <2> SUFFICES ASSUME k + 1 <= n PROVE f[k + 1] = g[k + 1]
    OBVIOUS
  <2>1. k + 1 \in 1..Len(a) /\ k + 1 \in 1..Len(b) /\ k + 1 \in 1..n /\ (k + 1) - 1 = k
    BY DEF Agree
  <2>2. f[k + 1] = f[k] \o a[k + 1] /\ g[k + 1] = g[k] \o b[k + 1]
    BY <2>1 DEF Concatenates
  <2>3. k <= n
    OBVIOUS
  <2>4. f[k] = g[k]
    BY <1>2, <2>3
  <2>5. a[k + 1] = b[k + 1]
    BY <2>1 DEF Agree
  <2> HIDE DEF Same
  <2> QED BY <2>2, <2>4, <2>5
<1> HIDE DEF Same
<1>3. \A k \in Nat : k \in Same
  BY <1>1, <1>2, SetInduction
<1> QED BY <1>3 DEF Same

\* A longer last sequence, and another one.
LEMMA FlattenLonger ==
  ASSUME NEW a \in Seq(Seq(Nat)), NEW b \in Seq(Seq(Nat)), NEW x \in Seq(Nat),
         Len(a) > 0, Len(b) = Len(a), \A i \in 1..Len(a) - 1 : b[i] = a[i],
         b[Len(a)] = a[Len(a)] \o x
  PROVE  FlattenSeq(b) = FlattenSeq(a) \o x
<1> DEFINE n == Len(a)
<1>1. PICK f : Concatenates(f, a) /\ FlattenSeq(a) = f[n]
  BY FlattenUnfolds
<1>2. PICK g : Concatenates(g, b) /\ FlattenSeq(b) = g[n]
  BY FlattenUnfolds
<1>3. n \in Nat /\ n - 1 \in Nat /\ n \in 1..n /\ n - 1 <= n
  BY LenProperties
<1>4. f[n - 1] = g[n - 1]
  <2>1. Agree(a, b, n - 1)
    BY <1>3 DEF Agree
  <2> HIDE DEF n
  <2> QED BY <1>1, <1>2, <1>3, <2>1, PrefixesAgree
<1>5. f[n] = f[n - 1] \o a[n] /\ g[n] = g[n - 1] \o (a[n] \o x)
  BY <1>1, <1>2, <1>3 DEF Concatenates
<1>6. f[n - 1] \in Seq(Nat) /\ a[n] \in Seq(Nat)
  <2>1. n - 1 = 0 \/ n - 1 \in 1..n
    BY <1>3
  <2> QED BY <1>1, <1>3, <2>1, EmptySeq, ElementOfSeq DEF Concatenates
<1> HIDE DEF n
<1>7. f[n - 1] \o (a[n] \o x) = (f[n - 1] \o a[n]) \o x
  BY <1>6, ConcatRegroups, Zenon
<1> QED BY <1>1, <1>2, <1>4, <1>5, <1>7

LEMMA FlattenAppend ==
  ASSUME NEW a \in Seq(Seq(Nat)), NEW b \in Seq(Seq(Nat)),
         Len(b) = Len(a) + 1, \A i \in 1..Len(a) : b[i] = a[i], b[Len(b)] = <<>>
  PROVE  FlattenSeq(b) = FlattenSeq(a)
<1> DEFINE n == Len(a)
<1>1. PICK f : Concatenates(f, a) /\ FlattenSeq(a) = f[n]
  BY FlattenUnfolds
<1>2. PICK g : Concatenates(g, b) /\ FlattenSeq(b) = g[n + 1]
  BY FlattenUnfolds
<1>3. n \in Nat /\ n + 1 \in 1..n + 1 /\ (n + 1) - 1 = n /\ n <= n + 1
  BY LenProperties
<1>4. f[n] = g[n]
  <2>1. Agree(a, b, n)
    BY <1>3 DEF Agree
  <2> HIDE DEF n
  <2> QED BY <1>1, <1>2, <1>3, <2>1, PrefixesAgree
<1>5. g[n + 1] = g[n] \o <<>>
  BY <1>2, <1>3 DEF Concatenates
<1>6. g[n] \in Seq(Nat)
  <2>1. n = 0 \/ n \in 1..n + 1
    BY <1>3
  <2> QED BY <1>2, <2>1, EmptySeq DEF Concatenates
<1> QED BY <1>1, <1>2, <1>4, <1>5, <1>6, ConcatEmptySeq

\* What was written of a key, and of each.
Given(key) == SubSeq(key.sequence, 1, key.offset)
GivenOf(all) == [i \in DOMAIN all |-> Given(all[i])]

Key == [sequence : Seq(Nat), offset : Nat, refused : BOOLEAN]
Keys == {all \in Seq(Key) : \A i \in 1..Len(all) : all[i].offset <= Len(all[i].sequence)}

KeyTypes ==
  /\ typed \in Keys /\ input \in Seq(Nat) /\ received \in Seq(Nat)
  /\ pc = "writing" => typed # <<>>
KeysGiven == received \o input = FlattenSeq(GivenOf(typed))
KeysEnded ==
  \A i \in 1..Len(typed) :
    \/ typed[i].offset = Len(typed[i].sequence) \/ typed[i].refused
    \/ i = Len(typed) /\ pc = "writing"

KeyInv == KeyTypes /\ KeysGiven /\ KeysEnded

LEMMA GivenTypes ==
  ASSUME NEW all \in Keys
  PROVE  /\ GivenOf(all) \in Seq(Seq(Nat)) /\ Len(GivenOf(all)) = Len(all)
         /\ Len(all) \in Nat /\ DOMAIN all = 1..Len(all)
         /\ \A i \in 1..Len(all) : all[i] \in Key /\ GivenOf(all)[i] = Given(all[i])
<1>1. Len(all) \in Nat /\ DOMAIN all = 1..Len(all) /\ \A i \in 1..Len(all) : all[i] \in Key
  BY LenProperties, ElementOfSeq DEF Keys
<1>2. ASSUME NEW i \in 1..Len(all) PROVE Given(all[i]) \in Seq(Nat)
  <2>1. all[i].sequence \in Seq(Nat) /\ all[i].offset \in 0..Len(all[i].sequence)
    BY <1>1 DEF Key, Keys
  <2> QED BY <2>1, SplitAt DEF Given
<1>3. GivenOf(all) \in Seq(Seq(Nat)) /\ Len(GivenOf(all)) = Len(all)
  <2>1. GivenOf(all) = [i \in 1..Len(all) |-> Given(all[i])]
    BY <1>1 DEF GivenOf
  <2>2. GivenOf(all) \in [1..Len(all) -> Seq(Nat)]
    BY <1>2, <2>1
  <2> QED BY <1>1, <2>1, <2>2, SeqDef, LenProperties
<1> QED BY <1>1, <1>3 DEF GivenOf

\* The state of the keys is what the property says of it.
LEMMA KeyInvImplies ==
  ASSUME KeyInv
  PROVE  KeysWholeOrReported
<1>1. DOMAIN typed = 1..Len(typed)
  BY GivenTypes DEF KeyInv, KeyTypes
<1> QED BY <1>1 DEF KeyInv, KeysGiven, KeysEnded, KeysWholeOrReported, GivenOf, Given

\* No key was pressed in this session.
LEMMA KeyInvFresh ==
  ASSUME typed' = <<>>, input' = <<>>, received' = <<>>, pc' # "writing"
  PROVE  KeyInv'
<1>1. <<>> \in Keys /\ Len(<<>>) = 0
  BY EmptySeq DEF Keys
<1>2. KeyTypes'
  BY <1>1, EmptySeq DEF KeyTypes
<1>3. KeysGiven'
  <2>1. GivenOf(<<>>) \in Seq(Seq(Nat)) /\ Len(GivenOf(<<>>)) = 0
    BY <1>1, GivenTypes
  <2>2. FlattenSeq(GivenOf(<<>>)) = <<>>
    BY <2>1, EmptySeq DEF FlattenSeq
  <2>3. <<>> \o <<>> = <<>>
    BY ConcatEmptySeq, EmptySeq
  <2> QED BY <2>2, <2>3 DEF KeysGiven
<1>4. KeysEnded'
  BY <1>1 DEF KeysEnded
<1> QED BY <1>2, <1>3, <1>4 DEF KeyInv

LEMMA KeyInvFrame ==
  ASSUME KeyInv, UNCHANGED keys, pc' = pc \/ (pc # "writing" /\ pc' # "writing")
  PROVE  KeyInv'
  BY DEF KeyInv, KeyTypes, KeysGiven, KeysEnded, keys

\* A byte leaves what waits for the shell and joins what it has read.
LEMMA KeyInvShellReads ==
  ASSUME KeyInv, ShellReads
  PROVE  KeyInv'
<1>1. UNCHANGED <<pc, typed>> /\ input # <<>>
      /\ received' = Append(received, Head(input)) /\ input' = Tail(input)
  BY DEF ShellReads, external
<1>2. input \in Seq(Nat) /\ received \in Seq(Nat)
  BY DEF KeyInv, KeyTypes
<1>3. PICK h \in Nat, t \in Seq(Nat) :
        h = Head(input) /\ t = Tail(input) /\ input = <<h>> \o t
  <2>1. Head(input) \in Nat /\ Tail(input) \in Seq(Nat)
    BY <1>1, <1>2, HeadTailProperties
  <2>2. input = <<Head(input)>> \o Tail(input)
    BY <1>1, <1>2, SMTT(30)
  <2> QED BY <2>1, <2>2
<1>4. Append(received, h) = received \o <<h>> /\ <<h>> \in Seq(Nat)
      /\ Append(received, h) \in Seq(Nat)
  BY <1>2, <1>3, AppendProperties
<1>5. received' \o input' = received \o input
  <2>1. (received \o <<h>>) \o t = received \o (<<h>> \o t)
    BY <1>2, <1>3, <1>4, ConcatRegroups, SMTT(30)
  <2> QED BY <1>1, <1>3, <1>4, <2>1
<1>6. KeyTypes'
  BY <1>1, <1>2, <1>3, <1>4 DEF KeyInv, KeyTypes
<1> QED BY <1>1, <1>5, <1>6 DEF KeyInv, KeysGiven, KeysEnded

LEMMA BytesAreNumbers ==
  ASSUME NEW s \in Seq(0..255)
  PROVE  s \in Seq(Nat) /\ Len(s) \in Nat
<1>1. Len(s) \in Nat /\ s \in [1..Len(s) -> 0..255]
  BY LenProperties, ZenonT(40)
<1>2. ASSUME NEW i \in 1..Len(s) PROVE s[i] \in Nat
  <2>1. s[i] \in 0..255
    BY <1>1
  <2>2. \A byte \in 0..255 : byte \in Nat
    OBVIOUS
  <2> QED BY <2>1, <2>2, Zenon
<1>3. SubSeq(s, 1, Len(s)) \in Seq(Nat)
  BY <1>1, <1>2, SubSeqProperties
<1> QED BY <1>1, <1>3, SubSeqFull

LEMMA KeyInvKeyPressed ==
  ASSUME KeyInv, NEW press \in Presses, KeyPressed(press)
  PROVE  KeyInv'
<1> DEFINE key == [sequence |-> Sequence(press), offset |-> 0, refused |-> FALSE]
<1>1. typed' = Append(typed, key) /\ pc = "loop" /\ pc' = "writing"
      /\ UNCHANGED <<input, received>>
  BY DEF KeyPressed, aside
<1>2. typed \in Keys /\ input \in Seq(Nat) /\ received \in Seq(Nat)
  BY DEF KeyInv, KeyTypes
<1>3. Sequence(press) \in Seq(Nat) /\ Len(Sequence(press)) \in Nat
  <2>1. Sequence(press) \in Seq(0..255)
    BY SessionAssumption
  <2> QED BY <2>1, BytesAreNumbers
<1>4. key \in Key /\ key.offset = 0 /\ key.sequence = Sequence(press)
  BY <1>3 DEF Key
<1> HIDE DEF key
<1>5. /\ typed' \in Seq(Key) /\ typed' # <<>> /\ Len(typed') = Len(typed) + 1
      /\ Len(typed) \in Nat
      /\ \A i \in 1..Len(typed) : typed'[i] = typed[i]
      /\ typed'[Len(typed) + 1] = key
  BY <1>1, <1>2, <1>4, AppendProperties, LenProperties, SMTT(30) DEF Keys
<1>6. KeyTypes'
  <2>1. ASSUME NEW i \in 1..Len(typed')
        PROVE  typed'[i].offset <= Len(typed'[i].sequence)
    <3>1. CASE i = Len(typed) + 1
      <4>1. typed'[i] = key
        BY <1>5, <3>1
      <4>2. key.offset <= Len(key.sequence)
        BY <1>3, <1>4
      <4> QED BY <4>1, <4>2
    <3>2. CASE i # Len(typed) + 1
      <4>1. i \in 1..Len(typed)
        BY <1>5, <3>2
      <4> QED BY <1>2, <1>5, <4>1 DEF Keys
    <3> QED BY <3>1, <3>2
  <2> QED BY <1>1, <1>2, <1>5, <2>1 DEF KeyTypes, Keys
<1>7. Given(key) = <<>>
  BY <1>4, SubSeqEmpty DEF Given
<1>8. FlattenSeq(GivenOf(typed')) = FlattenSeq(GivenOf(typed))
  <2>1. typed' \in Keys
    BY <1>6 DEF KeyTypes
  <2> DEFINE a == GivenOf(typed)
             b == GivenOf(typed')
  <2>2. a \in Seq(Seq(Nat)) /\ Len(a) = Len(typed)
        /\ \A i \in 1..Len(typed) : a[i] = Given(typed[i])
    BY <1>2, GivenTypes
  <2>3. b \in Seq(Seq(Nat)) /\ Len(b) = Len(typed) + 1
        /\ \A i \in 1..Len(typed) + 1 : b[i] = Given(typed'[i])
    BY <1>5, <2>1, GivenTypes
  <2>4. \A i \in 1..Len(typed) : b[i] = a[i]
    BY <1>5, <2>2, <2>3
  <2>5. b[Len(typed) + 1] = <<>>
    BY <1>5, <1>7, <2>3
  <2> HIDE DEF a, b
  <2>6. FlattenSeq(b) = FlattenSeq(a)
    BY <2>2, <2>3, <2>4, <2>5, FlattenAppend
  <2> QED BY <2>6 DEF a, b
<1>9. KeysEnded'
  <2>1. ASSUME NEW i \in 1..Len(typed')
        PROVE  \/ typed'[i].offset = Len(typed'[i].sequence) \/ typed'[i].refused
               \/ i = Len(typed') /\ pc' = "writing"
    <3>1. CASE i = Len(typed) + 1
      BY <1>1, <1>5, <3>1
    <3>2. CASE i # Len(typed) + 1
      <4>1. i \in 1..Len(typed)
        BY <1>5, <3>2
      <4> QED BY <1>1, <1>5, <4>1 DEF KeyInv, KeysEnded
    <3> QED BY <3>1, <3>2
  <2> QED BY <2>1 DEF KeysEnded
<1> QED BY <1>1, <1>6, <1>8, <1>9 DEF KeyInv, KeysGiven

\* What the last key becomes.
LEMMA LastReplaced ==
  ASSUME NEW all \in Keys, all # <<>>, NEW key \in Key,
         key.offset <= Len(key.sequence)
  PROVE  /\ [all EXCEPT ![Len(all)] = key] \in Keys
         /\ Len([all EXCEPT ![Len(all)] = key]) = Len(all)
         /\ \A i \in 1..Len(all) :
              [all EXCEPT ![Len(all)] = key][i] = IF i = Len(all) THEN key ELSE all[i]
<1>1. all \in Seq(Key) /\ Len(all) \in 1..Len(all)
  BY EmptySeq DEF Keys
<1>2. /\ [all EXCEPT ![Len(all)] = key] \in Seq(Key)
      /\ Len([all EXCEPT ![Len(all)] = key]) = Len(all)
      /\ \A i \in 1..Len(all) :
           [all EXCEPT ![Len(all)] = key][i] = IF i = Len(all) THEN key ELSE all[i]
  BY <1>1, ExceptSeq
<1> QED BY <1>2 DEF Keys

\* A write goes on where the last one ended.
LEMMA GivenLonger ==
  ASSUME NEW s \in Seq(Nat), NEW o \in Nat, o <= Len(s),
         NEW n \in Nat, 1 <= n, n <= Len(SubSeq(s, o + 1, Len(s)))
  PROVE  /\ o + n <= Len(s)
         /\ SubSeq(SubSeq(s, o + 1, Len(s)), 1, n) \in Seq(Nat)
         /\ SubSeq(s, 1, o + n) = SubSeq(s, 1, o) \o SubSeq(SubSeq(s, o + 1, Len(s)), 1, n)
<1>1. Len(s) \in Nat /\ \A i \in 1..Len(s) : s[i] \in Nat
  BY LenProperties, ElementOfSeq
<1>2. Len(SubSeq(s, o + 1, Len(s))) = Len(s) - o /\ SubSeq(s, o + 1, Len(s)) \in Seq(Nat)
  <2>1. \A i \in o + 1..Len(s) : s[i] \in Nat
    BY <1>1
  <2>2. /\ SubSeq(s, o + 1, Len(s)) \in Seq(Nat)
        /\ Len(SubSeq(s, o + 1, Len(s)))
             = IF o + 1 <= Len(s) THEN Len(s) - (o + 1) + 1 ELSE 0
    BY <1>1, <2>1, SubSeqProperties
  <2> QED BY <1>1, <2>2
<1>3. o + n <= Len(s) /\ o + n \in Nat
  BY <1>1, <1>2
<1>4. SubSeq(SubSeq(s, o + 1, Len(s)), 1, n) = SubSeq(s, o + 1, o + n)
  <2>1. /\ o + 1 \in 1..Len(s) /\ Len(s) \in 1..Len(s)
        /\ 1 \in 1..Len(s) - (o + 1) + 1 /\ n \in 1..Len(s) - (o + 1) + 1
        /\ (o + 1) + 1 - 1 = o + 1 /\ (o + 1) + n - 1 = o + n
    BY <1>1, <1>3
  <2> QED BY <1>2, <2>1, SubSeqOfSubSeq
<1>5. SubSeq(s, 1, o) \o SubSeq(s, o + 1, o + n) = SubSeq(s, 1, o + n)
  <2>1. 1 \in 1..Len(s) + 1 /\ o \in 1 - 1..Len(s) /\ o + n \in o..Len(s)
    BY <1>1, <1>3
  <2> QED BY <2>1, ConcatAdjacentSubSeq
<1>6. SubSeq(s, o + 1, o + n) \in Seq(Nat)
  <2>1. \A i \in o + 1..o + n : s[i] \in Nat
    BY <1>1, <1>3
  <2> QED BY <1>3, <2>1, SubSeqProperties
<1> QED BY <1>3, <1>4, <1>5, <1>6

LEMMA FitsRoom ==
  ASSUME NEW r \in Seq(Nat), input \in Seq(Nat), NEW n \in 1..Min({Len(r), Room})
  PROVE  n \in Nat /\ 1 <= n /\ n <= Len(r)
<1>1. Len(r) \in Int /\ Room \in Int
  BY LenProperties, SessionAssumption DEF Room
<1>2. Min({Len(r), Room}) \in Int /\ Min({Len(r), Room}) <= Len(r)
  BY <1>1, MinOfTwo
<1> QED BY <1>1, <1>2

LEMMA KeyInvWriteSome ==
  ASSUME KeyInv, WriteSome
  PROVE  KeyInv'
<1> DEFINE m == Len(typed)
           last == typed[m]
<1>1. typed \in Keys /\ typed # <<>> /\ pc = "writing"
      /\ input \in Seq(Nat) /\ received \in Seq(Nat)
  BY DEF KeyInv, KeyTypes, WriteSome
<1>2. m \in Nat /\ m \in 1..m /\ last \in Key /\ last.offset <= Len(last.sequence)
  BY <1>1, EmptySeq, ElementOfSeq DEF Keys
<1>3. PICK n \in 1..Min({Len(Rest(last)), Room}) :
        /\ input' = input \o SubSeq(Rest(last), 1, n)
        /\ typed' = [typed EXCEPT ![m].offset = @ + n]
  BY DEF WriteSome, Advance, Last
<1>4. /\ pc' = IF typed'[Len(typed')].offset = Len(typed'[Len(typed')].sequence)
               THEN "loop" ELSE pc
      /\ received' = received
  BY DEF WriteSome, Last, aside
<1> DEFINE s == last.sequence
           o == last.offset
           next == [last EXCEPT !.offset = o + n]
           x == SubSeq(SubSeq(s, o + 1, Len(s)), 1, n)
<1>5. s \in Seq(Nat) /\ o \in Nat /\ Len(s) \in Nat /\ Rest(last) = SubSeq(s, o + 1, Len(s))
  BY <1>2, LenProperties DEF Key, Rest
<1>6. n \in Nat /\ 1 <= n /\ n <= Len(SubSeq(s, o + 1, Len(s)))
  <2>1. SubSeq(s, o + 1, Len(s)) \in Seq(Nat)
    <3>1. o \in 0..Len(s)
      BY <1>2, <1>5
    <3> QED BY <1>5, <3>1, SplitAt
  <2>2. n \in 1..Min({Len(SubSeq(s, o + 1, Len(s))), Room})
    BY <1>3, <1>5
  <2> HIDE DEF s, o
  <2> QED BY <1>1, <2>1, <2>2, FitsRoom
<1>7. o + n <= Len(s) /\ x \in Seq(Nat) /\ SubSeq(s, 1, o + n) = SubSeq(s, 1, o) \o x
  BY <1>2, <1>5, <1>6, GivenLonger
<1>8. next \in Key /\ next.offset = o + n /\ next.sequence = s /\ next.refused = last.refused
  <2>1. o + n \in Nat
    BY <1>5, <1>6, SMTT(30)
  <2>2. last \in Key
    BY <1>2
  <2> HIDE DEF o, last
  <2> QED BY <2>1, <2>2 DEF Key
<1>9. typed' = [typed EXCEPT ![m] = next]
  BY <1>2, <1>3
<1>10. Given(next) = Given(last) \o x
  BY <1>7, <1>8 DEF Given
<1>11. next.offset <= Len(next.sequence)
  BY <1>7, <1>8
<1>12. input' = input \o x
  BY <1>3, <1>5
<1> HIDE DEF next, x, s, o
<1>13. typed' \in Keys /\ Len(typed') = m
       /\ \A i \in 1..m : typed'[i] = IF i = m THEN next ELSE typed[i]
  BY <1>1, <1>8, <1>9, <1>11, LastReplaced, ZenonT(40)
<1>14. pc' = "writing" \/ next.offset = Len(next.sequence)
  BY <1>1, <1>2, <1>4, <1>13
<1>15. KeyTypes'
  <2>1. typed' # <<>>
    BY <1>2, <1>13, EmptySeq
  <2>2. input' \in Seq(Nat)
    BY <1>1, <1>7, <1>12, ConcatProperties
  <2> QED BY <1>1, <1>4, <1>13, <2>1, <2>2 DEF KeyTypes
<1>16. FlattenSeq(GivenOf(typed')) = FlattenSeq(GivenOf(typed)) \o x
  <2> DEFINE a == GivenOf(typed)
             b == GivenOf(typed')
  <2>1. a \in Seq(Seq(Nat)) /\ Len(a) = m /\ \A i \in 1..m : a[i] = Given(typed[i])
    BY <1>1, GivenTypes
  <2>2. b \in Seq(Seq(Nat)) /\ Len(b) = m /\ \A i \in 1..m : b[i] = Given(typed'[i])
    BY <1>13, GivenTypes
  <2> HIDE DEF a, b
  <2>3. ASSUME NEW i \in 1..m - 1 PROVE b[i] = a[i]
    <3>1. i \in 1..m /\ i # m
      BY <1>2
    <3> QED BY <1>13, <2>1, <2>2, <3>1
  <2>4. b[m] = a[m] \o x
    BY <1>2, <1>10, <1>13, <2>1, <2>2
  <2>5. FlattenSeq(b) = FlattenSeq(a) \o x
    <3>1. Len(a) > 0 /\ Len(b) = Len(a) /\ b[Len(a)] = a[Len(a)] \o x
          /\ \A i \in 1..Len(a) - 1 : b[i] = a[i]
      BY <1>2, <2>1, <2>2, <2>3, <2>4
    <3> QED BY <1>7, <2>1, <2>2, <3>1, FlattenLonger
  <2> QED BY <2>5 DEF a, b
<1>17. KeysGiven'
  <2>1. received \o (input \o x) = (received \o input) \o x
    BY <1>1, <1>7, ConcatRegroups, Zenon
  <2> QED BY <1>4, <1>12, <1>16, <2>1 DEF KeyInv, KeysGiven
<1>18. KeysEnded'
  <2>1. ASSUME NEW i \in 1..m
        PROVE  \/ typed'[i].offset = Len(typed'[i].sequence) \/ typed'[i].refused
               \/ i = m /\ pc' = "writing"
    <3>1. CASE i = m
      BY <1>13, <1>14, <3>1
    <3>2. CASE i # m
      BY <1>13, <3>2 DEF KeyInv, KeysEnded
    <3> QED BY <3>1, <3>2
  <2> QED BY <1>13, <2>1 DEF KeysEnded
<1> QED BY <1>15, <1>17, <1>18 DEF KeyInv

LEMMA KeyInvWriteRefused ==
  ASSUME KeyInv, WriteRefused
  PROVE  KeyInv'
<1> DEFINE m == Len(typed)
           last == typed[m]
           next == [last EXCEPT !.refused = TRUE]
<1>1. typed \in Keys /\ typed # <<>> /\ pc = "writing" /\ pc' = "loop"
      /\ UNCHANGED <<input, received>>
  BY DEF KeyInv, KeyTypes, WriteRefused, aside
<1>11. typed' = [typed EXCEPT ![m].refused = TRUE]
  BY DEF WriteRefused
<1>2. m \in Nat /\ m \in 1..m /\ last \in Key /\ last.offset <= Len(last.sequence)
  BY <1>1, EmptySeq, ElementOfSeq DEF Keys
<1>3. next \in Key /\ next.offset = last.offset /\ next.sequence = last.sequence
      /\ next.refused = TRUE
  BY <1>2 DEF Key
<1>4. typed' = [typed EXCEPT ![m] = next]
  BY <1>2, <1>11
<1>5. next.offset <= Len(next.sequence)
  BY <1>2, <1>3
<1>10. Given(next) = Given(last)
  BY <1>3 DEF Given
<1> HIDE DEF next
<1>6. typed' \in Keys /\ Len(typed') = m
      /\ \A i \in 1..m : typed'[i] = IF i = m THEN next ELSE typed[i]
  BY <1>1, <1>3, <1>4, <1>5, LastReplaced
<1>7. KeyTypes'
  BY <1>1, <1>6 DEF KeyInv, KeyTypes
<1>8. GivenOf(typed') = GivenOf(typed)
  <2>1. DOMAIN typed = 1..m /\ DOMAIN typed' = 1..m
    BY <1>1, <1>6, GivenTypes
  <2>2. \A i \in 1..m : Given(typed'[i]) = Given(typed[i])
    BY <1>6, <1>10
  <2> QED BY <2>1, <2>2 DEF GivenOf
<1>9. KeysEnded'
  <2>1. ASSUME NEW i \in 1..m
        PROVE  typed'[i].offset = Len(typed'[i].sequence) \/ typed'[i].refused
    <3>1. CASE i = m
      BY <1>3, <1>6, <3>1
    <3>2. CASE i # m
      BY <1>6, <3>2 DEF KeyInv, KeysEnded
    <3> QED BY <3>1, <3>2
  <2> QED BY <1>6, <2>1 DEF KeysEnded
<1> QED BY <1>1, <1>7, <1>8, <1>9 DEF KeyInv, KeysGiven

LEMMA KeyInvStep == KeyInv /\ [Next]_vars => KeyInv'
<1> SUFFICES ASSUME KeyInv, [Next]_vars PROVE KeyInv'
  OBVIOUS
<1>1. CASE Shell
  <2>1. CASE ShellReads
    BY <2>1, KeyInvShellReads
  <2>2. CASE ~ShellReads
    <3>1. UNCHANGED keys /\ pc' = pc
      BY <1>1, <2>2 DEF Shell, ShellWrites, ShellDetaches, StartJob, JobEnds,
        ShellExits, external, keys
    <3> QED BY <3>1, KeyInvFrame
  <2> QED BY <2>1, <2>2
<1>2. ASSUME NEW n \in Numbers, Activate(n) PROVE KeyInv'
  BY <1>2, KeyInvFresh DEF Activate, Opened, Spawned
<1>3. ASSUME NEW n \in Numbers, ActivateFails(n) PROVE KeyInv'
  BY <1>3, KeyInvFrame DEF ActivateFails, Opened
<1>4. ASSUME NEW n \in Numbers, Dispatch(n) PROVE KeyInv'
  BY <1>4, KeyInvFrame DEF Dispatch, rest
<1>5. ASSUME NEW n \in Numbers, Close(n) PROVE KeyInv'
  BY <1>5, KeyInvFresh DEF Close
<1>6. CASE ReadPty
  BY <1>6, KeyInvFrame DEF ReadPty, ReadSome, ReadEnds, ReadThrows, CheckStatus, rest
<1>7. CASE WriteToPty
  BY <1>7, KeyInvWriteSome, KeyInvWriteRefused DEF WriteToPty
<1>8. CASE QueueDraw
  BY <1>8, KeyInvFrame DEF QueueDraw
<1>9. ASSUME NEW press \in Presses, KeyPressed(press) PROVE KeyInv'
  BY <1>9, KeyInvKeyPressed
<1>10. ASSUME NEW size \in Sizes, Draw(size) PROVE KeyInv'
  BY <1>10, KeyInvFrame DEF Draw
<1>11. CASE UNCHANGED vars
  BY <1>11, KeyInvFrame DEF vars
<1> QED BY <1>1, <1>2, <1>3, <1>4, <1>5, <1>6, <1>7, <1>8, <1>9, <1>10, <1>11 DEF Next

LEMMA KeyInvInit == Init => KeyInv
<1> SUFFICES ASSUME Init PROVE KeyInv
  OBVIOUS
<1>1. typed = <<>> /\ input = <<>> /\ received = <<>> /\ pc = "loop"
  BY DEF Init
<1>2. <<>> \in Keys /\ Len(<<>>) = 0
  BY EmptySeq DEF Keys
<1>3. KeyTypes
  BY <1>1, <1>2, EmptySeq DEF KeyTypes
<1>4. KeysGiven
  <2>1. GivenOf(<<>>) \in Seq(Seq(Nat)) /\ Len(GivenOf(<<>>)) = 0
    BY <1>2, GivenTypes
  <2>2. FlattenSeq(GivenOf(<<>>)) = <<>>
    BY <2>1, EmptySeq DEF FlattenSeq
  <2>3. <<>> \o <<>> = <<>>
    BY ConcatEmptySeq, EmptySeq
  <2> QED BY <1>1, <2>2, <2>3 DEF KeysGiven
<1>5. KeysEnded
  BY <1>1, <1>2 DEF KeysEnded
<1> QED BY <1>3, <1>4, <1>5 DEF KeyInv

(* The shell is given the keys in order and whole, for every key, every    *)
(* room in the terminal and every number of windows; a key that is given   *)
(* in part was reported (main.cpp:293-322).                                *)
THEOREM KeysRelayed == Spec => []KeysWholeOrReported
<1>1. KeyInv => KeysWholeOrReported
  BY KeyInvImplies
<1> QED BY <1>1, KeyInvInit, KeyInvStep, PTL DEF Spec

-----------------------------------------------------------------------------
(***************************************************************************)
(* Types.  They rest on the three invariants above; the bound of a queue   *)
(* is kept because a read or a write takes no more than there is room for. *)
(***************************************************************************)
HandlerTypes ==
  /\ pc \in {"loop", "reading", "fed", "writing"}
  /\ activations \in 0..MaxActivations /\ windows \subseteq 1..activations
  /\ dispatched \in 0..activations
  /\ pty_source_id_ \in 0..activations /\ blink_source_id_ \in 0..activations
  /\ pc \in {"reading", "fed"} <=> dispatched # Nobody
FlagTypes ==
  /\ exit_status_ \in BOOLEAN /\ failed \in BOOLEAN /\ attached \in BOOLEAN
  /\ job \in BOOLEAN /\ stale \in BOOLEAN
ChildTypes ==
  /\ child \in {"none", "running", "exited", "reaped"}
  /\ exit_status_ => child = "reaped"
QueueTypes ==
  /\ Len(result) <= ReadMaximum /\ Len(input) <= InputRoom
  /\ painted \in 0..Len(fed)
SizeTypes == dimensions_ \in Sizes /\ winsize \in Sizes

\* TypeOK in the parts the steps are shown for, and what they rest on.
TypeInv ==
  /\ SourceInv /\ RelayInv /\ KeyInv
  /\ HandlerTypes /\ FlagTypes /\ ChildTypes /\ QueueTypes /\ SizeTypes

LEMMA HandlerTypesStep ==
  ASSUME TypeInv, [Next]_vars
  PROVE  HandlerTypes'
<1>1. SourceInv /\ HandlerTypes
  BY DEF TypeInv
<1>2. MaxActivations \in Nat
  BY SessionAssumption
<1>3. CASE Shell
  BY <1>1, <1>3 DEF Shell, ShellWrites, ShellReads, ShellDetaches, StartJob, JobEnds,
    ShellExits, external, loop, HandlerTypes
<1>4. ASSUME NEW n \in Numbers, Activate(n) PROVE HandlerTypes'
  BY <1>1, <1>2, <1>4 DEF Activate, Opened, Started, Numbers, HandlerTypes, Nobody
<1>5. ASSUME NEW n \in Numbers, ActivateFails(n) PROVE HandlerTypes'
  BY <1>1, <1>2, <1>5 DEF ActivateFails, Opened, Numbers, HandlerTypes, Nobody
<1>6. ASSUME NEW n \in Numbers, Dispatch(n) PROVE HandlerTypes'
  BY <1>1, <1>2, <1>6 DEF Dispatch, rest, Numbers, HandlerTypes, Nobody, SourceInv,
    SourceTypes
<1>7. ASSUME NEW n \in Numbers, Close(n) PROVE HandlerTypes'
  BY <1>1, <1>2, <1>7 DEF Close, Unwatched, Numbers, HandlerTypes, Nobody
<1>8. CASE ReadPty
  <2>1. CASE ReadSome
    BY <1>1, <2>1 DEF ReadSome, rest, HandlerTypes
  <2>2. CASE ReadEnds
    BY <1>1, <2>2 DEF ReadEnds, rest, HandlerTypes
  <2>3. CASE ReadThrows
    BY <1>1, <1>2, <2>3 DEF ReadThrows, Removed, rest, HandlerTypes, Nobody
  <2>4. CASE CheckStatus
    BY <1>1, <1>2, <2>4 DEF CheckStatus, Removed, rest, HandlerTypes, Nobody
  <2> QED BY <1>8, <2>1, <2>2, <2>3, <2>4 DEF ReadPty
<1>9. CASE WriteToPty \/ \E press \in Presses : KeyPressed(press)
  BY <1>1, <1>9 DEF WriteToPty, WriteSome, WriteRefused, KeyPressed, aside, loop, HandlerTypes
<1>10. CASE QueueDraw \/ \E size \in Sizes : Draw(size)
  BY <1>1, <1>10 DEF QueueDraw, Draw, loop, HandlerTypes
<1>11. CASE UNCHANGED vars
  BY <1>1, <1>11 DEF vars, loop, HandlerTypes
<1> QED BY <1>3, <1>4, <1>5, <1>6, <1>7, <1>8, <1>9, <1>10, <1>11 DEF Next

LEMMA ChildTypesStep ==
  ASSUME TypeInv, [Next]_vars
  PROVE  ChildTypes'
<1>1. ChildTypes
  BY DEF TypeInv
<1>2. CASE Shell
  BY <1>1, <1>2 DEF Shell, ShellWrites, ShellReads, ShellDetaches, StartJob, JobEnds,
    ShellExits, external, ChildTypes
<1>3. ASSUME NEW n \in Numbers, Activate(n) PROVE ChildTypes'
  BY <1>1, <1>3 DEF Activate, Opened, Spawned, ChildTypes
<1>4. ASSUME NEW n \in Numbers, ActivateFails(n) \/ Dispatch(n) \/ Close(n) PROVE ChildTypes'
  BY <1>1, <1>4 DEF ActivateFails, Opened, Dispatch, Close, process, ChildTypes
<1>5. CASE ReadPty
  <2>1. CASE ReadSome \/ ReadThrows
    BY <1>1, <2>1 DEF ReadSome, ReadThrows, process, ChildTypes
  <2>2. CASE ReadEnds
    BY <1>1, <2>2 DEF ReadEnds, Reap, ChildTypes
  <2>3. CASE CheckStatus
    BY <1>1, <2>3 DEF CheckStatus, Reap, ChildTypes
  <2> QED BY <1>5, <2>1, <2>2, <2>3 DEF ReadPty
<1>6. CASE WriteToPty
  BY <1>1, <1>6 DEF WriteToPty, WriteSome, WriteRefused, aside, process, ChildTypes
<1>7. CASE QueueDraw \/ (\E size \in Sizes : Draw(size)) \/ \E press \in Presses : KeyPressed(press)
  <2>1. UNCHANGED <<child, exit_status_>>
    BY <1>7 DEF QueueDraw, Draw, KeyPressed, aside, process
  <2> QED BY <1>1, <2>1 DEF ChildTypes
<1>8. CASE UNCHANGED vars
  <2>1. UNCHANGED <<child, exit_status_>>
    BY <1>8 DEF vars, process
  <2> QED BY <1>1, <2>1 DEF ChildTypes
<1> QED BY <1>2, <1>3, <1>4, <1>5, <1>6, <1>7, <1>8 DEF Next

LEMMA FlagTypesStep ==
  ASSUME TypeInv, [Next]_vars
  PROVE  FlagTypes'
<1>1. FlagTypes
  BY DEF TypeInv
<1>2. CASE Shell
  BY <1>1, <1>2 DEF Shell, ShellWrites, ShellReads, ShellDetaches, StartJob, JobEnds,
    ShellExits, external, FlagTypes
<1>3. ASSUME NEW n \in Numbers, Activate(n) PROVE FlagTypes'
  BY <1>1, <1>3 DEF Activate, Opened, Spawned, FlagTypes
<1>4. ASSUME NEW n \in Numbers, ActivateFails(n) \/ Dispatch(n) \/ Close(n) PROVE FlagTypes'
  BY <1>1, <1>4 DEF ActivateFails, Opened, Dispatch, Close, process, FlagTypes
<1>5. CASE ReadPty
  <2>1. CASE ReadSome \/ ReadThrows
    BY <1>1, <2>1 DEF ReadSome, ReadThrows, process, FlagTypes
  <2>2. CASE ReadEnds
    BY <1>1, <2>2 DEF ReadEnds, Reap, FlagTypes
  <2>3. CASE CheckStatus
    BY <1>1, <2>3 DEF CheckStatus, Reap, FlagTypes
  <2> QED BY <1>5, <2>1, <2>2, <2>3 DEF ReadPty
<1>6. CASE WriteToPty
  BY <1>1, <1>6 DEF WriteToPty, WriteSome, WriteRefused, aside, process, FlagTypes
<1>7. CASE QueueDraw \/ (\E size \in Sizes : Draw(size)) \/ \E press \in Presses : KeyPressed(press)
  BY <1>1, <1>7 DEF QueueDraw, Draw, KeyPressed, aside, process, FlagTypes
<1>8. CASE UNCHANGED vars
  BY <1>1, <1>8 DEF vars, process, FlagTypes
<1> QED BY <1>2, <1>3, <1>4, <1>5, <1>6, <1>7, <1>8 DEF Next

LEMMA SizeTypesStep ==
  ASSUME TypeInv, [Next]_vars
  PROVE  SizeTypes'
<1>1. SizeTypes
  BY DEF TypeInv
<1>2. CASE Shell
  BY <1>1, <1>2 DEF Shell, ShellWrites, ShellReads, ShellDetaches, StartJob, JobEnds,
    ShellExits, external, sizes, SizeTypes
<1>3. ASSUME NEW n \in Numbers, Activate(n) \/ ActivateFails(n) PROVE SizeTypes'
  BY <1>1, <1>3, SessionAssumption DEF Activate, ActivateFails, Opened, Spawned, SizeTypes
<1>4. ASSUME NEW n \in Numbers, Dispatch(n) \/ Close(n) PROVE SizeTypes'
  BY <1>1, <1>4 DEF Dispatch, Close, rest, sizes, SizeTypes
<1>5. CASE ReadPty
  BY <1>1, <1>5 DEF ReadPty, ReadSome, ReadEnds, ReadThrows, CheckStatus, rest, sizes, SizeTypes
<1>6. CASE WriteToPty \/ QueueDraw \/ \E press \in Presses : KeyPressed(press)
  BY <1>1, <1>6 DEF WriteToPty, WriteSome, WriteRefused, QueueDraw, KeyPressed, aside,
    sizes, SizeTypes
<1>7. CASE \E size \in Sizes : Draw(size)
  BY <1>1, <1>7 DEF Draw, ResizeTerminal, SizeTypes
<1>8. CASE UNCHANGED vars
  BY <1>1, <1>8 DEF vars, sizes, SizeTypes
<1> QED BY <1>2, <1>3, <1>4, <1>5, <1>6, <1>7, <1>8 DEF Next

LEMMA QueueTypesFrame ==
  ASSUME QueueTypes, UNCHANGED <<result, input, screen>>
  PROVE  QueueTypes'
  BY DEF QueueTypes, screen

LEMMA QueueTypesRead ==
  ASSUME TypeInv, ReadSome
  PROVE  QueueTypes'
<1>1. QueueTypes /\ result \in Seq(Nat) /\ output \in Seq(Nat)
  BY DEF TypeInv, RelayInv, RelayTypes
<1>2. PICK n \in 1..Min({Len(output), ReadMaximum - Len(result)}) :
        result' = result \o SubSeq(output, 1, n)
  BY DEF ReadSome
<1>3. UNCHANGED <<input, screen>>
  BY DEF ReadSome, rest, keys, screen
<1>4. n \in 0..Len(output) /\ n <= ReadMaximum - Len(result) /\ Len(result) \in Nat
  <2>1. Len(output) \in Int /\ ReadMaximum - Len(result) \in Int /\ Len(result) \in Nat
    BY <1>1, SessionAssumption, LenProperties
  <2>2. /\ Min({Len(output), ReadMaximum - Len(result)}) \in Int
        /\ Min({Len(output), ReadMaximum - Len(result)}) <= Len(output)
    BY <2>1, MinOfTwo
  <2>3. Min({Len(output), ReadMaximum - Len(result)}) <= ReadMaximum - Len(result)
    BY <2>1, MinOfTwo
  <2> QED BY <1>2, <2>1, <2>2, <2>3
<1>5. SubSeq(output, 1, n) \in Seq(Nat) /\ Len(SubSeq(output, 1, n)) = n
  <2>1. \A i \in 1..n : output[i] \in Nat
    BY <1>1, <1>4, ElementOfSeq, LenProperties
  <2> QED BY <1>4, <2>1, SubSeqProperties
<1>6. Len(result') = Len(result) + n
  BY <1>1, <1>2, <1>5, ConcatProperties
<1>7. Len(result') <= ReadMaximum
  BY <1>4, <1>6, SessionAssumption
<1> QED BY <1>1, <1>3, <1>7 DEF QueueTypes, screen

LEMMA QueueTypesWrite ==
  ASSUME TypeInv, WriteSome
  PROVE  QueueTypes'
<1>1. QueueTypes /\ input \in Seq(Nat) /\ typed \in Keys /\ typed # <<>>
  BY DEF TypeInv, KeyInv, KeyTypes, WriteSome
<1> DEFINE r == Rest(Last(typed))
<1>2. PICK n \in 1..Min({Len(r), Room}) : input' = input \o SubSeq(r, 1, n)
  BY DEF WriteSome
<1>3. UNCHANGED <<result, screen>>
  BY DEF WriteSome, aside
<1>4. r \in Seq(Nat)
  <2> DEFINE k == typed[Len(typed)]
  <2>1. Len(typed) \in 1..Len(typed)
    BY <1>1, EmptySeq DEF Keys
  <2>2. k \in Key /\ k.offset <= Len(k.sequence)
    BY <1>1, <2>1, ElementOfSeq DEF Keys
  <2>3. k.sequence \in Seq(Nat) /\ k.offset \in 0..Len(k.sequence)
    BY <2>2, LenProperties DEF Key
  <2> HIDE DEF k
  <2>4. Rest(k) \in Seq(Nat)
    BY <2>3, SplitAt DEF Rest
  <2> QED BY <2>4 DEF k, Last
<1> HIDE DEF r
<1>5. n \in Nat /\ n <= Len(r) /\ n <= Room /\ 1 <= n
  <2>1. Len(r) \in Int /\ Room \in Int
    BY <1>1, <1>4, LenProperties, SessionAssumption DEF Room
  <2>2. Min({Len(r), Room}) \in Int /\ Min({Len(r), Room}) <= Len(r)
        /\ Min({Len(r), Room}) <= Room
    BY <2>1, MinOfTwo
  <2> QED BY <1>2, <2>1, <2>2
<1>6. SubSeq(r, 1, n) \in Seq(Nat) /\ Len(SubSeq(r, 1, n)) = n
  <2>1. \A i \in 1..n : r[i] \in Nat
    BY <1>4, <1>5, ElementOfSeq, LenProperties
  <2> QED BY <1>5, <2>1, SubSeqProperties
<1>7. Len(input') = Len(input) + n /\ Len(input) \in Nat
  BY <1>1, <1>2, <1>6, ConcatProperties, LenProperties
<1>8. Len(input') <= InputRoom
  <2>1. Room = InputRoom - Len(input) \/ Room = 0
    BY Zenon DEF Room
  <2>2. InputRoom \in Nat
    BY SessionAssumption
  <2>3. Room # 0
    BY <1>5
  <2>4. Room = InputRoom - Len(input)
    BY <2>1, <2>3
  <2> QED BY <1>5, <1>7, <2>2, <2>4
<1> QED BY <1>1, <1>3, <1>8 DEF QueueTypes, screen

LEMMA QueueTypesStep ==
  ASSUME TypeInv, [Next]_vars
  PROVE  QueueTypes'
<1>1. QueueTypes /\ fed \in Seq(Nat) /\ result \in Seq(Nat) /\ input \in Seq(Nat)
  BY DEF TypeInv, RelayInv, RelayTypes, KeyInv, KeyTypes
<1>2. Len(<<>>) = 0 /\ ReadMaximum \in Nat /\ InputRoom \in Nat /\ Len(fed) \in Nat
  BY <1>1, EmptySeq, LenProperties, SessionAssumption
<1>3. CASE ShellReads
  <2>1. input # <<>> /\ input' = Tail(input) /\ UNCHANGED <<result, screen>>
    BY <1>3 DEF ShellReads, external
  <2>2. Len(input') = Len(input) - 1 /\ Len(input) \in Nat
    BY <1>1, <2>1, HeadTailProperties, LenProperties
  <2>3. Len(input') <= InputRoom
    BY <1>1, <1>2, <2>2 DEF QueueTypes
  <2> QED BY <1>1, <2>1, <2>3 DEF QueueTypes, screen
<1>4. CASE Shell /\ ~ShellReads
  <2>1. UNCHANGED <<result, input, screen>>
    BY <1>4 DEF Shell, ShellWrites, ShellDetaches, StartJob, JobEnds, ShellExits, external
  <2> QED BY <1>1, <2>1, QueueTypesFrame
<1>5. ASSUME NEW n \in Numbers, Activate(n) PROVE QueueTypes'
  <2>1. UNCHANGED result /\ input' = <<>> /\ painted' = 0 /\ fed' = <<>>
    BY <1>5 DEF Activate, Opened, Spawned
  <2> QED BY <1>1, <1>2, <2>1 DEF QueueTypes
<1>6. ASSUME NEW n \in Numbers, ActivateFails(n) PROVE QueueTypes'
  <2>1. UNCHANGED <<result, input>> /\ fed' = <<>> /\ painted' = 0
    BY <1>6 DEF ActivateFails, Opened, keys
  <2> QED BY <1>1, <1>2, <2>1 DEF QueueTypes
<1>7. ASSUME NEW n \in Numbers, Dispatch(n) PROVE QueueTypes'
  <2>1. UNCHANGED <<result, input, screen>>
    BY <1>7 DEF Dispatch, rest, keys, screen
  <2> QED BY <1>1, <2>1, QueueTypesFrame
<1>8. ASSUME NEW n \in Numbers, Close(n) PROVE QueueTypes'
  <2>1. UNCHANGED <<result, screen>> /\ input' = <<>>
    BY <1>8 DEF Close
  <2> QED BY <1>1, <1>2, <2>1 DEF QueueTypes, screen
<1>9. CASE ReadSome
  BY <1>9, QueueTypesRead
<1>10. CASE ReadEnds
  <2>1. fed' = fed \o result /\ result' = <<>> /\ UNCHANGED <<painted, input>>
    BY <1>10 DEF ReadEnds, rest, keys
  <2>2. Len(fed') = Len(fed) + Len(result) /\ Len(result) \in Nat
    BY <1>1, <2>1, ConcatProperties, LenProperties
  <2> QED BY <1>1, <1>2, <2>1, <2>2 DEF QueueTypes
<1>11. CASE ReadThrows
  <2>1. UNCHANGED <<input, screen>> /\ result' = <<>>
    BY <1>11 DEF ReadThrows, rest, keys, screen
  <2> QED BY <1>1, <1>2, <2>1 DEF QueueTypes, screen
<1>12. CASE CheckStatus
  <2>1. UNCHANGED <<result, input, screen>>
    BY <1>12 DEF CheckStatus, rest, keys, screen
  <2> QED BY <1>1, <2>1, QueueTypesFrame
<1>13. CASE WriteSome
  BY <1>13, QueueTypesWrite
<1>14. CASE WriteRefused \/ QueueDraw \/ \E press \in Presses : KeyPressed(press)
  <2>1. UNCHANGED <<result, input, screen>>
    BY <1>14 DEF WriteRefused, QueueDraw, KeyPressed, aside, keys
  <2> QED BY <1>1, <2>1, QueueTypesFrame
<1>15. ASSUME NEW size \in Sizes, Draw(size) PROVE QueueTypes'
  <2>1. UNCHANGED <<result, input, fed>> /\ painted' = Len(fed)
    BY <1>15 DEF Draw, keys
  <2> QED BY <1>1, <1>2, <2>1 DEF QueueTypes
<1>16. CASE UNCHANGED vars
  <2>1. UNCHANGED <<result, input, screen>>
    BY <1>16 DEF vars, keys
  <2> QED BY <1>1, <2>1, QueueTypesFrame
<1> QED BY <1>3, <1>4, <1>5, <1>6, <1>7, <1>8, <1>9, <1>10, <1>11, <1>12, <1>13, <1>14,
     <1>15, <1>16 DEF Next, ReadPty, WriteToPty

LEMMA TypeInvInit == Init => TypeInv
<1> SUFFICES ASSUME Init PROVE TypeInv
  OBVIOUS
<1>1. HandlerTypes
  BY SessionAssumption DEF Init, HandlerTypes, Nobody
<1>2. FlagTypes /\ ChildTypes
  BY DEF Init, FlagTypes, ChildTypes
<1>3. QueueTypes
  <2>1. Len(<<>>) = 0
    BY EmptySeq
  <2> QED BY <2>1, SessionAssumption DEF Init, QueueTypes
<1>4. SizeTypes
  BY SessionAssumption DEF Init, SizeTypes
<1> QED BY <1>1, <1>2, <1>3, <1>4, SourceInvInit, RelayInvInit, KeyInvInit DEF TypeInv

(* The types, and that the state of a handler is there only while it runs: *)
(* what was read but not fed, and the source that is called                *)
(* (main.cpp:205-229,298-322).                                             *)
THEOREM SessionTyped == Spec => []TypeOK
<1>1. TypeInv /\ [Next]_vars => TypeInv'
  BY SourceInvStep, RelayInvStep, KeyInvStep, HandlerTypesStep, FlagTypesStep,
    ChildTypesStep, QueueTypesStep, SizeTypesStep DEF TypeInv
<1>2. TypeInv => TypeOK
  <2>1. ASSUME TypeInv PROVE {exit_status_, failed, attached, job, stale} \subseteq BOOLEAN
    BY <2>1, Zenon DEF TypeInv, FlagTypes
  <2> QED BY <2>1 DEF TypeInv, HandlerTypes, ChildTypes, QueueTypes, SizeTypes, SourceInv,
        SourceTypes, CallbackLive, RelayInv, RelayTypes, ResultOfRead, TypeOK
<1> QED BY <1>1, <1>2, TypeInvInit, PTL DEF Spec
=============================================================================

------------------------------- MODULE Session -------------------------------
(***************************************************************************)
(* SpencerApplication: the windows, the GLib sources and the session, on   *)
(* one thread that runs one handler at a time, against the shell and the   *)
(* kernel's terminal, which go on between any two system calls of a        *)
(* handler.  Bytes are numbered as the shell writes them; what they mean   *)
(* is the business of TerminalParser and TerminalState.                    *)
(*                                                                         *)
(* The n-th activation makes window n and, if spawn() succeeds, LinuxPty n *)
(* and sources n.  LinuxPty is taken at its word: activate() gets a shell  *)
(* that runs, or one that is gone already (what the destructor of spawn()'s *)
(* temporary makes of it, see LinuxPty); Survivals says which.             *)
(***************************************************************************)
EXTENDS Keyboard, FiniteSets, FiniteSetsExt, SequencesExt

CONSTANTS
  Survivals,        \* whether the shell may outlive activate()
  Presses,          \* the keys that may be pressed
  Sizes,            \* the dimensions a window may have
  DefaultSize,      \* Dimensions{24, 80}
  ReadMaximum,      \* maximum_bytes of read_available()
  InputRoom,        \* how much the terminal queues for the shell
  MaxActivations, MaxOutput, MaxPresses    \* bounds of the model

ASSUME SessionAssumption ==
  /\ Survivals \subseteq BOOLEAN /\ Survivals # {}
  /\ DefaultSize \in Sizes
  /\ ReadMaximum \in Nat \ {0} /\ InputRoom \in Nat \ {0}
  /\ MaxActivations \in Nat \ {0} /\ MaxOutput \in Nat /\ MaxPresses \in Nat
  /\ \A press \in Presses : Sequence(press) \in Seq(0..255)

VARIABLES
  pc,               \* the handler that runs: "loop" for none
  activations,      \* how many there were
  windows,          \* the application windows that are open
  pty_,             \* the session: its activation, 0 for none
  sources, timers,  \* GLib's live fd sources and blink timers
  pty_source_id_, blink_source_id_,
  dispatched,       \* the source whose callback runs
  exit_status_,     \* whether pty_ knows that its child is gone
  failed,           \* read_pty() gave the session up with a dialog
  child,            \* "none", "running", "exited" or "reaped"
  attached, job,    \* the shell, a background job has the terminal open
  written,          \* all the shell has written
  output,           \* the part of it that can be read
  result,           \* what read_available() has collected
  fed,              \* what parser_ was fed
  lost,             \* history: what the session's earlier parsers were fed
  stale, painted,   \* a redraw is queued; how much the last one showed
  typed,            \* the keys pressed, how far each was written
  input, received,  \* queued for the shell, read by it
  dimensions_, winsize

loop == <<activations, windows, sources, timers, pty_source_id_, blink_source_id_>>
process == <<exit_status_, child, attached, job>>
screen == <<fed, lost, painted>>
keys == <<typed, input, received>>
sizes == <<dimensions_, winsize>>
vars == <<pc, loop, pty_, dispatched, process, failed, written, output, result,
          screen, stale, keys, sizes>>

Nobody == 0
Bytes(n) == [i \in 1..n |-> i]
HangUp == ~attached /\ ~job

\* Faulty variant of Ready: G_IO_HUP is not among the conditions.
ReadyToRead(s) == s # pty_ \/ output # <<>>

\* poll() has something for source s: readable, HUP, or the NVAL of a
\* descriptor that was closed under it.
Ready(s) == s # pty_ \/ output # <<>> \/ HangUp

-----------------------------------------------------------------------------
\* The shell, its background jobs and the terminal, at any time.
external == <<pc, loop, pty_, dispatched, exit_status_, failed, result, screen,
              stale, typed, sizes>>

ShellWrites ==
  /\ child = "running" /\ attached /\ Len(written) < MaxOutput
  /\ written' = Append(written, Len(written) + 1)
  /\ output' = Append(output, Len(written) + 1)
  /\ UNCHANGED <<external, child, attached, job, input, received>>

ShellReads ==
  /\ child = "running" /\ attached /\ input # <<>>
  /\ received' = Append(received, Head(input)) /\ input' = Tail(input)
  /\ UNCHANGED <<external, child, attached, job, written, output>>

\* exec >&- 2>&- <&-, the end of a job, the start of one, the end of the shell.
ShellDetaches ==
  /\ child = "running" /\ attached /\ attached' = FALSE
  /\ UNCHANGED <<external, child, job, written, output, input, received>>

StartJob ==
  /\ child = "running" /\ attached /\ ~job /\ job' = TRUE
  /\ UNCHANGED <<external, child, attached, written, output, input, received>>

JobEnds ==
  /\ job /\ job' = FALSE
  /\ UNCHANGED <<external, child, attached, written, output, input, received>>

ShellExits ==
  /\ child = "running" /\ child' = "exited" /\ attached' = FALSE
  /\ UNCHANGED <<external, job, written, output, input, received>>

Shell == ShellWrites \/ ShellReads \/ ShellDetaches \/ StartJob \/ JobEnds \/ ShellExits

-----------------------------------------------------------------------------
\* g_unix_fd_add_full() and g_timeout_add(): the ids of an earlier activation
\* are overwritten, its sources stay.
Started(n) ==
  /\ sources' = sources \cup {n} /\ pty_source_id_' = n
  /\ timers' = timers \cup {n} /\ blink_source_id_' = n

\* A new LinuxPty with nothing read or typed yet: a shell that runs, or one
\* that was hung up after it had written something, with or without a job
\* left behind.  An earlier one is destroyed, which terminates its shell.
Spawned ==
  /\ exit_status_' = FALSE /\ failed' = FALSE
  /\ \/ /\ TRUE \in Survivals /\ child' = "running" /\ attached' = TRUE
        /\ job' = FALSE /\ written' = <<>>
     \/ /\ FALSE \in Survivals /\ child' = "reaped" /\ attached' = FALSE
        /\ job' \in BOOLEAN /\ \E n \in 0..MaxOutput : written' = Bytes(n)
  /\ output' = written' /\ fed' = <<>> /\ lost' = <<>>
  /\ typed' = <<>> /\ input' = <<>> /\ received' = <<>>
  /\ winsize' = DefaultSize

\* What activate() does before spawn(), and after it in any case.
Opened(n) ==
  /\ pc = "loop" /\ n = activations + 1 /\ n <= MaxActivations
  /\ activations = 0 \/ windows # {}
  /\ activations' = n /\ windows' = windows \cup {n}
  /\ dimensions_' = DefaultSize /\ painted' = 0 /\ stale' = TRUE
  /\ UNCHANGED <<pc, dispatched, result>>

Activate(n) == Opened(n) /\ Spawned /\ pty_' = n /\ Started(n)

\* spawn() throws: the screen and the parser are new, the session is not, and
\* what the old ones were fed is gone with them.
ActivateFails(n) ==
  /\ Opened(n) /\ lost' = lost \o fed /\ fed' = <<>>
  /\ UNCHANGED <<sources, timers, pty_source_id_, blink_source_id_, pty_, process,
                 failed, written, output, keys, winsize>>

-----------------------------------------------------------------------------
\* read_pty(), called for source s.
rest == <<activations, windows, timers, blink_source_id_, pty_, written, lost,
          painted, keys, sizes>>

Dispatch(s) ==
  /\ pc = "loop" /\ windows # {} /\ s \in sources /\ Ready(s)
  /\ IF pty_ = Nobody
     THEN sources' = sources \ {s} /\ UNCHANGED <<pc, dispatched>>
     ELSE pc' = "reading" /\ dispatched' = s /\ UNCHANGED sources
  /\ UNCHANGED <<rest, pty_source_id_, process, failed, output, result, fed, stale>>

\* Faulty variant of ReadSome: each read may fill the whole buffer again.
ReadSomeBeyond ==
  /\ pc = "reading"
  /\ \E n \in 1..Min({Len(output), ReadMaximum}) :
       /\ result' = result \o SubSeq(output, 1, n)
       /\ output' = SubSeq(output, n + 1, Len(output))
  /\ UNCHANGED <<pc, rest, sources, pty_source_id_, dispatched, process, failed,
                 fed, stale>>

\* Faulty variant of ReadSome: insert() at the wrong end.
ReadSomeInFront ==
  /\ pc = "reading"
  /\ \E n \in 1..Min({Len(output), ReadMaximum - Len(result)}) :
       /\ result' = SubSeq(output, 1, n) \o result
       /\ output' = SubSeq(output, n + 1, Len(output))
  /\ UNCHANGED <<pc, rest, sources, pty_source_id_, dispatched, process, failed,
                 fed, stale>>

\* One read(2) of read_available(): some of what there is, as far as fits.
ReadSome ==
  /\ pc = "reading"
  /\ \E n \in 1..Min({Len(output), ReadMaximum - Len(result)}) :
       /\ result' = result \o SubSeq(output, 1, n)
       /\ output' = SubSeq(output, n + 1, Len(output))
  /\ UNCHANGED <<pc, rest, sources, pty_source_id_, dispatched, process, failed,
                 fed, stale>>

Reap ==
  IF child \in {"exited", "reaped"}
  THEN child' = "reaped" /\ exit_status_' = TRUE
  ELSE UNCHANGED <<child, exit_status_>>

\* Faulty variant of ReadEnds: nothing is redrawn.
ReadEndsUnseen ==
  /\ pc = "reading" /\ (output = <<>> \/ Len(result) = ReadMaximum)
  /\ IF Len(result) < ReadMaximum THEN Reap ELSE UNCHANGED <<child, exit_status_>>
  /\ fed' = fed \o result /\ result' = <<>> /\ pc' = "fed"
  /\ UNCHANGED <<rest, sources, pty_source_id_, dispatched, attached, job, failed,
                 output, stale>>

\* EAGAIN or EIO, where the child is looked after, or maximum_bytes; then
\* what was read goes to the parser.
ReadEnds ==
  /\ pc = "reading" /\ (output = <<>> \/ Len(result) = ReadMaximum)
  /\ IF Len(result) < ReadMaximum THEN Reap ELSE UNCHANGED <<child, exit_status_>>
  /\ fed' = fed \o result /\ result' = <<>> /\ pc' = "fed"
  /\ stale' = (stale \/ result # <<>>)
  /\ UNCHANGED <<rest, sources, pty_source_id_, dispatched, attached, job, failed,
                 output>>

\* G_SOURCE_REMOVE removes the source that was called, whichever it is.
Removed == sources' = sources \ {dispatched} /\ pty_source_id_' = Nobody

\* Another error of read(2): what was collected is lost with the exception.
ReadThrows ==
  /\ pc = "reading" /\ result' = <<>> /\ failed' = TRUE
  /\ Removed /\ pc' = "loop" /\ dispatched' = Nobody
  /\ UNCHANGED <<rest, process, output, fed, stale>>

\* Faulty variant of CheckStatus: the id of the removed source is kept.
CheckStatusOnly ==
  /\ pc = "fed" /\ Reap /\ pc' = "loop" /\ dispatched' = Nobody
  /\ sources' = IF exit_status_' THEN sources \ {dispatched} ELSE sources
  /\ UNCHANGED <<rest, pty_source_id_, attached, job, failed, output, result, fed, stale>>

\* Faulty variant of CheckStatus: a hang-up is taken for the end.
CheckStatusAtHangUp ==
  /\ pc = "fed" /\ Reap /\ pc' = "loop" /\ dispatched' = Nobody
  /\ IF exit_status_' \/ HangUp THEN Removed ELSE UNCHANGED <<sources, pty_source_id_>>
  /\ UNCHANGED <<rest, attached, job, failed, output, result, fed, stale>>

\* exit_status(), and the return of the callback.
CheckStatus ==
  /\ pc = "fed" /\ Reap /\ pc' = "loop" /\ dispatched' = Nobody
  /\ IF exit_status_' THEN Removed ELSE UNCHANGED <<sources, pty_source_id_>>
  /\ UNCHANGED <<rest, attached, job, failed, output, result, fed, stale>>

ReadPty == ReadSome \/ ReadEnds \/ ReadThrows \/ CheckStatus

-----------------------------------------------------------------------------
\* key_pressed() and write_to_pty().
aside == <<loop, pty_, dispatched, process, failed, written, output, result, screen,
           received, sizes>>

KeyPressed(press) ==
  /\ pc = "loop" /\ windows # {} /\ pty_ # Nobody
  /\ IsSent(press) /\ Sequence(press) # <<>> /\ Len(typed) < MaxPresses
  /\ typed' = Append(typed, [sequence |-> Sequence(press), offset |-> 0, refused |-> FALSE])
  /\ pc' = "writing" /\ UNCHANGED <<aside, stale, input>>

Rest(key) == SubSeq(key.sequence, key.offset + 1, Len(key.sequence))
Room == IF attached \/ job THEN InputRoom - Len(input) ELSE 0

\* Faulty variant of Advance: every part is written as if it were the whole.
AdvanceWhole(n) == typed' = [typed EXCEPT ![Len(typed)].offset = Len(Last(typed).sequence)]

Advance(n) == typed' = [typed EXCEPT ![Len(typed)].offset = @ + n]

\* One write(2) of the loop: some bytes at least, and the last of them ends it.
WriteSome ==
  /\ pc = "writing"
  /\ \E n \in 1..Min({Len(Rest(Last(typed))), Room}) :
       /\ input' = input \o SubSeq(Rest(Last(typed)), 1, n)
       /\ Advance(n)
  /\ LET done == Last(typed').offset = Len(Last(typed').sequence)
     IN pc' = (IF done THEN "loop" ELSE pc) /\ stale' = (stale \/ done)
  /\ UNCHANGED aside

\* EAGAIN or EIO make write() return 0, and the loop throws.
WriteRefused ==
  /\ pc = "writing" /\ Room = 0
  /\ typed' = [typed EXCEPT ![Len(typed)].refused = TRUE]
  /\ pc' = "loop" /\ UNCHANGED <<aside, stale, input>>

WriteToPty == WriteSome \/ WriteRefused

-----------------------------------------------------------------------------
\* The blink timer or the window system asks for a frame.
QueueDraw ==
  /\ windows # {} /\ ~stale /\ stale' = TRUE
  /\ UNCHANGED <<pc, loop, pty_, dispatched, process, failed, written, output, result,
                 screen, keys, sizes>>

\* Faulty variant of ResizeTerminal: the shell is not told.
ResizeScreenOnly(size) == dimensions_' = size /\ UNCHANGED winsize

ResizeTerminal(size) ==
  /\ dimensions_' = size
  /\ winsize' = IF size # dimensions_ /\ pty_ # Nobody THEN size ELSE winsize

\* draw(), for which GTK's priority leaves every fd source first.
Draw(size) ==
  /\ pc = "loop" /\ windows # {} /\ stale /\ \A s \in sources : ~Ready(s)
  /\ ResizeTerminal(size)
  /\ painted' = Len(fed) /\ stale' = FALSE
  /\ UNCHANGED <<pc, loop, pty_, dispatched, process, failed, written, output, result,
                 fed, lost, keys>>

\* Faulty variant of Unwatched: the source of the descriptor is forgotten.
UnwatchedBlinkOnly ==
  /\ UNCHANGED sources /\ timers' = timers \ {blink_source_id_}
  /\ pty_source_id_' = Nobody /\ blink_source_id_' = Nobody

\* g_source_remove() of both ids, if they are not zero.
Unwatched ==
  /\ sources' = sources \ {pty_source_id_} /\ timers' = timers \ {blink_source_id_}
  /\ pty_source_id_' = Nobody /\ blink_source_id_' = Nobody

\* close-request of any window: shutdown(), then GTK destroys the window.
Close(w) ==
  /\ pc = "loop" /\ w \in windows /\ windows' = windows \ {w}
  /\ Unwatched /\ pty_' = Nobody
  /\ child' = "none" /\ attached' = FALSE /\ job' = FALSE
  /\ exit_status_' = FALSE /\ failed' = FALSE /\ output' = <<>>
  /\ typed' = <<>> /\ input' = <<>> /\ received' = <<>>
  /\ UNCHANGED <<pc, activations, dispatched, written, result, screen, stale, sizes>>

-----------------------------------------------------------------------------
Init ==
  /\ pc = "loop" /\ activations = 0 /\ windows = {} /\ pty_ = Nobody
  /\ sources = {} /\ timers = {}
  /\ pty_source_id_ = Nobody /\ blink_source_id_ = Nobody /\ dispatched = Nobody
  /\ exit_status_ = FALSE /\ failed = FALSE
  /\ child = "none" /\ attached = FALSE /\ job = FALSE
  /\ written = <<>> /\ output = <<>> /\ result = <<>>
  /\ fed = <<>> /\ lost = <<>>
  /\ stale = FALSE /\ painted = 0
  /\ typed = <<>> /\ input = <<>> /\ received = <<>>
  /\ dimensions_ = DefaultSize /\ winsize = DefaultSize

Numbers == 1..MaxActivations

Next ==
  \/ Shell
  \/ \E n \in Numbers : Activate(n) \/ ActivateFails(n) \/ Dispatch(n) \/ Close(n)
  \/ ReadPty \/ WriteToPty \/ QueueDraw
  \/ \E press \in Presses : KeyPressed(press)
  \/ \E size \in Sizes : Draw(size)

Spec == Init /\ [][Next]_vars

\* A handler runs to its end, and GLib leaves out no source that is ready
\* again and again, nor, when none is, a frame that was asked for.  Nothing
\* is assumed of the shell, its jobs or the user.
Fairness ==
  /\ WF_vars(ReadPty) /\ WF_vars(WriteToPty)
  /\ \A n \in Numbers : SF_vars(Dispatch(n))
  /\ SF_vars(\E size \in Sizes : Draw(size))

FairSpec == Spec /\ Fairness

-----------------------------------------------------------------------------
(* Types, and that the state of a handler is there only while it runs.     *)
TypeOK ==
  /\ pc \in {"loop", "reading", "fed", "writing"}
  /\ activations \in 0..MaxActivations /\ windows \subseteq 1..activations
  /\ pty_ \in 0..activations /\ dispatched \in 0..activations
  /\ sources \subseteq 1..activations /\ timers \subseteq 1..activations
  /\ pty_source_id_ \in 0..activations /\ blink_source_id_ \in 0..activations
  /\ pc \in {"reading", "fed"} <=> dispatched # Nobody
  /\ pc # "loop" => pty_ # Nobody
  /\ child \in {"none", "running", "exited", "reaped"}
  /\ {exit_status_, failed, attached, job, stale} \subseteq BOOLEAN
  /\ exit_status_ => child = "reaped"
  /\ pc # "reading" => result = <<>>
  /\ Len(result) <= ReadMaximum /\ Len(input) <= InputRoom
  /\ painted \in 0..Len(fed) /\ lost \in Seq(Nat)
  /\ dimensions_ \in Sizes /\ winsize \in Sizes

Relay == INSTANCE ByteRelay WITH
  sent <- written, received <- fed, earlier <- lost, open <- pty_ # Nobody /\ ~failed

(* "safely relay PTY input and output"                                     *)
(* (docs/architecture/technical-specification.md:11): whatever the reads   *)
(* return, wherever the 64 KiB end and whichever window's source is called,*)
(* each of the shell's bytes is given to one parser, in order, with none   *)
(* left out or doubled, until the session is over.  A read that failed is  *)
(* the end of it (main.cpp:205-229).  A second window that gets no shell   *)
(* puts a new screen and a new parser in the place of the session's        *)
(* (main.cpp:151-153): the new ones take over at the byte the old ones had *)
(* come to, and what those were given is not shown again.                  *)
OutputRelayed == Relay!RSpec

(* The other direction: the shell is given the keys in order, each one     *)
(* whole; only a key whose writing was refused, which is reported with a   *)
(* dialog, is given in part (main.cpp:293-322).                            *)
KeysWholeOrReported ==
  /\ received \o input =
       FlattenSeq([i \in DOMAIN typed |-> SubSeq(typed[i].sequence, 1, typed[i].offset)])
  /\ \A i \in DOMAIN typed :
       \/ typed[i].offset = Len(typed[i].sequence) \/ typed[i].refused
       \/ i = Len(typed) /\ pc = "writing"

(* A session whose end is not known yet is watched by a source, whatever   *)
(* windows were opened and whichever source's callback found what          *)
(* (main.cpp:162,205-229,512-526).                                         *)
SessionWatched ==
  pty_ # Nobody /\ ~exit_status_ /\ ~failed => pty_ \in sources

(* An id that is kept is the id of a live source: g_source_remove() is     *)
(* never called with one that GLib removed or, since ids are reused, gave  *)
(* to somebody else (main.cpp:220,226,513-520).                            *)
IdsNameLiveSources ==
  /\ pty_source_id_ # Nobody => pty_source_id_ \in sources
  /\ blink_source_id_ # Nobody => blink_source_id_ \in timers

(* With one activation shutdown() leaves no source and no timer behind to  *)
(* call into a closed session or a destroyed widget, also when the source  *)
(* had removed itself before (main.cpp:512-526).  A second activation      *)
(* leaves the first one's.                                                 *)
ShutdownLeavesNoSource ==
  activations = 1 /\ pty_ = Nobody => sources = {} /\ timers = {}

(* The shell's idea of the size is the screen's, through every order of    *)
(* resizing, opening and closing: the two part only when a second window   *)
(* failed to start a shell and left the first one running                  *)
(* (main.cpp:151-158,364-377).                                             *)
SizesAgree == pty_ # Nobody => winsize = dimensions_
OnlyFailurePartsSizes ==
  [][SizesAgree => SizesAgree' \/ \E n \in Numbers : ActivateFails(n)]_vars

\* The terminal is hung up while the shell lives on, or there is a source of
\* an earlier window: a source is ready for good, and no frame is drawn.
Spinning == (HangUp /\ child = "running") \/ sources \ {pty_} # {}

(* A window that falls behind its shell catches up in the end, as long as  *)
(* the session goes on and no source spins: all that was written is read,  *)
(* parsed and drawn, once the shell pauses (in the model it writes         *)
(* MaxOutput bytes at most), but for what a replaced screen was given.  No *)
(* sequence of keys, frames, partial reads, jobs and failed activations    *)
(* makes the window stop following (main.cpp:161-163,205-229).             *)
Shown == Len(lost) + painted
OutputPainted ==
  Shown < Len(written) ~>
    Shown = Len(written) \/ pty_ = Nobody \/ exit_status_ \/ failed \/ Spinning

(* An exit is noticed in the end, once nothing else has the terminal open, *)
(* however much output there was to be read first (main.cpp:161,219-222).  *)
ExitNoticed ==
  pty_ # Nobody /\ child # "running" /\ HangUp ~>
    exit_status_ \/ pty_ = Nobody \/ child = "running" \/ failed

-----------------------------------------------------------------------------
\* What the documents say and the code does not do.

(* "safely relay PTY input and output"                                     *)
(* (docs/architecture/technical-specification.md:11), the end of it        *)
(* included: when the session is left because the shell is gone, all the   *)
(* shell has written was shown.  The status is looked at after every read, *)
(* also after one that filled its buffer (main.cpp:210,219).               *)
OutputShownAtExit ==
  pty_ # Nobody /\ exit_status_ /\ pty_ \notin sources => lost \o fed = written
=============================================================================

# SPENCER in TLA+

A verification development of the terminal emulator SPENCER (C++20, GTK 4). The
modules here are translations of the code under `src/` of the repository, checked
with TLC on small instances; the theorems are checked with TLAPS for every value of
the constants. Paths below are relative to the root of the repository.

## 1. The system

One process, one thread. The GTK main loop calls back into `SpencerApplication`
(`src/app/main.cpp`), which owns one object of each of the other components:

```
 shell <-- pty --> LinuxPty --bytes--> TerminalParser --calls--> TerminalState
                      ^                  |  Utf8Decoder               |
                      |                                               v
                  key presses, resize                     draw(), window title
```

| Component | Code | State it keeps | Operations |
|---|---|---|---|
| UTF-8 decoder | `src/parser/utf8_decoder.cpp` | payload bits, minimum, bytes awaited | `feed`, `flush`, `reset`; calls `consumer_` |
| Terminal parser | `src/parser/terminal_parser.cpp` | one of seven states, two byte buffers, private marker, the decoder | `feed`, `flush`, `reset`; calls the sixteen `TerminalOperations` |
| Terminal state | `src/terminal/terminal_state.cpp` | grid, scrollback, cursor, saved cursor, style, modes, title, pending wrap, damage | the `TerminalOperations`, `resize`, `set_scrollback_limit`, `clear_damage` |
| Pseudo-terminal | `src/pty/linux_pty.cpp`, `unique_fd.hpp` | master descriptor, child pid, exit status | `spawn`, `exit_status`, `read_available`, `write`, `resize`, `terminate`, `resolve_shell`, move, destruction |
| Session | `src/app/main.cpp` | the three objects above, two GLib sources, viewport offset | `activate`, `read_pty`, `key_pressed`, `scroll`, `draw`, `shutdown` |
| Configuration | `src/config/config.cpp` | a file, `config_` | `load`, `write_example_if_missing` |

How they interact: by direct calls only. `read_pty` reads what there is, feeds it to
the parser, and the parser calls the screen synchronously; nothing is queued inside the
process. What runs concurrently is outside: the child process and the kernel, and
between two callbacks anything may have happened to the child.

What is hard in this code, and what makes each component correct:

* **Decoder.** Well-formedness is checked by one comparison with a minimum chosen at
  the lead byte. Correct: exactly the sequences of the Unicode table get through, and
  nothing incomplete disappears.
* **Parser.** Seven states, and sequences that may be cut short, nested in one another,
  aborted or longer than the buffers. Some ways out clear the buffers and some do not.
  Correct: a sequence is executed with its own bytes only, strings never reach the
  screen, the buffers are bounded, arguments are in range.
* **Screen.** A cursor, a saved cursor and a pending wrap that have to survive resizes
  and movements; wide characters that take two cells; marks that change a cell already
  written; a scrollback whose limit may be zero. Correct: everything is inside the grid,
  printing is local, the scrollback is a log.
* **Pseudo-terminal.** The child exits at any point of spawning, polling and
  terminating; a pid must not be used after it was reaped; two objects can hold the same
  pid because the move constructor copies it. Correct: no child is left, no signal goes
  astray, the status is the child's, the descriptor has one owner, shutdown ends.
  The shell that is started is the one that was asked for.
* **Session.** Output that is still unread when the shell exits, reads and writes that take
  a part of the bytes, a hang-up without an exit and an exit without a hang-up, sources that
  remove themselves and are removed, a second activation over the first. Correct: the parser
  gets the shell's bytes in order, each once; the shell gets each key whole or a
  dialog reports it; the session is watched as long as its end is not known; an id names a
  live source; screen and shell agree on the size; the window catches up; an exit is noticed.
* **Viewport.** An offset beside the screen, which scrolls, shrinks and forgets under it.
  Correct: the window shows one page of the text, and every row can be reached.
* **Configuration.** A file that a user edits while the program looks at it, and lines that
  repeat, contradict or spoil one another. Correct: the last valid line of a key wins, and
  what the user has saved is kept, but for two windows the code leaves open.

The full list, with the line where each hazard bites and the properties that would catch
it, is `hazards` in `PROJECT.json`.

## 2. The modules

| Module | Contents |
|---|---|
| `Utf8Decoder` | The decoder: `Feed`, `Flush`, `Reset`. The code points handed to `consumer_` by one operation are the variable `emitted`. |
| `Utf8Stream` | The decoder fed bytes, a history of the current sequence's bytes, table 3-7 of the Unicode Standard as the reference, the properties. |
| `TerminalParser` | One operator per handler (`ProcessGround` ... `ProcessString`), parameter parsing, OSC. It INSTANCEs `Utf8Decoder`; the calls on the screen made by one byte are the variable `ops`. |
| `ParserStream` | The parser reading a stream, with three histories a reader of the bytes would keep (`body`, `opened`, `recent`), and the properties. |
| `GraphicRendition` | `set_graphics_rendition` and `apply_extended_color` as a recursive function of the parameters read. |
| `RenditionStream` | Sequences received parameter by parameter; the reference reads them as a list of complete commands. |
| `TerminalState` | The screen as one record, every operation an operator from the record before to the record after. It EXTENDS `GraphicRendition`. `Apply` is the dispatch of a parser's call. |
| `LineHistory` | The abstract specification of a scrollback: a log of rows. |
| `ScreenProperties` | What the screen keeps to; `LineHistory` is instantiated with a refinement mapping. |
| `LinuxPty` | One shell: `spawn`, the move into a `unique_ptr`, polling, `terminate` step by step, the destructor, together with the child and the kernel's view of it. |
| `Window` | `viewport_offset_`, `adjust_viewport`, `visible_rows` over `ScreenProperties`: every step of the screen, with the wheel and the page keys between any two of them. |
| `Terminal` | `ParserStream` and `Window` side by side: the calls of each byte are made on the screen at once (`Dispatch`), and between two bytes the window scrolls, resizes and draws. |
| `Configuration` | The file, `write_example_if_missing` step by step, `load` as a function of the lines read, the limits of every key. |
| `Startup` | `activate` up to the running shell: `Configuration` and `LinuxPty` side by side, `resolve_shell` between them, `chdir` and `execl` in the child, an installation that changes meanwhile. |
| `Keyboard` | The bytes `key_pressed` sends for a key. |
| `ByteRelay` | The abstract specification of a session's output: a relay of bytes. |
| `Session` | Windows, GLib's sources, `read_pty`, `write_to_pty`, `draw` and `shutdown` against a shell, its jobs and the kernel's terminal. `ByteRelay` is instantiated with a refinement mapping. |
| `MC*` | Instances for TLC; only values of constants. |
| `Induction` | Least and greatest elements, induction over a set of numbers, and the unfolding of a recursive function, from well-foundedness. |
| `Utf8Proofs`, `ParserProofs`, `RenditionProofs`, `ScreenProofs`, `TerminalProofs`, `StartupProofs`, `SessionProofs` | Theorems about the module of that name (`ScreenProofs`: `ScreenProperties`; `TerminalProofs`: `Window` too; `StartupProofs`: `LinuxPty` too). |

Correspondence. Variables and operators carry the names of the code (`state_`,
`parameters_`, `osc_payload_`, `wrap_pending`, ...). An action is a whole handler: the
flush of the decoder that precedes an introducer, the clearing of the buffers after a
sequence, the clamping of the cursor after a resize are parts of it. In `LinuxPty` an
action is the stretch between two points at which the child can do something the thread
notices: `terminate` is five actions, because it sleeps between polls and blocks in
`waitpid`. In the same way `read_pty` in `Session` is one action for each `read(2)`, one for
the end of the reading and one for the look at the exit status, and `write_to_pty` one for
each `write(2)`: between two of them the shell may write, read, detach or exit. `pc` says
which handler runs; GLib calls no second one before it returns. `write_example_if_missing`
is four: the look for the file, the directories, the truncating open and the write when the
stream is closed, because a user can save the file between any two of them. An editor may
put another file in its place, which the open stream does not reach, or write to the file
that is there, which the stream then writes over from the first byte on (`Overwritten`).

Abstractions. Text is a sequence of code points or bytes, taken from small sets. A
parser's buffer holds bytes, its limits and `INT_MAX` are constants. Negative parameters
are kept as negative numbers, since their callers clamp every one of them. Widths of
integers are not modelled in `TerminalState`: a count is an `int` and dimensions are
pixels divided by the size of a cell, so no sum of the code overflows `size_t`.
`modes_.insert` and `modes_.auto_wrap` are never set by the code; the branch that needs
`insert` is left out. In `LinuxPty` deadlines are choices: a poll may be the last one at
any time. The kernel is external: the process group exists once the child has called
`setsid()`, a signal to a group that does not exist is lost, a signal to a dead child
does nothing.

`Session` numbers the bytes as the shell writes them; what they mean is the parser's
business. It does not repeat `LinuxPty`. The one thing it needs of it is whether the shell
outlives `activate`, and the constant `Survivals` allows both. That is more than this commit
does: the temporary that `spawn` returned always signals the shell (run `signal_at_start`),
and an ignored SIGHUP ends in SIGKILL, so that in practice the shell is gone. The
properties are those of a session whose shell runs as well, which is what `read_pty` is
written for. A read that fails ends the session with a dialog (`failed`), and the promises
with it. A configuration file is a sequence of lines, and a line is its key with the value it
assigns, a comment or something malformed; a text is a name, its length and whether it is
an absolute path, which is all `load` and `resolve_shell` look at. Lines have no lengths in
bytes: of a text the example was written over any of the last lines may be left, and before
them a line of the set `Fragments`, what the cut has made of one.

Three histories are variables that no guard reads. `killed` in `LinuxPty` says that SIGKILL was
resorted to, so that 137 can be told from a status made up. `late` in `Configuration` says that
the text in the file was saved in one of the two windows. `lost` in `Session` is what the
earlier parsers of the session were fed, so that the relay can be stated over a parser that
is replaced.

Operators commented as "Faulty variant of ..." are plausible mistakes, used to
show that each property can fail: `mutants` in `PROJECT.json` says which definition each
one replaces and which property then breaks. No specification uses them.

## 3. The runs

| Run | Configuration | Shows |
|---|---|---|
| `utf8_stream` | `MCUtf8Stream.cfg` | `DecodesAsUnicode`: the decoder reports exactly what the Unicode table says. `IncompleteIsReplaced`: nothing unfinished is dropped except by `reset()`. |
| `parser_stream` | `MCParserStream.cfg` | `BuffersHoldSequence`: a sequence is executed with its own bytes. `BuffersBounded`, `ArgumentsInRange`. `DecoderIdleInSequence`: no character is completed across a sequence. `StringsAreSilent`: from introducer to terminator, as a reader of ECMA-48 sees them, no string reaches the screen. `TitleIsWhole`: a title is complete or not set. |
| `rendition` | `MCRenditionStream.cfg` | `SequenceIsItsCommands`: operands of a complete colour are never read as attributes, nothing after one is swallowed, and a colour cut short gives up its introducer and mode and no more, so that its operands are read as attributes. |
| `screen_wide` | `MCWindow.cfg` | `WrapOnlyAtMargin`, `ScrollbackBounded`. `PrintIsLocal`: one character changes at most two cells of the whole text and scrolls it by at most one row. `ScrollbackIsHistory`: `TerminalState` implements `LineHistory`. `ViewIsAPage`: whatever the offset, one page is shown, the screen itself where the cursor is drawn, and every row is on some page. `OnlyErasingStrandsView`: nothing but a shorter scrollback leaves the offset beyond it. |
| `terminal` | `MCTerminal.cfg` | Bytes through the parser onto the screen. `TypeOK`: no byte takes the cursor or a row off the grid. `ContinuationsEmpty`: no mark is lost in the second half of a wide character. `DamageCoversChanges`: what a window shows is redrawn after it changed, if two calls of one byte changed it too. |
| `pty` | `MCStartup.cfg` | From the file to the end of the shell. `LastValidLineWins`: what is loaded is what the last valid line of each key says. `UserTextKept`: a saved text is overwritten in two windows only, and not by the load. `RunsConfiguredShell`: the configured shell, `$SHELL` only if none is configured, and otherwise the first fallback that can be executed. `StatusIsTheChilds`: a status is the child's, 137 only after a SIGKILL, -1 only where the other object knows the child's. `NoChildLeft`, `NoStraySignal`, `DescriptorOwnedOnce`, and `ShutdownCompletes` under fairness. |
| `session` | `MCSession.cfg` | `OutputRelayed`: `Session` implements `ByteRelay`, also when an activation that fails replaces the parser. `KeysWholeOrReported`. `SessionWatched`, `IdsNameLiveSources` and `ShutdownLeavesNoSource`: the sources come and go with the session. `OnlyFailurePartsSizes`: screen and shell have one size until an activation fails. `OutputPainted` and `ExitNoticed` under fairness: the window catches up with all but what a replaced screen was given, and an exit is seen. |

Five more runs have one property each, a sentence of the documentation that the code
does not keep; TLC finds the counterexample.

| Run | Sentence | What happens |
|---|---|---|
| `c1_in_character` | "ASCII and UTF-8 scalar decoding" (`docs/terminal-compatibility.md:9`) | A continuation byte 90, 9B or 9D (hex) is taken for an 8-bit control: U+201D, E2 80 9D, opens an OSC string. |
| `escape_with_intermediate` | "the parser safely ignores unsupported commands" (line 22) | An escape sequence ends after its intermediate byte, and its final byte is printed: ESC ( 0 prints 0, ESC ( B prints B. |
| `half_of_a_pair` | "Common East Asian wide ranges occupy two cells" (line 10) | Overwriting half of a wide character leaves the other half. |
| `signal_at_start` | "On application shutdown, the parent sends SIGHUP" (`docs/architecture/technical-specification.md:75`) | The destructor of the temporary that `spawn` returned signals the shell at once, because the defaulted move constructor copies the pid (`linux_pty.hpp:33`, `main.cpp:158`). |
| `output_lost_at_exit` | "safely relay PTY input and output" (`docs/architecture/technical-specification.md:11`) | `read_pty` looks at the exit status also after a read that filled its buffer (`main.cpp:219`): when the shell is gone by then, the source is removed and the rest of the output stays in the kernel. |

Other differences between documents and code, seen while modelling and recorded as
hazards without a run: a BEL no longer ends an OSC string that outgrew its buffer
(`terminal_parser.cpp:191`); ESC ESC \ does not end a string (`:165`, `:200`); a control
inside a half-received character overtakes its U+FFFD (`:98`); CSI > ... m is executed as
a graphic rendition (`:236`); the operands of a colour cut short are read as attributes, so that
CSI 38;2;1 m switches bold on (`terminal_state.cpp:402-411`, `:157-163`); a combining mark
after the character in the last column
joins another cell (`terminal_state.cpp:305`). A descriptor whose shell has closed it and
lives on is ready with HUP for good, and its callback, which outranks drawing, is called
again and again (`main.cpp:161`), where `docs/architecture/technical-specification.md:67`
has "only on readable events, preventing a busy-loop". A child that cannot enter its
directory leaves without a message (`linux_pty.cpp:109`), where `docs/configuration.md:13`
has "a failure causes shell startup to fail visibly". A configured shell that cannot be
executed goes to the fallbacks past `$SHELL` (`linux_pty.cpp:260`). The warnings of `load`
are shown nowhere. "writes an editable example only if no file is present"
(`docs/configuration.md:3`) has two gaps: a file saved between the look and the truncating
open, and a text written to the opened file before the stream is flushed (`config.cpp:133-153`).
A second activation leaves the sources of the first, and one that fails has replaced the screen
and the parser of the session that goes on (`main.cpp:151-153`): what the old screen showed is
gone, and the new parser begins in the middle of the output. The object the program keeps ends
with the status -1, since the temporary has reaped the child (`main.cpp:158`, run
`signal_at_start`). After a SIGKILL the status is 137, also if the child had exited by itself
before (`linux_pty.cpp:250`).

### Bounds, and why they are enough

* `utf8_stream`: the bytes at both ends of every range of table 3-7 and of `process()`.
  A comparison that is off by one is off at one of them. The theorem covers the rest.
* `parser_stream`: a byte of every class the handlers compare with, buffers of three
  bytes, two parameters and `INT_MAX` = 20, so that every limit is reached: a third
  parameter, an OSC string of four bytes, an ESC with room for one byte but not for two,
  a number of three digits. The history `body` holds one byte more than the buffers.
* `rendition`: six parameters in a sequence, an RGB colour and a command after it, from
  an empty parameter, the two mode numbers (one of which is an attribute elsewhere), both
  colours and a value out of range. Sequences are received in the default style and in
  one that has a colour and an attribute (`StartBound`), so that what a sequence must
  leave alone is there to be lost; they end in every style they can reach.
* `screen_wide`: grids of 1x2 and 2x1 (a requested zero among them), limits 0 and 2 and a
  resize between them at any time. Two columns hold a pair and a margin; one column makes
  wide characters narrow. A scroll needs one row, a scroll that is not at the top two. The
  wheel moves one row and a page two, so that an offset can meet the end of two rows of
  scrollback exactly and pass it.
  Styles, modes and titles are called with one value each, so that they come between any two
  of the others: the default style, a mode nobody knows and a title that is cut. What they do
  to the screen is for the theorems, with any value.
* `terminal`: grids of 2x2 and 1x2, no scrollback (limit 0) and bytes that make an ideograph, a
  combining mark, letters, a line feed and the sequences CSI H and CSI K, with the parameter 0
  or none. A parameter of
  one byte reaches the bounds of the buffer and of the list. The bytes of a character can come
  in any order with all of these between them. A cell has at most two code points (`MarkBound`).
  The properties of `Window` that need a scrollback, and those that speak of one call, are the
  business of `screen_wide`. What `DamageCoversChanges` says of the scrollback is empty here and
  rests on the theorems `ChangesAreSeen` and `StreamIsSeen`, for every limit.
* `pty`: no bound on the child. The shell may ignore SIGHUP and SIGTERM, exit with a code of
  its own at any time, or fail with 127 before it runs; a codes' set with 1 and 2 in it makes
  a signal's number distinguishable from a status. Three files hold a valid and an invalid
  line of every key in both orders and values one past each limit; three values of
  `$SHELL`, three sets of what is installed (nothing, two shells, two shells and a directory) and one
  directory that can be entered make every branch of `resolve_shell` and both ends of the
  child's way come up. The installation may change at any time. The user may save each of the
  three files at any time before the load, in place or not; of a text that is written over one
  line at most is left (`TailBound`) behind a fragment that is malformed or sets the shell.
* `session`: two activations, three bytes of output, reads that take two at most, a terminal
  that queues one, two presses of a key that sends two bytes, two sizes. So a read can fill
  its buffer with more to come, an output can arrive between two reads, a key never fits at
  once, and a second window finds every state of the first, with or without a shell of its own.
  `output_lost_at_exit` needs one
  activation of a shell that is gone (`HungUp`).

`CHECK_DEADLOCK FALSE` is said for the runs of `LinuxPty`, `Startup` and `Session` only: a
session that is over has no steps.

### Fairness

`LinuxPty` and `Session` have liveness to check. `Fairness` of `LinuxPty`, which
`ActivateFairness` repeats for the same steps in `Startup`, says that the thread goes on (it is
never suspended for good), that a deadline passes (the clock is `steady_clock`), that
a waiting `waitpid` returns when the child is dead, and that the kernel runs the child
far enough to call `setsid()` and take a SIGKILL. It says nothing about the shell: it
need not exit, nor take any other signal. `ShutdownCompletes` is stated for a child that
has its process group by then; without that condition it is false, since a SIGKILL sent
to a group that does not exist yet is lost and the blocking `waitpid` after it waits for
the shell's own exit.

`Fairness` of `Session` says that a handler that runs goes on to its end (weak fairness of
`ReadPty` and `WriteToPty`: each waits for nothing but the kernel's answer), that GLib calls
the callback of each source that is ready again and again (strong fairness of each
`Dispatch`: sources of one priority are dispatched in turns within one iteration of the main
loop), and that a frame that was asked for is drawn if no source keeps the loop busy (strong
fairness of `Draw`, which the code's sources outrank). Nothing is assumed of the shell, its
jobs or the user. `OutputPainted` makes three exceptions, each of which the code does not
survive: the session ends, a read fails, or a source spins (`Spinning`).

## 4. What is proved

Eight modules, 9060 obligations, every one checked. The assumptions are those on the
constants, named in the module that declares them, and TLC evaluates each in a run. The
list of results is `theorems` in `PROJECT.json`.

**`StartupProofs`** (1273) begins with `LinuxPty`: `TypeCorrect`, `NeverStray`, `NothingLeft`,
`StatusFaithful` and `OneOwner`, for every set of signals the shell survives and every set of
exit codes (assumption `PtyAssumption`). None is inductive by itself. Whether a signal is stray
depends on whether the child was reaped, which depends on which object reaped it and where the
thread is. The invariant `IInv` adds three things: where the thread is tells what has become of
the child (`PhaseFollowsPc`); what each object knows of the child, in particular that the object
being terminated still has its pid and no status (`ObjectsKnow`); and who has the descriptor
(`DescriptorFollowsPc`). `StatusKnown` is the inductive form of the status property, which speaks of
both objects, since either may be the one that reaps the child. The
lemma `Reaping` describes `waitpid(WNOHANG)` once, for the four actions that call it.

Then the start. `StartsAPty` shows that every step of `Startup` is one of `LinuxPty` or leaves
it alone, so that the theorems above hold of a start from any configuration
(`StartLeavesNothing`, `StartNeverStray`). `LastLineWins` follows `load` line by line, for every
file: the invariant of the loop says of the first n lines what `LastValidLineWins` says of all
of them, and `NextLineLoaded` is the step from n to n + 1, from what one line does to one key
(`KeyKept`) and to the warnings (`WarningsKept`, `WarningAdded`). `RunsTheShell` shows that the
choice of `resolve_shell` is the first that could be executed (`FirstUsable`, `ResolvedIsChosen`) and
that the configuration no longer changes once the shell is resolved. `TextKept` is an action
property; its invariant `ConfigInv` says that the file that is open is empty or was written to
by the user since. That the example written over any text is a text again, which `load` is
then proved of too, is `OverwrittenIsText`.

**`Induction`** (82): what the other modules but `Utf8Proofs` need of numbers. The library's
induction theorems take an operator as a parameter, which the provers cannot instantiate; here
the set of the numbers with a property stands for it, and well-foundedness gives `SetInduction`
and the unfolding of a function that recurs on a smaller argument (`Recursion`).

**`Utf8Proofs`** (405): `TypeCorrect`, `AgreesWithUnicode` and `NothingDropped`, for every set
of bytes, so for every byte stream. The table speaks of ranges of bytes, the code of an
accumulated number and a minimum. What connects them is `Fields`: the fields of an open
sequence are a function of its bytes so far. `Grows` and `Finishes` show that a
continuation byte keeps that function, and `LastOfTwo`, `LastOfThree` and `LastOfFour`
that the comparison at the end of a sequence of each length is its row of the table.

**`ParserProofs`** (1481): `BuffersStayBounded`, `BuffersHoldOneSequence`, `DecoderIdle`,
`StringsSilent`, `TitlesAreWhole`, `ArgumentsRanged` and `ParserTyped`, for every byte stream,
every limit of the buffers and every largest integer.
`ControlInv` ties the histories a reader of the bytes keeps (which sequence is open, what its
last byte was) to the parser's seven states; `BufferInv` says what each buffer holds in each
of them, given that. There is one lemma for each handler. `ArgumentsRanged` follows the digits
of a number and the fields of a sequence of any length: `DigitsInRange` and `FieldsAreFields`
give the two recursive functions their values by `Recursion`, `RangedCsi` goes through the
final bytes. `TypeInv` adds to `BufferInv` what is collected and what the decoder holds; it is
also the parser's part of the invariant of `TerminalProofs`.

**`RenditionProofs`** (1464): `StylesTyped` and `SequencesAreTheirCommands`, for parameters of any
value and sequences of any length. The source walks over the parameters with an index that a
colour moves on; `LoopUnfolds` gives the recursive function that stands for it its values by
`Recursion`. The history `commands` cuts the same parameters into commands, and `Splits` says
that its parts, one after another, are the parameters. The argument goes from one command to
all of them: the loop does not look ahead of the command it is in (`CommandBegins`, `CommandRuns`),
so a command in the middle of a sequence does what it does alone (`CommandAlone`), and
`SplitRuns` is an induction on the number of complete commands. A colour cut short is the last;
`CutRuns` follows the loop through it, from the introducer that is given up with its mode
(`IntroducerGivenUp`) to the operands, each of which stands alone (`ParameterAlone`) or is given up
in its turn. `SplitMeaning` joins the two. `CommandInv` keeps the cutting:
every command but the last is complete (`Complete`), the last may be a colour cut short
(`Partial`). The proof showed a fault in the model: two arms of a CASE could be chosen for a
colour cut short, and a CASE does not promise the first one. They exclude one another now.

**`ScreenProofs`** (1851): `GridHolds`, `WrapsAtMargin`, `ScrollbackWithinLimit`,
`ScrollbackIsLog`, `ChangesAreSeen`, `SecondHalvesEmpty` and `PrintsLocally`, for every size,
limit, argument and set of code points. The screen is one record and an operation an operator on
it, so the proof is one lemma per operator: it keeps the record sound (`Sound`), it changes the scrollback
by what `LineHistory` allows or not at all (`Logged`, `Kept`), it sets the damage flag if it
changes something (`Marked`), it leaves second halves of wide characters empty and behind a
first one (`IsFilled`, `BaseHasText`). The theorems combine them call by call.
`PrintsLocally` follows a character through `print()`: `DocumentRows` says where the rows of
the scrollback and the screen are in the whole text; a wrapped line moves all of them by at
most one (`Shifted`), what is printed then is in one row, at two neighbouring cells at most
(`Edited`), and two cells are two changes however many rows are compared (`TwoAtMost`).

**`TerminalProofs`** (788) begins with the viewport over any screen: `ViewIsPaged` and
`ViewStrandedByErasing`, for every size of window, wheel and page. `DocumentParts` gives the text
the window pages through its rows, from `DocumentRows`; the rest is arithmetic on lengths, which
is where the code subtracts unsigned numbers.

Then the screen behind the parser: `StreamKeepsGrid`, `StreamWrapsAtMargin`,
`StreamBoundsScrollback`, `StreamLosesNoMark`, `StreamIsSeen`, `StreamIsPaged` and
`StringsReachTitle`, for every byte stream, limit, `INT_MAX` and size of window. The theorems of
`ScreenProofs` are about any calls, one at a time; here the calls are those the parser makes,
two of them for some bytes. `Legal` is what the screen must be able to rely on in a call (a distance
that is a natural number, a position that is not negative), and `HearLegal` shows, handler by
handler, that the parser makes no other, from `FieldsAreFields` and `ParameterInRange` of
`ParserProofs`. `CallPasses` shows that a legal call keeps the screen sound and whole and
marks what it changes (`Passes`), whatever the constants of `TerminalState` for its arguments are;
`DispatchUnfolds` and `DispatchPasses` carry that over the calls of a byte. The invariant
`TerminalInv` joins the parser's, the window's and the screen's. `StringsReachTitle` needs `ControlInv`
of `ParserProofs`: a string that a reader of ECMA-48 takes for open is one the parser is in, so the
calls of its bytes are titles (`TitleOnly`, `SilentDispatch`). Its property,
`StringsOnlyTitle`, is in no run: it is what `StringsAreSilent`, which is in one, comes to on the screen.

**`SessionProofs`** (1716): `Watched`, `IdsLive`, `NoSourceLeft`, `SizesKept`,
`OutputIsRelayed`, `KeysRelayed` and `SessionTyped`, for every number of windows, set of keys,
size of the reads and of the terminal's queue.
`SourceInv` says what is live and what is remembered of it, handler by handler.
`OutputIsRelayed` is the refinement of `ByteRelay`; its invariant `RelayInv` is that what the
session's parsers were fed one after the other (`Relayed`), what the current read has collected
and what the kernel still holds are
together, in this order, what the shell has written. `KeysRelayed` speaks of what
`FlattenSeq` makes of the keys written so far. `FlattenUnfolds` shows that it is a
concatenation step by step, which `Recursion` makes a function with known values; so a
write, which lengthens the last part, lengthens the whole at its end (`FlattenLonger`), and a
new key adds nothing yet (`FlattenAppend`). `TypeInv` joins these invariants and adds that
neither a read nor a write takes more than there is room for.

## 5. What is only model-checked

Liveness: `ShutdownCompletes`, `OutputPainted` and `ExitNoticed`. Fairness and ENABLED are
beyond TLAPS. Every invariant and action property of a passing run, and both refinements, are
theorems.

`PrintIsLocal` and `ScrollbackIsHistory` are proved of the screen and do not carry over to
`Terminal`: they speak of one call, and a byte that breaks off a character prints U+FFFD and
itself in one step. They hold of each of the two calls.

## 6. What is not modelled

Drawing, fonts, the colour tables, the title bar, the dialogs and the phase of the blinking
cursor (output only; which rows are drawn, and when, is in `Window` and `Session`). GTK's
internals and the reuse of a descriptor's number after a second activation. The Flatpak
launch of the child and the name it gives as `argv[0]`; the environment variables that lead
to the file, the theme, which no line sets, and the display of warnings; an `ioctl` that fails
while drawing, which the program does not survive. Tests, packaging and CI.
`clamp_count` and `sequence_bytes_` have no reader in the code.

## 7. Plan

1. In `TerminalProofs`: the style behind the parser (every colour a byte stream leaves is one the
   screen knows), from `ParameterSeq` and `RenditionStyled`.
2. A property of the order of a control and of the U+FFFD of the character it interrupts, which
   no property covers yet.
3. `Session` over `Terminal`: the bytes that `ByteRelay` hands over are those `Feed` reads.

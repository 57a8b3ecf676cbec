---------------------------- MODULE Configuration ----------------------------
(***************************************************************************)
(* spencer::config: the file with its example, and load().  A line is what *)
(* trim() and find('=') make of it: blank or a comment, malformed (no =,   *)
(* or nothing on one side of it), or a key and a value.  Of a value only   *)
(* what load() looks at is kept: its length, whether it begins with a      *)
(* slash, and <<n>> if parse_int() reads it as the integer n, else <<>>.   *)
(***************************************************************************)
EXTENDS Integers, Sequences

CONSTANTS
  Texts,       \* what a user may save as the file: sequences of lines
  Fragments,   \* lines that may be left when the front of a line is overwritten
  TailBound    \* bound: how many lines may be left behind such a line

\* A text is a sequence of blank, malformed and assignment lines.
IsLine(line) == line.shape \in {"blank", "malformed", "assignment"}
IsText(lines) ==
  lines \in Seq({lines[i] : i \in DOMAIN lines}) /\ \A i \in DOMAIN lines : IsLine(lines[i])

ASSUME TextsAssumption ==
  /\ \A lines \in Texts : IsText(lines)
  /\ \A line \in Fragments : IsLine(line)
  /\ TailBound \in Nat

VARIABLES
  stage,      \* how far activate() has come with the configuration
  file,       \* the file's lines, or Absent
  ours,       \* the file is the one write_example_if_missing() has open
  late,       \* history: the file's text was saved after no file was found, or
              \* into the file that is open
  config_     \* what load() returned

cvars == <<stage, file, ours, late, config_>>

Absent == <<[shape |-> "absent"]>>
Unset == [text |-> "", length |-> 0, absolute |-> FALSE, integer |-> <<>>]
Integer(n) == [text |-> "number", length |-> 1, absolute |-> FALSE, integer |-> <<n>>]
Word(text, length) == [text |-> text, length |-> length, absolute |-> FALSE, integer |-> <<>>]
Path(text, length) == [text |-> text, length |-> length, absolute |-> TRUE, integer |-> <<>>]
Assign(key, value) == [shape |-> "assignment", key |-> key, value |-> value]
Comment == [shape |-> "blank"]
Malformed == [shape |-> "malformed"]

AppConfig ==
  [font_family |-> Word("Monospace", 9), font_size |-> Integer(14),
   scrollback_lines |-> Integer(10000), shell |-> Unset, working_directory |-> Unset,
   padding |-> Integer(8)]

Example ==
  <<Comment, Comment, Assign("font_family", Word("Monospace", 9)),
    Assign("font_size", Integer(14)), Assign("scrollback_lines", Integer(10000)),
    Comment, Comment, Assign("padding", Integer(8))>>

MaximumScrollbackLines == 1000000

IsIn(value, range) == value.integer # <<>> /\ value.integer[1] \in range
IsPath(value) == value.absolute /\ value.length <= 4096

Accepts(key, value) ==
  \/ key = "font_family" /\ value.length <= 128
  \/ key = "font_size" /\ IsIn(value, 6..72)
  \/ key = "scrollback_lines" /\ IsIn(value, 0..MaximumScrollbackLines)
  \/ key = "padding" /\ IsIn(value, 0..100)
  \/ key \in {"shell", "working_directory"} /\ IsPath(value)

\* Faulty variant of LoadLine: the first line for a key counts.
LoadLineOnce(result, number, line) ==
  CASE line.shape = "blank" -> result
    [] line.shape = "assignment" /\ Accepts(line.key, line.value) ->
         IF result.config[line.key] = AppConfig[line.key]
         THEN [result EXCEPT !.config[line.key] = line.value] ELSE result
    [] OTHER -> [result EXCEPT !.warnings = Append(@, number)]

LoadLine(result, number, line) ==
  CASE line.shape = "blank" -> result
    [] line.shape = "assignment" /\ Accepts(line.key, line.value) ->
         [result EXCEPT !.config[line.key] = line.value]
    [] OTHER -> [result EXCEPT !.warnings = Append(@, number)]

LoadResult == [config |-> AppConfig, warnings |-> <<>>]

Load(lines) ==
  LET result[i \in 0..Len(lines)] ==
        IF i = 0 THEN LoadResult ELSE LoadLine(result[i - 1], i, lines[i])
  IN result[Len(lines)]

-----------------------------------------------------------------------------
\* write_example_if_missing(), against a user who saves the file.

\* Faulty variant of Check: the example is written each time.
CheckNot == stage = "check" /\ stage' = "create" /\ UNCHANGED <<file, ours, late, config_>>

Check ==
  /\ stage = "check" /\ stage' = IF file = Absent THEN "create" ELSE "load"
  /\ UNCHANGED <<file, ours, late, config_>>

CreateDirectories ==
  /\ stage = "create" /\ stage' \in {"open", "load"}
  /\ UNCHANGED <<file, ours, late, config_>>

\* An ofstream truncates what it opens.
OpenExample ==
  /\ stage = "open"
  /\ \/ stage' = "write" /\ file' = <<>> /\ ours' = TRUE /\ late' = FALSE
     \/ stage' = "load" /\ UNCHANGED <<file, ours, late>>
  /\ UNCHANGED config_

\* The example written over a text from the beginning: of a longer text the
\* last lines are left, and perhaps the rest of the line before them.
Tails(lines) ==
  {SubSeq(lines, i + 1, Len(lines)) : i \in {i \in DOMAIN lines : Len(lines) - i <= TailBound}}
Overwritten(lines) ==
  {Example} \cup {Example \o tail : tail \in Tails(lines)}
    \cup {Example \o <<left[1]>> \o left[2] : left \in Fragments \X Tails(lines)}

\* The buffer reaches the file that was opened, which a user may have replaced
\* or written to, when the stream is closed.
WriteExample ==
  /\ stage = "write" /\ stage' = "load"
  /\ IF ours THEN file' \in Overwritten(file) ELSE UNCHANGED file
  /\ ours' = FALSE /\ UNCHANGED <<late, config_>>

LoadFile ==
  /\ stage = "load" /\ stage' = "loaded"
  /\ \/ file # Absent /\ config_' = Load(file)
     \/ config_' = [LoadResult EXCEPT !.warnings = IF file = Absent THEN <<>> ELSE <<0>>]
  /\ UNCHANGED <<file, ours, late>>

\* An editor puts another file in its place, or writes to the file that is
\* there.  What it does after load() does not matter here.
UserSaves(text) ==
  /\ stage \notin {"loaded", "spawning"} /\ file' = text
  /\ ours' \in {FALSE, ours}
  /\ late' = (stage \in {"create", "open"} \/ ours')
  /\ UNCHANGED <<stage, config_>>

ConfigInit ==
  /\ stage = "check" /\ file \in Texts \cup {Absent} /\ ours = FALSE /\ late = FALSE
  /\ config_ = LoadResult

ConfigNext ==
  \/ Check \/ CreateDirectories \/ OpenExample \/ WriteExample \/ LoadFile
  \/ \E text \in Texts : UserSaves(text)

-----------------------------------------------------------------------------
\* The lines that set a key to something its range allows.
Setting(lines, key) ==
  {i \in DOMAIN lines : /\ lines[i].shape = "assignment" /\ lines[i].key = key
                        /\ Accepts(key, lines[i].value)}
Latest(indices) == CHOOSE i \in indices : \A j \in indices : j <= i

(* "Invalid or unknown lines generate an in-memory warning and leave the   *)
(* prior safe value unchanged" (docs/configuration.md:5): each key has the *)
(* value of its last valid line, or its default, the values keep within    *)
(* their ranges, and the warnings are for the other lines, in order; a     *)
(* file that cannot be opened and the example give the defaults            *)
(* (config.cpp:56-130).                                                    *)
LastValidLineWins ==
  stage \in {"loaded", "spawning"} =>
    LET config == config_.config
        warnings == config_.warnings
        IsOf(lines) ==
          /\ \A key \in DOMAIN config :
               config[key] = IF Setting(lines, key) = {} THEN AppConfig[key]
                             ELSE lines[Latest(Setting(lines, key))].value
          /\ {warnings[i] : i \in DOMAIN warnings} =
               {i \in DOMAIN lines : lines[i].shape # "blank" /\
                  \A key \in DOMAIN config : i \notin Setting(lines, key)}
          /\ \A i, j \in DOMAIN warnings : i < j => warnings[i] < warnings[j]
    IN /\ \/ file # Absent /\ IsOf(file)
          \/ config = AppConfig /\ warnings = IF file = Absent THEN <<>> ELSE <<0>>
       /\ file = Example => config = AppConfig
       /\ config.font_size.integer[1] \in 6..72 /\ config.padding.integer[1] \in 0..100
       /\ config.scrollback_lines.integer[1] \in 0..MaximumScrollbackLines

(* "SPENCER writes an editable example only if no file is present"         *)
(* (docs/configuration.md:3): a text the user saved is lost in two windows *)
(* only, which the code leaves: if it was saved between the look for a     *)
(* file and the truncating open (config.cpp:133-141), or written to the    *)
(* file between that open and the flush when the stream is closed          *)
(* (config.cpp:141-153).  A file that replaced the open one is safe.       *)
UserTextKept ==
  [][file' # file /\ file \in Texts \ {<<>>} =>
       late \/ \E text \in Texts : UserSaves(text)]_file
=============================================================================

-------------------------- MODULE RenditionStream ---------------------------
(***************************************************************************)
(* The active style under a stream of "CSI ... m" sequences: a sequence is *)
(* received parameter by parameter and then takes effect as a whole, as    *)
(* the parser hands it over.  The reference reads the same parameters as a *)
(* list of commands, each complete by itself.                              *)
(***************************************************************************)
EXTENDS GraphicRendition

CONSTANTS
  Parameters,      \* the values a parameter may take, -1 for an empty one
  LengthBound,     \* bound: how many parameters one sequence may have
  StartBound       \* bound: the styles in which another sequence is received

ASSUME RenditionAssumption ==
  Parameters \subseteq Int /\ LengthBound \in Nat \ {0}

VARIABLES
  style,           \* active_style_
  received,        \* parameters of the sequence being received
  commands         \* history: the same parameters, split into commands

rvars == <<style, received, commands>>

\* A command still waiting for the rest of its colour.
Open(command) ==
  /\ command[1] \in {38, 48}
  /\ \/ Len(command) = 1
     \/ command[2] = 5 /\ Len(command) < 3
     \/ command[2] = 2 /\ Len(command) < 5

Latest == commands[Len(commands)]

Receive(p) ==
  /\ Len(received) < LengthBound
  /\ received = <<>> => style \in StartBound
  /\ received' = Append(received, p)
  /\ commands' = IF commands # <<>> /\ Open(Latest)
                 THEN [commands EXCEPT ![Len(commands)] = Append(@, p)]
                 ELSE Append(commands, <<p>>)
  /\ UNCHANGED style

Execute ==
  /\ style' = Rendition(style, received)
  /\ received' = <<>> /\ commands' = <<>>

RInit == style = DefaultStyle /\ received = <<>> /\ commands = <<>>
RNext == (\E p \in Parameters : Receive(p)) \/ Execute
RSpec == RInit /\ [][RNext]_rvars

-----------------------------------------------------------------------------

IsColor(c) ==
  \/ c = DefaultColor
  \/ c[1] = "indexed" /\ Len(c) = 2 /\ c[2] \in 0..255
  \/ c[1] = "rgb" /\ Len(c) = 4 /\ \A i \in 2..4 : c[i] \in 0..255

(* Every colour a sequence leaves behind is a default, an index of the     *)
(* 256-colour table or three bytes, whatever numbers were sent             *)
(* (bounded_color_component(), terminal_state.cpp:13-15,408-415).          *)
TypeOK ==
  /\ IsColor(style.foreground) /\ IsColor(style.background)
  /\ style.attributes \subseteq Attributes

\* What commands mean one after another, each as a sequence of its own.
Meaning(initial, list) ==
  LET upTo[n \in 0..Len(list)] ==
        IF n = 0 THEN initial ELSE Rendition(upTo[n - 1], list[n])
  IN upTo[Len(list)]

\* What is left of a colour cut short by the end of its sequence: introducer and
\* mode are given up, and the operands are parameters again, each by itself,
\* up to one that introduces a colour, which has no room for one either.
GivenUp(command) ==
  IF Len(command) < 3 \/ command[3] \in {38, 48} THEN <<>>
  ELSE IF Len(command) = 3 \/ command[4] \in {38, 48} THEN <<<<command[3]>>>>
  ELSE <<<<command[3]>>, <<command[4]>>>>

Resolved(list) ==
  IF Open(list[Len(list)])
  THEN SubSeq(list, 1, Len(list) - 1) \o GivenUp(list[Len(list)])
  ELSE list

(* A sequence of any parameters means what its commands mean one after     *)
(* another, and the default style if it has none: the operands of a        *)
(* complete colour are never taken for attributes, nothing after it is     *)
(* swallowed, and a colour cut short loses its introducer and its mode and *)
(* nothing more, so that its operands are read as attributes (CSI 38;2;1 m *)
(* switches bold on, terminal_state.cpp:157-201,400-426).                  *)
SequenceIsItsCommands ==
  [][Execute => style' = IF commands = <<>> THEN DefaultStyle
                         ELSE Meaning(style, Resolved(commands))]_rvars
=============================================================================

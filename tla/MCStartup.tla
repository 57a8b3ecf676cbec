------------------------------ MODULE MCStartup ------------------------------
(* One shell that may ignore SIGHUP and SIGTERM, exit by itself at any     *)
(* time, or fail before it runs, started from files whose lines override   *)
(* each other, are out of range by one, or name what cannot be executed or *)
(* entered.                                                                *)
EXTENDS Startup

Stubborn == {"HUP", "TERM"}
Codes == {0, 1, 2, 42, 126, 127}

Zsh == Path("/bin/zsh", 8)
Relative == Word("zsh", 3)

Ranges ==
  <<Assign("font_size", Integer(6)), Assign("font_size", Integer(73)),
    Assign("padding", Integer(100)), Assign("padding", Integer(-1)), Malformed,
    Assign("scrollback_lines", Integer(0)), Assign("scrollback_lines", Integer(1000001)),
    Assign("font_family", Word("long", 129)), Assign("colour", Word("red", 3))>>
Shells ==
  <<Assign("shell", Zsh), Comment, Assign("shell", Relative),
    Assign("font_size", Integer(72)), Assign("font_size", Word("big", 3)),
    Assign("font_size", Integer(20)), Assign("working_directory", Path("/home", 5))>>
Directories ==
  <<Assign("shell", Path(Directory, 4)), Assign("working_directory", Path("/gone", 5)),
    Assign("working_directory", Path("long", 4097))>>
Files == {Ranges, Shells, Directories}
Rests == {Malformed, Assign("shell", Zsh)}

Environments == {Unset, Relative, Zsh}
Installed ==
  {{}, {"/bin/zsh", "/bin/bash"}, {"/usr/bin/sh", "/bin/bash", Directory}}
Homes == {"/home"}
=============================================================================

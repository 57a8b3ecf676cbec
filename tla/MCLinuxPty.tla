----------------------------- MODULE MCLinuxPty -----------------------------
(* One shell that may ignore SIGHUP and SIGTERM, exit by itself at any     *)
(* time, or fail before it runs.                                           *)
EXTENDS LinuxPty

Stubborn == {"HUP", "TERM"}
Codes == {0, 1, 2, 42, 126, 127}
=============================================================================

------------------------------- MODULE Startup -------------------------------
(***************************************************************************)
(* From activate() to a running shell: the configuration is loaded, a      *)
(* shell is resolved from it, and spawn() starts it on a terminal.  The    *)
(* rest of the session's life is LinuxPty's, unchanged.                    *)
(***************************************************************************)
EXTENDS LinuxPty, Configuration

CONSTANTS
  EnvironmentShells,   \* values of $SHELL, Unset if there is none
  Executables,         \* sets of names that pass access(X_OK)
  Enterable            \* directories chdir() can enter

VARIABLES
  shell,         \* the shell resolve_shell() chose, or Unset
  executable,    \* the names that pass access(X_OK) now
  seen,          \* history: those that did when the shell was resolved
  environment,   \* $SHELL
  running        \* the child has become the shell

svars == <<shell, executable, seen, environment, running>>
all == <<vars, cvars, svars>>

\* Names that pass access(X_OK) and execl() cannot execute.
Directory == "/usr"

Fallbacks ==
  <<Path("/bin/sh", 7), Path("/usr/bin/sh", 11), Path("/bin/bash", 9),
    Path("/usr/bin/bash", 13)>>

ExecutableAbsolutePath(path) == path.absolute /\ path.text \in executable

\* Faulty variant of Resolved: $SHELL comes before the configuration.
ResolvedFromEnvironment(requested) ==
  LET wanted == IF environment = Unset THEN requested ELSE environment
      usable == {i \in DOMAIN Fallbacks : ExecutableAbsolutePath(Fallbacks[i])}
  IN IF ExecutableAbsolutePath(wanted) THEN wanted
     ELSE IF usable = {} THEN Unset ELSE Fallbacks[CHOOSE i \in usable : \A j \in usable : i <= j]

\* resolve_shell(): Unset where it throws.
Resolved(requested) ==
  LET wanted == IF requested = Unset THEN environment ELSE requested
      usable == {i \in DOMAIN Fallbacks : ExecutableAbsolutePath(Fallbacks[i])}
  IN IF ExecutableAbsolutePath(wanted) THEN wanted
     ELSE IF usable = {} THEN Unset ELSE Fallbacks[CHOOSE i \in usable : \A j \in usable : i <= j]

ResolveShell ==
  /\ stage = "loaded" /\ stage' = "spawning"
  /\ shell' = Resolved(config_.config.shell) /\ seen' = executable
  /\ UNCHANGED <<vars, file, ours, late, config_, executable, environment, running>>

\* Something is installed, or no longer there when execl() looks for it.
Installation ==
  /\ executable' \in Executables \ {executable}
  /\ UNCHANGED <<vars, cvars, shell, seen, environment, running>>

\* The last lines of the child: chdir(), and an execl() that returns if the
\* shell is gone by now or is a directory.
Execute ==
  /\ stage = "spawning" /\ child.phase = "shell" /\ ~running
  /\ LET directory == config_.config.working_directory
     IN directory = Unset \/ directory.text \in Enterable
  /\ shell.text \in executable /\ shell.text # Directory
  /\ running' = TRUE
  /\ UNCHANGED <<vars, cvars, shell, executable, seen, environment>>

Signalled == {128 + Number[signal] : signal \in DOMAIN Number}

\* A step of LinuxPty.  spawn() fails where resolve_shell() throws, and a
\* child that is no shell yet leaves by itself with _exit(127) only.
During(step) ==
  /\ stage = "spawning" /\ step
  /\ pc = "start" /\ shell = Unset => pc' = "failed"
  /\ child'.phase = "dead" /\ child.phase # "dead" /\ ~running =>
       child'.status \in {127} \cup Signalled
  /\ UNCHANGED <<cvars, svars>>

ActivateInit ==
  /\ Init /\ ConfigInit /\ shell = Unset /\ running = FALSE
  /\ executable \in Executables /\ seen = {} /\ environment \in EnvironmentShells

ActivateNext ==
  \/ ConfigNext /\ UNCHANGED <<vars, svars>>
  \/ ResolveShell \/ Installation \/ Execute
  \/ During(Next)

\* As in LinuxPty.  The configuration and the child's way to the shell need
\* no fairness: nothing waits for them but the start itself.
ActivateFairness ==
  /\ WF_all(During(PollInGrace)) /\ WF_all(During(GraceEnds))
  /\ WF_all(During(TerminateEnds)) /\ WF_all(During(WaitKilled))
  /\ WF_all(During(Destroy)) /\ WF_all(During(Setsid))
  /\ WF_all(During(TakeSignal("KILL")))

ActivateSpec == ActivateInit /\ [][ActivateNext]_all /\ ActivateFairness

-----------------------------------------------------------------------------
(* The shell is the one that was asked for, which is the configured one,   *)
(* and $SHELL only if none is configured, if its path is absolute and it   *)
(* could be executed when it was resolved.  If not it is the first of the  *)
(* fallbacks that could, whatever $SHELL says, and there is none only if   *)
(* none of them could.  "The parent only starts an executable shell from a *)
(* validated path" (docs/architecture/technical-specification.md:127;      *)
(* linux_pty.cpp:32-34,253-274).                                           *)
RunsConfiguredShell ==
  stage = "spawning" =>
    LET Was(path) == path.absolute /\ path.text \in seen
        configured == config_.config.shell
        wanted == IF configured = Unset THEN environment ELSE configured
    IN \/ Was(wanted) /\ shell = wanted
       \/ /\ ~Was(wanted)
          /\ \E i \in DOMAIN Fallbacks :
               /\ Was(Fallbacks[i]) /\ shell = Fallbacks[i]
               /\ \A j \in 1..i - 1 : ~Was(Fallbacks[j])
       \/ ~Was(wanted) /\ shell = Unset /\ \A i \in DOMAIN Fallbacks : ~Was(Fallbacks[i])
=============================================================================

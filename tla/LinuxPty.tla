------------------------------ MODULE LinuxPty ------------------------------
(***************************************************************************)
(* spencer::pty::LinuxPty: one shell on one pseudo-terminal, from spawn()  *)
(* to the destructor, between the main thread and the child it forked.     *)
(*                                                                         *)
(* terminate() is not one step: the thread sleeps and polls while the      *)
(* child runs.  Its deadlines are choices of the model, as is how the      *)
(* child takes a signal.  The kernel is external: a process group exists   *)
(* once the child has called setsid(), a signal is pending until the child *)
(* takes it, an exited child is dead until waitpid() reaps it, and closing *)
(* the master hangs up on the session.                                     *)
(***************************************************************************)
EXTENDS Integers

CONSTANTS
  Survivable,     \* signals the shell may ignore
  ExitCodes       \* codes it may exit with by itself

ASSUME PtyAssumption ==
  /\ Survivable \subseteq {"HUP", "TERM"}
  /\ ExitCodes \subseteq 0..255

VARIABLES
  pc,        \* where the main thread is
  actor,     \* the object whose terminate() runs, or "nobody"
  objects,   \* the LinuxPty objects: descriptor, pid and exit status
  child,     \* the child process: phase and status
  pending,   \* signals the child has not taken yet
  master,    \* "open" or "closed", the kernel's side of the descriptor
  asked,     \* history: shutdown() was called
  stray,     \* history: a signal went to a pid that was no longer ours
  killed     \* history: SIGKILL was resorted to

vars == <<pc, actor, objects, child, pending, master, asked, stray, killed>>

Temporary == "temporary"
Owned == "owned"
Objects == {Temporary, Owned}
NoStatus == -2         \* exit_status_ holds no value
Lost == -1             \* the status when waitpid() finds no such child
Number == [HUP |-> 1, TERM |-> 15, KILL |-> 9]

Default == [fd |-> FALSE, pid |-> FALSE, exit_status |-> NoStatus]

-----------------------------------------------------------------------------
\* The child, in any order with the thread's steps.

Setsid ==
  /\ child.phase = "forked"
  /\ child' = [child EXCEPT !.phase = "shell"]
  /\ UNCHANGED <<pc, actor, objects, pending, master, asked, stray, killed>>

\* _exit(127) on the way to the shell, or the shell's own exit.
Exit ==
  /\ child.phase \in {"forked", "shell"}
  /\ \E code \in IF child.phase = "forked" THEN {127} ELSE ExitCodes :
       child' = [phase |-> "dead", status |-> code]
  /\ pending' = {}
  /\ UNCHANGED <<pc, actor, objects, master, asked, stray, killed>>

TakeSignal(signal) ==
  /\ child.phase = "shell" /\ signal \in pending
  /\ \/ child' = [phase |-> "dead", status |-> 128 + Number[signal]] /\ pending' = {}
     \/ signal \in Survivable /\ pending' = pending \ {signal} /\ UNCHANGED child
  /\ UNCHANGED <<pc, actor, objects, master, asked, stray, killed>>

-----------------------------------------------------------------------------
\* kill(-child_pid_, signal): the group a negative pid names exists once the
\* child has called setsid(), and a signal to an exited child does nothing.
Kill(signal) ==
  /\ pending' = IF child.phase = "shell" THEN pending \cup {signal} ELSE pending
  /\ stray' = (stray \/ child.phase = "reaped")
  /\ killed' = (killed \/ signal = "KILL")

\* Faulty variant of ReapNonBlocking: a signal's number is the status.
ReapRawSignal(o) ==
  IF ~objects[o].pid \/ objects[o].exit_status # NoStatus
  THEN UNCHANGED <<objects, child>>
  ELSE \/ /\ child.phase = "dead"
          /\ objects' = [objects EXCEPT
                           ![o].pid = FALSE,
                           ![o].exit_status = IF child.status > 128 THEN child.status - 128
                                              ELSE child.status]
          /\ child' = [child EXCEPT !.phase = "reaped"]
       \/ /\ child.phase = "reaped"
          /\ objects' = [objects EXCEPT ![o].pid = FALSE, ![o].exit_status = Lost]
          /\ UNCHANGED child
       \/ child.phase \in {"forked", "shell"} /\ UNCHANGED <<objects, child>>

\* reap_non_blocking() of object o: waitpid(WNOHANG) if it still has a pid.
ReapNonBlocking(o) ==
  IF ~objects[o].pid \/ objects[o].exit_status # NoStatus
  THEN UNCHANGED <<objects, child>>
  ELSE \/ /\ child.phase = "dead"
          /\ objects' = [objects EXCEPT ![o].pid = FALSE,
                                        ![o].exit_status = child.status]
          /\ child' = [child EXCEPT !.phase = "reaped"]
       \/ /\ child.phase = "reaped"
          /\ objects' = [objects EXCEPT ![o].pid = FALSE, ![o].exit_status = Lost]
          /\ UNCHANGED child
       \/ child.phase \in {"forked", "shell"} /\ UNCHANGED <<objects, child>>

\* After terminate(): the temporary is gone and the session runs, or the
\* owner's terminate() has returned.
Returned == IF actor = Temporary THEN "running" ELSE "stopped"
Return == pc' = Returned /\ actor' = "nobody"

\* Faulty variant of BeginTerminate: no early return for a reaped child.
BeginTerminateAnyway(o) ==
  /\ ReapNonBlocking(o) /\ Kill("HUP") /\ pc' = "grace" /\ actor' = o

\* The first lines of terminate() on object o.
BeginTerminate(o) ==
  /\ ReapNonBlocking(o)
  /\ IF objects'[o].pid /\ objects'[o].exit_status = NoStatus
     THEN Kill("HUP") /\ pc' = "grace" /\ actor' = o
     ELSE /\ pc' = (IF o = Temporary THEN "running" ELSE "stopped")
          /\ actor' = "nobody" /\ UNCHANGED <<pending, stray, killed>>

-----------------------------------------------------------------------------
\* spawn() up to fork(); a failure before it leaves nothing behind.
Fork ==
  /\ pc = "start"
  /\ child' = [child EXCEPT !.phase = "forked"]
  /\ master' = "open" /\ pc' = "forked"
  /\ UNCHANGED <<actor, objects, pending, asked, stray, killed>>

OpenFails ==
  /\ pc = "start" /\ pc' = "failed"
  /\ UNCHANGED <<actor, objects, child, pending, master, asked, stray, killed>>

\* spawn() returns its object: the caller's own (elided, as in the tests of
\* the pty), or a temporary the caller moves from (as SpencerApplication does).
Constructed(o) ==
  /\ pc = "forked"
  /\ objects' = [objects EXCEPT ![o] =
                   [fd |-> TRUE, pid |-> TRUE, exit_status |-> NoStatus]]
  /\ pc' = IF o = Temporary THEN "adopting" ELSE "running"
  /\ UNCHANGED <<actor, child, pending, master, asked, stray, killed>>

FcntlFails ==
  /\ pc = "forked"
  /\ Kill("HUP") /\ pc' = "abandoning"
  /\ UNCHANGED <<actor, objects, child, master, asked>>

\* waitpid(child, nullptr, 0), then the exception unwinds master_fd.
Abandon ==
  /\ pc = "abandoning" /\ child.phase = "dead"
  /\ child' = [child EXCEPT !.phase = "reaped"]
  /\ master' = "closed" /\ pc' = "failed"
  /\ UNCHANGED <<actor, objects, pending, asked, stray, killed>>

\* Faulty variant of Emptied: the descriptor is copied instead of moved.
EmptiedNot(object) == object

\* The source of the defaulted move: UniqueFd gives its descriptor up, an
\* integer and an optional are copied.
Emptied(object) == [object EXCEPT !.fd = FALSE]

\* make_unique<LinuxPty>(LinuxPty::spawn(options)): the move constructor ...
MoveConstruct ==
  /\ pc = "adopting"
  /\ objects' = [objects EXCEPT ![Owned] = objects[Temporary],
                                ![Temporary] = Emptied(@)]
  /\ pc' = "moved"
  /\ UNCHANGED <<actor, child, pending, master, asked, stray, killed>>

\* ... and the destructor of the temporary, whose UniqueFd has nothing to
\* close.
DestroyTemporary ==
  /\ pc = "moved" /\ BeginTerminate(Temporary) /\ UNCHANGED <<master, asked>>

-----------------------------------------------------------------------------
\* exit_status(), and what read_available() does after it found no more
\* bytes; once the status is known both leave everything as it is.
Poll ==
  /\ pc = "running" /\ ReapNonBlocking(Owned)
  /\ UNCHANGED <<pc, actor, pending, master, asked, stray, killed>>

\* SpencerApplication::shutdown(): terminate() and then the destructor.
Shutdown ==
  /\ pc = "running" /\ BeginTerminate(Owned)
  /\ asked' = TRUE /\ UNCHANGED master

\* A turn of either polling loop.
PollInGrace ==
  /\ pc \in {"grace", "terminate"}
  /\ ReapNonBlocking(actor)
  /\ IF objects'[actor].exit_status # NoStatus THEN Return ELSE UNCHANGED <<pc, actor>>
  /\ UNCHANGED <<pending, master, asked, stray, killed>>

GraceEnds ==
  /\ pc = "grace" /\ Kill("TERM") /\ pc' = "terminate"
  /\ UNCHANGED <<actor, objects, child, master, asked>>

\* Faulty variant of TerminateEnds: the last signal is SIGTERM again.
TerminateEndsGently ==
  /\ pc = "terminate" /\ Kill("TERM") /\ pc' = "kill"
  /\ UNCHANGED <<actor, objects, child, master, asked>>

TerminateEnds ==
  /\ pc = "terminate" /\ Kill("KILL") /\ pc' = "kill"
  /\ UNCHANGED <<actor, objects, child, master, asked>>

\* Faulty variant of WaitKilled: waitpid() is not waited for.
WaitKilledNot ==
  /\ pc = "kill"
  /\ objects' = [objects EXCEPT ![actor].pid = FALSE,
                                ![actor].exit_status = 128 + Number.KILL]
  /\ Return /\ UNCHANGED <<child, pending, master, asked, stray, killed>>

\* The blocking waitpid(), whose status is not looked at.
WaitKilled ==
  /\ pc = "kill" /\ child.phase \in {"dead", "reaped"}
  /\ child' = [child EXCEPT !.phase = "reaped"]
  /\ objects' = [objects EXCEPT ![actor].pid = FALSE,
                                ![actor].exit_status = 128 + Number.KILL]
  /\ Return /\ UNCHANGED <<pending, master, asked, stray, killed>>

\* pty_.reset(): the destructor's terminate() returns at once, and ~UniqueFd
\* closes the master, which hangs up on a session that is still there.
Destroy ==
  /\ pc = "stopped" /\ objects[Owned].exit_status # NoStatus
  /\ objects' = [objects EXCEPT ![Owned].fd = FALSE]
  /\ master' = "closed" /\ pc' = "gone"
  /\ pending' = IF child.phase = "shell" THEN pending \cup {"HUP"} ELSE pending
  /\ UNCHANGED <<actor, child, asked, stray, killed>>

-----------------------------------------------------------------------------
Init ==
  /\ pc = "start" /\ actor = "nobody"
  /\ objects = [o \in Objects |-> Default]
  /\ child = [phase |-> "none", status |-> NoStatus]
  /\ pending = {} /\ master = "closed" /\ asked = FALSE
  /\ stray = FALSE /\ killed = FALSE

Spawn == Fork \/ OpenFails \/ (\E o \in Objects : Constructed(o)) \/ FcntlFails \/ Abandon
Adopt == MoveConstruct \/ DestroyTemporary
Terminate == PollInGrace \/ GraceEnds \/ TerminateEnds \/ WaitKilled
Child == Setsid \/ Exit \/ \E signal \in {"HUP", "TERM", "KILL"} : TakeSignal(signal)

Next == Spawn \/ Adopt \/ Poll \/ Shutdown \/ Terminate \/ Destroy \/ Child

Spec == Init /\ [][Next]_vars

\* The thread is never suspended for good, clocks advance past a deadline,
\* and the kernel runs the child: it reaches setsid() and takes a SIGKILL.
\* Nothing says that a shell exits or that it takes any other signal.
Fairness ==
  /\ WF_vars(Spawn) /\ WF_vars(Adopt) /\ WF_vars(PollInGrace)
  /\ WF_vars(GraceEnds) /\ WF_vars(TerminateEnds) /\ WF_vars(WaitKilled)
  /\ WF_vars(Destroy) /\ WF_vars(Setsid) /\ WF_vars(TakeSignal("KILL"))

FairSpec == Spec /\ Fairness

-----------------------------------------------------------------------------
Statuses == {NoStatus, Lost, 129, 137, 143} \cup ExitCodes \cup {127}
Object == [fd : BOOLEAN, pid : BOOLEAN, exit_status : Statuses]
Process == [phase : {"none", "forked", "shell", "dead", "reaped"}, status : Statuses]

(* Types; a live thread inside terminate() has an object to terminate.     *)
TypeOK ==
  /\ pc \in {"start", "forked", "failed", "abandoning", "adopting", "moved",
             "running", "grace", "terminate", "kill", "stopped", "gone"}
  /\ actor \in {"nobody", Temporary, Owned}
  /\ (actor # "nobody") <=> pc \in {"grace", "terminate", "kill"}
  /\ objects \in [Objects -> Object] /\ child \in Process
  /\ pending \subseteq {"HUP", "TERM", "KILL"}
  /\ master \in {"open", "closed"}
  /\ asked \in BOOLEAN /\ stray \in BOOLEAN /\ killed \in BOOLEAN

(* "reaps the child" and "exit without leaking a child process"            *)
(* (docs/architecture/technical-specification.md:11,75): when terminate()  *)
(* has returned, and after a spawn() that failed, no child is left, alive  *)
(* or dead, whichever of the five ways out of terminate() was taken.       *)
NoChildLeft ==
  pc \in {"failed", "stopped", "gone"} => child.phase \in {"none", "reaped"}

(* No signal is ever sent to a pid the program has already reaped, which   *)
(* by then may belong to somebody else, neither when the object is told to *)
(* terminate twice nor when two objects hold the same pid                  *)
(* (linux_pty.cpp:130,220-251).                                            *)
NoStraySignal == ~stray

\* The object has the status it reaped its child with.
Knows(o) == objects[o].exit_status \notin {NoStatus, Lost}

(* An object has a status only once the child is reaped and the object has *)
(* given the pid up, and the status is the child's own, 128 + SIGKILL if   *)
(* that signal was resorted to, or -1 if another object had reaped the     *)
(* child, and then that one knows it: no way out of terminate() makes a    *)
(* status up, and none is lost by every object                             *)
(* (linux_pty.cpp:220-251,281-300).  The program moves its object out of a *)
(* temporary that keeps the pid (main.cpp:158), so that the temporary may  *)
(* be the one that knows.                                                  *)
StatusIsTheChilds ==
  /\ \A o \in Objects :
       LET status == objects[o].exit_status IN
       status # NoStatus =>
         /\ child.phase = "reaped" /\ ~objects[o].pid
         /\ \/ status = child.status
            \/ status = 137 /\ killed
            \/ status = Lost /\ \E p \in Objects \ {o} : Knows(p)
  /\ child.phase = "reaped" /\ pc # "failed" => \E o \in Objects : Knows(o)

(* At any time one object at most has the descriptor, and it is open when  *)
(* one has it: it is neither closed twice nor used after it was closed     *)
(* (unique_fd.hpp:17-44, linux_pty.hpp:33).                                *)
DescriptorOwnedOnce ==
  /\ ~(objects[Temporary].fd /\ objects[Owned].fd)
  /\ (\E o \in Objects : objects[o].fd) => master = "open"

(* "waits with a bounded timeout" (technical-specification.md:75): once    *)
(* the shutdown was asked for, the object is gone in the end, however the  *)
(* shell takes SIGHUP and SIGTERM, if the child has a group of its own by  *)
(* the time of the last signal.  A SIGKILL sent to a group that does not   *)
(* exist yet is lost, and the blocking waitpid() after it is left to the   *)
(* shell's good will (linux_pty.cpp:226-251).                              *)
ShutdownCompletes ==
  asked /\ pc \in {"grace", "terminate"} /\ child.phase # "forked" ~> pc = "gone"

(* "On application shutdown, the parent sends SIGHUP to the child process  *)
(* group" (technical-specification.md:75), and only then: a session that   *)
(* nobody has shut down gets no signal from the program.  It does get one  *)
(* from the destructor of a temporary, whose pid the defaulted move        *)
(* constructor copied (linux_pty.hpp:33, main.cpp:158).                    *)
SignalsOnlyAtShutdown == pending # {} => asked \/ pc = "abandoning"
=============================================================================

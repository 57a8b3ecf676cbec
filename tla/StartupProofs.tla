---------------------------- MODULE StartupProofs ----------------------------
(***************************************************************************)
(* That a session of LinuxPty leaves no child behind, signals nobody       *)
(* else's process, makes no status up and owns its descriptor once, for    *)
(* every set of signals the shell survives and every set of codes it exits *)
(* with.  None of these is inductive by itself: whether a signal is a      *)
(* stray one depends on who may have reaped the child, which depends on    *)
(* where the thread is and on which object knows the pid.                  *)
(* Then what a started session keeps.  The steps before the fork and       *)
(* around the shell leave the pty alone and the others are steps of        *)
(* LinuxPty, so the same holds of it; load() is followed line by line for  *)
(* every file; and the shell that runs is the one the configuration asks   *)
(* for.                                                                    *)
(***************************************************************************)
EXTENDS Startup, Induction, TLAPS, SequenceTheorems

Unreaped == {"forked", "shell", "dead"}
InTerminate == {"grace", "terminate", "kill"}
Constructing == {"start", "forked", "abandoning", "failed"}

\* Where the thread is tells what has become of the child.
PhaseFollowsPc ==
  /\ pc = "start" => child.phase = "none"
  /\ pc \in {"forked", "abandoning", "adopting", "moved"} \cup InTerminate
       => child.phase \in Unreaped
  /\ pc = "running" => child.phase \in Unreaped \cup {"reaped"}
  /\ pc \in {"stopped", "gone"} => child.phase = "reaped"
  /\ pc = "failed" => child.phase \in {"none", "reaped"}
  /\ child.phase = "dead" => child.status # NoStatus

\* What the objects know of the child.
ObjectsKnow ==
  /\ pc \in Constructing => \A o \in Objects : objects[o] = Default
  /\ pc = "adopting" => objects[Owned] = Default
  /\ pc \in {"adopting", "moved"} =>
       objects[Temporary].pid /\ objects[Temporary].exit_status = NoStatus
  /\ actor # "nobody" =>
       objects[actor].pid /\ objects[actor].exit_status = NoStatus
  /\ \A o \in Objects : objects[o].exit_status # NoStatus =>
       child.phase = "reaped" /\ ~objects[o].pid
  /\ pc \notin Constructing \cup {"adopting"} =>
       (objects[Owned].pid <=> objects[Owned].exit_status = NoStatus)
  /\ pc = "moved" => objects[Owned].exit_status = NoStatus
  /\ pc \in {"stopped", "gone"} => objects[Owned].exit_status # NoStatus

\* What is behind a status: the child's exit, or the signal that was sent.
StatusKnown ==
  /\ StatusIsTheChilds
  /\ pc = "kill" => killed
  /\ child.phase = "dead" => child.status # Lost

DescriptorFollowsPc ==
  /\ objects[Temporary].fd => pc = "adopting"
  /\ objects[Owned].fd => pc \in {"moved", "running", "stopped"} \cup InTerminate
  /\ pc \in {"forked", "abandoning", "adopting", "moved", "running", "stopped"}
              \cup InTerminate => master = "open"

IInv ==
  /\ TypeOK /\ NoStraySignal
  /\ PhaseFollowsPc /\ ObjectsKnow /\ StatusKnown /\ DescriptorFollowsPc

\* What waitpid(WNOHANG) leaves behind, whoever calls it.
Reaped(o) ==
  /\ objects' \in [Objects -> Object] /\ child' \in Process
  /\ \A p \in Objects \ {o} : objects'[p] = objects[p]
  /\ objects'[o].fd = objects[o].fd
  /\ child'.status = child.status
  /\ \/ /\ UNCHANGED <<objects, child>>
        /\ objects[o].pid /\ objects[o].exit_status = NoStatus =>
             child.phase \in {"forked", "shell"}
     \/ /\ objects[o].pid /\ objects[o].exit_status = NoStatus
        /\ child.phase \in {"dead", "reaped"} /\ child'.phase = "reaped"
        /\ ~objects'[o].pid
        /\ objects'[o].exit_status =
             IF child.phase = "dead" THEN child.status ELSE Lost

LEMMA PidForgotten ==
  ASSUME TypeOK, NEW o \in Objects, NEW status \in Statuses
  PROVE  [objects EXCEPT ![o].pid = FALSE, ![o].exit_status = status] \in [Objects -> Object]
<1>1. objects \in [Objects -> Object] /\ objects[o] \in Object
  BY DEF TypeOK
<1>2. [[objects[o] EXCEPT !.pid = FALSE] EXCEPT !.exit_status = status] \in Object
  BY <1>1 DEF Object
<1> QED BY <1>1, <1>2

LEMMA Reaping ==
  ASSUME TypeOK, NEW o \in Objects, ReapNonBlocking(o)
  PROVE  Reaped(o)
<1> USE DEF TypeOK, Objects, Temporary, Owned
<1>1. CASE ~objects[o].pid \/ objects[o].exit_status # NoStatus
  BY <1>1 DEF Reaped, ReapNonBlocking, Object
<1>2. CASE objects[o].pid /\ objects[o].exit_status = NoStatus
  <2>1. CASE child.phase \in {"forked", "shell"}
    BY <1>2, <2>1 DEF Reaped, ReapNonBlocking
  <2>2. CASE child.phase = "dead"
    <3>1. objects' = [objects EXCEPT ![o].pid = FALSE, ![o].exit_status = child.status]
      BY <1>2, <2>2 DEF ReapNonBlocking
    <3>2. child' = [child EXCEPT !.phase = "reaped"]
      BY <1>2, <2>2 DEF ReapNonBlocking
    <3>3. objects' \in [Objects -> Object]
      <4>1. child.status \in Statuses
        BY DEF Process
      <4> QED BY <3>1, <4>1, PidForgotten
    <3>4. child' \in Process
      BY <3>2 DEF Process
    <3> QED BY <1>2, <2>2, <3>1, <3>2, <3>3, <3>4 DEF Reaped, Object, Process
  <2>3. CASE child.phase = "reaped"
    <3>1. objects' = [objects EXCEPT ![o].pid = FALSE, ![o].exit_status = Lost]
      BY <1>2, <2>3 DEF ReapNonBlocking
    <3>2. child' = child
      BY <1>2, <2>3 DEF ReapNonBlocking
    <3>3. Lost \in Statuses
      BY DEF Statuses
    <3>4. objects' \in [Objects -> Object]
      BY <3>1, <3>3, PidForgotten
    <3> QED BY <1>2, <2>3, <3>4, <3>1, <3>2, <3>3 DEF Reaped, Object, Process
  <2> QED BY <1>2, <2>1, <2>2, <2>3 DEF ReapNonBlocking
<1> QED BY <1>1, <1>2 DEF Object

LEMMA EmptiedIsObject == ASSUME NEW object \in Object PROVE Emptied(object) \in Object
  BY DEF Emptied, Object

LEMMA IInvInit == Init => IInv
<1> SUFFICES ASSUME Init PROVE IInv
  OBVIOUS
<1> USE DEF Init, Default, Objects, Temporary, Owned, NoStatus
<1>1. TypeOK BY DEF TypeOK, Object, Process, Statuses
<1>2. NoStraySignal BY DEF NoStraySignal
<1>3. PhaseFollowsPc BY DEF PhaseFollowsPc, Unreaped, InTerminate
<1>4. ObjectsKnow BY DEF ObjectsKnow, Constructing, InTerminate
<1>5. StatusKnown BY DEF StatusKnown, StatusIsTheChilds, Knows, Lost
<1>6. DescriptorFollowsPc BY DEF DescriptorFollowsPc, InTerminate
<1> QED BY <1>1, <1>2, <1>3, <1>4, <1>5, <1>6 DEF IInv

LEMMA IInvNext == IInv /\ [Next]_vars => IInv'
<1> SUFFICES ASSUME IInv, [Next]_vars PROVE IInv'
  OBVIOUS
<1> USE PtyAssumption DEF PtyAssumption, IInv, TypeOK, PhaseFollowsPc, ObjectsKnow, Object,
    Process, Objects, Temporary, Owned, Default, NoStatus, Unreaped,
    InTerminate, Constructing
<1>1. CASE Fork
  <2>1. TypeOK' BY <1>1 DEF Fork
  <2>2. NoStraySignal' BY <1>1 DEF Fork, NoStraySignal
  <2>3. PhaseFollowsPc' BY <1>1 DEF Fork
  <2>4. ObjectsKnow' BY <1>1 DEF Fork
  <2>5. StatusKnown' BY <1>1 DEF Fork, StatusKnown, StatusIsTheChilds, Knows, Lost
  <2>6. DescriptorFollowsPc' BY <1>1 DEF Fork, DescriptorFollowsPc
  <2> QED BY <2>1, <2>2, <2>3, <2>4, <2>5, <2>6 DEF IInv
<1>2. CASE OpenFails
  <2>1. TypeOK' BY <1>2 DEF OpenFails
  <2>2. NoStraySignal' BY <1>2 DEF OpenFails, NoStraySignal
  <2>3. PhaseFollowsPc' BY <1>2 DEF OpenFails
  <2>4. ObjectsKnow' BY <1>2 DEF OpenFails
  <2>5. StatusKnown' BY <1>2 DEF OpenFails, StatusKnown, StatusIsTheChilds, Knows, Lost
  <2>6. DescriptorFollowsPc' BY <1>2 DEF OpenFails, DescriptorFollowsPc
  <2> QED BY <2>1, <2>2, <2>3, <2>4, <2>5, <2>6 DEF IInv
<1>3. ASSUME NEW o \in Objects, Constructed(o) PROVE IInv'
  <2>1. TypeOK' BY <1>3 DEF Constructed, Statuses
  <2>2. NoStraySignal' BY <1>3 DEF Constructed, Statuses, NoStraySignal
  <2>3. PhaseFollowsPc' BY <1>3 DEF Constructed, Statuses
  <2>4. ObjectsKnow'
    <3>1. CASE o = Temporary BY <1>3, <3>1 DEF Constructed, Statuses
    <3>2. CASE o = Owned BY <1>3, <3>2 DEF Constructed, Statuses
    <3> QED BY <3>1, <3>2
  <2>5. StatusKnown' BY <1>3 DEF Constructed, Statuses, StatusKnown, StatusIsTheChilds,
      Knows, Lost
  <2>6. DescriptorFollowsPc' BY <1>3 DEF Constructed, Statuses, DescriptorFollowsPc
  <2> QED BY <2>1, <2>2, <2>3, <2>4, <2>5, <2>6 DEF IInv
<1>4. CASE FcntlFails
  <2>1. TypeOK' BY <1>4 DEF FcntlFails, Kill
  <2>2. NoStraySignal' BY <1>4 DEF FcntlFails, Kill, NoStraySignal
  <2>3. PhaseFollowsPc' BY <1>4 DEF FcntlFails, Kill
  <2>4. ObjectsKnow' BY <1>4 DEF FcntlFails, Kill
  <2>5. StatusKnown' BY <1>4 DEF FcntlFails, Kill, StatusKnown, StatusIsTheChilds, Knows, Lost
  <2>6. DescriptorFollowsPc' BY <1>4 DEF FcntlFails, Kill, DescriptorFollowsPc
  <2> QED BY <2>1, <2>2, <2>3, <2>4, <2>5, <2>6 DEF IInv
<1>5. CASE Abandon
  <2>1. TypeOK' BY <1>5 DEF Abandon
  <2>2. NoStraySignal' BY <1>5 DEF Abandon, NoStraySignal
  <2>3. PhaseFollowsPc' BY <1>5 DEF Abandon
  <2>4. ObjectsKnow' BY <1>5 DEF Abandon
  <2>5. StatusKnown' BY <1>5 DEF Abandon, StatusKnown, StatusIsTheChilds, Knows, Lost
  <2>6. DescriptorFollowsPc' BY <1>5 DEF Abandon, DescriptorFollowsPc
  <2> QED BY <2>1, <2>2, <2>3, <2>4, <2>5, <2>6 DEF IInv
<1>6. CASE MoveConstruct
  <2>1. TypeOK'
    <3>1. Emptied(objects[Temporary]) \in Object BY EmptiedIsObject
    <3>2. objects' \in [Objects -> Object] BY <1>6, <3>1 DEF MoveConstruct
    <3> QED BY <1>6, <3>2 DEF MoveConstruct
  <2>2. NoStraySignal' BY <1>6 DEF MoveConstruct, Emptied, NoStraySignal
  <2>3. PhaseFollowsPc' BY <1>6 DEF MoveConstruct, Emptied
  <2>4. ObjectsKnow' BY <1>6 DEF MoveConstruct, Emptied
  <2>5. StatusKnown' BY <1>6 DEF MoveConstruct, Emptied, StatusKnown, StatusIsTheChilds,
      Knows, Lost
  <2>6. DescriptorFollowsPc' BY <1>6 DEF MoveConstruct, Emptied, DescriptorFollowsPc
  <2> QED BY <2>1, <2>2, <2>3, <2>4, <2>5, <2>6 DEF IInv
<1>7. CASE DestroyTemporary
  <2>0. Reaped(Temporary) BY <1>7, Reaping DEF DestroyTemporary, BeginTerminate
  <2>1. TypeOK'
    <3>1. objects' \in [Objects -> Object] /\ child' \in Process BY <2>0 DEF Reaped
    <3>2. pending' \in {pending, pending \cup {"HUP"}} /\ stray' \in BOOLEAN /\ killed' \in BOOLEAN
      BY <1>7, <2>0 DEF DestroyTemporary, BeginTerminate, Kill, Lost, Reaped
    <3>4. pending' \subseteq {"HUP", "TERM", "KILL"} BY <3>2
    <3>3. pc' \in {"grace", "running", "stopped"} /\ (actor' # "nobody" <=> pc' = "grace")
      BY <1>7, <2>0 DEF DestroyTemporary, BeginTerminate, Kill, Lost, Reaped
    <3> QED BY <1>7, <2>0, <3>1, <3>2, <3>3, <3>4 DEF DestroyTemporary, BeginTerminate, Kill, Lost, Reaped
  <2>2. NoStraySignal' BY <1>7, <2>0 DEF DestroyTemporary, BeginTerminate, Kill, Lost, Reaped, NoStraySignal
  <2>3. PhaseFollowsPc' BY <1>7, <2>0 DEF DestroyTemporary, BeginTerminate, Kill, Lost, Reaped
  <2>4. ObjectsKnow' BY <1>7, <2>0 DEF DestroyTemporary, BeginTerminate, Kill, Lost, Reaped
  <2>5. StatusKnown' BY <1>7, <2>0 DEF DestroyTemporary, BeginTerminate, Kill, Lost,
      Reaped, StatusKnown, StatusIsTheChilds, Knows
  <2>6. DescriptorFollowsPc' BY <1>7, <2>0 DEF DestroyTemporary, BeginTerminate, Kill, Lost, Reaped, DescriptorFollowsPc
  <2> QED BY <2>1, <2>2, <2>3, <2>4, <2>5, <2>6 DEF IInv
<1>8. CASE Poll
  <2>0. Reaped(Owned) BY <1>8, Reaping DEF Poll
  <2>1. TypeOK' BY <1>8, <2>0 DEF Poll, Lost, Reaped
  <2>2. NoStraySignal' BY <1>8, <2>0 DEF Poll, Lost, Reaped, NoStraySignal
  <2>3. PhaseFollowsPc' BY <1>8, <2>0 DEF Poll, Lost, Reaped
  <2>4. ObjectsKnow' BY <1>8, <2>0 DEF Poll, Lost, Reaped
  <2>5. StatusKnown' BY <1>8, <2>0 DEF Poll, Lost, Reaped, StatusKnown, StatusIsTheChilds,
      Knows
  <2>6. DescriptorFollowsPc' BY <1>8, <2>0 DEF Poll, Lost, Reaped, DescriptorFollowsPc
  <2> QED BY <2>1, <2>2, <2>3, <2>4, <2>5, <2>6 DEF IInv
<1>9. CASE Shutdown
  <2>0. Reaped(Owned) BY <1>9, Reaping DEF Shutdown, BeginTerminate
  <2>1. TypeOK'
    <3>1. objects' \in [Objects -> Object] /\ child' \in Process BY <2>0 DEF Reaped
    <3>2. pending' \in {pending, pending \cup {"HUP"}} /\ stray' \in BOOLEAN /\ killed' \in BOOLEAN
      BY <1>9, <2>0 DEF Shutdown, BeginTerminate, Kill, Lost, Reaped
    <3>4. pending' \subseteq {"HUP", "TERM", "KILL"} BY <3>2
    <3>3. pc' \in {"grace", "running", "stopped"} /\ (actor' # "nobody" <=> pc' = "grace")
      BY <1>9, <2>0 DEF Shutdown, BeginTerminate, Kill, Lost, Reaped
    <3> QED BY <1>9, <2>0, <3>1, <3>2, <3>3, <3>4 DEF Shutdown, BeginTerminate, Kill, Lost, Reaped
  <2>2. NoStraySignal' BY <1>9, <2>0 DEF Shutdown, BeginTerminate, Kill, Lost, Reaped, NoStraySignal
  <2>3. PhaseFollowsPc' BY <1>9, <2>0 DEF Shutdown, BeginTerminate, Kill, Lost, Reaped
  <2>4. ObjectsKnow' BY <1>9, <2>0 DEF Shutdown, BeginTerminate, Kill, Lost, Reaped
  <2>5. StatusKnown' BY <1>9, <2>0 DEF Shutdown, BeginTerminate, Kill, Lost, Reaped,
      StatusKnown, StatusIsTheChilds, Knows
  <2>6. DescriptorFollowsPc' BY <1>9, <2>0 DEF Shutdown, BeginTerminate, Kill, Lost, Reaped, DescriptorFollowsPc
  <2> QED BY <2>1, <2>2, <2>3, <2>4, <2>5, <2>6 DEF IInv
<1>10. CASE PollInGrace
  <2>0. Reaped(actor) BY <1>10, Reaping DEF PollInGrace
  <2>1. TypeOK' BY <1>10, <2>0 DEF PollInGrace, Return, Returned, Lost, Reaped
  <2>2. NoStraySignal' BY <1>10, <2>0 DEF PollInGrace, Return, Returned, Lost, Reaped, NoStraySignal
  <2>3. PhaseFollowsPc' BY <1>10, <2>0 DEF PollInGrace, Return, Returned, Lost, Reaped
  <2>4. ObjectsKnow' BY <1>10, <2>0 DEF PollInGrace, Return, Returned, Lost, Reaped
  <2>5. StatusKnown' BY <1>10, <2>0 DEF PollInGrace, Return, Returned, Lost, Reaped,
      StatusKnown, StatusIsTheChilds, Knows
  <2>6. DescriptorFollowsPc' BY <1>10, <2>0 DEF PollInGrace, Return, Returned, Lost, Reaped, DescriptorFollowsPc
  <2> QED BY <2>1, <2>2, <2>3, <2>4, <2>5, <2>6 DEF IInv
<1>11. CASE GraceEnds
  <2>1. TypeOK' BY <1>11 DEF GraceEnds, Kill
  <2>2. NoStraySignal' BY <1>11 DEF GraceEnds, Kill, NoStraySignal
  <2>3. PhaseFollowsPc' BY <1>11 DEF GraceEnds, Kill
  <2>4. ObjectsKnow' BY <1>11 DEF GraceEnds, Kill
  <2>5. StatusKnown' BY <1>11 DEF GraceEnds, Kill, StatusKnown, StatusIsTheChilds, Knows, Lost
  <2>6. DescriptorFollowsPc' BY <1>11 DEF GraceEnds, Kill, DescriptorFollowsPc
  <2> QED BY <2>1, <2>2, <2>3, <2>4, <2>5, <2>6 DEF IInv
<1>12. CASE TerminateEnds
  <2>1. TypeOK' BY <1>12 DEF TerminateEnds, Kill
  <2>2. NoStraySignal' BY <1>12 DEF TerminateEnds, Kill, NoStraySignal
  <2>3. PhaseFollowsPc' BY <1>12 DEF TerminateEnds, Kill
  <2>4. ObjectsKnow' BY <1>12 DEF TerminateEnds, Kill
  <2>5. StatusKnown' BY <1>12 DEF TerminateEnds, Kill, StatusKnown, StatusIsTheChilds,
      Knows, Lost
  <2>6. DescriptorFollowsPc' BY <1>12 DEF TerminateEnds, Kill, DescriptorFollowsPc
  <2> QED BY <2>1, <2>2, <2>3, <2>4, <2>5, <2>6 DEF IInv
<1>13. CASE WaitKilled
  <2>1. TypeOK' BY <1>13 DEF WaitKilled, Return, Returned, Number, Statuses
  <2>2. NoStraySignal' BY <1>13 DEF WaitKilled, Return, Returned, Number, Statuses, NoStraySignal
  <2>3. PhaseFollowsPc' BY <1>13 DEF WaitKilled, Return, Returned, Number, Statuses
  <2>4. ObjectsKnow' BY <1>13 DEF WaitKilled, Return, Returned, Number, Statuses
  <2>5. StatusKnown' BY <1>13 DEF WaitKilled, Return, Returned, Number, Statuses,
      StatusKnown, StatusIsTheChilds, Knows, Lost
  <2>6. DescriptorFollowsPc' BY <1>13 DEF WaitKilled, Return, Returned, Number, Statuses, DescriptorFollowsPc
  <2> QED BY <2>1, <2>2, <2>3, <2>4, <2>5, <2>6 DEF IInv
<1>14. CASE Destroy
  <2>1. TypeOK'
    <3>0. Emptied(objects[Owned]) \in Object BY EmptiedIsObject
    <3>1. objects' \in [Objects -> Object] BY <1>14, <3>0 DEF Destroy, Emptied
    <3>2. pending' \subseteq {"HUP", "TERM", "KILL"} BY <1>14 DEF Destroy
    <3> QED BY <1>14, <3>1, <3>2 DEF Destroy
  <2>2. NoStraySignal' BY <1>14 DEF Destroy, NoStraySignal
  <2>3. PhaseFollowsPc' BY <1>14 DEF Destroy
  <2>4. ObjectsKnow' BY <1>14 DEF Destroy
  <2>5. StatusKnown' BY <1>14 DEF Destroy, StatusKnown, StatusIsTheChilds, Knows, Lost
  <2>6. DescriptorFollowsPc' BY <1>14 DEF Destroy, DescriptorFollowsPc
  <2> QED BY <2>1, <2>2, <2>3, <2>4, <2>5, <2>6 DEF IInv
<1>15. CASE Setsid
  <2>1. TypeOK' BY <1>15 DEF Setsid
  <2>2. NoStraySignal' BY <1>15 DEF Setsid, NoStraySignal
  <2>3. PhaseFollowsPc' BY <1>15 DEF Setsid
  <2>4. ObjectsKnow' BY <1>15 DEF Setsid
  <2>5. StatusKnown' BY <1>15 DEF Setsid, StatusKnown, StatusIsTheChilds, Knows, Lost
  <2>6. DescriptorFollowsPc' BY <1>15 DEF Setsid, DescriptorFollowsPc
  <2> QED BY <2>1, <2>2, <2>3, <2>4, <2>5, <2>6 DEF IInv
<1>16. CASE Exit
  <2>1. TypeOK' BY <1>16 DEF Exit, Statuses
  <2>2. NoStraySignal' BY <1>16 DEF Exit, Statuses, NoStraySignal
  <2>3. PhaseFollowsPc' BY <1>16 DEF Exit, Statuses
  <2>4. ObjectsKnow' BY <1>16 DEF Exit, Statuses
  <2>5. StatusKnown' BY <1>16 DEF Exit, Statuses, StatusKnown, StatusIsTheChilds, Knows, Lost
  <2>6. DescriptorFollowsPc' BY <1>16 DEF Exit, Statuses, DescriptorFollowsPc
  <2> QED BY <2>1, <2>2, <2>3, <2>4, <2>5, <2>6 DEF IInv
<1>17. ASSUME NEW signal \in {"HUP", "TERM", "KILL"}, TakeSignal(signal) PROVE IInv'
  <2>1. TypeOK'
    <3>1. child' \in Process BY <1>17 DEF TakeSignal, Number, Statuses
    <3>2. pending' \subseteq {"HUP", "TERM", "KILL"} BY <1>17 DEF TakeSignal
    <3> QED BY <1>17, <3>1, <3>2 DEF TakeSignal, Number, Statuses
  <2>2. NoStraySignal' BY <1>17 DEF TakeSignal, Number, Statuses, NoStraySignal
  <2>3. PhaseFollowsPc' BY <1>17 DEF TakeSignal, Number, Statuses
  <2>4. ObjectsKnow' BY <1>17 DEF TakeSignal, Number, Statuses
  <2>5. StatusKnown' BY <1>17 DEF TakeSignal, Number, Statuses, StatusKnown,
      StatusIsTheChilds, Knows, Lost
  <2>6. DescriptorFollowsPc' BY <1>17 DEF TakeSignal, Number, Statuses, DescriptorFollowsPc
  <2> QED BY <2>1, <2>2, <2>3, <2>4, <2>5, <2>6 DEF IInv
<1>18. CASE UNCHANGED vars
  <2>1. TypeOK' BY <1>18 DEF vars
  <2>2. NoStraySignal' BY <1>18 DEF vars, NoStraySignal
  <2>3. PhaseFollowsPc' BY <1>18 DEF vars
  <2>4. ObjectsKnow' BY <1>18 DEF vars
  <2>5. StatusKnown' BY <1>18 DEF vars, StatusKnown, StatusIsTheChilds, Knows, Lost
  <2>6. DescriptorFollowsPc' BY <1>18 DEF vars, DescriptorFollowsPc
  <2> QED BY <2>1, <2>2, <2>3, <2>4, <2>5, <2>6 DEF IInv
<1> QED
  BY <1>1, <1>2, <1>3, <1>4, <1>5, <1>6, <1>7, <1>8, <1>9, <1>10, <1>11, <1>12, <1>13, <1>14, <1>15, <1>16, <1>17, <1>18
  DEF Next, Spawn, Adopt, Terminate, Child

LEMMA Invariance == Spec => []IInv
  BY IInvInit, IInvNext, PTL DEF Spec

(* The types of a session's state hold throughout, whatever the shell does. *)
THEOREM TypeCorrect == Spec => []TypeOK
<1>1. IInv => TypeOK
  BY DEF IInv
<1> QED BY <1>1, Invariance, PTL

(* kill() never names a process that waitpid() has already given back,     *)
(* also when two objects hold one pid (linux_pty.cpp:130,220-251).         *)
THEOREM NeverStray == Spec => []NoStraySignal
<1>1. IInv => NoStraySignal
  BY DEF IInv
<1> QED BY <1>1, Invariance, PTL

(* Whichever way terminate() returns, or spawn() fails, the child has been *)
(* reaped or was never forked (linux_pty.cpp:126-134,220-251).             *)
THEOREM NothingLeft == Spec => []NoChildLeft
<1>1. IInv => NoChildLeft
  BY DEF IInv, PhaseFollowsPc, NoChildLeft
<1> QED BY <1>1, Invariance, PTL

(* A status is there only when the child is reaped, and it is the child's  *)
(* own, 137 if a SIGKILL was sent, or -1 where the other object knows the  *)
(* child's; of a reaped child one object knows the status                  *)
(* (linux_pty.cpp:220-251,281-300).                                        *)
THEOREM StatusFaithful == Spec => []StatusIsTheChilds
<1>1. IInv => StatusIsTheChilds
  BY DEF IInv, StatusKnown
<1> QED BY <1>1, Invariance, PTL

(* The master descriptor has one owner, and is open while it has one       *)
(* (unique_fd.hpp:17-44).                                                  *)
THEOREM OneOwner == Spec => []DescriptorOwnedOnce
<1>1. IInv => DescriptorOwnedOnce
  BY DEF IInv, DescriptorFollowsPc, DescriptorOwnedOnce, Objects, InTerminate
<1> QED BY <1>1, Invariance, PTL

-----------------------------------------------------------------------------
(* The session activate() starts is a session of LinuxPty (main.cpp:118-   *)
(* 158): whatever the file, the environment and the file system hold.      *)
THEOREM StartsAPty == ActivateSpec => Spec
<1>1. ActivateInit => Init
  BY DEF ActivateInit
<1>2. [ActivateNext]_all => [Next]_vars
  <2>1. ConfigNext /\ UNCHANGED <<vars, svars>> => UNCHANGED vars
    BY DEF vars, svars
  <2>2. ResolveShell \/ Installation \/ Execute => UNCHANGED vars
    BY DEF ResolveShell, Installation, Execute
  <2>3. During(Next) => Next
    BY DEF During
  <2>4. UNCHANGED all => UNCHANGED vars
    BY DEF all
  <2> QED
    BY <2>1, <2>2, <2>3, <2>4 DEF ActivateNext
<1> QED
  BY <1>1, <1>2, PTL DEF ActivateSpec, Spec

(* Whatever a user's file asks for, no child is left behind                *)
(* (linux_pty.cpp:126-136,220-251).                                        *)
THEOREM StartLeavesNothing == ActivateSpec => []NoChildLeft
  BY StartsAPty, NothingLeft

(* Nor does a signal go to a pid that was reaped (linux_pty.cpp:220-300).  *)
THEOREM StartNeverStray == ActivateSpec => []NoStraySignal
  BY StartsAPty, NeverStray

-----------------------------------------------------------------------------
\* load(), line by line.
Keys == DOMAIN AppConfig
Values(lines) ==
  {AppConfig[key] : key \in Keys} \cup {lines[i].value : i \in 1..Len(lines)}
Result(V) == [config : [Keys -> V], warnings : Seq(Nat)]

Sets(line, key) ==
  line.shape = "assignment" /\ line.key = key /\ Accepts(key, line.value)
Bad(line) == line.shape # "blank" /\ \A key \in Keys : ~Sets(line, key)

\* What load() has made of the first n lines.
LatestUpTo(lines, n, key, i) ==
  i \in 1..n /\ Sets(lines[i], key) /\ \A j \in i + 1..n : ~Sets(lines[j], key)
KeyLoaded(lines, n, key, value) ==
  \/ value = AppConfig[key] /\ \A i \in 1..n : ~Sets(lines[i], key)
  \/ \E i \in 1..n : LatestUpTo(lines, n, key, i) /\ value = lines[i].value
WarningsLoaded(lines, n, warnings) ==
  /\ {warnings[i] : i \in DOMAIN warnings} = {i \in 1..n : Bad(lines[i])}
  /\ \A i, j \in DOMAIN warnings : i < j => warnings[i] < warnings[j]
LoadedOf(lines, n, result) ==
  /\ result \in Result(Values(lines))
  /\ \A key \in Keys : KeyLoaded(lines, n, key, result.config[key])
  /\ WarningsLoaded(lines, n, result.warnings)

LEMMA KeysAre ==
  Keys = {"font_family", "font_size", "scrollback_lines", "shell", "working_directory",
          "padding"}
  BY DEF Keys, AppConfig

LEMMA AcceptsKeys == \A key, value : Accepts(key, value) => key \in Keys
  BY KeysAre, Zenon DEF Accepts

LEMMA DefaultsTyped == \A lines : LoadResult \in Result(Values(lines))
<1>1. <<>> \in Seq(Nat)
  OBVIOUS
<1>2. DOMAIN AppConfig = Keys
  BY DEF Keys
<1>3. \A lines : AppConfig \in [Keys -> Values(lines)]
  <2>1. AppConfig = [key \in Keys |-> AppConfig[key]]
    BY KeysAre DEF AppConfig
  <2> QED BY <2>1 DEF Values
<1> QED BY <1>1, <1>3 DEF LoadResult, Result

LEMMA TextIsSequence ==
  ASSUME NEW lines, IsText(lines)
  PROVE  /\ Len(lines) \in Nat /\ DOMAIN lines = 1..Len(lines)
         /\ \A i \in 1..Len(lines) : lines[i].shape \in {"blank", "malformed", "assignment"}
<1>1. PICK S : lines \in Seq(S)
  BY DEF IsText
<1>2. Len(lines) \in Nat /\ DOMAIN lines = 1..Len(lines)
  BY <1>1, LenProperties
<1> QED BY <1>2 DEF IsText, IsLine

\* The three things that may come of a line.
Ignored(result, line, u) == line.shape = "blank" /\ u = result
Assigned(result, line, u) ==
  /\ line.shape = "assignment" /\ Sets(line, line.key) /\ line.key \in Keys
  /\ u = [config |-> [result.config EXCEPT ![line.key] = line.value],
          warnings |-> result.warnings]
Warned(result, number, line, u) ==
  Bad(line) /\ u = [config |-> result.config, warnings |-> Append(result.warnings, number)]
LineDone(result, number, line, u) ==
  \/ Ignored(result, line, u) \/ Assigned(result, line, u) \/ Warned(result, number, line, u)

LEMMA LineLoaded ==
  ASSUME NEW V, NEW result \in Result(V), NEW number \in Nat, NEW line,
         line.shape \in {"blank", "malformed", "assignment"}
  PROVE  LineDone(result, number, line, LoadLine(result, number, line))
<1>1. CASE line.shape = "blank"
  BY <1>1, Zenon DEF LoadLine, LineDone, Ignored
<1>2. DOMAIN result = {"config", "warnings"}
  BY DEF Result
<1>3. CASE line.shape = "assignment" /\ Accepts(line.key, line.value)
  <2>1. LoadLine(result, number, line) = [result EXCEPT !.config[line.key] = line.value]
    BY <1>3, Zenon DEF LoadLine
  <2>2. @ = [config |-> [result.config EXCEPT ![line.key] = line.value],
             warnings |-> result.warnings]
    BY <1>2
  <2> QED BY <1>3, <2>1, <2>2, AcceptsKeys DEF LineDone, Assigned, Sets
<1>4. CASE line.shape # "blank" /\ ~(line.shape = "assignment" /\ Accepts(line.key, line.value))
  <2>1. LoadLine(result, number, line) =
          [result EXCEPT !.warnings = Append(result.warnings, number)]
    BY <1>4, Zenon DEF LoadLine
  <2>2. @ = [config |-> result.config, warnings |-> Append(result.warnings, number)]
    <3> DEFINE more == Append(result.warnings, number)
    <3> HIDE DEF more
    <3>1. [result EXCEPT !.warnings = more] = [config |-> result.config, warnings |-> more]
      BY <1>2
    <3> QED BY <3>1 DEF more
  <2> QED BY <1>4, <2>1, <2>2 DEF LineDone, Warned, Bad, Sets
<1> QED BY <1>1, <1>3, <1>4

LEMMA LineLoadedIsResult ==
  ASSUME NEW V, NEW result \in Result(V), NEW number \in Nat, NEW line,
         line.shape \in {"blank", "malformed", "assignment"},
         line.shape = "assignment" => line.value \in V
  PROVE  LoadLine(result, number, line) \in Result(V)
<1>1. Append(result.warnings, number) \in Seq(Nat) /\ result.warnings \in Seq(Nat)
      /\ result.config \in [Keys -> V]
  BY DEF Result
<1>2. line.shape = "assignment" =>
        [result.config EXCEPT ![line.key] = line.value] \in [Keys -> V]
  BY <1>1
<1>3. \A c \in [Keys -> V], w \in Seq(Nat) : [config |-> c, warnings |-> w] \in Result(V)
  BY DEF Result
<1>4. LineDone(result, number, line, LoadLine(result, number, line))
  BY LineLoaded
<1> QED BY <1>1, <1>2, <1>3, <1>4, Zenon DEF LineDone, Ignored, Assigned, Warned

\* The loop of load() defines a result for every prefix of the file.
LEMMA LoadUnfolds ==
  ASSUME NEW lines, IsText(lines)
  PROVE  \E result : /\ result[0] = LoadResult /\ Load(lines) = result[Len(lines)]
                     /\ \A i \in 1..Len(lines) :
                          result[i] = LoadLine(result[i - 1], i, lines[i])
<1> DEFINE V == Values(lines)
           step == [p \in Result(V) \X Nat |->
                      IF p[2] < Len(lines) THEN LoadLine(p[1], p[2] + 1, lines[p[2] + 1])
                      ELSE p[1]]
           loop(g) == [i \in 0..Len(lines) |->
                         IF i = 0 THEN LoadResult ELSE LoadLine(g[i - 1], i, lines[i])]
           result == CHOOSE g : g = loop(g)
<1>1. /\ Len(lines) \in Nat
      /\ \A i \in 1..Len(lines) : /\ lines[i].shape \in {"blank", "malformed", "assignment"}
                                   /\ lines[i].value \in V
  BY TextIsSequence DEF Values
<1>2. step \in [Result(V) \X Nat -> Result(V)]
  <2>1. ASSUME NEW r \in Result(V), NEW n \in Nat, n < Len(lines)
        PROVE  LoadLine(r, n + 1, lines[n + 1]) \in Result(V)
    <3>1. n + 1 \in Nat /\ n + 1 \in 1..Len(lines)
      BY <1>1, <2>1
    <3> HIDE DEF V
    <3> QED BY <1>1, <3>1, LineLoadedIsResult
  <2> HIDE DEF V
  <2>2. ASSUME NEW p \in Result(V) \X Nat
        PROVE  (IF p[2] < Len(lines) THEN LoadLine(p[1], p[2] + 1, lines[p[2] + 1]) ELSE p[1])
                 \in Result(V)
    BY <2>1
  <2> QED BY <2>2
<1> HIDE DEF V
<1>3. PICK f \in [0..Len(lines) -> Result(V)] : Follows(f, LoadResult, step, Len(lines))
  <2>1. LoadResult \in Result(V)
    BY DefaultsTyped DEF V
  <2> HIDE DEF step
  <2> QED BY <1>1, <1>2, <2>1, Recursion
<1>4. ASSUME NEW i \in 1..Len(lines) PROVE f[i] = LoadLine(f[i - 1], i, lines[i])
  <2>1. i - 1 \in 0..Len(lines) - 1 /\ (i - 1) + 1 = i /\ i - 1 < Len(lines) /\ i - 1 \in Nat
        /\ i - 1 \in 0..Len(lines)
    BY <1>1
  <2>2. f[(i - 1) + 1] = step[<<f[i - 1], i - 1>>]
    BY <1>3, <2>1 DEF Follows
  <2>3. <<f[i - 1], i - 1>> \in Result(V) \X Nat
    BY <2>1
  <2> HIDE DEF Result
  <2>4. step[<<f[i - 1], i - 1>>] = LoadLine(f[i - 1], (i - 1) + 1, lines[(i - 1) + 1])
    BY <2>1, <2>3
  <2> QED BY <2>1, <2>2, <2>4
<1>5. f = loop(f)
  BY <1>3, <1>4 DEF Follows
<1>6. result = loop(result)
  BY <1>5
<1>7. Load(lines) = result[Len(lines)]
  BY DEF Load
<1> HIDE DEF result
<1>8. result[0] = LoadResult
      /\ \A i \in 1..Len(lines) : result[i] = LoadLine(result[i - 1], i, lines[i])
  BY <1>1, <1>6
<1> QED BY <1>7, <1>8

LEMMA KeyKept ==
  ASSUME NEW lines, NEW n \in Nat, NEW key, NEW value, KeyLoaded(lines, n, key, value),
         ~Sets(lines[n + 1], key)
  PROVE  KeyLoaded(lines, n + 1, key, value)
<1>1. \A i \in 1..n + 1 : i \in 1..n \/ i = n + 1
  OBVIOUS
<1>2. ASSUME NEW i \in 1..n, LatestUpTo(lines, n, key, i) PROVE LatestUpTo(lines, n + 1, key, i)
  <2>1. i \in 1..n + 1 /\ \A j \in i + 1..n + 1 : j \in i + 1..n \/ j = n + 1
    OBVIOUS
  <2> QED BY <1>2, <2>1 DEF LatestUpTo
<1> QED BY <1>1, <1>2 DEF KeyLoaded

LEMMA WarningsKept ==
  ASSUME NEW lines, NEW n \in Nat, NEW warnings, WarningsLoaded(lines, n, warnings),
         ~Bad(lines[n + 1])
  PROVE  WarningsLoaded(lines, n + 1, warnings)
<1>1. {i \in 1..n : Bad(lines[i])} = {i \in 1..n + 1 : Bad(lines[i])}
  <2>1. \A i \in 1..n + 1 : i \in 1..n \/ i = n + 1
    OBVIOUS
  <2> QED BY <2>1
<1> QED BY <1>1 DEF WarningsLoaded

LEMMA WarningAdded ==
  ASSUME NEW lines, NEW n \in Nat, NEW warnings \in Seq(Nat),
         WarningsLoaded(lines, n, warnings), Bad(lines[n + 1])
  PROVE  WarningsLoaded(lines, n + 1, Append(warnings, n + 1))
<1> DEFINE more == Append(warnings, n + 1)
           length == Len(warnings)
<1>1. /\ length \in Nat /\ DOMAIN warnings = 1..length /\ DOMAIN more = 1..length + 1
      /\ more[length + 1] = n + 1 /\ \A i \in 1..length : more[i] = warnings[i]
  <2>1. /\ more \in Seq(Nat) /\ Len(more) = length + 1 /\ more[Len(more)] = n + 1
        /\ \A i \in 1..length : more[i] = warnings[i]
    BY AppendProperties
  <2> QED BY <2>1, LenProperties
<1> HIDE DEF more, length
<1>2. \A i \in 1..length + 1 : i \in 1..length \/ i = length + 1
  BY <1>1
<1>3. \A i \in 1..length : warnings[i] \in 1..n /\ Bad(lines[warnings[i]])
  BY <1>1 DEF WarningsLoaded
<1>4. {more[i] : i \in DOMAIN more} = {i \in 1..n + 1 : Bad(lines[i])}
  <2>1. ASSUME NEW k \in 1..n + 1, Bad(lines[k]) PROVE \E i \in DOMAIN more : more[i] = k
    <3>1. CASE k = n + 1
      BY <1>1, <3>1
    <3>2. CASE k \in 1..n
      <4>1. k \in {warnings[i] : i \in DOMAIN warnings}
        BY <2>1, <3>2 DEF WarningsLoaded
      <4>2. PICK i \in 1..length : warnings[i] = k
        BY <1>1, <4>1
      <4> QED BY <1>1, <4>2
    <3>3. k = n + 1 \/ k \in 1..n
      OBVIOUS
    <3> QED BY <3>1, <3>2, <3>3
  <2>2. ASSUME NEW i \in DOMAIN more PROVE more[i] \in 1..n + 1 /\ Bad(lines[more[i]])
    <3>1. CASE i = length + 1
      BY <1>1, <3>1
    <3>2. CASE i \in 1..length
      BY <1>1, <1>3, <3>2
    <3> QED BY <1>1, <1>2, <2>2, <3>1, <3>2
  <2> QED BY <2>1, <2>2
<1>5. ASSUME NEW i \in DOMAIN more, NEW j \in DOMAIN more, i < j PROVE more[i] < more[j]
  <2>1. i \in 1..length
    BY <1>1, <1>5
  <2>2. CASE j = length + 1
    BY <1>1, <1>3, <2>1, <2>2
  <2>3. CASE j \in 1..length
    BY <1>1, <1>5, <2>1, <2>3 DEF WarningsLoaded
  <2> QED BY <1>1, <1>2, <1>5, <2>2, <2>3
<1>6. WarningsLoaded(lines, n + 1, more)
  BY <1>4, <1>5 DEF WarningsLoaded
<1> QED BY <1>6 DEF more

LEMMA NextLineLoaded ==
  ASSUME NEW lines, IsText(lines), NEW n \in 0..Len(lines) - 1, NEW result,
         LoadedOf(lines, n, result)
  PROVE  LoadedOf(lines, n + 1, LoadLine(result, n + 1, lines[n + 1]))
<1> DEFINE V == Values(lines)
           line == lines[n + 1]
           u == LoadLine(result, n + 1, line)
<1>1. /\ Len(lines) \in Nat /\ n + 1 \in 1..Len(lines) /\ n + 1 \in Nat /\ n \in Nat
      /\ line.shape \in {"blank", "malformed", "assignment"} /\ line.value \in V
  BY TextIsSequence DEF Values
<1>2. result \in Result(V)
  BY DEF LoadedOf
<1>3. u \in Result(V)
  <2> HIDE DEF V, line
  <2> QED BY <1>1, <1>2, LineLoadedIsResult
<1>4. DOMAIN result.config = Keys /\ result.warnings \in Seq(Nat)
  BY <1>2 DEF Result
<1>5. LineDone(result, n + 1, line, u)
  <2> HIDE DEF V, line
  <2> QED BY <1>1, <1>2, LineLoaded
<1> HIDE DEF u
<1>6. /\ \A key \in Keys : KeyLoaded(lines, n, key, result.config[key])
      /\ WarningsLoaded(lines, n, result.warnings)
  BY DEF LoadedOf
<1>7. \A key \in Keys : KeyLoaded(lines, n + 1, key, u.config[key])
  <2> SUFFICES ASSUME NEW key \in Keys PROVE KeyLoaded(lines, n + 1, key, u.config[key])
    OBVIOUS
  <2>1. CASE Sets(line, key)
    <3>1. u.config[key] = line.value
      BY <1>4, <1>5, <2>1 DEF LineDone, Ignored, Assigned, Warned, Bad, Sets
    <3>2. LatestUpTo(lines, n + 1, key, n + 1)
      BY <1>1, <2>1 DEF LatestUpTo
    <3>3. n + 1 \in 1..n + 1
      BY <1>1
    <3> QED BY <3>1, <3>2, <3>3 DEF KeyLoaded
  <2>2. CASE ~Sets(line, key)
    <3>1. u.config[key] = result.config[key]
      BY <1>4, <1>5, <2>2 DEF LineDone, Ignored, Assigned, Warned
    <3> QED BY <1>1, <1>6, <2>2, <3>1, KeyKept
  <2> QED BY <2>1, <2>2
<1>8. WarningsLoaded(lines, n + 1, u.warnings)
  <2>1. CASE Bad(line)
    <3>1. u.warnings = Append(result.warnings, n + 1)
      BY <1>5, <2>1 DEF LineDone, Ignored, Assigned, Warned, Bad
    <3> QED BY <1>1, <1>4, <1>6, <2>1, <3>1, WarningAdded
  <2>2. CASE ~Bad(line)
    <3>1. u.warnings = result.warnings
      BY <1>5, <2>2 DEF LineDone, Ignored, Assigned, Warned
    <3> QED BY <1>1, <1>6, <2>2, <3>1, WarningsKept
  <2> QED BY <2>1, <2>2
<1>9. LoadedOf(lines, n + 1, u)
  BY <1>3, <1>7, <1>8 DEF LoadedOf
<1> QED BY <1>9 DEF u

LEMMA FileLoaded ==
  ASSUME NEW lines, IsText(lines)
  PROVE  LoadedOf(lines, Len(lines), Load(lines))
<1>1. Len(lines) \in Nat
  BY TextIsSequence
<1>2. PICK result : /\ result[0] = LoadResult /\ Load(lines) = result[Len(lines)]
                    /\ \A i \in 1..Len(lines) :
                         result[i] = LoadLine(result[i - 1], i, lines[i])
  BY LoadUnfolds
<1> DEFINE Done == {n \in Nat : n <= Len(lines) => LoadedOf(lines, n, result[n])}
<1>3. 0 \in Done
  <2>1. 1..0 = {} /\ LoadResult \in Result(Values(lines))
    BY DefaultsTyped
  <2>2. LoadResult.config = AppConfig /\ LoadResult.warnings = <<>> /\ DOMAIN <<>> = {}
    BY DEF LoadResult
  <2>3. LoadedOf(lines, 0, LoadResult)
    BY <2>1, <2>2 DEF LoadedOf, KeyLoaded, WarningsLoaded
  <2> QED BY <1>2, <2>3
<1>4. ASSUME NEW n \in Nat, n \in Done PROVE n + 1 \in Done
  <2> SUFFICES ASSUME n + 1 <= Len(lines) PROVE LoadedOf(lines, n + 1, result[n + 1])
    OBVIOUS
  <2>1. n \in 0..Len(lines) - 1 /\ n + 1 \in 1..Len(lines) /\ (n + 1) - 1 = n
    BY <1>1
  <2>2. LoadedOf(lines, n, result[n])
    BY <1>1, <1>4
  <2>3. result[n + 1] = LoadLine(result[n], n + 1, lines[n + 1])
    BY <1>2, <2>1
  <2> QED BY <2>1, <2>2, <2>3, NextLineLoaded
<1> HIDE DEF Done
<1>5. \A n \in Nat : n \in Done
  BY <1>3, <1>4, SetInduction
<1> QED BY <1>1, <1>2, <1>5 DEF Done

-----------------------------------------------------------------------------
\* The configuration against the user.
Loaded(lines, result) ==
  \/ lines # Absent /\ result = Load(lines)
  \/ result = [LoadResult EXCEPT !.warnings = IF lines = Absent THEN <<>> ELSE <<0>>]

ConfigInv ==
  /\ file = Absent \/ IsText(file)
  /\ stage \in {"create", "open"} /\ file \in Texts => late
  /\ ours => stage = "write" /\ file # Absent /\ (file = <<>> \/ late)
  /\ stage \in {"loaded", "spawning"} => Loaded(file, config_)

LEMMA AbsentIsNoText == ~IsText(Absent)
<1>1. DOMAIN Absent = 1..1 /\ Absent[1].shape = "absent"
  BY DEF Absent
<1> QED BY <1>1 DEF IsText, IsLine

LEMMA EmptyIsText == IsText(<<>>)
<1>1. <<>> \in Seq({<<>>[i] : i \in DOMAIN <<>>}) /\ DOMAIN <<>> = {}
  BY EmptySeq
<1> QED BY <1>1 DEF IsText

LEMMA ExampleLines ==
  /\ DOMAIN Example = 1..8
  /\ \A i \in 1..8 :
       \/ Example[i] = Comment
       \/ \E key \in Keys : Example[i] = Assign(key, AppConfig[key])
<1>1. /\ AppConfig["font_family"] = Word("Monospace", 9) /\ AppConfig["font_size"] = Integer(14)
      /\ AppConfig["scrollback_lines"] = Integer(10000) /\ AppConfig["padding"] = Integer(8)
  BY DEF AppConfig
<1>2. /\ DOMAIN Example = 1..8
      /\ \A i \in {1, 2, 6, 7} : Example[i] = Comment
      /\ Example[3] = Assign("font_family", Word("Monospace", 9))
      /\ Example[4] = Assign("font_size", Integer(14))
      /\ Example[5] = Assign("scrollback_lines", Integer(10000))
      /\ Example[8] = Assign("padding", Integer(8))
  BY DEF Example
<1>3. {"font_family", "font_size", "scrollback_lines", "padding"} \subseteq Keys
  BY KeysAre
<1>4. /\ Example[3] = Assign("font_family", AppConfig["font_family"])
      /\ Example[4] = Assign("font_size", AppConfig["font_size"])
      /\ Example[5] = Assign("scrollback_lines", AppConfig["scrollback_lines"])
      /\ Example[8] = Assign("padding", AppConfig["padding"])
  BY <1>1, <1>2
<1>5. \A i \in {3, 4, 5, 8} : \E key \in Keys : Example[i] = Assign(key, AppConfig[key])
  BY <1>3, <1>4, Zenon
<1>6. \A i \in 1..8 : i \in {1, 2, 6, 7} \/ i \in {3, 4, 5, 8}
  OBVIOUS
<1>7. ASSUME NEW i \in 1..8
      PROVE  Example[i] = Comment \/ \E key \in Keys : Example[i] = Assign(key, AppConfig[key])
  <2>1. CASE i \in {1, 2, 6, 7}
    BY <1>2, <2>1
  <2>2. CASE i \in {3, 4, 5, 8}
    BY <1>5, <2>2, Zenon
  <2> QED BY <1>6, <2>1, <2>2, Zenon
<1>8. DOMAIN Example = 1..8
  BY <1>2
<1> QED BY <1>7, <1>8, Zenon

LEMMA LinesAreText ==
  ASSUME NEW S, \A line \in S : IsLine(line), NEW lines \in Seq(S)
  PROVE  IsText(lines)
<1> DEFINE R == {lines[i] : i \in 1..Len(lines)}
<1>1. /\ Len(lines) \in Nat /\ DOMAIN lines = 1..Len(lines)
      /\ lines = [i \in 1..Len(lines) |-> lines[i]]
  BY LenProperties
<1>2. \A i \in 1..Len(lines) : lines[i] \in S /\ lines[i] \in R
  BY <1>1, ElementOfSeq
<1> HIDE DEF R
<1>3. [i \in 1..Len(lines) |-> lines[i]] \in Seq(R)
  BY <1>1, <1>2, SeqDef
<1>4. lines \in Seq(R)
  BY <1>1, <1>3
<1>5. lines \in Seq({lines[i] : i \in DOMAIN lines})
  BY <1>1, <1>4 DEF R
<1> QED BY <1>1, <1>2, <1>5 DEF IsText

\* The lines a text may have when the example is written over it.
Around(lines) ==
  {Example[i] : i \in 1..8} \cup Fragments \cup {lines[i] : i \in DOMAIN lines}

LEMMA ExampleAround ==
  /\ \A i \in 1..8 : IsLine(Example[i])
  /\ \A lines : Example \in Seq(Around(lines))
<1>1. Comment.shape = "blank" /\ \A key, value : Assign(key, value).shape = "assignment"
  BY DEF Comment, Assign
<1>2. \A i \in 1..8 : IsLine(Example[i])
  BY <1>1, ExampleLines DEF IsLine
<1>3. ASSUME NEW lines PROVE Example \in Seq(Around(lines))
  <2>1. Example = [i \in 1..8 |-> Example[i]]
    BY ExampleLines DEF Example
  <2>2. 8 \in Nat /\ \A i \in 1..8 : Example[i] \in Around(lines)
    BY DEF Around
  <2>3. [i \in 1..8 |-> Example[i]] \in Seq(Around(lines))
    BY <2>2, SeqDef
  <2> QED BY <2>1, <2>3
<1> QED BY <1>2, <1>3

LEMMA OverwrittenIsText ==
  ASSUME NEW lines, IsText(lines), NEW text \in Overwritten(lines)
  PROVE  IsText(text)
<1> DEFINE S == Around(lines)
<1>1. \A line \in S : IsLine(line)
  BY TextsAssumption, ExampleAround DEF Around, IsText
<1>2. Example \in Seq(S)
  BY ExampleAround
<1>3. \A tail \in Tails(lines) : tail \in Seq(S)
  <2>1. Len(lines) \in Nat /\ DOMAIN lines = 1..Len(lines)
    BY TextIsSequence
  <2>2. \A j \in 1..Len(lines) : lines[j] \in S
    BY <2>1 DEF Around
  <2> HIDE DEF S
  <2>3. ASSUME NEW i \in DOMAIN lines PROVE SubSeq(lines, i + 1, Len(lines)) \in Seq(S)
    <3>1. i + 1 \in Int /\ Len(lines) \in Int /\ \A j \in i + 1..Len(lines) : j \in 1..Len(lines)
      BY <2>1
    <3> QED BY <2>2, <3>1, SubSeqProperties
  <2> QED BY <2>3 DEF Tails
<1>4. \A line \in Fragments : <<line>> \in Seq(S)
  <2>1. \A line \in Fragments : line \in S
    BY DEF Around
  <2> QED BY <2>1
<1>5. text \in Seq(S)
  <2> HIDE DEF S
  <2>1. CASE text = Example
    BY <1>2, <2>1
  <2>2. CASE text \in {Example \o tail : tail \in Tails(lines)}
    <3>1. PICK tail \in Tails(lines) : text = Example \o tail
      BY <2>2
    <3> QED BY <1>2, <1>3, <3>1, ConcatProperties
  <2>3. CASE text \in {Example \o <<left[1]>> \o left[2] : left \in Fragments \X Tails(lines)}
    <3>1. PICK left \in Fragments \X Tails(lines) : text = Example \o <<left[1]>> \o left[2]
      BY <2>3
    <3>2. <<left[1]>> \in Seq(S) /\ left[2] \in Seq(S)
      BY <1>3, <1>4, <3>1
    <3>3. Example \o <<left[1]>> \in Seq(S)
      BY <1>2, <3>2, ConcatProperties
    <3> QED BY <3>1, <3>2, <3>3, ConcatProperties
  <2> QED BY <2>1, <2>2, <2>3 DEF Overwritten
<1> QED BY <1>1, <1>5, LinesAreText

LEMMA ExampleIsText == IsText(Example)
  BY EmptyIsText, OverwrittenIsText DEF Overwritten

LEMMA ConfigInitial == ActivateInit => ConfigInv
  BY TextsAssumption DEF ActivateInit, ConfigInit, ConfigInv

LEMMA ConfigStep ==
  ASSUME ConfigInv, [ActivateNext]_all
  PROVE  ConfigInv'
<1> USE DEF ConfigInv
<1>1. CASE Check
  BY <1>1, AbsentIsNoText, TextsAssumption DEF Check
<1>2. CASE CreateDirectories
  BY <1>2 DEF CreateDirectories
<1>3. CASE OpenExample
  BY <1>3, EmptyIsText, AbsentIsNoText DEF OpenExample
<1>4. CASE WriteExample
  <2>1. file' = file \/ IsText(file')
    BY <1>4, OverwrittenIsText DEF WriteExample
  <2> QED BY <1>4, <2>1 DEF WriteExample
<1>5. CASE LoadFile
  BY <1>5 DEF LoadFile, Loaded
<1>6. ASSUME NEW text \in Texts, UserSaves(text) PROVE ConfigInv'
  <2>1. IsText(file') /\ file' # Absent
    BY <1>6, TextsAssumption, AbsentIsNoText DEF UserSaves
  <2>2. stage' = stage /\ stage \notin {"loaded", "spawning"}
    BY <1>6 DEF UserSaves
  <2>3. stage \in {"create", "open"} => late'
    BY <1>6 DEF UserSaves
  <2>4. ours' => ours /\ late'
    <3>1. ours' \in {FALSE, ours} /\ late' = (stage \in {"create", "open"} \/ ours')
      BY <1>6 DEF UserSaves
    <3> QED BY <3>1
  <2> QED BY <2>1, <2>2, <2>3, <2>4
<1>7. CASE ResolveShell
  BY <1>7 DEF ResolveShell, Loaded
<1>8. CASE Installation \/ Execute \/ During(Next) \/ UNCHANGED all
  <2>1. UNCHANGED cvars
    BY <1>8 DEF Installation, Execute, During, all
  <2> QED BY <2>1 DEF cvars
<1> QED BY <1>1, <1>2, <1>3, <1>4, <1>5, <1>6, <1>7, <1>8 DEF ActivateNext, ConfigNext

(* A text the user saved is lost only if it was saved between the look for *)
(* a file and the truncating open, or written to the opened file before    *)
(* the flush (config.cpp:133-153); a file that replaced it is safe.        *)
THEOREM TextKept == ActivateSpec => UserTextKept
<1>1. ConfigInv /\ [ActivateNext]_all =>
        [file' # file /\ file \in Texts \ {<<>>} =>
           late \/ \E text \in Texts : UserSaves(text)]_file
  <2> SUFFICES ASSUME ConfigInv, [ActivateNext]_all, file' # file, file \in Texts, file # <<>>
               PROVE  late \/ \E text \in Texts : UserSaves(text)
    OBVIOUS
  <2>1. CASE OpenExample
    BY <2>1 DEF OpenExample, ConfigInv
  <2>2. CASE WriteExample
    BY <2>2 DEF WriteExample, ConfigInv
  <2>3. CASE Check \/ CreateDirectories \/ LoadFile
    BY <2>3 DEF Check, CreateDirectories, LoadFile
  <2>4. CASE ResolveShell \/ Installation \/ Execute \/ During(Next) \/ UNCHANGED all
    BY <2>4 DEF ResolveShell, Installation, Execute, During, all, cvars
  <2> QED BY <2>1, <2>2, <2>3, <2>4 DEF ActivateNext, ConfigNext
<1>2. ConfigInv /\ [ActivateNext]_all => ConfigInv'
  BY ConfigStep
<1> QED BY <1>1, <1>2, ConfigInitial, PTL DEF ActivateSpec, UserTextKept

LEMMA LatestIs ==
  ASSUME NEW lines, IsText(lines), NEW key, NEW i, LatestUpTo(lines, Len(lines), key, i)
  PROVE  Setting(lines, key) # {} /\ Latest(Setting(lines, key)) = i
<1> DEFINE S == Setting(lines, key)
<1>1. Len(lines) \in Nat /\ DOMAIN lines = 1..Len(lines)
  BY TextIsSequence
<1>2. S = {j \in 1..Len(lines) : Sets(lines[j], key)}
  BY <1>1 DEF Setting, Sets
<1>3. i \in S /\ \A j \in S : j <= i
  BY <1>1, <1>2 DEF LatestUpTo
<1>4. S \subseteq Int
  BY <1>2
<1> HIDE DEF S
<1>5. Latest(S) \in S /\ \A j \in S : j <= Latest(S)
  BY <1>3 DEF Latest
<1>6. Latest(S) = i
  <2> DEFINE k == Latest(S)
  <2>1. k \in S /\ k \in Int /\ i \in Int /\ i <= k /\ k <= i
    BY <1>3, <1>4, <1>5
  <2> HIDE DEF k
  <2>2. k = i
    BY <2>1
  <2> QED BY <2>2 DEF k
<1> QED BY <1>3, <1>6 DEF S

\* What LastValidLineWins says of a file that was loaded.
LEMMA LastLines ==
  ASSUME NEW lines, IsText(lines), NEW result, result = Load(lines)
  PROVE  /\ DOMAIN result.config = Keys
         /\ \A key \in Keys :
              result.config[key] = IF Setting(lines, key) = {} THEN AppConfig[key]
                                   ELSE lines[Latest(Setting(lines, key))].value
         /\ {result.warnings[i] : i \in DOMAIN result.warnings} =
              {i \in DOMAIN lines : lines[i].shape # "blank" /\
                 \A key \in Keys : i \notin Setting(lines, key)}
         /\ \A i, j \in DOMAIN result.warnings : i < j => result.warnings[i] < result.warnings[j]
<1>1. LoadedOf(lines, Len(lines), result)
  BY FileLoaded
<1>2. Len(lines) \in Nat /\ DOMAIN lines = 1..Len(lines)
  BY TextIsSequence
<1>3. \A key : Setting(lines, key) = {j \in 1..Len(lines) : Sets(lines[j], key)}
  BY <1>2 DEF Setting, Sets
<1>4. DOMAIN result.config = Keys
  BY <1>1 DEF LoadedOf, Result
<1>5. ASSUME NEW key \in Keys
      PROVE  result.config[key] = IF Setting(lines, key) = {} THEN AppConfig[key]
                                  ELSE lines[Latest(Setting(lines, key))].value
  <2>1. KeyLoaded(lines, Len(lines), key, result.config[key])
    BY <1>1 DEF LoadedOf
  <2>2. CASE /\ result.config[key] = AppConfig[key]
             /\ \A i \in 1..Len(lines) : ~Sets(lines[i], key)
    BY <1>3, <2>2
  <2>3. ASSUME NEW i, LatestUpTo(lines, Len(lines), key, i), result.config[key] = lines[i].value
        PROVE  result.config[key] = IF Setting(lines, key) = {} THEN AppConfig[key]
                                    ELSE lines[Latest(Setting(lines, key))].value
    BY <2>3, LatestIs
  <2> QED BY <2>1, <2>2, <2>3 DEF KeyLoaded
<1>6. {i \in 1..Len(lines) : Bad(lines[i])} =
        {i \in DOMAIN lines : lines[i].shape # "blank" /\
           \A key \in Keys : i \notin Setting(lines, key)}
  BY <1>2, <1>3 DEF Bad
<1> QED BY <1>1, <1>4, <1>5, <1>6 DEF LoadedOf, WarningsLoaded

LEMMA ExampleIsDefault == Load(Example).config = AppConfig
<1>1. LoadedOf(Example, Len(Example), Load(Example))
  BY FileLoaded, ExampleIsText
<1>2. Load(Example).config \in [Keys -> Values(Example)] /\ AppConfig = [key \in Keys |-> AppConfig[key]]
  BY <1>1, KeysAre DEF LoadedOf, Result, AppConfig
<1>3. ASSUME NEW key \in Keys PROVE Load(Example).config[key] = AppConfig[key]
  <2>1. /\ KeyLoaded(Example, Len(Example), key, Load(Example).config[key])
        /\ Len(Example) \in Nat /\ 1..Len(Example) = 1..8
    BY <1>1, ExampleLines, ExampleIsText, TextIsSequence DEF LoadedOf
  <2>2. ASSUME NEW i \in 1..8, Sets(Example[i], key) PROVE Example[i].value = AppConfig[key]
    <3>1. Comment.shape = "blank"
          /\ \A k, v : Assign(k, v).key = k /\ Assign(k, v).value = v
      BY DEF Comment, Assign
    <3> QED BY <2>2, <3>1, ExampleLines DEF Sets
  <2> QED BY <2>1, <2>2 DEF KeyLoaded, LatestUpTo
<1> QED BY <1>2, <1>3

\* Whatever is loaded, the numbers are within their ranges.
Ranged(config) ==
  /\ config.font_size.integer[1] \in 6..72 /\ config.padding.integer[1] \in 0..100
  /\ config.scrollback_lines.integer[1] \in 0..MaximumScrollbackLines

LEMMA DefaultsRanged == Ranged(AppConfig)
<1>1. /\ AppConfig.font_size.integer[1] = 14 /\ AppConfig.padding.integer[1] = 8
      /\ AppConfig.scrollback_lines.integer[1] = 10000
  BY DEF AppConfig, Integer
<1>2. 14 \in 6..72 /\ 8 \in 0..100
  OBVIOUS
<1>3. 10000 \in 0..MaximumScrollbackLines
  <2>1. 10000 <= MaximumScrollbackLines /\ MaximumScrollbackLines \in Int
    BY SMT DEF MaximumScrollbackLines
  <2> QED BY <2>1, SMT
<1> QED BY <1>1, <1>2, <1>3 DEF Ranged

LEMMA LoadedRanged ==
  ASSUME NEW lines, IsText(lines)
  PROVE  Ranged(Load(lines).config)
<1> DEFINE config == Load(lines).config
<1>1. \A key \in Keys : KeyLoaded(lines, Len(lines), key, config[key])
  BY FileLoaded DEF LoadedOf
<1>2. \A key \in Keys : config[key] = AppConfig[key] \/ Accepts(key, config[key])
  BY <1>1 DEF KeyLoaded, LatestUpTo, Sets
<1> HIDE DEF config
<1>3. /\ Accepts("font_size", config["font_size"]) => IsIn(config["font_size"], 6..72)
      /\ Accepts("padding", config["padding"]) => IsIn(config["padding"], 0..100)
      /\ Accepts("scrollback_lines", config["scrollback_lines"]) =>
           IsIn(config["scrollback_lines"], 0..MaximumScrollbackLines)
  BY Zenon DEF Accepts
<1>4. Ranged(config)
  BY <1>2, <1>3, KeysAre, DefaultsRanged DEF Ranged, IsIn
<1> QED BY <1>4 DEF config

(* "Invalid or unknown lines generate an in-memory warning and leave the   *)
(* prior safe value unchanged" (docs/configuration.md:5), whatever the     *)
(* user's file says and whenever it is saved (config.cpp:56-130).          *)
THEOREM LastLineWins == ActivateSpec => []LastValidLineWins
<1>1. ConfigInv => LastValidLineWins
  <2> SUFFICES ASSUME ConfigInv, stage \in {"loaded", "spawning"} PROVE LastValidLineWins
    BY DEF LastValidLineWins
  <2> DEFINE config == config_.config
             warnings == config_.warnings
  <2>1. CASE file # Absent /\ config_ = Load(file)
    <3>1. IsText(file)
      BY <2>1 DEF ConfigInv
    <3>2. /\ DOMAIN config = Keys
          /\ \A key \in Keys :
               config[key] = IF Setting(file, key) = {} THEN AppConfig[key]
                             ELSE file[Latest(Setting(file, key))].value
          /\ {warnings[i] : i \in DOMAIN warnings} =
               {i \in DOMAIN file : file[i].shape # "blank" /\
                  \A key \in Keys : i \notin Setting(file, key)}
          /\ \A i, j \in DOMAIN warnings : i < j => warnings[i] < warnings[j]
      BY <2>1, <3>1, LastLines
    <3>3. Ranged(config)
      BY <2>1, <3>1, LoadedRanged
    <3>4. file = Example => config = AppConfig
      BY <2>1, ExampleIsDefault
    <3> HIDE DEF config, warnings
    <3>5. \A key \in DOMAIN config : key \in Keys
      BY <3>2
    <3> QED BY <2>1, <3>2, <3>3, <3>4 DEF LastValidLineWins, Ranged, config, warnings
  <2>2. CASE config_ = [LoadResult EXCEPT !.warnings = IF file = Absent THEN <<>> ELSE <<0>>]
    <3>1. config = AppConfig /\ warnings = IF file = Absent THEN <<>> ELSE <<0>>
      BY <2>2 DEF LoadResult
    <3> HIDE DEF config, warnings
    <3>2. Ranged(config)
      BY <3>1, DefaultsRanged
    <3> QED BY <3>1, <3>2 DEF LastValidLineWins, Ranged, config, warnings
  <2> QED BY <2>1, <2>2 DEF ConfigInv, Loaded
<1>2. ConfigInv /\ [ActivateNext]_all => ConfigInv'
  BY ConfigStep
<1> QED BY <1>1, <1>2, ConfigInitial, PTL DEF ActivateSpec

-----------------------------------------------------------------------------
\* From the shell that is resolved to the one that runs.
Usable == {i \in DOMAIN Fallbacks : ExecutableAbsolutePath(Fallbacks[i])}

\* What RunsConfiguredShell says of the shell that was chosen.
Chosen(path, configured, given, names) ==
  LET Was(p) == p.absolute /\ p.text \in names
      wanted == IF configured = Unset THEN given ELSE configured
  IN \/ Was(wanted) /\ path = wanted
     \/ /\ ~Was(wanted)
        /\ \E i \in DOMAIN Fallbacks :
             /\ Was(Fallbacks[i]) /\ path = Fallbacks[i]
             /\ \A j \in 1..i - 1 : ~Was(Fallbacks[j])
     \/ ~Was(wanted) /\ path = Unset /\ \A i \in DOMAIN Fallbacks : ~Was(Fallbacks[i])

StartInv ==
  stage = "spawning" => Chosen(shell, config_.config.shell, environment, seen)

LEMMA FirstUsable ==
  ASSUME Usable # {}
  PROVE  LET k == CHOOSE i \in Usable : \A j \in Usable : i <= j
         IN k \in Usable /\ \A j \in Usable : k <= j
<1>1. Usable \subseteq Nat
  BY DEF Usable, Fallbacks
<1>2. \E i \in Usable : \A j \in Usable : i <= j
  BY <1>1, HasLeast
<1> QED BY <1>2

LEMMA ResolvedIsChosen ==
  ASSUME NEW configured
  PROVE  Chosen(Resolved(configured), configured, environment, executable)
<1> DEFINE wanted == IF configured = Unset THEN environment ELSE configured
           k == CHOOSE i \in Usable : \A j \in Usable : i <= j
<1>1. Resolved(configured) =
        IF ExecutableAbsolutePath(wanted) THEN wanted
        ELSE IF Usable = {} THEN Unset ELSE Fallbacks[k]
  BY DEF Resolved, Usable
<1> HIDE DEF wanted
<1>2. CASE ExecutableAbsolutePath(wanted)
  <2>1. Resolved(configured) = wanted
    BY <1>1, <1>2
  <2> QED BY <1>2, <2>1 DEF Chosen, ExecutableAbsolutePath, wanted
<1>3. CASE ~ExecutableAbsolutePath(wanted) /\ Usable = {}
  <2>1. Resolved(configured) = Unset
    BY <1>1, <1>3
  <2>2. \A i \in DOMAIN Fallbacks : ~ExecutableAbsolutePath(Fallbacks[i])
    BY <1>3 DEF Usable
  <2> QED BY <1>3, <2>1, <2>2 DEF Chosen, ExecutableAbsolutePath, wanted
<1>4. CASE ~ExecutableAbsolutePath(wanted) /\ Usable # {}
  <2>1. Resolved(configured) = Fallbacks[k]
    BY <1>1, <1>4
  <2>2. k \in Usable /\ \A j \in Usable : k <= j
    BY <1>4, FirstUsable
  <2> HIDE DEF k
  <2>3. DOMAIN Fallbacks = 1..4
    BY DEF Fallbacks
  <2>4. ExecutableAbsolutePath(Fallbacks[k]) /\ k \in DOMAIN Fallbacks
    BY <2>2 DEF Usable
  <2>5. ASSUME NEW j \in 1..k - 1 PROVE ~ExecutableAbsolutePath(Fallbacks[j])
    <3>1. j \in DOMAIN Fallbacks /\ ~(k <= j)
      BY <2>3, <2>4
    <3> QED BY <2>2, <3>1 DEF Usable
  <2> QED BY <1>4, <2>1, <2>4, <2>5 DEF Chosen, ExecutableAbsolutePath, wanted
<1> QED BY <1>2, <1>3, <1>4

LEMMA StartInitial == ActivateInit => StartInv
  BY DEF ActivateInit, ConfigInit, StartInv

LEMMA StartStep ==
  ASSUME StartInv, [ActivateNext]_all
  PROVE  StartInv'
<1> USE DEF StartInv
<1>1. CASE ConfigNext
  BY <1>1 DEF ConfigNext, Check, CreateDirectories, OpenExample, WriteExample, LoadFile, UserSaves
<1>2. CASE ResolveShell
  <2>1. /\ shell' = Resolved(config_.config.shell) /\ seen' = executable
        /\ UNCHANGED <<config_, environment>>
    BY <1>2 DEF ResolveShell
  <2>2. Chosen(Resolved(config_.config.shell), config_.config.shell, environment, executable)
    BY ResolvedIsChosen
  <2> QED BY <2>1, <2>2
<1>3. CASE Installation \/ Execute \/ During(Next) \/ UNCHANGED all
  <2>1. UNCHANGED <<stage, config_, shell, seen, environment>>
    BY <1>3 DEF Installation, Execute, During, all, cvars, svars
  <2> QED BY <2>1
<1> QED BY <1>1, <1>2, <1>3 DEF ActivateNext

(* The configured shell runs if it could be executed, $SHELL if none is    *)
(* configured and it could, and if not the first fallback that could       *)
(* (linux_pty.cpp:32-34,253-274).                                          *)
THEOREM RunsTheShell == ActivateSpec => []RunsConfiguredShell
<1>1. StartInv => RunsConfiguredShell
  BY DEF StartInv, RunsConfiguredShell, Chosen
<1>2. StartInv /\ [ActivateNext]_all => StartInv'
  BY StartStep
<1> QED BY <1>1, <1>2, StartInitial, PTL DEF ActivateSpec
=============================================================================

----------------------------- MODULE SerialLock -----------------------------
(***************************************************************************)
(* Files that libbw must take away again: the lock file of a serial port   *)
(* (bw::io::SerialFile in libbw/io/serialfile_posix.cc and _linux.cc) and  *)
(* temporary files (bw::io::TempFile), both also by exit handlers          *)
(* (libbw/exithandler.cc).  Processes that may be killed at any time open  *)
(* the same port below /dev, each by a SerialFile of its own, and have a   *)
(* TempFile.                                                               *)
(***************************************************************************)
EXTENDS Integers, FiniteSets

CONSTANTS
  Processes,
  NoProcess   \* the lock file is not there

ASSUME SerialLockAssumption == NoProcess \notin Processes

VARIABLES
  lock,       \* /var/lock/LCK..: the process that has written it last
  temps,      \* the temporary files on disk: whose, and whether it is to be deleted
  pc,         \* where each process is in openPort(), or that it has ended
  port,       \* its SerialFile: lockfile, and whether fd is that of the open port
  temp,       \* its TempFile: none, or whether it is to be deleted
  handlers,   \* the files of its exit handlers
  raced,      \* history: somebody got through createLock() beside another, or without
              \* a file
  killed      \* history: the processes that were killed

vars == <<lock, temps, pc, port, temp, handlers, raced, killed>>

Temp == {"none", "kept", "deleted"}
Pc == {"running", "checked", "locked", "ended"}
NewPort == [lockfile |-> FALSE, open |-> FALSE]

TypeOK ==
  /\ lock \in Processes \cup {NoProcess}
  /\ temps \subseteq Processes \X {"kept", "deleted"}
  /\ pc \in [Processes -> Pc]
  /\ port \in [Processes -> [lockfile : BOOLEAN, open : BOOLEAN]]
  /\ temp \in [Processes -> Temp]
  /\ handlers \in [Processes -> SUBSET {"lock", "temp"}]
  /\ raced \in BOOLEAN /\ killed \subseteq Processes
  \* Who has the port open will take the lock file with him.
  /\ \A p \in Processes : port[p].open => port[p].lockfile /\ "lock" \in handlers[p]

-----------------------------------------------------------------------------
(* SerialFile                                                              *)

\* openPort() of a port that is closed, with createLock(): somebody has the lock file.
\* Its name stays with the object.
OpenPortLocked(p) ==
  /\ pc[p] = "running" /\ ~port[p].open
  /\ lock # NoProcess
  /\ port' = [port EXCEPT ![p].lockfile = TRUE]
  /\ UNCHANGED <<lock, temps, pc, temp, handlers, raced, killed>>

CreateLockCheck(p) ==
  /\ pc[p] = "running" /\ ~port[p].open
  /\ lock = NoProcess
  /\ pc' = [pc EXCEPT ![p] = "checked"]
  /\ port' = [port EXCEPT ![p].lockfile = TRUE]
  /\ UNCHANGED <<lock, temps, temp, handlers, raced, killed>>

\* A file of another one that has come up since is written over; one that cannot be
\* written does not matter.
CreateLock(p) ==
  /\ pc[p] = "checked"
  /\ \/ lock' = p /\ raced' = (raced \/ lock # NoProcess)
     \/ UNCHANGED lock /\ raced' = TRUE
  /\ handlers' = [handlers EXCEPT ![p] = @ \cup {"lock"}]
  /\ pc' = [pc EXCEPT ![p] = "locked"]
  /\ UNCHANGED <<temps, port, temp, killed>>

OpenPort(p) ==
  /\ pc[p] = "locked"
  /\ port' = [port EXCEPT ![p].open = TRUE]
  /\ pc' = [pc EXCEPT ![p] = "running"]
  /\ UNCHANGED <<lock, temps, temp, handlers, raced, killed>>

RemoveLock(p) ==
  /\ lock' = NoProcess
  /\ port' = [port EXCEPT ![p] = NewPort]
  /\ handlers' = [handlers EXCEPT ![p] = @ \ {"lock"}]

\* (A wrong variant: the lock stays.)
OpenPortFailsLocked(p) ==
  /\ pc[p] = "locked"
  /\ pc' = [pc EXCEPT ![p] = "running"]
  /\ handlers' = [handlers EXCEPT ![p] = @ \ {"lock"}]
  /\ UNCHANGED <<lock, temps, port, temp, raced, killed>>

OpenPortFails(p) ==
  /\ pc[p] = "locked"
  /\ RemoveLock(p)
  /\ pc' = [pc EXCEPT ![p] = "running"]
  /\ UNCHANGED <<temps, temp, raced, killed>>

\* (A wrong variant: also if the port could not be opened.)
ClosePortAnyway(p) ==
  /\ pc[p] = "running" /\ port[p].lockfile
  /\ RemoveLock(p)
  /\ UNCHANGED <<temps, pc, temp, raced, killed>>

\* closePort(), alone or in the destructor.
ClosePort(p) ==
  /\ pc[p] = "running" /\ port[p].open
  /\ RemoveLock(p)
  /\ UNCHANGED <<temps, pc, temp, raced, killed>>

-----------------------------------------------------------------------------
(* TempFile                                                                *)

\* mkstemp() finds a name of its own; DeleteOnExit contains DeleteOnClose, so that either
\* flag registers a handler.
CreateTemp(p, flags) ==
  /\ pc[p] = "running" /\ temp[p] = "none"
  /\ <<p, flags>> \notin temps
  /\ temps' = temps \cup {<<p, flags>>}
  /\ temp' = [temp EXCEPT ![p] = flags]
  /\ handlers' = [handlers EXCEPT ![p] = IF flags = "deleted" THEN @ \cup {"temp"} ELSE @]
  /\ UNCHANGED <<lock, pc, port, raced, killed>>

CloseTemp(p) ==
  /\ pc[p] = "running" /\ temp[p] # "none"
  /\ temps' = temps \ {<<p, "deleted">>}
  /\ temp' = [temp EXCEPT ![p] = "none"]
  /\ handlers' = [handlers EXCEPT ![p] = @ \ {"temp"}]
  /\ UNCHANGED <<lock, pc, port, raced, killed>>

-----------------------------------------------------------------------------
(* Processes                                                               *)

Ends(p) ==
  /\ pc' = [pc EXCEPT ![p] = "ended"]
  /\ port' = [port EXCEPT ![p] = NewPort]
  /\ temp' = [temp EXCEPT ![p] = "none"]
  /\ handlers' = [handlers EXCEPT ![p] = {}]

\* exit(), or the end of main(): the handlers are run.
Exit(p) ==
  /\ pc[p] = "running"
  /\ Ends(p)
  /\ lock' = IF "lock" \in handlers[p] THEN NoProcess ELSE lock
  /\ temps' = IF "temp" \in handlers[p] THEN temps \ {<<p, "deleted">>} ELSE temps
  /\ UNCHANGED <<raced, killed>>

Kill(p) ==
  /\ pc[p] # "ended"
  /\ Ends(p)
  /\ killed' = killed \cup {p}
  /\ UNCHANGED <<lock, temps, raced>>

Start(p) ==
  /\ pc[p] = "ended"
  /\ pc' = [pc EXCEPT ![p] = "running"]
  /\ UNCHANGED <<lock, temps, port, temp, handlers, raced, killed>>

Step(p) ==
  \/ OpenPortLocked(p) \/ CreateLockCheck(p) \/ CreateLock(p)
  \/ OpenPort(p) \/ OpenPortFails(p) \/ ClosePort(p)
  \/ \E flags \in {"kept", "deleted"} : CreateTemp(p, flags)
  \/ CloseTemp(p)
  \/ Exit(p) \/ Kill(p) \/ Start(p)

Init ==
  /\ lock = NoProcess /\ temps = {}
  /\ pc = [p \in Processes |-> "running"]
  /\ port = [p \in Processes |-> NewPort]
  /\ temp = [p \in Processes |-> "none"]
  /\ handlers = [p \in Processes |-> {}]
  /\ raced = FALSE /\ killed = {}

Next == \E p \in Processes : Step(p)

Spec == Init /\ [][Next]_vars

-----------------------------------------------------------------------------
(* Properties                                                              *)

\* Whoever has the port open has the lock file too, so that only one has: nobody takes
\* away or writes over the lock of another, unless two of them have met in createLock()
\* (the race that its comment concedes) or it could not be written.
OpenerHasLock == ~raced => \A p \in Processes : port[p].open => lock = p

\* A lock or a temporary file that is to be deleted is left behind only by a process
\* that was killed: on every other way out of the port, the file and the program
\* somebody takes it away.
LeftOnlyIfKilled ==
  /\ lock # NoProcess => lock \in killed \/ "lock" \in handlers[lock]
  /\ \A p \in Processes : <<p, "deleted">> \in temps => p \in killed \/ temp[p] = "deleted"
=============================================================================

---------------------------- MODULE HelpersProofs ----------------------------
(***************************************************************************)
(* Theorems about what runs beside the programs' core: SerialLock for any  *)
(* set of processes, DriverAssistant for any set of usbprog-gui instances  *)
(* and any number of directories, Logs for any number of files, Digest for *)
(* blocks, words, files and pieces of any size, Dates for any times, texts *)
(* and additions and any rule of summer time.                              *)
(***************************************************************************)
EXTENDS SerialLock, DriverAssistant, Logs, Digest, Dates, SequenceTheorems,
        WellFoundedInduction, TLAPS

-----------------------------------------------------------------------------
(* SerialLock: the inductive invariant                                     *)

\* Between createLock() and the end of openPort(), or with the port open.
Holds(p) == pc[p] = "locked" \/ port[p].open

\* The exit handlers are registered for as long as there is something to delete.
HandlersKnow == \A p \in Processes :
  /\ pc[p] \in {"checked", "locked"} => port[p].lockfile
  /\ "lock" \in handlers[p] <=> Holds(p)
  /\ temp[p] = "deleted" => "temp" \in handlers[p]

\* OpenerHasLock, from createLock() on.
HolderHasLock == ~raced => \A p \in Processes : Holds(p) => lock = p

IInv == TypeOK /\ HandlersKnow /\ HolderHasLock /\ LeftOnlyIfKilled

-----------------------------------------------------------------------------
(* It is kept by every step                                                *)

\* The name of the lock file is all that createLock() changes at first.
LEMMA Named ==
  ASSUME NEW ports \in [Processes -> [lockfile : BOOLEAN, open : BOOLEAN]],
         NEW p \in Processes, NEW q \in Processes
  PROVE  LET named == [ports EXCEPT ![p].lockfile = TRUE] IN
         /\ named \in [Processes -> [lockfile : BOOLEAN, open : BOOLEAN]]
         /\ named[q].open = ports[q].open
         /\ named[q].lockfile = (q = p \/ ports[q].lockfile)
<1>1. ports[p] \in [lockfile : BOOLEAN, open : BOOLEAN]
  OBVIOUS
<1> DEFINE r == [ports[p] EXCEPT !.lockfile = TRUE]
<1>2. r \in [lockfile : BOOLEAN, open : BOOLEAN] /\ r.open = ports[p].open /\ r.lockfile
  BY <1>1
<1>3. [ports EXCEPT ![p].lockfile = TRUE] = [ports EXCEPT ![p] = r]
  OBVIOUS
<1> HIDE DEF r
<1> QED
  BY <1>2, <1>3

\* The serial port's steps.
LEMMA PortStep ==
  ASSUME IInv, NEW p \in Processes,
         \/ OpenPortLocked(p) \/ CreateLockCheck(p) \/ CreateLock(p)
         \/ OpenPort(p) \/ OpenPortFails(p) \/ ClosePort(p)
  PROVE  IInv'
<1> USE SerialLockAssumption DEF IInv
<1>1. CASE OpenPortLocked(p)
  <2>0. /\ port' \in [Processes -> [lockfile : BOOLEAN, open : BOOLEAN]]
        /\ \A q \in Processes : port'[q].open = port[q].open
        /\ \A q \in Processes : port'[q].lockfile = (q = p \/ port[q].lockfile)
    <3>1. /\ port \in [Processes -> [lockfile : BOOLEAN, open : BOOLEAN]]
          /\ port' = [port EXCEPT ![p].lockfile = TRUE]
      BY <1>1 DEF OpenPortLocked, TypeOK
    <3> HIDE DEF IInv
    <3> QED
      BY <3>1, Named
  <2>1. TypeOK'
    BY <1>1, <2>0 DEF TypeOK, OpenPortLocked
  <2>2. HandlersKnow' /\ HolderHasLock' /\ LeftOnlyIfKilled'
    BY <1>1 DEF TypeOK, OpenPortLocked, HandlersKnow, HolderHasLock, LeftOnlyIfKilled, Holds
  <2> QED
    BY <2>1, <2>2
<1>2. CASE CreateLockCheck(p)
  <2>0. /\ port' \in [Processes -> [lockfile : BOOLEAN, open : BOOLEAN]]
        /\ \A q \in Processes : port'[q].open = port[q].open
        /\ \A q \in Processes : port'[q].lockfile = (q = p \/ port[q].lockfile)
    <3>1. /\ port \in [Processes -> [lockfile : BOOLEAN, open : BOOLEAN]]
          /\ port' = [port EXCEPT ![p].lockfile = TRUE]
      BY <1>2 DEF CreateLockCheck, TypeOK
    <3> HIDE DEF IInv
    <3> QED
      BY <3>1, Named
  <2>1. TypeOK'
    BY <1>2, <2>0 DEF TypeOK, CreateLockCheck, Pc
  <2>2. HandlersKnow' /\ HolderHasLock' /\ LeftOnlyIfKilled'
    BY <1>2 DEF TypeOK, CreateLockCheck, HandlersKnow, HolderHasLock, LeftOnlyIfKilled, Holds
  <2> QED
    BY <2>1, <2>2
<1>3. CASE CreateLock(p)
  <2>1. TypeOK'
    BY <1>3 DEF TypeOK, CreateLock, Pc
  <2>2. HandlersKnow'
    BY <1>3 DEF TypeOK, CreateLock, HandlersKnow, Holds
  <2>3. HolderHasLock'
    BY <1>3 DEF TypeOK, CreateLock, HolderHasLock, Holds
  <2>4. LeftOnlyIfKilled'
    BY <1>3 DEF TypeOK, CreateLock, LeftOnlyIfKilled
  <2> QED
    BY <2>1, <2>2, <2>3, <2>4
<1>4. CASE OpenPort(p)
  <2>1. HandlersKnow'
    BY <1>4 DEF TypeOK, OpenPort, HandlersKnow, Holds
  <2>2. TypeOK'
    <3> DEFINE r == [port[p] EXCEPT !.open = TRUE]
    <3>1. /\ port[p] \in [lockfile : BOOLEAN, open : BOOLEAN]
          /\ port[p].lockfile /\ "lock" \in handlers[p]
      BY <1>4 DEF TypeOK, OpenPort, HandlersKnow, Holds
    <3>2. r \in [lockfile : BOOLEAN, open : BOOLEAN] /\ r.lockfile
      BY <3>1
    <3>3. port' = [port EXCEPT ![p] = r]
      BY <1>4 DEF OpenPort
    <3> HIDE DEF r
    <3>4. /\ port' \in [Processes -> [lockfile : BOOLEAN, open : BOOLEAN]]
          /\ pc' \in [Processes -> Pc]
      <4>1. port' \in [Processes -> [lockfile : BOOLEAN, open : BOOLEAN]]
        BY <3>2, <3>3 DEF TypeOK
      <4>2. pc' \in [Processes -> Pc]
        BY <1>4 DEF TypeOK, OpenPort, Pc
      <4> QED
        BY <4>1, <4>2
    <3>5. \A q \in Processes : port'[q].open => port'[q].lockfile /\ "lock" \in handlers'[q]
      BY <1>4, <3>1, <3>2, <3>3 DEF TypeOK, OpenPort
    <3> QED
      BY <1>4, <3>4, <3>5 DEF TypeOK, OpenPort
  <2>3. HolderHasLock' /\ LeftOnlyIfKilled'
    BY <1>4 DEF TypeOK, OpenPort, HolderHasLock, LeftOnlyIfKilled, Holds
  <2> QED
    BY <2>1, <2>2, <2>3
<1>5. CASE OpenPortFails(p)
  <2>1. TypeOK'
    BY <1>5 DEF TypeOK, OpenPortFails, RemoveLock, NewPort, Pc
  <2>2. HandlersKnow'
    BY <1>5 DEF TypeOK, OpenPortFails, RemoveLock, NewPort, HandlersKnow, Holds
  <2>3. HolderHasLock' /\ LeftOnlyIfKilled'
    BY <1>5 DEF TypeOK, OpenPortFails, RemoveLock, NewPort, HolderHasLock,
                LeftOnlyIfKilled, Holds
  <2> QED
    BY <2>1, <2>2, <2>3
<1>6. CASE ClosePort(p)
  <2>1. TypeOK'
    BY <1>6 DEF TypeOK, ClosePort, RemoveLock, NewPort
  <2>2. HandlersKnow'
    BY <1>6 DEF TypeOK, ClosePort, RemoveLock, NewPort, HandlersKnow, Holds
  <2>3. HolderHasLock' /\ LeftOnlyIfKilled'
    BY <1>6 DEF TypeOK, ClosePort, RemoveLock, NewPort, HolderHasLock,
                LeftOnlyIfKilled, Holds
  <2> QED
    BY <2>1, <2>2, <2>3
<1> QED
  BY <1>1, <1>2, <1>3, <1>4, <1>5, <1>6

\* The temporary file's.
LEMMA TempStep ==
  ASSUME IInv, NEW p \in Processes,
         CloseTemp(p) \/ \E flags \in {"kept", "deleted"} : CreateTemp(p, flags)
  PROVE  IInv'
<1> USE DEF IInv
<1>1. ASSUME NEW flags \in {"kept", "deleted"}, CreateTemp(p, flags)
      PROVE  IInv'
  <2>1. TypeOK'
    BY <1>1 DEF TypeOK, CreateTemp, Temp
  <2>2. HandlersKnow' /\ HolderHasLock'
    BY <1>1 DEF TypeOK, CreateTemp, HandlersKnow, HolderHasLock, Holds
  <2>3. LeftOnlyIfKilled'
    BY <1>1 DEF TypeOK, CreateTemp, LeftOnlyIfKilled
  <2> QED
    BY <2>1, <2>2, <2>3
<1>2. CASE CloseTemp(p)
  <2>1. TypeOK'
    BY <1>2 DEF TypeOK, CloseTemp, Temp
  <2>2. HandlersKnow' /\ HolderHasLock'
    BY <1>2 DEF TypeOK, CloseTemp, HandlersKnow, HolderHasLock, Holds
  <2>3. LeftOnlyIfKilled'
    BY <1>2 DEF TypeOK, CloseTemp, LeftOnlyIfKilled
  <2> QED
    BY <2>1, <2>2, <2>3
<1> QED
  BY <1>1, <1>2

\* And those of the processes.
LEMMA ProcessStep ==
  ASSUME IInv, NEW p \in Processes, Exit(p) \/ Kill(p) \/ Start(p)
  PROVE  IInv'
<1> USE SerialLockAssumption DEF IInv
<1>1. CASE Exit(p)
  <2>1. TypeOK'
    BY <1>1 DEF TypeOK, Exit, Ends, NewPort, Temp, Pc
  <2>2. HandlersKnow'
    BY <1>1 DEF TypeOK, Exit, Ends, NewPort, HandlersKnow, Holds
  <2>3. HolderHasLock'
    BY <1>1 DEF TypeOK, Exit, Ends, NewPort, HandlersKnow, HolderHasLock, Holds
  <2>4. LeftOnlyIfKilled'
    BY <1>1 DEF TypeOK, Exit, Ends, HandlersKnow, LeftOnlyIfKilled
  <2> QED
    BY <2>1, <2>2, <2>3, <2>4
<1>2. CASE Kill(p)
  <2>1. TypeOK'
    BY <1>2 DEF TypeOK, Kill, Ends, NewPort, Temp, Pc
  <2>2. HandlersKnow' /\ HolderHasLock'
    BY <1>2 DEF TypeOK, Kill, Ends, NewPort, HandlersKnow, HolderHasLock, Holds
  <2>3. LeftOnlyIfKilled'
    BY <1>2 DEF TypeOK, Kill, Ends, LeftOnlyIfKilled
  <2> QED
    BY <2>1, <2>2, <2>3
<1>3. CASE Start(p)
  <2>1. TypeOK'
    BY <1>3 DEF TypeOK, Start, Pc
  <2>2. HandlersKnow' /\ HolderHasLock' /\ LeftOnlyIfKilled'
    BY <1>3 DEF TypeOK, Start, HandlersKnow, HolderHasLock, LeftOnlyIfKilled, Holds
  <2> QED
    BY <2>1, <2>2
<1> QED
  BY <1>1, <1>2, <1>3

\* IInv is an invariant.
LEMMA Inductive ==
  Spec => []IInv
<1>1. Init => IInv
  <2> SUFFICES ASSUME Init PROVE IInv
    OBVIOUS
  <2>1. TypeOK
    BY DEF Init, TypeOK, NewPort, Temp, Pc
  <2>2. HandlersKnow /\ HolderHasLock
    BY DEF Init, HandlersKnow, HolderHasLock, Holds, NewPort
  <2>3. LeftOnlyIfKilled
    BY DEF Init, LeftOnlyIfKilled
  <2> QED
    BY <2>1, <2>2, <2>3 DEF IInv
<1>2. IInv /\ [Next]_vars => IInv'
  <2>1. CASE Next
    BY <2>1, PortStep, TempStep, ProcessStep DEF Next, Step
  <2>2. CASE UNCHANGED vars
    BY <2>2 DEF vars, IInv, TypeOK, HandlersKnow, HolderHasLock, LeftOnlyIfKilled, Holds
  <2> QED
    BY <2>1, <2>2
<1> QED
  BY <1>1, <1>2, PTL DEF Spec

-----------------------------------------------------------------------------
(* SerialLock: the theorems                                                *)

\* The types, and that an open port always has its exit handler.
THEOREM TypeCorrect ==
  Spec => []TypeOK
BY Inductive, PTL DEF IInv

\* The lock file excludes: as long as no two processes have met in createLock() and it
\* could be written, who has the port open is who has written the lock file, and so is
\* alone with it.
THEOREM MutualExclusion ==
  Spec => [](OpenerHasLock /\ (~raced => \A p, q \in Processes :
                                 port[p].open /\ port[q].open => p = q))
<1>1. HolderHasLock => OpenerHasLock /\ (~raced => \A p, q \in Processes :
                                 port[p].open /\ port[q].open => p = q)
  BY DEF HolderHasLock, Holds, OpenerHasLock
<1> QED
  BY <1>1, Inductive, PTL DEF IInv

\* Nothing is left behind but by a process that was killed.
THEOREM TakenAway ==
  Spec => []LeftOnlyIfKilled
BY Inductive, PTL DEF IInv

-----------------------------------------------------------------------------
(* DriverAssistant: the inductive invariant                                *)

Open(a) == a.page # "closed"

\* What is closed is as new, and nobody can ask for a second download of what is there.
Sound(a) ==
  /\ ~Open(a) => a = Closed
  /\ a.downloadComplete => ~a.startButton
  /\ a.replies + (IF a.slot = "none" THEN 0 ELSE 1)
       + (IF a.startButton \/ a.downloadComplete THEN 1 ELSE 0) = 1

\* The files are written one after the other.
Written(a, contents) ==
  /\ a.slot \in {"ini", "cfg"} \/ a.downloadComplete => contents["zadig.exe"] = "whole"
  /\ a.slot = "cfg" \/ a.downloadComplete => contents["zadig.ini"] # "none"
  /\ a.downloadComplete => contents["usbprog.cfg"] # "none"

\* Who is alone has a directory, which no other assistant has.
Alone(p) ==
  /\ assistant[p].dir \in dirs
  /\ \A q \in Programs \ {p} : Open(assistant[q]) => assistant[q].dir # assistant[p].dir

Typed ==
  /\ dirs \subseteq Dirs /\ left \subseteq dirs
  /\ files \in [{Current} \cup Dirs -> [FileNames -> Contents]]
  /\ assistant \in [Programs -> Assistant]
  /\ \A p \in Programs : names[p] \in 0 .. MaxNames[p]
  /\ cwd \in [Programs -> {Current} \cup Dirs]
  /\ zadigs \subseteq Programs \X Dirs

AssistantInv ==
  /\ Typed
  /\ \A p \in Programs : Sound(assistant[p])
  /\ \A p \in Programs : Open(assistant[p]) /\ assistant[p].alone =>
       Alone(p) /\ Written(assistant[p], files[assistant[p].dir])
  /\ TempdirRemoved

-----------------------------------------------------------------------------
(* It is kept by every step                                                *)

\* The working directory is none that was made.
LEMMA CurrentNotDirs == Current \notin Dirs
  BY DEF Dirs, Current

\* An assistant that is closed.
LEMMA NewAssistant == Closed \in Assistant /\ Sound(Closed) /\ ~Open(Closed) /\ Closed.dir = Current
  BY DEF Closed, Fresh, Assistant, Current, Sound, Open

\* A step of an open assistant, which may change the files of its own directory.
LEMMA Goes ==
  ASSUME AssistantInv, NEW p \in Programs, NEW a \in Assistant,
         Open(assistant[p]), Open(a), Sound(a),
         a.dir = assistant[p].dir, a.alone = assistant[p].alone,
         Becomes(p, a),
         files' \in [{Current} \cup Dirs -> [FileNames -> Contents]],
         \A d \in Dirs : d # a.dir => files'[d] = files[d],
         a.alone => Written(a, files'[a.dir]),
         cwd' \in [Programs -> {Current} \cup Dirs],
         zadigs' \subseteq Programs \X Dirs,
         UNCHANGED <<dirs, names, left>>
  PROVE  AssistantInv'
<1>1. /\ assistant'[p] = a
      /\ \A q \in Programs \ {p} : assistant'[q] = assistant[q]
  BY DEF Becomes, AssistantInv, Typed
<1>2. Typed'
  BY DEF Becomes, AssistantInv, Typed
<1>3. \A q \in Programs : Sound(assistant'[q])
  BY <1>1 DEF AssistantInv
<1>4. \A q \in Programs : /\ Open(assistant'[q]) <=> Open(assistant[q])
                          /\ assistant'[q].dir = assistant[q].dir
                          /\ assistant'[q].alone = assistant[q].alone
  BY <1>1
<1>5. ASSUME NEW q \in Programs, Open(assistant'[q]), assistant'[q].alone
      PROVE  Alone(q)' /\ Written(assistant'[q], files'[assistant'[q].dir])
  <2>1. Alone(q) /\ Written(assistant[q], files[assistant[q].dir])
    BY <1>4, <1>5 DEF AssistantInv
  <2>2. Alone(q)'
    BY <1>4, <2>1 DEF Alone
  <2>3. CASE q = p
    BY <1>1, <1>5, <2>2, <2>3
  <2>4. CASE q # p
    <3>1. assistant[q].dir # a.dir /\ assistant[q].dir \in Dirs
      BY <2>1, <2>4 DEF Alone, AssistantInv, Typed
    <3> QED
      BY <1>1, <2>1, <2>2, <2>4, <3>1
  <2> QED
    BY <2>3, <2>4
<1>6. TempdirRemoved'
  <2>1. \A d \in dirs : Users(d)' = Users(d)
    BY <1>4 DEF Users, IsOpen, Open
  <2> QED
    BY <2>1 DEF TempdirRemoved, AssistantInv
<1> QED
  BY <1>2, <1>3, <1>5, <1>6 DEF AssistantInv

\* An assistant closes, and its directory is removed or left.
LEMMA Closes ==
  ASSUME AssistantInv, NEW p \in Programs, NEW d,
         d = assistant[p].dir,
         Becomes(p, Closed),
         files' \in [{Current} \cup Dirs -> [FileNames -> Contents]],
         \A e \in Dirs : e # d => files'[e] = files[e],
         dirs' \subseteq dirs, dirs \ {d} \subseteq dirs',
         left' \subseteq dirs', left \ {d} \subseteq left',
         d \in dirs' => d \in left',
         \A q \in Programs : names'[q] \in 0 .. MaxNames[q],
         cwd' \in [Programs -> {Current} \cup Dirs],
         zadigs' = zadigs
  PROVE  AssistantInv'
<1>1. /\ assistant'[p] = Closed
      /\ \A q \in Programs \ {p} : assistant'[q] = assistant[q]
  BY DEF Becomes, AssistantInv, Typed
<1>2. Typed'
  BY NewAssistant DEF Becomes, AssistantInv, Typed
<1>3. \A q \in Programs : Sound(assistant'[q])
  BY <1>1, NewAssistant DEF AssistantInv
<1>4. ~Open(assistant[p]) => d = Current
  BY NewAssistant DEF AssistantInv, Sound
<1>5. ASSUME NEW q \in Programs, Open(assistant'[q]), assistant'[q].alone
      PROVE  Alone(q)' /\ Written(assistant'[q], files'[assistant'[q].dir])
  <2>1. q # p /\ assistant'[q] = assistant[q]
    BY <1>1, <1>5, NewAssistant
  <2>2. Alone(q) /\ Written(assistant[q], files[assistant[q].dir])
    BY <1>5, <2>1 DEF AssistantInv
  <2>3. assistant[q].dir # d /\ assistant[q].dir \in Dirs
    BY <1>4, <2>1, <2>2, CurrentNotDirs DEF Alone, AssistantInv, Typed
  <2>4. Alone(q)'
    BY <1>1, <2>1, <2>2, <2>3, NewAssistant DEF Alone
  <2> QED
    BY <2>1, <2>2, <2>3, <2>4
<1>6. TempdirRemoved'
  <2>1. ASSUME NEW e \in dirs', e # d PROVE Users(e)' = Users(e)
    BY <1>1, <2>1, NewAssistant DEF Users, IsOpen, Open
  <2>2. \A e \in dirs' : e # d /\ e \in left => e \in left'
    OBVIOUS
  <2> QED
    BY <2>1, <2>2 DEF TempdirRemoved, AssistantInv
<1> QED
  BY <1>2, <1>3, <1>5, <1>6 DEF AssistantInv

\* The user's steps that leave the files alone.
LEMMA PageStep ==
  ASSUME AssistantInv, NEW p \in Programs,
         NextPage(p) \/ PreviousPage(p) \/ StartDownload(p) \/ StartTool(p) \/ StartToolFails(p)
  PROVE  AssistantInv'
<1> DEFINE b == assistant[p]
<1>1. b \in Assistant /\ Sound(b)
  BY DEF AssistantInv, Typed
<1>2. Open(b) /\ b.slot = "none"
  BY DEF NextPage, PreviousPage, StartDownload, StartTool, StartToolFails, At, Open
<1>3. b.alone => Written(b, files[b.dir])
  BY <1>2 DEF AssistantInv
<1>4. ASSUME NEW page \in {"intro", "download", "run"}, TurnTo(p, page)
      PROVE  AssistantInv'
  <2> DEFINE a == [b EXCEPT !.page = page]
  <2>1. a \in Assistant
    BY <1>1 DEF Assistant
  <2>2. /\ a.page = page /\ a.dir = b.dir /\ a.alone = b.alone /\ a.slot = b.slot
        /\ a.replies = b.replies /\ a.startButton = b.startButton
        /\ a.downloadComplete = b.downloadComplete
    BY <1>1 DEF Assistant
  <2>3. Open(a) /\ Sound(a)
    BY <1>1, <1>2, <2>2 DEF Open, Sound
  <2>4. b.alone => Written(a, files[b.dir])
    BY <1>3, <2>2 DEF Written
  <2>5. Becomes(p, a) /\ UNCHANGED <<dirs, files, names, cwd, zadigs, left>>
    BY <1>4 DEF TurnTo
  <2> HIDE DEF a
  <2> QED
    BY <1>2, <2>1, <2>2, <2>3, <2>4, <2>5, Goes DEF AssistantInv, Typed
<1>5. CASE NextPage(p) \/ PreviousPage(p)
  BY <1>4, <1>5 DEF NextPage, PreviousPage
<1>6. CASE StartDownload(p)
  <2> DEFINE a == [b EXCEPT !.replies = b.replies + 1, !.startButton = FALSE]
  <2>0. b.replies + 1 \in Nat
    BY <1>1 DEF Assistant
  <2>1. a \in Assistant
    BY <1>1, <2>0 DEF Assistant
  <2>2. /\ a.page = b.page /\ a.dir = b.dir /\ a.alone = b.alone /\ a.slot = b.slot
        /\ a.replies = b.replies + 1 /\ ~a.startButton
        /\ a.downloadComplete = b.downloadComplete
    BY <1>1 DEF Assistant
  <2>3. Open(a) /\ Sound(a)
    <3>1. b.startButton /\ ~b.downloadComplete
      BY <1>1, <1>6 DEF StartDownload, Sound
    <3> QED
      BY <1>1, <1>2, <2>2, <3>1 DEF Open, Sound, Assistant
  <2>4. b.alone => Written(a, files[b.dir])
    BY <1>3, <2>2 DEF Written
  <2>5. Becomes(p, a) /\ UNCHANGED <<dirs, files, names, cwd, zadigs, left>>
    BY <1>6 DEF StartDownload
  <2> HIDE DEF a
  <2> QED
    BY <1>2, <2>1, <2>2, <2>3, <2>4, <2>5, Goes DEF AssistantInv, Typed
<1>7. CASE StartTool(p) \/ StartToolFails(p)
  <2>1. PICK started \in BOOLEAN : Becomes(p, [b EXCEPT !.toolStarted = started])
    BY <1>7 DEF StartTool, StartToolFails
  <2>2. /\ cwd' \in [Programs -> {Current} \cup Dirs]
        /\ zadigs' \subseteq Programs \X Dirs
        /\ UNCHANGED <<dirs, files, names, left>>
    <3>1. CASE StartTool(p)
      <4>1. b.dir \in Dirs /\ zadigs' = zadigs \cup {<<p, b.dir>>}
        BY <3>1 DEF StartTool, AssistantInv, Typed
      <4>2. cwd' \in [Programs -> {Current} \cup Dirs]
        BY <3>1, <4>1 DEF StartTool, AssistantInv, Typed
      <4> QED
        BY <3>1, <4>1, <4>2 DEF StartTool, AssistantInv, Typed
    <3>2. CASE StartToolFails(p)
      BY <3>2 DEF StartToolFails, AssistantInv, Typed
    <3> QED
      BY <1>7, <3>1, <3>2
  <2> DEFINE a == [b EXCEPT !.toolStarted = started]
  <2>3. a \in Assistant
    BY <1>1 DEF Assistant
  <2>4. /\ a.page = b.page /\ a.dir = b.dir /\ a.alone = b.alone /\ a.slot = b.slot
        /\ a.replies = b.replies /\ a.startButton = b.startButton
        /\ a.downloadComplete = b.downloadComplete
    BY <1>1 DEF Assistant
  <2>5. Open(a) /\ Sound(a)
    BY <1>1, <1>2, <2>4 DEF Open, Sound
  <2>6. b.alone => Written(a, files[b.dir])
    BY <1>3, <2>4 DEF Written
  <2> HIDE DEF a
  <2> QED
    BY <1>2, <2>1, <2>2, <2>3, <2>4, <2>5, <2>6, Goes DEF AssistantInv, Typed, a
<1> QED
  BY <1>5, <1>6, <1>7

\* The steps of a reply, of which only the first ones meet the files of somebody else.
LEMMA ReplyKeeps ==
  ASSUME AssistantInv, NEW p \in Programs, ReplyStep(p)
  PROVE  AssistantInv'
<1> DEFINE b == assistant[p]
<1>1. b \in Assistant /\ Sound(b)
  BY DEF AssistantInv, Typed
<1>2. Open(b)
  BY <1>1, NewAssistant DEF ReplyStep, DownloadFails, OpenExe, WriteExe, WriteIni, WriteCfg, SlotFails,
     Arriving, InSlot, IsOpen, Open, Sound, Closed, Fresh
<1>3. b.alone => Written(b, files[b.dir])
  BY <1>2 DEF AssistantInv
<1>4. /\ UNCHANGED <<dirs, names, cwd, zadigs, left>>
      /\ files \in [{Current} \cup Dirs -> [FileNames -> Contents]]
      /\ cwd \in [Programs -> {Current} \cup Dirs] /\ zadigs \subseteq Programs \X Dirs
      /\ b.dir \in {Current} \cup Dirs
  BY <1>1 DEF ReplyStep, DownloadFails, OpenExe, WriteExe, WriteIni, WriteCfg, SlotFails,
     AssistantInv, Typed, Assistant
<1>5. ~b.downloadComplete
  BY <1>1 DEF ReplyStep, DownloadFails, OpenExe, WriteExe, WriteIni, WriteCfg, SlotFails,
     Arriving, InSlot, Sound, Assistant
<1>6. ASSUME NEW f \in FileNames, NEW content \in Contents, Write(p, f, content)
      PROVE  /\ files' \in [{Current} \cup Dirs -> [FileNames -> Contents]]
             /\ \A d \in Dirs : d # b.dir => files'[d] = files[d]
             /\ files'[b.dir][f] = content
             /\ \A g \in FileNames \ {f} : files'[b.dir][g] = files[b.dir][g]
  BY <1>4, <1>6 DEF Write
<1>7. ASSUME NEW n \in {b.replies, b.replies - 1}, DownloadError(p, n),
             n = (IF b.slot = "none" THEN b.replies - 1 ELSE b.replies), n \in Nat,
             UNCHANGED files
      PROVE  AssistantInv'
  <2> DEFINE a == [b EXCEPT !.replies = n, !.slot = "none", !.startButton = TRUE]
  <2>1. a \in Assistant
    BY <1>1, <1>7 DEF Assistant
  <2>2. /\ a.page = b.page /\ a.dir = b.dir /\ a.alone = b.alone /\ a.slot = "none"
        /\ a.replies = n /\ a.startButton /\ a.downloadComplete = b.downloadComplete
    BY <1>1 DEF Assistant
  <2>3. Open(a) /\ Sound(a)
    BY <1>1, <1>2, <1>5, <1>7, <2>2 DEF Open, Sound, Assistant
  <2>4. b.alone => Written(a, files[b.dir])
    BY <1>5, <2>2 DEF Written
  <2>5. Becomes(p, a)
    BY <1>7 DEF DownloadError
  <2> HIDE DEF a
  <2> QED
    BY <1>2, <1>4, <1>7, <2>1, <2>2, <2>3, <2>4, <2>5, Goes
<1>8. CASE DownloadFails(p)
  <2>1. b.slot = "none" /\ b.replies - 1 \in Nat
    BY <1>1, <1>8 DEF DownloadFails, Arriving, Assistant
  <2> QED
    BY <1>7, <1>8, <2>1 DEF DownloadFails
<1>9. CASE SlotFails(p)
  <2>1. b.slot # "none" /\ b.replies \in Nat
    BY <1>1, <1>9 DEF SlotFails, Assistant
  <2> QED
    BY <1>7, <1>9, <2>1 DEF SlotFails
<1>10. CASE OpenExe(p)
  <2> DEFINE a == [b EXCEPT !.replies = b.replies - 1, !.slot = "exe"]
  <2>0. b.slot = "none" /\ b.replies > 0 /\ b.replies \in Nat /\ b.replies - 1 \in Nat
    BY <1>1, <1>10 DEF OpenExe, Arriving, Assistant
  <2>1. a \in Assistant
    BY <1>1, <2>0 DEF Assistant
  <2>2. /\ a.page = b.page /\ a.dir = b.dir /\ a.alone = b.alone /\ a.slot = "exe"
        /\ a.replies = b.replies - 1 /\ a.startButton = b.startButton
        /\ a.downloadComplete = b.downloadComplete
    BY <1>1 DEF Assistant
  <2>3. Open(a) /\ Sound(a)
    BY <1>1, <1>2, <1>5, <2>0, <2>2 DEF Open, Sound
  <2>4. b.alone => Written(a, files'[b.dir])
    BY <1>5, <2>2 DEF Written
  <2>5. Becomes(p, a) /\ Write(p, "zadig.exe", "part")
    BY <1>10 DEF OpenExe
  <2> HIDE DEF a
  <2> QED
    BY <1>2, <1>4, <1>6, <2>1, <2>2, <2>3, <2>4, <2>5, Goes DEF FileNames, Contents
<1>11. ASSUME NEW slot \in {"none", "ini", "cfg"}, NEW complete \in BOOLEAN, b.slot # "none",
              Becomes(p, [b EXCEPT !.slot = slot, !.downloadComplete = complete]),
              complete <=> slot = "none",
              NEW f \in FileNames, NEW content \in Contents, Write(p, f, content),
              \/ slot = "ini" /\ f = "zadig.exe" /\ content = "whole"
              \/ slot = "cfg" /\ b.slot = "ini" /\ f = "zadig.ini" /\ content = "written"
              \/ slot = "none" /\ b.slot = "cfg" /\ f = "usbprog.cfg" /\ content = "written"
       PROVE  AssistantInv'
  <2> DEFINE a == [b EXCEPT !.slot = slot, !.downloadComplete = complete]
  <2>1. a \in Assistant
    BY <1>1 DEF Assistant
  <2>2. /\ a.page = b.page /\ a.dir = b.dir /\ a.alone = b.alone /\ a.slot = slot
        /\ a.replies = b.replies /\ a.startButton = b.startButton
        /\ a.downloadComplete = complete
    BY <1>1 DEF Assistant
  <2>3. b.replies = 0 /\ ~b.startButton
    BY <1>1, <1>11 DEF Sound, Assistant
  <2>4. Open(a) /\ Sound(a)
    BY <1>2, <1>11, <2>2, <2>3 DEF Open, Sound
  <2>5. b.alone => Written(a, files'[b.dir])
    BY <1>3, <1>6, <1>11, <2>2 DEF Written, FileNames
  <2> HIDE DEF a
  <2> QED
    BY <1>2, <1>4, <1>6, <1>11, <2>1, <2>2, <2>4, <2>5, Goes DEF a
<1>12. CASE WriteExe(p)
  <2>1. [b EXCEPT !.slot = "ini"] = [b EXCEPT !.slot = "ini", !.downloadComplete = FALSE]
    BY <1>1, <1>5 DEF Assistant
  <2> QED
    BY <1>11, <1>12, <2>1 DEF WriteExe, InSlot, FileNames, Contents
<1>13. CASE WriteIni(p)
  <2>1. [b EXCEPT !.slot = "cfg"] = [b EXCEPT !.slot = "cfg", !.downloadComplete = FALSE]
    BY <1>1, <1>5 DEF Assistant
  <2> QED
    BY <1>11, <1>13, <2>1 DEF WriteIni, InSlot, FileNames, Contents
<1>14. CASE WriteCfg(p)
  BY <1>11, <1>14 DEF WriteCfg, InSlot, FileNames, Contents
<1> QED
  BY <1>8, <1>9, <1>10, <1>12, <1>13, <1>14 DEF ReplyStep

\* The ways in which an assistant or a program ends.
LEMMA CloseStep ==
  ASSUME AssistantInv, NEW p \in Programs, Finish(p) \/ Cancel(p) \/ Quit(p) \/ KillProgram(p)
  PROVE  AssistantInv'
<1> DEFINE d == assistant[p].dir
<1>0. /\ Typed /\ d \in {Current} \cup Dirs
      /\ \A q \in Programs : 0 \in 0 .. MaxNames[q]
  BY DriverAssistantAssumption DEF AssistantInv, Typed, Assistant
<1>1. CASE Finish(p) \/ Cancel(p)
  <2>1. Becomes(p, Closed) /\ Remove(d) /\ UNCHANGED <<names, cwd, zadigs>>
    BY <1>1 DEF Finish, Cancel
  <2>2. /\ files' \in [{Current} \cup Dirs -> [FileNames -> Contents]]
        /\ \A e \in Dirs : e # d => files'[e] = files[e]
    <3>1. /\ NoFiles \in [FileNames -> Contents]
          /\ [files[d] EXCEPT !["usbprog.cfg"] = "none"] \in [FileNames -> Contents]
      BY <1>0 DEF NoFiles, Contents, Typed
    <3>2. UNCHANGED files \/ \E g \in [FileNames -> Contents] : files' = [files EXCEPT ![d] = g]
      BY <2>1, <3>1 DEF Remove
    <3> QED
      BY <1>0, <3>2 DEF Typed
  <2>3. /\ dirs' \subseteq dirs /\ dirs \ {d} \subseteq dirs'
        /\ left' \subseteq dirs' /\ left \ {d} \subseteq left'
        /\ d \in dirs' => d \in left'
    <3>1. CASE d = Current \/ d \notin dirs
      BY <1>0, <2>1, <3>1, CurrentNotDirs DEF Remove, Typed
    <3>2. CASE d # Current /\ d \in dirs
      BY <1>0, <2>1, <3>2 DEF Remove, Typed
    <3> QED
      BY <3>1, <3>2
  <2> QED
    BY <1>0, <2>1, <2>2, <2>3, Closes DEF Typed
<1>2. CASE Quit(p)
  <2>1. d \notin dirs
    BY <1>0, <1>2, NewAssistant, CurrentNotDirs DEF Quit, At, AssistantInv, Sound, Open, Typed
  <2>2. /\ \A q \in Programs : names'[q] \in 0 .. MaxNames[q]
        /\ cwd' \in [Programs -> {Current} \cup Dirs]
    BY <1>0, <1>2 DEF Quit, Restarted, Typed
  <2> QED
    BY <1>0, <1>2, <2>1, <2>2, Closes DEF Quit, Restarted, Typed
<1>3. CASE KillProgram(p)
  <2>1. /\ \A q \in Programs : names'[q] \in 0 .. MaxNames[q]
        /\ cwd' \in [Programs -> {Current} \cup Dirs]
    BY <1>0, <1>3 DEF KillProgram, Restarted, Typed
  <2>2. left' = left \cup ({d} \cap dirs)
    BY <1>3 DEF KillProgram
  <2> QED
    BY <1>0, <1>3, <2>1, <2>2, Closes DEF KillProgram, Restarted, Typed
<1> QED
  BY <1>1, <1>2, <1>3

\* A new assistant, beside which nobody with the same directory is alone.
LEMMA InstallStep ==
  ASSUME AssistantInv, NEW p \in Programs, InstallDriver(p)
  PROVE  AssistantInv'
<1> DEFINE n == names[p] + 1
           fresh(dir, alone) == Fresh("intro", dir, alone)
<1>0. /\ Typed /\ ~Open(assistant[p]) /\ UNCHANGED <<files, cwd, zadigs>>
      /\ names' = [names EXCEPT ![p] = n]
  BY DEF AssistantInv, InstallDriver, CreateTempdir, At, Open
<1>1. n \in Dirs /\ \A q \in Programs : names'[q] \in 0 .. MaxNames[q]
  <2>1. names[p] \in 0 .. MaxNames[p] /\ names[p] < MaxNames[p] /\ MaxNames[p] \in Nat
    BY DriverAssistantAssumption DEF InstallDriver, AssistantInv, Typed
  <2>2. n \in 1 .. MaxNames[p]
    BY <2>1
  <2> QED
    BY <1>0, <2>1, <2>2 DEF Dirs, Typed
<1>2. ASSUME NEW dir \in {Current} \cup Dirs, NEW alone \in BOOLEAN
      PROVE  /\ fresh(dir, alone) \in Assistant
             /\ Sound(fresh(dir, alone)) /\ Open(fresh(dir, alone))
             /\ fresh(dir, alone).dir = dir /\ fresh(dir, alone).alone = alone
             /\ fresh(dir, alone).slot = "none" /\ ~fresh(dir, alone).downloadComplete
  <2>1. fresh(dir, alone) \in Assistant
    BY DEF Fresh, Assistant
  <2> QED
    BY <2>1 DEF Fresh, Sound, Open
<1> HIDE DEF fresh
\* What is needed of the two ways in which create() ends.
<1>3. PICK dir \in {Current} \cup Dirs, alone \in BOOLEAN :
        /\ assistant' \in [Programs -> Assistant] /\ assistant'[p] = fresh(dir, alone)
        /\ \A q \in Programs \ {p} :
             \/ assistant'[q] = assistant[q]
                /\ (dir # Current /\ Open(assistant[q]) => assistant[q].dir # dir)
             \/ /\ Open(assistant[q])
                /\ assistant'[q] = [assistant[q] EXCEPT !.alone = FALSE]
        /\ alone => \A q \in Programs \ {p} : Open(assistant[q]) => assistant[q].dir # dir
        /\ alone => dir \in Dirs
        /\ dirs' = dirs \cup ({dir} \cap Dirs) /\ left' = left \ ({dir} \cap Dirs)
  <2>1. CASE Becomes(p, fresh(Current, FALSE)) /\ UNCHANGED <<dirs, left>>
    <3>1. assistant' = [assistant EXCEPT ![p] = fresh(Current, FALSE)]
      BY <2>1 DEF Becomes
    <3>2. assistant' \in [Programs -> Assistant] /\ assistant'[p] = fresh(Current, FALSE)
      BY <1>0, <1>2, <3>1 DEF Typed
    <3>3. \A q \in Programs \ {p} : assistant'[q] = assistant[q]
      BY <1>0, <3>1 DEF Typed
    <3>4. {Current} \cap Dirs = {}
      BY CurrentNotDirs
    <3> WITNESS Current \in {Current} \cup Dirs, FALSE \in BOOLEAN
    <3> QED
      BY <2>1, <3>2, <3>3, <3>4
  <2>2. CASE /\ dirs' = dirs \cup {n} /\ left' = left \ {n}
             /\ assistant' = [q \in Programs |->
                  IF q = p THEN fresh(n, Users(n) = {})
                  ELSE [assistant[q] EXCEPT !.alone = @ /\ q \notin Users(n)]]
    <3>1. \A q \in Programs : q \in Users(n) <=> Open(assistant[q]) /\ assistant[q].dir = n
      BY DEF Users, IsOpen, Open
    <3>2. ASSUME NEW q \in Programs \ {p}
          PROVE  /\ assistant'[q] \in Assistant
                 /\ q \notin Users(n) => assistant'[q] = assistant[q]
                 /\ q \in Users(n) => assistant'[q] = [assistant[q] EXCEPT !.alone = FALSE]
      <4>1. assistant[q] \in Assistant /\ assistant[q].alone \in BOOLEAN
        BY <1>0 DEF Typed, Assistant
      <4>2. assistant'[q] = [assistant[q] EXCEPT !.alone = @ /\ q \notin Users(n)]
        BY <2>2
      <4>3. CASE q \in Users(n)
        BY <4>1, <4>2, <4>3 DEF Assistant
      <4>4. CASE q \notin Users(n)
        <5>1. assistant'[q] = [assistant[q] EXCEPT !.alone = assistant[q].alone]
          BY <4>1, <4>2, <4>4
        <5> QED
          BY <4>1, <4>4, <5>1 DEF Assistant
      <4> QED
        BY <4>3, <4>4
    <3>3. PICK alone \in BOOLEAN :
            assistant'[p] = fresh(n, alone) /\ (alone <=> Users(n) = {})
      <4>1. assistant'[p] = fresh(n, Users(n) = {})
        BY <2>2
      <4>2. CASE Users(n) = {}
        <5>1. (Users(n) = {}) = TRUE
          BY <4>2
        <5> QED
          BY <4>1, <4>2, <5>1
      <4>3. CASE Users(n) # {}
        <5>1. (Users(n) = {}) = FALSE
          BY <4>3
        <5> QED
          BY <4>1, <4>3, <5>1
      <4> QED
        BY <4>2, <4>3
    <3>4. assistant' \in [Programs -> Assistant]
      <4>1. assistant' = [q \in Programs |-> assistant'[q]]
        BY <2>2
      <4>2. fresh(n, TRUE) \in Assistant /\ fresh(n, FALSE) \in Assistant
        BY <1>1, <1>2
      <4>3. assistant'[p] \in Assistant
        BY <3>3, <4>2
      <4>4. \A q \in Programs : assistant'[q] \in Assistant
        BY <3>2, <4>3
      <4> QED
        BY <4>1, <4>4
    <3>5. \A q \in Programs \ {p} :
             \/ assistant'[q] = assistant[q]
                /\ (n # Current /\ Open(assistant[q]) => assistant[q].dir # n)
             \/ /\ Open(assistant[q])
                /\ assistant'[q] = [assistant[q] EXCEPT !.alone = FALSE]
      BY <3>1, <3>2
    <3>6. Users(n) = {} => \A q \in Programs \ {p} : Open(assistant[q]) => assistant[q].dir # n
      BY <3>1
    <3>7. {n} \cap Dirs = {n}
      BY <1>1
    <3>8. n \in {Current} \cup Dirs
      BY <1>1
    <3> HIDE DEF n
    <3> WITNESS n \in {Current} \cup Dirs, alone \in BOOLEAN
    <3> QED
      BY <1>1, <2>2, <3>3, <3>4, <3>5, <3>6, <3>7
  <2> QED
    BY <2>1, <2>2 DEF InstallDriver, CreateTempdir, fresh
<1>4. ASSUME NEW q \in Programs, q # p
      PROVE  /\ Sound(assistant'[q])
             /\ Open(assistant'[q]) <=> Open(assistant[q])
             /\ assistant'[q].dir = assistant[q].dir
             /\ Open(assistant'[q]) /\ assistant'[q].alone =>
                  assistant'[q] = assistant[q] /\ (dir # Current => assistant[q].dir # dir)
  <2>1. assistant[q] \in Assistant /\ Sound(assistant[q])
    BY DEF AssistantInv, Typed
  <2>2. CASE /\ assistant'[q] = assistant[q]
             /\ dir # Current /\ Open(assistant[q]) => assistant[q].dir # dir
    BY <2>1, <2>2
  <2>3. CASE /\ Open(assistant[q])
             /\ assistant'[q] = [assistant[q] EXCEPT !.alone = FALSE]
    BY <2>1, <2>3 DEF Assistant, Sound, Open
  <2> QED
    BY <1>3, <1>4, <2>2, <2>3
<1>5. Typed'
  BY <1>0, <1>1, <1>3 DEF Typed
<1>6. \A q \in Programs : Sound(assistant'[q])
  BY <1>2, <1>3, <1>4
<1>7. ASSUME NEW q \in Programs, Open(assistant'[q]), assistant'[q].alone
      PROVE  Alone(q)' /\ Written(assistant'[q], files'[assistant'[q].dir])
  <2>1. CASE q = p
    <3>1. alone /\ assistant'[p].dir = dir
      BY <1>2, <1>3, <1>7, <2>1
    <3>2. Alone(p)'
      BY <1>3, <1>4, <3>1 DEF Alone
    <3>3. Written(assistant'[p], files'[dir])
      BY <1>2, <1>3 DEF Written
    <3> QED
      BY <2>1, <3>1, <3>2, <3>3
  <2>2. CASE q # p
    <3>1. assistant'[q] = assistant[q] /\ (dir # Current => assistant[q].dir # dir)
      BY <1>4, <1>7, <2>2
    <3>2. Alone(q) /\ Written(assistant[q], files[assistant[q].dir])
      BY <1>7, <3>1 DEF AssistantInv
    <3>3. assistant[q].dir # dir
      BY <1>0, <3>1, <3>2, CurrentNotDirs DEF Alone, Typed
    <3>4. Alone(q)'
      <4>1. assistant'[q].dir \in dirs'
        BY <1>3, <3>1, <3>2 DEF Alone
      <4>2. \A r \in Programs \ {q} : Open(assistant'[r]) => assistant'[r].dir # assistant'[q].dir
        BY <1>2, <1>3, <1>4, <3>1, <3>2, <3>3 DEF Alone
      <4> QED
        BY <4>1, <4>2 DEF Alone
    <3> QED
      BY <1>0, <3>1, <3>2, <3>4
  <2> QED
    BY <2>1, <2>2
<1>8. TempdirRemoved'
  <2>1. \A q \in Programs : Open(assistant[q]) =>
          Open(assistant'[q]) /\ assistant'[q].dir = assistant[q].dir
    BY <1>0, <1>4
  <2>2. ASSUME NEW e \in dirs, Users(e) # {} PROVE Users(e)' # {}
    BY <2>1, <2>2 DEF Users, IsOpen, Open
  <2>3. dir \in Dirs => Users(dir)' # {}
    BY <1>2, <1>3 DEF Users, IsOpen, Open
  <2> QED
    BY <1>3, <2>2, <2>3 DEF TempdirRemoved, AssistantInv
<1> QED
  BY <1>5, <1>6, <1>7, <1>8 DEF AssistantInv

\* The invariant holds always.
LEMMA AssistantInductive == AssistantSpec => []AssistantInv
<1>1. AssistantInit => AssistantInv
  <2>1. ASSUME AssistantInit PROVE Typed
    BY <2>1, NewAssistant, DriverAssistantAssumption DEF AssistantInit, Typed, NoFiles, Contents
  <2>2. ASSUME AssistantInit PROVE \A p \in Programs : assistant[p] = Closed
    BY <2>2 DEF AssistantInit
  <2> QED
    BY <2>1, <2>2, NewAssistant DEF AssistantInit, AssistantInv, TempdirRemoved
<1>2. AssistantInv /\ [AssistantNext]_assistants => AssistantInv'
  <2>1. ASSUME AssistantInv, NEW p \in Programs,
               UserMayDo(p) \/ ReplyStep(p) \/ Quit(p) \/ KillProgram(p)
        PROVE  AssistantInv'
    BY <2>1, PageStep, ReplyKeeps, CloseStep, InstallStep DEF UserMayDo
  <2>2. ASSUME AssistantInv, NEW z \in zadigs, ZadigEnds(z)
        PROVE  AssistantInv'
    BY <2>2 DEF ZadigEnds, AssistantInv, Typed, Alone, TempdirRemoved, Users, IsOpen
  <2>3. CASE AssistantInv /\ UNCHANGED assistants
    BY <2>3 DEF assistants, AssistantInv, Typed, Alone, TempdirRemoved, Users, IsOpen
  <2> QED
    BY <2>1, <2>2, <2>3 DEF AssistantNext
<1> QED
  BY <1>1, <1>2, PTL DEF AssistantSpec

-----------------------------------------------------------------------------
(* DriverAssistant: the theorems                                           *)

\* The types, and that an open page of the download waits for exactly one of a reply, the
\* user's button and "Next".
THEOREM AssistantTypes ==
  AssistantSpec => []AssistantTypeOK
<1>1. AssistantInv => AssistantTypeOK
  BY DEF AssistantInv, Typed, Sound, AssistantTypeOK
<1> QED
  BY <1>1, AssistantInductive, PTL

\* Once the download has finished, zadig.exe is whole and both files are beside it for as
\* long as the assistant is open, however many programs have one: unless two of them drew
\* the same name for their directory.
THEOREM DownloadStays ==
  AssistantSpec => []FilesKept
<1>1. AssistantInv => FilesKept
  <2> SUFFICES ASSUME AssistantInv, NEW p \in Programs,
                      assistant[p].downloadComplete, assistant[p].alone
               PROVE  LET d == assistant[p].dir
                      IN  /\ d \in dirs /\ files[d]["zadig.exe"] = "whole"
                          /\ \A f \in FileNames : files[d][f] # "none"
    BY DEF FilesKept
  <2>1. Open(assistant[p])
    BY DEF AssistantInv, Sound, Closed, Fresh
  <2> QED
    BY <2>1 DEF AssistantInv, Alone, Written, FileNames
<1> QED
  BY <1>1, AssistantInductive, PTL

\* The destructor's promise: the temporary directory goes with the assistant, or a program
\* was killed, or Windows would not remove it.
THEOREM DirectoryGoes ==
  AssistantSpec => []TempdirRemoved
BY AssistantInductive, PTL DEF AssistantInv

-----------------------------------------------------------------------------
(* Logs: the inductive invariant                                           *)

LogsTypeOK ==
  /\ debug \in [{"core", "bw"} -> [level : Int, handle : Int]]
  /\ logging \in [checked : BOOLEAN, dialog : BOOLEAN, logfile : Nat]
  /\ errorlog \in [method : {"none", "file", "syslog"}, stream : Int, closeInDtor : BOOLEAN]
  /\ syslog \in {"openlog", "closelog"}
  /\ opened \in Nat
  /\ closed \subseteq Int /\ unflushed \subseteq {stdout} /\ logfiles \subseteq Nat \ {NULL}

\* A stream that is still to be opened is nowhere yet.
StreamsOpened ==
  /\ \A s \in closed \cup logfiles : s <= opened
  /\ errorlog.stream <= opened /\ logging.logfile <= opened
  /\ debug["bw"].handle \in {stderr, stdout}

\* Only a checked box asks for a file.
DialogInv == logging.dialog => logging.checked

\* Both properties are inductive with these.
LogsInv == LogsTypeOK /\ StreamsOpened /\ DialogInv /\ DebugLogKept /\ ErrorsReachLog

-----------------------------------------------------------------------------
(* It is kept by every step                                                *)

USE LogsAssumption DEF stderr, stdout, NULL, TRACE, INFO, NONE, Handle

\* Messages and the options --debug.
LEMMA DebugStep ==
  ASSUME LogsInv,
         \/ \E d \in {"core", "bw"}, level \in Levels : Vmsg(d, level)
         \/ \E level \in Levels, stream \in {NULL, stdout} : DirectDebug(level, stream)
  PROVE  LogsInv'
<1> USE DEF LogsInv, LogsTypeOK, StreamsOpened, DialogInv, DebugLogKept, ErrorsReachLog
<1>1. ASSUME NEW d \in {"core", "bw"}, NEW level \in Levels, Vmsg(d, level)
      PROVE  LogsInv'
  <2>1. LogsTypeOK'
    BY <1>1 DEF Vmsg
  <2>2. StreamsOpened' /\ DialogInv'
    BY <1>1 DEF Vmsg
  <2>3. DebugLogKept'
    BY <1>1 DEF Vmsg
  <2>4. ErrorsReachLog'
    BY <1>1 DEF Vmsg
  <2> QED
    BY <2>1, <2>2, <2>3, <2>4
<1>2. ASSUME NEW level \in Levels, NEW stream \in {NULL, stdout}, DirectDebug(level, stream)
      PROVE  LogsInv'
  BY <1>2 DEF DirectDebug, Levels
<1> QED
  BY <1>1, <1>2

\* The box "Log to file" of usbprog-gui and its dialog.
LEMMA LoggingStep ==
  ASSUME LogsInv, LoggingChecked \/ LoggingUnchecked \/ LogfileChosen \/ LogfileFails
  PROVE  LogsInv'
<1> USE DEF LogsInv
<1>1. CASE LoggingChecked
  <2>1. LogsTypeOK'
    BY <1>1 DEF LoggingChecked, LogsTypeOK, StreamsOpened
  <2>2. StreamsOpened' /\ DialogInv'
    BY <1>1 DEF LoggingChecked, LogsTypeOK, StreamsOpened, DialogInv
  <2>3. DebugLogKept'
    BY <1>1 DEF LoggingChecked, LogsTypeOK, StreamsOpened, DialogInv, DebugLogKept, ErrorsReachLog
  <2>4. ErrorsReachLog'
    BY <1>1 DEF LoggingChecked, LogsTypeOK, StreamsOpened, ErrorsReachLog
  <2> QED
    BY <2>1, <2>2, <2>3, <2>4
<1>2. CASE LoggingUnchecked
  <2>0. /\ debug' = [debug EXCEPT !["core"] = [level |-> INFO, handle |-> stderr]]
        /\ logging' = [checked |-> FALSE, dialog |-> FALSE, logfile |-> NULL]
        /\ closed' = closed \cup ({logging.logfile} \ {NULL})
        /\ UNCHANGED <<errorlog, syslog, opened, unflushed, logfiles>>
    BY <1>2 DEF LoggingUnchecked, Disable, DebugLogKept
  <2>1. LogsTypeOK'
    <3>1. debug' \in [{"core", "bw"} -> [level : Int, handle : Int]]
      BY <2>0 DEF LogsTypeOK
    <3>2. logging' \in [checked : BOOLEAN, dialog : BOOLEAN, logfile : Nat]
      BY <2>0
    <3>3. logging.logfile \in Int
      BY DEF LogsTypeOK
    <3>4. closed' \subseteq Int
      BY <2>0, <3>3 DEF LogsTypeOK
    <3> QED
      BY <2>0, <3>4, <3>1, <3>2, <3>3 DEF LogsTypeOK
  <2>2. StreamsOpened' /\ DialogInv'
    BY <2>0 DEF LogsTypeOK, StreamsOpened, DialogInv
  <2>3. DebugLogKept'
    BY <2>0 DEF LogsTypeOK, StreamsOpened, DialogInv, DebugLogKept, ErrorsReachLog
  <2>4. ErrorsReachLog'
    BY <2>0 DEF LogsTypeOK, StreamsOpened, ErrorsReachLog
  <2> QED
    BY <2>1, <2>2, <2>3, <2>4
<1>3. CASE LogfileChosen
  <2>0. logging' = [checked |-> TRUE, dialog |-> FALSE, logfile |-> opened + 1]
    BY <1>3 DEF LogfileChosen, LogsTypeOK, DialogInv
  <2>1. LogsTypeOK'
    <3>1. debug' \in [{"core", "bw"} -> [level : Int, handle : Int]]
      BY <1>3 DEF LogfileChosen, LogsTypeOK
    <3>2. logging' \in [checked : BOOLEAN, dialog : BOOLEAN, logfile : Nat]
      BY <2>0 DEF LogsTypeOK
    <3> QED
      BY <1>3, <3>1, <3>2 DEF LogfileChosen, LogsTypeOK
  <2>2. StreamsOpened' /\ DialogInv'
    BY <1>3, <2>0 DEF LogfileChosen, LogsTypeOK, StreamsOpened, DialogInv
  <2>3. DebugLogKept'
    BY <1>3, <2>0 DEF LogfileChosen, LogsTypeOK, StreamsOpened, DialogInv, DebugLogKept, ErrorsReachLog
  <2>4. ErrorsReachLog'
    BY <1>3, <2>0 DEF LogfileChosen, LogsTypeOK, StreamsOpened, ErrorsReachLog
  <2> QED
    BY <2>1, <2>2, <2>3, <2>4
<1>4. CASE LogfileFails
  BY <1>4 DEF LogfileFails, LogsTypeOK, StreamsOpened, DialogInv, DebugLogKept, ErrorsReachLog
<1> QED
  BY <1>1, <1>2, <1>3, <1>4

\* A new error log, and a message to it.
LEMMA ErrorlogStep ==
  ASSUME LogsInv, Configure \/ LogError
  PROVE  LogsInv'
<1> USE DEF LogsInv, LogsTypeOK, StreamsOpened, DialogInv, DebugLogKept, ErrorsReachLog
<1>1. CASE Configure
  <2>1. PICK m \in {"file", "syslog"}, stream \in Int, c \in BOOLEAN :
          /\ errorlog' = [method |-> m, stream |-> stream, closeInDtor |-> c]
          /\ stream = NULL <=> m = "syslog"
          /\ \/ stream <= NULL /\ opened' = opened
             \/ stream = opened + 1 /\ opened' = opened + 1
    <3>1. CASE \E stream \in {stderr, stdout} : FileErrorlog(stream) /\ UNCHANGED opened
      <4>1. PICK stream \in {stderr, stdout}, c \in BOOLEAN :
              errorlog' = [method |-> "file", stream |-> stream, closeInDtor |-> c]
        BY <3>1 DEF FileErrorlog
      <4>2. stream \in Int /\ stream < NULL
        OBVIOUS
      <4> WITNESS "file" \in {"file", "syslog"}, stream \in Int, c \in BOOLEAN
      <4> QED
        BY <3>1, <4>1, <4>2
    <3>2. CASE opened < MaxStreams /\ opened' = opened + 1 /\ FileErrorlog(opened')
      <4>1. opened + 1 \in Int /\ opened + 1 # NULL
        OBVIOUS
      <4>2. PICK c \in BOOLEAN :
              errorlog' = [method |-> "file", stream |-> opened + 1, closeInDtor |-> c]
        BY <3>2 DEF FileErrorlog
      <4> QED
        BY <3>2, <4>1, <4>2
    <3>3. CASE errorlog' = [NoLog EXCEPT !.method = "syslog"] /\ UNCHANGED opened
      <4>1. errorlog' = [method |-> "syslog", stream |-> NULL, closeInDtor |-> FALSE]
        BY <3>3 DEF NoLog
      <4>2. opened' = opened /\ NULL <= NULL
        BY <3>3
      <4> WITNESS "syslog" \in {"file", "syslog"}, NULL \in Int, FALSE \in BOOLEAN
      <4> QED
        BY <4>1, <4>2
    <3> QED
      BY <1>1, <3>1, <3>2, <3>3 DEF Configure, NewLog
  <2>2. /\ closed' = closed \/ closed' = closed \cup {errorlog.stream}
        /\ UNCHANGED <<debug, logging, unflushed, logfiles>>
    BY <1>1 DEF Configure, DeleteLog
  <2>3. errorlog.stream \in Int /\ errorlog.stream <= opened
    OBVIOUS
  <2>4. syslog' = IF m = "syslog" THEN "openlog" ELSE "closelog"
    BY <1>1, <2>1 DEF Configure, SysErrorlog
  <2>5. LogsTypeOK'
    <3>1. errorlog' \in [method : {"none", "file", "syslog"}, stream : Int, closeInDtor : BOOLEAN]
      BY <2>1
    <3>2. closed' \subseteq Int
      BY <2>2, <2>3
    <3>3. opened' \in Nat
      BY <2>1
    <3> QED
      BY <2>2, <2>4, <3>1, <3>2, <3>3
  <2>6. StreamsOpened' /\ DialogInv'
    <3>1. opened <= opened'
      BY <2>1
    <3>2. \A s \in closed' \cup logfiles' : s <= opened'
      BY <2>2, <2>3, <2>5, <3>1
    <3>3. errorlog'.stream <= opened'
      BY <2>1
    <3>4. logging'.logfile <= opened'
      BY <2>2, <2>5, <3>1
    <3> QED
      BY <2>2, <3>2, <3>3, <3>4
  <2>7. DebugLogKept'
    BY <2>2
  <2>8. ErrorsReachLog'
    BY <2>1, <2>2, <2>3, <2>4
  <2> QED
    BY <2>5, <2>6, <2>7, <2>8
<1>2. CASE LogError
  BY <1>2 DEF LogError
<1> QED
  BY <1>1, <1>2

\* The invariant holds always.
LEMMA LogsInductive == LogsSpec => []LogsInv
<1> USE DEF LogsInv, LogsTypeOK, StreamsOpened, DialogInv, DebugLogKept, ErrorsReachLog
<1>1. LogsInit => LogsInv
  BY DEF LogsInit, NoLog
<1>2. LogsInv /\ [LogsNext]_logs => LogsInv'
  <2>1. CASE LogsNext
    BY <2>1, DebugStep, LoggingStep, ErrorlogStep DEF LogsNext
  <2>2. CASE UNCHANGED logs
    BY <2>2 DEF logs
  <2> QED
    BY <2>1, <2>2
<1> QED
  BY <1>1, <1>2, PTL DEF LogsSpec

-----------------------------------------------------------------------------
(* Logs: the theorems                                                      *)

\* The debug log's promise, however often the log is switched on and off.
THEOREM DebugLogStays ==
  LogsSpec => []DebugLogKept
BY LogsInductive, PTL DEF LogsInv

\* The error log's promise, in whatever order logs are configured.
THEOREM ErrorsLogged ==
  LogsSpec => []ErrorsReachLog
BY LogsInductive, PTL DEF LogsInv

-----------------------------------------------------------------------------
(* Digest: whole blocks                                                    *)

\* Division by a number, by what it is.
LEMMA Divided ==
  ASSUME NEW n \in Nat, NEW d \in Nat \ {0}
  PROVE  n \div d \in Nat /\ n % d \in 0 .. d - 1 /\ n = d * (n \div d) + (n % d)
  BY SMTT(30)

\* Quotient and remainder are the only ones that fit.
LEMMA Quotient ==
  ASSUME NEW d \in Nat \ {0}, NEW q \in Nat, NEW r \in 0 .. d - 1
  PROVE  (d * q + r) \div d = q /\ (d * q + r) % d = r
<1> DEFINE n == d * q + r
           s == n \div d
           t == n % d
<1>1. n \in Nat /\ d \in Nat
  OBVIOUS
<1>2. s \in Nat /\ t \in 0 .. d - 1 /\ n = d * s + t
  BY <1>1, Divided
<1>3. n = d * q + r
  OBVIOUS
<1> HIDE DEF n, s, t
<1>4. ~(s < q)
  <2>1. SUFFICES ASSUME s + 1 <= q PROVE FALSE
    BY <1>2
  <2>2. d * (s + 1) <= d * q
    BY <2>1, <1>2, SMTT(30)
  <2>3. d * (s + 1) = d * s + d /\ d * s \in Nat /\ d * q \in Nat
    BY <1>2, SMTT(30)
  <2> QED
    BY <1>1, <1>2, <1>3, <2>2, <2>3
<1>5. ~(q < s)
  <2>1. SUFFICES ASSUME q + 1 <= s PROVE FALSE
    BY <1>2
  <2>2. d * (q + 1) <= d * s
    BY <2>1, <1>2, SMTT(30)
  <2>3. d * (q + 1) = d * q + d /\ d * s \in Nat /\ d * q \in Nat
    BY <1>2, SMTT(30)
  <2> QED
    BY <1>1, <1>2, <1>3, <2>2, <2>3
<1>6. s = q
  BY <1>2, <1>4, <1>5
<1>7. t = r
  <2>1. d * q \in Nat
    OBVIOUS
  <2> QED
    BY <1>1, <1>2, <1>3, <1>6, <2>1
<1> QED
  BY <1>6, <1>7 DEF s, t, n

\* Multiples of a block.
Blocks == {n \in Nat : n % BlockSize = 0}

\* They are the products with its size.
LEMMA BlocksAre ==
  ASSUME NEW n \in Nat
  PROVE  n \in Blocks <=> \E q \in Nat : n = BlockSize * q
<1>1. BlockSize \in Nat \ {0}
  BY SizesAssumption
<1>2. ASSUME n \in Blocks PROVE \E q \in Nat : n = BlockSize * q
  <2>1. n \div BlockSize \in Nat /\ n = BlockSize * (n \div BlockSize) + (n % BlockSize)
    BY <1>1, Divided
  <2>2. n % BlockSize = 0
    BY <1>2 DEF Blocks
  <2>3. BlockSize * (n \div BlockSize) \in Nat
    BY <1>1, <2>1
  <2> QED
    BY <2>1, <2>2, <2>3
<1>3. ASSUME NEW q \in Nat, n = BlockSize * q PROVE n \in Blocks
  <2>1. (BlockSize * q + 0) % BlockSize = 0
    BY <1>1, Quotient
  <2>2. BlockSize * q \in Nat
    BY <1>1
  <2> QED
    BY <1>3, <2>1, <2>2 DEF Blocks
<1> QED
  BY <1>2, <1>3

\* Their sums are multiples, too.
LEMMA BlocksAdd ==
  ASSUME NEW m \in Blocks, NEW n \in Blocks
  PROVE  m + n \in Blocks
<1>1. BlockSize \in Nat /\ m \in Nat /\ n \in Nat
  BY SizesAssumption DEF Blocks
<1>2. PICK p \in Nat : m = BlockSize * p
  BY <1>1, BlocksAre
<1>3. PICK q \in Nat : n = BlockSize * q
  BY <1>1, BlocksAre
<1>4. BlockSize * (p + q) = BlockSize * p + BlockSize * q
  BY <1>1, SMTT(30)
<1>5. m + n \in Nat /\ p + q \in Nat /\ m + n = BlockSize * (p + q)
  BY <1>1, <1>2, <1>3, <1>4
<1> QED
  BY <1>5, BlocksAre

\* A number of bytes and a multiple of a block have the same remainder.
LEMMA RemainderKept ==
  ASSUME NEW m \in Blocks, NEW n \in Nat
  PROVE  (m + n) % BlockSize = n % BlockSize
<1>1. BlockSize \in Nat \ {0} /\ m \in Nat
  BY SizesAssumption DEF Blocks
<1>2. PICK p \in Nat : m = BlockSize * p
  BY <1>1, BlocksAre
<1> DEFINE q == n \div BlockSize
           r == n % BlockSize
<1>3. q \in Nat /\ r \in 0 .. BlockSize - 1 /\ n = BlockSize * q + r
  BY <1>1, Divided
<1> HIDE DEF q, r
<1>4. BlockSize * (p + q) = BlockSize * p + BlockSize * q
  BY <1>1, <1>3, SMTT(30)
<1>5. BlockSize * p \in Nat /\ BlockSize * q \in Nat /\ p + q \in Nat
  BY <1>1, <1>3
<1>6. m + n = BlockSize * (p + q) + r
  BY <1>1, <1>2, <1>3, <1>4, <1>5
<1>7. (BlockSize * (p + q) + r) % BlockSize = r
  BY <1>1, <1>3, <1>5, Quotient
<1> QED
  BY <1>6, <1>7 DEF r

\* The mask cuts a number down to whole blocks, by less than one.
LEMMA WholeIs ==
  ASSUME NEW n \in Nat
  PROVE  Whole(n) \in Blocks /\ Whole(n) <= n /\ n - Whole(n) < BlockSize
         /\ (n \in Blocks => Whole(n) = n) /\ (n >= BlockSize => Whole(n) > 0)
<1>1. BlockSize \in Nat \ {0}
  BY SizesAssumption
<1> DEFINE q == n \div BlockSize
           r == n % BlockSize
<1>2. q \in Nat /\ r \in 0 .. BlockSize - 1 /\ n = BlockSize * q + r
  BY <1>1, Divided
<1>3. Whole(n) = n - r /\ (n \in Blocks => r = 0)
  BY DEF Whole, Blocks
<1> HIDE DEF q, r
<1>4. BlockSize * q \in Nat
  BY <1>1, <1>2
<1>5. Whole(n) = BlockSize * q
  BY <1>1, <1>2, <1>3, <1>4
<1>6. Whole(n) \in Blocks
  BY <1>2, <1>4, <1>5, BlocksAre
<1> QED
  BY <1>1, <1>2, <1>3, <1>4, <1>5, <1>6

\* No block, one, and what the buffer has room for.
LEMMA SomeBlocks == 0 \in Blocks /\ BlockSize \in Blocks /\ 2 * BlockSize \in Blocks
<1>1. BlockSize \in Nat
  BY SizesAssumption
<1>2. BlockSize * 0 = 0 /\ BlockSize * 1 = BlockSize /\ BlockSize * 2 = 2 * BlockSize
  BY <1>1
<1>3. 0 \in Nat /\ 1 \in Nat /\ 2 \in Nat /\ 2 * BlockSize \in Nat
  BY <1>1
<1> QED
  BY <1>1, <1>2, <1>3, BlocksAre

-----------------------------------------------------------------------------
(* Digest: what is consumed, and what is left in the buffer                *)

\* Bytes of a file, of the padding and of the length.
Byte ==
  {<<"file", i>> : i \in Nat} \cup {<<"0x80", 0>>, <<"0", 0>>}
    \cup {<<name, value, i>> : name \in {"low", "high"}, value \in Nat, i \in Nat}

\* What md_total may be.
Totals == (0 .. Word - 1) \X (0 .. Word - 1)

\* Of an md5_t: whole blocks have been consumed; what it has been given; and the length of
\* the consumed bytes is counted, as far as a word goes.
WholeBlocks(m) ==
  /\ m \in [total : Totals, buffer : Seq(Byte), consumed : Seq(Byte)]
  /\ Len(m.consumed) \in Blocks
Content(m) == m.consumed \o m.buffer
Counts(m) == Len(m.consumed) < Word => m.total = <<Len(m.consumed), 0>>

\* A sequence that is cut in two.
LEMMA Cut ==
  ASSUME NEW S, NEW s \in Seq(S), NEW n \in Nat, n <= Len(s)
  PROVE  /\ First(s, n) \in Seq(S) /\ Rest(s, n) \in Seq(S) /\ First(s, n) \o Rest(s, n) = s
         /\ Len(First(s, n)) = n /\ Len(Rest(s, n)) = Len(s) - n
<1>1. Len(s) \in Nat /\ \A i \in 1 .. Len(s) : s[i] \in S
  OBVIOUS
<1>2. First(s, n) \in Seq(S) /\ Len(First(s, n)) = n
  <2>1. \A i \in 1 .. n : s[i] \in S
    BY <1>1
  <2> QED
    BY <2>1, SubSeqProperties DEF First
<1>3. Rest(s, n) \in Seq(S) /\ Len(Rest(s, n)) = Len(s) - n
  <2>1. \A i \in n + 1 .. Len(s) : s[i] \in S
    BY <1>1
  <2> QED
    BY <1>1, <2>1, SubSeqProperties DEF Rest
<1>4. First(s, n) \o Rest(s, n) = s
  <2>1. 1 \in 1 .. Len(s) + 1 /\ n \in 1 - 1 .. Len(s) /\ Len(s) \in n .. Len(s)
    BY <1>1
  <2>2. SubSeq(s, 1, n) \o SubSeq(s, n + 1, Len(s)) = SubSeq(s, 1, Len(s))
    BY <2>1, ConcatAdjacentSubSeq
  <2> QED
    BY <2>2, SubSeqFull DEF First, Rest
<1> QED
  BY <1>2, <1>3, <1>4

\* The two words of md_total stay words.
LEMMA CountedType ==
  ASSUME NEW total \in Totals, NEW n \in Nat, n < Word
  PROVE  Counted(total, n) \in Totals
<1>1. Word \in Nat /\ Word > 0
  BY SizesAssumption
<1>2. total[1] \in 0 .. Word - 1 /\ total[2] \in 0 .. Word - 1
  BY DEF Totals
<1>3. (total[2] + 1) % Word \in 0 .. Word - 1
  BY <1>1, <1>2
<1> QED
  BY <1>1, <1>2, <1>3 DEF Counted, Totals

\* Below 2^32 the first of them is the sum.
LEMMA CountedIs ==
  ASSUME NEW k \in Nat, NEW n \in Nat, k + n < Word
  PROVE  Counted(<<k, 0>>, n) = <<k + n, 0>>
  BY SizesAssumption DEF Counted

\* process_block() consumes whole blocks and counts them.
LEMMA ProcessBlockIs ==
  ASSUME NEW m, WholeBlocks(m), Counts(m), NEW bytes \in Seq(Byte), Len(bytes) \in Blocks,
         Len(bytes) < Word
  PROVE  LET p == ProcessBlock(m, bytes)
         IN  /\ WholeBlocks(p) /\ Counts(p) /\ p.buffer = m.buffer
             /\ p.consumed = m.consumed \o bytes
<1> DEFINE p == ProcessBlock(m, bytes)
<1>1. p = [total |-> Counted(m.total, Len(bytes)), buffer |-> m.buffer,
           consumed |-> m.consumed \o bytes]
  BY DEF ProcessBlock
<1>2. m.total \in Totals /\ m.buffer \in Seq(Byte) /\ m.consumed \in Seq(Byte)
      /\ Len(m.consumed) \in Blocks /\ Len(m.consumed) \in Nat /\ Len(bytes) \in Nat
  BY DEF WholeBlocks
<1>3. p.consumed = m.consumed \o bytes /\ p.buffer = m.buffer
      /\ p.total = Counted(m.total, Len(bytes))
  BY <1>1
<1>4. m.consumed \o bytes \in Seq(Byte) /\ Len(m.consumed \o bytes) = Len(m.consumed) + Len(bytes)
  BY <1>2, ConcatProperties
<1>5. Counted(m.total, Len(bytes)) \in Totals
  BY <1>2, CountedType
<1>6. WholeBlocks(p)
  <2>1. Len(p.consumed) \in Blocks
    BY <1>2, <1>3, <1>4, BlocksAdd
  <2>2. p \in [total : Totals, buffer : Seq(Byte), consumed : Seq(Byte)]
    BY <1>1, <1>2, <1>4, <1>5
  <2> QED
    BY <2>1, <2>2 DEF WholeBlocks
<1>7. Counts(p)
  <2>1. SUFFICES ASSUME Len(m.consumed) + Len(bytes) < Word
                 PROVE  Counted(m.total, Len(bytes)) = <<Len(m.consumed) + Len(bytes), 0>>
    BY <1>3, <1>4 DEF Counts
  <2>2. m.total = <<Len(m.consumed), 0>>
    BY <1>2, <2>1, SizesAssumption DEF Counts
  <2> QED
    BY <1>2, <2>1, <2>2, CountedIs
<1> QED
  BY <1>3, <1>6, <1>7

\* The same with another buffer.
LEMMA OtherBuffer ==
  ASSUME NEW m, WholeBlocks(m), Counts(m), NEW b \in Seq(Byte)
  PROVE  LET p == [m EXCEPT !.buffer = b]
         IN  WholeBlocks(p) /\ Counts(p) /\ p.buffer = b /\ p.consumed = m.consumed
<1>1. m \in [total : Totals, buffer : Seq(Byte), consumed : Seq(Byte)]
  BY DEF WholeBlocks
<1> DEFINE p == [m EXCEPT !.buffer = b]
<1>2. p \in [total : Totals, buffer : Seq(Byte), consumed : Seq(Byte)]
      /\ p.buffer = b /\ p.consumed = m.consumed /\ p.total = m.total
  BY <1>1
<1> QED
  BY <1>2 DEF WholeBlocks, Counts

\* The blocks of a buffer are consumed, and what is left of them is less than one.
LEMMA FlushedIs ==
  ASSUME NEW m, WholeBlocks(m), Counts(m), Len(m.buffer) <= 2 * BlockSize
  PROVE  LET f == Flushed(m)
         IN  /\ WholeBlocks(f) /\ Counts(f) /\ Content(f) = Content(m) /\ Len(f.buffer) <= BlockSize
             /\ Len(m.buffer) \in {0, 2 * BlockSize} => f.buffer = <<>>
<1> DEFINE n == Whole(Len(m.buffer))
           head == First(m.buffer, n)
           tail == Rest(m.buffer, n)
           p == ProcessBlock(m, head)
           f == Flushed(m)
<1>1. /\ BlockSize \in Nat \ {0} /\ Word \in Nat /\ 2 * BlockSize < Word
      /\ m.buffer \in Seq(Byte) /\ m.consumed \in Seq(Byte) /\ Len(m.buffer) \in Nat
  BY SizesAssumption DEF WholeBlocks
<1>2. CASE Len(m.buffer) > BlockSize
  <2>1. /\ n \in Blocks /\ n \in Nat /\ n <= Len(m.buffer) /\ Len(m.buffer) - n < BlockSize
        /\ Len(m.buffer) \in Blocks => n = Len(m.buffer)
    BY <1>1, WholeIs DEF Blocks
  <2> HIDE DEF n
  <2>2. /\ head \in Seq(Byte) /\ tail \in Seq(Byte) /\ head \o tail = m.buffer
        /\ Len(head) = n /\ Len(tail) = Len(m.buffer) - n
    BY <1>1, <2>1, Cut
  <2>3. WholeBlocks(p) /\ Counts(p) /\ p.buffer = m.buffer /\ p.consumed = m.consumed \o head
    <3>1. Len(head) \in Blocks /\ Len(head) < Word
      BY <1>1, <2>1, <2>2
    <3> HIDE DEF head
    <3> QED
      BY <2>2, <3>1, ProcessBlockIs DEF p
  <2>4. f = [p EXCEPT !.buffer = tail]
    <3>1. f = [p EXCEPT !.buffer = Rest(p.buffer, n)]
      BY <1>2 DEF Flushed, n
    <3> QED
      BY <2>3, <3>1
  <2> HIDE DEF head, tail, p, f
  <2>5. WholeBlocks(f) /\ Counts(f) /\ f.buffer = tail /\ f.consumed = m.consumed \o head
    BY <2>2, <2>3, <2>4, OtherBuffer
  <2>6. (m.consumed \o head) \o tail = m.consumed \o (head \o tail)
    <3>1. \A s, t, u \in Seq(Byte) : (s \o t) \o u = s \o (t \o u)
      BY ConcatAssociative
    <3> QED
      BY <1>1, <2>2, <3>1
  <2>7. Content(f) = Content(m)
    BY <2>2, <2>5, <2>6 DEF Content
  <2>8. Len(m.buffer) \in {0, 2 * BlockSize} => tail = <<>>
    <3>1. Len(m.buffer) \in {0, 2 * BlockSize} => Len(tail) = 0
      <4>1. Len(m.buffer) # 0
        BY <1>1, <1>2
      <4>2. ASSUME Len(m.buffer) = 2 * BlockSize PROVE Len(tail) = 0
        <5>1. n = Len(m.buffer)
          BY <2>1, <4>2, SomeBlocks
        <5> QED
          BY <1>1, <2>2, <5>1
      <4> QED
        BY <4>1, <4>2
    <3> QED
      BY <2>2, <3>1
  <2> QED
    BY <1>1, <2>1, <2>2, <2>5, <2>7, <2>8 DEF f
<1>3. CASE ~(Len(m.buffer) > BlockSize)
  <2>1. f = m
    BY <1>3 DEF Flushed
  <2>2. Len(m.buffer) \in {0, 2 * BlockSize} => m.buffer = <<>>
    BY <1>1, <1>3
  <2> QED
    BY <1>1, <1>3, <2>1, <2>2
<1> QED
  BY <1>2, <1>3

\* md5_process() appends what it is given, and leaves a block at most in the buffer.
LEMMA MD5ProcessIs ==
  ASSUME NEW m, WholeBlocks(m), Counts(m), Len(m.buffer) <= BlockSize,
         NEW bytes \in Seq(Byte), Len(bytes) < Word
  PROVE  LET p == MD5Process(m, bytes)
         IN  /\ WholeBlocks(p) /\ Counts(p) /\ Len(p.buffer) <= BlockSize
             /\ Content(p) = Content(m) \o bytes
<1> DEFINE add    == Added(m, bytes)
           head   == First(bytes, add)
           rest   == Rest(bytes, add)
           full   == [m EXCEPT !.buffer = m.buffer \o head]
           filled == Flushed(full)
           direct == IF Len(rest) > BlockSize THEN Whole(Len(rest)) ELSE 0
           piece  == First(rest, direct)
           tail   == Rest(rest, direct)
           done   == IF direct > 0 THEN ProcessBlock(filled, piece) ELSE filled
           p      == IF tail = <<>> THEN done ELSE [done EXCEPT !.buffer = tail]
<1>1. /\ BlockSize \in Nat \ {0} /\ Word \in Nat /\ 2 * BlockSize < Word
      /\ m.buffer \in Seq(Byte) /\ m.consumed \in Seq(Byte)
      /\ Len(m.buffer) \in Nat /\ Len(bytes) \in Nat
  BY SizesAssumption DEF WholeBlocks
<1>2. MD5Process(m, bytes) = p
  BY DEF MD5Process
<1>3. /\ add \in Nat /\ add <= Len(bytes) /\ Len(m.buffer) + add <= 2 * BlockSize
      /\ add = Len(bytes) \/ Len(m.buffer) + add \in {0, 2 * BlockSize}
  <2>1. m.buffer = <<>> => Len(m.buffer) = 0
    OBVIOUS
  <2> QED
    BY <1>1, <2>1 DEF Added
<1> HIDE DEF add
<1>4. /\ head \in Seq(Byte) /\ rest \in Seq(Byte) /\ head \o rest = bytes
      /\ Len(head) = add /\ Len(rest) = Len(bytes) - add
  BY <1>1, <1>3, Cut
<1> HIDE DEF head, rest
<1>5. /\ WholeBlocks(full) /\ Counts(full)
      /\ full.buffer = m.buffer \o head /\ full.consumed = m.consumed
  <2>1. m.buffer \o head \in Seq(Byte)
    BY <1>1, <1>4, ConcatProperties
  <2> QED
    BY <2>1, OtherBuffer
<1>6. Len(full.buffer) = Len(m.buffer) + add
  BY <1>1, <1>4, <1>5, ConcatProperties
<1> HIDE DEF full
<1>7. /\ WholeBlocks(filled) /\ Counts(filled) /\ Content(filled) = Content(full)
      /\ Len(filled.buffer) <= BlockSize
      /\ Len(full.buffer) \in {0, 2 * BlockSize} => filled.buffer = <<>>
  BY <1>3, <1>5, <1>6, FlushedIs
<1> HIDE DEF filled
<1>8. filled.consumed \in Seq(Byte) /\ filled.buffer \in Seq(Byte)
  BY <1>7 DEF WholeBlocks
<1>9. Content(filled) = Content(m) \o head
  <2>1. m.consumed \in Seq(Byte) /\ m.buffer \in Seq(Byte) /\ head \in Seq(Byte)
    BY <1>1, <1>4
  <2>2. (m.consumed \o m.buffer) \o head = m.consumed \o (m.buffer \o head)
    <3> DEFINE c == m.consumed
               b == m.buffer
    <3>1. c \in Seq(Byte) /\ b \in Seq(Byte) /\ head \in Seq(Byte)
      BY <2>1
    <3>2. \A s, t, u \in Seq(Byte) : (s \o t) \o u = s \o (t \o u)
      BY ConcatAssociative
    <3> HIDE DEF c, b
    <3>3. (c \o b) \o head = c \o (b \o head)
      BY <3>1, <3>2, Zenon
    <3> QED
      BY <3>3 DEF c, b
  <2> QED
    BY <1>5, <1>7, <2>2 DEF Content
<1>10. Content(m) \in Seq(Byte)
  <2>1. m.consumed \o m.buffer \in Seq(Byte)
    BY <1>1, ConcatProperties
  <2> QED
    BY <2>1 DEF Content
<1>11. CASE rest = <<>>
  <2>1. Len(rest) = 0 /\ direct = 0
    BY <1>1, <1>11
  <2>2. tail = <<>>
    <3>1. Len(Rest(rest, 0)) = Len(rest) - 0 /\ Rest(rest, 0) \in Seq(Byte)
      <4>1. \A n \in Nat :
              n <= Len(rest) => /\ Len(Rest(rest, n)) = Len(rest) - n
                               /\ Rest(rest, n) \in Seq(Byte)
        BY <1>4, Cut
      <4> HIDE DEF direct
      <4> QED
        BY <2>1, <4>1
    <3>2. Rest(rest, 0) = <<>>
      BY <2>1, <3>1
    <3> HIDE DEF direct
    <3> QED
      BY <2>1, <3>2
  <2>3. p = filled
    BY <2>1, <2>2
  <2>4. bytes = head
    <3>1. \A s \in Seq(Byte) : s \o <<>> = s
      BY ConcatEmptySeq
    <3> QED
      BY <1>4, <1>11, <3>1
  <2> QED
    BY <1>2, <1>7, <1>9, <2>3, <2>4
<1>12. CASE rest # <<>>
  <2>1. Len(rest) \in Nat /\ Len(rest) > 0 /\ Len(rest) < Word
    BY <1>1, <1>3, <1>4, <1>12
  <2>2. filled.buffer = <<>>
    BY <1>1, <1>3, <1>4, <1>6, <1>7, <2>1
  <2>3. /\ direct \in Blocks /\ direct \in Nat
        /\ direct <= Len(rest) /\ Len(rest) - direct <= BlockSize
    <3>1. CASE Len(rest) > BlockSize
      <4>1. direct = Whole(Len(rest))
        BY <3>1
      <4>2. /\ Whole(Len(rest)) \in Blocks /\ Whole(Len(rest)) <= Len(rest)
            /\ Len(rest) - Whole(Len(rest)) < BlockSize
        BY <2>1, WholeIs
      <4> HIDE DEF direct
      <4>3. direct \in Nat
        BY <4>1, <4>2 DEF Blocks
      <4> QED
        BY <1>1, <2>1, <4>1, <4>2, <4>3
    <3>2. CASE ~(Len(rest) > BlockSize)
      BY <1>1, <2>1, <3>2, SomeBlocks
    <3> QED
      BY <3>1, <3>2
  <2> HIDE DEF direct
  <2>4. /\ piece \in Seq(Byte) /\ tail \in Seq(Byte) /\ piece \o tail = rest
        /\ Len(piece) = direct /\ Len(tail) = Len(rest) - direct
    BY <1>4, <2>1, <2>3, Cut
  <2> HIDE DEF piece, tail
  <2>5. /\ WholeBlocks(done) /\ Counts(done)
        /\ done.buffer = <<>> /\ done.consumed = filled.consumed \o piece
    <3>1. CASE direct > 0
      <4>1. done = ProcessBlock(filled, piece)
        BY <3>1
      <4>2. Len(piece) \in Blocks /\ Len(piece) < Word
        BY <1>1, <2>1, <2>3, <2>4
      <4> HIDE DEF done
      <4> QED
        BY <1>7, <2>2, <2>4, <4>1, <4>2, ProcessBlockIs
    <3>2. CASE ~(direct > 0)
      <4>1. piece = <<>> /\ done = filled
        BY <2>3, <2>4, <3>2
      <4>2. \A s \in Seq(Byte) : s \o <<>> = s
        BY ConcatEmptySeq
      <4> QED
        BY <1>7, <1>8, <2>2, <4>1, <4>2
    <3> QED
      BY <3>1, <3>2
  <2> HIDE DEF done
  <2>6. WholeBlocks(p) /\ Counts(p) /\ p.buffer = tail /\ p.consumed = done.consumed
    <3>1. CASE tail = <<>>
      BY <2>5, <3>1
    <3>2. CASE tail # <<>>
      BY <2>4, <2>5, <3>2, OtherBuffer
    <3> QED
      BY <3>1, <3>2
  <2>7. Content(p) = Content(m) \o bytes
    <3>1. \A s, t, u \in Seq(Byte) : (s \o t) \o u = s \o (t \o u)
      BY ConcatAssociative
    <3>2. \A s \in Seq(Byte) : s \o <<>> = s
      BY ConcatEmptySeq
    <3>3. filled.consumed = Content(m) \o head
      BY <1>8, <1>9, <2>2, <3>2 DEF Content
    <3>4. (filled.consumed \o piece) \o tail = filled.consumed \o rest
      BY <1>8, <2>4, <3>1
    <3>5. (Content(m) \o head) \o rest = Content(m) \o bytes
      BY <1>4, <1>10, <3>1
    <3> QED
      BY <2>5, <2>6, <3>3, <3>4, <3>5 DEF Content
  <2>8. Len(p.buffer) <= BlockSize
    BY <2>3, <2>4, <2>6
  <2> HIDE DEF p
  <2> QED
    BY <1>2, <2>6, <2>7, <2>8
<1> QED
  BY <1>11, <1>12

-----------------------------------------------------------------------------
(* Digest: the bytes of the file, the padding and the length               *)

\* Bytes m+1 to n, and those behind them.
LEMMA BytesType ==
  ASSUME NEW m \in Nat, NEW n \in Nat, m <= n
  PROVE  /\ Bytes(m, n) \in Seq(Byte) /\ Len(Bytes(m, n)) = n - m
         /\ \A i \in 1 .. n - m : Bytes(m, n)[i] = <<"file", m + i>>
<1> DEFINE k == n - m
           b == [i \in 1 .. k |-> <<"file", m + i>>]
<1>1. k \in Nat
  OBVIOUS
<1>2. Bytes(m, n) = b
  BY DEF Bytes
<1> HIDE DEF k
<1>3. \A i \in 1 .. k : <<"file", m + i>> \in Byte
  BY DEF Byte
<1>4. b \in Seq(Byte) /\ Len(b) = k /\ \A i \in 1 .. k : b[i] = <<"file", m + i>>
  BY <1>1, <1>3
<1> QED
  BY <1>2, <1>4 DEF k

\* The first bytes.
LEMMA FirstBytes ==
  ASSUME NEW n \in Nat
  PROVE  /\ Bytes(0, n) \in Seq(Byte) /\ Len(Bytes(0, n)) = n
         /\ \A i \in 1 .. n : Bytes(0, n)[i] = <<"file", i>>
<1> DEFINE b == [i \in 1 .. n |-> <<"file", i>>]
<1>1. Bytes(0, n) = b
  <2>1. n - 0 = n /\ \A i \in 1 .. n : 0 + i = i
    OBVIOUS
  <2> QED
    BY <2>1 DEF Bytes
<1>2. \A i \in 1 .. n : <<"file", i>> \in Byte
  BY DEF Byte
<1>3. b \in Seq(Byte) /\ Len(b) = n /\ \A i \in 1 .. n : b[i] = <<"file", i>>
  BY <1>2
<1> QED
  BY <1>1, <1>3

\* A piece behind the pieces before it.
LEMMA BytesAppended ==
  ASSUME NEW m \in Nat, NEW n \in Nat, m <= n
  PROVE  Bytes(0, m) \o Bytes(m, n) = Bytes(0, n)
<1>1. /\ Bytes(0, m) \in Seq(Byte) /\ Len(Bytes(0, m)) = m
      /\ \A i \in 1 .. m : Bytes(0, m)[i] = <<"file", i>>
  BY FirstBytes
<1>2. /\ Bytes(0, n) \in Seq(Byte) /\ Len(Bytes(0, n)) = n
      /\ \A i \in 1 .. n : Bytes(0, n)[i] = <<"file", i>>
  BY FirstBytes
<1>3. /\ Bytes(m, n) \in Seq(Byte) /\ Len(Bytes(m, n)) = n - m
      /\ \A i \in 1 .. n - m : Bytes(m, n)[i] = <<"file", m + i>>
  BY BytesType
<1> DEFINE f == Bytes(0, m)
           r == Bytes(m, n)
           s == Bytes(0, n)
<1> HIDE DEF f, r, s
<1>4. /\ f \o r \in Seq(Byte) /\ Len(f \o r) = m + (n - m)
      /\ \A i \in 1 .. m + (n - m) : (f \o r)[i] = IF i <= m THEN f[i] ELSE r[i - m]
  <2>1. f \in Seq(Byte) /\ r \in Seq(Byte) /\ Len(f) = m /\ Len(r) = n - m
    BY <1>1, <1>3 DEF f, r
  <2>2. \A s1, s2 \in Seq(Byte) :
          /\ s1 \o s2 \in Seq(Byte) /\ Len(s1 \o s2) = Len(s1) + Len(s2)
          /\ \A i \in 1 .. Len(s1) + Len(s2) :
               (s1 \o s2)[i] = IF i <= Len(s1) THEN s1[i] ELSE s2[i - Len(s1)]
    BY ConcatProperties
  <2> QED
    BY <2>1, <2>2
<1>5. \A i \in 1 .. n : (f \o r)[i] = <<"file", i>>
  <2>1. SUFFICES ASSUME NEW i \in 1 .. n PROVE (f \o r)[i] = <<"file", i>>
    OBVIOUS
  <2>2. CASE i <= m
    BY <1>1, <1>4, <2>2 DEF f
  <2>3. CASE ~(i <= m)
    <3>1. i - m \in 1 .. n - m /\ m + (i - m) = i
      BY <2>3
    <3>2. r[i - m] = <<"file", i>>
      BY <1>3, <3>1 DEF r
    <3> QED
      BY <1>4, <2>3, <3>2
  <2> QED
    BY <2>2, <2>3
<1>6. f \o r = s
  <2>1. \A i \in 1 .. n : (f \o r)[i] = s[i]
    BY <1>2, <1>5 DEF s
  <2>2. Len(f \o r) = Len(s) /\ Len(s) = n /\ s \in Seq(Byte)
    BY <1>2, <1>4 DEF s
  <2> QED
    BY <1>4, <2>1, <2>2, SeqEqual
<1> QED
  BY <1>6 DEF f, r, s

\* The padding begins with its mark.
LEMMA PaddingType ==
  ASSUME NEW n \in Nat
  PROVE  /\ Padding(n) \in Seq(Byte) /\ Len(Padding(n)) = n
         /\ n > 0 => Padding(n)[1] = <<"0x80", 0>>
<1> DEFINE e(i) == IF i = 1 THEN <<"0x80", 0>> ELSE <<"0", 0>>
           b == [i \in 1 .. n |-> e(i)]
<1>1. Padding(n) = b
  BY DEF Padding
<1>2. \A i \in 1 .. n : e(i) \in Byte
  BY DEF Byte
<1>3. e(1) = <<"0x80", 0>>
  OBVIOUS
<1> HIDE DEF e
<1>4. b \in Seq(Byte) /\ Len(b) = n /\ (n > 0 => b[1] = e(1))
  BY <1>2
<1> QED
  BY <1>1, <1>3, <1>4

\* A word of the length has its bytes.
LEMMA WordBytesType ==
  ASSUME NEW name \in {"low", "high"}, NEW value \in Nat
  PROVE  WordBytes(name, value) \in Seq(Byte) /\ Len(WordBytes(name, value)) = WordSize
<1> DEFINE b == [i \in 1 .. WordSize |-> <<name, value, i>>]
<1>1. WordSize \in Nat
  BY SizesAssumption
<1>2. \A i \in 1 .. WordSize : <<name, value, i>> \in Byte
  BY <1>1 DEF Byte
<1>3. b \in Seq(Byte) /\ Len(b) = WordSize
  BY <1>1, <1>2
<1> QED
  BY <1>3 DEF WordBytes

\* The padding of RFC 1321 is the only one that fills a block.
LEMMA PaddingUnique ==
  ASSUME NEW n \in Nat, NEW p \in 1 .. BlockSize, NEW q \in 1 .. BlockSize,
         (n + p) % BlockSize = 0, (n + q) % BlockSize = 0
  PROVE  ~(p < q)
<1>1. BlockSize \in Nat \ {0}
  BY SizesAssumption
<1>2. SUFFICES ASSUME p < q PROVE FALSE
  OBVIOUS
<1>3. n + p \in Blocks
  BY <1>1 DEF Blocks
<1>4. q - p \in Nat /\ q - p > 0 /\ q - p < BlockSize /\ (n + p) + (q - p) = n + q
  BY <1>1, <1>2
<1>5. (n + q) % BlockSize = (q - p) % BlockSize
  BY <1>3, <1>4, RemainderKept
<1>6. (q - p) % BlockSize = q - p
  BY <1>1, <1>4
<1> QED
  BY <1>4, <1>5, <1>6

\* md5_finish() fills one block or two, with the padding of RFC 1321.
LEMMA PadIs ==
  ASSUME NEW c \in Blocks, NEW b \in 0 .. BlockSize
  PROVE  /\ Pad(b) \in 1 .. BlockSize
         /\ b + Pad(b) + 2 * WordSize \in {BlockSize, 2 * BlockSize}
         /\ (CHOOSE p \in 1 .. BlockSize : ((c + b) + p + 2 * WordSize) % BlockSize = 0) = Pad(b)
<1>1. /\ BlockSize \in Nat \ {0} /\ WordSize \in Nat /\ BlockSize > 2 * WordSize
      /\ c \in Nat /\ b \in Nat
  BY SizesAssumption DEF Blocks
<1>2. Pad(b) \in 1 .. BlockSize
  BY <1>1 DEF Pad
<1>3. b + Pad(b) + 2 * WordSize \in {BlockSize, 2 * BlockSize}
  BY <1>1 DEF Pad
<1> DEFINE n == c + b + 2 * WordSize
           Fits(p) == ((c + b) + p + 2 * WordSize) % BlockSize = 0
<1>4. n \in Nat /\ \A p \in 1 .. BlockSize : Fits(p) <=> (n + p) % BlockSize = 0
  <2>1. \A p \in 1 .. BlockSize : (c + b) + p + 2 * WordSize = n + p
    BY <1>1
  <2> QED
    BY <1>1, <2>1
<1>5. Fits(Pad(b))
  <2>1. b + Pad(b) + 2 * WordSize \in Blocks
    BY <1>3, SomeBlocks
  <2>2. c + (b + Pad(b) + 2 * WordSize) \in Blocks
    BY <2>1, BlocksAdd
  <2>3. c + (b + Pad(b) + 2 * WordSize) = (c + b) + Pad(b) + 2 * WordSize
    BY <1>1, <1>2
  <2> QED
    BY <2>2, <2>3 DEF Blocks
<1> HIDE DEF n
<1>6. ASSUME NEW p \in 1 .. BlockSize, Fits(p) PROVE p = Pad(b)
  <2>1. (n + p) % BlockSize = 0 /\ (n + Pad(b)) % BlockSize = 0
    BY <1>2, <1>4, <1>5, <1>6
  <2>2. ~(p < Pad(b)) /\ ~(Pad(b) < p)
    BY <1>2, <1>4, <2>1, PaddingUnique
  <2> QED
    BY <1>1, <1>2, <2>2
<1> HIDE DEF Fits
<1>7. (CHOOSE p \in 1 .. BlockSize : Fits(p)) = Pad(b)
  BY <1>2, <1>5, <1>6
<1> QED
  BY <1>2, <1>3, <1>7 DEF Fits

\* The length in bits, as two words.
LEMMA LengthBytesIs ==
  ASSUME NEW n \in Nat
  PROVE  LengthBytes(<<n, 0>>)
           = WordBytes("low", (8 * n) % Word) \o WordBytes("high", (8 * n) \div Word)
<1> DEFINE w == Word \div 8
           q == n \div w
           r == n % w
<1>1. Word \in Nat \ {0} /\ w \in Nat \ {0} /\ Word = 8 * w
  BY SizesAssumption
<1> HIDE DEF w
<1>2. q \in Nat /\ r \in 0 .. w - 1 /\ n = w * q + r
  BY <1>1, Divided
<1>3. n \div w = q
  OBVIOUS
<1> HIDE DEF q, r
<1>4. (8 * n) \div Word = q
  <2>1. Word * q = 8 * (w * q) /\ w * q \in Nat
    BY <1>1, <1>2, SMTT(30)
  <2>2. 8 * n = Word * q + 8 * r /\ 8 * r \in 0 .. Word - 1
    BY <1>1, <1>2, <2>1
  <2>3. (Word * q + 8 * r) \div Word = q
    BY <1>1, <1>2, <2>2, Quotient
  <2> QED
    BY <2>2, <2>3
<1>5. n * 8 = 8 * n
  OBVIOUS
<1>6. (0 * 8) % Word = 0
  BY <1>1
<1>7. ((0 * 8) % Word) + n \div w = q
  BY <1>2, <1>3, <1>6
<1> QED
  BY <1>4, <1>5, <1>7 DEF LengthBytes, w

\* What md5_finish() makes of the whole file is what RFC 1321 pads it to.
LEMMA MD5FinishIs ==
  ASSUME NEW m, WholeBlocks(m), Counts(m), Len(m.buffer) <= BlockSize,
         NEW n \in Nat, Content(m) = Bytes(0, n)
  PROVE  LET p == MD5Finish(m)
         IN  /\ Len(p.buffer) <= 2 * BlockSize
             /\ Len(p.consumed) \in Blocks /\ p.total \in Totals
             /\ n < Word => p.consumed = Padded(n)
<1> DEFINE b     == Len(m.buffer)
           c     == Len(m.consumed)
           total == Counted(m.total, b)
           low   == WordBytes("low", (total[1] * 8) % Word)
           high  == WordBytes("high", ((total[2] * 8) % Word) + total[1] \div (Word \div 8))
           pad   == Padding(Pad(b))
           len   == LengthBytes(total)
           full  == m.buffer \o pad \o len
           whole == [total |-> total, buffer |-> full, consumed |-> m.consumed]
           p     == MD5Finish(m)
<1>1. /\ BlockSize \in Nat \ {0} /\ Word \in Nat \ {0} /\ 2 * BlockSize < Word /\ WordSize \in Nat
      /\ m.buffer \in Seq(Byte) /\ m.consumed \in Seq(Byte) /\ m.total \in Totals
      /\ b \in 0 .. BlockSize /\ c \in Blocks /\ c \in Nat
  BY SizesAssumption DEF WholeBlocks, Blocks
<1>2. n = c + b
  <2>1. Len(Bytes(0, n)) = n
    BY FirstBytes
  <2>2. Len(m.consumed \o m.buffer) = c + b
    BY <1>1, ConcatProperties
  <2> QED
    BY <2>1, <2>2 DEF Content
<1>3. p = ProcessBlock(whole, full)
  BY DEF MD5Finish
<1>4. p = [total |-> Counted(total, Len(full)), buffer |-> full, consumed |-> m.consumed \o full]
  BY <1>3 DEF ProcessBlock
<1>5. total \in Totals
  BY <1>1, CountedType
<1>6. len \in Seq(Byte) /\ Len(len) = 2 * WordSize
  <2>1. total[1] \in Nat /\ total[2] \in Nat
    BY <1>5 DEF Totals
  <2>2. (total[1] * 8) % Word \in Nat
    BY <1>1, <2>1
  <2>3. Word \div 8 \in Nat \ {0}
    BY SizesAssumption
  <2>4. total[1] \div (Word \div 8) \in Nat
    BY <2>1, <2>3, Divided
  <2>5. ((total[2] * 8) % Word) + total[1] \div (Word \div 8) \in Nat
    <3>1. (total[2] * 8) % Word \in Nat
      BY <1>1, <2>1
    <3> QED
      BY <2>4, <3>1
  <2>6. low \in Seq(Byte) /\ Len(low) = WordSize
    BY <2>2, WordBytesType
  <2>7. high \in Seq(Byte) /\ Len(high) = WordSize
    BY <2>5, WordBytesType
  <2>8. len = low \o high
    BY DEF LengthBytes
  <2> HIDE DEF low, high, len
  <2>9. len \in Seq(Byte) /\ Len(len) = Len(low) + Len(high)
    BY <2>6, <2>7, <2>8, ConcatProperties
  <2> QED
    BY <1>1, <2>6, <2>7, <2>9
<1>7. pad \in Seq(Byte) /\ Len(pad) = Pad(b) /\ Pad(b) \in Nat
      /\ b + Pad(b) + 2 * WordSize \in {BlockSize, 2 * BlockSize}
  <2>1. Pad(b) \in 1 .. BlockSize /\ b + Pad(b) + 2 * WordSize \in {BlockSize, 2 * BlockSize}
    BY <1>1, PadIs
  <2> QED
    BY <1>1, <2>1, PaddingType
<1> HIDE DEF total, len, pad
<1>8. full \in Seq(Byte) /\ Len(full) \in {BlockSize, 2 * BlockSize}
  <2>1. m.buffer \o pad \in Seq(Byte) /\ Len(m.buffer \o pad) = b + Len(pad)
    BY <1>1, <1>7, ConcatProperties
  <2>2. full \in Seq(Byte) /\ Len(full) = Len(m.buffer \o pad) + Len(len)
    BY <1>6, <2>1, ConcatProperties
  <2> QED
    BY <1>1, <1>6, <1>7, <2>1, <2>2
<1> HIDE DEF p
<1>9. Len(p.buffer) <= 2 * BlockSize
  BY <1>1, <1>4, <1>8
<1>10. p.total \in Totals
  <2>1. Len(full) \in Nat /\ Len(full) < Word
    BY <1>1, <1>8
  <2>2. p.total = Counted(total, Len(full))
    BY <1>4
  <2> QED
    BY <1>5, <2>1, <2>2, CountedType
<1>11. Len(p.consumed) \in Blocks
  <2>1. p.consumed = m.consumed \o full
    BY <1>4
  <2>2. Len(m.consumed \o full) = c + Len(full)
    BY <1>1, <1>8, ConcatProperties
  <2>3. Len(full) \in Blocks
    BY <1>8, SomeBlocks
  <2> QED
    BY <1>1, <2>1, <2>2, <2>3, BlocksAdd
<1>12. ASSUME n < Word PROVE p.consumed = Padded(n)
  <2>1. c < Word => m.total = <<c, 0>>
    BY DEF Counts
  <2>2. total = <<n, 0>>
    <3>1. total = Counted(m.total, b)
      BY DEF total
    <3>2. \A k, j \in Nat : k + j < Word => Counted(<<k, 0>>, j) = <<k + j, 0>>
      BY CountedIs
    <3>3. b \in Nat /\ c \in Nat
      BY <1>1
    <3> HIDE DEF b, c
    <3>4. c < Word /\ c + b < Word
      BY <1>1, <1>2, <1>12, <3>3
    <3> QED
      BY <1>2, <2>1, <3>1, <3>2, <3>3, <3>4
  <2> DEFINE l == WordBytes("low", (8 * n) % Word)
             h == WordBytes("high", (8 * n) \div Word)
             f == Bytes(0, n)
  <2>3. len = l \o h
    BY <2>2, LengthBytesIs DEF len
  <2>4. l \in Seq(Byte) /\ h \in Seq(Byte)
    <3>1. \A j \in Nat : j % Word \in 0 .. Word - 1 /\ j \div Word \in Nat
      BY <1>1, Divided
    <3>2. (8 * n) % Word \in Nat /\ (8 * n) \div Word \in Nat
      <4>1. 8 * n \in Nat
        OBVIOUS
      <4>2. (8 * n) % Word \in 0 .. Word - 1 /\ (8 * n) \div Word \in Nat
        BY <3>1, <4>1
      <4> QED
        BY <1>1, <4>2
    <3> QED
      BY <3>2, WordBytesType
  <2>5. Padded(n) = f \o pad \o l \o h
    <3>1. (CHOOSE q \in 1 .. BlockSize : (n + q + 2 * WordSize) % BlockSize = 0) = Pad(b)
      BY <1>1, <1>2, PadIs
    <3> QED
      BY <3>1 DEF Padded, pad
  <2>6. f \in Seq(Byte)
    BY FirstBytes
  <2>7. f = m.consumed \o m.buffer
    BY DEF Content
  <2> HIDE DEF l, h, f, b, c
  <2>8. \A s, t, u \in Seq(Byte) : (s \o t) \o u = s \o (t \o u)
    BY ConcatAssociative
  <2>9. \A s, t \in Seq(Byte) : s \o t \in Seq(Byte)
    BY ConcatProperties
  <2>10. f \o pad \o l \o h = (f \o pad) \o len
    <3> DEFINE g == f \o pad
    <3>1. g \in Seq(Byte)
      BY <1>7, <2>6, <2>9
    <3> HIDE DEF g
    <3>2. (g \o l) \o h = g \o (l \o h)
      BY <2>4, <2>8, <3>1
    <3>3. len = l \o h
      BY <2>3
    <3> QED
      BY <3>2, <3>3 DEF g
  <2>11. f \o pad = m.consumed \o (m.buffer \o pad)
    BY <1>1, <1>7, <2>7, <2>8
  <2>12. (m.consumed \o (m.buffer \o pad)) \o len = m.consumed \o full
    <3> DEFINE u == m.buffer \o pad
    <3>1. u \in Seq(Byte) /\ full = u \o len
      BY <1>1, <1>7, <2>9
    <3> HIDE DEF u, full
    <3>2. (m.consumed \o u) \o len = m.consumed \o (u \o len)
      BY <1>1, <1>6, <2>8, <3>1
    <3> QED
      BY <3>1, <3>2 DEF u
  <2>13. p.consumed = m.consumed \o full
    BY <1>4
  <2> QED
    BY <2>5, <2>10, <2>11, <2>12, <2>13
<1> QED
  BY <1>9, <1>10, <1>11, <1>12 DEF p

\* Files of different sizes are padded differently.
LEMMA PaddedDiffer ==
  ASSUME NEW m \in Nat, NEW n \in Nat, m < n
  PROVE  Padded(m) # Padded(n)
<1> DEFINE P(k) == CHOOSE q \in 1 .. BlockSize : (k + q + 2 * WordSize) % BlockSize = 0
           L(k) == WordBytes("low", (8 * k) % Word)
           H(k) == WordBytes("high", (8 * k) \div Word)
           t(k) == Padding(P(k)) \o (L(k) \o H(k))
<1>1. BlockSize \in Nat \ {0} /\ WordSize \in Nat /\ Word \in Nat \ {0}
  BY SizesAssumption
<1>2. ASSUME NEW k \in Nat
      PROVE  /\ t(k) \in Seq(Byte) /\ Len(t(k)) > 0 /\ t(k)[1] = <<"0x80", 0>>
             /\ Padded(k) = Bytes(0, k) \o t(k)
  <2>1. P(k) \in 1 .. BlockSize
    <3> DEFINE c == Whole(k)
               b == k - c
    <3>1. c \in Blocks /\ c \in Nat /\ b \in 0 .. BlockSize /\ c + b = k
      <4>1. c \in Blocks /\ c <= k /\ k - c < BlockSize
        BY WholeIs
      <4> HIDE DEF c
      <4>2. c \in Nat
        BY <4>1 DEF Blocks
      <4> QED
        BY <1>1, <4>1, <4>2
    <3> HIDE DEF c, b
    <3>2. Pad(b) \in 1 .. BlockSize /\ P(c + b) = Pad(b)
      BY <3>1, PadIs
    <3> HIDE DEF P
    <3> QED
      BY <3>1, <3>2
  <2>2. L(k) \in Seq(Byte) /\ H(k) \in Seq(Byte)
    <3>1. \A j \in Nat : j % Word \in 0 .. Word - 1 /\ j \div Word \in Nat
      BY <1>1, Divided
    <3>2. (8 * k) % Word \in Nat /\ (8 * k) \div Word \in Nat
      <4>1. 8 * k \in Nat
        OBVIOUS
      <4>2. (8 * k) % Word \in 0 .. Word - 1 /\ (8 * k) \div Word \in Nat
        BY <3>1, <4>1
      <4> QED
        BY <1>1, <4>2
    <3> QED
      BY <3>2, WordBytesType
  <2>3. Padded(k) = Bytes(0, k) \o Padding(P(k)) \o L(k) \o H(k)
    BY DEF Padded
  <2> DEFINE pd == Padding(P(k))
             f == Bytes(0, k)
  <2>4. pd \in Seq(Byte) /\ Len(pd) \in Nat /\ Len(pd) > 0 /\ pd[1] = <<"0x80", 0>>
    <3> HIDE DEF P
    <3>1. P(k) \in Nat /\ P(k) > 0
      BY <1>1, <2>1
    <3> QED
      BY <3>1, PaddingType
  <2>5. f \in Seq(Byte)
    BY FirstBytes
  <2> HIDE DEF pd, f, L, H
  <2>6. \A s, u, v \in Seq(Byte) : (s \o u) \o v = s \o (u \o v)
    BY ConcatAssociative
  <2>7. \A s, u \in Seq(Byte) :
          /\ s \o u \in Seq(Byte) /\ Len(s \o u) = Len(s) + Len(u) /\ Len(s) \in Nat
          /\ Len(u) \in Nat
          /\ \A i \in 1 .. Len(s) + Len(u) :
               (s \o u)[i] = IF i <= Len(s) THEN s[i] ELSE u[i - Len(s)]
    BY ConcatProperties
  <2>8. ((f \o pd) \o L(k)) \o H(k) = f \o (pd \o (L(k) \o H(k)))
    <3> DEFINE l == L(k)
               h == H(k)
    <3>1. l \in Seq(Byte) /\ h \in Seq(Byte) /\ f \o pd \in Seq(Byte) /\ l \o h \in Seq(Byte)
      BY <2>2, <2>4, <2>5, <2>7
    <3> HIDE DEF l, h
    <3>2. ((f \o pd) \o l) \o h = (f \o pd) \o (l \o h)
      BY <2>6, <3>1
    <3>3. (f \o pd) \o (l \o h) = f \o (pd \o (l \o h))
      BY <2>4, <2>5, <2>6, <3>1
    <3> QED
      BY <3>2, <3>3 DEF l, h
  <2>9. L(k) \o H(k) \in Seq(Byte)
    BY <2>2, <2>7
  <2> DEFINE x == pd \o (L(k) \o H(k))
  <2>10. x \in Seq(Byte) /\ Len(x) > 0 /\ x[1] = <<"0x80", 0>>
    BY <2>4, <2>7, <2>9
  <2>11. t(k) = x
    BY DEF pd
  <2> QED
    BY <2>3, <2>8, <2>10, <2>11 DEF f, pd
<1> HIDE DEF t
<1>3. /\ Bytes(0, m) \in Seq(Byte) /\ Len(Bytes(0, m)) = m
      /\ Bytes(0, n) \in Seq(Byte) /\ Len(Bytes(0, n)) = n
      /\ Bytes(0, n)[m + 1] = <<"file", m + 1>>
  <2>1. m + 1 \in 1 .. n
    OBVIOUS
  <2> QED
    BY <2>1, FirstBytes
<1>4. \A s, u \in Seq(Byte) : \A i \in 1 .. Len(s) + Len(u) :
        (s \o u)[i] = IF i <= Len(s) THEN s[i] ELSE u[i - Len(s)]
  BY ConcatProperties
<1>5. Padded(n)[m + 1] = <<"file", m + 1>>
  <2>1. t(n) \in Seq(Byte) /\ Padded(n) = Bytes(0, n) \o t(n)
    BY <1>2
  <2>2. m + 1 \in 1 .. n + Len(t(n)) /\ m + 1 <= n
    BY <2>1
  <2> QED
    BY <1>3, <1>4, <2>1, <2>2
<1>6. Padded(m)[m + 1] = <<"0x80", 0>>
  <2>1. t(m) \in Seq(Byte) /\ Padded(m) = Bytes(0, m) \o t(m) /\ Len(t(m)) > 0
        /\ t(m)[1] = <<"0x80", 0>>
    BY <1>2
  <2>2. m + 1 \in 1 .. m + Len(t(m)) /\ ~(m + 1 <= m) /\ (m + 1) - m = 1
    BY <2>1
  <2> QED
    BY <1>3, <1>4, <2>1, <2>2
<1> QED
  BY <1>5, <1>6

-----------------------------------------------------------------------------
(* Digest: the theorem                                                     *)

\* The digest has been compared.
Finished == at \in {"right", "wrong"}

\* Where check_digest() is.
DigestFlow ==
  /\ size \in Sizes /\ reference \in Sizes /\ bufferSize \in BufferSizes
  /\ at \in {"open", "read", "end", "right", "wrong", "IOError", "terminated"}
  /\ fed \in 0 .. size
  /\ at = "open" => fed = 0
  /\ at = "end" => fed = size

\* While bytes are read; more than DigestRight it says what is counted, and of any file.
Fed ==
  ~Finished => /\ WholeBlocks(md) /\ Counts(md) /\ Len(md.buffer) <= BlockSize
               /\ Content(md) = Bytes(0, fed)

\* And then.
Computed ==
  Finished => /\ Len(md.buffer) <= 2 * BlockSize
              /\ Len(md.consumed) \in Blocks /\ md.total \in Totals
              /\ size < Word => md.consumed = Padded(size)
              /\ at = "right" <=> md.consumed = Padded(reference)

\* The invariant.
DigestInv == DigestFlow /\ Fed /\ Computed

\* md5_init() has been given nothing.
LEMMA MD5InitIs ==
  WholeBlocks(MD5Init) /\ Counts(MD5Init) /\ Len(MD5Init.buffer) <= BlockSize
    /\ Content(MD5Init) = Bytes(0, 0)
<1>1. BlockSize \in Nat /\ Word \in Nat \ {0}
  BY SizesAssumption
<1>2. MD5Init.total = <<0, 0>> /\ MD5Init.buffer = <<>> /\ MD5Init.consumed = <<>>
      /\ MD5Init = [total |-> <<0, 0>>, buffer |-> <<>>, consumed |-> <<>>]
  BY DEF MD5Init
<1>3. <<>> \in Seq(Byte) /\ Len(<<>>) = 0
  OBVIOUS
<1>4. <<0, 0>> \in Totals
  BY <1>1 DEF Totals
<1>5. WholeBlocks(MD5Init)
  BY <1>2, <1>3, <1>4, SomeBlocks DEF WholeBlocks
<1>6. Content(MD5Init) = <<>>
  BY <1>2 DEF Content
<1>7. Bytes(0, 0) = <<>>
  <2>1. Bytes(0, 0) \in Seq(Byte) /\ Len(Bytes(0, 0)) = 0
    BY FirstBytes
  <2> QED
    BY <2>1
<1> QED
  BY <1>1, <1>2, <1>3, <1>5, <1>6, <1>7 DEF Counts

\* It holds at first.
LEMMA DigestInitInv ==
  ASSUME DigestInit
  PROVE  DigestInv
<1>1. size \in Nat
  BY SizesAssumption DEF DigestInit
<1>2. DigestFlow
  BY <1>1 DEF DigestInit, DigestFlow
<1>3. Fed
  BY MD5InitIs DEF DigestInit, Fed
<1>4. Computed
  BY DEF DigestInit, Computed, Finished
<1> QED
  BY <1>2, <1>3, <1>4 DEF DigestInv

\* Every step keeps it.
LEMMA DigestStep ==
  ASSUME DigestInv, [DigestNext]_digest
  PROVE  DigestInv'
<1> USE DEF Finished
<1>1. size \in Nat /\ reference \in Nat /\ bufferSize \in Nat /\ bufferSize < Word /\ Word \in Nat
      /\ bufferSize > 0
  BY SizesAssumption DEF DigestInv, DigestFlow
<1>2. fed \in Nat /\ fed <= size
  BY <1>1 DEF DigestInv, DigestFlow
<1>3. CASE OpenFile
  <2>1. DigestFlow'
    BY <1>3 DEF OpenFile, SameFile, DigestInv, DigestFlow
  <2>2. md' = MD5Init /\ fed' = 0
    BY <1>3 DEF OpenFile, DigestInv, DigestFlow
  <2>3. Fed'
    BY <2>2, MD5InitIs DEF Fed
  <2>4. Computed'
    BY <1>3 DEF OpenFile, Computed
  <2> QED
    BY <2>1, <2>3, <2>4 DEF DigestInv
<1>4. CASE CannotOpen \/ ReadFails
  <2>1. DigestFlow'
    BY <1>4 DEF CannotOpen, ReadFails, SameFile, DigestInv, DigestFlow
  <2>2. Fed'
    BY <1>4 DEF CannotOpen, ReadFails, SameFile, DigestInv, Fed
  <2>3. Computed'
    BY <1>4 DEF CannotOpen, ReadFails, Computed
  <2> QED
    BY <2>1, <2>2, <2>3 DEF DigestInv
<1>5. CASE ReadFile
  <2> DEFINE n == IF size - fed < bufferSize THEN size - fed ELSE bufferSize
             bytes == Bytes(fed, fed + n)
  <2>1. /\ at = "read" /\ fed' = fed + n /\ md' = MD5Process(md, bytes)
        /\ at' = IF n < bufferSize THEN "end" ELSE "read"
        /\ size' = size /\ reference' = reference /\ bufferSize' = bufferSize
    BY <1>5 DEF ReadFile, SameFile
  <2>2. /\ n \in Nat /\ n < Word /\ fed + n \in 0 .. size
        /\ n < bufferSize => fed + n = size
    BY <1>1, <1>2
  <2> HIDE DEF n
  <2>3. DigestFlow'
    <3>1. at' \in {"read", "end"} /\ (at' = "end" => fed' = size)
      BY <2>1, <2>2
    <3>2. size' \in Sizes /\ reference' \in Sizes /\ bufferSize' \in BufferSizes
      BY <2>1 DEF DigestInv, DigestFlow
    <3>3. fed' \in 0 .. size'
      BY <2>1, <2>2
    <3> QED
      BY <2>1, <3>1, <3>2, <3>3 DEF DigestFlow
  <2>4. bytes \in Seq(Byte) /\ Len(bytes) = n
    <3>1. \A j, k \in Nat : j <= k => Bytes(j, k) \in Seq(Byte) /\ Len(Bytes(j, k)) = k - j
      BY BytesType
    <3> QED
      BY <1>2, <2>2, <3>1
  <2>5. Bytes(0, fed) \o bytes = Bytes(0, fed + n)
    <3>1. \A j, k \in Nat : j <= k => Bytes(0, j) \o Bytes(j, k) = Bytes(0, k)
      BY BytesAppended
    <3> QED
      <4>1. fed + n \in Nat /\ fed <= fed + n
        BY <1>2, <2>2
      <4>2. Bytes(0, fed) \o Bytes(fed, fed + n) = Bytes(0, fed + n)
        BY <1>2, <3>1, <4>1
      <4> QED
        BY <4>2
  <2>6. /\ WholeBlocks(md) /\ Counts(md) /\ Len(md.buffer) <= BlockSize
        /\ Content(md) = Bytes(0, fed)
    BY <2>1 DEF DigestInv, Fed
  <2> HIDE DEF bytes
  <2>7. /\ WholeBlocks(md') /\ Counts(md') /\ Len(md'.buffer) <= BlockSize
        /\ Content(md') = Content(md) \o bytes
    BY <2>1, <2>2, <2>4, <2>6, MD5ProcessIs
  <2>8. Fed'
    BY <2>1, <2>5, <2>6, <2>7 DEF Fed
  <2>9. Computed'
    BY <2>1 DEF Computed
  <2> QED
    BY <2>3, <2>8, <2>9 DEF DigestInv
<1>6. CASE EndDigest
  <2>1. /\ at = "end" /\ fed' = fed /\ md' = MD5Finish(md) /\ at' \in {"right", "wrong"}
        /\ at' = "right" <=> md'.consumed = Padded(reference)
        /\ size' = size /\ reference' = reference /\ bufferSize' = bufferSize
    BY <1>6 DEF EndDigest, SameFile
  <2>2. DigestFlow'
    BY <2>1 DEF DigestInv, DigestFlow
  <2>3. /\ WholeBlocks(md) /\ Counts(md) /\ Len(md.buffer) <= BlockSize
        /\ Content(md) = Bytes(0, size)
    BY <2>1 DEF DigestInv, DigestFlow, Fed
  <2>4. /\ Len(md'.buffer) <= 2 * BlockSize
        /\ Len(md'.consumed) \in Blocks /\ md'.total \in Totals
        /\ size < Word => md'.consumed = Padded(size)
    BY <1>1, <2>1, <2>3, MD5FinishIs
  <2>5. Computed'
    <3>1. Padded(reference)' = Padded(reference) /\ Padded(size)' = Padded(size)
      BY <2>1
    <3> QED
      BY <2>1, <2>4, <3>1 DEF Computed
  <2>6. Fed'
    BY <2>1 DEF Fed
  <2> QED
    BY <2>2, <2>5, <2>6 DEF DigestInv
<1>7. CASE UNCHANGED digest
  BY <1>7 DEF digest, DigestInv, DigestFlow, Fed, Computed
<1> QED
  BY <1>3, <1>4, <1>5, <1>6, <1>7 DEF DigestNext

\* However a file is read, MD5 is computed of its bytes, each once and in order, and nothing
\* is written behind the buffer: for blocks, words, files and pieces of any size.
THEOREM DigestIsRight == DigestSpec => []DigestRight
<1>1. DigestInv => DigestRight
  <2> SUFFICES ASSUME DigestInv PROVE DigestRight
    OBVIOUS
  <2> USE DEF Finished
  <2>1. size \in Nat /\ reference \in Nat
    BY SizesAssumption DEF DigestInv, DigestFlow
  <2>2. BufferHolds
    <3>1. Len(md.consumed) \in Blocks /\ md.total \in Totals
      BY DEF DigestInv, Fed, Computed, WholeBlocks
    <3>2. Len(md.buffer) <= IF Finished THEN 2 * BlockSize ELSE BlockSize
      BY DEF DigestInv, Fed, Computed
    <3> QED
      BY <3>1, <3>2 DEF BufferHolds, Blocks, Totals
  <2>3. ~Finished => md.consumed \o md.buffer = Bytes(0, fed)
    BY DEF DigestInv, Fed, Content
  <2>4. Finished /\ size < Word => /\ md.consumed = Padded(size)
                                   /\ at = "right" <=> size = reference
    <3>1. size # reference => Padded(size) # Padded(reference)
      BY <2>1, PaddedDiffer
    <3> QED
      BY <3>1 DEF DigestInv, Computed
  <2> QED
    BY <2>2, <2>3, <2>4 DEF DigestRight
<1> QED
  BY <1>1, DigestInitInv, DigestStep, PTL DEF DigestSpec

-----------------------------------------------------------------------------
(* Dates: the calendar                                                     *)

\* A leap year has a day more.
LEMMA LeapIs ==
  ASSUME NEW y \in Int
  PROVE  LET z == y - 1 IN
         (y \div 4 - y \div 100 + y \div 400) - (z \div 4 - z \div 100 + z \div 400)
           = IF Leap(y) THEN 1 ELSE 0
  BY DEF Leap

\* Where the months and the next year begin.
LEMMA MonthsAre ==
  ASSUME NEW y \in Int
  PROVE  LET first == Days(y, 0)
             leap  == IF Leap(y) THEN 1 ELSE 0
         IN  /\ first \in Int
             /\ Days(y, 1) = first + 31         /\ Days(y, 2) = first + 59 + leap
             /\ Days(y, 3) = first + 90 + leap  /\ Days(y, 4) = first + 120 + leap
             /\ Days(y, 5) = first + 151 + leap /\ Days(y, 6) = first + 181 + leap
             /\ Days(y, 7) = first + 212 + leap /\ Days(y, 8) = first + 243 + leap
             /\ Days(y, 9) = first + 273 + leap /\ Days(y, 10) = first + 304 + leap
             /\ Days(y, 11) = first + 334 + leap
             /\ Days(y + 1, 0) = first + 365 + leap
<1>1. (y \div 4 - y \div 100 + y \div 400)
        - ((y - 1) \div 4 - (y - 1) \div 100 + (y - 1) \div 400)
        = IF Leap(y) THEN 1 ELSE 0
  BY LeapIs
<1> QED
  BY <1>1, SMT DEF Days

\* A year has 365 days, or 366.
LEMMA YearLength ==
  ASSUME NEW y, y \in Int
  PROVE  Days(y + 1, 0) = Days(y, 0) + (IF Leap(y) THEN 366 ELSE 365)
<1>1. /\ Days(y, 0) \in Int
      /\ Days(y + 1, 0) = Days(y, 0) + 365 + (IF Leap(y) THEN 1 ELSE 0)
  BY MonthsAre
<1> QED
  BY <1>1

\* The year that Broken begins to look with is hardly wrong.
LEMMA YearFits ==
  ASSUME NEW d \in Int
  PROVE  LET y == 1970 + (400 * d) \div 146097
         IN  y \in Int /\ Days(y - 1, 0) <= d /\ d < Days(y + 2, 0)
<1> DEFINE y == 1970 + (400 * d) \div 146097
<1>1. y \in Int
  OBVIOUS
<1>2. 146097 * (y - 1970) <= 400 * d /\ 400 * d < 146097 * (y - 1969)
  OBVIOUS
<1> HIDE DEF y
<1>3. Days(y - 1, 0) <= d
  BY <1>1, <1>2 DEF Days
<1>4. d < Days(y + 2, 0)
  BY <1>1, <1>2 DEF Days
<1> QED
  BY <1>1, <1>3, <1>4 DEF y

\* A month has its days, and the next one follows.
LEMMA MonthLength ==
  ASSUME NEW y, y \in Int, NEW mon, mon \in 0 .. 11
  PROVE  /\ Days(y, mon) \in Int
         /\ Ndays(y, mon) \in 28 .. 31
         /\ NextMonth(y, mon) = Days(y, mon) + Ndays(y, mon)
<1>1. mon \in {0, 1, 2, 3, 4, 5, 6, 7, 8, 9, 10, 11}
  OBVIOUS
<1>2. CASE mon = 1
  BY <1>2, MonthsAre DEF NextMonth, Ndays
<1>3. CASE mon = 11
  BY <1>3, MonthsAre DEF NextMonth, Ndays
<1>4. CASE mon \in {0, 2, 3, 4, 5, 6, 7, 8, 9, 10}
  BY <1>4, MonthsAre DEF NextMonth, Ndays
<1> QED
  BY <1>1, <1>2, <1>3, <1>4

\* Years follow each other.
LEMMA YearsGrow ==
  ASSUME NEW x \in Int, NEW y \in Int, x < y
  PROVE  Days(x + 1, 0) <= Days(y, 0)
  BY SMT DEF Days

\* The days of a month.
In(d, y, mon) == Days(y, mon) <= d /\ d < NextMonth(y, mon)

\* Months follow each other.
LEMMA MonthsGrow ==
  ASSUME NEW y \in Int, NEW m \in 0 .. 11, NEW n \in 0 .. 11, m < n
  PROVE  /\ NextMonth(y, m) <= Days(y, n)
         /\ Days(y, 0) <= Days(y, m) /\ NextMonth(y, n) <= Days(y + 1, 0)
<1> DEFINE f == Days(y, 0)
           l == IF Leap(y) THEN 1 ELSE 0
<1>1. /\ f \in Int /\ l \in 0 .. 1
      /\ Days(y, 0) = f               /\ Days(y, 1) = f + 31
      /\ Days(y, 2) = f + 59 + l      /\ Days(y, 3) = f + 90 + l
      /\ Days(y, 4) = f + 120 + l     /\ Days(y, 5) = f + 151 + l
      /\ Days(y, 6) = f + 181 + l     /\ Days(y, 7) = f + 212 + l
      /\ Days(y, 8) = f + 243 + l     /\ Days(y, 9) = f + 273 + l
      /\ Days(y, 10) = f + 304 + l    /\ Days(y, 11) = f + 334 + l
      /\ Days(y + 1, 0) = f + 365 + l
  BY MonthsAre
<1> HIDE DEF f, l
<1>2. m \in {0, 1, 2, 3, 4, 5, 6, 7, 8, 9, 10} /\ n \in {1, 2, 3, 4, 5, 6, 7, 8, 9, 10, 11}
  OBVIOUS
<1>3. NextMonth(y, m) = Days(y, m + 1)
  BY DEF NextMonth
<1>4. Days(y, m + 1) <= Days(y, n)
  BY <1>1, <1>2
<1>5. Days(y, 0) <= Days(y, m)
  BY <1>1, <1>2
<1>6. NextMonth(y, n) <= Days(y + 1, 0)
  <2>1. CASE n = 11
    BY <1>1, <2>1 DEF NextMonth
  <2>2. CASE n # 11
    <3>1. NextMonth(y, n) = Days(y, n + 1)
      BY <2>2 DEF NextMonth
    <3> QED
      BY <1>1, <1>2, <2>2, <3>1
  <2> QED
    BY <2>1, <2>2
<1> QED
  BY <1>3, <1>4, <1>5, <1>6

\* Months begin and end on days.
LEMMA MonthsType ==
  ASSUME NEW y, y \in Int
  PROVE  /\ Days(y, 0) \in Int /\ Days(y + 1, 0) \in Int
         /\ \A m \in 0 .. 11 : Days(y, m) \in Int /\ NextMonth(y, m) \in Int
<1>1. ASSUME NEW m \in 0 .. 11 PROVE Days(y, m) \in Int /\ NextMonth(y, m) \in Int
  <2>1. \A i, j \in Int : i + j \in Int
    OBVIOUS
  <2>2. /\ Days(y, m) \in Int /\ Ndays(y, m) \in 28 .. 31
        /\ NextMonth(y, m) = Days(y, m) + Ndays(y, m)
    BY MonthLength
  <2>3. Ndays(y, m) \in Int
    BY <2>2
  <2> QED
    BY <2>1, <2>2, <2>3
<1>2. y + 1 \in Int /\ 0 \in 0 .. 11
  OBVIOUS
<1> QED
  BY <1>1, <1>2, MonthLength

\* Every day is in a month of one of the years where Broken looks for it.
LEMMA YearFound ==
  ASSUME NEW d \in Int
  PROVE  \E y \in Years(d) : Days(y, 0) <= d /\ d < Days(y + 1, 0)
<1> DEFINE y == 1970 + (400 * d) \div 146097
<1>1. y \in Int /\ Days(y - 1, 0) <= d /\ d < Days(y + 2, 0)
  BY YearFits
<1>2. Years(d) = y - 1 .. y + 1
  BY DEF Years
<1> HIDE DEF y
<1>3. /\ Days(y, 0) \in Int /\ Days(y + 1, 0) \in Int
      /\ y - 1 \in y - 1 .. y + 1 /\ y \in y - 1 .. y + 1 /\ y + 1 \in y - 1 .. y + 1
      /\ (y - 1) + 1 = y /\ (y + 1) + 1 = y + 2
  BY <1>1, MonthsAre
<1>4. CASE d < Days(y, 0)
  BY <1>1, <1>2, <1>3, <1>4
<1>5. CASE Days(y, 0) <= d /\ d < Days(y + 1, 0)
  BY <1>1, <1>2, <1>3, <1>5
<1>6. CASE Days(y + 1, 0) <= d
  BY <1>1, <1>2, <1>3, <1>6
<1> QED
  BY <1>3, <1>4, <1>5, <1>6

\* It is in a month of that year.
LEMMA MonthFound ==
  ASSUME NEW d \in Int, NEW y \in Int, Days(y, 0) <= d, d < Days(y + 1, 0)
  PROVE  \E m \in 0 .. 11 : In(d, y, m)
<1>1. \A m \in 0 .. 11 : Days(y, m) \in Int /\ NextMonth(y, m) \in Int
  BY MonthsType
<1>2. SUFFICES ASSUME \A m \in 0 .. 11 : ~In(d, y, m) PROVE FALSE
  OBVIOUS
<1>3. \A m \in 0 .. 11 : Days(y, m) <= d => NextMonth(y, m) <= d
  BY <1>1, <1>2 DEF In
<1>4. \A m \in 0 .. 10 : NextMonth(y, m) = Days(y, m + 1)
  BY DEF NextMonth
<1>5. Days(y, 1) <= d /\ Days(y, 2) <= d /\ Days(y, 3) <= d
  BY <1>3, <1>4
<1>6. Days(y, 4) <= d /\ Days(y, 5) <= d /\ Days(y, 6) <= d
  BY <1>3, <1>4, <1>5
<1>7. Days(y, 7) <= d /\ Days(y, 8) <= d /\ Days(y, 9) <= d
  BY <1>3, <1>4, <1>6
<1>8. Days(y, 10) <= d /\ Days(y, 11) <= d
  BY <1>3, <1>4, <1>7
<1>9. NextMonth(y, 11) <= d /\ NextMonth(y, 11) = Days(y + 1, 0)
  BY <1>3, <1>8 DEF NextMonth
<1>10. Days(y + 1, 0) \in Int
  BY MonthsAre
<1> QED
  BY <1>9, <1>10

\* It is in no other one.
LEMMA OneMonth ==
  ASSUME NEW d \in Int, NEW x \in Int, NEW m \in 0 .. 11, NEW y \in Int, NEW n \in 0 .. 11,
         In(d, x, m), Days(y, 0) <= d, d < Days(y + 1, 0), In(d, y, n)
  PROVE  x = y /\ m = n
<1>1. /\ \A k \in 0 .. 11 : /\ Days(x, k) \in Int /\ NextMonth(x, k) \in Int
                           /\ Days(y, k) \in Int /\ NextMonth(y, k) \in Int
      /\ Days(x, 0) \in Int /\ Days(x + 1, 0) \in Int
      /\ Days(y, 0) \in Int /\ Days(y + 1, 0) \in Int
  BY MonthsType
<1>2. Days(x, 0) <= d /\ d < Days(x + 1, 0)
  <2>1. Days(x, 0) <= Days(x, m) /\ NextMonth(x, m) <= Days(x + 1, 0)
    <3>1. CASE m = 0
      <4>1. NextMonth(x, 0) <= Days(x, 11) /\ NextMonth(x, 11) <= Days(x + 1, 0)
        BY MonthsGrow
      <4>2. Days(x, 11) <= NextMonth(x, 11)
        <5>1. 11 \in 0 .. 11
          OBVIOUS
        <5>2. Ndays(x, 11) \in 28 .. 31 /\ NextMonth(x, 11) = Days(x, 11) + Ndays(x, 11)
          BY <5>1, MonthLength
        <5> QED
          BY <1>1, <5>1, <5>2
      <4> QED
        BY <1>1, <3>1, <4>1, <4>2
    <3>2. CASE m # 0
      <4>1. 0 < m /\ 0 \in 0 .. 11 /\ 11 \in 0 .. 11
        BY <3>2
      <4>2. Days(x, 0) <= NextMonth(x, 0) /\ NextMonth(x, 0) <= Days(x, m)
        <5>1. NextMonth(x, 0) <= Days(x, m)
          BY <4>1, MonthsGrow
        <5>2. Ndays(x, 0) \in 28 .. 31 /\ NextMonth(x, 0) = Days(x, 0) + Ndays(x, 0)
          BY <4>1, MonthLength
        <5> QED
          BY <1>1, <5>1, <5>2
      <4>3. NextMonth(x, m) <= Days(x + 1, 0)
        BY <4>1, MonthsGrow
      <4> QED
        BY <1>1, <4>2, <4>3
    <3> QED
      BY <3>1, <3>2
  <2>2. Days(x, m) <= d /\ d < NextMonth(x, m)
    BY DEF In
  <2> QED
    BY <1>1, <2>1, <2>2
<1>3. x = y
  <2>1. ~(x < y)
    <3>1. SUFFICES ASSUME x < y PROVE FALSE
      OBVIOUS
    <3>2. Days(x + 1, 0) <= Days(y, 0)
      BY <3>1, YearsGrow
    <3> QED
      BY <1>1, <1>2, <3>2
  <2>2. ~(y < x)
    <3>1. SUFFICES ASSUME y < x PROVE FALSE
      OBVIOUS
    <3>2. Days(y + 1, 0) <= Days(x, 0)
      BY <3>1, YearsGrow
    <3> QED
      BY <1>1, <1>2, <3>2
  <2> QED
    BY <2>1, <2>2
<1>4. ASSUME NEW k \in 0 .. 11, NEW j \in 0 .. 11, In(d, y, k), In(d, y, j) PROVE ~(k < j)
  <2>1. SUFFICES ASSUME k < j PROVE FALSE
    OBVIOUS
  <2>2. NextMonth(y, k) <= Days(y, j)
    BY <2>1, MonthsGrow
  <2>3. d < NextMonth(y, k) /\ Days(y, j) <= d
    BY <1>4 DEF In
  <2> QED
    BY <1>1, <2>2, <2>3
<1> QED
  <2>1. In(d, y, m) /\ In(d, y, n)
    BY <1>3
  <2>2. ~(m < n) /\ ~(n < m)
    BY <1>4, <2>1
  <2> QED
    BY <1>3, <2>2

-----------------------------------------------------------------------------
(* Dates: times and their fields                                           *)

\* A day and a time of day.
Valid(tm) ==
  /\ tm.year \in Int /\ tm.mon \in 0 .. 11 /\ tm.mday \in 1 .. Ndays(tm.year, tm.mon)
  /\ tm.hour \in 0 .. 23 /\ tm.min \in 0 .. 59

\* The parts of a time.
LEMMA Parted ==
  ASSUME NEW t, t \in Int
  PROVE  /\ t \div 1440 \in Int /\ (t % 1440) \div 60 \in 0 .. 23 /\ t % 60 \in 0 .. 59
         /\ ((t \div 1440) * 24 + (t % 1440) \div 60) * 60 + (t % 60) = t
  OBVIOUS

\* Its day.
Day(t) == t \div 1440

\* gmtime() of a time is that time.
LEMMA BrokenIs ==
  ASSUME NEW t \in Int, NEW isdst \in {-1, 0, 1}
  PROVE  LET tm == Broken(t, isdst) IN
         /\ tm \in Times /\ Valid(tm) /\ Minutes(tm) = t /\ tm.isdst = isdst
         /\ Days(tm.year, 0) <= Day(t) /\ Day(t) < Days(tm.year + 1, 0)
         /\ In(Day(t), tm.year, tm.mon)
<1> DEFINE d    == t \div 1440
           year == CHOOSE y \in Years(d) : Days(y, 0) <= d /\ d < Days(y + 1, 0)
           mon  == CHOOSE m \in 0 .. 11 : Days(year, m) <= d /\ d < NextMonth(year, m)
           tm   == Broken(t, isdst)
<1>1. /\ d \in Int /\ (t % 1440) \div 60 \in 0 .. 23 /\ t % 60 \in 0 .. 59
      /\ (d * 24 + (t % 1440) \div 60) * 60 + (t % 60) = t
  BY Parted
<1>2. tm = [year |-> year, mon |-> mon, mday |-> d - Days(year, mon) + 1, wday |-> (d + 4) % 7,
            hour |-> (t % 1440) \div 60, min |-> t % 60, isdst |-> isdst]
  BY DEF Broken
<1>3. (d + 4) % 7 \in Int
  BY <1>1
<1> HIDE DEF d, tm
<1>4. year \in Years(d) /\ Days(year, 0) <= d /\ d < Days(year + 1, 0)
  <2>1. \E y \in Years(d) : Days(y, 0) <= d /\ d < Days(y + 1, 0)
    BY <1>1, YearFound
  <2> QED
    BY <2>1
<1>5. year \in Int
  <2>1. 1970 + (400 * d) \div 146097 \in Int
    BY <1>1
  <2>2. Years(d) \subseteq Int
    BY <2>1 DEF Years
  <2> QED
    BY <1>4, <2>2
<1> HIDE DEF year
<1>6. mon \in 0 .. 11 /\ Days(year, mon) <= d /\ d < NextMonth(year, mon)
  <2>1. \E m \in 0 .. 11 : Days(year, m) <= d /\ d < NextMonth(year, m)
    BY <1>1, <1>4, <1>5, MonthFound DEF In
  <2> QED
    BY <2>1
<1> HIDE DEF mon
<1>7. /\ Days(year, mon) \in Int /\ Ndays(year, mon) \in 28 .. 31
      /\ NextMonth(year, mon) = Days(year, mon) + Ndays(year, mon)
  BY <1>5, <1>6, MonthLength
<1>8. d - Days(year, mon) + 1 \in 1 .. Ndays(year, mon) /\ d - Days(year, mon) + 1 \in Int
  BY <1>1, <1>6, <1>7
<1>9. tm \in Times
  <2>1. (t % 1440) \div 60 \in Int /\ t % 60 \in Int
    BY <1>1
  <2> QED
    BY <1>1, <1>2, <1>3, <1>5, <1>6, <1>8, <2>1 DEF Times
<1>10. Valid(tm)
  BY <1>1, <1>2, <1>5, <1>6, <1>8 DEF Valid
<1>11. Minutes(tm) = t
  <2>1. Days(year, mon) + (d - Days(year, mon) + 1) - 1 = d
    BY <1>1, <1>7
  <2>2. Minutes(tm) = ((Days(year, mon) + (d - Days(year, mon) + 1) - 1) * 24
                        + (t % 1440) \div 60) * 60 + (t % 60)
    BY <1>2 DEF Minutes
  <2> QED
    BY <1>1, <2>1, <2>2
<1>12. tm.isdst = isdst /\ tm.year = year /\ tm.mon = mon
  BY <1>2
<1> QED
  BY <1>4, <1>6, <1>9, <1>10, <1>11, <1>12 DEF In, Day, d, tm

\* The minutes of fields are a number.
LEMMA MinutesType ==
  ASSUME NEW tm, tm.year \in Int, tm.mon \in 0 .. 11, tm.mday \in Int, tm.hour \in Int,
         tm.min \in Int
  PROVE  Minutes(tm) \in Int
<1>1. Days(tm.year, tm.mon) \in Int
  BY MonthLength
<1>2. \A i, j \in Int : i + j \in Int /\ i * 24 \in Int /\ i * 60 \in Int /\ i - 1 \in Int
  OBVIOUS
<1> QED
  BY <1>1, <1>2 DEF Minutes

\* The time t is min minutes after hour on the day mday of a month.
TimeIs(t, year, mon, mday, hour, min) == t = ((Days(year, mon) + mday - 1) * 24 + hour) * 60 + min

\* There is one way only to write a time.
LEMMA OneTime ==
  ASSUME NEW year, NEW mon, NEW mday, NEW hour, NEW min, NEW isdst, NEW t,
         year \in Int, mon \in 0 .. 11, mday \in 1 .. Ndays(year, mon),
         hour \in 0 .. 23, min \in 0 .. 59, isdst \in {-1, 0, 1},
         t \in Int, TimeIs(t, year, mon, mday, hour, min)
  PROVE  LET shown == Broken(t, isdst) IN
         /\ shown.year = year /\ shown.mon = mon /\ shown.mday = mday
         /\ shown.hour = hour /\ shown.min = min
<1> DEFINE shown == Broken(t, isdst)
           d == Days(year, mon) + mday - 1
<1>2. /\ Days(year, mon) \in Int /\ Ndays(year, mon) \in 28 .. 31
      /\ NextMonth(year, mon) = Days(year, mon) + Ndays(year, mon)
  BY MonthLength
<1>3. mday \in Int /\ d \in Int /\ In(d, year, mon)
  BY <1>2 DEF In
<1>0. d = Days(year, mon) + mday - 1 /\ t = (d * 24 + hour) * 60 + min
  BY DEF TimeIs
<1> HIDE DEF d
<1>1. t \div 1440 = d /\ (t % 1440) \div 60 = hour /\ t % 60 = min
  BY <1>0, <1>3
<1>4. /\ Valid(shown)
      /\ Days(shown.year, 0) <= d /\ d < Days(shown.year + 1, 0) /\ In(d, shown.year, shown.mon)
  <2>1. /\ Valid(shown) /\ In(Day(t), shown.year, shown.mon)
        /\ Days(shown.year, 0) <= Day(t) /\ Day(t) < Days(shown.year + 1, 0)
    BY BrokenIs
  <2> HIDE DEF shown
  <2> QED
    BY <1>1, <2>1 DEF Day
<1>5. /\ shown.hour = hour /\ shown.min = min
      /\ shown.mday = d - Days(shown.year, shown.mon) + 1
  BY <1>1 DEF Broken
<1> HIDE DEF shown
<1>6. shown.year \in Int /\ shown.mon \in 0 .. 11
  BY <1>4 DEF Valid
<1>7. year = shown.year /\ mon = shown.mon
  BY <1>3, <1>4, <1>6, OneMonth
<1>8. shown.mday = mday
  BY <1>0, <1>2, <1>3, <1>5, <1>7
<1> QED
  BY <1>5, <1>7, <1>8 DEF shown

\* So what is shown of the minutes of a day's time is that time.
LEMMA ShownAgain ==
  ASSUME NEW tm, Valid(tm), NEW isdst \in {-1, 0, 1}
  PROVE  LET shown == Broken(Minutes(tm), isdst) IN
         /\ Minutes(tm) \in Int
         /\ shown.year = tm.year /\ shown.mon = tm.mon /\ shown.mday = tm.mday
         /\ shown.hour = tm.hour /\ shown.min = tm.min
<1> DEFINE year == tm.year
           mon  == tm.mon
           mday == tm.mday
           hour == tm.hour
           min  == tm.min
           t    == Minutes(tm)
<1>1. /\ year \in Int /\ mon \in 0 .. 11 /\ mday \in 1 .. Ndays(year, mon)
      /\ hour \in 0 .. 23 /\ min \in 0 .. 59
  BY DEF Valid
<1>2. TimeIs(t, year, mon, mday, hour, min)
  BY DEF Minutes, TimeIs
<1>5. Ndays(year, mon) \in 28 .. 31
  BY <1>1, MonthLength
<1>6. Ndays(year, mon) \in Int /\ mday \in Int /\ hour \in Int /\ min \in Int /\ mon \in Int
  BY <1>1, <1>5
<1>3. t \in Int
  BY <1>1, <1>6, MinutesType
<1> HIDE DEF year, mon, mday, hour, min, t
<1> DEFINE shown == Broken(t, isdst)
<1>4. /\ shown.year = year /\ shown.mon = mon /\ shown.mday = mday
      /\ shown.hour = hour /\ shown.min = min
  BY <1>1, <1>2, <1>3, <1>6, OneTime
<1> QED
  BY <1>3, <1>4 DEF year, mon, mday, hour, min, t

-----------------------------------------------------------------------------
(* Dates: the bundled timegm()                                             *)

\* Induction up to a number, for a set of numbers.
LEMMA UpTo ==
  ASSUME NEW N \in Nat, NEW P, 0 \in P, \A n \in 1 .. N : n - 1 \in P => n \in P
  PROVE  \A n \in 0 .. N : n \in P
<1> DEFINE T == {n \in 0 .. N : n \notin P}
           Less == {p \in Nat \X Nat : p[1] < p[2]}
<1>1. IsWellFoundedOn(Less, Nat)
  BY NatLessThanWellFounded DEF OpToRel
<1>2. SUFFICES ASSUME T # {} PROVE FALSE
  OBVIOUS
<1>3. T \subseteq Nat
  OBVIOUS
<1>4. PICK m \in T : \A k \in T : ~(<<k, m>> \in Less)
  BY <1>1, <1>2, <1>3, WFMin
<1>5. m # 0 /\ m \in 1 .. N /\ m - 1 \in Nat /\ <<m - 1, m>> \in Less
  OBVIOUS
<1>6. m - 1 \in 0 .. N
  BY <1>5
<1>7. m - 1 \in P
  BY <1>4, <1>5, <1>6
<1> QED
  BY <1>5, <1>7

\* The sums of the first numbers.
Sums(F, numbers, N) ==
  /\ N \in Nat /\ numbers \in [1 .. N -> Int] /\ F \in [0 .. N -> Int]
  /\ F[0] = 0 /\ \A n \in 1 .. N : F[n] = F[n - 1] + numbers[n]

\* A loop that adds numbers computes the last of them.
LEMMA TotalIs ==
  ASSUME NEW N, NEW numbers, NEW F, Sums(F, numbers, N)
  PROVE  Total(numbers) = F[N]
<1>0. /\ N \in Nat /\ numbers \in [1 .. N -> Int] /\ F \in [0 .. N -> Int]
      /\ F[0] = 0 /\ \A n \in 1 .. N : F[n] = F[n - 1] + numbers[n]
  BY DEF Sums
<1> DEFINE Sum(s) == [n \in 0 .. N |-> IF n = 0 THEN 0 ELSE s[n - 1] + numbers[n]]
           sum == CHOOSE s : s = Sum(s)
<1>1. Len(numbers) = N
  BY <1>0
<1>2. Total(numbers) = sum[N]
  BY <1>1 DEF Total
<1>3. F = Sum(F)
  <2>1. \A n \in 0 .. N : F[n] = IF n = 0 THEN 0 ELSE F[n - 1] + numbers[n]
    BY <1>0
  <2> QED
    BY <1>0, <2>1
<1>4. sum = Sum(sum)
  <2> HIDE DEF Sum
  <2> QED
    BY <1>3
<1> HIDE DEF sum
<1>5. \A n \in 0 .. N : sum[n] = IF n = 0 THEN 0 ELSE sum[n - 1] + numbers[n]
  BY <1>4
<1> DEFINE P == {n \in 0 .. N : sum[n] = F[n]}
<1>6. 0 \in P
  BY <1>0, <1>5
<1>7. ASSUME NEW n \in 1 .. N, n - 1 \in P PROVE n \in P
  <2>1. n \in 0 .. N /\ n # 0
    BY <1>0
  <2>2. sum[n] = sum[n - 1] + numbers[n] /\ F[n] = F[n - 1] + numbers[n]
    BY <1>0, <1>5, <2>1
  <2> QED
    BY <1>7, <2>1, <2>2
<1> HIDE DEF P
<1>8. \A n \in 0 .. N : n \in P
  BY <1>0, <1>6, <1>7, UpTo
<1>9. N \in P
  BY <1>0, <1>8
<1> QED
  BY <1>2, <1>9 DEF P

\* The days of the years before, from 1970 on.
LEMMA YearDaysIs ==
  ASSUME NEW year, year \in Int, year >= 1970
  PROVE  YearDays(year) = Days(year, 0)
<1> DEFINE N == year - 1970
           numbers == [n \in 1 .. N |-> IF Leap(1969 + n) THEN 366 ELSE 365]
           F == [n \in 0 .. N |-> Days(1970 + n, 0)]
<1>1. N \in Nat /\ 1970 + N = year
  OBVIOUS
<1>2. Days(1970, 0) = 0
  BY SMT DEF Days
<1>3. \A n \in Nat : Days(1970 + n, 0) \in Int
  <2>1. \A n \in Nat : 1970 + n \in Int
    OBVIOUS
  <2> QED
    BY <2>1, MonthsType
<1>4. ASSUME NEW n \in 1 .. N PROVE F[n] = F[n - 1] + numbers[n]
  <2>1. 1969 + n \in Int /\ (1969 + n) + 1 = 1970 + n /\ 1970 + (n - 1) = 1969 + n
    OBVIOUS
  <2>2. Days((1969 + n) + 1, 0) = Days(1969 + n, 0) + (IF Leap(1969 + n) THEN 366 ELSE 365)
    BY <2>1, YearLength
  <2>3. n \in 0 .. N /\ n - 1 \in 0 .. N
    BY <1>1
  <2> QED
    BY <2>1, <2>2, <2>3
<1>5. numbers \in [1 .. N -> Int] /\ F \in [0 .. N -> Int] /\ F[0] = 0 /\ F[N] = Days(year, 0)
  BY <1>1, <1>2, <1>3
<1>6. YearDays(year) = IF year > 1970 THEN Total(numbers) ELSE 0
  BY DEF YearDays
<1> HIDE DEF N, numbers, F
<1>7. Total(numbers) = F[N]
  <2>1. N \in Nat
    BY <1>1
  <2>2. numbers \in [1 .. N -> Int] /\ F \in [0 .. N -> Int] /\ F[0] = 0
    BY <1>5
  <2>3. \A n \in 1 .. N : F[n] = F[n - 1] + numbers[n]
    BY <1>4
  <2>4. Sums(F, numbers, N)
    BY <2>1, <2>2, <2>3 DEF Sums
  <2> QED
    BY <2>4, TotalIs
<1> QED
  BY <1>2, <1>5, <1>6, <1>7

\* The days of the months before.
LEMMA MonthDaysIs ==
  ASSUME NEW year, year \in Int, NEW mon, mon \in 0 .. 11
  PROVE  MonthDays(year, mon) = Days(year, mon) - Days(year, 0)
<1> DEFINE numbers == [n \in 1 .. mon |-> Ndays(year, n - 1)]
           F == [n \in 0 .. mon |-> Days(year, n) - Days(year, 0)]
<1>1. \A n \in 0 .. 11 : Days(year, n) \in Int /\ Ndays(year, n) \in 28 .. 31
  BY MonthLength
<1>2. \A n \in 0 .. 11 : Ndays(year, n) \in Int
  BY <1>1
<1>3. ASSUME NEW n \in 1 .. mon PROVE F[n] = F[n - 1] + numbers[n]
  <2>1. n - 1 \in 0 .. 11 /\ n - 1 # 11 /\ (n - 1) + 1 = n /\ n \in 0 .. mon /\ n - 1 \in 0 .. mon
    OBVIOUS
  <2>2. NextMonth(year, n - 1) = Days(year, n)
    BY <2>1 DEF NextMonth
  <2>3. NextMonth(year, n - 1) = Days(year, n - 1) + Ndays(year, n - 1)
    BY <2>1, MonthLength
  <2>4. Days(year, 0) \in Int /\ Days(year, n - 1) \in Int /\ Ndays(year, n - 1) \in Int
    BY <1>1, <1>2, <2>1
  <2> QED
    BY <2>1, <2>2, <2>3, <2>4
<1>4. mon \in Nat /\ numbers \in [1 .. mon -> Int] /\ F \in [0 .. mon -> Int]
  BY <1>1, <1>2
<1>5. F[0] = 0 /\ F[mon] = Days(year, mon) - Days(year, 0)
  <2>1. Days(year, 0) \in Int /\ 0 \in 0 .. mon /\ mon \in 0 .. mon
    BY <1>1
  <2> QED
    BY <2>1
<1>6. MonthDays(year, mon) = Total(numbers)
  BY DEF MonthDays
<1> HIDE DEF numbers, F
<1>7. Sums(F, numbers, mon)
  BY <1>3, <1>4, <1>5 DEF Sums
<1> QED
  BY <1>5, <1>6, <1>7, TotalIs

\* What the bundled timegm() counts is what there is, from 1970 on.
LEMMA BundledIs ==
  ASSUME NEW tm, Valid(tm), tm.year >= 1970
  PROVE  BundledTimegm(tm) = Minutes(tm)
<1>1. /\ tm.year \in Int /\ tm.mon \in 0 .. 11 /\ tm.mday \in 1 .. Ndays(tm.year, tm.mon)
      /\ tm.hour \in 0 .. 23 /\ tm.min \in 0 .. 59
  BY DEF Valid
<1>2. Ndays(tm.year, tm.mon) \in 28 .. 31 /\ Days(tm.year, tm.mon) \in Int
  BY <1>1, MonthLength
<1>3. ~(tm.mday > 31 \/ tm.min > 60 \/ tm.hour > 24)
  BY <1>1, <1>2
<1>4. YearDays(tm.year) + MonthDays(tm.year, tm.mon) = Days(tm.year, tm.mon)
  <2>1. Days(tm.year, 0) \in Int
    BY <1>1, MonthsType
  <2>2. YearDays(tm.year) = Days(tm.year, 0)
    BY <1>1, YearDaysIs
  <2>3. MonthDays(tm.year, tm.mon) = Days(tm.year, tm.mon) - Days(tm.year, 0)
    BY <1>1, MonthDaysIs
  <2> QED
    BY <1>2, <2>1, <2>2, <2>3
<1>5. BundledTimegm(tm) = ((YearDays(tm.year) + MonthDays(tm.year, tm.mon) + tm.mday - 1) * 24
                             + tm.hour) * 60 + tm.min
  BY <1>3 DEF BundledTimegm
<1> QED
  BY <1>4, <1>5 DEF Minutes

-----------------------------------------------------------------------------
(* Dates: a bw::Datetime                                                   *)

\* The bundled timegm() gives a number in any case.
LEMMA BundledType ==
  ASSUME NEW tm, tm \in Times
  PROVE  BundledTimegm(tm) \in Int
<1>1. /\ tm.year \in Int /\ tm.mon \in 0 .. 11 /\ tm.mday \in Int
      /\ tm.hour \in Int /\ tm.min \in Int
  BY DEF Times
<1>2. YearDays(tm.year) \in Int
  <2>1. CASE tm.year >= 1970
    <3>1. Days(tm.year, 0) \in Int
      BY <1>1, MonthsType
    <3> QED
      BY <1>1, <2>1, <3>1, YearDaysIs
  <2>2. CASE ~(tm.year >= 1970)
    BY <1>1, <2>2 DEF YearDays
  <2> QED
    BY <2>1, <2>2
<1>3. MonthDays(tm.year, tm.mon) \in Int
  <2>1. Days(tm.year, 0) \in Int /\ Days(tm.year, tm.mon) \in Int
    BY <1>1, MonthsType
  <2>2. MonthDays(tm.year, tm.mon) = Days(tm.year, tm.mon) - Days(tm.year, 0)
    BY <1>1, MonthDaysIs
  <2> QED
    BY <2>1, <2>2
<1> DEFINE y == YearDays(tm.year)
           m == MonthDays(tm.year, tm.mon)
           n == ((y + m + tm.mday - 1) * 24 + tm.hour) * 60 + tm.min
<1>4. BundledTimegm(tm) \in {0, n}
  BY DEF BundledTimegm
<1> HIDE DEF y, m
<1>5. n \in Int
  BY <1>1, <1>2, <1>3 DEF y, m
<1> QED
  BY <1>4, <1>5

\* So does the one of the library,
LEMMA TimesMinutes ==
  ASSUME NEW tm, tm \in Times
  PROVE  Minutes(tm) \in Int
<1>1. /\ tm.year \in Int /\ tm.mon \in 0 .. 11 /\ tm.mday \in Int
      /\ tm.hour \in Int /\ tm.min \in Int
  BY DEF Times
<1> QED
  BY <1>1, MinutesType

\* Summer time is one hour.
LEMMA IsdstIs == \A t : Isdst(t) \in {0, 1} /\ (Isdst(t) = 1 <=> Summer(t))
  BY DEF Isdst

\* What a bw::Datetime shows.
LEMMA ShownType ==
  ASSUME NEW t, t \in Int, NEW useUtc, useUtc \in BOOLEAN
  PROVE  /\ Shown(t, useUtc) \in Times /\ Valid(Shown(t, useUtc))
         /\ Minutes(Shown(t, useUtc)) = IF useUtc THEN t ELSE t + Offset + 60 * Isdst(t)
<1>1. Shown(t, useUtc) = IF useUtc THEN Broken(t, 0)
                         ELSE Broken(t + Offset + 60 * Isdst(t), Isdst(t))
  BY DEF Shown, Gmtime, Localtime
<1>2. t + Offset + 60 * Isdst(t) \in Int /\ Isdst(t) \in {-1, 0, 1} /\ 0 \in {-1, 0, 1}
  <2>1. Isdst(t) = 0 \/ Isdst(t) = 1
    BY IsdstIs
  <2>2. Offset \in Int
    BY DatesAssumption
  <2> QED
    BY <2>1, <2>2
<1>3. \A s \in Int, i \in {-1, 0, 1} :
        Broken(s, i) \in Times /\ Valid(Broken(s, i)) /\ Minutes(Broken(s, i)) = s
  BY BrokenIs
<1> QED
  BY <1>1, <1>2, <1>3

\* mktime() gives numbers,
LEMMA MktimeType ==
  ASSUME NEW tm, tm \in Times
  PROVE  Mktime(tm) \subseteq Int
<1>1. Minutes(tm) \in Int /\ Offset \in Int
  BY TimesMinutes, DatesAssumption
<1>2. tm.isdst \in Int
  BY DEF Times
<1> DEFINE of(isdst) == Minutes(tm) - Offset - 60 * isdst
<1>3. \A isdst \in Int : of(isdst) \in Int
  BY <1>1
<1>4. \A t \in Mktime(tm) : \E isdst \in {tm.isdst, 0, 1} : t = of(isdst)
  BY DEF Mktime
<1> HIDE DEF of
<1>5. \A isdst \in {tm.isdst, 0, 1} : of(isdst) \in Int
  BY <1>2, <1>3
<1> QED
  BY <1>4, <1>5

\* A time of an hour that is there is found.
LEMMA MktimeIs ==
  ASSUME NEW tm, tm \in Times, tm.isdst = -1, HasHour(Minutes(tm)), NEW t, t \in Mktime(tm)
  PROVE  t \in Int /\ t + Offset + 60 * Isdst(t) = Minutes(tm)
<1>1. Minutes(tm) \in Int /\ Offset \in Int /\ t \in Int
  BY TimesMinutes, MktimeType, DatesAssumption
<1> DEFINE of(isdst) == Minutes(tm) - Offset - 60 * isdst
           right     == {isdst \in {0, 1} : Isdst(of(isdst)) = isdst}
<1>2. right # {}
  BY DEF HasHour
<1>3. Mktime(tm) = {of(isdst) : isdst \in right}
  BY <1>2 DEF Mktime
<1>4. PICK isdst \in right : t = of(isdst)
  BY <1>3
<1>5. Isdst(t) = isdst /\ isdst \in {0, 1}
  BY <1>4
<1>6. t = Minutes(tm) - Offset - 60 * isdst
  BY <1>4
<1> QED
  BY <1>1, <1>5, <1>6

\* as does timegm().
LEMMA TimegmType ==
  ASSUME NEW tm, tm \in Times
  PROVE  Timegm(tm) \in Int
  BY BundledType, TimesMinutes DEF Timegm

\* Fields that are added to.
LEMMA AddedTo ==
  ASSUME NEW tm, tm \in Times, NEW n, n \in Int
  PROVE  LET mday == [tm EXCEPT !.mday = @ + n]
             hour == [tm EXCEPT !.hour = @ + n]
             min  == [tm EXCEPT !.min = @ + n]
         IN  /\ mday \in Times /\ Minutes(mday) = Minutes(tm) + n * 1440
             /\ hour \in Times /\ Minutes(hour) = Minutes(tm) + n * 60
             /\ min \in Times  /\ Minutes(min) = Minutes(tm) + n
<1>1. /\ tm.year \in Int /\ tm.mon \in 0 .. 11 /\ tm.mday \in Int
      /\ tm.hour \in Int /\ tm.min \in Int
  BY DEF Times
<1> DEFINE d == Days(tm.year, tm.mon)
           mday == [tm EXCEPT !.mday = @ + n]
           hour == [tm EXCEPT !.hour = @ + n]
           min  == [tm EXCEPT !.min = @ + n]
<1>2. d \in Int
  BY <1>1, MonthsType
<1>3. mday \in Times /\ hour \in Times /\ min \in Times
  BY DEF Times
<1>4. Minutes(tm) = ((d + tm.mday - 1) * 24 + tm.hour) * 60 + tm.min
  BY DEF Minutes
<1>5. Minutes(mday) = ((d + (tm.mday + n) - 1) * 24 + tm.hour) * 60 + tm.min
  BY DEF Minutes, Times
<1>6. Minutes(hour) = ((d + tm.mday - 1) * 24 + (tm.hour + n)) * 60 + tm.min
  BY DEF Minutes, Times
<1>7. Minutes(min) = ((d + tm.mday - 1) * 24 + tm.hour) * 60 + (tm.min + n)
  BY DEF Minutes, Times
<1> HIDE DEF d, mday, hour, min
<1> QED
  BY <1>1, <1>2, <1>3, <1>4, <1>5, <1>6, <1>7 DEF mday, hour, min

\* An addition adds as much as it says.
LEMMA FieldsAddedIs ==
  ASSUME NEW a, a \in Additions, datetime.tm \in Times
  PROVE  LET new == [FieldsAdded(a) EXCEPT !.isdst = -1] IN
         /\ FieldsAdded(a) \in Times /\ new \in Times /\ new.isdst = -1
         /\ Minutes(new) = Minutes(datetime.tm) + a.n * UnitOf(a.field)
         /\ Normal(FieldsAdded(a)) => Valid(new) /\ new.year >= 1970
<1> DEFINE tm == datetime.tm
           added == FieldsAdded(a)
           new == [added EXCEPT !.isdst = -1]
<1>1. a.field \in {"mday", "hour", "min"} /\ a.n \in Int
  BY DatesAssumption
<1>2. added = CASE a.field = "mday" -> [tm EXCEPT !.mday = @ + a.n]
                [] a.field = "hour" -> [tm EXCEPT !.hour = @ + a.n]
                [] a.field = "min"  -> [tm EXCEPT !.min = @ + a.n]
  BY DEF FieldsAdded
<1>3. UnitOf(a.field) = CASE a.field = "mday" -> 1440 [] a.field = "hour" -> 60
                          [] a.field = "min" -> 1
  BY DEF UnitOf
<1> HIDE DEF tm, added
<1>4. added \in Times /\ Minutes(added) = Minutes(tm) + a.n * UnitOf(a.field)
  <2> DEFINE n == a.n
             mday == [tm EXCEPT !.mday = @ + n]
             hour == [tm EXCEPT !.hour = @ + n]
             min  == [tm EXCEPT !.min = @ + n]
  <2>1. tm \in Times /\ n \in Int
    BY <1>1 DEF tm
  <2>2. /\ mday \in Times /\ Minutes(mday) = Minutes(tm) + n * 1440
        /\ hour \in Times /\ Minutes(hour) = Minutes(tm) + n * 60
        /\ min \in Times  /\ Minutes(min) = Minutes(tm) + n
    <3> HIDE DEF n
    <3> QED
      BY <2>1, AddedTo
  <2>3. CASE a.field = "mday"
    <3>1. added = mday /\ UnitOf(a.field) = 1440
      BY <1>2, <1>3, <2>3
    <3> QED
      BY <2>2, <3>1
  <2>4. CASE a.field = "hour"
    <3>1. added = hour /\ UnitOf(a.field) = 60
      BY <1>2, <1>3, <2>4
    <3> QED
      BY <2>2, <3>1
  <2>5. CASE a.field = "min"
    <3>1. added = min /\ UnitOf(a.field) = 1
      BY <1>2, <1>3, <2>5
    <3>2. n * 1 = n
      BY <2>1
    <3> QED
      BY <2>2, <3>1, <3>2
  <2> QED
    BY <1>1, <2>3, <2>4, <2>5
<1>5. /\ new \in Times /\ new.isdst = -1 /\ new.year = added.year /\ new.mon = added.mon
      /\ new.mday = added.mday /\ new.hour = added.hour /\ new.min = added.min
  BY <1>4 DEF Times
<1> HIDE DEF new
<1>6. Minutes(new) = Minutes(added)
  BY <1>5 DEF Minutes
<1>7. Normal(added) => Valid(new) /\ new.year >= 1970
  BY <1>5 DEF Normal, Valid, Times
<1> QED
  BY <1>4, <1>5, <1>6, <1>7 DEF new, added, tm

\* The inductive invariant: a datetime shows what the clock shows, if that is known.
ClockInv ==
  /\ build \in [strptime : BOOLEAN, timegm : BOOLEAN]
  /\ datetime \in [time : Int, tm : Times, useUtc : BOOLEAN]
  /\ wall \in Int /\ exact \in BOOLEAN
  /\ AdditionsShown

\* A datetime that shows its time.
LEMMA ShowsIt ==
  ASSUME build' \in [strptime : BOOLEAN, timegm : BOOLEAN],
         NEW t, t \in Int, NEW useUtc, useUtc \in BOOLEAN,
         datetime' = [time |-> t, tm |-> Shown(t, useUtc), useUtc |-> useUtc],
         exact' \in BOOLEAN, wall' \in Int, exact' => wall' = Minutes(Shown(t, useUtc))
  PROVE  ClockInv'
<1>1. Shown(t, useUtc) \in Times
  BY ShownType
<1>2. /\ datetime'.tm = Shown(t, useUtc) /\ datetime'.time = t /\ datetime'.useUtc = useUtc
      /\ datetime' \in [time : Int, tm : Times, useUtc : BOOLEAN]
  BY <1>1
<1>3. AdditionsShown'
  BY <1>2 DEF AdditionsShown
<1> QED
  BY <1>2, <1>3 DEF ClockInv

\* A time is set.
LEMMA SetStep ==
  ASSUME ClockInv, NEW t, t \in Int, NEW useUtc, useUtc \in BOOLEAN, Set(t, useUtc), UNCHANGED build
  PROVE  ClockInv'
<1>1. Minutes(Shown(t, useUtc)) \in Int
  BY ShownType, TimesMinutes
<1> QED
  BY <1>1, ShowsIt DEF Set, ClockInv

\* A bw::Datetime comes into being.
LEMMA NewStep ==
  ASSUME ClockInv, Construct \/ ParseDatetime \/ ConstructInvalid
  PROVE  ClockInv'
<1>1. Starts \subseteq Times
  BY DatesAssumption
<1>2. ASSUME NEW tm \in Times, Set(Timegm(tm), FALSE), UNCHANGED build PROVE ClockInv'
  BY <1>2, TimegmType, SetStep
<1>3. ASSUME NEW tm \in Times, NEW t \in Mktime(tm), Set(t, FALSE), UNCHANGED build PROVE ClockInv'
  BY <1>3, MktimeType, SetStep
<1>4. CASE Construct
  <2>1. UNCHANGED build
    BY <1>4 DEF Construct
  <2>2. PICK tm \in Starts :
          \/ Set(Timegm(tm), FALSE)
          \/ \E t \in Mktime([tm EXCEPT !.isdst = -1]) : Set(t, FALSE)
    BY <1>4 DEF Construct
  <2>3. tm \in Times /\ [tm EXCEPT !.isdst = -1] \in Times
    BY <1>1 DEF Times
  <2> QED
    BY <1>2, <1>3, <2>1, <2>2, <2>3
<1>5. CASE ParseDatetime
  <2>1. UNCHANGED build
    BY <1>5 DEF ParseDatetime
  <2> DEFINE Passed(tm) == [tm EXCEPT !.hour = tm.mon, !.isdst = -1]
  <2>2. PICK tm \in Starts :
          Set(Timegm(Passed(tm)), FALSE) \/ \E t \in Mktime(Passed(tm)) : Set(t, FALSE)
    BY <1>5 DEF ParseDatetime
  <2>3. Passed(tm) \in Times
    <3> DEFINE h == [tm EXCEPT !.hour = tm.mon]
    <3>1. tm \in Times /\ tm.mon \in Int
      BY <1>1 DEF Times
    <3>2. h \in Times
      BY <3>1 DEF Times
    <3>3. Passed(tm) = [h EXCEPT !.isdst = -1]
      BY <3>1 DEF Times
    <3> HIDE DEF h, Passed
    <3> QED
      BY <3>2, <3>3 DEF Times
  <2> HIDE DEF Passed
  <2> QED
    BY <1>2, <1>3, <2>1, <2>2, <2>3
<1>6. CASE ConstructInvalid
  <2>1. /\ UNCHANGED build /\ wall' = 0 /\ exact' = FALSE
        /\ \E tm \in Starts : datetime' = [time |-> 0, tm |-> tm, useUtc |-> FALSE]
    BY <1>6 DEF ConstructInvalid
  <2>2. datetime' \in [time : Int, tm : Times, useUtc : BOOLEAN]
    BY <1>1, <2>1
  <2>3. AdditionsShown'
    BY <2>1 DEF AdditionsShown
  <2>4. build' \in [strptime : BOOLEAN, timegm : BOOLEAN]
    BY <2>1 DEF ClockInv
  <2>5. wall' \in Int /\ exact' \in BOOLEAN
    <3>1. wall' = 0
      BY <2>1
    <3>2. exact' = FALSE
      BY <2>1
    <3>3. exact' \in BOOLEAN
      BY <3>2, Zenon
    <3> QED
      BY <3>1, <3>3
  <2> QED
    BY <2>2, <2>3, <2>4, <2>5 DEF ClockInv
<1> QED
  BY <1>4, <1>5, <1>6

\* Something is added to it.
LEMMA AddStep ==
  ASSUME ClockInv, NEW a \in Additions, Add(a)
  PROVE  ClockInv'
<1> DEFINE tm == datetime.tm
           new == [FieldsAdded(a) EXCEPT !.isdst = -1]
           sum == wall + a.n * UnitOf(a.field)
<1>1. /\ build \in [strptime : BOOLEAN, timegm : BOOLEAN] /\ UNCHANGED build
      /\ datetime \in [time : Int, tm : Times, useUtc : BOOLEAN] /\ tm \in Times
      /\ wall \in Int /\ exact \in BOOLEAN
      /\ exact => Minutes(tm) = wall
  BY DEF ClockInv, AdditionsShown, Add
<1>2. /\ new \in Times /\ new.isdst = -1
      /\ Minutes(new) = Minutes(tm) + a.n * UnitOf(a.field)
      /\ Normal(FieldsAdded(a)) => Valid(new) /\ new.year >= 1970
  BY <1>1, FieldsAddedIs
<1>3. /\ FillTime(FieldsAdded(a)) /\ wall' = sum
      /\ exact' = (exact /\ IF datetime.useUtc
                              THEN build.timegm \/ Normal(FieldsAdded(a)) ELSE HasHour(wall'))
  BY DEF Add
<1>4. sum \in Int
  <2>1. a.n \in Int /\ UnitOf(a.field) \in {1440, 60, 1}
    BY DatesAssumption DEF UnitOf
  <2>2. \A u \in {1440, 60, 1} : a.n * u \in Int
    BY <2>1
  <2>3. a.n * UnitOf(a.field) \in Int
    BY <2>1, <2>2
  <2> QED
    BY <1>1, <2>3
<1>5. exact' \in BOOLEAN /\ (exact' => exact /\ Minutes(new) = wall')
  BY <1>1, <1>2, <1>3
<1>6. Timegm(new) \in Int
  BY <1>2, TimegmType
<1>7. IF datetime.useUtc
        THEN datetime' = [datetime EXCEPT !.time = Timegm(new),
                                          !.tm = IF build.timegm THEN Gmtime(Timegm(new)) ELSE new]
        ELSE \E t \in Mktime(new) : datetime' = [datetime EXCEPT !.time = t, !.tm = Localtime(t)]
  BY <1>3 DEF FillTime
<1> HIDE DEF new, sum
<1>8. CASE ~datetime.useUtc
  <2>1. PICK t \in Mktime(new) : datetime' = [datetime EXCEPT !.time = t, !.tm = Localtime(t)]
    BY <1>7, <1>8
  <2>2. t \in Int
    BY <1>2, MktimeType
  <2>3. datetime' = [time |-> t, tm |-> Shown(t, FALSE), useUtc |-> FALSE]
    BY <1>1, <1>8, <2>1 DEF Shown
  <2>4. exact' => wall' = Minutes(Shown(t, FALSE))
    <3>1. SUFFICES ASSUME exact' PROVE wall' = Minutes(Shown(t, FALSE))
      OBVIOUS
    <3>2. HasHour(Minutes(new)) /\ Minutes(new) = wall'
      BY <1>3, <1>5, <1>8, <3>1
    <3>3. t + Offset + 60 * Isdst(t) = Minutes(new)
      BY <1>2, <3>2, MktimeIs
    <3> QED
      BY <2>2, <3>2, <3>3, ShownType
  <2> QED
    BY <1>1, <1>3, <1>4, <1>5, <2>2, <2>3, <2>4, ShowsIt
<1>9. CASE datetime.useUtc /\ build.timegm
  <2>1. datetime' = [time |-> Timegm(new), tm |-> Shown(Timegm(new), TRUE), useUtc |-> TRUE]
    BY <1>1, <1>7, <1>9 DEF Shown
  <2>2. Timegm(new) = Minutes(new)
    BY <1>9 DEF Timegm
  <2>3. exact' => wall' = Minutes(Shown(Timegm(new), TRUE))
    BY <1>5, <1>6, <2>2, ShownType
  <2> QED
    BY <1>1, <1>3, <1>4, <1>5, <1>6, <2>1, <2>3, ShowsIt
<1>10. CASE datetime.useUtc /\ ~build.timegm
  <2>1. datetime' = [time |-> Timegm(new), tm |-> new, useUtc |-> TRUE]
    BY <1>1, <1>7, <1>10
  <2>2. /\ datetime'.time = Timegm(new) /\ datetime'.tm = new /\ datetime'.useUtc
        /\ datetime' \in [time : Int, tm : Times, useUtc : BOOLEAN]
    BY <1>2, <1>6, <2>1
  <2>3. AdditionsShown'
    <3>1. SUFFICES ASSUME exact' PROVE AdditionsShown'
      BY DEF AdditionsShown
    <3>2. Valid(new) /\ new.year >= 1970 /\ Minutes(new) = wall'
      <4>1. Normal(FieldsAdded(a))
        BY <1>3, <1>10, <3>1
      <4>2. Minutes(new) = wall'
        BY <1>5, <3>1
      <4> QED
        BY <1>2, <4>1, <4>2
    <3>3. Timegm(new) = Minutes(new)
      BY <1>10, <3>2, BundledIs DEF Timegm
    <3> DEFINE shown == Broken(Minutes(new), 0)
    <3>4. /\ shown.year = new.year /\ shown.mon = new.mon /\ shown.mday = new.mday
          /\ shown.hour = new.hour /\ shown.min = new.min
      BY <3>2, ShownAgain
    <3>5. Shown(datetime'.time, datetime'.useUtc) = shown
      BY <2>2, <3>3 DEF Shown, Gmtime
    <3>6. \A field \in {"year", "mon", "mday", "hour", "min"} : new[field] = shown[field]
      BY <3>4
    <3> HIDE DEF shown
    <3>7. ~build'.timegm
      BY <1>1, <1>10
    <3>8. Minutes(datetime'.tm) = wall'
      BY <2>2, <3>2
    <3>9. \A field \in {"year", "mon", "mday", "hour", "min"} :
            datetime'.tm[field] = Shown(datetime'.time, datetime'.useUtc)[field]
      BY <2>2, <3>5, <3>6
    <3>10. ~(build'.timegm \/ ~datetime'.useUtc)
      BY <2>2, <3>7
    <3> QED
      BY <3>8, <3>9, <3>10 DEF AdditionsShown
  <2> QED
    BY <1>1, <1>3, <1>4, <1>5, <2>2, <2>3 DEF ClockInv
<1> QED
  BY <1>1, <1>8, <1>9, <1>10

\* What is added to a bw::Datetime moves its clock by just as much, for any times and
\* additions, and any rule of summer time.
THEOREM ClockIsRight == DatesSpec => []AdditionsShown
<1>1. DatesInit => ClockInv
  <2>1. SUFFICES ASSUME DatesInit PROVE ClockInv
    OBVIOUS
  <2>2. Gmtime(0) \in Times
    <3>1. 0 \in Int /\ 0 \in {-1, 0, 1}
      OBVIOUS
    <3>2. Broken(0, 0) \in Times
      BY <3>1, BrokenIs
    <3> QED
      BY <3>2 DEF Gmtime
  <2>3. ~exact /\ exact \in BOOLEAN
    BY <2>1 DEF DatesInit
  <2>4. /\ build \in [strptime : BOOLEAN, timegm : BOOLEAN] /\ wall \in Int
        /\ datetime = [time |-> 0, tm |-> Gmtime(0), useUtc |-> FALSE]
    BY <2>1 DEF DatesInit
  <2>5. datetime \in [time : Int, tm : Times, useUtc : BOOLEAN]
    BY <2>2, <2>4
  <2>6. AdditionsShown
    BY <2>3 DEF AdditionsShown
  <2> QED
    BY <2>3, <2>4, <2>5, <2>6 DEF ClockInv
<1>2. ClockInv /\ [DatesNext]_dates => ClockInv'
  <2> SUFFICES ASSUME ClockInv, [DatesNext]_dates PROVE ClockInv'
    OBVIOUS
  <2>1. CASE ReadText
    BY <2>1 DEF ReadText, ClockInv, AdditionsShown
  <2>2. CASE Construct \/ ParseDatetime \/ ConstructInvalid
    BY <2>2, NewStep
  <2>3. ASSUME NEW useUtc \in BOOLEAN, SetUseUtc(useUtc) PROVE ClockInv'
    <3>1. datetime.time \in Int /\ Set(datetime.time, useUtc) /\ UNCHANGED build
      BY <2>3 DEF SetUseUtc, ClockInv
    <3> QED
      BY <3>1, SetStep
  <2>4. ASSUME NEW a \in Additions, Add(a) PROVE ClockInv'
    BY <2>4, AddStep
  <2>5. CASE UNCHANGED dates
    BY <2>5 DEF dates, ClockInv, AdditionsShown
  <2> QED
    BY <2>1, <2>2, <2>3, <2>4, <2>5 DEF DatesNext
<1>3. ClockInv => AdditionsShown
  BY DEF ClockInv
<1> QED
  BY <1>1, <1>2, <1>3, PTL DEF DatesSpec

-----------------------------------------------------------------------------
(* Dates: a core::DateTime                                                 *)

\* Without its century a year has the century that its reader takes it for.
LEMMA Century ==
  ASSUME NEW year \in Nat, NEW pivot \in {30, 69}
  PROVE  LET y == year % 100
             z == y + (IF y < pivot THEN 2000 ELSE 1900)
         IN  z \in Int /\ z % 100 = y /\ (Leap(year) => Leap(z))
<1> DEFINE y == year % 100
           z == y + (IF y < pivot THEN 2000 ELSE 1900)
<1>1. y \in 0 .. 99
  OBVIOUS
<1>2. z \in Int /\ z % 100 = y
  <2> HIDE DEF y
  <2> QED
    BY <1>1
<1>3. ASSUME Leap(year) PROVE Leap(z)
  <2>1. year % 4 = 0
    BY <1>3 DEF Leap
  <2>2. y % 4 = 0
    BY <2>1
  <2> HIDE DEF y
  <2>3. CASE y < pivot
    <3>1. z = y + 2000
      BY <2>3
    <3> HIDE DEF z
    <3>2. z % 4 = 0 /\ (z % 100 = 0 => z % 400 = 0)
      BY <1>1, <2>2, <3>1
    <3> QED
      BY <3>2 DEF Leap
  <2>4. CASE ~(y < pivot)
    <3>1. z = y + 1900 /\ y # 0
      BY <1>1, <2>4
    <3> HIDE DEF z
    <3>2. z % 4 = 0 /\ z % 100 # 0
      BY <1>1, <2>2, <3>1
    <3> QED
      BY <3>2 DEF Leap
  <2> QED
    BY <2>3, <2>4
<1> QED
  BY <1>2, <1>3

\* How a text is read: what it shows in a format, with a century.
Pivot == IF build.strptime THEN 69 ELSE 30
YearOf(text, format) ==
  LET y == text.year % 100
  IN  IF format.short THEN y + (IF y < Pivot THEN 2000 ELSE 1900) ELSE text.year
TmOf(text, format) ==
  Tm(YearOf(text, format), text.month, text.day, IF format.time THEN text.hour ELSE 0,
     IF format.time THEN text.minute ELSE 0, 0)

\* A text is read.
LEMMA TextRead ==
  ASSUME NEW text, text \in Texts, NEW format, format \in Formats,
         ~format.time \/ build.strptime
  PROVE  LET tm == TmOf(text, format) IN
         /\ Valid(tm) /\ Minutes(tm) \in Int
         /\ tm.year = YearOf(text, format) /\ tm.mon = text.month - 1 /\ tm.mday = text.day
         /\ tm.hour = (IF format.time THEN text.hour ELSE 0)
         /\ tm.min = (IF format.time THEN text.minute ELSE 0)
         /\ TimeOf(text, format) = Minutes(tm) - Offset
<1> DEFINE tm == TmOf(text, format)
           shown == InFormat(text, format)
           year == YearOf(text, format)
<1>1. /\ text.year \in Nat /\ text.month \in 1 .. 12
      /\ text.day \in 1 .. Ndays(text.year, text.month - 1)
      /\ text.hour \in 0 .. 23 /\ text.minute \in 0 .. 59
  BY TextsAssumption
<1>2. year \in Int /\ (Leap(text.year) => Leap(year))
  <2>1. CASE format.short
    <3>1. Pivot \in {30, 69}
      BY DEF Pivot
    <3> QED
      BY <1>1, <2>1, <3>1, Century DEF YearOf
  <2>2. CASE ~format.short
    BY <1>1, <2>2 DEF YearOf
  <2> QED
    BY <2>1, <2>2
<1>3. /\ tm.year = year /\ tm.mon = text.month - 1 /\ tm.mday = text.day
      /\ tm.hour = (IF format.time THEN text.hour ELSE 0)
      /\ tm.min = (IF format.time THEN text.minute ELSE 0) /\ tm.isdst = 0
  BY DEF TmOf, Tm
<1>4. TimeOf(text, format) = CHOOSE t \in Mktime(tm) : TRUE
  <2>1. /\ shown.year = (IF format.short THEN text.year % 100 ELSE text.year)
        /\ shown.month = text.month /\ shown.day = text.day
        /\ shown.hour = (IF format.time THEN text.hour ELSE 0)
        /\ shown.minute = (IF format.time THEN text.minute ELSE 0)
    BY DEF InFormat
  <2> HIDE DEF shown
  <2>2. (IF build.strptime THEN Strptime(shown, format) ELSE Sscanf(shown, format)) = tm
    <3>1. CASE build.strptime
      BY <2>1, <3>1 DEF Strptime, TmOf, YearOf, Pivot
    <3>2. CASE ~build.strptime
      BY <2>1, <3>2 DEF Sscanf, TmOf, YearOf, Pivot
    <3> QED
      BY <3>1, <3>2
  <2> HIDE DEF tm
  <2> QED
    BY <2>2 DEF TimeOf, shown
<1> HIDE DEF tm, year
<1>5. Valid(tm)
  <2>1. text.month - 1 \in 0 .. 11
    BY <1>1
  <2>2. Ndays(text.year, text.month - 1) <= Ndays(year, text.month - 1)
    BY <1>2, <2>1 DEF Ndays
  <2>3. Ndays(text.year, text.month - 1) \in 28 .. 31 /\ Ndays(year, text.month - 1) \in 28 .. 31
    <3>1. text.year \in Int
      BY <1>1
    <3>2. \A y \in Int, mon \in 0 .. 11 : Ndays(y, mon) \in 28 .. 31
      BY MonthLength
    <3> QED
      BY <1>2, <2>1, <3>1, <3>2
  <2>4. text.day \in 1 .. Ndays(year, text.month - 1)
    BY <1>1, <2>2, <2>3
  <2> QED
    BY <1>1, <1>2, <1>3, <2>1, <2>4 DEF Valid
<1>6. Minutes(tm) \in Int
  BY <1>5, ShownAgain
<1>7. Mktime(tm) = {Minutes(tm) - Offset}
  <2>1. Mktime(tm) = {Minutes(tm) - Offset - 60 * 0}
    BY <1>3 DEF Mktime
  <2> QED
    BY <1>6, <2>1, DatesAssumption
<1>8. TimeOf(text, format) = Minutes(tm) - Offset
  BY <1>4, <1>7
<1> QED
  BY <1>3, <1>5, <1>6, <1>8 DEF tm, year

\* An hour after midnight is on the same day.
LEMMA HourLater ==
  ASSUME NEW tm, Valid(tm), tm.hour = 0, NEW isdst \in {-1, 0, 1}
  PROVE  LET shown == Broken(Minutes(tm) + 60, isdst) IN
         shown.year = tm.year /\ shown.mon = tm.mon /\ shown.mday = tm.mday
<1> DEFINE later == [year |-> tm.year, mon |-> tm.mon, mday |-> tm.mday, hour |-> 1,
                     min |-> tm.min]
<1>1. Valid(later) /\ later.year = tm.year /\ later.mon = tm.mon /\ later.mday = tm.mday
  BY DEF Valid
<1>2. /\ tm.year \in Int /\ tm.mon \in 0 .. 11 /\ tm.mday \in 1 .. Ndays(tm.year, tm.mon)
      /\ tm.min \in 0 .. 59
  BY DEF Valid
<1>3. Minutes(later) = Minutes(tm) + 60
  <2> DEFINE d == Days(tm.year, tm.mon) + tm.mday - 1
  <2>1. Days(tm.year, tm.mon) \in Int /\ Ndays(tm.year, tm.mon) \in 28 .. 31
    BY <1>2, MonthLength
  <2>2. d \in Int /\ tm.min \in Int
    BY <1>2, <2>1
  <2>3. Minutes(later) = (d * 24 + 1) * 60 + tm.min /\ Minutes(tm) = (d * 24 + 0) * 60 + tm.min
    BY DEF Minutes
  <2> HIDE DEF d
  <2> QED
    BY <2>2, <2>3
<1> HIDE DEF later
<1> QED
  BY <1>1, <1>3, ShownAgain

\* What was read is printed as it was.
LEMMA TextKept ==
  ASSUME NEW text, text \in Texts, NEW format, format \in Formats,
         ~format.time \/ build.strptime,
         ~format.time \/ ~Summer(TimeOf(text, format))
  PROVE  DateTimeString(TimeOf(text, format), format) = InFormat(text, format)
<1> DEFINE tm == TmOf(text, format)
           t  == TimeOf(text, format)
           local == Localtime(t)
<1>1. /\ Valid(tm) /\ Minutes(tm) \in Int
      /\ tm.year = YearOf(text, format) /\ tm.mon = text.month - 1 /\ tm.mday = text.day
      /\ tm.hour = (IF format.time THEN text.hour ELSE 0)
      /\ tm.min = (IF format.time THEN text.minute ELSE 0)
      /\ t = Minutes(tm) - Offset
  BY TextRead
<1>2. text.year \in Nat /\ text.month \in Int
  <2>1. text.month \in 1 .. 12 /\ text.year \in Nat
    BY TextsAssumption
  <2> QED
    BY <2>1
<1>3. ~format.time \/ ~Summer(t)
  OBVIOUS
<1> HIDE DEF tm, t
<1>4. local = Broken(t + Offset + 60 * Isdst(t), Isdst(t)) /\ Isdst(t) \in {0, 1}
  BY IsdstIs DEF Localtime
<1>5. t + Offset = Minutes(tm)
  BY <1>1, DatesAssumption
<1> HIDE DEF local
<1>6. /\ local.year = tm.year /\ local.mon = tm.mon /\ local.mday = tm.mday
      /\ format.time => local.hour = tm.hour /\ local.min = tm.min
  <2>1. CASE ~Summer(t)
    <3>1. Isdst(t) = 0
      BY <2>1, IsdstIs
    <3>2. t + Offset + 60 * Isdst(t) = Minutes(tm)
      BY <1>1, <1>5, <3>1
    <3>3. local = Broken(Minutes(tm), 0) /\ 0 \in {-1, 0, 1}
      BY <1>4, <3>1, <3>2
    <3> QED
      BY <1>1, <3>3, ShownAgain
  <2>2. CASE Summer(t)
    <3>1. Isdst(t) = 1 /\ ~format.time
      BY <1>3, <2>2, IsdstIs
    <3>2. t + Offset + 60 * Isdst(t) = Minutes(tm) + 60
      BY <1>1, <1>5, <3>1
    <3>3. local = Broken(Minutes(tm) + 60, 1) /\ 1 \in {-1, 0, 1} /\ tm.hour = 0
      BY <1>1, <1>4, <3>1, <3>2
    <3> QED
      BY <1>1, <3>1, <3>3, HourLater
  <2> QED
    BY <2>1, <2>2
<1>7. (IF format.short THEN local.year % 100 ELSE local.year)
        = (IF format.short THEN text.year % 100 ELSE text.year)
  <2>1. CASE format.short
    <3>1. Pivot \in {30, 69}
      BY DEF Pivot
    <3>2. YearOf(text, format) % 100 = text.year % 100
      BY <1>2, <2>1, <3>1, Century DEF YearOf
    <3> QED
      BY <1>1, <1>6, <2>1, <3>2
  <2>2. CASE ~format.short
    BY <1>1, <1>6, <2>2 DEF YearOf
  <2> QED
    BY <2>1, <2>2
<1>8. local.mon + 1 = text.month /\ local.mday = text.day
  BY <1>1, <1>2, <1>6
<1>9. /\ (IF format.time THEN local.hour ELSE 0) = (IF format.time THEN text.hour ELSE 0)
      /\ (IF format.time THEN local.min ELSE 0) = (IF format.time THEN text.minute ELSE 0)
  BY <1>1, <1>6
<1>10. DateTimeString(t, format) =
         [year |-> IF format.short THEN local.year % 100 ELSE local.year,
          month |-> local.mon + 1, day |-> local.mday,
          hour |-> IF format.time THEN local.hour ELSE 0,
          minute |-> IF format.time THEN local.min ELSE 0]
  BY DEF DateTimeString, InFormat, local
<1>11. DateTimeString(t, format) = InFormat(text, format)
  BY <1>7, <1>8, <1>9, <1>10 DEF InFormat
<1> QED
  BY <1>11 DEF t

\* Times are in the order of their texts.
LEMMA OrderKept ==
  ASSUME NEW text, text \in Texts, NEW other, other \in Texts, NEW format, format \in Formats,
         ~format.time \/ build.strptime, ~format.short,
         Later(InFormat(other, format), InFormat(text, format))
  PROVE  Difference(TimeOf(other, format), TimeOf(text, format)) > 0
<1> DEFINE Shows(x) == InFormat(x, format)
           Of(x) == Minutes(Tm(Shows(x).year, Shows(x).month, Shows(x).day,
                               Shows(x).hour, Shows(x).minute, 0))
<1>1. Of(other) > Of(text)
  BY DEF Later
<1>2. ASSUME NEW x \in Texts
      PROVE  Of(x) = Minutes(TmOf(x, format)) /\ Minutes(TmOf(x, format)) \in Int
             /\ TimeOf(x, format) = Minutes(TmOf(x, format)) - Offset
  <2>1. /\ Shows(x).year = x.year /\ Shows(x).month = x.month /\ Shows(x).day = x.day
        /\ Shows(x).hour = (IF format.time THEN x.hour ELSE 0)
        /\ Shows(x).minute = (IF format.time THEN x.minute ELSE 0)
    BY DEF InFormat
  <2> HIDE DEF Shows
  <2>2. Of(x) = Minutes(TmOf(x, format))
    BY <2>1 DEF TmOf, YearOf
  <2> QED
    BY <2>2, TextRead
<1> HIDE DEF Of
<1>3. Offset \in Int
  BY DatesAssumption
<1> QED
  BY <1>1, <1>2, <1>3 DEF Difference

\* What has been read was read of a text.
ReadInv ==
  \A r \in read : r.text \in Texts /\ r.format \in Formats /\ r.time = TimeOf(r.text, r.format)

\* A date that is read is printed as it was and ordered as it was, for any texts, formats and
\* rules of summer time.
THEOREM TextsKept == DatesSpec => []DateTextKept
<1>1. DatesInit => ReadInv
  BY DEF DatesInit, ReadInv
<1>2. ReadInv /\ [DatesNext]_dates => ReadInv'
  <2> SUFFICES ASSUME ReadInv, [DatesNext]_dates PROVE ReadInv'
    OBVIOUS
  <2>1. CASE ReadText
    <3>1. PICK text \in Texts, format \in Formats :
            read' = {[text |-> text, format |-> format, time |-> TimeOf(text, format)]}
      BY <2>1 DEF ReadText
    <3>2. TimeOf(text, format)' = TimeOf(text, format)
      BY <2>1 DEF ReadText, TimeOf
    <3>3. ASSUME NEW r \in read'
          PROVE  r.text \in Texts /\ r.format \in Formats /\ r.time = TimeOf(r.text, r.format)'
      <4>1. r.text = text /\ r.format = format /\ r.time = TimeOf(text, format)
        BY <3>1, <3>3
      <4> QED
        BY <3>2, <4>1
    <3> QED
      BY <3>3 DEF ReadInv
  <2>2. CASE UNCHANGED <<build, read>>
    BY <2>2 DEF ReadInv, TimeOf
  <2> QED
    BY <2>1, <2>2 DEF DatesNext, Construct, ParseDatetime, ConstructInvalid, SetUseUtc, Add, dates
<1>3. ReadInv => DateTextKept
  <2> SUFFICES ASSUME ReadInv, NEW r \in read, ~r.format.time \/ build.strptime
               PROVE  LET text == InFormat(r.text, r.format) IN
                      /\ ~r.format.time \/ ~Summer(r.time) =>
                            DateTimeString(r.time, r.format) = text
                      /\ ~r.format.short =>
                           \A other \in Texts : Later(InFormat(other, r.format), text) =>
                             Difference(TimeOf(other, r.format), r.time) > 0
    BY DEF DateTextKept
  <2>1. r.text \in Texts /\ r.format \in Formats /\ r.time = TimeOf(r.text, r.format)
    BY DEF ReadInv
  <2>2. ~r.format.time \/ ~Summer(r.time) =>
          DateTimeString(r.time, r.format) = InFormat(r.text, r.format)
    BY <2>1, TextKept
  <2>3. ~r.format.short =>
          \A other \in Texts : Later(InFormat(other, r.format), InFormat(r.text, r.format)) =>
            Difference(TimeOf(other, r.format), r.time) > 0
    BY <2>1, OrderKept
  <2> QED
    BY <2>2, <2>3
<1> QED
  BY <1>1, <1>2, <1>3, PTL DEF DatesSpec
=============================================================================

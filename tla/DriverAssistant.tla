--------------------------- MODULE DriverAssistant ---------------------------
(***************************************************************************)
(* The assistant of usbprog-gui that installs the USB driver on Windows    *)
(* (gui/driverassistant.cc): it downloads Zadig into a directory of its    *)
(* own (usbprog/tempdir.cc), writes two files beside it, and starts it     *)
(* (gui/zadigrunner.cc).                                                   *)
(*                                                                         *)
(* Names of directories are drawn from qrand(), which nobody seeds, and    *)
(* mkpath() is content with a directory that exists: the n-th assistant of *)
(* one program and the n-th of another one, or of one that was killed,     *)
(* have the same directory.                                                *)
(***************************************************************************)
EXTENDS Integers

CONSTANTS
  Programs,     \* instances of usbprog-gui
  MaxNames      \* bound: directories that each program draws

ASSUME DriverAssistantAssumption == MaxNames \in [Programs -> Nat]

VARIABLES
  dirs,         \* the temporary directories that there are
  files,        \* files[d][f]: what is in a file of a directory
  assistant,    \* the assistant of each program
  names,        \* how many names a program has drawn
  cwd,          \* the working directory of a program
  zadigs,       \* where Zadig runs, and who has started it
  left          \* history: directories that a kill, Zadig or a second user keeps

assistants == <<dirs, files, assistant, names, cwd, zadigs, left>>

\* Where no directory could be made, path() is empty: that is the working directory of the
\* program, which here is the one it was started in.
Current == 0
Dirs == UNION {1 .. MaxNames[p] : p \in Programs}

FileNames == {"zadig.exe", "zadig.ini", "usbprog.cfg"}
\* "written" is what streams have written, of which nobody asks how much it is.
Contents == {"none", "part", "whole", "written"}
NoFiles == [f \in FileNames |-> "none"]

\* reply: where downloadFinishedSlot() is, or that the reply is still to come.
\* history: alone, nobody else has had the directory since it was opened.
Assistant == [page : {"closed", "intro", "download", "run"}, dir : {Current} \cup Dirs,
              replies : Nat, slot : {"none", "exe", "ini", "cfg"},
              startButton : BOOLEAN, downloadComplete : BOOLEAN, toolStarted : BOOLEAN,
              alone : BOOLEAN]

\* A new DriverAssistant, and an ended one, which is as new.
Fresh(page, dir, alone) ==
  [page |-> page, dir |-> dir, replies |-> 0, slot |-> "none", startButton |-> TRUE,
   downloadComplete |-> FALSE, toolStarted |-> FALSE, alone |-> alone]

Closed == Fresh("closed", Current, TRUE)

IsOpen(p) == assistant[p].page # "closed"
Users(d) == {p \in Programs : IsOpen(p) /\ assistant[p].dir = d}

\* The user may do something: no slot is running.
At(p, page) == assistant[p].page = page /\ assistant[p].slot = "none"

Becomes(p, a) == assistant' = [assistant EXCEPT ![p] = a]

-----------------------------------------------------------------------------
(* Tempdir                                                                 *)

\* create(), and beside an assistant that has the directory already nobody is alone.
CreateTempdir(p) ==
  LET d == names[p] + 1
  IN  /\ names' = [names EXCEPT ![p] = d]
      /\ \/ /\ dirs' = dirs \cup {d} /\ left' = left \ {d}
            /\ assistant' = [q \in Programs |->
                 IF q = p THEN Fresh("intro", d, Users(d) = {})
                 ELSE [assistant[q] EXCEPT !.alone = @ /\ q \notin Users(d)]]
         \/ Becomes(p, Fresh("intro", Current, FALSE)) /\ UNCHANGED <<dirs, left>>

\* Windows removes no program that runs and no file that somebody has open, and no
\* directory that somebody works in.
ExeHeld(d) ==
  \/ \E z \in zadigs : z[2] = d
  \/ \E q \in Users(d) : assistant[q].slot \in {"ini", "cfg", "exe"}

DirHeld(d) == ExeHeld(d) \/ \E q \in Programs : cwd[q] = d

\* (A wrong variant: only an empty directory.)
RemoveEmpty(d) ==
  IF d = Current \/ d \notin dirs \/ files[d] # NoFiles THEN UNCHANGED <<dirs, files, left>>
  ELSE /\ dirs' = IF DirHeld(d) THEN dirs ELSE dirs \ {d}
       /\ left' = IF DirHeld(d) THEN left \cup {d} ELSE left \ {d}
       /\ UNCHANGED files

\* remove(), in the order of the names and up to the first file that stays.
Remove(d) ==
  IF d = Current \/ d \notin dirs THEN UNCHANGED <<dirs, files, left>>
  ELSE /\ files' = [files EXCEPT ![d] =
                      IF ExeHeld(d) /\ @["zadig.exe"] # "none"
                        THEN [@ EXCEPT !["usbprog.cfg"] = "none"] ELSE NoFiles]
       /\ dirs' = IF DirHeld(d) THEN dirs ELSE dirs \ {d}
       /\ left' = IF DirHeld(d) THEN left \cup {d} ELSE left \ {d}

-----------------------------------------------------------------------------
(* The pages                                                               *)

\* installDriver()
InstallDriver(p) ==
  /\ At(p, "closed") /\ names[p] < MaxNames[p]
  /\ CreateTempdir(p)
  /\ UNCHANGED <<files, cwd, zadigs>>

TurnTo(p, page) ==
  /\ Becomes(p, [assistant[p] EXCEPT !.page = page])
  /\ UNCHANGED <<dirs, files, names, cwd, zadigs, left>>

\* "Next" waits for isComplete().
NextPage(p) ==
  \/ At(p, "intro") /\ TurnTo(p, "download")
  \/ At(p, "download") /\ assistant[p].downloadComplete /\ TurnTo(p, "run")

PreviousPage(p) ==
  \/ At(p, "run") /\ TurnTo(p, "download")
  \/ At(p, "download") /\ TurnTo(p, "intro")

\* (A wrong variant: the button stays enabled.  Bound: two downloads.)
StartDownloadTwice(p) ==
  /\ At(p, "download") /\ assistant[p].startButton /\ assistant[p].replies < 2
  /\ Becomes(p, [assistant[p] EXCEPT !.replies = @ + 1])
  /\ UNCHANGED <<dirs, files, names, cwd, zadigs, left>>

StartDownload(p) ==
  /\ At(p, "download") /\ assistant[p].startButton
  /\ Becomes(p, [assistant[p] EXCEPT !.replies = @ + 1, !.startButton = FALSE])
  /\ UNCHANGED <<dirs, files, names, cwd, zadigs, left>>

\* ~DriverAssistant(), after "Finish", which waits for isComplete(), or "Cancel".
Finish(p) ==
  /\ At(p, "run") /\ assistant[p].toolStarted
  /\ Becomes(p, Closed) /\ Remove(assistant[p].dir)
  /\ UNCHANGED <<names, cwd, zadigs>>

Cancel(p) ==
  /\ IsOpen(p) /\ assistant[p].slot = "none"
  /\ Becomes(p, Closed) /\ Remove(assistant[p].dir)
  /\ UNCHANGED <<names, cwd, zadigs>>

-----------------------------------------------------------------------------
(* ZadigRunner                                                             *)

\* The directory of an assistant, which another one may have removed.
Exists(p) == assistant[p].dir \in dirs \cup {Current}

Write(p, f, content) == files' = [files EXCEPT ![assistant[p].dir][f] = content]

\* (A wrong variant: the button stays disabled, and the user cannot try again.)
DownloadErrorForGood(p, replies) ==
  Becomes(p, [assistant[p] EXCEPT !.replies = replies, !.slot = "none"])

\* showDownloadError()
DownloadError(p, replies) ==
  Becomes(p, [assistant[p] EXCEPT !.replies = replies, !.slot = "none", !.startButton = TRUE])

Arriving(p) == IsOpen(p) /\ assistant[p].replies > 0 /\ assistant[p].slot = "none"
InSlot(p, slot) == assistant[p].slot = slot

DownloadFails(p) ==
  /\ Arriving(p)
  /\ DownloadError(p, assistant[p].replies - 1)
  /\ UNCHANGED <<dirs, files, names, cwd, zadigs, left>>

\* downloadFinishedSlot(): zadig.exe is opened, and open until the slot returns.  A
\* program that runs cannot be written.
OpenExe(p) ==
  /\ Arriving(p) /\ Exists(p) /\ \A z \in zadigs : z[2] # assistant[p].dir
  /\ Write(p, "zadig.exe", "part")
  /\ Becomes(p, [assistant[p] EXCEPT !.replies = @ - 1, !.slot = "exe"])
  /\ UNCHANGED <<dirs, names, cwd, zadigs, left>>

WriteExe(p) ==
  /\ InSlot(p, "exe")
  /\ Write(p, "zadig.exe", "whole")
  /\ Becomes(p, [assistant[p] EXCEPT !.slot = "ini"])
  /\ UNCHANGED <<dirs, names, cwd, zadigs, left>>

\* generateConfigurationFiles().
WriteIni(p) ==
  /\ InSlot(p, "ini")
  /\ Write(p, "zadig.ini", "written")
  /\ Becomes(p, [assistant[p] EXCEPT !.slot = "cfg"])
  /\ UNCHANGED <<dirs, names, cwd, zadigs, left>>

WriteCfg(p) ==
  /\ InSlot(p, "cfg")
  /\ Write(p, "usbprog.cfg", "written")
  /\ Becomes(p, [assistant[p] EXCEPT !.slot = "none", !.downloadComplete = TRUE])
  /\ UNCHANGED <<dirs, names, cwd, zadigs, left>>

\* write() has written less, or one of the other files cannot be opened.
SlotFails(p) ==
  /\ assistant[p].slot # "none"
  /\ DownloadError(p, assistant[p].replies)
  /\ UNCHANGED <<dirs, files, names, cwd, zadigs, left>>

\* startTool(): the program that is started works where usbprog-gui does for the moment.
\* If the way back fails the tool runs all the same.
StartTool(p) ==
  LET d == assistant[p].dir
  IN  /\ At(p, "run") /\ d \in dirs /\ files[d]["zadig.exe"] # "none"
      /\ zadigs' = zadigs \cup {<<p, d>>}
      /\ \E back \in BOOLEAN :
           /\ Becomes(p, [assistant[p] EXCEPT !.toolStarted = back])
           /\ cwd' = IF back THEN cwd ELSE [cwd EXCEPT ![p] = d]
      /\ UNCHANGED <<dirs, files, names, left>>

\* setCurrent("") fails, or the user does not allow the program to run.
StartToolFails(p) ==
  /\ At(p, "run")
  /\ Becomes(p, [assistant[p] EXCEPT !.toolStarted = FALSE])
  /\ \/ UNCHANGED cwd
     \/ assistant[p].dir \in dirs /\ cwd' = [cwd EXCEPT ![p] = assistant[p].dir]
  /\ UNCHANGED <<dirs, files, names, zadigs, left>>

-----------------------------------------------------------------------------
ZadigEnds(z) ==
  /\ zadigs' = zadigs \ {z}
  /\ UNCHANGED <<dirs, files, assistant, names, cwd, left>>

\* The program ends, by itself without an assistant, and is started again.
Restarted(p) ==
  /\ Becomes(p, Closed)
  /\ names' = [names EXCEPT ![p] = 0]
  /\ cwd' = [cwd EXCEPT ![p] = Current]
  /\ UNCHANGED <<dirs, files, zadigs>>

Quit(p) == At(p, "closed") /\ Restarted(p) /\ UNCHANGED left

KillProgram(p) ==
  /\ IsOpen(p)
  /\ Restarted(p)
  /\ left' = left \cup ({assistant[p].dir} \cap dirs)

UserMayDo(p) ==
  \/ InstallDriver(p) \/ NextPage(p) \/ PreviousPage(p) \/ StartDownload(p)
  \/ StartTool(p) \/ StartToolFails(p) \/ Finish(p) \/ Cancel(p)

ReplyStep(p) ==
  \/ DownloadFails(p) \/ OpenExe(p) \/ WriteExe(p) \/ WriteIni(p) \/ WriteCfg(p) \/ SlotFails(p)

AssistantInit ==
  /\ dirs = {} /\ files = [d \in {Current} \cup Dirs |-> NoFiles]
  /\ assistant = [p \in Programs |-> Closed]
  /\ names = [p \in Programs |-> 0] /\ cwd = [p \in Programs |-> Current]
  /\ zadigs = {} /\ left = {}

AssistantNext ==
  \/ \E p \in Programs : UserMayDo(p) \/ ReplyStep(p) \/ Quit(p) \/ KillProgram(p)
  \/ \E z \in zadigs : ZadigEnds(z)

AssistantSpec == AssistantInit /\ [][AssistantNext]_assistants

-----------------------------------------------------------------------------
(* Properties                                                              *)

\* An assistant on its page of the download either waits for one reply, and no more, or
\* lets the user try again or go on.
AssistantTypeOK ==
  /\ dirs \subseteq Dirs /\ left \subseteq dirs
  /\ files \in [{Current} \cup Dirs -> [FileNames -> Contents]]
  /\ assistant \in [Programs -> Assistant]
  /\ \A p \in Programs : names[p] \in 0 .. MaxNames[p]
  /\ cwd \in [Programs -> {Current} \cup Dirs]
  /\ zadigs \subseteq Programs \X Dirs
  /\ \A p \in Programs :
       LET a == assistant[p]
           waiting == a.replies + (IF a.slot = "none" THEN 0 ELSE 1)
       IN  waiting + (IF a.startButton \/ a.downloadComplete THEN 1 ELSE 0) = 1

\* Once the download has finished, the user finds zadig.exe whole and both files beside
\* it until the assistant is closed, whatever failed before and however often pages are
\* turned and Zadig is started; unless another usbprog-gui came into the directory.
FilesKept ==
  \A p \in Programs : assistant[p].downloadComplete /\ assistant[p].alone =>
    LET d == assistant[p].dir
    IN  /\ d \in dirs /\ files[d]["zadig.exe"] = "whole"
        /\ \A f \in FileNames : files[d][f] # "none"

\* zadigrunner.h: "This destructor also deletes the temporary download directory", unless
\* the program was killed, Zadig or a second assistant uses it, or the program has not
\* found its way out of it.
TempdirRemoved == \A d \in dirs : Users(d) # {} \/ d \in left
=============================================================================

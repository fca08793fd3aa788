----------------------------- MODULE CliSession -----------------------------
(***************************************************************************)
(* A session of usbprog as far as boards are concerned: the commands       *)
(* devices, device, upload, start and reset (cli/commands.cc), each of     *)
(* which makes a few calls of the device manager and of an updater, one    *)
(* after the other.  The list and the selection outlive the command, and   *)
(* boards restart, come and go between any two calls.  Or a series of runs *)
(* of usbprog-basic (cli-basic/usbprog_basic.cc), each one an upload with  *)
(* a manager of its own.                                                   *)
(*                                                                         *)
(* The commands of a batch line are run one after the other, whichever of  *)
(* them failed (Shell): to the manager they are a session like any other.  *)
(***************************************************************************)
EXTENDS UpdateDevices

CONSTANT PoolDevices  \* Firmwarepool::getUpdateDeviceList()

\* The sleeper of usbprog blocks (usbprog-core/sleeper.cc).
ASSUME CliSessionAssumption ==
  /\ PoolDevices \subseteq Applications
  /\ ~ReentrantSleep

VARIABLES
  program,  \* which of the two it is
  pc,       \* what the running command does next, or that there is none
  command,  \* the running command
  updater,  \* its UsbprogUpdater: the device, and whether the handle is open
  chosen    \* history: the device that "device" has chosen, until the manager drops
            \* the selection, a scan breaks off or a switch has moved the list

session == <<program, pc, command, updater>>
vars == <<udVars, session, chosen>>

\* -nostart is the option of upload.  target: what the argument of "device" is,
\* an index or the short name of a device, which is that of its mode; usbprog-basic
\* takes an index.
Uploads == {"upload", "upload -nostart"}
Target == ({"number"} \X (0 .. Cardinality(Boards))) \cup ({"name"} \X Mode)
NoTarget == <<"name", Bootloader>>
Command == [name : {"none", "device", "start", "reset", "basic"} \cup Uploads,
            target : Target]
NoCommand == [name |-> "none", target |-> NoTarget]

NoUpdater == [dev |-> NoDevice, open |-> FALSE]
Updater == [dev : Device, open : BOOLEAN]

Calls == {"updateOpen", "writeFirmware", "startDevice", "resetDevice", "updateClose"}
Pc == {"prompt", "set", "discover", "fill", "current", "switch", "target",
       "number", "rescan"} \cup Calls

TypeOK ==
  /\ UpdateDevicesTypeOK
  /\ program \in {"usbprog", "usbprog-basic"}
  /\ pc \in Pc
  /\ command \in Command
  /\ updater \in IF pc \in Calls THEN Updater ELSE Updater \cup {NoUpdater}
  /\ chosen \in Device \cup {NoDevice}

-----------------------------------------------------------------------------
GoTo(next) == pc' = next /\ UNCHANGED <<program, command, updater>>

\* The command returns, or an ApplicationError is printed: the updater is gone, and
\* with it its handle.
Return ==
  /\ pc' = "prompt"
  /\ command' = NoCommand
  /\ updater' = NoUpdater
  /\ UNCHANGED program

KeepChosen == chosen' = IF m_currentUpdateDevice' = -1 THEN NoDevice ELSE chosen
ForgetChosen == chosen' = NoDevice

\* A call that scans the bus; the command goes on, or ends with the error.
Scanning(updateDevices, goOn) ==
  \/ Discover(updateDevices) /\ goOn /\ KeepChosen
  \/ DiscoverThrows(updateDevices) /\ Return /\ ForgetChosen

ListEmpty == m_updateDevices = <<>>

\* The user, or the next word of a batch line.
Enter(name, target, first) ==
  /\ pc = "prompt" /\ program = "usbprog"
  /\ command' = [name |-> name, target |-> target]
  /\ pc' = first
  /\ UNCHANGED <<udVars, program, updater, chosen>>

-----------------------------------------------------------------------------
(* devices                                                                 *)

Devices ==
  /\ pc = "prompt" /\ program = "usbprog"
  /\ Scanning(PoolDevices, UNCHANGED session)

-----------------------------------------------------------------------------
(* device                                                                  *)

DeviceCommand(target) ==
  Enter("device", target, IF ListEmpty THEN "discover" ELSE "set")

\* The index that is meant: a number there is, or the first device of that name.
Meant(target) ==
  LET indices == 0 .. Len(m_updateDevices) - 1
  IN  IF target[1] = "number" THEN {target[2]} \cap indices
      ELSE {i \in indices :
              /\ m_updateDevices[i + 1].mode = target[2]
              /\ \A j \in 0 .. i - 1 : m_updateDevices[j + 1].mode # target[2]}

DeviceDiscover ==
  /\ pc = "discover" /\ command.name = "device"
  /\ Scanning(PoolDevices, GoTo("set"))

DeviceSet ==
  /\ pc = "set"
  /\ \E number \in Meant(command.target) :
       /\ SetCurrentUpdateDevice(number)
       /\ chosen' = m_updateDevices[number + 1]
  /\ Return

DeviceInvalid ==
  /\ pc = "set"
  /\ Meant(command.target) = {}
  /\ Return
  /\ UNCHANGED <<udVars, chosen>>

-----------------------------------------------------------------------------
(* upload                                                                  *)

\* The bus is scanned only if no device is known.
Upload(name) == Enter(name, NoTarget, IF ListEmpty THEN "discover" ELSE "fill")

UploadDiscover ==
  /\ pc = "discover" /\ command.name \in Uploads
  /\ Scanning({}, GoTo("fill"))

\* The firmware is read from a file or from the pool.
UploadFill ==
  /\ pc = "fill"
  /\ GoTo("current") \/ Return
  /\ UNCHANGED <<udVars, chosen>>

\* (A wrong variant: after a switch nobody looks.)
UploadNoDeviceOnce ==
  /\ pc = "current"
  /\ GetCurrentUpdateDevice = NoDevice
  /\ Return
  /\ UNCHANGED <<udVars, chosen>>

\* "Unable to find update device."
UploadNoDevice ==
  /\ pc \in {"current", "target"}
  /\ GetCurrentUpdateDevice = NoDevice
  /\ Return
  /\ UNCHANGED <<udVars, chosen>>

UploadUpdateMode ==
  /\ pc = "current"
  /\ GetCurrentUpdateDevice # NoDevice /\ IsUpdateMode(GetCurrentUpdateDevice)
  /\ GoTo("target")
  /\ UNCHANGED <<udVars, chosen>>

\* (A wrong variant: what is current need not be in update mode.)
UploadNoSwitch ==
  /\ pc = "current"
  /\ GetCurrentUpdateDevice # NoDevice /\ ~IsUpdateMode(GetCurrentUpdateDevice)
  /\ GoTo("target")
  /\ UNCHANGED <<udVars, chosen>>

UploadSwitch ==
  /\ pc = "current"
  /\ BeginSwitch
  /\ GoTo("switch")
  /\ UNCHANGED chosen

\* The manager's steps until switchUpdateMode() returns or throws.
UploadSwitching ==
  /\ pc = "switch"
  /\ \/ SwitchRestarts /\ UNCHANGED <<session, chosen>>
     \/ SwitchScans /\ ForgetChosen /\ UNCHANGED session
     \/ SwitchThrows /\ Return /\ ForgetChosen
     \/ SwitchReturns /\ GoTo("target") /\ UNCHANGED chosen

NewUpdater(next) ==
  /\ GetCurrentUpdateDevice # NoDevice
  /\ updater' = [dev |-> GetCurrentUpdateDevice, open |-> FALSE]
  /\ pc' = next

UploadTarget ==
  /\ pc = "target"
  /\ NewUpdater("updateOpen")
  /\ UNCHANGED <<udVars, program, command, chosen>>

-----------------------------------------------------------------------------
(* start and reset                                                         *)

\* No scan, and no look at the mode of the device.
StartOrReset(name) ==
  /\ pc = "prompt" /\ program = "usbprog"
  /\ command' = [name |-> name, target |-> NoTarget]
  /\ NewUpdater("updateOpen")
  /\ UNCHANGED <<udVars, program, chosen>>

-----------------------------------------------------------------------------
(* usbprog-basic upload                                                    *)

\* A process of its own: what the one before knew is gone.
BasicUpload(number) ==
  /\ pc = "prompt" /\ program = "usbprog-basic"
  /\ command' = [name |-> "basic", target |-> <<"number", number>>]
  /\ pc' = "discover"
  /\ m_updateDevices' = <<>> /\ m_currentUpdateDevice' = -1
  /\ UNCHANGED <<busVars, switching, program, updater, chosen>>

BasicDiscover ==
  /\ pc = "discover" /\ command.name = "basic"
  /\ Scanning({}, GoTo("number"))

\* A number behind the last one is found out only by the NULL of getDevice().
BasicDevice ==
  /\ pc = "number"
  /\ LET device == GetDevice(m_updateDevices, command.target[2])
     IN  /\ device # NoDevice
         /\ updater' = [dev |-> device, open |-> FALSE]
  /\ pc' = "updateOpen"
  /\ UNCHANGED <<udVars, program, command, chosen>>

\* No such device, or no such file.
BasicInvalid ==
  /\ pc = "number"
  /\ Return
  /\ UNCHANGED <<udVars, chosen>>

-----------------------------------------------------------------------------
(* The calls of the updater, which UsbprogUpdater has in detail            *)

Writes == Uploads \cup {"basic"}

\* (A wrong variant: the handle is left to the destructor.)
AfterUnclosed(call) ==
  CASE call = "updateOpen" /\ command.name \in Writes                -> "writeFirmware"
    [] call = "updateOpen" /\ command.name = "start"                 -> "startDevice"
    [] call = "updateOpen" /\ command.name = "reset"                 -> "resetDevice"
    [] call = "writeFirmware" /\ command.name # "upload -nostart"    -> "startDevice"
    [] call = "writeFirmware" /\ command.name = "upload -nostart"    -> "rescan"
    [] call = "startDevice" /\ command.name = "upload"               -> "rescan"
    [] OTHER                                                         -> "prompt"

After(call) ==
  CASE call = "updateOpen" /\ command.name \in Writes                -> "writeFirmware"
    [] call = "updateOpen" /\ command.name = "start"                 -> "startDevice"
    [] call = "updateOpen" /\ command.name = "reset"                 -> "resetDevice"
    [] call = "writeFirmware" /\ command.name # "upload -nostart"    -> "startDevice"
    [] call = "writeFirmware" /\ command.name = "upload -nostart"    -> "updateClose"
    [] call = "startDevice" /\ command.name \in {"upload", "basic"}  -> "updateClose"
    [] call = "updateClose" /\ command.name \in Uploads              -> "rescan"
    [] OTHER                                                         -> "prompt"

GoOn(call, open) ==
  IF After(call) = "prompt" THEN Return
  ELSE /\ pc' = After(call)
       /\ updater' = [updater EXCEPT !.open = open]
       /\ UNCHANGED <<program, command>>

UpdateOpen ==
  /\ pc = "updateOpen"
  /\ \/ Reachable(updater.dev) /\ GoOn("updateOpen", TRUE)
     \/ Return
  /\ UNCHANGED <<udVars, chosen>>

WriteFirmware ==
  /\ pc = "writeFirmware"
  /\ \/ Reachable(updater.dev) /\ GoOn("writeFirmware", TRUE)
     \/ Return
  /\ UNCHANGED <<udVars, chosen>>

\* A board in update mode restarts, in whatever mode it finds; the host may not learn
\* of it.  An application makes nothing of the message.
StartOrResetDevice ==
  /\ pc \in {"startDevice", "resetDevice"}
  /\ \/ /\ Reachable(updater.dev)
        /\ GoOn(pc, TRUE)
     \/ Return
  /\ \/ UNCHANGED busVars
     \/ /\ Reachable(updater.dev) /\ mode[updater.dev.board] = Bootloader
        /\ \E m \in Mode : Restart(updater.dev.board, m)
  /\ UNCHANGED <<m_updateDevices, m_currentUpdateDevice, switching, chosen>>

UpdateClose ==
  /\ pc = "updateClose"
  /\ GoOn("updateClose", FALSE)
  /\ UNCHANGED <<udVars, chosen>>

\* Two seconds later only boards in update mode are looked for.
UploadRescan ==
  /\ pc = "rescan"
  /\ Scanning({}, Return)

-----------------------------------------------------------------------------
EnterStep ==
  \/ Devices
  \/ \E target \in Target : DeviceCommand(target)
  \/ \E name \in Uploads : Upload(name)
  \/ \E name \in {"start", "reset"} : StartOrReset(name)
  \/ \E number \in 0 .. Cardinality(Boards) : BasicUpload(number)

CommandStep ==
  \/ DeviceDiscover \/ DeviceSet \/ DeviceInvalid
  \/ UploadDiscover \/ UploadFill \/ UploadNoDevice \/ UploadUpdateMode
  \/ UploadSwitch \/ UploadSwitching \/ UploadTarget
  \/ BasicDiscover \/ BasicDevice \/ BasicInvalid
  \/ UpdateOpen \/ WriteFirmware \/ StartOrResetDevice \/ UpdateClose \/ UploadRescan

SessionBusStep == BusStep /\ UNCHANGED <<session, chosen>>

SessionInit ==
  /\ Init
  /\ program \in {"usbprog", "usbprog-basic"}
  /\ pc = "prompt"
  /\ command = NoCommand
  /\ updater = NoUpdater
  /\ chosen = NoDevice

SessionNext == EnterStep \/ CommandStep \/ SessionBusStep

SessionSpec == SessionInit /\ [][SessionNext]_vars

\* The program goes on; its libusb calls return, and a switch ends (DeviceManager).
FairSessionSpec == SessionSpec /\ WF_vars(CommandStep)

-----------------------------------------------------------------------------
(* Properties                                                              *)

\* However old the list is that a command works with, and whatever boards did in the
\* meantime: the pages of a firmware reach a board only while it runs its bootloader.
WritesReachBootloaders ==
  pc = "writeFirmware" /\ Reachable(updater.dev) =>
    mode[updater.dev.board] = Bootloader

\* As long as the manager has not dropped the selection, upload, start and reset go to
\* the very device the user has chosen, and it is the one that is torn out of its
\* application: over any scans of other commands, in which boards come, go and change
\* places.  Only a scan that broke off or a switch may break this.  Without a choice no
\* board is switched.
ChosenIsUsed ==
  /\ pc \in Calls => chosen \in {updater.dev, NoDevice}
  /\ switching.pc = "trying" =>
       m_currentUpdateDevice # -1 /\ chosen \in {switching.dev, NoDevice}

\* devices.h: a Device is valid until the next scan.  The updater outlives the scan at
\* the end of "upload", but uses its device only while the manager owns it, and no scan
\* finds a handle open.
UpdaterDeviceAlive ==
  /\ pc \in Calls => updater.dev \in DevicesOf(m_updateDevices)
  /\ pc \in {"prompt", "discover", "switch", "rescan"} => ~updater.open

\* The prompt comes back, whatever boards and bus do.
CommandReturns == pc # "prompt" ~> pc = "prompt"
=============================================================================

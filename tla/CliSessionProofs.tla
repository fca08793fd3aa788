-------------------------- MODULE CliSessionProofs --------------------------
(***************************************************************************)
(* Theorems about CliSession, for any boards, applications and pool.       *)
(***************************************************************************)
EXTENDS CliSession, UpdateDevicesProofs

-----------------------------------------------------------------------------
(* The inductive invariant                                                 *)

\* Which command is where, and that the manager is switching only for an upload.
Flow ==
  /\ pc = "set" => command.name = "device"
  /\ pc = "discover" => command.name \in {"device", "basic"} \cup Uploads
  /\ pc \in {"fill", "current", "switch", "target", "rescan"} => command.name \in Uploads
  /\ pc = "number" => command.name = "basic"
  /\ pc \in {"writeFirmware", "updateClose"} => command.name \in Writes
  /\ pc # "prompt" /\ program = "usbprog-basic" => command.name = "basic"
  /\ pc # "prompt" /\ command.name = "basic" => program = "usbprog-basic"
  /\ switching.pc # "no" <=> pc = "switch"
  /\ pc \notin Calls \cup {"rescan"} => updater = NoUpdater
  /\ pc = "rescan" => ~updater.open

\* The manager's selection still means the device that was chosen.
ChosenTracked ==
  chosen # NoDevice =>
    m_currentUpdateDevice # -1 /\ GetDevice(m_updateDevices, m_currentUpdateDevice) = chosen

ChosenInv ==
  /\ ChosenTracked
  /\ program = "usbprog-basic" => chosen = NoDevice
  /\ switching.pc = "restore" => chosen = NoDevice
  /\ ChosenIsUsed

\* Whatever is written to was in update mode when it was listed.
UpdaterInv ==
  /\ pc \in Calls => updater.dev \in DevicesOf(m_updateDevices)
  /\ pc \in Calls /\ command.name \in Writes => IsUpdateMode(updater.dev)
  /\ pc = "target" /\ GetCurrentUpdateDevice # NoDevice =>
       IsUpdateMode(GetCurrentUpdateDevice)
  /\ pc = "number" => \A d \in DevicesOf(m_updateDevices) : IsUpdateMode(d)

IInv == TypeOK /\ UDInv /\ Flow /\ ChosenInv /\ UpdaterInv

-----------------------------------------------------------------------------
(* Kinds of steps                                                          *)

\* A choice is the current device.
LEMMA ChosenCurrent ==
  ASSUME ChosenTracked, chosen # NoDevice
  PROVE  GetCurrentUpdateDevice = chosen
BY DEF ChosenTracked, GetCurrentUpdateDevice, CurrentDevice

\* Nothing that the manager knows changes.
LEMMA SameManager ==
  ASSUME UNCHANGED <<udVars, chosen>>, UDInv, ChosenTracked
  PROVE  /\ UDInv' /\ ChosenTracked'
         /\ GetCurrentUpdateDevice' = GetCurrentUpdateDevice
         /\ UNCHANGED <<switching, m_updateDevices, m_currentUpdateDevice>>
BY DEF udVars, busVars, UDInv, UpdateDevicesTypeOK, BusTypeOK, UniqueAddresses, Known,
       Attached, DeviceOf, SwitchingInv, ChosenTracked, GetCurrentUpdateDevice

\* The command is over.
LEMMA ReturnInv ==
  ASSUME IInv, Return, UDInv', ChosenTracked', switching'.pc = "no",
         chosen' \in Device \cup {NoDevice},
         program = "usbprog-basic" => chosen' = NoDevice
  PROVE  IInv'
<1>1. NoCommand \in Command
  BY DEF NoCommand, Command, NoTarget, Target, Mode
<1>2. TypeOK'
  BY <1>1 DEF IInv, Return, TypeOK, UDInv, Pc, Calls
<1>3. Flow' /\ ChosenInv' /\ UpdaterInv'
  BY DEF IInv, Return, Flow, ChosenInv, UpdaterInv, ChosenIsUsed, Calls
<1> QED
  BY <1>2, <1>3 DEF IInv

\* A scan keeps the choice or forgets it.
LEMMA ScanningInv ==
  ASSUME IInv, NEW list \in SUBSET Applications, NEW ACTION goOn, Scanning(list, goOn)
  PROVE  /\ UDInv' /\ ChosenTracked' /\ switching.pc = "no" /\ UNCHANGED switching
         /\ chosen' \in {chosen, NoDevice}
         /\ \A d \in DevicesOf(m_updateDevices') : IsUpdateMode(d) \/ d.mode \in list
         /\ goOn \/ Return
<1>1. Discover(list) \/ DiscoverThrows(list)
  BY DEF Scanning
<1>2. UDInv'
  BY <1>1, ClientStepInv DEF IInv
<1>3. /\ UNCHANGED <<busVars, switching>>
      /\ ScanOk(list) \/ ScanThrows(list)
      /\ switching.pc = "no"
  BY <1>1, CliSessionAssumption DEF Discover, DiscoverThrows, MayScan, Idle
<1>4. /\ \A d \in DevicesOf(m_updateDevices') : IsUpdateMode(d) \/ d.mode \in list
      /\ DevicesOf(m_updateDevices') \subseteq Known
      /\ m_updateDevices' \in Seq(Device)
  <2>1. switching' \in Switching
    BY <1>3 DEF IInv, UDInv, UpdateDevicesTypeOK
  <2> QED
    BY <1>3, <2>1, ScanLists, ScanInv DEF IInv, UDInv
<1>5. ChosenTracked'
  <2>1. CASE chosen' = NoDevice
    BY <2>1 DEF ChosenTracked
  <2>2. CASE chosen' # NoDevice
    <3>1. ScanOk(list) /\ KeepChosen
      BY <2>2 DEF Scanning, ForgetChosen, Discover
    <3>2. chosen' = chosen /\ m_currentUpdateDevice' # -1
      BY <2>2, <3>1 DEF KeepChosen
    <3>3. SameDevices(m_updateDevices, m_updateDevices')
          /\ m_currentUpdateDevice' = m_currentUpdateDevice
      BY <3>1, <3>2 DEF ScanOk
    <3>4. m_updateDevices' = m_updateDevices
      BY <1>4, <3>3, SameIsSame DEF IInv
    <3> QED
      BY <3>2, <3>3, <3>4 DEF IInv, ChosenInv, ChosenTracked
  <2> QED
    BY <2>1, <2>2
<1>6. chosen' \in {chosen, NoDevice} /\ (goOn \/ Return)
  BY DEF Scanning, KeepChosen, ForgetChosen
<1> QED
  BY <1>2, <1>3, <1>4, <1>5, <1>6

\* A command that ends with its scan, or breaks off there.
LEMMA ScanReturns ==
  ASSUME IInv, NEW list \in SUBSET Applications, NEW ACTION goOn, Scanning(list, goOn), Return
  PROVE  IInv'
BY ScanningInv, ReturnInv DEF IInv, TypeOK, ChosenInv

-----------------------------------------------------------------------------
(* The first step of a command                                             *)

\* Commands begin at the prompt.
LEMMA EnterInv ==
  ASSUME IInv, NEW name \in {"device"} \cup Uploads, NEW target \in Target,
         NEW first \in {"discover", "set", "fill"}, Enter(name, target, first),
         first = "set" => name = "device",
         first = "fill" => name \in Uploads
  PROVE  IInv'
<1>1. /\ UDInv' /\ ChosenTracked' /\ UNCHANGED <<switching, chosen, program, updater>>
      /\ pc = "prompt" /\ pc' = first /\ program = "usbprog"
      /\ command' = [name |-> name, target |-> target]
  BY SameManager DEF IInv, Enter, ChosenInv
<1>2. TypeOK'
  BY <1>1 DEF IInv, TypeOK, UDInv, Command, Uploads, Pc, Calls, Flow
<1>3. Flow'
  BY <1>1 DEF IInv, Flow, Uploads, Calls
<1>4. ChosenInv' /\ UpdaterInv'
  BY <1>1 DEF IInv, Flow, ChosenInv, UpdaterInv, ChosenIsUsed, Calls
<1> QED
  BY <1>1, <1>2, <1>3, <1>4 DEF IInv

\* An updater is made for the current device.
LEMMA NewUpdaterInv ==
  ASSUME IInv, NEW next, NewUpdater(next)
  PROVE  /\ updater' = [dev |-> GetCurrentUpdateDevice, open |-> FALSE]
         /\ updater' \in Updater
         /\ updater'.dev \in DevicesOf(m_updateDevices)
         /\ chosen \in {updater'.dev, NoDevice}
<1>1. /\ updater' = [dev |-> GetCurrentUpdateDevice, open |-> FALSE]
      /\ GetCurrentUpdateDevice # NoDevice
  BY DEF NewUpdater
<1>2. GetCurrentUpdateDevice \in DevicesOf(m_updateDevices)
  BY <1>1, CurrentListed DEF IInv, UDInv, UpdateDevicesTypeOK, GetCurrentUpdateDevice
<1>3. GetCurrentUpdateDevice \in Device
  BY <1>2, ElementOfSeq, LenProperties DEF DevicesOf, IInv, UDInv, UpdateDevicesTypeOK
<1> QED
  BY <1>1, <1>2, <1>3, ChosenCurrent DEF IInv, ChosenInv, Updater

\* Every way to begin.
LEMMA EnterStepInv ==
  ASSUME IInv, EnterStep
  PROVE  IInv'
<1>1. CASE Devices
  <2>1. Scanning(PoolDevices, UNCHANGED session) /\ pc = "prompt"
    BY <1>1 DEF Devices
  <2>2. /\ UDInv' /\ ChosenTracked' /\ switching.pc = "no" /\ UNCHANGED switching
        /\ chosen' \in {chosen, NoDevice} /\ (UNCHANGED session \/ Return)
    BY <2>1, CliSessionAssumption, ScanningInv
  <2>3. CASE Return
    BY <2>1, <2>3, CliSessionAssumption, ScanReturns
  <2>4. CASE UNCHANGED session
    <3>1. TypeOK' /\ Flow'
      BY <2>1, <2>2, <2>4 DEF IInv, TypeOK, UDInv, session, Flow
    <3>2. ChosenInv' /\ UpdaterInv'
      BY <2>1, <2>2, <2>4 DEF IInv, ChosenInv, UpdaterInv, ChosenIsUsed, session, Calls
    <3> QED
      BY <2>2, <3>1, <3>2 DEF IInv
  <2> QED
    BY <2>2, <2>3, <2>4
<1>2. ASSUME NEW target \in Target, DeviceCommand(target)
      PROVE  IInv'
  BY <1>2, EnterInv DEF DeviceCommand
<1>3. ASSUME NEW name \in Uploads, Upload(name)
      PROVE  IInv'
  <2>1. NoTarget \in Target
    BY DEF NoTarget, Target, Mode
  <2> QED
    BY <1>3, <2>1, EnterInv DEF Upload
<1>4. ASSUME NEW name \in {"start", "reset"}, StartOrReset(name)
      PROVE  IInv'
  <2>1. /\ pc = "prompt" /\ program = "usbprog" /\ pc' = "updateOpen"
        /\ command' = [name |-> name, target |-> NoTarget]
        /\ UNCHANGED <<udVars, program, chosen>>
    BY <1>4 DEF StartOrReset, NewUpdater
  <2>2. /\ updater' \in Updater /\ updater'.dev \in DevicesOf(m_updateDevices)
        /\ chosen \in {updater'.dev, NoDevice}
    BY <1>4, NewUpdaterInv DEF StartOrReset
  <2>3. /\ UDInv' /\ ChosenTracked' /\ UNCHANGED <<switching, m_updateDevices>>
    BY <2>1, SameManager DEF IInv, ChosenInv
  <2>4. command' \in Command /\ command'.name \notin Writes \cup {"basic"}
    BY <2>1 DEF Command, NoTarget, Target, Mode, Writes, Uploads
  <2>5. TypeOK'
    BY <2>1, <2>2, <2>3, <2>4 DEF IInv, TypeOK, UDInv, Pc, Calls
  <2>6. Flow'
    BY <2>1, <2>3, <2>4 DEF IInv, Flow, Calls
  <2>7. ChosenInv' /\ UpdaterInv'
    BY <2>1, <2>2, <2>3, <2>4 DEF IInv, Flow, ChosenInv, ChosenIsUsed, UpdaterInv, Calls
  <2> QED
    BY <2>3, <2>5, <2>6, <2>7 DEF IInv
<1>5. ASSUME NEW number \in 0 .. Cardinality(Boards), BasicUpload(number)
      PROVE  IInv'
  <2>1. /\ pc = "prompt" /\ program = "usbprog-basic" /\ pc' = "discover"
        /\ command' = [name |-> "basic", target |-> <<"number", number>>]
        /\ m_updateDevices' = <<>> /\ m_currentUpdateDevice' = -1
        /\ UNCHANGED <<busVars, switching, program, updater, chosen>>
    BY <1>5 DEF BasicUpload
  <2>2. command' \in Command
    BY <2>1 DEF Command, Target
  <2>3. DevicesOf(m_updateDevices') = {} /\ m_updateDevices' \in Seq(Device)
    BY <2>1, EmptySeq DEF DevicesOf
  <2>4. OnBus' = OnBus
    BY <2>1 DEF OnBus, Attached, DeviceOf, busVars
  <2>5. UniqueAddresses'
    BY <2>1, <2>3, <2>4, KnownShrinks DEF IInv, Known
  <2>6. switching.pc = "no" /\ chosen = NoDevice /\ updater = NoUpdater
    BY <2>1 DEF IInv, Flow, ChosenInv, Calls
  <2>7. UDInv'
    BY <2>1, <2>3, <2>5, <2>6 DEF IInv, UDInv, UpdateDevicesTypeOK, BusTypeOK, busVars,
                                  SwitchingInv
  <2>8. TypeOK'
    BY <2>1, <2>2, <2>7 DEF IInv, TypeOK, UDInv, Pc, Calls
  <2>9. Flow'
    BY <2>1, <2>6 DEF IInv, Flow, Calls
  <2>10. ChosenInv' /\ UpdaterInv'
    BY <2>1, <2>6 DEF IInv, ChosenInv, ChosenTracked, ChosenIsUsed, UpdaterInv, Calls
  <2> QED
    BY <2>7, <2>8, <2>9, <2>10 DEF IInv
<1> QED
  BY <1>1, <1>2, <1>3, <1>4, <1>5 DEF EnterStep

-----------------------------------------------------------------------------
(* The steps until there is an updater                                     *)

\* Going on to a step that has no updater yet.
LEMMA GoToInv ==
  ASSUME IInv, NEW next \in Pc \ (Calls \cup {"prompt", "switch", "rescan"}), GoTo(next),
         pc \notin {"prompt"} \cup Calls \cup {"rescan"},
         UDInv', ChosenTracked', switching'.pc = "no", chosen' \in {chosen, NoDevice},
         next = "set" => command.name = "device",
         next = "discover" => command.name \in {"device", "basic"} \cup Uploads,
         next \in {"fill", "current", "target"} => command.name \in Uploads,
         next = "number" => command.name = "basic",
         next = "target" => GetCurrentUpdateDevice' = NoDevice
                              \/ IsUpdateMode(GetCurrentUpdateDevice'),
         next = "number" => \A d \in DevicesOf(m_updateDevices') : IsUpdateMode(d)
  PROVE  IInv'
<1>1. pc' = next /\ UNCHANGED <<program, command, updater>> /\ updater = NoUpdater
  BY DEF GoTo, IInv, Flow
<1>2. TypeOK'
  BY <1>1 DEF IInv, TypeOK, UDInv
<1>3. Flow'
  BY <1>1 DEF IInv, Flow, Calls
<1>4. ChosenInv' /\ UpdaterInv'
  BY <1>1 DEF IInv, ChosenInv, ChosenIsUsed, UpdaterInv, Calls
<1> QED
  BY <1>2, <1>3, <1>4 DEF IInv

\* The scans of device, upload and usbprog-basic.
LEMMA CommandScanInv ==
  ASSUME IInv, DeviceDiscover \/ UploadDiscover \/ BasicDiscover
  PROVE  IInv'
<1>1. ASSUME NEW list \in SUBSET Applications, NEW next \in {"set", "fill", "number"},
             pc = "discover", Scanning(list, GoTo(next)),
             next = "set" => command.name = "device",
             next = "fill" => command.name \in Uploads,
             next = "number" => command.name = "basic" /\ list = {}
      PROVE  IInv'
  <2> DEFINE goOn == GoTo(next)
  <2>0. Scanning(list, goOn)
    BY <1>1
  <2> HIDE DEF goOn
  <2>1. /\ UDInv' /\ ChosenTracked' /\ switching.pc = "no" /\ UNCHANGED switching
        /\ chosen' \in {chosen, NoDevice} /\ (goOn \/ Return)
        /\ \A d \in DevicesOf(m_updateDevices') : IsUpdateMode(d) \/ d.mode \in list
    BY <2>0, ScanningInv
  <2>2. CASE Return
    BY <1>1, <2>2, ScanReturns
  <2>3. CASE GoTo(next)
    BY <1>1, <2>1, <2>3, GoToInv DEF Pc, Calls
  <2> QED
    BY <2>1, <2>2, <2>3 DEF goOn
<1>2. {} \in SUBSET Applications /\ PoolDevices \in SUBSET Applications
  BY CliSessionAssumption
<1> QED
  BY <1>1, <1>2 DEF DeviceDiscover, UploadDiscover, BasicDiscover

\* What device makes of its argument.
LEMMA DeviceSetInv ==
  ASSUME IInv, DeviceSet \/ DeviceInvalid
  PROVE  IInv'
<1>1. program = "usbprog"
  BY DEF IInv, TypeOK, Flow, DeviceSet, DeviceInvalid, Uploads
<1>2. CASE DeviceInvalid
  <2>1. UNCHANGED <<udVars, chosen>> /\ Return /\ pc = "set"
    BY <1>2 DEF DeviceInvalid
  <2> QED
    BY <1>1, <2>1, SameManager, ReturnInv DEF IInv, Flow, ChosenInv, TypeOK
<1>3. CASE DeviceSet
  <2>1. PICK number \in Meant(command.target) :
          /\ SetCurrentUpdateDevice(number)
          /\ chosen' = m_updateDevices[number + 1]
    BY <1>3 DEF DeviceSet
  <2>2. number \in 0 .. Len(m_updateDevices) - 1 /\ number \in Nat
    BY DEF Meant
  <2>3. UDInv'
    BY <2>1, <2>2, ClientStepInv DEF IInv
  <2>4. /\ UNCHANGED <<m_updateDevices, switching>> /\ m_currentUpdateDevice' = number
        /\ switching.pc = "no"
    BY <2>1, <2>2 DEF SetCurrentUpdateDevice, Select, Idle
  <2>5. chosen' \in Device
    BY <2>1, <2>2, ElementOfSeq, LenProperties DEF IInv, UDInv, UpdateDevicesTypeOK
  <2>6. ChosenTracked'
    BY <2>1, <2>2, <2>4 DEF ChosenTracked, GetDevice
  <2> QED
    BY <1>1, <1>3, <2>3, <2>4, <2>5, <2>6, ReturnInv DEF DeviceSet
<1> QED
  BY <1>2, <1>3

\* upload, until it knows its board.
LEMMA UploadInv ==
  ASSUME IInv, UploadFill \/ UploadNoDevice \/ UploadUpdateMode \/ BasicInvalid
  PROVE  IInv'
<1>1. /\ UNCHANGED <<udVars, chosen>>
      /\ pc \in {"fill", "current", "target", "number"}
  BY DEF UploadFill, UploadNoDevice, UploadUpdateMode, BasicInvalid
<1>2. /\ UDInv' /\ ChosenTracked' /\ UNCHANGED <<switching, m_updateDevices>>
      /\ GetCurrentUpdateDevice' = GetCurrentUpdateDevice /\ switching.pc = "no"
  BY <1>1, SameManager DEF IInv, ChosenInv, Flow
<1>3. CASE Return
  BY <1>1, <1>2, <1>3, ReturnInv DEF IInv, TypeOK, ChosenInv
<1>4. CASE UploadFill /\ GoTo("current")
  BY <1>1, <1>2, <1>4, GoToInv DEF UploadFill, Pc, Calls, IInv, Flow
<1>5. CASE UploadUpdateMode
  BY <1>1, <1>2, <1>5, GoToInv DEF UploadUpdateMode, Pc, Calls, IInv, Flow
<1> QED
  BY <1>3, <1>4, <1>5 DEF UploadFill, UploadNoDevice, BasicInvalid

\* The device that is switched is the one that was chosen, if any was.
LEMMA UploadSwitchInv ==
  ASSUME IInv, UploadSwitch
  PROVE  IInv'
<1>1. /\ pc = "current" /\ pc' = "switch" /\ UNCHANGED <<program, command, updater, chosen>>
      /\ GetCurrentUpdateDevice # NoDevice /\ ~IsUpdateMode(GetCurrentUpdateDevice)
      /\ switching' = [pc |-> "trying", dev |-> GetCurrentUpdateDevice, updatedev |-> -1]
      /\ UNCHANGED <<m_updateDevices, m_currentUpdateDevice>>
  BY DEF UploadSwitch, BeginSwitch, GoTo
<1>2. UDInv'
  BY ClientStepInv DEF IInv, UploadSwitch
<1>3. m_currentUpdateDevice # -1
  BY <1>1, CurrentListed DEF GetCurrentUpdateDevice, IInv, UDInv, UpdateDevicesTypeOK
<1>4. TypeOK'
  BY <1>1, <1>2 DEF IInv, TypeOK, UDInv, Pc, Calls
<1>5. Flow'
  BY <1>1 DEF IInv, Flow, Calls, Uploads
<1>6. ChosenInv' /\ UpdaterInv'
  <2>1. chosen \in {GetCurrentUpdateDevice, NoDevice}
    BY ChosenCurrent DEF IInv, ChosenInv
  <2> QED
    BY <1>1, <1>3, <2>1 DEF IInv, ChosenInv, ChosenTracked, ChosenIsUsed, UpdaterInv, Calls
<1> QED
  BY <1>2, <1>4, <1>5, <1>6 DEF IInv

\* After a switch the current device is in update mode.
LEMMA UploadSwitchingInv ==
  ASSUME IInv, UploadSwitching
  PROVE  IInv'
<1>1. pc = "switch" /\ switching.pc # "no" /\ command.name \in Uploads
  BY DEF UploadSwitching, IInv, Flow
<1>2. UDInv'
  BY SwitchStepInv DEF UploadSwitching, SwitchStep, IInv
<1>3. CASE SwitchRestarts /\ UNCHANGED <<session, chosen>>
  <2>1. UNCHANGED <<m_updateDevices, m_currentUpdateDevice, switching, session, chosen>>
    BY <1>3 DEF SwitchRestarts
  <2>2. TypeOK' /\ Flow'
    BY <1>2, <2>1 DEF IInv, TypeOK, UDInv, Flow, session
  <2>3. ChosenInv' /\ UpdaterInv'
    BY <1>1, <2>1 DEF IInv, ChosenInv, ChosenTracked, ChosenIsUsed, UpdaterInv, session, Calls
  <2> QED
    BY <1>2, <2>2, <2>3 DEF IInv
<1>4. CASE SwitchScans /\ ForgetChosen /\ UNCHANGED session
  <2>1. switching'.pc = "restore" /\ chosen' = NoDevice /\ UNCHANGED session
    BY <1>4 DEF SwitchScans, ForgetChosen
  <2>2. TypeOK' /\ Flow'
    BY <1>1, <1>2, <2>1 DEF IInv, TypeOK, UDInv, Flow, session
  <2>3. ChosenInv' /\ UpdaterInv'
    BY <1>1, <2>1 DEF IInv, ChosenInv, ChosenTracked, ChosenIsUsed, UpdaterInv, session, Calls
  <2> QED
    BY <1>2, <2>2, <2>3 DEF IInv
<1>5. CASE SwitchThrows /\ Return /\ ForgetChosen
  <2>1. switching'.pc = "no" /\ chosen' = NoDevice
    BY <1>5 DEF SwitchThrows, NotSwitching, ForgetChosen
  <2>2. ChosenTracked'
    BY <2>1 DEF ChosenTracked
  <2> QED
    BY <1>2, <1>5, <2>1, <2>2, ReturnInv
<1>6. CASE SwitchReturns /\ GoTo("target") /\ UNCHANGED chosen
  <2>1. /\ switching.pc = "restore" /\ switching'.pc = "no" /\ UNCHANGED m_updateDevices
        /\ chosen = NoDevice /\ chosen' = NoDevice
    BY <1>6 DEF SwitchReturns, NotSwitching, IInv, ChosenInv
  <2>2. ChosenTracked'
    BY <2>1 DEF ChosenTracked
  <2>3. GetCurrentUpdateDevice' = NoDevice \/ IsUpdateMode(GetCurrentUpdateDevice')
    <3>1. \A d \in DevicesOf(m_updateDevices') : IsUpdateMode(d)
      BY <2>1 DEF IInv, UDInv, SwitchingInv, DevicesOf
    <3>2. GetCurrentUpdateDevice' # NoDevice =>
            GetCurrentUpdateDevice' \in DevicesOf(m_updateDevices')
      BY <1>2, CurrentListed DEF GetCurrentUpdateDevice, UDInv, UpdateDevicesTypeOK
    <3> QED
      BY <3>1, <3>2
  <2> QED
    BY <1>1, <1>2, <1>6, <2>1, <2>2, <2>3, GoToInv DEF Pc, Calls
<1> QED
  BY <1>3, <1>4, <1>5, <1>6 DEF UploadSwitching

-----------------------------------------------------------------------------
(* The steps of the updater                                                *)

\* upload and usbprog-basic have their board.
LEMMA TargetInv ==
  ASSUME IInv, UploadTarget \/ BasicDevice
  PROVE  IInv'
<1>1. /\ UNCHANGED <<udVars, program, command, chosen>> /\ pc' = "updateOpen"
      /\ pc \in {"target", "number"} /\ command.name \in Writes
  BY DEF UploadTarget, BasicDevice, NewUpdater, IInv, Flow, Writes
<1>2. /\ UDInv' /\ ChosenTracked' /\ UNCHANGED <<switching, m_updateDevices>>
      /\ switching.pc = "no"
  BY <1>1, SameManager DEF IInv, ChosenInv, Flow
<1>3. /\ updater' \in Updater /\ updater'.dev \in DevicesOf(m_updateDevices)
      /\ chosen \in {updater'.dev, NoDevice} /\ IsUpdateMode(updater'.dev)
  <2>1. CASE UploadTarget
    <3>1. NewUpdater("updateOpen") /\ pc = "target"
      BY <2>1 DEF UploadTarget
    <3> QED
      BY <3>1, NewUpdaterInv DEF NewUpdater, IInv, UpdaterInv
  <2>2. CASE BasicDevice
    <3> DEFINE device == GetDevice(m_updateDevices, command.target[2])
    <3>1. pc = "number" /\ device # NoDevice /\ updater' = [dev |-> device, open |-> FALSE]
      BY <2>2 DEF BasicDevice
    <3>2. device \in DevicesOf(m_updateDevices)
      <4>1. Len(m_updateDevices) \in Nat
        BY LenProperties DEF IInv, UDInv, UpdateDevicesTypeOK
      <4> QED
        BY <3>1, <4>1 DEF GetDevice, DevicesOf
    <3>3. device \in Device
      BY <3>2, ElementOfSeq, LenProperties DEF DevicesOf, IInv, UDInv, UpdateDevicesTypeOK
    <3>4. chosen = NoDevice
      BY <3>1 DEF IInv, Flow, ChosenInv
    <3>5. IsUpdateMode(device)
      BY <3>1, <3>2 DEF IInv, UpdaterInv
    <3> HIDE DEF device
    <3> QED
      BY <3>1, <3>2, <3>3, <3>4, <3>5 DEF Updater
  <2> QED
    BY <2>1, <2>2
<1>4. TypeOK'
  BY <1>1, <1>2, <1>3 DEF IInv, TypeOK, UDInv, Pc, Calls
<1>5. Flow'
  BY <1>1, <1>2 DEF IInv, Flow, Calls
<1>6. ChosenInv' /\ UpdaterInv'
  BY <1>1, <1>2, <1>3 DEF IInv, ChosenInv, ChosenIsUsed, UpdaterInv, Calls
<1> QED
  BY <1>2, <1>4, <1>5, <1>6 DEF IInv

\* One call of the updater after the other.
LEMMA GoOnInv ==
  ASSUME IInv, pc \in Calls, NEW open \in BOOLEAN, GoOn(pc, open) \/ Return,
         pc = "updateClose" => ~open,
         UDInv', UNCHANGED <<m_updateDevices, m_currentUpdateDevice, switching, chosen>>
  PROVE  IInv'
<1>1. switching.pc = "no" /\ ChosenTracked'
  BY DEF IInv, Flow, Calls, ChosenInv, ChosenTracked
<1>2. CASE Return
  BY <1>1, <1>2, ReturnInv DEF IInv, TypeOK, ChosenInv
<1>3. CASE ~Return
  <2>1. /\ pc' = After(pc) /\ After(pc) # "prompt"
        /\ updater' = [updater EXCEPT !.open = open] /\ UNCHANGED <<program, command>>
    BY <1>3 DEF GoOn
  <2>2. updater \in Updater
    BY DEF IInv, TypeOK
  <2>3. updater' \in Updater /\ updater'.dev = updater.dev /\ updater'.open = open
    BY <2>1, <2>2 DEF Updater
  <2>4. /\ After(pc) \in Calls \cup {"rescan"}
        /\ After(pc) \in {"writeFirmware", "updateClose"} => command.name \in Writes
        /\ After(pc) = "rescan" => pc = "updateClose" /\ command.name \in Uploads
    BY <2>1 DEF After, Calls, Writes, Uploads
  <2>5. TypeOK'
    BY <2>1, <2>3, <2>4 DEF IInv, TypeOK, UDInv, Pc, Calls
  <2>6. Flow'
    BY <1>1, <2>1, <2>3, <2>4 DEF IInv, Flow, Calls
  <2>7. ChosenInv' /\ UpdaterInv'
    BY <1>1, <2>1, <2>3, <2>4 DEF IInv, ChosenInv, ChosenIsUsed, UpdaterInv, Calls
  <2> QED
    BY <2>5, <2>6, <2>7 DEF IInv
<1> QED
  BY <1>2, <1>3

\* Its calls.
LEMMA CallInv ==
  ASSUME IInv, UpdateOpen \/ WriteFirmware \/ StartOrResetDevice \/ UpdateClose
  PROVE  IInv'
<1>1. CASE UpdateOpen \/ WriteFirmware \/ UpdateClose
  <2>1. UNCHANGED <<udVars, chosen>>
    BY <1>1 DEF UpdateOpen, WriteFirmware, UpdateClose
  <2>2. /\ UDInv'
        /\ UNCHANGED <<m_updateDevices, m_currentUpdateDevice, switching, chosen>>
    BY <2>1, SameManager DEF IInv, ChosenInv
  <2>3. \E open \in BOOLEAN : /\ GoOn(pc, open) \/ Return
                              /\ pc = "updateClose" => ~open
    BY <1>1 DEF UpdateOpen, WriteFirmware, UpdateClose
  <2> QED
    BY <1>1, <2>2, <2>3, GoOnInv DEF UpdateOpen, WriteFirmware, UpdateClose, Calls
<1>2. CASE StartOrResetDevice
  <2>1. UNCHANGED <<m_updateDevices, m_currentUpdateDevice, switching, chosen>>
    BY <1>2 DEF StartOrResetDevice
  <2>2. UDInv'
    <3>1. CASE UNCHANGED busVars
      BY <2>1, <3>1, SameManager DEF udVars, IInv, ChosenInv
    <3>2. CASE \E m \in Mode : Restart(updater.dev.board, m)
      <4>1. updater.dev.board \in Boards
        BY <1>2 DEF IInv, TypeOK, Updater, Device, StartOrResetDevice, Calls
      <4> QED
        BY <2>1, <3>2, <4>1, RestartStep DEF IInv
    <3> QED
      BY <1>2, <3>1, <3>2 DEF StartOrResetDevice
  <2>3. pc \in {"startDevice", "resetDevice"} /\ (GoOn(pc, TRUE) \/ Return)
    BY <1>2 DEF StartOrResetDevice
  <2> QED
    BY <2>1, <2>2, <2>3, GoOnInv DEF Calls
<1> QED
  BY <1>1, <1>2

\* Boards come and go at any time.
LEMMA BusInv ==
  ASSUME IInv, SessionBusStep
  PROVE  IInv'
<1>1. /\ UDInv' /\ UNCHANGED <<session, chosen>>
      /\ UNCHANGED <<m_updateDevices, m_currentUpdateDevice, switching>>
  BY BusStepInv DEF IInv, SessionBusStep, BusStep
<1>2. TypeOK' /\ Flow'
  BY <1>1 DEF IInv, TypeOK, UDInv, Flow, session
<1>3. ChosenInv' /\ UpdaterInv'
  BY <1>1 DEF IInv, ChosenInv, ChosenTracked, ChosenIsUsed, UpdaterInv, session,
              GetCurrentUpdateDevice
<1> QED
  BY <1>1, <1>2, <1>3 DEF IInv

\* IInv is an invariant.
LEMMA SessionInductive ==
  SessionSpec => []IInv
<1>1. SessionInit => IInv
  <2> SUFFICES ASSUME SessionInit PROVE IInv
    OBVIOUS
  <2>1. UDInv
    BY InitUD DEF SessionInit
  <2>2. NoCommand \in Command
    BY DEF NoCommand, Command, NoTarget, Target, Mode
  <2>3. TypeOK
    BY <2>1, <2>2 DEF SessionInit, TypeOK, UDInv, Pc, Calls
  <2>4. Flow /\ ChosenInv /\ UpdaterInv
    BY DEF SessionInit, Init, NotSwitching, Flow, ChosenInv, ChosenTracked, ChosenIsUsed,
           UpdaterInv, Calls
  <2> QED
    BY <2>1, <2>3, <2>4 DEF IInv
<1>2. IInv /\ [SessionNext]_vars => IInv'
  <2> SUFFICES ASSUME IInv, [SessionNext]_vars PROVE IInv'
    OBVIOUS
  <2>1. CASE UNCHANGED vars
    <3>1. UNCHANGED <<udVars, session, chosen>>
      BY <2>1 DEF vars
    <3>2. /\ UDInv' /\ ChosenTracked' /\ GetCurrentUpdateDevice' = GetCurrentUpdateDevice
          /\ UNCHANGED <<switching, m_updateDevices, m_currentUpdateDevice>>
      BY <3>1, SameManager DEF IInv, ChosenInv
    <3> QED
      BY <3>1, <3>2 DEF IInv, TypeOK, UDInv, Flow, session, ChosenInv, ChosenIsUsed, UpdaterInv
  <2>2. CASE UploadRescan
    BY <2>2, ScanningInv, ScanReturns DEF UploadRescan
  <2>3. CASE CommandStep /\ ~UploadRescan
    BY <2>3, CommandScanInv, DeviceSetInv, UploadInv, UploadSwitchInv, UploadSwitchingInv,
       TargetInv, CallInv DEF CommandStep
  <2> QED
    BY <2>1, <2>2, <2>3, EnterStepInv, BusInv DEF SessionNext, CommandStep
<1> QED
  BY <1>1, <1>2, PTL DEF SessionSpec

-----------------------------------------------------------------------------
(* The theorems                                                            *)

\* The types, and that no call of an updater is without its device.
THEOREM SessionTypes ==
  SessionSpec => []TypeOK
BY SessionInductive, PTL DEF IInv

\* No firmware reaches a board that runs an application: the list, however old, says of
\* a board that is still where it was what that board runs.
THEOREM OnlyBootloadersWritten ==
  SessionSpec => []WritesReachBootloaders
<1>1. IInv => WritesReachBootloaders
  <2> SUFFICES ASSUME IInv, pc = "writeFirmware", Reachable(updater.dev)
               PROVE  mode[updater.dev.board] = Bootloader
    BY DEF WritesReachBootloaders
  <2>1. /\ updater.dev \in DevicesOf(m_updateDevices) /\ IsUpdateMode(updater.dev)
        /\ updater.dev \in Device
    BY DEF IInv, UpdaterInv, Flow, TypeOK, Updater, Calls
  <2> QED
    BY <2>1, ReachableSame DEF IInv, Known, IsUpdateMode
<1> QED
  BY <1>1, SessionInductive, PTL

\* A choice that the manager has not dropped is what every command works with.
THEOREM ChoiceIsUsed ==
  SessionSpec => []ChosenIsUsed
BY SessionInductive, PTL DEF IInv, ChosenInv

\* No updater works with a device that the manager has deleted, and none leaves its
\* handle open for a scan or a switch to meet.
THEOREM UpdaterAlive ==
  SessionSpec => []UpdaterDeviceAlive
<1>1. IInv => UpdaterDeviceAlive
  BY DEF IInv, Flow, UpdaterInv, UpdaterDeviceAlive, NoUpdater, Calls
<1> QED
  BY <1>1, SessionInductive, PTL
=============================================================================

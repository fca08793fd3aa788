---------------------------- MODULE UpdateDevices ----------------------------
(***************************************************************************)
(* What core::DeviceManager promises to the commands and the window that   *)
(* use it: its calls as a client sees them.  A scan is one step, which     *)
(* lists the boards that are there or, when it throws, some of them.  A    *)
(* switch into update mode takes its time, in which the board may restart  *)
(* and, where the sleeper runs timers, the bus may be scanned.             *)
(*                                                                         *)
(* DeviceManager implements this module.                                   *)
(***************************************************************************)
EXTENDS DeviceList

CONSTANT ReentrantSleep  \* timers run while switchUpdateMode() sleeps

ASSUME UpdateDevicesAssumption == ReentrantSleep \in BOOLEAN

VARIABLES
  m_updateDevices,        \* the list, in the order of the last scan
  m_currentUpdateDevice,  \* index of the selected one, or -1
  switching               \* the running switchUpdateMode()

udVars == <<busVars, m_updateDevices, m_currentUpdateDevice, switching>>

\* updatedev: the index that is restored after the scan.
Switching == [pc : {"no", "trying", "restore"}, dev : Device \cup {NoDevice},
              updatedev : Nat \cup {-1}]
NotSwitching == [pc |-> "no", dev |-> NoDevice, updatedev |-> -1]

UpdateDevicesTypeOK ==
  /\ BusTypeOK
  /\ m_updateDevices \in Seq(Device)
  /\ m_currentUpdateDevice \in Nat \cup {-1}
  /\ switching \in Switching

GetCurrentUpdateDevice == CurrentDevice(m_updateDevices, m_currentUpdateDevice)

\* The devices somebody refers to, and those on the bus.
Known ==
  DevicesOf(m_updateDevices) \cup ({switching.dev} \ {NoDevice})
    \cup {DeviceOf(b) : b \in Attached}

Held == {d.addr : d \in Known}

-----------------------------------------------------------------------------
(* Scans                                                                   *)

\* What discoverUpdateDevices(updateDevices) looks for.
Found(updateDevices) ==
  {DeviceOf(b) : b \in {c \in Attached : mode[c] = Bootloader \/ mode[c] \in updateDevices}}

\* (A wrong variant: only the sizes of the lists are compared.)
ScanOkIfSizeKept(updateDevices) ==
  /\ m_updateDevices' \in SetToSeqs(Found(updateDevices))
  /\ m_currentUpdateDevice' = IF Len(m_updateDevices) = Len(m_updateDevices')
                              THEN m_currentUpdateDevice ELSE -1

\* "reset update device only when something has changed"
ScanOk(updateDevices) ==
  /\ m_updateDevices' \in SetToSeqs(Found(updateDevices))
  /\ m_currentUpdateDevice' = IF SameDevices(m_updateDevices, m_updateDevices')
                              THEN m_currentUpdateDevice ELSE -1

\* It throws at some device of the bus: the index stays, whatever it counts now.
ScanThrows(updateDevices) ==
  /\ Attached # {}
  /\ \E some \in SUBSET Found(updateDevices) : m_updateDevices' \in SetToSeqs(some)
  /\ UNCHANGED m_currentUpdateDevice

Select(number) ==
  m_currentUpdateDevice' = IF number \in 0 .. Len(m_updateDevices) - 1
                           THEN number ELSE m_currentUpdateDevice

-----------------------------------------------------------------------------
(* Calls of a client                                                       *)

Idle == switching.pc = "no"

\* A client's own call, or that of a timer in the sleeps of a switch.
MayScan == Idle \/ (ReentrantSleep /\ switching.pc = "trying")

Discover(updateDevices) ==
  /\ MayScan
  /\ ScanOk(updateDevices)
  /\ UNCHANGED <<busVars, switching>>

DiscoverThrows(updateDevices) ==
  /\ MayScan
  /\ ScanThrows(updateDevices)
  /\ UNCHANGED <<busVars, switching>>

SetCurrentUpdateDevice(number) ==
  /\ Idle
  /\ Select(number)
  /\ UNCHANGED <<busVars, m_updateDevices, switching>>

ClearCurrentUpdateDevice ==
  /\ Idle
  /\ m_currentUpdateDevice' = -1
  /\ UNCHANGED <<busVars, m_updateDevices, switching>>

\* For a board in update mode switchUpdateMode() does nothing.
BeginSwitch ==
  /\ Idle
  /\ GetCurrentUpdateDevice # NoDevice /\ ~IsUpdateMode(GetCurrentUpdateDevice)
  /\ switching' = [pc |-> "trying", dev |-> GetCurrentUpdateDevice, updatedev |-> -1]
  /\ UNCHANGED <<busVars, m_updateDevices, m_currentUpdateDevice>>

-----------------------------------------------------------------------------
(* A switch under way                                                      *)

SwitchRestarts ==
  /\ switching.pc = "trying"
  /\ Reachable(switching.dev)
  /\ Restart(switching.dev.board, Bootloader)
  /\ UNCHANGED <<m_updateDevices, m_currentUpdateDevice, switching>>

\* A libusb call throws, before or in the scan.
SwitchThrows ==
  /\ switching.pc = "trying"
  /\ switching' = NotSwitching
  /\ \/ ScanThrows({})
     \/ UNCHANGED <<m_updateDevices, m_currentUpdateDevice>>
  /\ UNCHANGED busVars

\* However the tries ended, only boards in update mode are looked for ...
SwitchScans ==
  /\ switching.pc = "trying"
  /\ ScanOk({})
  /\ switching' = [pc |-> "restore", dev |-> switching.dev,
                    updatedev |-> m_currentUpdateDevice]
  /\ UNCHANGED busVars

\* ... and the index from before counts in this new list.
SwitchReturns ==
  /\ switching.pc = "restore"
  /\ Select(switching.updatedev)
  /\ switching' = NotSwitching
  /\ UNCHANGED <<busVars, m_updateDevices>>

SwitchStep == SwitchRestarts \/ SwitchThrows \/ SwitchScans \/ SwitchReturns

-----------------------------------------------------------------------------
BusStep ==
  /\ \E b \in Boards : PlugIn(b, Held) \/ Unplug(b)
  /\ UNCHANGED <<m_updateDevices, m_currentUpdateDevice, switching>>

Init ==
  /\ BusInit
  /\ m_updateDevices = <<>>
  /\ m_currentUpdateDevice = -1
  /\ switching = NotSwitching

ClientStep ==
  \/ \E list \in SUBSET Applications : Discover(list) \/ DiscoverThrows(list)
  \/ \E number \in 0 .. Cardinality(Boards) - 1 : SetCurrentUpdateDevice(number)
  \/ ClearCurrentUpdateDevice
  \/ BeginSwitch

Next == ClientStep \/ SwitchStep \/ BusStep

Spec == Init /\ [][Next]_udVars
=============================================================================

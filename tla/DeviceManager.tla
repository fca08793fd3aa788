---------------------------- MODULE DeviceManager ----------------------------
(***************************************************************************)
(* core::DeviceManager (usbprog-core/devices.cc): the list of boards the   *)
(* program works with, the currently selected one, and the switch of that  *)
(* one into update mode.  Scan and switch are modelled step by step: the   *)
(* bus changes under them, every libusb call may fail, and a failure       *)
(* leaves behind what was done before it.                                  *)
(*                                                                         *)
(* Indices are the code's: 0-based, with -1 for "nothing selected".        *)
(***************************************************************************)
EXTENDS DeviceList

CONSTANTS
  Timeout,        \* what the loop of control transfers counts down from: 6
  ReentrantSleep  \* the sleeper runs an event loop (gui/qtsleeper.cc), and a
                  \* timer in it may scan the bus while switchUpdateMode() sleeps

ASSUME DeviceManagerAssumption ==
  /\ Timeout \in Nat \ {0}
  /\ ReentrantSleep \in BOOLEAN

VARIABLES
  m_updateDevices,        \* the list, in the order of the scan
  m_currentUpdateDevice,  \* index of the selected one, or -1
  scan,                   \* the running discoverUpdateDevices()
  sw                      \* the running switchUpdateMode()

dmVars == <<m_updateDevices, m_currentUpdateDevice, scan, sw>>
vars == <<busVars, dmVars>>

Caller == {"none", "client", "timer", "switch"}

Scan == [caller : Caller, updateDevices : SUBSET Applications,
         usbDevices : Seq(Device), deviceNumber : Nat, oldDevices : Seq(Device)]
NoScan == [caller |-> "none", updateDevices |-> {},
           usbDevices |-> <<>>, deviceNumber |-> 0, oldDevices |-> <<>>]

\* Where switchUpdateMode() is, and its locals.
Setup == {"setConfiguration", "claimInterface", "setInterfaceAltSetting"}
Tries == {"while", "sleep"}
SwitchPc == {"idle", "open", "settle", "rescan", "restore"} \cup Setup \cup Tries
Switch == [pc : SwitchPc, dev : Device \cup {NoDevice}, open : BOOLEAN,
           timeout : 0 .. Timeout, successfully : BOOLEAN, updatedev : Int]
NoSwitch == [pc |-> "idle", dev |-> NoDevice, open |-> FALSE,
             timeout |-> Timeout, successfully |-> FALSE, updatedev |-> -1]

TypeOK ==
  /\ BusTypeOK
  /\ m_updateDevices \in Seq(Device)
  /\ m_currentUpdateDevice \in Nat \cup {-1}
  /\ scan \in Scan
  /\ sw \in Switch

-----------------------------------------------------------------------------
(* What the list says                                                      *)

GetCurrentUpdateDevice == CurrentDevice(m_updateDevices, m_currentUpdateDevice)

\* The devices the host knows of: those it refers to and those on the bus.
Referred ==
  DevicesOf(m_updateDevices) \cup DevicesOf(scan.usbDevices)
    \cup DevicesOf(scan.oldDevices) \cup ({sw.dev} \ {NoDevice})

Known == Referred \cup {DeviceOf(b) : b \in Attached}

Held == {d.addr : d \in Known}

\* No call of the DeviceManager is on the stack.
Idle == scan.caller = "none" /\ sw.pc = "idle"

\* switchUpdateMode() sleeps, and this sleeper runs timers.
TimersRun == ReentrantSleep /\ sw.pc \in {"sleep", "settle"} /\ scan.caller = "none"

-----------------------------------------------------------------------------
(* discoverUpdateDevices(updateDevices)                                    *)

\* UsbManager::detectDevices() takes a new list of the bus, and the old update
\* devices are put aside.
StartScan(updateDevices, caller) ==
  /\ scan.caller = "none"
  /\ \E list \in DeviceLists :
       scan' = [caller |-> caller, updateDevices |-> updateDevices, usbDevices |-> list,
                deviceNumber |-> 0, oldDevices |-> m_updateDevices]
  /\ m_updateDevices' = <<>>
  /\ UNCHANGED m_currentUpdateDevice

\* (A wrong variant: every device on the bus is one.)
RecognisedAll(d) == TRUE

Recognised(d) == IsUpdateMode(d) \/ d.mode \in scan.updateDevices

\* One turn of the loop over the devices of the bus.
ScanNext ==
  /\ scan.caller # "none"
  /\ scan.deviceNumber < Len(scan.usbDevices)
  /\ LET d == scan.usbDevices[scan.deviceNumber + 1]
     IN  m_updateDevices' = IF Recognised(d) THEN Append(m_updateDevices, d)
                                             ELSE m_updateDevices
  /\ scan' = [scan EXCEPT !.deviceNumber = @ + 1]
  /\ UNCHANGED <<busVars, m_currentUpdateDevice, sw>>

\* getDescriptor() throws: the list stays as far as it is, the selection too.
ScanFails ==
  /\ scan.caller # "none"
  /\ scan.deviceNumber < Len(scan.usbDevices)
  /\ scan' = NoScan
  /\ sw' = IF scan.caller = "switch" THEN NoSwitch ELSE sw
  /\ UNCHANGED <<busVars, m_updateDevices, m_currentUpdateDevice>>

\* (A wrong variant: only the sizes of the lists are compared.)
ResetIfSizeChanged ==
  m_currentUpdateDevice' = IF Len(scan.oldDevices) = Len(m_updateDevices)
                           THEN m_currentUpdateDevice ELSE -1

\* "reset update device only when something has changed"
ResetIfChanged ==
  m_currentUpdateDevice' = IF SameDevices(scan.oldDevices, m_updateDevices)
                           THEN m_currentUpdateDevice ELSE -1

ScanDone ==
  /\ scan.caller # "none"
  /\ scan.deviceNumber >= Len(scan.usbDevices)
  /\ ResetIfChanged
  /\ scan' = NoScan
  /\ sw' = IF scan.caller = "switch" THEN [sw EXCEPT !.pc = "restore"] ELSE sw
  /\ UNCHANGED <<busVars, m_updateDevices>>

Discover(updateDevices) ==
  /\ Idle
  /\ StartScan(updateDevices, "client")
  /\ UNCHANGED <<busVars, sw>>

TimerDiscover(updateDevices) ==
  /\ TimersRun
  /\ StartScan(updateDevices, "timer")
  /\ UNCHANGED <<busVars, sw>>

-----------------------------------------------------------------------------
(* The selection                                                           *)

Select(number) ==
  m_currentUpdateDevice' = IF number \in 0 .. Len(m_updateDevices) - 1
                           THEN number ELSE m_currentUpdateDevice

SetCurrentUpdateDevice(number) ==
  /\ Idle
  /\ Select(number)
  /\ UNCHANGED <<busVars, m_updateDevices, scan, sw>>

ClearCurrentUpdateDevice ==
  /\ Idle
  /\ m_currentUpdateDevice' = -1
  /\ UNCHANGED <<busVars, m_updateDevices, scan, sw>>

-----------------------------------------------------------------------------
(* switchUpdateMode()                                                      *)

SwitchTo(pc) == sw' = [sw EXCEPT !.pc = pc]

\* Every caller has checked that there is a current device.
SwitchUpdateMode ==
  /\ Idle
  /\ GetCurrentUpdateDevice # NoDevice
  /\ IF IsUpdateMode(GetCurrentUpdateDevice)
     THEN UNCHANGED sw
     ELSE sw' = [NoSwitch EXCEPT !.pc = "open", !.dev = GetCurrentUpdateDevice]
  /\ UNCHANGED <<busVars, m_updateDevices, m_currentUpdateDevice, scan>>

SwitchOpen ==
  /\ sw.pc = "open"
  /\ Reachable(sw.dev)
  /\ sw' = [sw EXCEPT !.pc = "setConfiguration", !.open = TRUE]
  /\ UNCHANGED <<busVars, m_updateDevices, m_currentUpdateDevice, scan>>

SetupNext == [setConfiguration |-> "claimInterface",
              claimInterface |-> "setInterfaceAltSetting",
              setInterfaceAltSetting |-> "while"]

SwitchSetup ==
  /\ sw.pc \in Setup
  /\ Reachable(sw.dev)
  /\ SwitchTo(SetupNext[sw.pc])
  /\ UNCHANGED <<busVars, m_updateDevices, m_currentUpdateDevice, scan>>

\* One of these calls throws; auto_ptr closes the handle on the way out.
SwitchFails ==
  /\ sw.pc \in {"open"} \cup Setup
  /\ sw' = NoSwitch
  /\ UNCHANGED <<busVars, m_updateDevices, m_currentUpdateDevice, scan>>

\* (A wrong variant: the count is never taken down.)
TriedForever == sw.timeout

\* Passing through the head of the loop: while (!successfully && --timeout > 0)
Tried == IF sw.successfully THEN sw.timeout ELSE sw.timeout - 1

\* The control transfer.  The board may take it and restart in the bootloader
\* whether or not the host learns of it; usbpp 1.0 reports every answer with
\* data as an error.
SwitchTransfer ==
  /\ sw.pc = "while"
  /\ ~sw.successfully /\ Tried > 0
  /\ \E successfully \in BOOLEAN :
       /\ successfully => Reachable(sw.dev)
       /\ sw' = [sw EXCEPT !.pc = "sleep", !.timeout = Tried, !.successfully = successfully]
  /\ \/ UNCHANGED busVars
     \/ Reachable(sw.dev) /\ Restart(sw.dev.board, Bootloader)
  /\ UNCHANGED <<m_updateDevices, m_currentUpdateDevice, scan>>

SwitchSlept ==
  /\ sw.pc = "sleep"
  /\ scan.caller = "none"
  /\ SwitchTo("while")
  /\ UNCHANGED <<busVars, m_updateDevices, m_currentUpdateDevice, scan>>

\* (A wrong variant: the handle lives on until switchUpdateMode() returns.)
SwitchKeepsOpen ==
  /\ sw.pc = "while"
  /\ sw.successfully \/ Tried <= 0
  /\ sw' = [sw EXCEPT !.pc = "settle", !.timeout = Tried]
  /\ UNCHANGED <<busVars, m_updateDevices, m_currentUpdateDevice, scan>>

\* The loop ends, the handle is closed and the board gets its two seconds.
SwitchClose ==
  /\ sw.pc = "while"
  /\ sw.successfully \/ Tried <= 0
  /\ sw' = [sw EXCEPT !.pc = "settle", !.timeout = Tried, !.open = FALSE]
  /\ UNCHANGED <<busVars, m_updateDevices, m_currentUpdateDevice, scan>>

\* (A wrong variant: every board with a known firmware is found again.)
SwitchRescanAll ==
  /\ sw.pc = "settle"
  /\ sw' = [sw EXCEPT !.pc = "rescan", !.updatedev = m_currentUpdateDevice]
  /\ StartScan(Applications, "switch")
  /\ UNCHANGED busVars

\* discoverUpdateDevices() without a list: only boards in update mode are found.
SwitchRescan ==
  /\ sw.pc = "settle"
  /\ sw' = [sw EXCEPT !.pc = "rescan", !.updatedev = m_currentUpdateDevice]
  /\ StartScan({}, "switch")
  /\ UNCHANGED busVars

SwitchRestore ==
  /\ sw.pc = "restore"
  /\ Select(sw.updatedev)
  /\ sw' = NoSwitch
  /\ UNCHANGED <<busVars, m_updateDevices, scan>>

-----------------------------------------------------------------------------
\* A scan works on the list it took at its start, so what the bus does while it
\* runs might as well happen before or after it.
BusNext ==
  /\ scan.caller = "none"
  /\ \E b \in Boards : PlugIn(b, Held) \/ Unplug(b)
  /\ UNCHANGED dmVars

ScanStep == ScanNext \/ ScanFails \/ ScanDone

SwitchStep ==
  \/ SwitchOpen \/ SwitchSetup \/ SwitchFails
  \/ SwitchTransfer \/ SwitchSlept \/ SwitchClose
  \/ SwitchRescan \/ SwitchRestore

Init ==
  /\ BusInit
  /\ m_updateDevices = <<>>
  /\ m_currentUpdateDevice = -1
  /\ scan = NoScan
  /\ sw = NoSwitch

\* What a client may ask for.
ClientNext ==
  \/ \E list \in SUBSET Applications : Discover(list) \/ TimerDiscover(list)
  \/ \E number \in 0 .. Cardinality(Boards) - 1 : SetCurrentUpdateDevice(number)
  \/ ClearCurrentUpdateDevice
  \/ SwitchUpdateMode

Next == ClientNext \/ ScanStep \/ SwitchStep \/ BusNext

Spec == Init /\ [][Next]_vars

\* The program runs; neither the user, nor a timer, nor the bus has to.
FairSpec == Spec /\ WF_vars(ScanStep) /\ SF_vars(SwitchStep)

-----------------------------------------------------------------------------
(* Properties                                                              *)

\* A board is at most once in the list, whatever was plugged, unplugged or
\* failed between two scans: an index names one board.
NoBoardTwice ==
  \A i, j \in 1 .. Len(m_updateDevices) :
    m_updateDevices[i].board = m_updateDevices[j].board => i = j

\* The inductive invariant behind the properties below: what a running scan has
\* listed are devices of the bus it looked at, one for each board ...
ScanInv ==
  scan.caller # "none" =>
    /\ scan.deviceNumber <= Len(scan.usbDevices)
    /\ \A i, j \in 1 .. Len(scan.usbDevices) :
         scan.usbDevices[i].board = scan.usbDevices[j].board => i = j
    /\ \A i \in 1 .. Len(m_updateDevices) :
         \E k \in 1 .. scan.deviceNumber : m_updateDevices[i] = scan.usbDevices[k]

\* ... and the scan of switchUpdateMode() lists boards in update mode only.
SwitchInv ==
  /\ scan.caller = "client" => sw.pc = "idle"
  /\ scan.caller = "timer" => sw.pc \in {"sleep", "settle"}
  /\ scan.caller = "switch" <=> sw.pc = "rescan"
  /\ sw.pc = "rescan" => scan.updateDevices = {}
  /\ sw.pc \in {"rescan", "restore"} =>
       \A i \in 1 .. Len(m_updateDevices) : IsUpdateMode(m_updateDevices[i])
  /\ sw.open => sw.pc \in Setup \cup Tries
  /\ sw.pc \in {"open"} \cup Setup \cup Tries => sw.timeout > 0
  /\ sw.pc # "idle" => sw.dev \in Device

\* The interface of a board is released before the bus is scanned for the
\* restarted board, and however switchUpdateMode() is left.
HandleClosed ==
  /\ sw.open => sw.pc \in Setup \cup Tries
  /\ scan.caller \in {"client", "switch"} => ~sw.open

\* An address stands for one enumeration of one board.  This is why operator== of
\* Device need not look at bcdDevice, the only difference there may be between a
\* board in update mode and the same board running an application.
AddressInv == \A d, e \in Known : d.addr = e.addr => d = e

IInv == TypeOK /\ NoBoardTwice /\ ScanInv /\ SwitchInv

\* A scan that reaches its end never makes the index mean another board: the
\* selection keeps its device or is dropped.
SelectionKeepsItsDevice ==
  [][ScanDone => \/ m_currentUpdateDevice' = -1
                 \/ GetDevice(m_updateDevices', m_currentUpdateDevice')
                      = GetDevice(scan.oldDevices, m_currentUpdateDevice)]_vars

\* When switchUpdateMode() returns, the current device, if there is one, is in
\* update mode, so what is written next reaches a bootloader.
SwitchedToUpdateMode ==
  [][SwitchRestore => \/ GetCurrentUpdateDevice' = NoDevice
                      \/ IsUpdateMode(GetCurrentUpdateDevice')]_vars

\* switchUpdateMode() always comes back, whatever the board does.
SwitchReturns == sw.pc # "idle" ~> sw.pc = "idle"

\* The manager implements UpdateDevices.  A client sees the old list until a scan is
\* done, and of a switch whether it is under way and for which board.
listed == IF scan.caller = "none" THEN m_updateDevices ELSE scan.oldDevices

switching ==
  [pc |-> CASE sw.pc = "idle" -> "no" [] sw.pc = "restore" -> "restore" [] OTHER -> "trying",
   dev |-> sw.dev,
   updatedev |-> IF sw.pc = "restore" THEN sw.updatedev ELSE -1]

UD == INSTANCE UpdateDevices WITH m_updateDevices <- listed, switching <- switching

ImplementsUpdateDevices == UD!Spec

\* devices.h: "Switches the current update device to update mode."  The device
\* that is current afterwards is that board.
SwitchKeepsBoard ==
  [][SwitchRestore => \/ GetCurrentUpdateDevice' = NoDevice
                      \/ GetCurrentUpdateDevice'.board = sw.dev.board]_vars
=============================================================================

------------------------- MODULE DeviceManagerProofs -------------------------
(***************************************************************************)
(* Theorems about DeviceManager, for any set of boards and applications:   *)
(* its invariants; and, with its scans and switches in many steps and its  *)
(* errors in the middle of them, it implements UpdateDevices, where a scan *)
(* is one step.                                                            *)
(***************************************************************************)
EXTENDS DeviceManager, FiniteSetTheorems, FunctionTheorems, SequenceTheorems,
        WellFoundedInduction, TLAPS

-----------------------------------------------------------------------------
(* The bus                                                                 *)

\* What detectDevices() returns is a sequence of devices.
LEMMA DeviceListsType ==
  ASSUME BusTypeOK, NEW list \in DeviceLists
  PROVE  list \in Seq(Device)
<1>1. PICK s \in SetToSeqs(Attached) : list = [i \in DOMAIN s |-> DeviceOf(s[i])]
  BY DEF DeviceLists
<1>2. Cardinality(Attached) \in Nat
  BY UsbBusAssumption, FS_Subset, FS_CardinalityType DEF Attached
<1>3. s \in [1 .. Cardinality(Attached) -> Attached]
  BY DEF SetToSeqs
<1>4. ASSUME NEW b \in Attached PROVE DeviceOf(b) \in Device
  BY UsbBusAssumption DEF Attached, DeviceOf, Device, Address, BusTypeOK
<1>5. list \in [1 .. Cardinality(Attached) -> Device]
  BY <1>1, <1>3, <1>4
<1> QED
  BY <1>2, <1>5, SeqDef

\* No board is twice in it.
LEMMA DeviceListsDistinct ==
  ASSUME BusTypeOK, NEW list \in DeviceLists,
         NEW i \in 1 .. Len(list), NEW j \in 1 .. Len(list),
         list[i].board = list[j].board
  PROVE  i = j
<1>1. PICK s \in SetToSeqs(Attached) : list = [k \in DOMAIN s |-> DeviceOf(s[k])]
  BY DEF DeviceLists
<1>2. Cardinality(Attached) \in Nat
  BY UsbBusAssumption, FS_Subset, FS_CardinalityType DEF Attached
<1>3. /\ s \in [1 .. Cardinality(Attached) -> Attached]
      /\ \A k, l \in 1 .. Cardinality(Attached) : k # l => s[k] # s[l]
  BY DEF SetToSeqs
<1>4. DOMAIN list = 1 .. Cardinality(Attached) /\ Len(list) = Cardinality(Attached)
  BY <1>1, <1>2, <1>3, DeviceListsType, LenProperties
<1>5. list[i].board = s[i] /\ list[j].board = s[j]
  BY <1>1, <1>3, <1>4 DEF DeviceOf
<1> QED
  BY <1>3, <1>4, <1>5

\* Plugging a board in or out keeps the types of the bus.
LEMMA BusStepType ==
  ASSUME BusTypeOK, BusNext
  PROVE  BusTypeOK'
<1>1. PICK b \in Boards : PlugIn(b, Held) \/ Unplug(b)
  BY DEF BusNext
<1>2. CASE PlugIn(b, Held)
  BY <1>2, UsbBusAssumption DEF PlugIn, FreshAddress, Address, BusTypeOK, Mode
<1>3. CASE Unplug(b)
  BY <1>3, UsbBusAssumption DEF Unplug, BusTypeOK
<1> QED
  BY <1>1, <1>2, <1>3

-----------------------------------------------------------------------------
(* The current device                                                      *)

\* A set of indices that is not empty has a smallest element.
LEMMA FirstIndex ==
  ASSUME NEW S \in SUBSET Nat, S # {}
  PROVE  \E i \in S : \A j \in S : i <= j
<1>1. PICK i \in S : \A j \in S : ~(<<j, i>> \in OpToRel(<, Nat))
  BY NatLessThanWellFounded, WFMin
<1>2. \A j \in S : <<j, i>> \in OpToRel(<, Nat) <=> j < i
  BY DEF OpToRel
<1>3. \A j \in S : ~(j < i)
  BY <1>1, <1>2, Zenon
<1> QED
  BY <1>3

\* getCurrentUpdateDevice() returns NULL or a device of the list: the selected
\* one, or one in update mode if none is selected.
LEMMA CurrentDeviceListed ==
  ASSUME NEW list \in Seq(Device), NEW number \in Nat \cup {-1},
         CurrentDevice(list, number) # NoDevice
  PROVE  \E i \in 1 .. Len(list) :
           /\ CurrentDevice(list, number) = list[i]
           /\ number = -1 => IsUpdateMode(list[i])
           /\ number # -1 => i = number + 1
<1> DEFINE ready == {i \in 1 .. Len(list) : IsUpdateMode(list[i])}
<1>1. Len(list) \in Nat
  BY LenProperties
<1>2. CASE number # -1
  <2>1. CurrentDevice(list, number) = GetDevice(list, number)
    BY <1>2 DEF CurrentDevice
  <2> QED
    BY <1>1, <1>2, <2>1 DEF GetDevice
<1>3. CASE number = -1
  <2> DEFINE first == CHOOSE i \in ready : \A j \in ready : i <= j
  <2>1. ready # {}
    BY <1>3 DEF CurrentDevice
  <2>2. CurrentDevice(list, number) = list[first]
    BY <1>3, <2>1 DEF CurrentDevice
  <2>3. first \in ready
    <3>1. ready \in SUBSET Nat
      BY <1>1
    <3> HIDE DEF ready
    <3>2. \E i \in ready : \A j \in ready : i <= j
      BY <2>1, <3>1, FirstIndex
    <3> QED
      BY <3>2
  <2> QED
    BY <1>3, <2>2, <2>3
<1> QED
  BY <1>2, <1>3

-----------------------------------------------------------------------------
(* Types                                                                   *)

\* A new scan starts with a list of the bus and an empty list of devices.
LEMMA StartScanType ==
  ASSUME TypeOK, NEW list \in SUBSET Applications, NEW caller \in Caller,
         StartScan(list, caller)
  PROVE  /\ scan' \in Scan
         /\ m_updateDevices' \in Seq(Device)
         /\ m_currentUpdateDevice' \in Nat \cup {-1}
<1>1. PICK usb \in DeviceLists :
        scan' = [caller |-> caller, updateDevices |-> list, usbDevices |-> usb,
                 deviceNumber |-> 0, oldDevices |-> m_updateDevices]
  BY DEF StartScan
<1>2. usb \in Seq(Device)
  BY DeviceListsType DEF TypeOK
<1> QED
  BY <1>1, <1>2, EmptySeq DEF StartScan, TypeOK, Scan

\* The records of the running calls keep their types when a field is replaced.
LEMMA ScanRecord ==
  ASSUME NEW r \in Scan, NEW n \in Nat
  PROVE  [r EXCEPT !.deviceNumber = n] \in Scan
BY DEF Scan

\* A switch has the fields of its record.
LEMMA SwitchRecord ==
  ASSUME NEW r \in Switch, NEW pc \in SwitchPc, NEW n \in Int
  PROVE  /\ [r EXCEPT !.pc = pc] \in Switch
         /\ [r EXCEPT !.pc = pc, !.updatedev = n] \in Switch
BY DEF Switch

\* Every action keeps the types.  That the count of switchUpdateMode() does not
\* drop below 0 needs SwitchInv: it is positive wherever it is taken down.
LEMMA TypeStep ==
  TypeOK /\ SwitchInv /\ [Next]_vars => TypeOK'
<1> SUFFICES ASSUME TypeOK, SwitchInv, [Next]_vars PROVE TypeOK'
  OBVIOUS
<1> USE DEF TypeOK
<1>1. CASE UNCHANGED vars
  BY <1>1 DEF vars, busVars, dmVars, BusTypeOK
<1>2. ASSUME NEW list \in SUBSET Applications, Discover(list) PROVE TypeOK'
  BY <1>2, StartScanType DEF Discover, Caller, BusTypeOK, busVars
<1>3. ASSUME NEW list \in SUBSET Applications, TimerDiscover(list) PROVE TypeOK'
  BY <1>3, StartScanType DEF TimerDiscover, Caller, BusTypeOK, busVars
<1>4. ASSUME NEW n \in 0 .. Cardinality(Boards) - 1, SetCurrentUpdateDevice(n)
      PROVE  TypeOK'
  BY <1>4 DEF SetCurrentUpdateDevice, Select, BusTypeOK, busVars
<1>5. CASE ClearCurrentUpdateDevice
  BY <1>5 DEF ClearCurrentUpdateDevice, BusTypeOK, busVars
<1>6. CASE SwitchUpdateMode
  <2>1. GetCurrentUpdateDevice \in Device
    BY <1>6, CurrentDeviceListed, ElementOfSeq DEF SwitchUpdateMode, GetCurrentUpdateDevice
  <2>2. sw' \in Switch
    <3>1. NoSwitch \in Switch
      BY DeviceManagerAssumption DEF NoSwitch, Switch, SwitchPc
    <3>2. [NoSwitch EXCEPT !.pc = "open", !.dev = GetCurrentUpdateDevice] \in Switch
      BY <2>1, <3>1 DEF Switch, SwitchPc
    <3> QED
      BY <1>6, <3>2 DEF SwitchUpdateMode
  <2> QED
    BY <1>6, <2>2 DEF SwitchUpdateMode, BusTypeOK, busVars
<1>7. CASE ScanNext
  <2> DEFINE d == scan.usbDevices[scan.deviceNumber + 1]
  <2>1. d \in Device
    BY <1>7, ElementOfSeq, LenProperties DEF ScanNext, Scan
  <2>2. m_updateDevices' \in Seq(Device)
    BY <1>7, <2>1, AppendProperties DEF ScanNext
  <2>3. scan' \in Scan
    <3>1. scan' = [scan EXCEPT !.deviceNumber = scan.deviceNumber + 1]
      BY <1>7 DEF ScanNext
    <3>2. scan \in Scan /\ scan.deviceNumber + 1 \in Nat
      BY DEF Scan
    <3> QED
      BY <3>1, <3>2, ScanRecord
  <2> QED
    BY <1>7, <2>2, <2>3 DEF ScanNext, BusTypeOK, busVars
<1>8. CASE ScanFails
  <2>1. scan' \in Scan
    BY <1>8, EmptySeq DEF ScanFails, NoScan, Scan, Caller
  <2>2. sw' \in Switch
    BY <1>8, DeviceManagerAssumption DEF ScanFails, NoSwitch, Switch, SwitchPc
  <2> QED
    BY <1>8, <2>1, <2>2 DEF ScanFails, BusTypeOK, busVars
<1>9. CASE ScanDone
  <2>1. scan' \in Scan
    BY <1>9, EmptySeq DEF ScanDone, NoScan, Scan, Caller
  <2>2. sw' \in Switch
    BY <1>9 DEF ScanDone, Switch, SwitchPc
  <2>3. m_currentUpdateDevice' \in Nat \cup {-1}
    BY <1>9 DEF ScanDone, ResetIfChanged
  <2> QED
    BY <1>9, <2>1, <2>2, <2>3 DEF ScanDone, BusTypeOK, busVars
<1>10. CASE SwitchStep
  <2>1. CASE SwitchOpen
    BY <2>1 DEF SwitchOpen, BusTypeOK, busVars, Switch, SwitchPc, Setup
  <2>2. CASE SwitchSetup
    BY <2>2 DEF SwitchSetup, SwitchTo, SetupNext, BusTypeOK, busVars,
                Switch, SwitchPc, Setup, Tries
  <2>3. CASE SwitchFails
    BY <2>3, DeviceManagerAssumption DEF SwitchFails, NoSwitch, BusTypeOK, busVars,
                                         Switch, SwitchPc
  <2>4. CASE SwitchTransfer
    <3>1. sw' \in Switch
      <4>1. Tried \in 0 .. Timeout
        BY <2>4, DeviceManagerAssumption DEF SwitchTransfer, Tried, Switch
      <4>2. PICK successfully \in BOOLEAN :
              sw' = [sw EXCEPT !.pc = "sleep", !.timeout = Tried,
                               !.successfully = successfully]
        BY <2>4 DEF SwitchTransfer
      <4> QED
        BY <4>1, <4>2 DEF Switch, SwitchPc, Tries
    <3>2. BusTypeOK'
      <4>1. CASE UNCHANGED busVars
        BY <4>1 DEF BusTypeOK, busVars
      <4>2. CASE Reachable(sw.dev) /\ Restart(sw.dev.board, Bootloader)
        <5> sw.dev.board \in Boards
          BY <2>4 DEF SwitchTransfer, SwitchInv, Device
        <5>1. addr' \in [Boards -> 0 .. MaxAddress]
          BY <4>2, UsbBusAssumption DEF Restart, BusTypeOK
        <5>2. mode' \in [Boards -> Mode]
          BY <4>2 DEF Restart, BusTypeOK, Mode
        <5> QED
          BY <5>1, <5>2 DEF BusTypeOK
      <4> QED
        BY <2>4, <4>1, <4>2 DEF SwitchTransfer
    <3> QED
      BY <2>4, <3>1, <3>2 DEF SwitchTransfer
  <2>5. CASE SwitchSlept
    BY <2>5 DEF SwitchSlept, SwitchTo, BusTypeOK, busVars, Switch, SwitchPc, Tries
  <2>6. CASE SwitchClose
    <3>1. sw' \in Switch
      <4>1. Tried \in 0 .. Timeout
        BY <2>6, DeviceManagerAssumption DEF SwitchClose, Tried, Switch, SwitchInv, Tries
      <4>2. sw' = [sw EXCEPT !.pc = "settle", !.timeout = Tried, !.open = FALSE]
        BY <2>6 DEF SwitchClose
      <4> QED
        BY <4>1, <4>2 DEF Switch, SwitchPc
    <3> QED
      BY <2>6, <3>1 DEF SwitchClose, BusTypeOK, busVars
  <2>7. CASE SwitchRescan
    <3>1. sw' \in Switch
      <4>1. sw' = [sw EXCEPT !.pc = "rescan", !.updatedev = m_currentUpdateDevice]
        BY <2>7 DEF SwitchRescan
      <4>2. "rescan" \in SwitchPc
        BY DEF SwitchPc
      <4>3. sw \in Switch /\ m_currentUpdateDevice \in Int
        OBVIOUS
      <4> QED
        BY <4>1, <4>2, <4>3, SwitchRecord
    <3>2. /\ scan' \in Scan
          /\ m_updateDevices' \in Seq(Device)
          /\ m_currentUpdateDevice' \in Nat \cup {-1}
      BY <2>7, StartScanType DEF SwitchRescan, Caller
    <3> QED
      BY <2>7, <3>1, <3>2 DEF SwitchRescan, BusTypeOK, busVars
  <2>8. CASE SwitchRestore
    <3>1. sw' \in Switch
      BY <2>8, DeviceManagerAssumption DEF SwitchRestore, NoSwitch, Switch, SwitchPc
    <3>2. m_currentUpdateDevice' \in Nat \cup {-1}
      BY <2>8 DEF SwitchRestore, Select
    <3> QED
      BY <2>8, <3>1, <3>2 DEF SwitchRestore, BusTypeOK, busVars
  <2> QED
    BY <1>10, <2>1, <2>2, <2>3, <2>4, <2>5, <2>6, <2>7, <2>8 DEF SwitchStep
<1>11. CASE BusNext
  BY <1>11, BusStepType DEF BusNext, dmVars
<1> QED
  BY <1>1, <1>2, <1>3, <1>4, <1>5, <1>6, <1>7, <1>8, <1>9, <1>10, <1>11
     DEF Next, ClientNext, ScanStep

\* The first state has the right types.
LEMMA TypeInit ==
  Init => TypeOK
BY EmptySeq, UsbBusAssumption, DeviceManagerAssumption
   DEF Init, BusInit, TypeOK, BusTypeOK, NoScan, Scan, Caller,
       NoSwitch, Switch, SwitchPc

-----------------------------------------------------------------------------
(* The scan                                                                *)

\* A scan that has just begun has listed nothing, and its list of the bus names
\* every board once.
LEMMA StartScanInv ==
  ASSUME TypeOK, NEW list, NEW caller, StartScan(list, caller)
  PROVE  /\ NoBoardTwice'
         /\ ScanInv'
         /\ scan'.caller = caller
         /\ scan'.updateDevices = list
         /\ Len(m_updateDevices') = 0
<1>1. PICK usb \in DeviceLists :
        scan' = [caller |-> caller, updateDevices |-> list, usbDevices |-> usb,
                 deviceNumber |-> 0, oldDevices |-> m_updateDevices]
  BY DEF StartScan
<1>2. usb \in Seq(Device) /\ Len(usb) \in Nat
  BY DeviceListsType, LenProperties DEF TypeOK
<1>3. \A i, j \in 1 .. Len(usb) : usb[i].board = usb[j].board => i = j
  BY DeviceListsDistinct DEF TypeOK
<1>4. m_updateDevices' = <<>> /\ Len(m_updateDevices') = 0
  BY EmptySeq DEF StartScan
<1>5. ScanInv'
  BY <1>1, <1>2, <1>3, <1>4 DEF ScanInv
<1> QED
  BY <1>1, <1>4, <1>5 DEF NoBoardTwice

\* One turn of the loop: the device it appends has not been listed, because its
\* place in the list of the bus has not been reached before.
LEMMA ScanNextInv ==
  ASSUME TypeOK, NoBoardTwice, ScanInv, ScanNext
  PROVE  NoBoardTwice' /\ ScanInv'
<1> DEFINE usb == scan.usbDevices
           n == scan.deviceNumber
           d == usb[n + 1]
<1>1. /\ n \in Nat /\ Len(usb) \in Nat /\ n < Len(usb)
      /\ \A i, j \in 1 .. Len(usb) : usb[i].board = usb[j].board => i = j
      /\ \A i \in 1 .. Len(m_updateDevices) :
           \E k \in 1 .. n : m_updateDevices[i] = usb[k]
  BY LenProperties DEF ScanNext, ScanInv, TypeOK, Scan
<1>2. scan' = [scan EXCEPT !.deviceNumber = n + 1]
  BY DEF ScanNext
<1>3. /\ scan'.usbDevices = usb
      /\ scan'.deviceNumber = n + 1
  BY <1>2 DEF TypeOK, Scan
<1>4. Len(m_updateDevices) \in Nat
  BY LenProperties DEF TypeOK
<1>5. CASE m_updateDevices' = m_updateDevices
  <2>1. NoBoardTwice'
    BY <1>5 DEF NoBoardTwice
  <2>2. \A i \in 1 .. Len(m_updateDevices') :
          \E k \in 1 .. n + 1 : m_updateDevices'[i] = usb[k]
    <3> SUFFICES ASSUME NEW i \in 1 .. Len(m_updateDevices)
                 PROVE  \E k \in 1 .. n + 1 : m_updateDevices[i] = usb[k]
      BY <1>5
    <3>1. PICK k \in 1 .. n : m_updateDevices[i] = usb[k]
      BY <1>1
    <3>2. k \in 1 .. n + 1
      BY <1>1
    <3> QED
      BY <3>1, <3>2
  <2> HIDE DEF usb, n
  <2> QED
    BY <1>1, <1>3, <2>1, <2>2 DEF ScanInv, usb, n
<1>6. CASE m_updateDevices' = Append(m_updateDevices, d)
  <2>1. d \in Device
    BY <1>1, ElementOfSeq DEF TypeOK, Scan
  <2>2. /\ Len(m_updateDevices') = Len(m_updateDevices) + 1
        /\ \A i \in 1 .. Len(m_updateDevices) : m_updateDevices'[i] = m_updateDevices[i]
        /\ m_updateDevices'[Len(m_updateDevices) + 1] = d
    BY <1>6, <2>1, AppendProperties DEF TypeOK
  <2>3. \A i \in 1 .. Len(m_updateDevices) : m_updateDevices[i].board # d.board
    <3> SUFFICES ASSUME NEW i \in 1 .. Len(m_updateDevices),
                        m_updateDevices[i].board = d.board
                 PROVE  FALSE
      OBVIOUS
    <3>1. PICK k \in 1 .. n : m_updateDevices[i] = usb[k]
      BY <1>1
    <3>2. k \in 1 .. Len(usb) /\ n + 1 \in 1 .. Len(usb) /\ k # n + 1
      BY <1>1
    <3> QED
      BY <1>1, <3>1, <3>2
  <2>4. NoBoardTwice'
    <3> SUFFICES ASSUME NEW i \in 1 .. Len(m_updateDevices) + 1,
                        NEW j \in 1 .. Len(m_updateDevices) + 1,
                        m_updateDevices'[i].board = m_updateDevices'[j].board
                 PROVE  i = j
      BY <2>2 DEF NoBoardTwice
    <3> HIDE DEF d
    <3>1. CASE i \in 1 .. Len(m_updateDevices) /\ j \in 1 .. Len(m_updateDevices)
      BY <2>2, <3>1 DEF NoBoardTwice
    <3>2. CASE i = Len(m_updateDevices) + 1 /\ j \in 1 .. Len(m_updateDevices)
      BY <2>2, <2>3, <3>2
    <3>3. CASE j = Len(m_updateDevices) + 1 /\ i \in 1 .. Len(m_updateDevices)
      BY <2>2, <2>3, <3>3
    <3> QED
      BY <1>4, <3>1, <3>2, <3>3
  <2>5. \A i \in 1 .. Len(m_updateDevices') :
          \E k \in 1 .. n + 1 : m_updateDevices'[i] = usb[k]
    <3> SUFFICES ASSUME NEW i \in 1 .. Len(m_updateDevices) + 1
                 PROVE  \E k \in 1 .. n + 1 : m_updateDevices'[i] = usb[k]
      BY <2>2
    <3>1. CASE i \in 1 .. Len(m_updateDevices)
      <4>1. PICK k \in 1 .. n : m_updateDevices[i] = usb[k]
        BY <1>1, <3>1
      <4>2. k \in 1 .. n + 1
        BY <1>1
      <4> QED
        BY <2>2, <3>1, <4>1, <4>2
    <3>2. CASE i = Len(m_updateDevices) + 1
      <4>1. n + 1 \in 1 .. n + 1
        BY <1>1
      <4> QED
        BY <2>2, <3>2, <4>1
    <3> QED
      BY <1>4, <3>1, <3>2
  <2> HIDE DEF usb, n, d
  <2> QED
    BY <1>1, <1>3, <2>4, <2>5 DEF ScanInv, usb, n
<1> QED
  BY <1>5, <1>6 DEF ScanNext

-----------------------------------------------------------------------------
(* The inductive invariant                                                 *)

\* What a running scan has listed stays what it listed, and a finished list
\* names every board once.
LEMMA ListStep ==
  IInv /\ [Next]_vars => NoBoardTwice' /\ ScanInv'
<1> SUFFICES ASSUME IInv, [Next]_vars PROVE NoBoardTwice' /\ ScanInv'
  OBVIOUS
<1> USE DEF IInv
<1>1. CASE \E list \in SUBSET Applications, caller \in Caller : StartScan(list, caller)
  BY <1>1, StartScanInv
<1>2. CASE ScanNext
  BY <1>2, ScanNextInv
<1>3. CASE scan' = NoScan /\ UNCHANGED m_updateDevices
  BY <1>3 DEF NoScan, NoBoardTwice, ScanInv
<1>4. CASE UNCHANGED <<scan, m_updateDevices>>
  BY <1>4 DEF NoBoardTwice, ScanInv
<1>5. \/ \E list \in SUBSET Applications, caller \in Caller : StartScan(list, caller)
      \/ ScanNext
      \/ scan' = NoScan /\ UNCHANGED m_updateDevices
      \/ UNCHANGED <<scan, m_updateDevices>>
  <2>1. CASE ClientNext
    BY <2>1 DEF ClientNext, Discover, TimerDiscover, SetCurrentUpdateDevice,
                ClearCurrentUpdateDevice, SwitchUpdateMode, Caller
  <2>2. CASE ScanStep
    BY <2>2 DEF ScanStep, ScanFails, ScanDone
  <2>3. CASE SwitchStep
    <3>1. CASE SwitchRescan
      <4>1. {} \in SUBSET Applications /\ "switch" \in Caller
        BY DEF Caller
      <4>2. StartScan({}, "switch")
        BY <3>1 DEF SwitchRescan
      <4> QED
        BY <4>1, <4>2
    <3>2. CASE ~SwitchRescan
      BY <2>3, <3>2 DEF SwitchStep, SwitchOpen, SwitchSetup, SwitchFails, SwitchTransfer,
                        SwitchSlept, SwitchClose, SwitchRestore
    <3> QED
      BY <3>1, <3>2
  <2>4. CASE BusNext \/ UNCHANGED vars
    BY <2>4 DEF BusNext, vars, dmVars
  <2> QED
    BY <2>1, <2>2, <2>3, <2>4 DEF Next
<1> QED
  BY <1>1, <1>2, <1>3, <1>4, <1>5

\* The scan inside switchUpdateMode() finds boards in update mode only, and no
\* other call gets in between.
LEMMA SwitchInvStep ==
  IInv /\ [Next]_vars => SwitchInv'
<1> SUFFICES ASSUME IInv, [Next]_vars PROVE SwitchInv'
  OBVIOUS
<1> USE DEF IInv
<1>1. CASE UNCHANGED vars
  BY <1>1 DEF vars, dmVars, SwitchInv
<1>2. ASSUME NEW list \in SUBSET Applications, Discover(list) PROVE SwitchInv'
  BY <1>2, StartScanInv DEF Discover, Idle, SwitchInv, Setup, Tries
<1>3. ASSUME NEW list \in SUBSET Applications, TimerDiscover(list) PROVE SwitchInv'
  BY <1>3, StartScanInv DEF TimerDiscover, TimersRun, SwitchInv, Setup, Tries
<1>4. ASSUME NEW n \in 0 .. Cardinality(Boards) - 1, SetCurrentUpdateDevice(n)
      PROVE  SwitchInv'
  BY <1>4 DEF SetCurrentUpdateDevice, SwitchInv
<1>5. CASE ClearCurrentUpdateDevice
  BY <1>5 DEF ClearCurrentUpdateDevice, SwitchInv
<1>6. CASE SwitchUpdateMode
  <2>1. CASE UNCHANGED sw
    BY <1>6, <2>1 DEF SwitchUpdateMode, SwitchInv
  <2>2. CASE sw' = [NoSwitch EXCEPT !.pc = "open", !.dev = GetCurrentUpdateDevice]
    <3>1. GetCurrentUpdateDevice \in Device
      BY <1>6, CurrentDeviceListed, ElementOfSeq DEF SwitchUpdateMode, GetCurrentUpdateDevice, TypeOK
    <3>2. /\ sw'.pc = "open" /\ sw'.dev = GetCurrentUpdateDevice
          /\ sw'.open = FALSE /\ sw'.timeout = Timeout
      BY <2>2 DEF NoSwitch
    <3> QED
      BY <1>6, <3>1, <3>2, DeviceManagerAssumption
         DEF SwitchUpdateMode, Idle, SwitchInv, Setup, Tries
  <2> QED
    BY <1>6, <2>1, <2>2 DEF SwitchUpdateMode
<1>7. CASE ScanNext
  <2> DEFINE d == scan.usbDevices[scan.deviceNumber + 1]
  <2>1. /\ scan'.caller = scan.caller /\ scan'.updateDevices = scan.updateDevices
        /\ sw' = sw
    BY <1>7 DEF ScanNext, TypeOK, Scan
  <2>2. CASE sw.pc = "rescan"
    <3>1. scan.updateDevices = {} /\ scan.caller = "switch"
      BY <2>2 DEF SwitchInv
    <3>2. d \in Device
      BY <1>7, ElementOfSeq, LenProperties DEF ScanNext, Scan, TypeOK
    <3>3. \A i \in 1 .. Len(m_updateDevices') : IsUpdateMode(m_updateDevices'[i])
      <4>1. CASE m_updateDevices' = m_updateDevices
        BY <2>2, <4>1 DEF SwitchInv
      <4>2. CASE Recognised(d) /\ m_updateDevices' = Append(m_updateDevices, d)
        <5>1. IsUpdateMode(d)
          BY <3>1, <4>2 DEF Recognised
        <5>2. /\ Len(m_updateDevices') = Len(m_updateDevices) + 1
              /\ \A i \in 1 .. Len(m_updateDevices) : m_updateDevices'[i] = m_updateDevices[i]
              /\ m_updateDevices'[Len(m_updateDevices) + 1] = d
              /\ Len(m_updateDevices) \in Nat
          BY <3>2, <4>2, AppendProperties, LenProperties DEF TypeOK
        <5>3. \A i \in 1 .. Len(m_updateDevices) : IsUpdateMode(m_updateDevices[i])
          BY <2>2 DEF SwitchInv
        <5> HIDE DEF d
        <5>4. \A i \in 1 .. Len(m_updateDevices) + 1 :
                i \in 1 .. Len(m_updateDevices) \/ i = Len(m_updateDevices) + 1
          BY <5>2
        <5> QED
          BY <5>1, <5>2, <5>3, <5>4
      <4> QED
        BY <1>7, <4>1, <4>2 DEF ScanNext
    <3> QED
      BY <2>1, <2>2, <3>1, <3>3 DEF SwitchInv
  <2>3. CASE sw.pc # "rescan"
    <3>1. sw.pc # "restore"
      BY <1>7, <2>3 DEF ScanNext, SwitchInv, TypeOK, Scan, Caller
    <3> QED
      BY <2>1, <2>3, <3>1 DEF SwitchInv
  <2> QED
    BY <2>2, <2>3
<1>8. CASE ScanFails
  BY <1>8 DEF ScanFails, NoScan, NoSwitch, SwitchInv, Setup, Tries
<1>9. CASE ScanDone
  <2>1. CASE scan.caller = "switch"
    <3>1. sw' = [sw EXCEPT !.pc = "restore"]
      BY <1>9, <2>1 DEF ScanDone
    <3>2. sw'.pc = "restore" /\ sw'.dev = sw.dev /\ sw'.open = sw.open
      BY <3>1 DEF TypeOK, Switch
    <3> QED
      BY <1>9, <2>1, <3>2 DEF ScanDone, NoScan, SwitchInv, Setup, Tries
  <2>2. CASE scan.caller # "switch"
    BY <1>9, <2>2 DEF ScanDone, NoScan, SwitchInv, Setup, Tries
  <2> QED
    BY <2>1, <2>2
<1>10. CASE SwitchStep
  <2>1. CASE SwitchOpen
    BY <2>1 DEF SwitchOpen, SwitchInv, Setup, Tries, TypeOK, Switch
  <2>2. CASE SwitchSetup
    BY <2>2 DEF SwitchSetup, SwitchTo, SetupNext, SwitchInv, Setup, Tries, TypeOK, Switch
  <2>3. CASE SwitchFails
    BY <2>3 DEF SwitchFails, NoSwitch, SwitchInv, Setup, Tries
  <2>4. CASE SwitchTransfer
    <3>1. PICK successfully \in BOOLEAN :
            sw' = [sw EXCEPT !.pc = "sleep", !.timeout = Tried,
                             !.successfully = successfully]
      BY <2>4 DEF SwitchTransfer
    <3>2. /\ sw'.pc = "sleep" /\ sw'.timeout = Tried
          /\ sw'.dev = sw.dev /\ sw'.open = sw.open
      BY <3>1 DEF TypeOK, Switch
    <3> QED
      BY <2>4, <3>2 DEF SwitchTransfer, SwitchInv, Setup, Tries
  <2>5. CASE SwitchSlept
    BY <2>5 DEF SwitchSlept, SwitchTo, SwitchInv, Setup, Tries, TypeOK, Switch
  <2>6. CASE SwitchClose
    BY <2>6 DEF SwitchClose, SwitchInv, Setup, Tries, TypeOK, Switch
  <2>7. CASE SwitchRescan
    <3>1. sw' = [sw EXCEPT !.pc = "rescan", !.updatedev = m_currentUpdateDevice]
      BY <2>7 DEF SwitchRescan
    <3>2. sw'.pc = "rescan" /\ sw'.dev = sw.dev /\ sw'.open = sw.open
      BY <3>1 DEF TypeOK, Switch
    <3>3. scan'.caller = "switch" /\ scan'.updateDevices = {} /\ Len(m_updateDevices') = 0
      BY <2>7, StartScanInv DEF SwitchRescan
    <3> QED
      BY <2>7, <3>2, <3>3 DEF SwitchRescan, SwitchInv, Setup, Tries
  <2>8. CASE SwitchRestore
    BY <2>8 DEF SwitchRestore, NoSwitch, SwitchInv, Setup, Tries
  <2> QED
    BY <1>10, <2>1, <2>2, <2>3, <2>4, <2>5, <2>6, <2>7, <2>8 DEF SwitchStep
<1>11. CASE BusNext
  BY <1>11 DEF BusNext, dmVars, SwitchInv
<1> QED
  BY <1>1, <1>2, <1>3, <1>4, <1>5, <1>6, <1>7, <1>8, <1>9, <1>10, <1>11
     DEF Next, ClientNext, ScanStep

\* IInv holds at the start and is kept by every step.
LEMMA Inductive ==
  Spec => []IInv
<1>1. Init => IInv
  <2> SUFFICES ASSUME Init PROVE IInv
    OBVIOUS
  <2>1. TypeOK
    BY TypeInit
  <2>2. Len(m_updateDevices) = 0
    BY EmptySeq DEF Init
  <2>3. NoBoardTwice
    BY <2>2 DEF NoBoardTwice
  <2>4. ScanInv /\ SwitchInv
    BY DEF Init, NoScan, NoSwitch, ScanInv, SwitchInv, Setup, Tries
  <2> QED
    BY <2>1, <2>3, <2>4 DEF IInv
<1>2. IInv /\ [Next]_vars => IInv'
  BY TypeStep, ListStep, SwitchInvStep DEF IInv
<1> QED
  BY <1>1, <1>2, PTL DEF Spec

-----------------------------------------------------------------------------
(* Theorems                                                                *)

\* The list, the selection and the locals of the running calls always have their
\* types: in particular the selection is never below -1, and switchUpdateMode()
\* never counts its attempts below zero.
THEOREM TypeCorrect ==
  Spec => []TypeOK
<1>1. IInv => TypeOK
  BY DEF IInv
<1> QED
  BY <1>1, Inductive, PTL

\* No history of scans, failed scans and bus changes puts a board into the list
\* of update devices twice.
THEOREM EveryBoardOnce ==
  Spec => []NoBoardTwice
<1>1. IInv => NoBoardTwice
  BY DEF IInv
<1> QED
  BY <1>1, Inductive, PTL

\* switchUpdateMode() holds no handle while the bus is scanned for the restarted
\* board, nor after it was left by a return or an exception.
THEOREM HandleAlwaysClosed ==
  Spec => []HandleClosed
<1>1. IInv => HandleClosed
  BY DEF IInv, SwitchInv, HandleClosed, Setup, Tries
<1> QED
  BY <1>1, Inductive, PTL

\* When switchUpdateMode() returns, the current device is in update mode or there
\* is none, whatever happened on the bus meanwhile.
THEOREM SwitchEndsInUpdateMode ==
  Spec => SwitchedToUpdateMode
<1>1. IInv /\ IInv' /\ [Next]_vars =>
        [SwitchRestore => \/ GetCurrentUpdateDevice' = NoDevice
                          \/ IsUpdateMode(GetCurrentUpdateDevice')]_vars
  <2> SUFFICES ASSUME IInv, IInv', SwitchRestore,
                      GetCurrentUpdateDevice' # NoDevice
               PROVE  IsUpdateMode(GetCurrentUpdateDevice')
    OBVIOUS
  <2>1. PICK i \in 1 .. Len(m_updateDevices') :
          GetCurrentUpdateDevice' = m_updateDevices'[i]
    <3>1. m_updateDevices' \in Seq(Device) /\ m_currentUpdateDevice' \in Nat \cup {-1}
      BY DEF IInv, TypeOK
    <3> QED
      BY <3>1, CurrentDeviceListed DEF GetCurrentUpdateDevice
  <2>2. \A k \in 1 .. Len(m_updateDevices') : IsUpdateMode(m_updateDevices'[k])
    BY DEF SwitchRestore, IInv, SwitchInv
  <2> QED
    BY <2>1, <2>2
<1> QED
  BY <1>1, Inductive, PTL DEF Spec, SwitchedToUpdateMode

-----------------------------------------------------------------------------
(* Addresses                                                               *)

\* The bus can be listed only as it is.
LEMMA DeviceListsAttached ==
  ASSUME NEW list \in DeviceLists, BusTypeOK
  PROVE  DevicesOf(list) \subseteq {DeviceOf(b) : b \in Attached}
<1>1. PICK s \in SetToSeqs(Attached) : list = [i \in DOMAIN s |-> DeviceOf(s[i])]
  BY DEF DeviceLists
<1>2. s \in [1 .. Cardinality(Attached) -> Attached]
  BY DEF SetToSeqs
<1>3. DOMAIN list = 1 .. Len(list)
  BY DeviceListsType, LenProperties
<1>4. \A i \in 1 .. Len(list) : list[i] = DeviceOf(s[i]) /\ s[i] \in Attached
  BY <1>1, <1>2, <1>3
<1> QED
  BY <1>4 DEF DevicesOf

\* Only a board that is plugged in gives the host something new to know.
LEMMA KnownStep ==
  ASSUME IInv, [Next]_vars, ~(\E b \in Boards : PlugIn(b, Held))
  PROVE  Known' \subseteq Known
<1> USE DEF Known
<1> DEFINE OnBus == {DeviceOf(b) : b \in Attached}
<1>1. ASSUME NEW list \in SUBSET Applications, NEW caller \in Caller,
             StartScan(list, caller), UNCHANGED busVars, sw'.dev = sw.dev
      PROVE  Known' \subseteq Known
  <2>1. PICK usb \in DeviceLists :
          scan' = [caller |-> caller, updateDevices |-> list, usbDevices |-> usb,
                   deviceNumber |-> 0, oldDevices |-> m_updateDevices]
    BY <1>1 DEF StartScan
  <2>2. DevicesOf(scan'.usbDevices) \subseteq OnBus
    BY <2>1, DeviceListsAttached DEF IInv, TypeOK
  <2>3. DevicesOf(m_updateDevices') = {}
    BY <1>1, EmptySeq DEF StartScan, DevicesOf
  <2>4. OnBus' = OnBus
    BY <1>1 DEF busVars, Attached, DeviceOf
  <2> QED
    BY <1>1, <2>1, <2>2, <2>3, <2>4 DEF Referred
<1>2. ASSUME OnBus' \subseteq OnBus, Referred' \subseteq Referred
      PROVE  Known' \subseteq Known
  BY <1>2
<1>3. UNCHANGED busVars => OnBus' = OnBus
  BY DEF busVars, Attached, DeviceOf
<1>4. UNCHANGED <<m_updateDevices, scan, sw>> => Referred' = Referred
  BY DEF Referred
<1>5. CASE UNCHANGED vars
  BY <1>2, <1>3, <1>4, <1>5 DEF vars, dmVars
<1>6. CASE ClientNext
  <2>1. ASSUME NEW list \in SUBSET Applications, Discover(list) \/ TimerDiscover(list)
        PROVE  Known' \subseteq Known
    <3>1. \E caller \in Caller : StartScan(list, caller) /\ UNCHANGED <<busVars, sw>>
      BY <2>1 DEF Discover, TimerDiscover, Caller
    <3> QED
      BY <1>1, <3>1
  <2>2. CASE \/ \E n \in 0 .. Cardinality(Boards) - 1 : SetCurrentUpdateDevice(n)
             \/ ClearCurrentUpdateDevice
    BY <1>2, <1>3, <1>4, <2>2 DEF SetCurrentUpdateDevice, ClearCurrentUpdateDevice
  <2>3. CASE SwitchUpdateMode
    <3>1. UNCHANGED <<busVars, m_updateDevices, scan>>
      BY <2>3 DEF SwitchUpdateMode
    <3>2. sw' = sw \/ sw'.dev = GetCurrentUpdateDevice
      BY <2>3 DEF SwitchUpdateMode, NoSwitch
    <3>3. GetCurrentUpdateDevice \in DevicesOf(m_updateDevices)
      BY <2>3, CurrentDeviceListed DEF SwitchUpdateMode, GetCurrentUpdateDevice,
                                       DevicesOf, IInv, TypeOK
    <3>4. Referred' \subseteq Referred
      BY <3>1, <3>2, <3>3 DEF Referred
    <3> QED
      BY <1>2, <1>3, <3>1, <3>4
  <2> QED
    BY <1>6, <2>1, <2>2, <2>3 DEF ClientNext
<1>7. CASE ScanNext
  <2> DEFINE d == scan.usbDevices[scan.deviceNumber + 1]
  <2>1. scan.deviceNumber + 1 \in 1 .. Len(scan.usbDevices)
    BY <1>7, LenProperties DEF ScanNext, IInv, TypeOK, Scan
  <2>2. d \in DevicesOf(scan.usbDevices) /\ d \in Device
    BY <2>1, ElementOfSeq DEF DevicesOf, IInv, TypeOK, Scan
  <2>3. DevicesOf(m_updateDevices') \subseteq DevicesOf(m_updateDevices) \cup {d}
    <3>1. CASE m_updateDevices' = m_updateDevices
      BY <3>1
    <3>2. CASE m_updateDevices' = Append(m_updateDevices, d)
      <4> HIDE DEF d
      <4>1. /\ Len(m_updateDevices') = Len(m_updateDevices) + 1
            /\ \A i \in 1 .. Len(m_updateDevices) : m_updateDevices'[i] = m_updateDevices[i]
            /\ m_updateDevices'[Len(m_updateDevices) + 1] = d
            /\ Len(m_updateDevices) \in Nat
        BY <2>2, <3>2, AppendProperties, LenProperties DEF IInv, TypeOK
      <4>2. \A i \in 1 .. Len(m_updateDevices) + 1 :
              i \in 1 .. Len(m_updateDevices) \/ i = Len(m_updateDevices) + 1
        BY <4>1
      <4> QED
        BY <4>1, <4>2 DEF DevicesOf
    <3> QED
      BY <1>7, <3>1, <3>2 DEF ScanNext
  <2>4. /\ scan'.usbDevices = scan.usbDevices
        /\ scan'.oldDevices = scan.oldDevices
    BY <1>7 DEF ScanNext, IInv, TypeOK, Scan
  <2>5. Referred' \subseteq Referred
    BY <1>7, <2>2, <2>3, <2>4 DEF Referred, ScanNext
  <2> QED
    BY <1>2, <1>3, <1>7, <2>5 DEF ScanNext
<1>8. CASE ScanFails \/ ScanDone
  <2>1. scan' = NoScan /\ UNCHANGED <<busVars, m_updateDevices>>
    BY <1>8 DEF ScanFails, ScanDone
  <2>2. DevicesOf(scan'.usbDevices) = {} /\ DevicesOf(scan'.oldDevices) = {}
    BY <2>1, EmptySeq DEF NoScan, DevicesOf
  <2>3. sw'.dev \in {sw.dev, NoDevice}
    BY <1>8 DEF ScanFails, ScanDone, NoSwitch, IInv, TypeOK, Switch
  <2>4. Referred' \subseteq Referred
    BY <2>1, <2>2, <2>3 DEF Referred
  <2> QED
    BY <1>2, <1>3, <2>1, <2>4
<1>9. CASE SwitchStep
  <2>1. CASE SwitchRescan
    <3>1. sw'.dev = sw.dev /\ {} \in SUBSET Applications /\ "switch" \in Caller
      BY <2>1 DEF SwitchRescan, IInv, TypeOK, Switch, Caller
    <3> QED
      BY <1>1, <2>1, <3>1 DEF SwitchRescan
  <2>2. CASE ~SwitchRescan
    <3>1. UNCHANGED <<m_updateDevices, scan>>
      BY <1>9, <2>2 DEF SwitchStep, SwitchOpen, SwitchSetup, SwitchFails, SwitchTransfer,
                        SwitchSlept, SwitchClose, SwitchRestore
    <3>2. sw'.dev \in {sw.dev, NoDevice}
      <4>1. CASE SwitchFails \/ SwitchRestore
        BY <4>1 DEF SwitchFails, SwitchRestore, NoSwitch
      <4>2. CASE SwitchTransfer
        BY <4>2 DEF SwitchTransfer, IInv, TypeOK, Switch
      <4>3. CASE SwitchOpen \/ SwitchSetup \/ SwitchSlept \/ SwitchClose
        BY <4>3 DEF SwitchOpen, SwitchSetup, SwitchTo, SwitchSlept, SwitchClose,
                    IInv, TypeOK, Switch
      <4> QED
        BY <1>9, <2>2, <4>1, <4>2, <4>3 DEF SwitchStep
    <3>3. Referred' \subseteq Referred
      BY <3>1, <3>2 DEF Referred
    <3>4. OnBus' \subseteq OnBus
      <4>1. CASE UNCHANGED busVars
        BY <1>3, <4>1
      <4>2. CASE Restart(sw.dev.board, Bootloader)
        <5>1. \A b \in Attached' : b \in Attached /\ addr'[b] = addr[b] /\ mode'[b] = mode[b]
          BY <4>2 DEF Restart, Attached, IInv, TypeOK, BusTypeOK
        <5> QED
          BY <5>1 DEF DeviceOf
      <4> QED
        BY <1>9, <2>2, <4>1, <4>2
           DEF SwitchStep, SwitchOpen, SwitchSetup, SwitchFails, SwitchTransfer,
               SwitchSlept, SwitchClose, SwitchRestore
    <3> QED
      BY <1>2, <3>3, <3>4
  <2> QED
    BY <2>1, <2>2
<1>10. CASE BusNext
  <2>1. PICK b \in Boards : Unplug(b)
    BY <1>10 DEF BusNext
  <2>2. \A c \in Attached' : c \in Attached /\ addr'[c] = addr[c] /\ mode'[c] = mode[c]
    BY <2>1 DEF Unplug, Attached, IInv, TypeOK, BusTypeOK
  <2>3. OnBus' \subseteq OnBus
    BY <2>2 DEF DeviceOf
  <2> QED
    BY <1>2, <1>4, <1>10, <2>3 DEF BusNext, dmVars
<1> QED
  BY <1>5, <1>6, <1>7, <1>8, <1>9, <1>10 DEF Next, ScanStep

\* An address is new when a board gets it, so it never stands for two devices.
LEMMA AddressStep ==
  ASSUME IInv, AddressInv, [Next]_vars
  PROVE  AddressInv'
<1>1. CASE ~(\E b \in Boards : PlugIn(b, Held))
  BY <1>1, KnownStep DEF AddressInv
<1>2. CASE \E b \in Boards : PlugIn(b, Held)
  <2>1. PICK b \in Boards : PlugIn(b, Held)
    BY <1>2
  <2>2. PICK a \in Address \ Held : addr' = [addr EXCEPT ![b] = a]
    BY <2>1 DEF PlugIn, FreshAddress
  <2>3. PICK m \in {mode[b], Bootloader} : mode' = [mode EXCEPT ![b] = m]
    BY <2>1 DEF PlugIn
  <2>4. UNCHANGED <<m_updateDevices, scan, sw>>
    <3>1. addr' # addr
      BY <2>1, <2>2, UsbBusAssumption DEF PlugIn, Address, IInv, TypeOK, BusTypeOK
    <3>2. CASE UNCHANGED dmVars
      BY <3>2 DEF dmVars
    <3>3. CASE SwitchTransfer /\ Restart(sw.dev.board, Bootloader)
      <4>1. sw.dev.board # b => addr'[b] = 0
        BY <2>1, <3>3 DEF PlugIn, Restart, IInv, TypeOK, BusTypeOK
      <4>2. sw.dev.board = b => addr'[b] = 0
        BY <3>3 DEF Restart, IInv, TypeOK, BusTypeOK
      <4>3. addr'[b] = a
        BY <2>2 DEF IInv, TypeOK, BusTypeOK
      <4> QED
        BY <4>1, <4>2, <4>3 DEF Address
    <3> QED
      BY <3>1, <3>2, <3>3
         DEF Next, ClientNext, Discover, TimerDiscover, SetCurrentUpdateDevice,
             ClearCurrentUpdateDevice, SwitchUpdateMode, ScanStep, ScanNext, ScanFails,
             ScanDone, SwitchStep, SwitchOpen, SwitchSetup, SwitchFails, SwitchTransfer,
             SwitchSlept, SwitchClose, SwitchRescan, SwitchRestore, BusNext, vars, busVars
  <2>5. Referred' = Referred
    BY <2>4 DEF Referred
  <2>6. \A c \in Attached' : c # b => c \in Attached /\ DeviceOf(c)' = DeviceOf(c)
    BY <2>2, <2>3 DEF Attached, DeviceOf, IInv, TypeOK, BusTypeOK
  <2>7. DeviceOf(b)'.addr = a
    BY <2>2 DEF DeviceOf, IInv, TypeOK, BusTypeOK
  <2>8. \A d \in Known' : d \in Known \/ d = DeviceOf(b)'
    BY <2>5, <2>6 DEF Known
  <2>9. \A d \in Known : d.addr # a
    BY <2>2 DEF Held
  <2> QED
    BY <2>7, <2>8, <2>9 DEF AddressInv
<1> QED
  BY <1>1, <1>2

\* An address stands for one enumeration of one board.
THEOREM AddressNamesDevice ==
  Spec => []AddressInv
<1>1. Init => AddressInv
  <2> SUFFICES ASSUME Init PROVE Known = {}
    BY DEF AddressInv
  <2>1. DevicesOf(<<>>) = {}
    BY EmptySeq DEF DevicesOf
  <2>2. Referred = {}
    BY <2>1 DEF Init, NoScan, NoSwitch, Referred
  <2>3. Attached = {}
    BY DEF Init, BusInit, Attached
  <2> QED
    BY <2>2, <2>3 DEF Known
<1>2. IInv /\ AddressInv /\ [Next]_vars => AddressInv'
  BY AddressStep
<1> QED
  BY <1>1, <1>2, Inductive, PTL DEF Spec

\* A scan that finds the list unchanged has found the very same devices, although
\* it compares nothing but addresses and identities: the selection it keeps
\* still means the same board in the same mode.
THEOREM SelectionKept ==
  Spec => SelectionKeepsItsDevice
<1>1. IInv /\ AddressInv /\ [Next]_vars =>
        [ScanDone => \/ m_currentUpdateDevice' = -1
                     \/ GetDevice(m_updateDevices', m_currentUpdateDevice')
                          = GetDevice(scan.oldDevices, m_currentUpdateDevice)]_vars
  <2> SUFFICES ASSUME IInv, AddressInv, ScanDone, m_currentUpdateDevice' # -1
               PROVE  GetDevice(m_updateDevices', m_currentUpdateDevice')
                        = GetDevice(scan.oldDevices, m_currentUpdateDevice)
    OBVIOUS
  <2> DEFINE old == scan.oldDevices
             new == m_updateDevices
  <2>1. /\ m_currentUpdateDevice' = m_currentUpdateDevice
        /\ m_updateDevices' = new
        /\ SameDevices(old, new)
    BY DEF ScanDone, ResetIfChanged
  <2>2. Len(old) = Len(new) /\ Len(new) \in Nat
    BY <2>1, LenProperties DEF SameDevices, IInv, TypeOK, Scan
  <2>3. \A i \in 1 .. Len(new) : old[i] = new[i]
    <3> TAKE i \in 1 .. Len(new)
    <3>1. old[i] \in Known /\ new[i] \in Known
      BY <2>2 DEF Known, Referred, DevicesOf
    <3>2. old[i].addr = new[i].addr
      BY <2>1, <2>2 DEF SameDevices, SameDevice
    <3> QED
      BY <3>1, <3>2 DEF AddressInv
  <2>4. \A n \in 0 .. Len(new) - 1 : n + 1 \in 1 .. Len(new)
    BY <2>2
  <2> QED
    BY <2>1, <2>2, <2>3, <2>4 DEF GetDevice
<1> QED
  BY <1>1, Inductive, AddressNamesDevice, PTL DEF Spec, SelectionKeepsItsDevice

-----------------------------------------------------------------------------
(* The refinement of UpdateDevices                                         *)

\* What the scan has recognised so far.
RecognisedSoFar ==
  {scan.usbDevices[k] : k \in {j \in 1 .. scan.deviceNumber : Recognised(scan.usbDevices[j])}}

\* What else of the state the mapping rests on: a running scan has the bus in front of
\* it as it still is, and has listed what it has recognised.
RunningScan ==
  /\ scan.caller = "none" => scan = NoScan
  /\ scan.caller = "timer" => ReentrantSleep
  /\ scan.caller # "none" =>
       /\ scan.usbDevices \in DeviceLists
       /\ DevicesOf(m_updateDevices) = RecognisedSoFar

\* The index that will be restored is the selection of now.
KeptIndex == sw.pc = "rescan" => sw.updatedev = m_currentUpdateDevice

-----------------------------------------------------------------------------
(* Lists of devices                                                        *)

\* A list without repetitions is one of those that SetToSeqs makes of its devices.
LEMMA Enumerated ==
  ASSUME NEW list \in Seq(Device),
         \A i, j \in 1 .. Len(list) : list[i].board = list[j].board => i = j
  PROVE  list \in SetToSeqs(DevicesOf(list))
<1> DEFINE n == Len(list)
<1>1. n \in Nat /\ list \in [1 .. n -> DevicesOf(list)]
  BY LenProperties DEF DevicesOf
<1>2. list \in Bijection(1 .. n, DevicesOf(list))
  BY <1>1 DEF Bijection, Injection, Surjection, IsInjective, DevicesOf
<1>3. Cardinality(DevicesOf(list)) = n
  <2>1. IsFiniteSet(1 .. n) /\ Cardinality(1 .. n) = n
    BY <1>1, FS_Interval
  <2>2. ExistsBijection(1 .. n, DevicesOf(list))
    BY <1>2 DEF ExistsBijection
  <2> QED
    BY <2>1, <2>2, FS_Bijection
<1> QED
  BY <1>1, <1>3 DEF SetToSeqs

\* A list of the bus leaves no board out.
LEMMA DeviceListsAll ==
  ASSUME NEW list \in DeviceLists, BusTypeOK
  PROVE  DevicesOf(list) = {DeviceOf(b) : b \in Attached}
<1>1. PICK s \in SetToSeqs(Attached) : list = [i \in DOMAIN s |-> DeviceOf(s[i])]
  BY DEF DeviceLists
<1> DEFINE n == Cardinality(Attached)
<1>2. IsFiniteSet(Attached) /\ n \in Nat
  BY UsbBusAssumption, FS_Subset, FS_CardinalityType DEF Attached
<1>3. s \in Injection(1 .. n, Attached)
  BY DEF SetToSeqs, Injection, IsInjective
<1>4. s \in Surjection(1 .. n, Attached)
  <2>1. Cardinality(1 .. n) = n
    BY <1>2, FS_Interval
  <2> QED
    BY <1>2, <1>3, <2>1, FS_Injection
<1>5. DOMAIN s = 1 .. n /\ 1 .. Len(list) = 1 .. n
  <2>1. DOMAIN s = 1 .. n
    BY DEF SetToSeqs
  <2>2. DOMAIN list = 1 .. Len(list)
    BY DeviceListsType, LenProperties
  <2> QED
    BY <1>1, <2>1, <2>2
<1> QED
  BY <1>1, <1>4, <1>5 DEF DevicesOf, Surjection

-----------------------------------------------------------------------------
(* The invariant                                                           *)

\* A scan starts with the bus as it is and nothing recognised.
LEMMA StartScanRunning ==
  ASSUME TypeOK, RunningScan, NEW list, NEW caller \in Caller \ {"none"},
         caller = "timer" => ReentrantSleep,
         StartScan(list, caller), UNCHANGED busVars
  PROVE  RunningScan'
<1>1. PICK usb \in DeviceLists :
        scan' = [caller |-> caller, updateDevices |-> list, usbDevices |-> usb,
                 deviceNumber |-> 0, oldDevices |-> m_updateDevices]
  BY DEF StartScan
<1>2. usb \in DeviceLists'
  BY DEF DeviceLists, Attached, DeviceOf, busVars
<1>3. DevicesOf(m_updateDevices') = {} /\ RecognisedSoFar' = {}
  BY <1>1, EmptySeq DEF StartScan, DevicesOf, RecognisedSoFar
<1> QED
  BY <1>1, <1>2, <1>3 DEF RunningScan

\* What one turn of the loop appends is what it recognises.
LEMMA ScanNextRunning ==
  ASSUME TypeOK, RunningScan, ScanNext
  PROVE  RunningScan'
<1> DEFINE n == scan.deviceNumber
           d == scan.usbDevices[n + 1]
<1>1. /\ n \in Nat /\ n + 1 \in 1 .. Len(scan.usbDevices)
      /\ d \in Device
  BY LenProperties, ElementOfSeq DEF ScanNext, TypeOK, Scan
<1>2. /\ scan' = [scan EXCEPT !.deviceNumber = n + 1]
      /\ scan'.usbDevices = scan.usbDevices /\ scan'.deviceNumber = n + 1
      /\ scan'.caller = scan.caller /\ scan'.updateDevices = scan.updateDevices
  BY DEF ScanNext, TypeOK, Scan
<1>3. scan'.usbDevices \in DeviceLists'
  <2>1. scan.usbDevices \in DeviceLists
    BY DEF ScanNext, RunningScan
  <2>2. DeviceLists' = DeviceLists
    BY DEF ScanNext, DeviceLists, Attached, DeviceOf, busVars
  <2> QED
    BY <1>2, <2>1, <2>2
<1>4. \A e : Recognised(e)' <=> Recognised(e)
  BY <1>2 DEF Recognised
<1>5. RecognisedSoFar' = RecognisedSoFar \cup (IF Recognised(d) THEN {d} ELSE {})
  <2>1. 1 .. n + 1 = (1 .. n) \cup {n + 1}
    BY <1>1
  <2>2. RecognisedSoFar' = {scan.usbDevices[k] :
                              k \in {j \in 1 .. n + 1 : Recognised(scan.usbDevices[j])}}
    BY <1>2 DEF RecognisedSoFar, Recognised
  <2> HIDE DEF d
  <2>3. d = scan.usbDevices[n + 1]
    BY DEF d
  <2> QED
    BY <2>1, <2>2, <2>3 DEF RecognisedSoFar
<1>6. DevicesOf(m_updateDevices')
        = DevicesOf(m_updateDevices) \cup (IF Recognised(d) THEN {d} ELSE {})
  <2>1. CASE Recognised(d)
    <3>1. m_updateDevices' = Append(m_updateDevices, d)
      BY <2>1 DEF ScanNext
    <3>2. /\ Len(m_updateDevices') = Len(m_updateDevices) + 1
          /\ \A i \in 1 .. Len(m_updateDevices) : m_updateDevices'[i] = m_updateDevices[i]
          /\ m_updateDevices'[Len(m_updateDevices) + 1] = d
      BY <1>1, <3>1, AppendProperties DEF TypeOK
    <3>3. Len(m_updateDevices) \in Nat
      BY LenProperties DEF TypeOK
    <3> QED
      BY <2>1, <3>2, <3>3 DEF DevicesOf
  <2>2. CASE ~Recognised(d)
    BY <2>2 DEF ScanNext
  <2> QED
    BY <2>1, <2>2
<1> QED
  BY <1>2, <1>3, <1>5, <1>6 DEF RunningScan, ScanNext

\* Nothing but a scan changes the list while one runs, and the bus waits.
LEMMA RunningScanStep ==
  IInv /\ RunningScan /\ [Next]_vars => RunningScan'
<1> SUFFICES ASSUME IInv, RunningScan, [Next]_vars PROVE RunningScan'
  OBVIOUS
<1> USE DEF IInv
<1>1. CASE UNCHANGED <<busVars, m_updateDevices, scan>>
  BY <1>1 DEF RunningScan, RecognisedSoFar, Recognised, DeviceLists, Attached, DeviceOf,
              busVars
<1>2. CASE scan.caller = "none" /\ UNCHANGED scan
  BY <1>2 DEF RunningScan, NoScan
<1>3. ASSUME NEW list \in SUBSET Applications, Discover(list) PROVE RunningScan'
  BY <1>3, StartScanRunning DEF Discover, Caller
<1>4. ASSUME NEW list \in SUBSET Applications, TimerDiscover(list) PROVE RunningScan'
  BY <1>4, StartScanRunning DEF TimerDiscover, TimersRun, Caller
<1>5. CASE ScanNext
  BY <1>5, ScanNextRunning
<1>6. CASE ScanFails \/ ScanDone
  BY <1>6 DEF ScanFails, ScanDone, NoScan, RunningScan
<1>7. CASE SwitchTransfer
  <2>1. scan.caller = "none"
    BY <1>7 DEF SwitchTransfer, SwitchInv, TypeOK, Scan, Caller
  <2> QED
    BY <1>2, <1>7, <2>1 DEF SwitchTransfer
<1>8. CASE SwitchRescan
  BY <1>8, StartScanRunning DEF SwitchRescan, Caller
<1>9. CASE BusNext
  BY <1>2, <1>9 DEF BusNext, dmVars
<1>10. ASSUME NEW number, SetCurrentUpdateDevice(number) PROVE RunningScan'
  BY <1>1, <1>10 DEF SetCurrentUpdateDevice
<1>11. CASE ClearCurrentUpdateDevice \/ SwitchUpdateMode
  BY <1>1, <1>11 DEF ClearCurrentUpdateDevice, SwitchUpdateMode
<1>12. CASE SwitchOpen \/ SwitchSetup \/ SwitchFails \/ SwitchSlept \/ SwitchClose
            \/ SwitchRestore
  BY <1>1, <1>12 DEF SwitchOpen, SwitchSetup, SwitchFails, SwitchSlept, SwitchClose,
                     SwitchRestore
<1>13. CASE UNCHANGED vars
  BY <1>1, <1>13 DEF vars, dmVars
<1> QED
  BY <1>3, <1>4, <1>5, <1>6, <1>7, <1>8, <1>9, <1>10, <1>11, <1>12, <1>13
     DEF Next, ClientNext, ScanStep, SwitchStep

\* Nobody selects a device while switchUpdateMode() scans.
LEMMA KeptIndexStep ==
  IInv /\ KeptIndex /\ [Next]_vars => KeptIndex'
<1> SUFFICES ASSUME IInv, KeptIndex, [Next]_vars, sw'.pc = "rescan"
             PROVE  sw'.updatedev = m_currentUpdateDevice'
  BY DEF KeptIndex
<1> USE DEF IInv
<1>1. CASE UNCHANGED <<sw, m_currentUpdateDevice>>
  BY <1>1 DEF KeptIndex
<1>2. CASE SwitchRescan
  BY <1>2 DEF SwitchRescan, StartScan, TypeOK, Switch
<1>3. CASE ScanFails \/ ScanDone
  BY <1>3 DEF ScanFails, ScanDone, NoSwitch, KeptIndex, SwitchInv, TypeOK, Switch
<1>4. ASSUME NEW list, Discover(list) \/ TimerDiscover(list)
      PROVE  sw'.updatedev = m_currentUpdateDevice'
  BY <1>1, <1>4 DEF Discover, TimerDiscover, StartScan
<1>5. ASSUME NEW number, SetCurrentUpdateDevice(number)
      PROVE  sw'.updatedev = m_currentUpdateDevice'
  BY <1>5 DEF SetCurrentUpdateDevice, Idle
<1>6. CASE ClearCurrentUpdateDevice
  BY <1>6 DEF ClearCurrentUpdateDevice, Idle
<1>7. CASE SwitchUpdateMode
  BY <1>7 DEF SwitchUpdateMode, Idle, NoSwitch
<1>8. CASE SwitchOpen \/ SwitchFails \/ SwitchTransfer \/ SwitchClose
  <2>1. sw \in Switch
    BY DEF TypeOK
  <2>2. CASE SwitchOpen
    BY <2>1, <2>2 DEF SwitchOpen, Switch
  <2>3. CASE SwitchFails
    BY <2>3 DEF SwitchFails, NoSwitch
  <2>4. CASE SwitchTransfer
    BY <2>1, <2>4 DEF SwitchTransfer, Switch
  <2>5. CASE SwitchClose
    BY <2>1, <2>5 DEF SwitchClose, Switch
  <2> QED
    BY <1>8, <2>2, <2>3, <2>4, <2>5
<1>9. CASE SwitchSetup \/ SwitchSlept \/ SwitchRestore
  BY <1>9 DEF SwitchSetup, SwitchSlept, SwitchTo, SwitchRestore, NoSwitch, SetupNext, Setup,
              TypeOK, Switch
<1>10. CASE ScanNext \/ BusNext \/ UNCHANGED vars
  BY <1>1, <1>10 DEF ScanNext, BusNext, dmVars, vars
<1> QED
  BY <1>2, <1>3, <1>4, <1>5, <1>6, <1>7, <1>8, <1>9, <1>10
     DEF Next, ClientNext, ScanStep, SwitchStep

\* All of it holds always.
LEMMA AlwaysRunningScan ==
  Spec => [](RunningScan /\ KeptIndex)
<1>1. Init => RunningScan /\ KeptIndex
  BY DEF Init, RunningScan, KeptIndex, NoScan, NoSwitch
<1>2. IInv /\ RunningScan /\ KeptIndex /\ [Next]_vars => RunningScan' /\ KeptIndex'
  BY RunningScanStep, KeptIndexStep
<1> QED
  BY <1>1, <1>2, Inductive, PTL DEF Spec

-----------------------------------------------------------------------------
(* Every step is one of UpdateDevices                                      *)

\* The operators of UpdateDevices are those of this module.
LEMMA SameOperators ==
  /\ UD!Attached = Attached
  /\ \A b : UD!DeviceOf(b) = DeviceOf(b)
  /\ \A d : UD!IsUpdateMode(d) = IsUpdateMode(d)
  /\ \A d : UD!Reachable(d) = Reachable(d)
  /\ \A s, t : UD!SameDevices(s, t) = SameDevices(s, t)
  /\ \A list : UD!DevicesOf(list) = DevicesOf(list)
BY DEF UD!Attached, Attached, UD!DeviceOf, DeviceOf, UD!IsUpdateMode, IsUpdateMode,
       UD!Bootloader, Bootloader, UD!Reachable, Reachable, UD!SameDevices, SameDevices,
       UD!SameDevice, SameDevice, UD!DevicesOf, DevicesOf

\* And so is the current device.
LEMMA SameCurrent ==
  ASSUME NEW list, NEW number
  PROVE  UD!CurrentDevice(list, number) = CurrentDevice(list, number)
BY DEF UD!CurrentDevice, CurrentDevice, UD!GetDevice, GetDevice, UD!IsUpdateMode,
       IsUpdateMode, UD!Bootloader, Bootloader

\* So are those of the library that UpdateDevices has from its own copy of it.
LEMMA SameCardinality ==
  /\ \A S : UD!Cardinality(S) = Cardinality(S)
  /\ \A S : UD!SetToSeqs(S) = SetToSeqs(S)
<1>1. \A S : UD!IsFiniteSet(S) = IsFiniteSet(S)
  BY DEF UD!IsFiniteSet, IsFiniteSet
<1>2. \A S : UD!Cardinality(S) = Cardinality(S)
  BY <1>1 DEF UD!Cardinality, Cardinality
<1> QED
  BY <1>2 DEF UD!SetToSeqs, SetToSeqs

\* A scan looks for the devices it recognises.
LEMMA FoundRecognised ==
  ASSUME IInv, RunningScan, scan.caller # "none"
  PROVE  /\ RecognisedSoFar \subseteq UD!Found(scan.updateDevices)
         /\ scan.deviceNumber = Len(scan.usbDevices) =>
              RecognisedSoFar = UD!Found(scan.updateDevices)
<1> DEFINE usb == scan.usbDevices
<1>1. /\ DevicesOf(usb) = {DeviceOf(b) : b \in Attached}
      /\ Len(usb) \in Nat /\ scan.deviceNumber \in Nat
      /\ scan.deviceNumber <= Len(usb)
  BY DeviceListsAll, LenProperties DEF RunningScan, IInv, TypeOK, Scan, ScanInv
<1>2. UD!Found(scan.updateDevices) = {d \in DevicesOf(usb) : Recognised(d)}
  <2>1. UD!Found(scan.updateDevices)
          = {DeviceOf(b) : b \in {c \in Attached :
                                    mode[c] = Bootloader \/ mode[c] \in scan.updateDevices}}
    BY SameOperators DEF UD!Found, UD!Bootloader, Bootloader, UD!DeviceOf, DeviceOf,
                         UD!Attached, Attached
  <2>2. \A b : Recognised(DeviceOf(b)) <=>
                 mode[b] = Bootloader \/ mode[b] \in scan.updateDevices
    BY DEF Recognised, DeviceOf, IsUpdateMode
  <2> QED
    BY <1>1, <2>1, <2>2
<1>3. DevicesOf(usb) = {usb[k] : k \in 1 .. Len(usb)}
  BY DEF DevicesOf
<1>4. RecognisedSoFar = {usb[k] : k \in {j \in 1 .. scan.deviceNumber : Recognised(usb[j])}}
  BY DEF RecognisedSoFar
<1>5. 1 .. scan.deviceNumber \subseteq 1 .. Len(usb)
  BY <1>1
<1>6. RecognisedSoFar \subseteq {d \in DevicesOf(usb) : Recognised(d)}
  BY <1>3, <1>4, <1>5
<1>7. ASSUME scan.deviceNumber = Len(usb)
      PROVE  {d \in DevicesOf(usb) : Recognised(d)} \subseteq RecognisedSoFar
  <2>1. \A d \in DevicesOf(usb) : Recognised(d) =>
                \E k \in 1 .. scan.deviceNumber : usb[k] = d /\ Recognised(usb[k])
    BY <1>3, <1>7
  <2> QED
    BY <2>1, <1>4
<1> HIDE DEF usb
<1> QED
  BY <1>2, <1>6, <1>7 DEF usb

\* A list that is under way is one of some of the devices that are looked for.
LEMMA PartlyListed ==
  ASSUME IInv, RunningScan, scan.caller # "none"
  PROVE  m_updateDevices \in SetToSeqs(RecognisedSoFar)
<1>1. m_updateDevices \in SetToSeqs(DevicesOf(m_updateDevices))
  BY Enumerated DEF IInv, TypeOK, NoBoardTwice
<1> QED
  BY <1>1 DEF RunningScan

\* A scan that throws leaves a part of its list to be seen.
LEMMA ScanFailsRefines ==
  ASSUME IInv, RunningScan, ScanFails
  PROVE  UD!Next
<1> DEFINE list == scan.updateDevices
<1>1. /\ scan.caller # "none" /\ scan'.caller = "none"
      /\ listed' = m_updateDevices /\ m_currentUpdateDevice' = m_currentUpdateDevice
      /\ UNCHANGED busVars
  BY DEF ScanFails, NoScan, listed
<1>2. UD!ScanThrows(list)
  <2>1. UD!Attached # {}
    <3>1. scan.usbDevices[1] \in DevicesOf(scan.usbDevices)
      BY LenProperties DEF ScanFails, DevicesOf, IInv, TypeOK, Scan
    <3> QED
      BY <1>1, <3>1, DeviceListsAll, SameOperators DEF RunningScan, IInv, TypeOK
  <2>2. listed' \in UD!SetToSeqs(RecognisedSoFar)
    BY <1>1, PartlyListed, SameCardinality
  <2>3. RecognisedSoFar \in SUBSET UD!Found(list)
    BY <1>1, FoundRecognised
  <2> QED
    BY <1>1, <2>1, <2>2, <2>3 DEF UD!ScanThrows
<1>3. CASE scan.caller = "switch"
  <2>1. sw.pc = "rescan" /\ sw' = NoSwitch /\ list = {}
    BY <1>3 DEF IInv, SwitchInv, ScanFails
  <2>2. switching.pc = "trying" /\ switching' = UD!NotSwitching
    BY <2>1 DEF switching, UD!NotSwitching, NoSwitch
  <2>3. UD!SwitchThrows
    BY <1>1, <1>2, <2>1, <2>2 DEF UD!SwitchThrows, UD!busVars, busVars
  <2> QED
    BY <2>3 DEF UD!Next, UD!SwitchStep
<1>4. CASE scan.caller # "switch"
  <2>1. UNCHANGED switching
    BY <1>4 DEF ScanFails, switching
  <2>2. UD!MayScan
    BY <1>1, <1>4 DEF UD!MayScan, UD!Idle, switching, IInv, SwitchInv, RunningScan,
                      TypeOK, Scan, Caller
  <2>3. UD!DiscoverThrows(list)
    BY <1>1, <1>2, <2>1, <2>2 DEF UD!DiscoverThrows, UD!busVars, busVars
  <2>4. list \in SUBSET Applications
    BY DEF IInv, TypeOK, Scan
  <2> QED
    BY <2>3, <2>4 DEF UD!Next, UD!ClientStep
<1> QED
  BY <1>3, <1>4

\* The end of a scan is the whole of it.
LEMMA ScanDoneRefines ==
  ASSUME IInv, RunningScan, KeptIndex, ScanDone
  PROVE  UD!Next
<1> DEFINE list == scan.updateDevices
<1>1. /\ scan.caller # "none" /\ scan'.caller = "none"
      /\ listed = scan.oldDevices /\ listed' = m_updateDevices
      /\ UNCHANGED busVars
  BY DEF ScanDone, NoScan, listed
<1>2. UD!ScanOk(list)
  <2>1. scan.deviceNumber = Len(scan.usbDevices)
    BY <1>1, LenProperties DEF ScanDone, IInv, ScanInv, TypeOK, Scan
  <2>2. listed' \in UD!SetToSeqs(UD!Found(list))
    BY <1>1, <2>1, PartlyListed, FoundRecognised, SameCardinality
  <2>3. m_currentUpdateDevice' = IF UD!SameDevices(listed, listed')
                                 THEN m_currentUpdateDevice ELSE -1
    BY <1>1, SameOperators DEF ScanDone, ResetIfChanged
  <2> QED
    BY <2>2, <2>3 DEF UD!ScanOk
<1>3. CASE scan.caller = "switch"
  <2>1. /\ sw.pc = "rescan" /\ sw' = [sw EXCEPT !.pc = "restore"] /\ list = {}
        /\ sw.updatedev = m_currentUpdateDevice
    BY <1>3 DEF IInv, SwitchInv, ScanDone, KeptIndex
  <2>2. /\ sw'.pc = "restore" /\ sw'.dev = sw.dev
        /\ sw'.updatedev = m_currentUpdateDevice
    BY <2>1 DEF IInv, TypeOK, Switch
  <2>3. /\ switching.pc = "trying"
        /\ switching' = [pc |-> "restore", dev |-> switching.dev,
                          updatedev |-> m_currentUpdateDevice]
    <3>1. switching = [pc |-> "trying", dev |-> sw.dev, updatedev |-> -1]
      BY <2>1 DEF switching
    <3>2. switching' = [pc |-> "restore", dev |-> sw.dev, updatedev |-> m_currentUpdateDevice]
      BY <2>2 DEF switching
    <3> QED
      BY <3>1, <3>2
  <2>4. UD!SwitchScans
    BY <1>1, <1>2, <2>1, <2>3 DEF UD!SwitchScans, UD!busVars, busVars
  <2> QED
    BY <2>4 DEF UD!Next, UD!SwitchStep
<1>4. CASE scan.caller # "switch"
  <2>1. UNCHANGED switching
    BY <1>4 DEF ScanDone, switching
  <2>2. UD!MayScan
    BY <1>1, <1>4 DEF UD!MayScan, UD!Idle, switching, IInv, SwitchInv, RunningScan,
                      TypeOK, Scan, Caller
  <2>3. UD!Discover(list)
    BY <1>1, <1>2, <2>1, <2>2 DEF UD!Discover, UD!busVars, busVars
  <2>4. list \in SUBSET Applications
    BY DEF IInv, TypeOK, Scan
  <2> QED
    BY <2>3, <2>4 DEF UD!Next, UD!ClientStep
<1> QED
  BY <1>3, <1>4

\* The inner steps of a switch are not seen, but that the board restarts, that a call
\* throws and that it is over.
LEMMA SwitchRefines ==
  ASSUME IInv, RunningScan, SwitchStep
  PROVE  UD!Next \/ UNCHANGED UD!udVars
<1> USE DEF IInv
<1>1. ASSUME UNCHANGED <<busVars, listed, m_currentUpdateDevice, switching>>
      PROVE  UNCHANGED UD!udVars
  BY <1>1 DEF UD!udVars, UD!busVars, busVars
<1>2. sw \in Switch
  BY DEF TypeOK
<1>3. CASE SwitchOpen \/ SwitchSetup \/ SwitchSlept \/ SwitchClose
  <2>1. UNCHANGED <<busVars, m_updateDevices, m_currentUpdateDevice, scan>>
    BY <1>3 DEF SwitchOpen, SwitchSetup, SwitchSlept, SwitchClose
  <2>2. /\ sw'.dev = sw.dev
        /\ sw.pc \notin {"idle", "restore"} /\ sw'.pc \notin {"idle", "restore"}
    <3>1. CASE SwitchOpen
      BY <1>2, <3>1 DEF SwitchOpen, Switch
    <3>2. CASE SwitchSetup
      BY <1>2, <3>2 DEF SwitchSetup, SwitchTo, Setup, SetupNext, Switch
    <3>3. CASE SwitchSlept
      BY <1>2, <3>3 DEF SwitchSlept, SwitchTo, Switch
    <3>4. CASE SwitchClose
      BY <1>2, <3>4 DEF SwitchClose, Switch
    <3> QED
      BY <1>3, <3>1, <3>2, <3>3, <3>4
  <2> QED
    BY <1>1, <2>1, <2>2 DEF switching, listed
<1>4. CASE SwitchFails
  <2>1. sw.pc \notin {"idle", "restore"} /\ sw' = NoSwitch
    BY <1>4 DEF SwitchFails, Setup
  <2>2. switching.pc = "trying" /\ switching' = UD!NotSwitching
    BY <2>1 DEF switching, UD!NotSwitching, NoSwitch
  <2>3. UNCHANGED <<busVars, listed, m_currentUpdateDevice>>
    BY <1>4 DEF SwitchFails, listed
  <2>4. UD!SwitchThrows
    BY <2>2, <2>3 DEF UD!SwitchThrows, UD!busVars, busVars
  <2> QED
    BY <2>4 DEF UD!Next, UD!SwitchStep
<1>5. CASE SwitchTransfer
  <2>1. /\ sw.pc = "while" /\ sw'.pc = "sleep" /\ sw'.dev = sw.dev
        /\ UNCHANGED <<m_updateDevices, m_currentUpdateDevice, scan>>
    BY <1>2, <1>5 DEF SwitchTransfer, Switch
  <2>2. switching.pc = "trying" /\ switching.dev = sw.dev /\ UNCHANGED <<switching, listed>>
    BY <2>1 DEF switching, listed
  <2>3. CASE UNCHANGED busVars
    BY <1>1, <2>1, <2>2, <2>3
  <2>4. CASE Reachable(sw.dev) /\ Restart(sw.dev.board, Bootloader)
    <3>1. UD!SwitchRestarts
      BY <2>1, <2>2, <2>4, SameOperators DEF UD!SwitchRestarts, UD!Restart, Restart,
                                             UD!Bootloader, Bootloader
    <3> QED
      BY <3>1 DEF UD!Next, UD!SwitchStep
  <2> QED
    BY <1>5, <2>3, <2>4 DEF SwitchTransfer
<1>6. CASE SwitchRescan
  <2>1. /\ sw.pc = "settle" /\ sw'.pc = "rescan" /\ sw'.dev = sw.dev
        /\ UNCHANGED <<busVars, m_currentUpdateDevice>>
        /\ scan.caller = "none" /\ scan'.caller = "switch"
        /\ scan'.oldDevices = m_updateDevices
    BY <1>2, <1>6 DEF SwitchRescan, StartScan, Switch
  <2> QED
    BY <1>1, <2>1 DEF switching, listed
<1>7. CASE SwitchRestore
  <2>1. /\ sw.pc = "restore" /\ sw' = NoSwitch /\ scan.caller = "none"
        /\ UNCHANGED <<busVars, m_updateDevices, scan>>
    BY <1>7 DEF SwitchRestore, SwitchInv, TypeOK, Scan, Caller
  <2>2. /\ switching.pc = "restore" /\ switching.updatedev = sw.updatedev
        /\ switching' = UD!NotSwitching
        /\ listed = m_updateDevices /\ listed' = m_updateDevices
    BY <2>1 DEF switching, UD!NotSwitching, NoSwitch, listed
  <2>3. UD!Select(switching.updatedev)
    BY <1>7, <2>2 DEF SwitchRestore, UD!Select, Select
  <2>4. UD!SwitchReturns
    BY <2>1, <2>2, <2>3 DEF UD!SwitchReturns, UD!busVars, busVars
  <2> QED
    BY <2>4 DEF UD!Next, UD!SwitchStep
<1> QED
  BY <1>3, <1>4, <1>5, <1>6, <1>7 DEF SwitchStep

\* A client's calls are seen when they have something to show: that a scan begins is not.
LEMMA ClientRefines ==
  ASSUME IInv, RunningScan, ClientNext
  PROVE  UD!Next \/ UNCHANGED UD!udVars
<1> USE DEF IInv
<1>1. ASSUME NEW list, NEW caller, caller # "none", StartScan(list, caller), UNCHANGED <<busVars, sw>>
      PROVE  UNCHANGED UD!udVars
  <2>1. /\ scan.caller = "none" /\ scan'.caller = caller
        /\ scan'.oldDevices = m_updateDevices /\ UNCHANGED m_currentUpdateDevice
    BY <1>1 DEF StartScan
  <2>2. UNCHANGED <<listed, switching>>
    BY <1>1, <2>1 DEF listed, switching
  <2> QED
    BY <1>1, <2>1, <2>2 DEF UD!udVars, UD!busVars, busVars
<1>2. ASSUME NEW list \in SUBSET Applications, Discover(list) \/ TimerDiscover(list)
      PROVE  UNCHANGED UD!udVars
  BY <1>1, <1>2 DEF Discover, TimerDiscover
<1>3. ASSUME Idle PROVE UD!Idle /\ listed = m_updateDevices
  BY <1>3 DEF Idle, UD!Idle, switching, listed
<1>4. ASSUME NEW number \in 0 .. Cardinality(Boards) - 1, SetCurrentUpdateDevice(number)
      PROVE  UD!Next
  <2>0. number \in 0 .. UD!Cardinality(Boards) - 1
    BY <1>4, SameCardinality
  <2>1. UD!SetCurrentUpdateDevice(number)
    BY <1>3, <1>4 DEF SetCurrentUpdateDevice, UD!SetCurrentUpdateDevice, UD!Select, Select,
                      UD!busVars, busVars, listed, switching
  <2> QED
    BY <2>0, <2>1 DEF UD!Next, UD!ClientStep
<1>5. CASE ClearCurrentUpdateDevice
  <2>1. UD!ClearCurrentUpdateDevice
    BY <1>3, <1>5 DEF ClearCurrentUpdateDevice, UD!ClearCurrentUpdateDevice,
                      UD!busVars, busVars, listed, switching
  <2> QED
    BY <2>1 DEF UD!Next, UD!ClientStep
<1>6. CASE SwitchUpdateMode
  <2>1. /\ Idle /\ GetCurrentUpdateDevice # NoDevice
        /\ UNCHANGED <<busVars, m_updateDevices, m_currentUpdateDevice, scan>>
    BY <1>6 DEF SwitchUpdateMode
  <2>2. UD!GetCurrentUpdateDevice = GetCurrentUpdateDevice
    BY <1>3, <2>1, SameCurrent DEF UD!GetCurrentUpdateDevice, GetCurrentUpdateDevice
  <2>3. CASE IsUpdateMode(GetCurrentUpdateDevice)
    <3>1. UNCHANGED sw
      BY <1>6, <2>3 DEF SwitchUpdateMode
    <3> QED
      BY <2>1, <3>1 DEF UD!udVars, UD!busVars, busVars, listed, switching
  <2>4. CASE ~IsUpdateMode(GetCurrentUpdateDevice)
    <3>1. sw' = [NoSwitch EXCEPT !.pc = "open", !.dev = GetCurrentUpdateDevice]
      BY <1>6, <2>4 DEF SwitchUpdateMode
    <3>2. switching' = [pc |-> "trying", dev |-> GetCurrentUpdateDevice, updatedev |-> -1]
      BY <3>1 DEF switching, NoSwitch
    <3>3. UD!BeginSwitch
      BY <1>3, <2>1, <2>2, <2>4, <3>2, SameOperators
         DEF UD!BeginSwitch, UD!busVars, busVars, listed
    <3> QED
      BY <3>3 DEF UD!Next, UD!ClientStep
  <2> QED
    BY <2>3, <2>4
<1> QED
  BY <1>2, <1>4, <1>5, <1>6 DEF ClientNext

\* Both modules hold the same addresses while no scan runs.
LEMMA BusRefines ==
  ASSUME IInv, RunningScan, BusNext
  PROVE  UD!Next
<1>1. /\ scan = NoScan /\ listed = m_updateDevices /\ switching.dev = sw.dev
      /\ UNCHANGED <<listed, m_currentUpdateDevice, switching>>
  BY DEF BusNext, dmVars, RunningScan, listed, switching
<1>2. UD!Held = Held
  <2>1. DevicesOf(<<>>) = {}
    BY EmptySeq DEF DevicesOf
  <2>2. Known = DevicesOf(m_updateDevices) \cup ({sw.dev} \ {NoDevice})
                  \cup {DeviceOf(b) : b \in Attached}
    BY <1>1, <2>1 DEF Known, Referred, NoScan
  <2>3. UD!Known = Known
    BY <1>1, <2>2, SameOperators DEF UD!Known, UD!DeviceOf, DeviceOf, UD!Attached, Attached
  <2> QED
    BY <2>3 DEF UD!Held, Held
<1>3. \E b \in Boards : UD!PlugIn(b, UD!Held) \/ UD!Unplug(b)
  <2>1. PICK b \in Boards : PlugIn(b, Held) \/ Unplug(b)
    BY DEF BusNext
  <2>2. UD!PlugIn(b, UD!Held) \/ UD!Unplug(b)
    BY <1>2, <2>1 DEF UD!PlugIn, PlugIn, UD!Unplug, Unplug, UD!FreshAddress, FreshAddress,
                      UD!Address, Address, UD!Bootloader, Bootloader
  <2> QED
    BY <2>2
<1>4. UD!BusStep
  BY <1>1, <1>3 DEF UD!BusStep
<1> QED
  BY <1>4 DEF UD!Next

\* DeviceManager implements UpdateDevices: what the commands and the window may rely on
\* is what they get, for any boards, applications and failures.
THEOREM Implementation ==
  Spec => ImplementsUpdateDevices
<1>1. Init => UD!Init
  BY DEF Init, UD!Init, BusInit, UD!BusInit, UD!Mode, Mode, UD!Bootloader, Bootloader,
         listed, switching, NoScan, NoSwitch, UD!NotSwitching
<1>2. IInv /\ RunningScan /\ KeptIndex /\ [Next]_vars => [UD!Next]_UD!udVars
  <2> SUFFICES ASSUME IInv, RunningScan, KeptIndex, [Next]_vars
               PROVE  UD!Next \/ UNCHANGED UD!udVars
    OBVIOUS
  <2>1. CASE ScanNext
    BY <2>1 DEF ScanNext, UD!udVars, UD!busVars, busVars, listed, switching, IInv, TypeOK, Scan
  <2>2. CASE UNCHANGED vars
    BY <2>2 DEF vars, dmVars, UD!udVars, UD!busVars, busVars, listed, switching
  <2> QED
    BY <2>1, <2>2, ScanFailsRefines, ScanDoneRefines, SwitchRefines, ClientRefines,
       BusRefines DEF Next, ScanStep
<1> QED
  BY <1>1, <1>2, Inductive, AlwaysRunningScan, PTL DEF Spec, UD!Spec, ImplementsUpdateDevices
=============================================================================

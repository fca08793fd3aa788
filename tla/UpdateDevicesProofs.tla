------------------------- MODULE UpdateDevicesProofs -------------------------
(***************************************************************************)
(* What every client of UpdateDevices may rely on, for any boards and      *)
(* applications: types, addresses and where the current device comes from. *)
(* CliSessionProofs and GuiMainWindowProofs are built upon it.             *)
(***************************************************************************)
EXTENDS UpdateDevices, FiniteSetTheorems, SequenceTheorems,
        WellFoundedInduction, TLAPS

-----------------------------------------------------------------------------
(* The invariant                                                           *)

OnBus == {DeviceOf(b) : b \in Attached}

\* An address stands for one enumeration of one board.
UniqueAddresses == \A d, e \in Known : d.addr = e.addr => d = e

\* A switch is for a device, and its scan has left boards in update mode only.
SwitchingInv ==
  /\ switching.pc # "no" => switching.dev \in Device
  /\ switching.pc = "restore" =>
       \A i \in 1 .. Len(m_updateDevices) : IsUpdateMode(m_updateDevices[i])

UDInv == UpdateDevicesTypeOK /\ UniqueAddresses /\ SwitchingInv

\* What is still where it was when it was enumerated is still what it was.
LEMMA ReachableSame ==
  ASSUME UDInv, NEW d \in Known, d \in Device, Reachable(d)
  PROVE  d.board \in Attached /\ DeviceOf(d.board) = d /\ mode[d.board] = d.mode
<1>1. d.board \in Attached
  BY UsbBusAssumption DEF Reachable, Attached, Device, Address
<1>2. DeviceOf(d.board) \in Known /\ DeviceOf(d.board).addr = d.addr
  BY <1>1 DEF Known, DeviceOf, Reachable
<1>3. DeviceOf(d.board) = d
  BY <1>2 DEF UDInv, UniqueAddresses
<1> QED
  BY <1>1, <1>3 DEF DeviceOf

-----------------------------------------------------------------------------
(* Lists                                                                   *)

\* The devices of the bus are devices.
LEMMA OnBusType ==
  ASSUME BusTypeOK
  PROVE  OnBus \subseteq Device /\ IsFiniteSet(Attached) /\ IsFiniteSet(OnBus)
<1>1. OnBus \subseteq Device
  BY UsbBusAssumption DEF OnBus, Attached, DeviceOf, Device, Address, BusTypeOK
<1>2. IsFiniteSet(Attached)
  BY UsbBusAssumption, FS_Subset DEF Attached
<1>3. IsFiniteSet(OnBus)
  <2> DEFINE f == [b \in Attached |-> DeviceOf(b)]
  <2>1. f \in Surjection(Attached, OnBus)
    BY DEF Surjection, OnBus
  <2> QED
    BY <1>2, <2>1, FS_Surjection
<1> QED
  BY <1>1, <1>2, <1>3

\* What SetToSeqs makes of some devices is a list of them.
LEMMA ListOfDevices ==
  ASSUME NEW S \in SUBSET Device, IsFiniteSet(S), NEW list \in SetToSeqs(S)
  PROVE  list \in Seq(Device) /\ DevicesOf(list) \subseteq S
<1>1. Cardinality(S) \in Nat
  BY FS_CardinalityType
<1>2. list \in [1 .. Cardinality(S) -> S]
  BY DEF SetToSeqs
<1>3. list \in Seq(S)
  BY <1>1, <1>2, SeqDef
<1>4. Len(list) = Cardinality(S)
  BY <1>1, <1>2, <1>3, LenProperties
<1> QED
  BY <1>2, <1>3, <1>4, SeqDef DEF DevicesOf

\* A scan lists devices of the bus, and only those it looks for.
LEMMA ScanLists ==
  ASSUME UpdateDevicesTypeOK, NEW updateDevices,
         ScanOk(updateDevices) \/ ScanThrows(updateDevices)
  PROVE  /\ m_updateDevices' \in Seq(Device)
         /\ m_currentUpdateDevice' \in {m_currentUpdateDevice, -1}
         /\ DevicesOf(m_updateDevices') \subseteq OnBus
         /\ \A d \in DevicesOf(m_updateDevices') :
              IsUpdateMode(d) \/ d.mode \in updateDevices
<1>1. Found(updateDevices) \subseteq OnBus /\ OnBus \subseteq Device /\ IsFiniteSet(OnBus)
  BY OnBusType DEF Found, OnBus, UpdateDevicesTypeOK
<1>2. \A d \in Found(updateDevices) : IsUpdateMode(d) \/ d.mode \in updateDevices
  BY DEF Found, DeviceOf, IsUpdateMode
<1>3. \E some \in SUBSET Found(updateDevices) : m_updateDevices' \in SetToSeqs(some)
  BY DEF ScanOk, ScanThrows
<1>4. PICK some \in SUBSET Found(updateDevices) : m_updateDevices' \in SetToSeqs(some)
  BY <1>3
<1>5. some \in SUBSET Device /\ IsFiniteSet(some)
  BY <1>1, FS_Subset
<1>6. m_updateDevices' \in Seq(Device) /\ DevicesOf(m_updateDevices') \subseteq some
  BY <1>4, <1>5, ListOfDevices
<1>7. m_currentUpdateDevice' \in {m_currentUpdateDevice, -1}
  BY DEF ScanOk, ScanThrows
<1> QED
  BY <1>1, <1>2, <1>6, <1>7

\* A set of indices that is not empty has a smallest element.
LEMMA SmallestIndex ==
  ASSUME NEW S \in SUBSET Nat, S # {}
  PROVE  \E i \in S : \A j \in S : i <= j
<1>1. PICK i \in S : \A j \in S : ~(<<j, i>> \in OpToRel(<, Nat))
  BY NatLessThanWellFounded, WFMin
<1>2. \A j \in S : <<j, i>> \in OpToRel(<, Nat) <=> j < i
  BY DEF OpToRel
<1>3. \A j \in S : ~(j < i)
  BY <1>1, <1>2, Zenon
<1> QED
  BY <1>3

\* The current device is the selected one or, without a selection, one in update mode.
LEMMA CurrentListed ==
  ASSUME NEW list \in Seq(Device), NEW number \in Nat \cup {-1},
         CurrentDevice(list, number) # NoDevice
  PROVE  /\ CurrentDevice(list, number) \in DevicesOf(list)
         /\ number = -1 => IsUpdateMode(CurrentDevice(list, number))
<1> DEFINE ready == {i \in 1 .. Len(list) : IsUpdateMode(list[i])}
<1>1. Len(list) \in Nat
  BY LenProperties
<1>2. CASE number # -1
  <2>1. CurrentDevice(list, number) = GetDevice(list, number)
    BY <1>2 DEF CurrentDevice
  <2> QED
    BY <1>1, <1>2, <2>1 DEF GetDevice, DevicesOf
<1>3. CASE number = -1
  <2> DEFINE first == CHOOSE i \in ready : \A j \in ready : i <= j
  <2>1. ready # {}
    BY <1>3 DEF CurrentDevice
  <2>2. CurrentDevice(list, number) = list[first]
    BY <1>3, <2>1 DEF CurrentDevice
  <2>3. first \in ready
    <3>1. ready \in SUBSET Nat
      BY <1>1
    <3> HIDE DEF ready
    <3>2. \E i \in ready : \A j \in ready : i <= j
      BY <2>1, <3>1, SmallestIndex
    <3> QED
      BY <3>2
  <2> QED
    BY <1>3, <2>2, <2>3 DEF DevicesOf
<1> QED
  BY <1>2, <1>3

\* A list that a scan finds unchanged is the same list, although addresses and
\* identities is all that is compared.
LEMMA SameIsSame ==
  ASSUME UDInv, NEW list \in Seq(Device), DevicesOf(list) \subseteq Known,
         SameDevices(m_updateDevices, list)
  PROVE  list = m_updateDevices
<1>1. m_updateDevices \in Seq(Device) /\ Len(m_updateDevices) = Len(list)
  BY DEF SameDevices, UDInv, UpdateDevicesTypeOK
<1>2. ASSUME NEW i \in 1 .. Len(list) PROVE m_updateDevices[i] = list[i]
  <2>1. m_updateDevices[i] \in Known /\ list[i] \in Known
    BY <1>1, <1>2 DEF Known, DevicesOf
  <2>2. m_updateDevices[i].addr = list[i].addr
    BY <1>1, <1>2 DEF SameDevices, SameDevice
  <2> QED
    BY <2>1, <2>2 DEF UDInv, UniqueAddresses
<1> QED
  BY <1>1, <1>2, SeqEqual

-----------------------------------------------------------------------------
(* Steps                                                                   *)

\* Without a board that is plugged in the host learns of no address it did not know.
LEMMA KnownShrinks ==
  ASSUME UDInv, OnBus' \subseteq OnBus,
         DevicesOf(m_updateDevices') \subseteq Known,
         switching'.dev \in Known \cup {NoDevice}
  PROVE  UniqueAddresses'
<1>1. Known' \subseteq Known
  BY DEF Known, OnBus
<1> QED
  BY <1>1 DEF UDInv, UniqueAddresses

\* A board that restarts or is unplugged leaves the bus.
LEMMA LeavesBus ==
  ASSUME BusTypeOK, NEW b \in Boards,
         Unplug(b) \/ \E m \in Mode : Restart(b, m)
  PROVE  BusTypeOK' /\ OnBus' \subseteq OnBus
<1>1. BusTypeOK'
  BY UsbBusAssumption DEF Unplug, Restart, BusTypeOK
<1>2. \A c \in Attached' : c \in Attached /\ addr'[c] = addr[c] /\ mode'[c] = mode[c]
  BY DEF Unplug, Restart, Attached, BusTypeOK
<1>3. OnBus' \subseteq OnBus
  BY <1>2 DEF OnBus, DeviceOf
<1> QED
  BY <1>1, <1>3

\* Any board may restart, in any mode.
LEMMA RestartStep ==
  ASSUME UDInv, NEW b \in Boards, NEW m \in Mode, Restart(b, m),
         UNCHANGED <<m_updateDevices, m_currentUpdateDevice, switching>>
  PROVE  UDInv'
<1>1. BusTypeOK' /\ OnBus' \subseteq OnBus
  BY LeavesBus DEF UDInv, UpdateDevicesTypeOK
<1>2. UniqueAddresses'
  BY <1>1, KnownShrinks DEF Known
<1> QED
  BY <1>1, <1>2 DEF UDInv, UpdateDevicesTypeOK, SwitchingInv

\* Boards come and go.
LEMMA BusStepInv ==
  ASSUME UDInv, BusStep
  PROVE  UDInv'
<1>1. PICK b \in Boards : PlugIn(b, Held) \/ Unplug(b)
  BY DEF BusStep
<1>2. UNCHANGED <<m_updateDevices, m_currentUpdateDevice, switching>>
  BY DEF BusStep
<1>3. SwitchingInv'
  BY <1>2 DEF UDInv, SwitchingInv
<1>4. CASE Unplug(b)
  <2>1. BusTypeOK' /\ OnBus' \subseteq OnBus
    BY <1>4, LeavesBus DEF UDInv, UpdateDevicesTypeOK
  <2>2. UniqueAddresses'
    BY <1>2, <2>1, KnownShrinks DEF Known
  <2> QED
    BY <1>2, <1>3, <2>1, <2>2 DEF UDInv, UpdateDevicesTypeOK
<1>5. CASE PlugIn(b, Held)
  <2>1. PICK a \in Address \ Held : addr' = [addr EXCEPT ![b] = a]
    BY <1>5 DEF PlugIn, FreshAddress
  <2>2. PICK m \in {mode[b], Bootloader} : mode' = [mode EXCEPT ![b] = m]
    BY <1>5 DEF PlugIn
  <2>3. BusTypeOK'
    BY <2>1, <2>2, UsbBusAssumption DEF UDInv, UpdateDevicesTypeOK, BusTypeOK, Mode, Address
  <2>4. \A c \in Attached' : c # b => c \in Attached /\ DeviceOf(c)' = DeviceOf(c)
    BY <2>1, <2>2 DEF Attached, DeviceOf, UDInv, UpdateDevicesTypeOK, BusTypeOK
  <2>5. DeviceOf(b)'.addr = a
    BY <2>1 DEF DeviceOf, UDInv, UpdateDevicesTypeOK, BusTypeOK
  <2>6. \A d \in Known' : d \in Known \/ d = DeviceOf(b)'
    BY <1>2, <2>4 DEF Known
  <2>7. \A d \in Known : d.addr # a
    BY <2>1 DEF Held
  <2>8. UniqueAddresses'
    BY <2>5, <2>6, <2>7 DEF UniqueAddresses, UDInv
  <2> QED
    BY <1>2, <1>3, <2>3, <2>8 DEF UDInv, UpdateDevicesTypeOK
<1> QED
  BY <1>1, <1>4, <1>5

\* A scan, whoever calls it and however it ends.
LEMMA ScanInv ==
  ASSUME UDInv, NEW updateDevices,
         ScanOk(updateDevices) \/ ScanThrows(updateDevices),
         UNCHANGED busVars, switching' \in Switching,
         switching'.dev \in {switching.dev, NoDevice}
  PROVE  /\ UpdateDevicesTypeOK' /\ UniqueAddresses'
         /\ DevicesOf(m_updateDevices') \subseteq Known
<1>1. /\ m_updateDevices' \in Seq(Device)
      /\ m_currentUpdateDevice' \in {m_currentUpdateDevice, -1}
      /\ DevicesOf(m_updateDevices') \subseteq OnBus
  BY ScanLists DEF UDInv
<1>2. OnBus' = OnBus
  BY DEF OnBus, Attached, DeviceOf, busVars
<1>3. DevicesOf(m_updateDevices') \subseteq Known
  BY <1>1 DEF OnBus, Known
<1>4. switching'.dev \in Known \cup {NoDevice}
  BY DEF Known
<1>5. UniqueAddresses'
  BY <1>2, <1>3, <1>4, KnownShrinks
<1> QED
  BY <1>1, <1>3, <1>5 DEF UDInv, UpdateDevicesTypeOK, BusTypeOK, busVars

\* A client's calls.
LEMMA ClientStepInv ==
  ASSUME UDInv,
         \/ \E list \in SUBSET Applications : Discover(list) \/ DiscoverThrows(list)
         \/ \E number \in Nat : SetCurrentUpdateDevice(number)
         \/ ClearCurrentUpdateDevice
         \/ BeginSwitch
  PROVE  UDInv'
<1> USE DEF UDInv
<1>1. ASSUME NEW list \in SUBSET Applications, Discover(list) \/ DiscoverThrows(list)
      PROVE  UDInv'
  <2>1. /\ UNCHANGED <<busVars, switching>> /\ switching.pc # "restore"
        /\ ScanOk(list) \/ ScanThrows(list)
    BY <1>1 DEF Discover, DiscoverThrows, MayScan, Idle
  <2>2. UpdateDevicesTypeOK' /\ UniqueAddresses'
    BY <2>1, ScanInv DEF UpdateDevicesTypeOK
  <2> QED
    BY <2>1, <2>2 DEF SwitchingInv
<1>2. ASSUME NEW number \in Nat, SetCurrentUpdateDevice(number)
      PROVE  UDInv'
  <2>1. UNCHANGED <<busVars, m_updateDevices, switching>>
    BY <1>2 DEF SetCurrentUpdateDevice
  <2>2. m_currentUpdateDevice' \in {number, m_currentUpdateDevice}
    BY <1>2 DEF SetCurrentUpdateDevice, Select
  <2> QED
    BY <2>1, <2>2 DEF UpdateDevicesTypeOK, BusTypeOK, UniqueAddresses, Known, Attached, DeviceOf,
                      SwitchingInv, busVars
<1>3. CASE ClearCurrentUpdateDevice
  BY <1>3 DEF ClearCurrentUpdateDevice, UpdateDevicesTypeOK, BusTypeOK, UniqueAddresses,
              Known, Attached, DeviceOf, SwitchingInv, busVars
<1>4. CASE BeginSwitch
  <2>1. /\ UNCHANGED <<busVars, m_updateDevices, m_currentUpdateDevice>>
        /\ GetCurrentUpdateDevice # NoDevice
        /\ switching' = [pc |-> "trying", dev |-> GetCurrentUpdateDevice, updatedev |-> -1]
    BY <1>4 DEF BeginSwitch
  <2>2. GetCurrentUpdateDevice \in DevicesOf(m_updateDevices)
    BY <2>1, CurrentListed DEF GetCurrentUpdateDevice, UpdateDevicesTypeOK
  <2>3. GetCurrentUpdateDevice \in Device
    BY <2>2, ElementOfSeq, LenProperties DEF DevicesOf, UpdateDevicesTypeOK
  <2>4. OnBus' = OnBus
    BY <2>1 DEF OnBus, Attached, DeviceOf, busVars
  <2>5. UniqueAddresses'
    BY <2>1, <2>2, <2>4, KnownShrinks DEF Known
  <2>6. switching' \in Switching
    BY <2>1, <2>3 DEF Switching
  <2> QED
    BY <2>1, <2>3, <2>5, <2>6 DEF UpdateDevicesTypeOK, BusTypeOK, SwitchingInv, busVars
<1> QED
  BY <1>1, <1>2, <1>3, <1>4

\* The steps of a switch.
LEMMA SwitchStepInv ==
  ASSUME UDInv, SwitchStep
  PROVE  UDInv'
<1> USE DEF UDInv
<1>1. switching \in Switching /\ NotSwitching \in Switching
  BY DEF UpdateDevicesTypeOK, Switching, NotSwitching
<1>2. CASE SwitchRestarts
  <2>1. switching.dev.board \in Boards
    BY <1>2 DEF SwitchRestarts, SwitchingInv, Device
  <2> QED
    BY <1>2, <2>1, RestartStep DEF SwitchRestarts, Mode
<1>3. CASE SwitchThrows
  <2>1. UNCHANGED busVars /\ switching' = NotSwitching
    BY <1>3 DEF SwitchThrows
  <2>2. CASE ScanThrows({})
    <3>1. UpdateDevicesTypeOK' /\ UniqueAddresses'
      BY <1>1, <2>1, <2>2, ScanInv DEF NotSwitching
    <3> QED
      BY <2>1, <3>1 DEF SwitchingInv, NotSwitching
  <2>3. CASE UNCHANGED <<m_updateDevices, m_currentUpdateDevice>>
    <3>1. OnBus' = OnBus
      BY <2>1 DEF OnBus, Attached, DeviceOf, busVars
    <3>2. UniqueAddresses'
      BY <2>1, <2>3, <3>1, KnownShrinks DEF Known, NotSwitching
    <3> QED
      BY <1>1, <2>1, <2>3, <3>2 DEF UpdateDevicesTypeOK, BusTypeOK, SwitchingInv, NotSwitching, busVars
  <2> QED
    BY <1>3, <2>2, <2>3 DEF SwitchThrows
<1>4. CASE SwitchScans
  <2>1. /\ UNCHANGED busVars /\ ScanOk({})
        /\ switching' = [pc |-> "restore", dev |-> switching.dev,
                         updatedev |-> m_currentUpdateDevice]
    BY <1>4 DEF SwitchScans
  <2>2. switching' \in Switching /\ switching'.dev = switching.dev
    BY <1>1, <2>1 DEF Switching, UpdateDevicesTypeOK
  <2>3. UpdateDevicesTypeOK' /\ UniqueAddresses'
    BY <2>1, <2>2, ScanInv
  <2>4. \A d \in DevicesOf(m_updateDevices') : IsUpdateMode(d)
    BY <2>1, ScanLists
  <2>5. SwitchingInv'
    BY <1>4, <2>2, <2>4 DEF SwitchingInv, DevicesOf, SwitchScans
  <2> QED
    BY <2>3, <2>5
<1>5. CASE SwitchReturns
  <2>1. /\ UNCHANGED <<busVars, m_updateDevices>> /\ switching' = NotSwitching
        /\ m_currentUpdateDevice' \in {m_currentUpdateDevice, switching.updatedev}
    BY <1>5 DEF SwitchReturns, Select
  <2>2. OnBus' = OnBus
    BY <2>1 DEF OnBus, Attached, DeviceOf, busVars
  <2>3. UniqueAddresses'
    BY <2>1, <2>2, KnownShrinks DEF Known, NotSwitching
  <2>4. m_currentUpdateDevice' \in Nat \cup {-1}
    BY <1>1, <2>1 DEF Switching, UpdateDevicesTypeOK
  <2> QED
    BY <1>1, <2>1, <2>3, <2>4 DEF UpdateDevicesTypeOK, BusTypeOK, SwitchingInv, NotSwitching, busVars
<1> QED
  BY <1>2, <1>3, <1>4, <1>5 DEF SwitchStep

\* At first nothing is known.
LEMMA InitUD ==
  ASSUME Init
  PROVE  UDInv
<1>1. DevicesOf(<<>>) = {}
  BY EmptySeq DEF DevicesOf
<1>2. Attached = {}
  BY DEF Init, BusInit, Attached
<1>3. Known = {}
  BY <1>1, <1>2 DEF Init, Known, NotSwitching
<1>4. UpdateDevicesTypeOK
  BY UsbBusAssumption, EmptySeq
     DEF Init, BusInit, UpdateDevicesTypeOK, BusTypeOK, Switching, NotSwitching
<1> QED
  BY <1>3, <1>4 DEF Init, UDInv, UniqueAddresses, SwitchingInv, NotSwitching

\* The types, the addresses and the switch are right after any calls of any client.
THEOREM ClientsMayRely ==
  Spec => []UDInv
<1>1. UDInv /\ [Next]_udVars => UDInv'
  <2> SUFFICES ASSUME UDInv, [Next]_udVars PROVE UDInv'
    OBVIOUS
  <2>1. CASE UNCHANGED udVars
    BY <2>1 DEF udVars, busVars, UDInv, UpdateDevicesTypeOK, BusTypeOK, UniqueAddresses, Known,
                Attached, DeviceOf, SwitchingInv
  <2>2. CASE ClientStep
    <3>1. 0 .. Cardinality(Boards) - 1 \subseteq Nat
      BY UsbBusAssumption, FS_CardinalityType
    <3> QED
      BY <2>2, <3>1, ClientStepInv DEF ClientStep
  <2> QED
    BY <2>1, <2>2, SwitchStepInv, BusStepInv DEF Next
<1> QED
  BY <1>1, InitUD, PTL DEF Spec
=============================================================================

------------------------------- MODULE UsbBus -------------------------------
(***************************************************************************)
(* The USB side of usbprog: boards that are plugged in and out and that    *)
(* come up either in the bootloader ("update mode") or in an application   *)
(* firmware.  None of this code is in the repository; it is modelled from  *)
(* how usbpp/ and usbprog-core/devices.cc use libusb.                      *)
(*                                                                         *)
(* A board keeps its identity; what the host sees of it is an address (bus *)
(* and device number), which is a new one each time it enumerates.         *)
(***************************************************************************)
EXTENDS Integers, FiniteSets, Sequences, SequencesExt

CONSTANTS
  Boards,        \* the USBprog boards that may be plugged in
  Applications,  \* USB identities (vendor, product, bcdDevice) of application firmwares
  UsbId,         \* vendor and product id of a mode: all that operator== of Device reads
  MaxAddress     \* device numbers are 1..MaxAddress (127 on USB); 0: not on the bus

Bootloader == "bootloader"   \* 1781:0c62 with bcdDevice 0
Mode == Applications \cup {Bootloader}

ASSUME UsbBusAssumption ==
  /\ IsFiniteSet(Boards)
  /\ Bootloader \notin Applications
  /\ MaxAddress \in Nat \ {0}

VARIABLES
  addr,   \* addr[b]: where b is on the bus
  mode    \* mode[b]: what b runs, or will run when it gets power

busVars == <<addr, mode>>

Address == 1 .. MaxAddress

\* What libusb knows of an attached board, and what core::Device caches of it.
Device == [board : Boards, addr : Address, mode : Mode]

BusTypeOK ==
  /\ addr \in [Boards -> 0 .. MaxAddress]
  /\ mode \in [Boards -> Mode]

Attached == {b \in Boards : addr[b] # 0}

DeviceOf(b) == [board |-> b, addr |-> addr[b], mode |-> mode[b]]

\* usb::Device::open() and every call on a handle reach the board only while it
\* is where it was when it was enumerated.
Reachable(d) == addr[d.board] = d.addr

\* libusb promises no order of its device list.
DeviceLists == {[i \in DOMAIN s |-> DeviceOf(s[i])] : s \in SetToSeqs(Attached)}

\* Device numbers are handed out cyclically, so none comes back while the host
\* still refers to it (`held`).  They are only ever compared for equality: taking
\* the smallest one loses nothing.
FreshAddress(held) ==
  {a \in Address \ held : \A c \in Address \ held : a <= c}

BusInit ==
  /\ addr = [b \in Boards |-> 0]
  /\ mode \in [Boards -> Mode]

\* A board gets power; a jumper can force it into the bootloader.
PlugIn(b, held) ==
  /\ addr[b] = 0
  /\ \E a \in FreshAddress(held) : addr' = [addr EXCEPT ![b] = a]
  /\ \E m \in {mode[b], Bootloader} : mode' = [mode EXCEPT ![b] = m]

\* A board is unplugged, or drops off the bus by itself.
Unplug(b) ==
  /\ addr[b] # 0
  /\ addr' = [addr EXCEPT ![b] = 0]
  /\ UNCHANGED mode

\* What a board does when it is told to start something else: it drops off the
\* bus and enumerates again, some time later, in mode m.
Restart(b, m) ==
  /\ addr' = [addr EXCEPT ![b] = 0]
  /\ mode' = [mode EXCEPT ![b] = m]
=============================================================================

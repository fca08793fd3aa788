----------------------------- MODULE DeviceList -----------------------------
(***************************************************************************)
(* The list of boards that core::DeviceManager keeps, and what its getters *)
(* make of it (usbprog-core/devices.cc).                                   *)
(*                                                                         *)
(* Indices are the code's: 0-based, with -1 for "nothing selected".        *)
(***************************************************************************)
EXTENDS UsbBus

CONSTANT NoDevice  \* a NULL Device *

ASSUME NoDeviceAssumption == NoDevice \notin Device

IsUpdateMode(d) == d.mode = Bootloader

SameDevice(a, b) ==
  /\ a.addr = b.addr
  /\ UsbId[a.mode] = UsbId[b.mode]

SameDevices(s, t) ==
  /\ Len(s) = Len(t)
  /\ \A i \in 1 .. Len(s) : SameDevice(s[i], t[i])

GetDevice(list, number) ==
  IF number \in 0 .. Len(list) - 1 THEN list[number + 1] ELSE NoDevice

\* Without a selection it is the first board in update mode.
CurrentDevice(list, number) ==
  LET ready == {i \in 1 .. Len(list) : IsUpdateMode(list[i])}
  IN  CASE number # -1 -> GetDevice(list, number)
        [] number = -1 /\ ready # {} ->
             list[CHOOSE i \in ready : \A j \in ready : i <= j]
        [] OTHER -> NoDevice

DevicesOf(list) == {list[i] : i \in 1 .. Len(list)}
=============================================================================

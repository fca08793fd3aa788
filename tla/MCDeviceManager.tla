--------------------------- MODULE MCDeviceManager ---------------------------
(* Two boards, one application firmware: known to the pool or not, according to *)
(* the list a scan is given.                                                    *)
EXTENDS DeviceManager

CONSTANT app

MCApplications == {app}

\* The application keeps the bootloader's vendor and product id: only bcdDevice
\* tells them apart, and operator== of Device does not look at it.
MCUsbId == [m \in {app, "bootloader"} |-> 0]
=============================================================================

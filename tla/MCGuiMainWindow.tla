--------------------------- MODULE MCGuiMainWindow ---------------------------
(* One firmware of the pool, which the boards may run as well.                *)
EXTENDS GuiMainWindow

CONSTANTS app, fw

MCApplications == {app}
MCFirmwareNames == <<fw>>

\* bcdDevice alone tells a firmware from the bootloader.
MCUsbId == [m \in {app, "bootloader"} |-> 0]
=============================================================================

---------------------------- MODULE MCCliSession ----------------------------
(* Two boards that run the bootloader or a firmware of the pool.                *)
EXTENDS CliSession

CONSTANT app

MCApplications == {app}

\* bcdDevice alone tells a firmware from the bootloader.
MCUsbId == [m \in {app, "bootloader"} |-> 0]
=============================================================================

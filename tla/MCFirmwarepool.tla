--------------------------- MODULE MCFirmwarepool ---------------------------
(* One firmware with a checksum and one without, in two versions: so an index *)
(* may be older than the server, and the cache may hold an obsolete version.  *)
EXTENDS Firmwarepool

CONSTANTS a, b
=============================================================================

----------------------------- MODULE MCFirmware ------------------------------
(***************************************************************************)
(* The two ends of a firmware's way to a board, from the server into the   *)
(* cache and from memory into the flash, and what helps on it: digests,    *)
(* dates and logs.  Each of them on its own.                               *)
(*                                                                         *)
(* The updater: pages of two bytes and page numbers of two bits, that is   *)
(* four pages, and images from none to all of them, with a full and with a *)
(* partly filled last page.                                                *)
(*                                                                         *)
(* Digests: blocks of 8 bytes and words of 2 bytes with 64 values; buffers *)
(* smaller and larger than a block, of one block and of two.               *)
(*                                                                         *)
(* Dates: around the end of a year, leap days, and the beginning and the   *)
(* end of summer time, close to midnight; summer time is from April to     *)
(* September, and begins and ends at midnight, UTC.                        *)
(*                                                                         *)
(* Logs: MaxStreams files are opened, so one may be open while another was *)
(* closed.                                                                 *)
(***************************************************************************)
EXTENDS MCFirmwarepool, UsbprogUpdater, Digest, Dates, Logs

MCImages == {<<>>, <<1>>, <<2, 1>>, <<1, 1, 2, 1, 2>>, <<2, 1, 1, 2, 0, 1, 1, 2>>}

MCSizes == 0 .. 26 \cup {63, 64, 70}
MCBufferSizes == {1, 3, 7, 8, 9, 13, 16, 21}

MCSummer(t) == Gmtime(t).mon \in 3 .. 8

MCDays == {<<1970, 1, 1>>, <<1972, 2, 29>>, <<1999, 12, 31>>, <<2000, 2, 28>>, <<2012, 3, 31>>,
           <<2013, 9, 30>>, <<2029, 2, 28>>, <<2032, 2, 29>>}
MCTexts == {[year |-> d[1], month |-> d[2], day |-> d[3], hour |-> h, minute |-> 45] :
              d \in MCDays, h \in {0, 23}}
MCStarts == {Gmtime((Days(d[1], d[2] - 1) + d[3] - 1) * 1440 + m) :
               d \in MCDays, m \in {15, 1430}}
MCAdditions ==
  {[field |-> "mday", n |-> n] : n \in {-1, 1, 31}}
    \cup {[field |-> "hour", n |-> n] : n \in {1, 25}}
    \cup {[field |-> "min", n |-> n] : n \in {-45, 60}}

VARIABLE part

\* The parts that do not run are pinned to one of their initial states.
NoPool == gui
NoUpdate == ~board.reachable /\ \A n \in PageNumbers : flash[n][1] = 0
NoDigest == size = 0 /\ reference = 0 /\ bufferSize = 1
NoDates == build = [strptime |-> TRUE, timegm |-> TRUE]
NoLogs == debug["core"].level = NONE

MCInit ==
  /\ part \in {"pool", "updater", "digest", "dates", "logs"}
  /\ Init /\ (part # "pool" => NoPool)
  /\ UpdaterInit /\ (part # "updater" => NoUpdate)
  /\ DigestInit /\ (part # "digest" => NoDigest)
  /\ DatesInit /\ (part # "dates" => NoDates)
  /\ LogsInit /\ (part # "logs" => NoLogs)

\* A digest is computed, a date has had its calls, and no more files are opened.
Finished == part \in {"digest", "dates", "logs"} /\ UNCHANGED <<digest, dates, logs>>

HelperNext ==
  \/ part = "digest" /\ DigestNext /\ UNCHANGED <<dates, logs>>
  \/ part = "dates" /\ DatesNext /\ UNCHANGED <<digest, logs>>
  \/ part = "logs" /\ LogsNext /\ UNCHANGED <<digest, dates>>
  \/ Finished

MCNext ==
  /\ UNCHANGED part
  /\ \/ part = "pool" /\ Next /\ UNCHANGED <<updaterVars, digest, dates, logs>>
     \/ part = "updater" /\ UpdaterNext /\ UNCHANGED <<vars, digest, dates, logs>>
     \/ HelperNext /\ UNCHANGED <<vars, updaterVars>>

MCSpec == MCInit /\ [][MCNext]_<<part, vars, updaterVars, digest, dates, logs>>
=============================================================================

---------------------------- MODULE GuiMainWindow ----------------------------
(***************************************************************************)
(* The main window of usbprog-gui (gui/usbprog_mainwindow.cc): its combo   *)
(* box of boards, its slots, and the timers that refresh the box.          *)
(*                                                                         *)
(* A slot runs to its end before the next one, except where it runs the    *)
(* event loop itself: a download takes the user's clicks and the timers, a *)
(* sleep of switchUpdateMode() and a message box take only the timers.     *)
(* Slots are therefore nested, and the outer one goes on when the inner    *)
(* one has returned, with what it had read before.                         *)
(***************************************************************************)
EXTENDS UpdateDevices

CONSTANTS
  FirmwareNames,  \* the list of firmwares, empty when the index could not be read
  PoolDevices,    \* Firmwarepool::getUpdateDeviceList()
  MaxDepth,       \* bound: how many slots may be nested
  MaxTimers       \* bound: how many refreshes may be pending

Firmwares == {FirmwareNames[i] : i \in DOMAIN FirmwareNames}

ASSUME GuiMainWindowAssumption ==
  /\ PoolDevices \subseteq Applications
  /\ ReentrantSleep
  /\ DOMAIN FirmwareNames = 1 .. Len(FirmwareNames) /\ Len(FirmwareNames) \in Nat
  /\ MaxDepth \in Nat \ {0} /\ MaxTimers \in Nat \ {0}

VARIABLES
  cache,          \* cache[f]: what is on disk of f
  devicesCombo,   \* the combo box of boards
  slots,          \* the slots that are running, innermost first
  timers,         \* the pending singleShot(2000, refreshDevices())
  ended           \* how the program has ended by itself, or "no"

window == <<cache, devicesCombo, slots, timers, ended>>
vars == <<udVars, window>>

\* How many boards the box shows below "No device".  Which entry is chosen is the user's
\* business: refreshDevices() proposes one.
\* history: fresh, the manager still has the list the box was made from.
Combo == [boards : Nat, fresh : BOOLEAN]

NoFirmware == "file"  \* a file of the user
Source == Firmwares \cup {NoFirmware}
File == {"none", "part", "whole"}

Calls == {"writeFirmware", "startDevice"}
SlotPc == {"download", "downloadAll", "next", "mode", "switch", "message"}
            \cup Calls

\* fw: what is downloaded.  linked: the file that is written is still the one in the
\* cache.  part: the firmware of which a part was read.  dev: updateDevice, then that of the
\* updater; NoDevice when nobody needs it or the object it points to is gone.
\* history: alone, no other slot has run since the click; shown, the board the box has
\* shown then, or NoDevice if it showed another list than the manager had.
Slot == [pc : SlotPc, fw : Source, linked : BOOLEAN, part : Source,
         dev : Device \cup {NoDevice}, alone : BOOLEAN, shown : Device \cup {NoDevice}]

NewSlot(pc, fw) ==
  [pc |-> pc, fw |-> fw, linked |-> FALSE, part |-> NoFirmware,
   dev |-> NoDevice, alone |-> TRUE, shown |-> NoDevice]

Ends == {"no", "IOError", "assert", "NULL", "freed"}

TypeOK ==
  /\ UpdateDevicesTypeOK
  /\ cache \in [Firmwares -> File]
  /\ devicesCombo \in Combo
  /\ slots \in Seq(Slot) /\ Len(slots) <= MaxDepth
  /\ \A i \in DOMAIN slots : slots[i].pc \in Calls => slots[i].dev # NoDevice
  /\ timers \in Nat
  /\ ended \in Ends

-----------------------------------------------------------------------------
Top == slots[1]
TopAt(pc) == ended = "no" /\ slots # <<>> /\ Top.pc = pc

Downloading(slot) == slot.pc \in {"download", "downloadAll"}

\* The main event loop, or that of a download: it takes clicks ...
UserMay == ended = "no" /\ (slots # <<>> => Downloading(Top))

\* ... and timers, which those of message boxes and sleeps take as well.
TimersRun == UserMay \/ TopAt("message") \/ (TopAt("switch") /\ MayScan)

\* Another slot has run inside these, and may have made a scan.
Disturbed(s, scanned) ==
  [i \in DOMAIN s |->
     [s[i] EXCEPT !.alone = FALSE, !.shown = NoDevice,
                  !.dev = IF scanned THEN NoDevice ELSE @]]

TopBecomes(slot) == slots' = <<slot>> \o Tail(slots)
Return == slots' = Tail(slots)

\* A message box, and then the slot returns.  Its updater lives as long, and with it a
\* handle that was opened.
MessageSlot == NewSlot("message", NoFirmware)
Message == TopBecomes(MessageSlot)

End(how) == ended' = how

\* remove(): whoever is writing the file goes on with one without a name.
Unlinked(s, names) ==
  [i \in DOMAIN s |-> [s[i] EXCEPT !.linked = @ /\ s[i].fw \notin names]]

-----------------------------------------------------------------------------
(* refreshDevices()                                                        *)

Refreshed == devicesCombo' = [boards |-> Len(m_updateDevices'), fresh |-> TRUE]

\* A scan behind the back of the box.
NotRefreshed ==
  devicesCombo' = [devicesCombo EXCEPT !.fresh = @ /\ m_updateDevices' = m_updateDevices]

\* Nobody catches the IOError of a scan.
RefreshDevices ==
  /\ slots' = Disturbed(slots, TRUE)
  /\ \/ Discover(PoolDevices) /\ Refreshed /\ UNCHANGED ended
     \/ DiscoverThrows(PoolDevices) /\ End("IOError") /\ UNCHANGED devicesCombo
  /\ UNCHANGED <<cache>>

RefreshClicked == UserMay /\ RefreshDevices /\ UNCHANGED timers

\* (A wrong variant: the refresh misses what happened in a slot.)
TimerFiresInMainLoop ==
  /\ ended = "no" /\ timers > 0
  /\ timers' = timers - 1
  /\ IF slots = <<>> THEN RefreshDevices
     ELSE UNCHANGED <<udVars, cache, devicesCombo, slots, ended>>

TimerFires ==
  /\ TimersRun /\ timers > 0
  /\ timers' = timers - 1
  /\ RefreshDevices

\* (A wrong variant: the position in the box, where "No device" is the first.)
ItemDataByPosition == 1 .. devicesCombo.boards

\* The data of the entries: indices of the list.
ItemData == 0 .. devicesCombo.boards - 1

-----------------------------------------------------------------------------
(* downloadFirmware()                                                      *)

\* The file is opened and the download waits; or it cannot be opened: an IOError, which
\* nobody catches.
StartDownload(slot, below) ==
  \/ /\ cache' = [cache EXCEPT ![slot.fw] = "part"]
     /\ slots' = <<[slot EXCEPT !.linked = TRUE]>> \o Unlinked(below, {slot.fw})
     /\ UNCHANGED ended
  \/ /\ End("IOError")
     /\ UNCHANGED <<cache, slots>>

\* fillFirmware(): reads what is there, if it can.
Fill(slot, file, below) ==
  \/ /\ file # "none"
     /\ slots' = <<[slot EXCEPT !.pc = "mode", !.fw = NoFirmware, !.linked = FALSE,
                                !.part = IF file = "part" THEN slot.fw ELSE NoFirmware]>>
                   \o below
  \/ slots' = <<MessageSlot>> \o below

\* What there is of the file when its download is complete.
Arrived == IF Top.linked THEN "whole" ELSE cache[Top.fw]

DownloadArrives ==
  /\ TopAt("download")
  /\ cache' = [cache EXCEPT ![Top.fw] = Arrived]
  /\ Fill(Top, Arrived, Tail(slots))
  /\ UNCHANGED <<udVars, devicesCombo, timers, ended>>

\* The checksum of a file that is gone: an IOError again.
ArrivedGone ==
  /\ ended = "no" /\ slots # <<>> /\ Downloading(Top)
  /\ Arrived = "none"
  /\ End("IOError")
  /\ UNCHANGED <<udVars, cache, devicesCombo, slots, timers>>

\* (A wrong variant: what has arrived so far is kept.)
DownloadFailsKeepingFile ==
  /\ TopAt("download")
  /\ Message
  /\ UNCHANGED <<udVars, cache, devicesCombo, timers, ended>>

\* A DownloadError: the file of that name goes, whoever wrote it.
DownloadFails ==
  /\ TopAt("download")
  /\ cache' = [cache EXCEPT ![Top.fw] = "none"]
  /\ slots' = <<MessageSlot>> \o Unlinked(Tail(slots), {Top.fw})
  /\ UNCHANGED <<udVars, devicesCombo, timers, ended>>

-----------------------------------------------------------------------------
(* The cache slots; cacheClean() spares what is current (Firmwarepool)     *)

CacheDownloadAll ==
  /\ UserMay
  /\ Len(slots) < MaxDepth
  /\ slots' = <<NewSlot("next", NoFirmware)>> \o Disturbed(slots, FALSE)
  /\ UNCHANGED <<udVars, cache, devicesCombo, timers, ended>>

\* Those of the list after f that are not on disk.
Missing(f) ==
  {i \in DOMAIN FirmwareNames :
     /\ cache[FirmwareNames[i]] = "none"
     /\ f = NoFirmware \/ \E j \in 1 .. i - 1 : FirmwareNames[j] = f}

DownloadAllNext ==
  /\ TopAt("next")
  /\ Missing(Top.fw) # {}
  /\ LET next == CHOOSE i \in Missing(Top.fw) : \A j \in Missing(Top.fw) : i <= j
     IN  StartDownload([Top EXCEPT !.pc = "downloadAll", !.fw = FirmwareNames[next]],
                       Tail(slots))
  /\ UNCHANGED <<udVars, devicesCombo, timers>>

DownloadAllArrives ==
  /\ TopAt("downloadAll")
  /\ cache' = [cache EXCEPT ![Top.fw] = Arrived]
  /\ TopBecomes([Top EXCEPT !.pc = "next", !.linked = FALSE])
  /\ UNCHANGED <<udVars, devicesCombo, timers, ended>>

DownloadAllFails ==
  /\ TopAt("downloadAll")
  /\ cache' = [cache EXCEPT ![Top.fw] = "none"]
  /\ slots' = <<[Top EXCEPT !.pc = "next", !.linked = FALSE]>>
                \o Unlinked(Tail(slots), {Top.fw})
  /\ UNCHANGED <<udVars, devicesCombo, timers, ended>>

\* "Unable to download firmware files" is a message box.
DownloadAllReturns ==
  /\ TopAt("next")
  /\ Missing(Top.fw) = {}
  /\ Return \/ Message
  /\ UNCHANGED <<udVars, cache, devicesCombo, timers, ended>>

\* firmwareSelected(NULL) shows the current entry anew: of an empty list there is none.
FirmwareSelected == ended' = IF FirmwareNames = <<>> THEN "NULL" ELSE ended

\* cacheDelete() of a cache all of whose files can be removed.
CacheDelete ==
  /\ UserMay
  /\ cache' = [f \in Firmwares |-> "none"]
  /\ slots' = Unlinked(Disturbed(slots, FALSE), Firmwares)
  /\ FirmwareSelected
  /\ UNCHANGED <<udVars, devicesCombo, timers>>

\* A modal dialog: about, pins, the names of a log file or of a firmware, the driver
\* assistant, or an IOError of cacheClean() or of deleteCache(), which has removed some files
\* by then and does not get to the current entry.
ShowDialog(gone) ==
  /\ UserMay
  /\ Len(slots) < MaxDepth
  /\ cache' = [f \in Firmwares |-> IF f \in gone THEN "none" ELSE cache[f]]
  /\ slots' = <<MessageSlot>> \o Unlinked(Disturbed(slots, FALSE), gone)
  /\ UNCHANGED <<udVars, devicesCombo, timers, ended>>

-----------------------------------------------------------------------------
(* uploadFirmware()                                                        *)

\* setCurrentUpdateDevice() takes the index if the list has it; then what is current?
UploadDevice == CurrentDevice(m_updateDevices, m_currentUpdateDevice')

UploadSlot(pc, fw) ==
  [NewSlot(pc, fw) EXCEPT !.dev = UploadDevice,
                          !.shown = IF devicesCombo.fresh THEN UploadDevice ELSE NoDevice]

\* assert(updateDevice != NULL)
UploadAsserts ==
  /\ UploadDevice = NoDevice
  /\ End("assert")
  /\ UNCHANGED <<cache, slots>>

UploadFirmware(fw) ==
  /\ UploadDevice # NoDevice
  /\ LET below == Disturbed(slots, FALSE)
     IN  IF cache[fw] = "none"
         THEN StartDownload(UploadSlot("download", fw), below)
         ELSE Fill(UploadSlot("mode", fw), cache[fw], below) /\ UNCHANGED <<cache, ended>>

UploadFile ==
  /\ UploadDevice # NoDevice
  /\ \/ slots' = <<UploadSlot("mode", NoFirmware)>> \o Disturbed(slots, FALSE)
     \/ slots' = <<MessageSlot>> \o Disturbed(slots, FALSE)
     \/ slots' = Disturbed(slots, FALSE)   \* no file is named
  /\ UNCHANGED <<cache, ended>>

UploadClicked(deviceIndex) ==
  /\ UserMay
  /\ Len(slots) < MaxDepth /\ timers + Len(slots) < MaxTimers
  /\ Idle
  /\ Select(deviceIndex)
  /\ UploadAsserts \/ UploadFile \/ \E fw \in Firmwares : UploadFirmware(fw)
  /\ UNCHANGED <<busVars, m_updateDevices, switching, devicesCombo, timers>>

\* if (!updateDevice->isUpdateMode()): a Device that is gone may say anything, or not.
ModeRead == IF Top.dev = NoDevice THEN BOOLEAN ELSE {IsUpdateMode(Top.dev)}

\* (A wrong variant: the first board in update mode is taken.)
NewUpdaterFirst ==
  LET current == CurrentDevice(m_updateDevices', -1)
  IN  \/ /\ current # NoDevice /\ Reachable(current)
         /\ TopBecomes([Top EXCEPT !.pc = "writeFirmware", !.dev = current])
      \/ Message

\* "Unable to find the update device after switching to update mode."  Otherwise
\* updateOpen() is next, which works if it is where the list has it.
NewUpdater ==
  LET current == CurrentDevice(m_updateDevices', m_currentUpdateDevice')
  IN  \/ /\ current # NoDevice /\ Reachable(current)
         /\ TopBecomes([Top EXCEPT !.pc = "writeFirmware", !.dev = current])
      \/ Message

UploadUpdateMode ==
  /\ TopAt("mode")
  /\ TRUE \in ModeRead
  /\ UNCHANGED udVars
  /\ NewUpdater
  /\ UNCHANGED <<cache, devicesCombo, timers, ended>>

\* switchUpdateMode() is for the device that is current by now.
UploadSwitch ==
  /\ TopAt("mode")
  /\ FALSE \in ModeRead
  /\ \/ BeginSwitch /\ TopBecomes([Top EXCEPT !.pc = "switch", !.dev = NoDevice])
     \/ /\ GetCurrentUpdateDevice # NoDevice /\ IsUpdateMode(GetCurrentUpdateDevice)
        /\ UNCHANGED udVars
        /\ NewUpdater
  /\ UNCHANGED <<cache, devicesCombo, timers, ended>>

\* updateDevice or the current device is not there any more.
UploadCrashes ==
  /\ TopAt("mode")
  /\ \/ Top.dev = NoDevice /\ End("freed")
     \/ FALSE \in ModeRead /\ GetCurrentUpdateDevice = NoDevice /\ End("NULL")
  /\ UNCHANGED <<udVars, cache, devicesCombo, slots, timers>>

\* (A wrong variant: afterwards the old pointer is asked once more.)
UploadSwitchingOldPointer ==
  /\ TopAt("switch")
  /\ \/ SwitchRestarts /\ UNCHANGED slots
     \/ SwitchThrows /\ slots' = <<MessageSlot>> \o Disturbed(Tail(slots), TRUE)
     \/ SwitchScans /\ slots' = <<Top>> \o Disturbed(Tail(slots), TRUE)
     \/ SwitchReturns /\ TopBecomes([Top EXCEPT !.pc = "mode"])
  /\ NotRefreshed
  /\ UNCHANGED <<cache, timers, ended>>

\* The scan of a switch takes away what outer slots point to.
UploadSwitching ==
  /\ TopAt("switch")
  /\ \/ SwitchRestarts /\ UNCHANGED slots
     \/ SwitchThrows /\ slots' = <<MessageSlot>> \o Disturbed(Tail(slots), TRUE)
     \/ SwitchScans /\ slots' = <<Top>> \o Disturbed(Tail(slots), TRUE)
     \/ SwitchReturns /\ NewUpdater
  /\ NotRefreshed
  /\ UNCHANGED <<cache, timers, ended>>

\* The calls of the updater run no event loop: its notifier only draws.
WriteFirmware ==
  /\ TopAt("writeFirmware")
  /\ \/ Reachable(Top.dev) /\ TopBecomes([Top EXCEPT !.pc = "startDevice"])
     \/ Message
  /\ UNCHANGED <<udVars, cache, devicesCombo, timers, ended>>

\* Closed, and refreshed two seconds later.
StartDevice ==
  /\ TopAt("startDevice")
  /\ \/ Reachable(Top.dev) /\ Return /\ timers' = timers + 1
     \/ Message /\ UNCHANGED timers
  /\ \/ UNCHANGED busVars
     \/ /\ Reachable(Top.dev) /\ mode[Top.dev.board] = Bootloader
        /\ \E m \in Mode : Restart(Top.dev.board, m)
  /\ UNCHANGED <<m_updateDevices, m_currentUpdateDevice, switching, cache,
                 devicesCombo, ended>>

MessageClosed ==
  /\ TopAt("message")
  /\ Return
  /\ UNCHANGED <<udVars, cache, devicesCombo, timers, ended>>

-----------------------------------------------------------------------------
WindowInit ==
  /\ Init
  /\ cache = [f \in Firmwares |-> "none"]
  /\ devicesCombo = [boards |-> 0, fresh |-> TRUE]
  /\ slots = <<>>
  /\ timers = 0
  /\ ended = "no"

UserStep ==
  \/ RefreshClicked \/ CacheDownloadAll \/ CacheDelete \/ MessageClosed
  \/ \E gone \in SUBSET Firmwares : ShowDialog(gone)
  \/ \E deviceIndex \in ItemData : UploadClicked(deviceIndex)

DownloadStep ==
  DownloadArrives \/ ArrivedGone \/ DownloadFails \/ DownloadAllArrives \/ DownloadAllFails

SlotStep ==
  \/ DownloadAllNext \/ DownloadAllReturns
  \/ UploadUpdateMode \/ UploadSwitch \/ UploadCrashes \/ UploadSwitching
  \/ WriteFirmware \/ StartDevice

\* Steps that do not look at the bus are not interleaved with its own.
WindowBusStep ==
  /\ ended = "no" /\ ~TopAt("mode") /\ ~TopAt("next") /\ switching.pc # "restore"
  /\ BusStep
  /\ UNCHANGED window

WindowNext == UserStep \/ DownloadStep \/ SlotStep \/ TimerFires \/ WindowBusStep

WindowSpec == WindowInit /\ [][WindowNext]_vars

\* Slots go on, a switch ends (DeviceManager), and every event loop serves the timers
\* that have expired; neither user nor network nor bus need do anything.
FairWindowSpec ==
  /\ WindowSpec
  /\ WF_vars(SlotStep)
  /\ SF_vars(TimerFires)

-----------------------------------------------------------------------------
(* Properties                                                              *)

Writing == TopAt("writeFirmware")

\* An upload in which no other slot has run writes only to a board that runs its
\* bootloader, whatever boards did since the list was made; and, if the box and the
\* manager had the same list, to the very board the box has shown, when that was in
\* update mode.
AloneWritesRight ==
  Writing /\ Top.alone =>
    /\ Reachable(Top.dev) => mode[Top.dev.board] = Bootloader
    /\ Top.shown # NoDevice => ~IsUpdateMode(Top.shown) \/ Top.dev = Top.shown

\* The program is ended by a NULL or by a Device that is gone only where slots were
\* nested, or when there is no entry in the list of firmwares.
CrashesNested ==
  ended \in {"NULL", "freed"} =>
    \/ FirmwareNames = <<>>
    \/ slots # <<>> /\ ~Top.alone

\* A part of a firmware is written to a board only while an outer slot is downloading
\* that very firmware; it is not left behind by downloads that failed, were deleted
\* or were repeated before.
PartWrittenNested ==
  Writing /\ Top.part # NoFirmware =>
    \E i \in 2 .. Len(slots) : Downloading(slots[i]) /\ slots[i].fw = Top.part

\* The assertion in uploadFirmware() only fails with a box that shows another list
\* than the manager has.
AssertsWhenStale ==
  [][ended = "no" /\ ended' = "assert" => ~devicesCombo.fresh]_vars

\* After an upload the box is brought up to date, though the next slots may have run, and
\* message boxes may be open, when the timer expires.
BoxRefreshed ==
  timers > 0 ~> (devicesCombo.fresh \/ ended # "no")

\* devices.h of getCurrentUpdateDevice(): the pointer is "only valid until [...]
\* discoverUpdateDevices() is called the next time".
PointerValid == TopAt("mode") => Top.dev # NoDevice
=============================================================================

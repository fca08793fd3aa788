---------------------------- MODULE Firmwarepool ----------------------------
(***************************************************************************)
(* usbprog::Firmwarepool (usbprog/firmwarepool.cc): the index of firmwares *)
(* and the cache of their binaries, in a directory that outlives the       *)
(* program, and that usbprog and usbprog-gui share.  Downloads fail, the   *)
(* server gets new versions meanwhile, and the program may be killed       *)
(* anywhere.  One program runs at a time.                                  *)
(*                                                                         *)
(* While a download waits for the network it runs the event loop           *)
(* (usbprog/downloader.cc), so in the GUI the user may call the pool again *)
(* from within a call: such calls are nested, and the outer one goes on    *)
(* only when the inner one is done.                                        *)
(***************************************************************************)
EXTENDS Integers, Sequences

CONSTANTS
  Names,       \* the firmwares
  Checked,     \* those with an md5sum in the index
  NoName,
  AllNames,
  NoFile,
  MaxVersion,  \* bound: the server has versions 1..MaxVersion
  MaxDepth     \* bound: how many downloads may be under way in each other

ASSUME FirmwarepoolAssumption ==
  /\ Checked \subseteq Names
  /\ NoName \notin Names /\ AllNames \notin Names /\ NoName # AllNames
  /\ MaxVersion \in Nat \ {0}
  /\ NoFile \notin Nat
  /\ MaxDepth \in Nat \ {0}

VARIABLES
  gui,         \* the program is usbprog-gui, not usbprog
  server,      \* server[n]: the version of n there is to download
  index,       \* the file versions.xml
  newIndex,    \* the file versions.xml.new
  cache,       \* cache[n, v]: what is in the file of version v of n
  m_firmware,  \* m_firmware[n]: the version of n in the index that was read
  data,        \* data[n]: the bytes in memory that were read from a file
  pc,          \* where the program is
  downloads,   \* the calls of downloadFirmware() that are under way, innermost first
  returned,    \* the firmware of a downloadFirmware() that has just returned, or
               \* AllNames: it was deleteCache()
  killed       \* the program has been killed, or an exception has ended it

disk == <<index, newIndex, cache>>
memory == <<m_firmware, data>>
vars == <<gui, server, disk, memory, pc, downloads, returned, killed>>

Version == 1 .. MaxVersion

\* A file holds a whole binary of some version, or nothing or a part of one.
Partial == 0
Content == {Partial} \cup Version
File == Names \X Version

None == [n \in Names |-> 0]
IndexFile == [state : {"none", "partial", "whole"}, versions : [Names -> 0 .. MaxVersion]]
NoIndex == [state |-> "none", versions |-> None]
PartialIndex == [state |-> "partial", versions |-> None]

\* downloadNowhere: the index is downloaded into a stream without a file.
Pc == {"down", "downloadIndex", "downloadNowhere", "rename", "readIndex", "up"}

\* linked: the file that is written is still the one in the directory.
\* fill: the caller reads the file when it is there.
Download == [pc : {"transfer", "verify"}, name : Names, version : Version,
             linked : BOOLEAN, fill : BOOLEAN]

TypeOK ==
  /\ gui \in BOOLEAN
  /\ server \in [Names -> Version]
  /\ index \in IndexFile /\ newIndex \in IndexFile
  /\ cache \in [File -> Content \cup {NoFile}]
  /\ m_firmware \in [Names -> 0 .. MaxVersion]
  /\ data \in [Names -> Content \cup {NoFile}]
  /\ pc \in Pc
  /\ downloads \in Seq(Download) /\ Len(downloads) <= (IF gui THEN MaxDepth ELSE 1)
  /\ returned \in Names \cup {NoName, AllNames}
  /\ killed \in BOOLEAN

-----------------------------------------------------------------------------
(* Files                                                                   *)

\* getFirmwareFilename(): the name and the version of the index.
FileOf(n) == <<n, m_firmware[n]>>

Known == {n \in Names : m_firmware[n] # 0}

IsFirmwareOnDisk(n) == n \in Known /\ cache[FileOf(n)] # NoFile

\* check_digest(): the checksum in the index is that of the version in the index.
DigestOk(file) == cache[file] = file[2]

FileOfCall(call) == <<call.name, call.version>>

\* remove(): whoever is writing the file goes on with one without a name.
Unlinked(calls, files) ==
  [i \in DOMAIN calls |->
     IF FileOfCall(calls[i]) \in files
     THEN [calls[i] EXCEPT !.linked = FALSE] ELSE calls[i]]

Removed(files) == [f \in File |-> IF f \in files THEN NoFile ELSE cache[f]]

\* The program ends, by itself or not, and takes along what is in memory.
Down ==
  /\ pc' = "down"
  /\ m_firmware' = None
  /\ data' = [n \in Names |-> NoFile]
  /\ downloads' = <<>>

-----------------------------------------------------------------------------
(* Start: the index                                                        *)

\* Offline, or with an index that is younger than ten minutes, there is no download.
SkipDownloadIndex ==
  /\ pc = "down"
  /\ pc' = "readIndex"
  /\ returned' = NoName
  /\ UNCHANGED <<server, disk, memory, downloads, killed>>

\* (A wrong variant: the old index makes room for the new one.)
DownloadIndexRemovingOld ==
  /\ pc = "down"
  /\ pc' = "downloadIndex"
  /\ index' = NoIndex /\ newIndex' = PartialIndex
  /\ returned' = NoName
  /\ UNCHANGED <<server, cache, memory, downloads, killed>>

\* A stream that could not open its file is not bad(): the download begins all the same,
\* and what was in versions.xml.new stays there.
DownloadIndex ==
  /\ pc = "down"
  /\ \/ pc' = "downloadIndex" /\ newIndex' = PartialIndex
     \/ pc' = "downloadNowhere" /\ UNCHANGED newIndex
  /\ returned' = NoName
  /\ UNCHANGED <<server, index, cache, memory, downloads, killed>>

IndexArrives ==
  /\ \/ pc = "downloadIndex" /\ newIndex' = [state |-> "whole", versions |-> server]
     \/ pc = "downloadNowhere" /\ UNCHANGED newIndex
  /\ pc' = "rename"
  /\ returned' = NoName
  /\ UNCHANGED <<server, index, cache, memory, downloads, killed>>

\* usbprog ends with an error, usbprog-gui goes on with the index it has.  What could not be
\* opened may not be removed either.
IndexFails ==
  /\ \/ pc = "downloadIndex" /\ newIndex' = NoIndex
     \/ pc = "downloadNowhere" /\ newIndex' \in {newIndex, NoIndex}
  /\ pc' = IF gui THEN "readIndex" ELSE "down"
  /\ returned' = NoName
  /\ UNCHANGED <<server, index, cache, memory, downloads, killed>>

\* Nobody asks whether rename() could: on Windows it cannot when there is an index, and
\* nowhere when there is no new one.
RenameIndex ==
  /\ pc = "rename"
  /\ \/ newIndex.state # "none" /\ index' = newIndex /\ newIndex' = NoIndex
     \/ UNCHANGED <<index, newIndex>>
  /\ pc' = "readIndex"
  /\ returned' = NoName
  /\ UNCHANGED <<server, cache, memory, downloads, killed>>

\* Without an index that parses usbprog ends, and usbprog-gui has no firmwares.
ReadIndex ==
  /\ pc = "readIndex"
  /\ IF index.state = "whole"
     THEN pc' = "up" /\ m_firmware' = index.versions
     ELSE pc' = (IF gui THEN "up" ELSE "down") /\ UNCHANGED m_firmware
  /\ returned' = NoName
  /\ UNCHANGED <<server, disk, data, downloads, killed>>

-----------------------------------------------------------------------------
(* downloadFirmware()                                                      *)

Top == downloads[1]

\* The user may call: the program waits for him, or for the network in the GUI.
Ready ==
  /\ pc = "up"
  /\ \/ downloads = <<>>
     \/ gui /\ downloads # <<>> /\ Top.pc = "transfer"

\* (A wrong variant: what is there is believed to be right.)
PresentUnchecked(n) == cache[FileOf(n)] # NoFile

\* It is there, and right as far as one can tell.
Present(n) == cache[FileOf(n)] # NoFile /\ (n \in Checked => DigestOk(FileOf(n)))

\* fillFirmware(): reads the file, whatever is in it.
Filled(n) == [data EXCEPT ![n] = cache[FileOf(n)]]

\* The GUI does not ask the pool for a firmware that isFirmwareOnDisk().
GuiFill(n) ==
  /\ gui /\ Ready
  /\ IsFirmwareOnDisk(n)
  /\ data' = Filled(n)
  /\ returned' = NoName
  /\ UNCHANGED <<server, disk, m_firmware, pc, downloads, killed>>

\* "upload" of usbprog reads the file without any check; if there is none,
\* it is an error.
UploadFill(n) ==
  /\ ~gui /\ Ready
  /\ IsFirmwareOnDisk(n)
  /\ data' = Filled(n)
  /\ returned' = NoName
  /\ UNCHANGED <<server, disk, m_firmware, pc, downloads, killed>>

DownloadPresent(n) ==
  /\ ~gui /\ Ready
  /\ n \in Known /\ Present(n)
  /\ returned' = n
  /\ UNCHANGED <<server, disk, memory, pc, downloads, killed>>

ToDownload(n) ==
  /\ Ready
  /\ n \in Known
  /\ IF gui THEN ~IsFirmwareOnDisk(n) ELSE ~Present(n)

\* A wrong file is removed, and the download opens a new one.
DownloadFirmware(n) ==
  /\ ToDownload(n)
  /\ Len(downloads) < MaxDepth
  /\ cache' = [cache EXCEPT ![FileOf(n)] = Partial]
  /\ downloads' = <<[pc |-> "transfer", name |-> n, version |-> m_firmware[n],
                     linked |-> TRUE, fill |-> gui]>> \o Unlinked(downloads, {FileOf(n)})
  /\ returned' = NoName
  /\ UNCHANGED <<server, index, newIndex, memory, pc, killed>>

\* It cannot be opened: an IOError, which usbprog-gui does not catch.
DownloadCannotOpen(n) ==
  /\ ToDownload(n)
  /\ cache' = Removed({FileOf(n)})
  /\ IF gui THEN Down /\ killed' = TRUE
            ELSE UNCHANGED <<memory, pc, downloads, killed>>
  /\ returned' = NoName
  /\ UNCHANGED <<server, index, newIndex>>

TopFile == FileOfCall(Top)

\* The server has but one binary, the newest.
Arrives ==
  /\ downloads # <<>> /\ Top.pc = "transfer"
  /\ cache' = IF Top.linked THEN [cache EXCEPT ![TopFile] = server[Top.name]] ELSE cache
  /\ downloads' = [downloads EXCEPT ![1].pc = "verify"]
  /\ returned' = NoName
  /\ UNCHANGED <<server, index, newIndex, memory, pc, killed>>

\* (A wrong variant: the file of a failed download stays.)
TransferFailsKeepingFile ==
  /\ downloads # <<>> /\ Top.pc = "transfer"
  /\ downloads' = Tail(downloads)
  /\ returned' = NoName
  /\ UNCHANGED <<server, disk, memory, pc, killed>>

\* A DownloadError: the file of that name is removed, whoever wrote it.
TransferFails ==
  /\ downloads # <<>> /\ Top.pc = "transfer"
  /\ cache' = Removed({TopFile})
  /\ downloads' = Unlinked(Tail(downloads), {TopFile})
  /\ returned' = NoName
  /\ UNCHANGED <<server, index, newIndex, memory, pc, killed>>

\* (A wrong variant: the download is not checked.)
VerifyNothing ==
  /\ downloads # <<>> /\ Top.pc = "verify"
  /\ downloads' = Tail(downloads)
  /\ returned' = Top.name
  /\ UNCHANGED <<server, disk, memory, pc, killed>>

\* The checksum is right, or there is none: downloadFirmware() returns, and the
\* caller in the GUI reads the file if it is still there.
VerifyOk ==
  /\ downloads # <<>> /\ Top.pc = "verify"
  /\ Top.name \in Checked => DigestOk(TopFile)
  /\ downloads' = Tail(downloads)
  /\ data' = IF Top.fill /\ cache[TopFile] # NoFile
             THEN [data EXCEPT ![Top.name] = cache[TopFile]] ELSE data
  /\ returned' = Top.name
  /\ UNCHANGED <<server, disk, m_firmware, pc, killed>>

\* "Bad checksum": the file is removed.
VerifyBad ==
  /\ downloads # <<>> /\ Top.pc = "verify"
  /\ Top.name \in Checked /\ cache[TopFile] # NoFile /\ ~DigestOk(TopFile)
  /\ cache' = Removed({TopFile})
  /\ downloads' = Unlinked(Tail(downloads), {TopFile})
  /\ returned' = NoName
  /\ UNCHANGED <<server, index, newIndex, memory, pc, killed>>

\* The file to check is gone: an IOError again.
VerifyGone ==
  /\ downloads # <<>> /\ Top.pc = "verify"
  /\ Top.name \in Checked /\ cache[TopFile] = NoFile
  /\ IF gui THEN Down /\ killed' = TRUE
            ELSE downloads' = Tail(downloads) /\ UNCHANGED <<memory, pc, killed>>
  /\ returned' = NoName
  /\ UNCHANGED <<server, disk>>

-----------------------------------------------------------------------------
(* The cache operations                                                    *)

Cached == {f \in File : cache[f] # NoFile}

\* Everything but the index goes; when a file cannot be removed the rest stays.
DeleteCache ==
  /\ Ready
  /\ \E files \in SUBSET Cached :
       /\ cache' = Removed(files)
       /\ downloads' = Unlinked(downloads, files)
  /\ newIndex' \in {newIndex, NoIndex}
  /\ returned' = AllNames
  /\ UNCHANGED <<server, index, memory, pc, killed>>

\* (A wrong variant: the current version is not spared.)
ObsoleteAndCurrent == {f \in Cached : IsFirmwareOnDisk(f[1])}

\* The old versions of a firmware that is there in the current one.
Obsolete ==
  {f \in Cached : IsFirmwareOnDisk(f[1]) /\ f[2] # m_firmware[f[1]]}

CleanCache ==
  /\ Ready
  /\ \E files \in SUBSET Obsolete :
       /\ cache' = Removed(files)
       /\ downloads' = Unlinked(downloads, files)
  /\ returned' = NoName
  /\ UNCHANGED <<server, index, newIndex, memory, pc, killed>>

-----------------------------------------------------------------------------
(* The world                                                               *)

ServerUpdate(n) ==
  /\ server[n] < MaxVersion
  /\ server' = [server EXCEPT ![n] = @ + 1]
  /\ returned' = NoName
  /\ UNCHANGED <<disk, memory, pc, downloads, killed>>

\* The user leaves the program.
Quit ==
  /\ pc = "up" /\ downloads = <<>>
  /\ Down
  /\ returned' = NoName
  /\ UNCHANGED <<server, disk, killed>>

\* The program is killed; the files stay as they are.
Crash ==
  /\ pc # "down"
  /\ killed' = TRUE
  /\ Down
  /\ returned' = NoName
  /\ UNCHANGED <<server, disk>>

\* The next program that is started is the other one.
OtherProgram ==
  /\ pc = "down"
  /\ gui' = ~gui
  /\ UNCHANGED <<server, disk, memory, pc, downloads, returned, killed>>

Init ==
  /\ gui \in BOOLEAN
  /\ server = [n \in Names |-> 1]
  /\ index = NoIndex /\ newIndex = NoIndex
  /\ cache = [f \in File |-> NoFile]
  /\ m_firmware = None
  /\ data = [n \in Names |-> NoFile]
  /\ pc = "down"
  /\ downloads = <<>>
  /\ returned = NoName
  /\ killed = FALSE

IndexStep ==
  SkipDownloadIndex \/ DownloadIndex \/ IndexArrives \/ IndexFails \/ RenameIndex \/ ReadIndex

DownloadStep == Arrives \/ TransferFails \/ VerifyOk \/ VerifyBad \/ VerifyGone

ProgramStep ==
  \/ IndexStep
  \/ \E n \in Names : \/ GuiFill(n) \/ UploadFill(n)
                      \/ DownloadPresent(n) \/ DownloadFirmware(n)
                      \/ DownloadCannotOpen(n)
  \/ DownloadStep
  \/ DeleteCache \/ CleanCache
  \/ \E n \in Names : ServerUpdate(n)
  \/ Quit \/ Crash

Next ==
  \/ ProgramStep /\ UNCHANGED gui
  \/ OtherProgram

Spec == Init /\ [][Next]_vars

-----------------------------------------------------------------------------
(* Properties                                                              *)

NotOlder(file, other) == \A n \in Names : other.versions[n] <= file.versions[n]

\* Once there is an index there always is one, and none that is older: whenever a download
\* breaks off, the program is killed, or the file of a download cannot be opened or renamed.
\* It can always be read, with one exception: a program was killed while it was writing
\* versions.xml.new, and a later one could not open that file and has renamed the part.
IndexKept ==
  [][index.state = "whole" =>
       \/ index'.state = "whole" /\ NotOlder(index', index)
       \/ /\ killed /\ pc = "rename" /\ newIndex.state = "partial"
          /\ index' = newIndex]_vars

\* firmwarepool.cc:417: "after the download is successful, rename new file to old file": what
\* becomes the index was downloaded to its end.
IndexDownloaded == index.state # "partial"

\* When downloadFirmware() returns for a firmware with a checksum, its file holds
\* the version of the index: also when the file was there and broken, when the server
\* has a newer version by now, or when the cache was emptied during the download.
DownloadVerified ==
  returned \in Checked => DigestOk(FileOf(returned))

\* What "upload" of usbprog sends, it has read from the cache without any check.
\* Unless the program was killed this is the version of the index, and no other and no
\* part of it, whatever became of the downloads, the index and the server before.
UploadedRight ==
  ~killed /\ ~gui => \A n \in Checked : data[n] \in {NoFile, m_firmware[n]}

\* Unless the program was killed, a file that is complete holds what its name says,
\* or is just going to be checked: also when downloads of the same firmware are
\* nested in each other and the cache is emptied or cleaned meanwhile.
CacheRight ==
  ~killed => \A f \in File :
    f[1] \in Checked /\ cache[f] \in Version =>
      \/ DigestOk(f)
      \/ downloads # <<>> /\ Top.pc = "verify" /\ TopFile = f

\* A part of a binary is left in the cache only by a program that has been killed;
\* otherwise it is there only as long as somebody is writing it.
PartialOnlyIfKilled ==
  \A f \in File : cache[f] = Partial =>
    \/ killed
    \/ \E i \in 1 .. Len(downloads) :
         /\ FileOfCall(downloads[i]) = f
         /\ downloads[i].linked /\ downloads[i].pc = "transfer"

\* In usbprog a good file is lost to "cache delete" only, or when it is an old version
\* and the one of the index is there: not to a download that fails, is killed or is
\* repeated, nor to a start with another index.
GoodFileStays ==
  [][\A f \in File :
       ~gui /\ f[1] \in Checked /\ DigestOk(f) =>
         \/ DigestOk(f)'
         \/ returned' = AllNames
         \/ IsFirmwareOnDisk(f[1]) /\ f[2] # m_firmware[f[1]]]_vars

\* The inductive invariant behind these: the calls under way are for files of the index
\* that was read, and only the innermost one may be past its transfer; nothing has been
\* read from files before the index has; and in usbprog the file of a download is
\* what that download has made of it.
CallsInv ==
  /\ downloads # <<>> => pc = "up"
  /\ \A i \in 1 .. Len(downloads) :
       /\ downloads[i].version = m_firmware[downloads[i].name]
       /\ downloads[i].fill = gui
       /\ i > 1 => downloads[i].pc = "transfer"

MemoryInv == pc # "up" => data = [n \in Names |-> NoFile]

\* A part of an index is there while it is written, or behind a program that was killed;
\* what waits to become the index is not older than it, and nothing newer than the server's.
IndexInv ==
  /\ newIndex.state = "partial" => killed \/ pc = "downloadIndex"
  /\ newIndex.state = "whole" => NotOlder(newIndex, index)
  /\ \A n \in Names : index.versions[n] <= server[n] /\ newIndex.versions[n] <= server[n]

CliInv ==
  ~gui => \A i \in 1 .. Len(downloads) :
            downloads[i].pc = "transfer" => cache[FileOfCall(downloads[i])] = Partial

IInv ==
  /\ TypeOK /\ CallsInv /\ MemoryInv /\ IndexInv /\ CliInv
  /\ DownloadVerified /\ CacheRight /\ PartialOnlyIfKilled /\ UploadedRight

\* firmwarepool.h of isFirmwareOnDisk(): true "if the firmware is on disk".
OnDiskIsWhole ==
  downloads = <<>> => \A n \in Names : IsFirmwareOnDisk(n) => cache[FileOf(n)] # Partial
=============================================================================

--------------------------- MODULE UsbprogUpdater ---------------------------
(***************************************************************************)
(* core::UsbprogUpdater (usbprog-core/devices.cc): one board in update     *)
(* mode is opened, written page by page, started or reset, and closed.     *)
(* Every transfer may fail, and what fails on the host may have reached    *)
(* the board all the same.                                                 *)
(*                                                                         *)
(* An updater lives on the stack of a command: the command makes its calls *)
(* in a fixed order, the first exception ends them and the destructor runs.*)
(*                                                                         *)
(* The bootloader is no part of the repository.  It is modelled from the   *)
(* messages it is sent: it takes commands, and after WRITEPAGE the next    *)
(* message is that page.  The model assumes that it waits for a command    *)
(* again when it is configured.                                            *)
(***************************************************************************)
EXTENDS Integers, Sequences

CONSTANTS
  PageSize,  \* USB_PAGESIZE: 64
  Base,      \* the values of a byte of the page number: 256
  Byte,      \* the values of a byte of an image
  Images     \* the images there are to write

MaxPages == Base * Base
PageNumbers == 0 .. MaxPages - 1
Pages == [1 .. PageSize -> Byte]

\* The code counts pages in two bytes and does not look for an overflow.
ASSUME UpdaterAssumption ==
  /\ PageSize \in Nat \ {0}
  /\ Base \in Nat \ {0}
  /\ 0 \in Byte
  /\ Images \subseteq Seq(Byte)
  /\ \A image \in Images : Len(image) <= MaxPages * PageSize

VARIABLES
  updater,  \* the UsbprogUpdater, the command that owns it, and its running call
  board,    \* [reachable, expects, page]: whether m_dev still leads to the
            \* board, and what the bootloader waits for
  flash     \* flash[n]: page n of the board

updaterVars == <<updater, board, flash>>

\* The commands that use an updater, and the order of their calls.
Command == {"upload", "upload -nostart", "start", "reset"}
Uploads == {"upload", "upload -nostart"}

After(command, call) ==
  CASE call = "updateOpen" /\ command \in Uploads    -> "writeFirmware"
    [] call = "updateOpen" /\ command = "start"       -> "startDevice"
    [] call = "updateOpen" /\ command = "reset"       -> "resetDevice"
    [] call = "writeFirmware" /\ command = "upload"   -> "startDevice"
    [] call = "writeFirmware" /\ command # "upload"   -> "updateClose"
    [] call = "startDevice" /\ command = "upload"     -> "updateClose"
    [] OTHER                                          -> "destruct"

\* pc is the call the command makes next, or where the running one is.
Calls == {"writeFirmware", "startDevice", "resetDevice", "updateClose"}
Opening == {"open", "setConfiguration", "claimInterface"}
Writing == {"loop", "data"}
UpdaterPc == {"none", "updateOpen", "destruct"} \cup Calls \cup Opening \cup Writing

\* open: m_devHandle is not NULL.  finished: how often the notifier was told.
Updater == [pc : UpdaterPc, command : Command, open : BOOLEAN, image : Images \cup {<<>>},
            i : Nat, page : Nat, finished : Nat]
NoUpdater == [pc |-> "none", command |-> "start", open |-> FALSE, image |-> <<>>,
              i |-> 0, page |-> 0, finished |-> 0]

Board == [reachable : BOOLEAN, expects : {"command", "data"}, page : PageNumbers]

UpdaterTypeOK ==
  /\ updater \in Updater
  /\ board \in Board
  /\ flash \in [PageNumbers -> Pages]

-----------------------------------------------------------------------------
(* Messages                                                                *)

\* The two bytes of the page number: (char)page and (char)(page >> 8).
\* (A wrong variant: the second is not sent.)
Low(page) == page % Base
HighNotSent(page) == 0
High(page) == (page \div Base) % Base

\* What the bootloader makes of the bytes.
PageNumber(low, high) == low + Base * high

\* buf: 64 bytes of the image from i on, filled up with zeros.
Chunk(image, i) ==
  [k \in 1 .. PageSize |-> IF i + k <= Len(image) THEN image[i + k] ELSE 0]

\* A call of bulkTransfer(): whether the board got the message, and whether the
\* call returned normally.
Outcome == {o \in [delivered : BOOLEAN, ok : BOOLEAN] :
              (o.ok => o.delivered) /\ (o.delivered => board.reachable)}

\* A call returns, and the command goes on to its next one.
Return(u, call) == [u EXCEPT !.pc = After(u.command, call)]

\* An exception leaves the call: the command makes no more calls.
Throw(u) == [u EXCEPT !.pc = "destruct"]

\* What is left to do when a transfer of writeFirmware() fails.
\* (A wrong variant: the notifier is forgotten.)
WriteFailsSilently(u) == Throw([u EXCEPT !.open = FALSE])

WriteFails(u) == Throw([u EXCEPT !.open = FALSE, !.finished = @ + 1])

-----------------------------------------------------------------------------
(* The updater                                                             *)

\* A command makes its updater, for a board that may be gone by now.
NewUpdater ==
  /\ updater.pc = "none"
  /\ \E command \in Command, image \in Images \cup {<<>>} :
       /\ command \notin Uploads => image = <<>>
       /\ updater' = [NoUpdater EXCEPT !.pc = "updateOpen", !.command = command,
                                      !.image = image]
  /\ \E reachable \in BOOLEAN : board' = [board EXCEPT !.reachable = reachable]
  /\ UNCHANGED flash

\* (A wrong variant: the handle is left to whoever opened it.)
DestructKeepingHandle ==
  /\ updater.pc = "destruct"
  /\ updater' = [NoUpdater EXCEPT !.open = updater.open]
  /\ UNCHANGED <<board, flash>>

\* ~UsbprogUpdater() closes what is still open.
Destruct ==
  /\ updater.pc = "destruct"
  /\ updater' = NoUpdater
  /\ UNCHANGED <<board, flash>>

UpdateOpen ==
  /\ updater.pc = "updateOpen"
  /\ updater' = [updater EXCEPT !.pc = "open"]
  /\ UNCHANGED <<board, flash>>

OpenDevice ==
  /\ updater.pc = "open"
  /\ board.reachable
  /\ updater' = [updater EXCEPT !.pc = "setConfiguration", !.open = TRUE]
  /\ UNCHANGED <<board, flash>>

SetConfiguration ==
  /\ updater.pc = "setConfiguration"
  /\ board.reachable
  /\ updater' = [updater EXCEPT !.pc = "claimInterface"]
  /\ board' = [board EXCEPT !.expects = "command"]
  /\ UNCHANGED flash

ClaimInterface ==
  /\ updater.pc = "claimInterface"
  /\ board.reachable
  /\ updater' = Return(updater, "updateOpen")
  /\ UNCHANGED <<board, flash>>

\* One of these throws; a handle that is open stays open.
OpenFails ==
  /\ updater.pc \in Opening
  /\ updater' = Throw(updater)
  /\ UNCHANGED <<board, flash>>

WriteFirmware ==
  /\ updater.pc = "writeFirmware"
  /\ updater' = [updater EXCEPT !.pc = "loop", !.i = 0, !.page = 0]
  /\ UNCHANGED <<board, flash>>

\* The first message of a turn of the loop: WRITEPAGE and the page number.
SendCommand ==
  /\ updater.pc = "loop"
  /\ updater.i < Len(updater.image)
  /\ \E o \in Outcome :
       /\ updater' = IF o.ok THEN [updater EXCEPT !.pc = "data", !.page = @ + 1]
                             ELSE WriteFails(updater)
       /\ board' = IF o.delivered
                   THEN [board EXCEPT !.expects = "data",
                           !.page = PageNumber(Low(updater.page), High(updater.page))]
                   ELSE board
  /\ UNCHANGED flash

\* The second message: the page.
SendData ==
  /\ updater.pc = "data"
  /\ \E o \in Outcome :
       /\ updater' = IF o.ok THEN [updater EXCEPT !.pc = "loop", !.i = @ + PageSize]
                             ELSE WriteFails(updater)
       /\ IF o.delivered /\ board.expects = "data"
          THEN /\ flash' = [flash EXCEPT ![board.page] = Chunk(updater.image, updater.i)]
               /\ board' = [board EXCEPT !.expects = "command"]
          ELSE UNCHANGED <<board, flash>>

\* (A wrong variant: a last page that is not full is not written.)
WriteDoneEarly ==
  /\ updater.pc = "loop"
  /\ updater.i + PageSize > Len(updater.image)
  /\ updater' = Return([updater EXCEPT !.finished = @ + 1], "writeFirmware")
  /\ UNCHANGED <<board, flash>>

WriteDone ==
  /\ updater.pc = "loop"
  /\ updater.i >= Len(updater.image)
  /\ updater' = Return([updater EXCEPT !.finished = @ + 1], "writeFirmware")
  /\ UNCHANGED <<board, flash>>

\* STARTAPP and a reset make the board enumerate anew: m_dev is of no use then.
SendAndLose(call) ==
  /\ updater.pc = call
  /\ \E o \in Outcome :
       /\ updater' = IF o.ok THEN Return(updater, call) ELSE Throw(updater)
       /\ board' = IF o.delivered THEN [board EXCEPT !.reachable = FALSE] ELSE board
  /\ UNCHANGED flash

StartDevice == SendAndLose("startDevice")
ResetDevice == SendAndLose("resetDevice")

UpdateClose ==
  /\ updater.pc = "updateClose"
  /\ updater' = Return([updater EXCEPT !.open = FALSE], "updateClose")
  /\ UNCHANGED <<board, flash>>

-----------------------------------------------------------------------------
\* The board is unplugged, or loses its power; its flash stays.
Unplug ==
  /\ board.reachable
  /\ board' = [board EXCEPT !.reachable = FALSE, !.expects = "command"]
  /\ UNCHANGED <<updater, flash>>

UpdaterInit ==
  /\ updater = NoUpdater
  /\ board \in [reachable : BOOLEAN, expects : {"command"}, page : {0}]
  /\ flash \in [PageNumbers -> {[k \in 1 .. PageSize |-> b] : b \in Byte}]

UpdaterNext ==
  \/ NewUpdater \/ Destruct
  \/ UpdateOpen \/ OpenDevice \/ SetConfiguration \/ ClaimInterface \/ OpenFails
  \/ WriteFirmware \/ SendCommand \/ SendData \/ WriteDone
  \/ StartDevice \/ ResetDevice \/ UpdateClose
  \/ Unplug

UpdaterSpec == UpdaterInit /\ [][UpdaterNext]_updaterVars

-----------------------------------------------------------------------------
(* Properties                                                              *)

\* No command runs into an error of the updater itself: "Device not opened",
\* "Device still opened" or "Device already closed", the last of which would be
\* thrown by an exception handler or a destructor.  And no handle is leaked.
HandleProtocol ==
  /\ updater.pc \in {"none", "updateOpen", "open"} => ~updater.open
  /\ updater.pc \in Calls \cup Writing \cup {"setConfiguration", "claimInterface"} =>
       updater.open

\* The flash holds the image, byte for byte, and zeros up to the end of a page.
Holds(image) ==
  \A p \in PageNumbers, k \in 1 .. PageSize :
    p * PageSize < Len(image) =>
      flash[p][k] = IF p * PageSize + k <= Len(image) THEN image[p * PageSize + k] ELSE 0

\* A board is started, and an upload gets to its end, only when the flash holds the
\* image, however often an upload was begun, failed and was repeated before.
Written == updater.command \in Uploads /\ updater.pc \in {"startDevice", "updateClose"}

ImageWritten == Written => Holds(updater.image)

\* The inductive invariant behind it: the pages before the current one are there,
\* and a bootloader that has been sent a page number waits for that page.
Prefix(n) ==
  \A p \in PageNumbers : p < n => flash[p] = Chunk(updater.image, p * PageSize)

WriteInv ==
  /\ updater.pc \in {"updateOpen", "writeFirmware"} \cup Opening \cup Writing =>
       updater.finished = 0
  /\ updater.pc \in {"writeFirmware"} \cup Writing => updater.command \in Uploads
  /\ updater.pc = "loop" =>
       /\ updater.i = updater.page * PageSize
       /\ updater.page > 0 => (updater.page - 1) * PageSize < Len(updater.image)
       /\ Prefix(updater.page)
  /\ updater.pc = "data" =>
       /\ updater.page > 0
       /\ updater.i = (updater.page - 1) * PageSize
       /\ updater.i < Len(updater.image)
       /\ Prefix(updater.page - 1)
       /\ board.reachable => board.expects = "data" /\ board.page = updater.page - 1

UpdaterInv == UpdaterTypeOK /\ HandleProtocol /\ WriteInv /\ ImageWritten

\* progressnotifier.h: finished() "gets called once after the operation has
\* finished", whether writeFirmware() returns or throws.
NotifiedOnce ==
  [][/\ updater'.pc \in Writing => updater'.finished = 0
     /\ updater.pc \in Writing /\ updater'.pc \notin Writing => updater'.finished = 1
    ]_updaterVars

\* The code implements FlashUpload: the pages of an upload are the chunks of the
\* image, and those before the one that is being sent are written.
NumPages(image) == (Len(image) + PageSize - 1) \div PageSize

PagesOf(image) ==
  [n \in 1 .. NumPages(image) |-> Chunk(image, (n - 1) * PageSize)]

upload ==
  LET Going(status, done) ==
        [status |-> status, pages |-> PagesOf(updater.image), done |-> done]
  IN  CASE updater.pc = "loop" -> Going("writing", updater.page)
        [] updater.pc = "data" -> Going("writing", updater.page - 1)
        [] Written             -> Going("written", updater.page)
        [] OTHER               -> [status |-> "none", pages |-> <<>>, done |-> 0]

FU == INSTANCE FlashUpload WITH flash <- flash, upload <- upload

ImplementsFlashUpload == FU!Spec
=============================================================================

------------------------ MODULE UsbprogUpdaterProofs ------------------------
(***************************************************************************)
(* Theorems about UsbprogUpdater, for any page size, any width of the page *)
(* number and any images that fit.                                         *)
(***************************************************************************)
EXTENDS UsbprogUpdater, SequenceTheorems, TLAPS

-----------------------------------------------------------------------------
(* Arithmetic of pages                                                     *)

\* The two bytes of a page number give it back.
LEMMA PageNumberSplit ==
  ASSUME NEW page \in PageNumbers
  PROVE  PageNumber(Low(page), High(page)) = page
<1> DEFINE q == page \div Base
           r == page % Base
<1>1. page \in Nat /\ page < Base * Base /\ Base \in Nat /\ Base > 0
  BY UpdaterAssumption DEF PageNumbers, MaxPages
<1>2. q \in Nat /\ r \in 0 .. Base - 1 /\ page = Base * q + r
  BY <1>1, SMTT(30)
<1> HIDE DEF q, r
<1>3. q < Base
  <2>1. SUFFICES ASSUME q >= Base PROVE FALSE
    BY <1>1, <1>2
  <2>2. Base * q >= Base * Base
    BY <1>1, <1>2, <2>1, SMTT(30)
  <2>3. Base * q \in Nat /\ Base * Base \in Nat
    BY <1>1, <1>2
  <2> QED
    BY <1>1, <1>2, <2>2, <2>3
<1>4. q % Base = q
  BY <1>1, <1>2, <1>3
<1>5. Low(page) = r /\ High(page) = q % Base
  BY DEF Low, High, q, r
<1>6. page = r + Base * q
  BY <1>1, <1>2
<1> QED
  BY <1>4, <1>5, <1>6 DEF PageNumber

\* A page that begins within an image is a page of the flash, and it is in the
\* part that is written when everything before n pages is.
LEMMA PageInFlash ==
  ASSUME NEW image \in Images \cup {<<>>}, NEW page \in Nat,
         page * PageSize < Len(image)
  PROVE  page \in PageNumbers
<1>1. /\ PageSize \in Nat /\ PageSize > 0 /\ MaxPages \in Nat
      /\ Len(image) \in Nat /\ Len(image) <= MaxPages * PageSize
  BY UpdaterAssumption, EmptySeq, LenProperties DEF MaxPages
<1>2. page < MaxPages
  <2>1. SUFFICES ASSUME page >= MaxPages PROVE FALSE
    BY <1>1
  <2>2. page * PageSize >= MaxPages * PageSize
    BY <1>1, <2>1, SMTT(30)
  <2>3. page * PageSize \in Nat /\ MaxPages * PageSize \in Nat
    BY <1>1
  <2> QED
    BY <1>1, <2>2, <2>3
<1> QED
  BY <1>1, <1>2 DEF PageNumbers

\* The page that begins earlier has the smaller number.
LEMMA PageBefore ==
  ASSUME NEW p \in Nat, NEW page \in Nat, p * PageSize < page * PageSize
  PROVE  p < page
<1>1. PageSize \in Nat
  BY UpdaterAssumption
<1>2. SUFFICES ASSUME p >= page PROVE FALSE
  OBVIOUS
<1>3. p * PageSize >= page * PageSize
  BY <1>1, <1>2, SMTT(30)
<1>4. p * PageSize \in Nat /\ page * PageSize \in Nat
  BY <1>1
<1> QED
  BY <1>3, <1>4

\* The next page begins where the current one ends.
LEMMA NextPage ==
  ASSUME NEW page \in Nat
  PROVE  /\ (page + 1) * PageSize = page * PageSize + PageSize
         /\ page * PageSize \in Nat
BY UpdaterAssumption, SMTT(30)

\* A chunk of an image is the contents of a page.
LEMMA ChunkType ==
  ASSUME NEW image \in Images \cup {<<>>}, NEW i \in Nat
  PROVE  Chunk(image, i) \in Pages
<1>1. image \in Seq(Byte) /\ 0 \in Byte /\ Len(image) \in Nat /\ PageSize \in Nat
  BY UpdaterAssumption, EmptySeq, LenProperties
<1>2. ASSUME NEW k \in 1 .. PageSize, i + k <= Len(image)
      PROVE  image[i + k] \in Byte
  <2>1. i + k \in 1 .. Len(image)
    BY <1>1, <1>2
  <2> QED
    BY <1>1, <2>1, ElementOfSeq
<1> QED
  BY <1>1, <1>2 DEF Chunk, Pages

-----------------------------------------------------------------------------
(* Types                                                                   *)

\* A call is left with an updater that has its type.
LEMMA LeaveType ==
  ASSUME NEW u \in Updater, NEW call
  PROVE  /\ Return(u, call) \in Updater
         /\ Throw(u) \in Updater
         /\ WriteFails(u) \in Updater
<1>1. After(u.command, call) \in UpdaterPc /\ "destruct" \in UpdaterPc
  BY DEF After, UpdaterPc, Calls
<1>2. u.finished + 1 \in Nat
  BY DEF Updater
<1>3. [u EXCEPT !.open = FALSE, !.finished = u.finished + 1] \in Updater
  BY <1>2 DEF Updater
<1>4. ASSUME NEW v \in Updater, NEW pc \in UpdaterPc
      PROVE  [v EXCEPT !.pc = pc] \in Updater
  BY DEF Updater
<1> QED
  BY <1>1, <1>3, <1>4 DEF Return, Throw, WriteFails

\* Every step keeps the types; a page number that is sent is one of the flash.
LEMMA TypeStep ==
  ASSUME UpdaterInv, [UpdaterNext]_updaterVars
  PROVE  UpdaterTypeOK'
<1> USE DEF UpdaterTypeOK
<1>1. updater \in Updater /\ board \in Board /\ flash \in [PageNumbers -> Pages]
  BY DEF UpdaterInv
<1>2. CASE UNCHANGED updaterVars
  BY <1>1, <1>2 DEF updaterVars
<1>3. CASE NewUpdater
  <2>1. PICK command \in Command, image \in Images \cup {<<>>} :
          updater' = [NoUpdater EXCEPT !.pc = "updateOpen", !.command = command,
                                       !.image = image]
    BY <1>3 DEF NewUpdater
  <2>2. updater' \in Updater
    BY <2>1 DEF NoUpdater, Updater, UpdaterPc
  <2> QED
    BY <1>1, <1>3, <2>2 DEF NewUpdater, Board
<1>4. CASE Destruct
  <2>1. NoUpdater \in Updater
    BY DEF NoUpdater, Updater, UpdaterPc, Command
  <2> QED
    BY <1>1, <1>4, <2>1 DEF Destruct
<1>5. CASE UpdateOpen \/ OpenDevice
  BY <1>1, <1>5 DEF UpdateOpen, OpenDevice, Updater, UpdaterPc, Opening
<1>6. CASE SetConfiguration \/ Unplug
  <2>1. updater' \in Updater
    BY <1>1, <1>6 DEF SetConfiguration, Unplug, Updater, UpdaterPc, Opening
  <2>2. board' \in Board
    BY <1>1, <1>6 DEF SetConfiguration, Unplug, Board
  <2> QED
    BY <1>1, <1>6, <2>1, <2>2 DEF SetConfiguration, Unplug
<1>7. CASE ClaimInterface \/ OpenFails
  BY <1>1, <1>7, LeaveType DEF ClaimInterface, OpenFails
<1>8. CASE WriteFirmware
  BY <1>1, <1>8 DEF WriteFirmware, Updater, UpdaterPc, Writing
<1>9. CASE SendCommand
  <2>1. updater.page \in Nat /\ updater.page * PageSize < Len(updater.image)
    BY <1>1, <1>9 DEF SendCommand, UpdaterInv, WriteInv, Updater
  <2>2. updater.page \in PageNumbers
    BY <1>1, <2>1, PageInFlash DEF Updater
  <2>3. PageNumber(Low(updater.page), High(updater.page)) \in PageNumbers
    BY <2>2, PageNumberSplit
  <2>4. /\ [updater EXCEPT !.pc = "data", !.page = updater.page + 1] \in Updater
        /\ WriteFails(updater) \in Updater
    <3>1. updater.page + 1 \in Nat
      BY <2>1
    <3>2. [updater EXCEPT !.pc = "data", !.page = updater.page + 1] \in Updater
      BY <1>1, <3>1 DEF Updater, UpdaterPc, Writing
    <3> QED
      BY <1>1, <3>2, LeaveType
  <2>5. [board EXCEPT !.expects = "data",
           !.page = PageNumber(Low(updater.page), High(updater.page))] \in Board
    BY <1>1, <2>3 DEF Board
  <2>6. updater' \in Updater
    BY <1>9, <2>4 DEF SendCommand
  <2>7. board' \in Board
    BY <1>1, <1>9, <2>5 DEF SendCommand
  <2> QED
    BY <1>1, <1>9, <2>6, <2>7 DEF SendCommand
<1>10. CASE SendData
  <2>1. Chunk(updater.image, updater.i) \in Pages
    BY <1>1, ChunkType DEF Updater
  <2>2. updater.i + PageSize \in Nat
    BY <1>1, UpdaterAssumption DEF Updater
  <2>3. /\ [updater EXCEPT !.pc = "loop", !.i = updater.i + PageSize] \in Updater
        /\ WriteFails(updater) \in Updater
    <3>1. [updater EXCEPT !.pc = "loop", !.i = updater.i + PageSize] \in Updater
      BY <1>1, <2>2 DEF Updater, UpdaterPc, Writing
    <3> QED
      BY <1>1, <3>1, LeaveType
  <2>4. updater' \in Updater
    BY <1>10, <2>3 DEF SendData
  <2>5. board' \in Board
    BY <1>1, <1>10 DEF SendData, Board
  <2>6. flash' \in [PageNumbers -> Pages]
    BY <1>1, <1>10, <2>1 DEF SendData
  <2> QED
    BY <2>4, <2>5, <2>6
<1>11. CASE WriteDone
  <2>1. [updater EXCEPT !.finished = updater.finished + 1] \in Updater
    <3>1. updater.finished + 1 \in Nat
      BY <1>1 DEF Updater
    <3> QED
      BY <1>1, <3>1 DEF Updater
  <2> QED
    BY <1>1, <1>11, <2>1, LeaveType DEF WriteDone
<1>12. CASE StartDevice \/ ResetDevice
  <2>1. updater' \in {Throw(updater), Return(updater, "startDevice"),
                      Return(updater, "resetDevice")}
    BY <1>12 DEF StartDevice, ResetDevice, SendAndLose
  <2>2. board' \in Board /\ flash' = flash
    BY <1>1, <1>12 DEF StartDevice, ResetDevice, SendAndLose, Board
  <2> QED
    BY <1>1, <2>1, <2>2, LeaveType
<1>13. CASE UpdateClose
  <2>1. [updater EXCEPT !.open = FALSE] \in Updater
    BY <1>1 DEF Updater
  <2> QED
    BY <1>1, <1>13, <2>1, LeaveType DEF UpdateClose
<1> QED
  BY <1>2, <1>3, <1>4, <1>5, <1>6, <1>7, <1>8, <1>9, <1>10, <1>11, <1>12, <1>13 DEF UpdaterNext

\* The types hold at the start.
LEMMA TypeInit ==
  UpdaterInit => UpdaterTypeOK
<1> SUFFICES ASSUME UpdaterInit PROVE UpdaterTypeOK
  OBVIOUS
<1>1. updater \in Updater
  BY DEF UpdaterInit, NoUpdater, Updater, UpdaterPc, Command
<1>2. board \in Board
  <2>1. 0 \in PageNumbers
    <3>1. Base * Base \in Nat /\ Base * Base > 0
      BY UpdaterAssumption, SMTT(30)
    <3> QED
      BY <3>1 DEF PageNumbers, MaxPages
  <2> QED
    BY <2>1 DEF UpdaterInit, Board
<1>3. flash \in [PageNumbers -> Pages]
  BY DEF UpdaterInit, Pages
<1> QED
  BY <1>1, <1>2, <1>3 DEF UpdaterTypeOK

-----------------------------------------------------------------------------
(* The handle                                                              *)

\* What is left of an updater when a call is left.
LEMMA LeaveFields ==
  ASSUME NEW u \in Updater, NEW call
  PROVE  /\ Return(u, call) = [u EXCEPT !.pc = After(u.command, call)]
         /\ Return(u, call).pc = After(u.command, call)
         /\ Return(u, call).open = u.open
         /\ Return(u, call).command = u.command
         /\ Return(u, call).image = u.image
         /\ Return(u, call).finished = u.finished
         /\ Throw(u).pc = "destruct"
         /\ WriteFails(u).pc = "destruct"
         /\ WriteFails(u).finished = u.finished + 1
BY DEF Return, Throw, WriteFails, Updater

\* Where a command goes from a call it has made.
LEMMA AfterCall ==
  ASSUME NEW command \in Command
  PROVE  /\ After(command, "updateOpen") \in Calls \ {"updateClose"}
         /\ After(command, "updateOpen") = "writeFirmware" <=> command \in Uploads
         /\ After(command, "writeFirmware") \in {"startDevice", "updateClose"}
         /\ After(command, "startDevice") \in {"updateClose", "destruct"}
         /\ After(command, "startDevice") = "updateClose" => command = "upload"
         /\ After(command, "resetDevice") = "destruct"
         /\ After(command, "updateClose") = "destruct"
BY DEF After, Command, Uploads, Calls

\* A step keeps the protocol of the handle.
LEMMA HandleStep ==
  ASSUME UpdaterInv, [UpdaterNext]_updaterVars
  PROVE  HandleProtocol'
<1> USE DEF Calls, Opening, Writing
<1>1. updater \in Updater /\ updater.command \in Command /\ HandleProtocol
  BY DEF UpdaterInv, UpdaterTypeOK, Updater
<1>2. CASE UNCHANGED updater
  BY <1>1, <1>2 DEF HandleProtocol
<1>3. CASE NewUpdater
  <2>1. updater'.pc = "updateOpen" /\ updater'.open = FALSE
    BY <1>3 DEF NewUpdater, NoUpdater
  <2> QED
    BY <2>1 DEF HandleProtocol
<1>4. CASE Destruct
  BY <1>4 DEF Destruct, NoUpdater, HandleProtocol
<1>5. CASE UpdateOpen
  <2>1. updater'.pc = "open" /\ updater'.open = updater.open /\ ~updater.open
    BY <1>1, <1>5 DEF UpdateOpen, Updater, HandleProtocol
  <2> QED
    BY <2>1 DEF HandleProtocol
<1>6. CASE OpenDevice
  <2>1. updater'.pc = "setConfiguration" /\ updater'.open = TRUE
    BY <1>1, <1>6 DEF OpenDevice, Updater
  <2> QED
    BY <2>1 DEF HandleProtocol
<1>7. CASE SetConfiguration \/ WriteFirmware
  <2>1. /\ updater'.pc \in {"claimInterface", "loop"}
        /\ updater'.open = updater.open /\ updater.open
    BY <1>1, <1>7 DEF SetConfiguration, WriteFirmware, Updater, HandleProtocol
  <2> QED
    BY <2>1 DEF HandleProtocol
<1>8. CASE ClaimInterface
  <2>1. /\ updater'.pc \in Calls
        /\ updater'.open = updater.open /\ updater.open
    BY <1>1, <1>8, LeaveFields, AfterCall DEF ClaimInterface, HandleProtocol
  <2> QED
    BY <2>1 DEF HandleProtocol
<1>9. CASE OpenFails
  BY <1>1, <1>9, LeaveFields DEF OpenFails, HandleProtocol
<1>10. CASE SendCommand \/ SendData
  <2>1. updater' = WriteFails(updater)
          \/ (updater'.pc \in Writing /\ updater'.open = updater.open /\ updater.open)
    BY <1>1, <1>10 DEF SendCommand, SendData, Updater, HandleProtocol
  <2> QED
    BY <1>1, <2>1, LeaveFields DEF HandleProtocol
<1>11. CASE WriteDone
  <2> DEFINE u == [updater EXCEPT !.finished = updater.finished + 1]
  <2>1. u \in Updater /\ u.command = updater.command /\ u.open = updater.open
    BY <1>1 DEF Updater
  <2>2. updater' = Return(u, "writeFirmware") /\ updater.open
    BY <1>1, <1>11 DEF WriteDone, HandleProtocol
  <2> HIDE DEF u
  <2>3. After(u.command, "writeFirmware") \in Calls
    BY <1>1, <2>1, AfterCall
  <2>4. updater'.pc \in Calls /\ updater'.open = updater.open
    BY <2>1, <2>2, <2>3, LeaveFields
  <2> QED
    BY <2>2, <2>4 DEF HandleProtocol
<1>12. CASE StartDevice \/ ResetDevice
  <2>1. PICK call \in {"startDevice", "resetDevice"} : SendAndLose(call)
    BY <1>12 DEF StartDevice, ResetDevice
  <2>2. updater' \in {Throw(updater), Return(updater, call)} /\ updater.open
    BY <1>1, <2>1 DEF SendAndLose, HandleProtocol
  <2>3. After(updater.command, call) \in {"updateClose", "destruct"}
    BY <1>1, <2>1, AfterCall
  <2>4. CASE updater' = Throw(updater)
    BY <1>1, <2>4, LeaveFields DEF HandleProtocol
  <2>5. CASE updater' = Return(updater, call)
    <3>1. updater'.pc \in {"updateClose", "destruct"} /\ updater'.open = updater.open
      BY <1>1, <2>3, <2>5, LeaveFields
    <3> QED
      BY <2>2, <3>1 DEF HandleProtocol
  <2> QED
    BY <2>2, <2>4, <2>5
<1>13. CASE UpdateClose
  <2> DEFINE u == [updater EXCEPT !.open = FALSE]
  <2>1. u \in Updater /\ u.command = updater.command
    BY <1>1 DEF Updater
  <2>2. updater' = Return(u, "updateClose")
    BY <1>13 DEF UpdateClose
  <2> HIDE DEF u
  <2>3. updater'.pc = "destruct"
    BY <1>1, <2>1, <2>2, LeaveFields, AfterCall
  <2> QED
    BY <2>3 DEF HandleProtocol
<1> QED
  BY <1>2, <1>3, <1>4, <1>5, <1>6, <1>7, <1>8, <1>9, <1>10, <1>11, <1>12, <1>13
     DEF UpdaterNext, Unplug, updaterVars

-----------------------------------------------------------------------------
(* The image                                                               *)

\* Where nothing is being written and nothing has been, there is nothing to say.
LEMMA NotWriting ==
  ASSUME updater'.pc \notin {"writeFirmware", "startDevice", "updateClose"} \cup Writing,
         updater'.pc \in {"updateOpen"} \cup Opening => updater'.finished = 0
  PROVE  WriteInv' /\ ImageWritten'
BY DEF WriteInv, ImageWritten, Written, Writing, Opening

\* The pages that are written hold the image once there are no more to come.
LEMMA PrefixHolds ==
  ASSUME NEW page \in Nat, UpdaterTypeOK, Prefix(page), page * PageSize >= Len(updater.image)
  PROVE  Holds(updater.image)
<1> SUFFICES ASSUME NEW p \in PageNumbers, NEW k \in 1 .. PageSize,
                    p * PageSize < Len(updater.image)
             PROVE  flash[p][k] = IF p * PageSize + k <= Len(updater.image)
                                  THEN updater.image[p * PageSize + k] ELSE 0
  BY DEF Holds
<1>1. p \in Nat
  BY UpdaterAssumption DEF PageNumbers, MaxPages
<1>2. Len(updater.image) \in Nat
  BY UpdaterAssumption, EmptySeq, LenProperties DEF UpdaterTypeOK, Updater
<1>3. p * PageSize \in Nat /\ page * PageSize \in Nat
  BY <1>1, NextPage
<1>4. p < page
  BY <1>1, <1>2, <1>3, PageBefore
<1>5. flash[p] = Chunk(updater.image, p * PageSize)
  BY <1>4 DEF Prefix
<1> QED
  BY <1>5 DEF Chunk

\* A step keeps what the loop of writeFirmware() knows of the flash.
LEMMA WriteStep ==
  ASSUME UpdaterInv, [UpdaterNext]_updaterVars
  PROVE  WriteInv' /\ ImageWritten'
<1> USE DEF Writing
<1>1. /\ updater \in Updater /\ updater.command \in Command
      /\ updater.page \in Nat /\ updater.i \in Nat
      /\ board \in Board /\ flash \in [PageNumbers -> Pages]
      /\ WriteInv /\ ImageWritten
  BY DEF UpdaterInv, UpdaterTypeOK, Updater
<1>2. CASE UNCHANGED updaterVars \/ Unplug
  <2>1. updater' = updater /\ flash' = flash /\ (board'.reachable => board' = board)
    BY <1>1, <1>2 DEF Unplug, updaterVars, Board
  <2> QED
    BY <1>1, <2>1 DEF WriteInv, ImageWritten, Written, Holds, Prefix
<1>3. CASE NewUpdater \/ Destruct
  <2>1. updater'.pc \in {"updateOpen", "none"} /\ updater'.finished = 0
    <3>1. CASE NewUpdater
      BY <3>1 DEF NewUpdater, NoUpdater
    <3>2. CASE Destruct
      BY <3>2 DEF Destruct, NoUpdater
    <3> QED
      BY <1>3, <3>1, <3>2
  <2> QED
    BY <2>1, NotWriting DEF Opening
<1>4. CASE UpdateOpen \/ OpenDevice \/ SetConfiguration
  <2>1. updater'.pc \in Opening /\ updater'.finished = 0
    BY <1>1, <1>4 DEF UpdateOpen, OpenDevice, SetConfiguration, Updater, Opening, WriteInv
  <2> QED
    BY <2>1, NotWriting DEF Opening
<1>5. CASE ClaimInterface
  <2>1. /\ updater'.pc = After(updater.command, "updateOpen")
        /\ updater'.command = updater.command
        /\ updater'.finished = 0
    BY <1>1, <1>5, LeaveFields DEF ClaimInterface, WriteInv, Opening
  <2>2. /\ updater'.pc \in Calls \ {"updateClose"}
        /\ updater'.pc = "writeFirmware" <=> updater'.command \in Uploads
    BY <1>1, <2>1, AfterCall
  <2> QED
    BY <2>1, <2>2 DEF WriteInv, ImageWritten, Written, Calls
<1>6. CASE OpenFails
  BY <1>1, <1>6, LeaveFields, NotWriting DEF OpenFails, Opening
<1>7. CASE WriteFirmware
  <2>1. /\ updater'.pc = "loop" /\ updater'.i = 0 /\ updater'.page = 0
        /\ updater'.command = updater.command /\ updater.command \in Uploads
        /\ updater'.finished = 0
    BY <1>1, <1>7 DEF WriteFirmware, Updater, WriteInv
  <2>2. 0 = 0 * PageSize
    BY UpdaterAssumption
  <2>3. \A p \in PageNumbers : ~(p < 0)
    BY UpdaterAssumption DEF PageNumbers, MaxPages
  <2> QED
    BY <2>1, <2>2, <2>3 DEF WriteInv, Prefix, ImageWritten, Written
<1>8. CASE SendCommand
  <2>1. PICK o \in Outcome :
          /\ updater' = IF o.ok THEN [updater EXCEPT !.pc = "data", !.page = @ + 1]
                                ELSE WriteFails(updater)
          /\ board' = IF o.delivered
                      THEN [board EXCEPT !.expects = "data",
                              !.page = PageNumber(Low(updater.page), High(updater.page))]
                      ELSE board
    BY <1>8 DEF SendCommand
  <2>2. CASE ~o.ok
    BY <1>1, <2>1, <2>2, LeaveFields, NotWriting DEF Opening
  <2>3. CASE o.ok
    <3>1. /\ updater'.pc = "data" /\ updater'.page = updater.page + 1
          /\ updater'.i = updater.i /\ updater'.image = updater.image
          /\ updater'.command = updater.command /\ updater'.finished = updater.finished
      BY <1>1, <2>1, <2>3 DEF Updater
    <3>2. /\ updater.i = updater.page * PageSize /\ Prefix(updater.page)
          /\ updater.i < Len(updater.image) /\ updater.command \in Uploads
          /\ updater.finished = 0
      BY <1>1, <1>8 DEF SendCommand, WriteInv
    <3>3. updater.page \in PageNumbers
      BY <1>1, <3>2, PageInFlash DEF Updater
    <3>4. board'.expects = "data" /\ board'.page = updater.page
      BY <1>1, <2>1, <2>3, <3>3, PageNumberSplit DEF Outcome, Board
    <3>5. updater'.page - 1 = updater.page /\ updater'.page > 0
      BY <1>1, <3>1
    <3>6. \A p \in PageNumbers :
            p < updater'.page - 1 => flash'[p] = Chunk(updater'.image, p * PageSize)
      BY <1>8, <3>1, <3>2, <3>5 DEF SendCommand, Prefix
    <3>7. Prefix(updater.page - 1)'
      BY <3>6 DEF Prefix
    <3> QED
      BY <3>1, <3>2, <3>4, <3>5, <3>7 DEF WriteInv, ImageWritten, Written
  <2> QED
    BY <2>2, <2>3
<1>9. CASE SendData
  <2>1. PICK o \in Outcome :
          /\ updater' = IF o.ok THEN [updater EXCEPT !.pc = "loop", !.i = @ + PageSize]
                                ELSE WriteFails(updater)
          /\ IF o.delivered /\ board.expects = "data"
             THEN /\ flash' = [flash EXCEPT ![board.page] = Chunk(updater.image, updater.i)]
                  /\ board' = [board EXCEPT !.expects = "command"]
             ELSE UNCHANGED <<board, flash>>
    BY <1>9 DEF SendData
  <2>2. CASE ~o.ok
    BY <1>1, <2>1, <2>2, LeaveFields, NotWriting DEF Opening
  <2>3. CASE o.ok
    <3>1. /\ updater'.pc = "loop" /\ updater'.page = updater.page
          /\ updater'.i = updater.i + PageSize /\ updater'.image = updater.image
          /\ updater'.command = updater.command /\ updater'.finished = updater.finished
      BY <1>1, <2>1, <2>3 DEF Updater
    <3> DEFINE q == updater.page - 1
    <3>2. /\ q \in Nat /\ updater.i = q * PageSize /\ q + 1 = updater.page
          /\ updater.i < Len(updater.image)
          /\ \A p \in PageNumbers : p < q => flash[p] = Chunk(updater.image, p * PageSize)
          /\ board.reachable => board.expects = "data" /\ board.page = q
          /\ updater.command \in Uploads /\ updater.finished = 0
      BY <1>1, <1>9 DEF SendData, WriteInv, Prefix
    <3> HIDE DEF q
    <3>3. q \in PageNumbers
      BY <1>1, <3>2, PageInFlash DEF Updater
    <3>4. flash' = [flash EXCEPT ![q] = Chunk(updater.image, q * PageSize)]
      BY <2>1, <2>3, <3>2 DEF Outcome
    <3>5. \A p \in PageNumbers : p < q + 1 => p < q \/ p = q
      BY <3>2, UpdaterAssumption DEF PageNumbers, MaxPages
    <3>6. \A p \in PageNumbers :
            p < updater'.page => flash'[p] = Chunk(updater'.image, p * PageSize)
      BY <1>1, <3>1, <3>2, <3>3, <3>4, <3>5
    <3>7. Prefix(updater.page)'
      BY <3>6 DEF Prefix
    <3>8. updater'.i = updater'.page * PageSize
      BY <3>1, <3>2, NextPage
    <3>9. (updater'.page - 1) * PageSize < Len(updater'.image)
      BY <3>1, <3>2 DEF q
    <3> QED
      BY <3>1, <3>2, <3>7, <3>8, <3>9 DEF WriteInv, ImageWritten, Written
  <2> QED
    BY <2>2, <2>3
<1>10. CASE WriteDone
  <2> DEFINE u == [updater EXCEPT !.finished = updater.finished + 1]
  <2>1. u \in Updater /\ u.command = updater.command /\ u.image = updater.image
    BY <1>1 DEF Updater
  <2>2. updater' = Return(u, "writeFirmware") /\ flash' = flash
    BY <1>10 DEF WriteDone
  <2> HIDE DEF u
  <2>3. After(u.command, "writeFirmware") \in {"startDevice", "updateClose"}
    BY <1>1, <2>1, AfterCall
  <2>4. updater'.pc \in {"startDevice", "updateClose"} /\ updater'.image = updater.image
    BY <2>1, <2>2, <2>3, LeaveFields
  <2>5. Holds(updater.image)
    <3>1. /\ Prefix(updater.page)
          /\ updater.page * PageSize >= Len(updater.image)
      BY <1>1, <1>10 DEF WriteDone, WriteInv
    <3> QED
      BY <1>1, <3>1, PrefixHolds DEF UpdaterInv
  <2>6. Holds(updater.image)'
    BY <2>2, <2>4, <2>5 DEF Holds
  <2> QED
    BY <2>4, <2>6 DEF WriteInv, Opening, ImageWritten
<1>11. CASE StartDevice \/ ResetDevice
  <2>1. PICK call \in {"startDevice", "resetDevice"} : SendAndLose(call)
    BY <1>11 DEF StartDevice, ResetDevice
  <2>2. updater' \in {Throw(updater), Return(updater, call)} /\ flash' = flash
    BY <2>1 DEF SendAndLose
  <2>3. CASE updater' = Throw(updater)
    BY <1>1, <2>3, LeaveFields, NotWriting DEF Opening
  <2>4. CASE updater' = Return(updater, call)
    <3>1. \/ After(updater.command, call) = "destruct"
          \/ /\ After(updater.command, call) = "updateClose"
             /\ updater.command = "upload" /\ call = "startDevice"
      BY <1>1, AfterCall
    <3>2. /\ updater'.pc = After(updater.command, call)
          /\ updater'.command = updater.command /\ updater'.image = updater.image
      BY <1>1, <2>4, LeaveFields
    <3>3. CASE After(updater.command, call) = "destruct"
      BY <3>2, <3>3, NotWriting DEF Opening
    <3>4. CASE updater.command = "upload" /\ updater'.pc = "updateClose" /\ call = "startDevice"
      <4>1. Holds(updater.image)
        BY <1>1, <2>1, <3>4 DEF SendAndLose, ImageWritten, Written, Uploads
      <4>2. Holds(updater.image)'
        BY <2>2, <3>2, <4>1 DEF Holds
      <4> QED
        BY <3>4, <4>2 DEF WriteInv, Opening, ImageWritten
    <3> QED
      BY <3>1, <3>2, <3>3, <3>4
  <2> QED
    BY <2>2, <2>3, <2>4
<1>12. CASE UpdateClose
  <2> DEFINE u == [updater EXCEPT !.open = FALSE]
  <2>1. u \in Updater /\ u.command = updater.command
    BY <1>1 DEF Updater
  <2>2. updater' = Return(u, "updateClose")
    BY <1>12 DEF UpdateClose
  <2> HIDE DEF u
  <2>3. updater'.pc = "destruct"
    BY <1>1, <2>1, <2>2, LeaveFields, AfterCall
  <2> QED
    BY <2>3, NotWriting DEF Opening
<1> QED
  BY <1>2, <1>3, <1>4, <1>5, <1>6, <1>7, <1>8, <1>9, <1>10, <1>11, <1>12 DEF UpdaterNext

\* The inductive invariant holds in every state.
LEMMA Inductive ==
  UpdaterSpec => []UpdaterInv
<1>1. UpdaterInit => UpdaterInv
  <2> SUFFICES ASSUME UpdaterInit PROVE UpdaterInv
    OBVIOUS
  <2>1. updater.pc = "none" /\ ~updater.open
    BY DEF UpdaterInit, NoUpdater
  <2> QED
    BY <2>1, TypeInit DEF UpdaterInv, HandleProtocol, WriteInv, ImageWritten, Written,
                          Calls, Opening, Writing
<1>2. UpdaterInv /\ [UpdaterNext]_updaterVars => UpdaterInv'
  BY TypeStep, HandleStep, WriteStep DEF UpdaterInv
<1> QED
  BY <1>1, <1>2, PTL DEF UpdaterSpec

-----------------------------------------------------------------------------
(* Theorems                                                                *)

\* The updater, the bootloader and the flash always have their types: a page number
\* that reaches the bootloader is the number of a page it has.
THEOREM TypeCorrect ==
  UpdaterSpec => []UpdaterTypeOK
<1>1. UpdaterInv => UpdaterTypeOK
  BY DEF UpdaterInv
<1> QED
  BY <1>1, Inductive, PTL

\* No command ever gets an error of the updater itself, and none leaks a handle.
THEOREM HandleProtocolKept ==
  UpdaterSpec => []HandleProtocol
<1>1. UpdaterInv => HandleProtocol
  BY DEF UpdaterInv
<1> QED
  BY <1>1, Inductive, PTL

\* A board is started after an upload, and an upload is reported as done, only when
\* the flash holds the image, whatever transfers failed before.
THEOREM ImageAlwaysWritten ==
  UpdaterSpec => []ImageWritten
<1>1. UpdaterInv => ImageWritten
  BY DEF UpdaterInv
<1> QED
  BY <1>1, Inductive, PTL

\* writeFirmware() tells its notifier once that it has finished, when it returns
\* and when it throws.
THEOREM AlwaysNotifiedOnce ==
  UpdaterSpec => NotifiedOnce
<1>1. UpdaterInv /\ UpdaterInv' /\ [UpdaterNext]_updaterVars =>
        [/\ updater'.pc \in Writing => updater'.finished = 0
         /\ updater.pc \in Writing /\ updater'.pc \notin Writing => updater'.finished = 1
        ]_updaterVars
  <2> SUFFICES ASSUME UpdaterInv, UpdaterInv', UpdaterNext
               PROVE  /\ updater'.pc \in Writing => updater'.finished = 0
                      /\ updater.pc \in Writing /\ updater'.pc \notin Writing =>
                           updater'.finished = 1
    OBVIOUS
  <2>1. updater'.pc \in Writing => updater'.finished = 0
    BY DEF UpdaterInv, WriteInv
  <2>2. ASSUME updater.pc \in Writing, updater'.pc \notin Writing
        PROVE  updater'.finished = 1
    <3>1. updater \in Updater /\ updater.finished = 0
      BY <2>2 DEF UpdaterInv, UpdaterTypeOK, WriteInv
    <3>2. CASE SendCommand \/ SendData
      <4>1. updater' = WriteFails(updater)
        BY <2>2, <3>1, <3>2 DEF SendCommand, SendData, Updater, Writing
      <4> QED
        BY <3>1, <4>1, LeaveFields
    <3>3. CASE WriteDone
      <4> DEFINE u == [updater EXCEPT !.finished = updater.finished + 1]
      <4>1. u \in Updater /\ u.finished = 1
        BY <3>1 DEF Updater
      <4>2. updater' = Return(u, "writeFirmware")
        BY <3>3 DEF WriteDone
      <4> HIDE DEF u
      <4> QED
        BY <4>1, <4>2, LeaveFields
    <3>4. CASE Unplug
      BY <2>2, <3>4 DEF Unplug
    <3> QED
      BY <2>2, <3>2, <3>3, <3>4
         DEF UpdaterNext, Writing, NewUpdater, Destruct, UpdateOpen, OpenDevice,
             SetConfiguration, ClaimInterface, OpenFails, Opening, WriteFirmware,
             StartDevice, ResetDevice, SendAndLose, UpdateClose
  <2> QED
    BY <2>1, <2>2
<1> QED
  BY <1>1, Inductive, PTL DEF UpdaterSpec, NotifiedOnce

-----------------------------------------------------------------------------
(* Refinement                                                              *)

\* The pages of an image are those that begin before its end.
LEMMA PagesCount ==
  ASSUME NEW image \in Images \cup {<<>>}
  PROVE  /\ NumPages(image) \in Nat
         /\ \A p \in Nat : p < NumPages(image) <=> p * PageSize < Len(image)
<1>1. PageSize \in Nat /\ PageSize > 0 /\ Len(image) \in Nat
  BY UpdaterAssumption, EmptySeq, LenProperties
<1> DEFINE m == Len(image) + PageSize - 1
           n == m \div PageSize
           r == m % PageSize
<1>2. m \in Nat
  BY <1>1
<1>3. n \in Nat /\ r \in 0 .. PageSize - 1 /\ m = PageSize * n + r
  <2> HIDE DEF m
  <2> QED
    BY <1>1, <1>2, SMTT(30)
<1> HIDE DEF n, r
<1>4. ASSUME NEW p \in Nat, p < n PROVE p * PageSize < Len(image)
  <2>1. PageSize * n >= PageSize * (p + 1)
    BY <1>1, <1>3, <1>4, SMTT(30)
  <2>2. PageSize * (p + 1) = p * PageSize + PageSize /\ p * PageSize \in Nat
    BY <1>1, SMTT(30)
  <2>3. PageSize * n \in Nat
    BY <1>1, <1>3
  <2> QED
    BY <1>1, <1>3, <2>1, <2>2, <2>3
<1>5. ASSUME NEW p \in Nat, p >= n PROVE ~(p * PageSize < Len(image))
  <2>1. PageSize * n <= p * PageSize
    BY <1>1, <1>3, <1>5, SMTT(30)
  <2>2. p * PageSize \in Nat /\ PageSize * n \in Nat
    BY <1>1, <1>3
  <2> QED
    BY <1>1, <1>3, <2>1, <2>2
<1>6. NumPages(image) = n
  BY DEF NumPages, n
<1> QED
  BY <1>3, <1>4, <1>5, <1>6

\* The pages of an image are its chunks, each a page of the abstract upload.
LEMMA PagesOfType ==
  ASSUME NEW image \in Images \cup {<<>>}
  PROVE  /\ PagesOf(image) \in Seq(Pages)
         /\ Len(PagesOf(image)) = NumPages(image)
         /\ \A p \in Nat : p < NumPages(image) =>
              PagesOf(image)[p + 1] = Chunk(image, p * PageSize)
<1>1. NumPages(image) \in Nat
  BY PagesCount
<1>2. ASSUME NEW n \in 1 .. NumPages(image)
      PROVE  Chunk(image, (n - 1) * PageSize) \in Pages
  <2>1. n - 1 \in Nat
    BY <1>1
  <2>2. (n - 1) * PageSize \in Nat
    BY <2>1, NextPage
  <2> QED
    BY <2>2, ChunkType
<1>3. PagesOf(image) \in [1 .. NumPages(image) -> Pages]
  BY <1>2 DEF PagesOf
<1>4. PagesOf(image) \in Seq(Pages)
  BY <1>1, <1>3, SeqDef
<1>5. DOMAIN PagesOf(image) = 1 .. Len(PagesOf(image)) /\ Len(PagesOf(image)) \in Nat
  BY <1>4, LenProperties
<1>6. Len(PagesOf(image)) = NumPages(image)
  BY <1>1, <1>3, <1>5
<1>7. \A p \in Nat : p < NumPages(image) => p + 1 \in 1 .. NumPages(image) /\ (p + 1) - 1 = p
  BY <1>1
<1> QED
  BY <1>4, <1>6, <1>7 DEF PagesOf

\* The mapping where nothing is being written, before a step and after it.
LEMMA UploadNone ==
  /\ updater.pc \notin Writing /\ ~Written => upload = FU!NoUpload
  /\ updater'.pc \notin Writing /\ ~Written' => upload' = FU!NoUpload
BY DEF upload, FU!NoUpload, Writing

\* What the abstract upload is, seen from where writeFirmware() is.
LEMMA UploadGoing ==
  /\ updater.pc = "loop" =>
       upload = [status |-> "writing", pages |-> PagesOf(updater.image), done |-> updater.page]
  /\ updater.pc = "data" =>
       upload = [status |-> "writing", pages |-> PagesOf(updater.image), done |-> updater.page - 1]
  /\ Written =>
       upload = [status |-> "written", pages |-> PagesOf(updater.image), done |-> updater.page]
BY DEF upload, Written

\* The same of the next state.
LEMMA UploadGoingOn ==
  /\ updater'.pc = "loop" =>
       upload' = [status |-> "writing", pages |-> PagesOf(updater'.image), done |-> updater'.page]
  /\ updater'.pc = "data" =>
       upload' = [status |-> "writing", pages |-> PagesOf(updater'.image),
                  done |-> updater'.page - 1]
  /\ Written' =>
       upload' = [status |-> "written", pages |-> PagesOf(updater'.image), done |-> updater'.page]
BY DEF upload, Written

\* A step of writeFirmware() is a step of the abstract upload or changes nothing
\* of it.
LEMMA WritingRefines ==
  ASSUME UpdaterInv, UpdaterInv', WriteFirmware \/ SendCommand \/ SendData \/ WriteDone
  PROVE  FU!Next \/ UNCHANGED FU!uploadVars
<1>1. /\ updater \in Updater /\ updater.command \in Command
      /\ updater.image \in Images \cup {<<>>}
      /\ updater.page \in Nat /\ updater.i \in Nat
      /\ board \in Board /\ WriteInv
  BY DEF UpdaterInv, UpdaterTypeOK, Updater
<1> DEFINE pages == PagesOf(updater.image)
<1>2. /\ pages \in Seq(Pages) /\ Len(pages) \in Nat
      /\ \A p \in Nat : p < Len(pages) <=> p * PageSize < Len(updater.image)
      /\ \A p \in Nat : p < Len(pages) => pages[p + 1] = Chunk(updater.image, p * PageSize)
  BY <1>1, PagesCount, PagesOfType
<1>3. CASE WriteFirmware
  <2>1. upload = FU!NoUpload
    BY <1>3, UploadNone DEF WriteFirmware, Writing, Written
  <2>2. updater'.pc = "loop" /\ updater'.image = updater.image /\ updater'.page = 0
    BY <1>1, <1>3 DEF WriteFirmware, Updater
  <2>3. upload' = [status |-> "writing", pages |-> pages, done |-> 0]
    BY <2>2, UploadGoingOn
  <2>4. FU!Begin
    BY <1>2, <1>3, <2>1, <2>3 DEF FU!Begin, FU!NoUpload, WriteFirmware
  <2> QED
    BY <2>4 DEF FU!Next
<1>4. ASSUME updater' = WriteFails(updater), updater.pc \in Writing
      PROVE  upload' = FU!NoUpload /\ upload.status = "writing"
  <2>1. updater'.pc = "destruct"
    BY <1>1, <1>4, LeaveFields
  <2>2. ~Written' /\ updater'.pc \notin Writing
    BY <2>1 DEF Written, Writing
  <2> QED
    BY <1>4, <2>2, UploadNone, UploadGoing DEF Writing
<1>5. CASE SendCommand
  <2>1. \/ updater' = [updater EXCEPT !.pc = "data", !.page = updater.page + 1]
        \/ updater' = WriteFails(updater)
    BY <1>5 DEF SendCommand
  <2>2. flash' = flash /\ updater.pc = "loop"
    BY <1>5 DEF SendCommand
  <2>3. CASE updater' = WriteFails(updater)
    <3>1. FU!Forget
      BY <1>4, <2>2, <2>3 DEF FU!Forget, Writing
    <3> QED
      BY <3>1 DEF FU!Next
  <2>4. CASE updater' = [updater EXCEPT !.pc = "data", !.page = updater.page + 1]
    <3>1. updater'.pc = "data" /\ updater'.image = updater.image /\ updater'.page - 1 = updater.page
      BY <1>1, <2>4 DEF Updater
    <3>2. upload' = upload
      BY <2>2, <3>1, UploadGoing, UploadGoingOn
    <3> QED
      BY <2>2, <3>2 DEF FU!uploadVars
  <2> QED
    BY <2>1, <2>3, <2>4
<1>6. CASE SendData
  <2>1. PICK o \in Outcome :
          /\ updater' = IF o.ok THEN [updater EXCEPT !.pc = "loop", !.i = updater.i + PageSize]
                                ELSE WriteFails(updater)
          /\ IF o.delivered /\ board.expects = "data"
             THEN flash' = [flash EXCEPT ![board.page] = Chunk(updater.image, updater.i)]
             ELSE flash' = flash
    BY <1>6 DEF SendData
  <2> DEFINE q == updater.page - 1
  <2>2. /\ updater.pc = "data" /\ q \in Nat /\ q + 1 = updater.page
        /\ updater.i = q * PageSize /\ updater.i < Len(updater.image)
        /\ board.reachable => board.expects = "data" /\ board.page = q
    BY <1>1, <1>6 DEF SendData, WriteInv
  <2> HIDE DEF q
  <2>3. upload = [status |-> "writing", pages |-> pages, done |-> q]
    BY <2>2, UploadGoing DEF q
  <2>4. q < Len(pages) /\ pages[q + 1] = Chunk(updater.image, updater.i)
    BY <1>2, <2>2
  <2>5. o.delivered => flash' = [flash EXCEPT ![q] = Chunk(updater.image, updater.i)]
    BY <2>1, <2>2 DEF Outcome
  <2>6. upload' \in {[upload EXCEPT !.done = upload.done + 1], FU!NoUpload}
    <3>1. CASE o.ok
      <4>1. updater'.pc = "loop" /\ updater'.image = updater.image /\ updater'.page = q + 1
        BY <1>1, <2>1, <2>2, <3>1 DEF Updater
      <4>2. upload' = [status |-> "writing", pages |-> pages, done |-> q + 1]
        BY <4>1, UploadGoingOn
      <4> QED
        BY <2>3, <4>2
    <3>2. CASE ~o.ok
      BY <1>4, <2>1, <2>2, <3>2 DEF Writing
    <3> QED
      BY <3>1, <3>2
  <2>7. CASE o.delivered
    <3>1. FU!WritePage
      BY <2>3, <2>4, <2>5, <2>6, <2>7 DEF FU!WritePage
    <3> QED
      BY <3>1 DEF FU!Next
  <2>8. CASE ~o.delivered
    <3>1. ~o.ok /\ flash' = flash
      BY <2>1, <2>8 DEF Outcome
    <3>2. FU!Forget
      BY <1>4, <2>1, <2>2, <3>1 DEF FU!Forget, Writing
    <3> QED
      BY <3>2 DEF FU!Next
  <2> QED
    BY <2>7, <2>8
<1>7. CASE WriteDone
  <2> DEFINE u == [updater EXCEPT !.finished = updater.finished + 1]
  <2>1. /\ u \in Updater /\ u.command = updater.command /\ u.image = updater.image
        /\ u.page = updater.page
    BY <1>1 DEF Updater
  <2>2. updater' = Return(u, "writeFirmware") /\ flash' = flash
    BY <1>7 DEF WriteDone
  <2> HIDE DEF u
  <2>3. After(u.command, "writeFirmware") \in {"startDevice", "updateClose"}
    BY <1>1, <2>1, AfterCall
  <2>4. /\ updater'.pc \in {"startDevice", "updateClose"} /\ updater'.image = updater.image
        /\ updater'.command = updater.command
    BY <2>1, <2>2, <2>3, LeaveFields
  <2>5. updater'.page = updater.page
    BY <2>1, <2>2 DEF Return, Updater
  <2>6. /\ updater.pc = "loop" /\ updater.command \in Uploads
        /\ updater.page * PageSize >= Len(updater.image)
        /\ updater.page > 0 => (updater.page - 1) * PageSize < Len(updater.image)
    BY <1>1, <1>7 DEF WriteDone, WriteInv, Writing
  <2>7. upload' = [status |-> "written", pages |-> pages, done |-> updater.page]
    BY <2>4, <2>5, <2>6, UploadGoingOn DEF Written
  <2>8. upload = [status |-> "writing", pages |-> pages, done |-> updater.page]
    BY <2>6, UploadGoing
  <2>9. updater.page = Len(pages)
    <3>1. ~(updater.page < Len(pages))
      <4>1. Len(updater.image) \in Nat /\ updater.page * PageSize \in Nat
        BY <1>1, UpdaterAssumption, EmptySeq, LenProperties, NextPage
      <4> QED
        BY <1>1, <1>2, <2>6, <4>1
    <3>2. updater.page > 0 => updater.page - 1 < Len(pages)
      BY <1>1, <1>2, <2>6
    <3> QED
      BY <1>1, <1>2, <3>1, <3>2
  <2>10. FU!Finish
    BY <2>2, <2>7, <2>8, <2>9 DEF FU!Finish
  <2> QED
    BY <2>10 DEF FU!Next
<1> QED
  BY <1>3, <1>5, <1>6, <1>7

\* No other step but the end of an upload has to do with it.
LEMMA OtherRefines ==
  ASSUME UpdaterInv, UpdaterInv', UpdaterNext, ~(WriteFirmware \/ SendCommand \/ SendData \/ WriteDone)
  PROVE  FU!Next \/ UNCHANGED FU!uploadVars
<1> USE DEF Writing
<1>1. /\ updater \in Updater /\ updater.command \in Command
  BY DEF UpdaterInv, UpdaterTypeOK, Updater
<1>2. flash' = flash
  BY DEF UpdaterNext, NewUpdater, Destruct, UpdateOpen, OpenDevice, SetConfiguration,
         ClaimInterface, OpenFails, StartDevice, ResetDevice, SendAndLose,
         UpdateClose, Unplug
<1>3. CASE Unplug
  BY <1>2, <1>3 DEF Unplug, FU!uploadVars, upload, Written
<1>4. ASSUME upload' = FU!NoUpload PROVE FU!Next \/ UNCHANGED FU!uploadVars
  <2>1. CASE updater.pc \notin Writing /\ ~Written
    BY <1>2, <1>4, <2>1, UploadNone DEF FU!uploadVars
  <2>2. CASE updater.pc \in Writing \/ Written
    <3>1. upload.status # "none"
      BY <2>2, UploadGoing
    <3> QED
      BY <1>2, <1>4, <3>1 DEF FU!Next, FU!Forget
  <2> QED
    BY <2>1, <2>2
<1>5. CASE NewUpdater \/ Destruct
  <2>1. updater'.pc \in {"updateOpen", "none"}
    <3>1. NewUpdater => updater'.pc = "updateOpen"
      BY DEF NewUpdater, NoUpdater
    <3>2. Destruct => updater'.pc = "none"
      BY DEF Destruct, NoUpdater
    <3> QED
      BY <1>5, <3>1, <3>2
  <2> QED
    BY <1>4, <2>1, UploadNone DEF Written
<1>6. CASE UpdateOpen \/ OpenDevice \/ SetConfiguration
  <2>1. updater'.pc \in Opening
    BY <1>1, <1>6 DEF UpdateOpen, OpenDevice, SetConfiguration, Updater, Opening
  <2> QED
    BY <1>4, <2>1, UploadNone DEF Written, Opening
<1>7. CASE ClaimInterface
  <2>1. /\ updater'.pc = After(updater.command, "updateOpen")
        /\ updater'.command = updater.command
    BY <1>1, <1>7, LeaveFields DEF ClaimInterface
  <2>2. /\ updater'.pc \in Calls \ {"updateClose"}
        /\ updater'.pc = "writeFirmware" <=> updater'.command \in Uploads
    BY <1>1, <2>1, AfterCall
  <2> QED
    BY <1>4, <2>2, UploadNone DEF Written, Calls
<1>8. CASE OpenFails
  BY <1>1, <1>4, <1>8, LeaveFields, UploadNone DEF OpenFails, Written
<1>9. CASE StartDevice \/ ResetDevice
  <2>1. PICK call \in {"startDevice", "resetDevice"} : SendAndLose(call)
    BY <1>9 DEF StartDevice, ResetDevice
  <2>2. updater.pc = call /\ updater' \in {Throw(updater), Return(updater, call)}
    BY <2>1 DEF SendAndLose
  <2>3. CASE updater' = Throw(updater)
    BY <1>1, <1>4, <2>3, LeaveFields, UploadNone DEF Written
  <2>4. CASE updater' = Return(updater, call)
    <3>1. \/ After(updater.command, call) = "destruct"
          \/ /\ After(updater.command, call) = "updateClose"
             /\ updater.command = "upload" /\ call = "startDevice"
      BY <1>1, AfterCall
    <3>2. /\ updater'.pc = After(updater.command, call)
          /\ updater'.command = updater.command /\ updater'.image = updater.image
          /\ updater'.page = updater.page
      BY <1>1, <2>4, LeaveFields DEF Return, Updater
    <3>3. CASE After(updater.command, call) = "destruct"
      BY <1>4, <3>2, <3>3, UploadNone DEF Written
    <3>4. CASE /\ After(updater.command, call) = "updateClose"
               /\ updater.command = "upload" /\ call = "startDevice"
      <4>1. Written /\ Written'
        BY <2>2, <3>2, <3>4 DEF Written, Uploads
      <4>2. upload' = upload
        BY <3>2, <4>1, UploadGoing, UploadGoingOn
      <4> QED
        BY <1>2, <4>2 DEF FU!uploadVars
    <3> QED
      BY <3>1, <3>3, <3>4
  <2> QED
    BY <2>2, <2>3, <2>4
<1>10. CASE UpdateClose
  <2> DEFINE u == [updater EXCEPT !.open = FALSE]
  <2>1. u \in Updater /\ u.command = updater.command
    BY <1>1 DEF Updater
  <2>2. updater' = Return(u, "updateClose")
    BY <1>10 DEF UpdateClose
  <2> HIDE DEF u
  <2>3. updater'.pc = "destruct"
    BY <1>1, <2>1, <2>2, LeaveFields, AfterCall
  <2> QED
    BY <1>4, <2>3, UploadNone DEF Written
<1> QED
  BY <1>3, <1>5, <1>6, <1>7, <1>8, <1>9, <1>10 DEF UpdaterNext

\* The updater implements FlashUpload: pages are written in order from the first one
\* on, no other page changes, and an upload is called written only when all its
\* pages are there.
THEOREM Implementation ==
  UpdaterSpec => ImplementsFlashUpload
<1>1. UpdaterInit => FU!Init
  <2> SUFFICES ASSUME UpdaterInit PROVE FU!Init
    OBVIOUS
  <2>1. upload = FU!NoUpload
    BY UploadNone DEF UpdaterInit, NoUpdater, Writing, Written
  <2> QED
    BY <2>1, TypeInit DEF FU!Init, UpdaterTypeOK
<1>2. UpdaterInv /\ UpdaterInv' /\ [UpdaterNext]_updaterVars => [FU!Next]_FU!uploadVars
  <2> SUFFICES ASSUME UpdaterInv, UpdaterInv', [UpdaterNext]_updaterVars
               PROVE  FU!Next \/ UNCHANGED FU!uploadVars
    OBVIOUS
  <2>1. CASE UNCHANGED updaterVars
    BY <2>1 DEF updaterVars, FU!uploadVars, upload, Written
  <2> QED
    BY <2>1, WritingRefines, OtherRefines
<1> QED
  BY <1>1, <1>2, Inductive, PTL DEF UpdaterSpec, FU!Spec, ImplementsFlashUpload
=============================================================================

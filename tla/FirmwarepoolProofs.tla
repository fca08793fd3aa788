------------------------- MODULE FirmwarepoolProofs -------------------------
(***************************************************************************)
(* Theorems about Firmwarepool, for any firmwares and versions, and for    *)
(* any number of downloads that are under way in each other.               *)
(***************************************************************************)
EXTENDS Firmwarepool, SequenceTheorems, TLAPS

USE FirmwarepoolAssumption DEF Version, Partial, Content, File

-----------------------------------------------------------------------------
(* The stack of downloads                                                  *)

\* A removal takes some files away from the calls, and nothing else.
LEMMA UnlinkedCalls ==
  ASSUME NEW calls \in Seq(Download), NEW files
  PROVE  /\ Unlinked(calls, files) \in Seq(Download)
         /\ Len(Unlinked(calls, files)) = Len(calls)
         /\ \A i \in 1 .. Len(calls) :
              Unlinked(calls, files)[i] =
                IF FileOfCall(calls[i]) \in files
                THEN [calls[i] EXCEPT !.linked = FALSE] ELSE calls[i]
<1> DEFINE e(i) == IF FileOfCall(calls[i]) \in files
                   THEN [calls[i] EXCEPT !.linked = FALSE] ELSE calls[i]
<1>1. Len(calls) \in Nat /\ DOMAIN calls = 1 .. Len(calls)
  BY LenProperties
<1>2. \A i \in 1 .. Len(calls) : calls[i] \in Download
  BY ElementOfSeq
<1>3. \A i \in 1 .. Len(calls) : e(i) \in Download
  BY <1>2 DEF Download
<1>4. Unlinked(calls, files) = [i \in 1 .. Len(calls) |-> e(i)]
  BY <1>1 DEF Unlinked
<1> HIDE DEF e
<1>5. [i \in 1 .. Len(calls) |-> e(i)] \in Seq(Download)
  BY <1>1, <1>3, IsASeq
<1>6. Len([i \in 1 .. Len(calls) |-> e(i)]) = Len(calls)
  BY <1>1, <1>5, LenProperties
<1>7. \A i \in 1 .. Len(calls) : Unlinked(calls, files)[i] = e(i)
  BY <1>4
<1> QED
  BY <1>4, <1>5, <1>6, <1>7 DEF e

\* The same of a single call, in the terms the invariants use.
LEMMA UnlinkedCall ==
  ASSUME NEW calls \in Seq(Download), NEW files, NEW i \in 1 .. Len(calls)
  PROVE  /\ calls[i] \in Download /\ Unlinked(calls, files)[i] \in Download
         /\ Unlinked(calls, files)[i].pc = calls[i].pc
         /\ Unlinked(calls, files)[i].name = calls[i].name
         /\ Unlinked(calls, files)[i].version = calls[i].version
         /\ Unlinked(calls, files)[i].fill = calls[i].fill
         /\ FileOfCall(Unlinked(calls, files)[i]) = FileOfCall(calls[i])
         /\ FileOfCall(calls[i]) \notin files => Unlinked(calls, files)[i] = calls[i]
<1> DEFINE old == calls[i]
           new == Unlinked(calls, files)[i]
<1>1. old \in Download
  BY ElementOfSeq
<1>2. new = IF FileOfCall(old) \in files THEN [old EXCEPT !.linked = FALSE] ELSE old
  BY UnlinkedCalls
<1> HIDE DEF old, new
<1>3. /\ new \in Download
      /\ new.pc = old.pc /\ new.name = old.name
      /\ new.version = old.version /\ new.fill = old.fill
      /\ FileOfCall(new) = FileOfCall(old)
      /\ FileOfCall(old) \notin files => new = old
  BY <1>1, <1>2 DEF Download, FileOfCall
<1> QED
  BY <1>1, <1>3 DEF old, new

\* The innermost call, and what is left when it has returned.
LEMMA PoppedCalls ==
  ASSUME downloads \in Seq(Download), downloads # <<>>
  PROVE  /\ Top \in Download
         /\ Len(downloads) \in Nat \ {0}
         /\ Tail(downloads) \in Seq(Download)
         /\ Len(Tail(downloads)) = Len(downloads) - 1
         /\ \A i \in 1 .. Len(downloads) - 1 : Tail(downloads)[i] = downloads[i + 1]
<1>1. Len(downloads) \in Nat \ {0}
  BY EmptySeq
<1> QED
  BY <1>1, ElementOfSeq, HeadTailProperties DEF Top

\* A new call on top of others.
LEMMA PushedCalls ==
  ASSUME NEW call \in Download, NEW calls \in Seq(Download)
  PROVE  /\ <<call>> \o calls \in Seq(Download)
         /\ Len(<<call>> \o calls) = Len(calls) + 1
         /\ (<<call>> \o calls)[1] = call
         /\ \A i \in 1 .. Len(calls) : (<<call>> \o calls)[i + 1] = calls[i]
<1>1. <<call>> \in Seq(Download) /\ Len(<<call>>) = 1 /\ <<call>>[1] = call
  OBVIOUS
<1>2. Len(calls) \in Nat
  BY LenProperties
<1> QED
  BY <1>1, <1>2, ConcatProperties

\* The call a DownloadFirmware(n) makes.
NewCall(n) == [pc |-> "transfer", name |-> n, version |-> m_firmware[n],
               linked |-> TRUE, fill |-> gui]

\* The call of downloadFirmware(n) is one of the file of n.
LEMMA NewCallType ==
  ASSUME TypeOK, NEW n \in Known
  PROVE  /\ n \in Names
         /\ m_firmware[n] \in Version
         /\ FileOf(n) \in File
         /\ NewCall(n) \in Download
         /\ FileOfCall(NewCall(n)) = FileOf(n)
BY DEF TypeOK, Known, NewCall, Download, FileOf, FileOfCall

\* A call that goes on to check its file.
LEMMA VerifyingCall ==
  ASSUME NEW call \in Download, NEW new, new = [call EXCEPT !.pc = "verify"]
  PROVE  /\ new \in Download /\ new.pc = "verify"
         /\ new.name = call.name /\ new.version = call.version
         /\ new.fill = call.fill /\ new.linked = call.linked
         /\ FileOfCall(new) = FileOfCall(call)
BY DEF Download, FileOfCall

\* The innermost call goes on to check its file, the others stay as they are.
LEMMA CheckingCalls ==
  ASSUME downloads \in Seq(Download), downloads # <<>>,
         NEW new, new = [downloads EXCEPT ![1].pc = "verify"]
  PROVE  /\ new \in Seq(Download)
         /\ Len(new) = Len(downloads)
         /\ new[1] \in Download /\ new[1].pc = "verify"
         /\ new[1].name = Top.name /\ new[1].version = Top.version
         /\ new[1].fill = Top.fill /\ new[1].linked = Top.linked
         /\ FileOfCall(new[1]) = TopFile
         /\ \A j \in 1 .. Len(downloads) : j # 1 => new[j] = downloads[j]
<1> DEFINE d == [Top EXCEPT !.pc = "verify"]
<1>1. Top \in Download /\ 1 \in 1 .. Len(downloads)
  BY PoppedCalls
<1>2. /\ d \in Download /\ d.pc = "verify"
      /\ d.name = Top.name /\ d.version = Top.version
      /\ d.fill = Top.fill /\ d.linked = Top.linked
      /\ FileOfCall(d) = TopFile
  BY <1>1, VerifyingCall DEF TopFile
<1>3. new = [downloads EXCEPT ![1] = d]
  BY DEF Top
<1> HIDE DEF d
<1>4. /\ new \in Seq(Download)
      /\ Len(new) = Len(downloads)
      /\ \A j \in 1 .. Len(downloads) : new[j] = IF j = 1 THEN d ELSE downloads[j]
  BY <1>1, <1>2, <1>3, ExceptSeq
<1> QED
  BY <1>1, <1>2, <1>4

\* Files of calls are files.
LEMMA CallFile ==
  ASSUME NEW call \in Download
  PROVE  FileOfCall(call) \in File
BY DEF Download, FileOfCall

\* Without its event loop usbprog has no call within a call.
LEMMA ReadyCli ==
  ASSUME ~gui, Ready
  PROVE  downloads = <<>>
BY DEF Ready

-----------------------------------------------------------------------------
(* Types and the stack                                                     *)

\* Down empties the memory.
LEMMA DownType ==
  ASSUME Down
  PROVE  /\ m_firmware' \in [Names -> 0 .. MaxVersion]
         /\ data' \in [Names -> {NoFile}]
         /\ pc' = "down" /\ downloads' = <<>>
BY DEF Down, None

\* Any removal leaves a cache behind.
LEMMA RemovedType ==
  ASSUME TypeOK, NEW files
  PROVE  Removed(files) \in [File -> Content \cup {NoFile}]
BY DEF TypeOK, Removed

\* What a step does to the stack: nothing, a removal of files, a new call, the end of
\* a transfer, a return, or the end of the program.
CallsStep ==
  \/ downloads' = <<>>
  \/ /\ UNCHANGED gui
     /\ \/ downloads' = downloads /\ UNCHANGED <<pc, m_firmware>>
        \/ \E files : downloads' = Unlinked(downloads, files) /\ UNCHANGED <<pc, m_firmware>>
        \/ \E n \in Known : \E files :
             /\ downloads' = <<NewCall(n)>> \o Unlinked(downloads, files)
             /\ Ready /\ Len(downloads) < MaxDepth
             /\ UNCHANGED <<pc, m_firmware>>
        \/ /\ downloads # <<>>
           /\ \/ downloads' = [downloads EXCEPT ![1].pc = "verify"]
              \/ downloads' = Tail(downloads)
              \/ \E files : downloads' = Unlinked(Tail(downloads), files)
           /\ UNCHANGED <<pc, m_firmware>>

\* No step does anything else to the stack.
LEMMA StepIsCallsStep ==
  ASSUME TypeOK, CallsInv, [Next]_vars
  PROVE  CallsStep
<1> USE DEF CallsStep
<1> SUFFICES ASSUME UNCHANGED gui, ProgramStep \/ UNCHANGED vars PROVE CallsStep
  <2>1. CASE OtherProgram
    BY <2>1 DEF OtherProgram, CallsInv
  <2> QED
    BY <2>1 DEF Next, vars
<1>1. CASE IndexStep
  <2>1. downloads = <<>>
    BY <1>1 DEF CallsInv, IndexStep, SkipDownloadIndex, DownloadIndex, IndexArrives,
                IndexFails, RenameIndex, ReadIndex
  <2> QED
    BY <1>1, <2>1 DEF IndexStep, SkipDownloadIndex, DownloadIndex, IndexArrives,
                      IndexFails, RenameIndex, ReadIndex
<1>2. ASSUME NEW n \in Names,
             GuiFill(n) \/ UploadFill(n) \/ DownloadPresent(n) \/ DownloadCannotOpen(n)
      PROVE  CallsStep
  BY <1>2 DEF GuiFill, UploadFill, DownloadPresent, DownloadCannotOpen, Down, memory
<1>3. ASSUME NEW n \in Names, DownloadFirmware(n)
      PROVE  CallsStep
  <2>1. n \in Known /\ Ready
    BY <1>3 DEF DownloadFirmware, ToDownload
  <2>2. downloads' = <<NewCall(n)>> \o Unlinked(downloads, {FileOf(n)})
    BY <1>3 DEF DownloadFirmware, NewCall
  <2> QED
    BY <1>3, <2>1, <2>2 DEF DownloadFirmware, memory
<1>4. CASE DownloadStep
  <2>1. CASE Arrives
    BY <2>1 DEF Arrives, memory
  <2>2. CASE TransferFails
    BY <2>2 DEF TransferFails, memory
  <2>3. CASE VerifyOk
    BY <2>3 DEF VerifyOk
  <2>4. CASE VerifyBad
    BY <2>4 DEF VerifyBad, memory
  <2>5. CASE VerifyGone
    BY <2>5 DEF VerifyGone, Down, memory
  <2> QED
    BY <1>4, <2>1, <2>2, <2>3, <2>4, <2>5 DEF DownloadStep
<1>5. CASE DeleteCache \/ CleanCache
  BY <1>5 DEF DeleteCache, CleanCache, memory
<1>6. ASSUME NEW n \in Names, ServerUpdate(n)
      PROVE  CallsStep
  BY <1>6 DEF ServerUpdate, memory
<1>7. CASE Quit \/ Crash
  BY <1>7 DEF Quit, Crash, Down
<1>8. CASE UNCHANGED vars
  BY <1>8 DEF vars, memory
<1> QED
  BY <1>1, <1>2, <1>3, <1>4, <1>5, <1>6, <1>7, <1>8 DEF ProgramStep

\* The stack keeps its type, its bound and what CallsInv says of each call.
StackOK(calls) ==
  /\ calls \in Seq(Download)
  /\ Len(calls) <= (IF gui THEN MaxDepth ELSE 1)
  /\ \A i \in 1 .. Len(calls) :
       /\ calls[i].version = m_firmware[calls[i].name]
       /\ calls[i].fill = gui
       /\ i > 1 => calls[i].pc = "transfer"

\* This keeps StackOK.
LEMMA StackStep ==
  ASSUME TypeOK, CallsInv, CallsStep
  PROVE  StackOK(downloads)'
<1> USE DEF TypeOK
<1>1. StackOK(downloads) /\ Len(downloads) \in Nat
  BY LenProperties DEF StackOK, CallsInv
<1>2. ASSUME NEW calls \in Seq(Download), StackOK(calls), NEW files
      PROVE  StackOK(Unlinked(calls, files))
  <2> DEFINE new == Unlinked(calls, files)
  <2>1. new \in Seq(Download) /\ Len(new) = Len(calls)
    BY UnlinkedCalls
  <2>2. ASSUME NEW i \in 1 .. Len(calls)
        PROVE  /\ new[i].pc = calls[i].pc /\ new[i].name = calls[i].name
               /\ new[i].version = calls[i].version /\ new[i].fill = calls[i].fill
    BY UnlinkedCall
  <2> HIDE DEF new
  <2>3. StackOK(new)
    BY <1>2, <2>1, <2>2 DEF StackOK
  <2> QED
    BY <2>3 DEF new
<1>3. ASSUME downloads # <<>>
      PROVE  StackOK(Tail(downloads))
  BY <1>1, <1>3, PoppedCalls DEF StackOK
<1>4. StackOK(<<>>)
  BY EmptySeq DEF StackOK
<1>5. ASSUME downloads # <<>>
      PROVE  StackOK([downloads EXCEPT ![1].pc = "verify"])
  <2> DEFINE new == [downloads EXCEPT ![1].pc = "verify"]
  <2>1. /\ new \in Seq(Download) /\ Len(new) = Len(downloads)
        /\ new[1].name = downloads[1].name /\ new[1].version = downloads[1].version
        /\ new[1].fill = downloads[1].fill
        /\ \A j \in 1 .. Len(downloads) : j # 1 => new[j] = downloads[j]
    BY <1>5, CheckingCalls DEF Top
  <2> HIDE DEF new
  <2>2. StackOK(new)
    BY <1>1, <2>1 DEF StackOK
  <2> QED
    BY <2>2 DEF new
<1>6. ASSUME NEW n \in Known, NEW files, Ready, Len(downloads) < MaxDepth
      PROVE  StackOK(<<NewCall(n)>> \o Unlinked(downloads, files))
  <2> DEFINE rest == Unlinked(downloads, files)
             all == <<NewCall(n)>> \o rest
  <2>1. StackOK(rest) /\ rest \in Seq(Download) /\ Len(rest) = Len(downloads)
    BY <1>1, <1>2, UnlinkedCalls
  <2>2. /\ NewCall(n) \in Download /\ NewCall(n).pc = "transfer" /\ NewCall(n).fill = gui
        /\ NewCall(n).version = m_firmware[NewCall(n).name]
    BY NewCallType DEF NewCall
  <2>3. /\ all \in Seq(Download) /\ Len(all) = Len(rest) + 1
        /\ all[1] = NewCall(n)
        /\ \A i \in 1 .. Len(rest) : all[i + 1] = rest[i]
    BY <2>1, <2>2, PushedCalls
  <2>4. \A i \in 1 .. Len(rest) : rest[i].pc = "transfer"
    <3>1. CASE gui
      <4>1. SUFFICES ASSUME NEW i \in 1 .. Len(rest) PROVE rest[i].pc = "transfer"
        OBVIOUS
      <4>2. downloads # <<>> /\ Top.pc = "transfer"
        BY <1>6, <2>1, <4>1, EmptySeq DEF Ready
      <4>3. rest[i].pc = downloads[i].pc
        BY <2>1, <4>1, UnlinkedCall
      <4> QED
        BY <1>1, <2>1, <4>1, <4>2, <4>3 DEF StackOK, Top
    <3>2. CASE ~gui
      BY <1>6, <2>1, <3>2, ReadyCli, EmptySeq
    <3> QED
      BY <3>1, <3>2
  <2>5. Len(all) <= (IF gui THEN MaxDepth ELSE 1)
    BY <1>1, <1>6, <2>1, <2>3, ReadyCli, EmptySeq
  <2> HIDE DEF all, rest
  <2>6. ASSUME NEW i \in 1 .. Len(all)
        PROVE  /\ all[i].version = m_firmware[all[i].name]
               /\ all[i].fill = gui
               /\ i > 1 => all[i].pc = "transfer"
    <3>1. CASE i = 1
      BY <2>2, <2>3, <3>1
    <3>2. CASE i # 1
      <4>1. i - 1 \in 1 .. Len(rest) /\ all[i] = rest[i - 1]
        BY <1>1, <2>1, <2>3, <2>6, <3>2
      <4> QED
        BY <2>1, <2>4, <4>1 DEF StackOK
    <3> QED
      BY <3>1, <3>2
  <2>7. StackOK(all)
    BY <2>3, <2>5, <2>6 DEF StackOK
  <2> QED
    BY <2>7 DEF all, rest
<1>7. \/ downloads' = <<>>
      \/ StackOK(downloads') /\ UNCHANGED <<gui, m_firmware>>
  <2>1. ASSUME downloads # <<>>, NEW files
        PROVE  StackOK(Unlinked(Tail(downloads), files))
    BY <1>2, <1>3, <2>1, PoppedCalls
  <2>2. CASE downloads' = downloads /\ UNCHANGED <<gui, m_firmware>>
    BY <1>1, <2>2
  <2>3. ASSUME NEW files, downloads' = Unlinked(downloads, files), UNCHANGED m_firmware
        PROVE  StackOK(downloads')
    BY <1>1, <1>2, <2>3
  <2>4. ASSUME NEW n \in Known, NEW files, Ready, Len(downloads) < MaxDepth,
               downloads' = <<NewCall(n)>> \o Unlinked(downloads, files)
        PROVE  StackOK(downloads')
    BY <1>6, <2>4
  <2>5. CASE /\ downloads # <<>>
             /\ downloads' = [downloads EXCEPT ![1].pc = "verify"]
             /\ UNCHANGED <<gui, m_firmware>>
    BY <1>5, <2>5
  <2>6. CASE downloads # <<>> /\ downloads' = Tail(downloads) /\ UNCHANGED <<gui, m_firmware>>
    BY <1>3, <2>6
  <2>7. ASSUME downloads # <<>>, NEW files, downloads' = Unlinked(Tail(downloads), files)
        PROVE  StackOK(downloads')
    BY <2>1, <2>7
  <2> QED
    BY <2>2, <2>3, <2>4, <2>5, <2>6, <2>7 DEF CallsStep
<1>8. CASE downloads' = <<>>
  BY <1>8, EmptySeq DEF StackOK
<1>9. CASE StackOK(downloads') /\ UNCHANGED <<gui, m_firmware>>
  BY <1>9 DEF StackOK
<1> QED
  BY <1>7, <1>8, <1>9

-----------------------------------------------------------------------------
(* Type correctness                                                        *)

\* The types hold at the start.
LEMMA TypeInit ==
  Init => TypeOK
<1>1. <<>> \in Seq(Download) /\ Len(<<>>) = 0
  BY EmptySeq
<1>2. None \in [Names -> 0 .. MaxVersion] /\ NoIndex \in IndexFile
  BY DEF None, NoIndex, IndexFile
<1> SUFFICES ASSUME Init PROVE TypeOK
  OBVIOUS
<1>3. 0 <= (IF gui THEN MaxDepth ELSE 1)
  OBVIOUS
<1>4. downloads \in Seq(Download) /\ Len(downloads) <= (IF gui THEN MaxDepth ELSE 1)
  BY <1>1, <1>3 DEF Init
<1>5. /\ server \in [Names -> Version]
      /\ cache \in [File -> Content \cup {NoFile}]
      /\ data \in [Names -> Content \cup {NoFile}]
  BY DEF Init
<1>6. pc \in Pc /\ returned \in Names \cup {NoName, AllNames} /\ killed \in BOOLEAN
  BY DEF Init, Pc
<1> QED
  BY <1>2, <1>4, <1>5, <1>6 DEF Init, TypeOK

\* The call that is innermost names a firmware, and its file is one of the cache.
LEMMA TopType ==
  ASSUME TypeOK, downloads # <<>>
  PROVE  /\ Top.name \in Names /\ Top.version \in Version
         /\ TopFile = <<Top.name, Top.version>> /\ TopFile \in File
<1>1. Top \in Download
  BY PoppedCalls DEF TypeOK
<1> QED
  BY <1>1 DEF Download, TopFile, FileOfCall

\* Everything but the stack.
RestOK ==
  /\ gui \in BOOLEAN
  /\ server \in [Names -> Version]
  /\ index \in IndexFile /\ newIndex \in IndexFile
  /\ cache \in [File -> Content \cup {NoFile}]
  /\ m_firmware \in [Names -> 0 .. MaxVersion]
  /\ data \in [Names -> Content \cup {NoFile}]
  /\ pc \in Pc
  /\ returned \in Names \cup {NoName, AllNames}
  /\ killed \in BOOLEAN

\* A step keeps the types of everything but the stack.
LEMMA RestStep ==
  ASSUME TypeOK, CallsInv, [Next]_vars
  PROVE  RestOK'
<1> USE DEF RestOK
<1>0. RestOK
  BY DEF TypeOK
<1> SUFFICES ASSUME UNCHANGED gui, ProgramStep \/ UNCHANGED vars PROVE RestOK'
  <2>1. CASE OtherProgram
    BY <1>0, <2>1 DEF OtherProgram, disk, memory
  <2> QED
    BY <2>1 DEF Next, vars
<1>1. CASE IndexStep
  BY <1>0, <1>1
     DEF IndexStep, SkipDownloadIndex, DownloadIndex, IndexArrives, IndexFails, RenameIndex,
         ReadIndex, disk, memory, IndexFile, PartialIndex, NoIndex, None, Pc
<1>2. ASSUME NEW n \in Names,
             GuiFill(n) \/ UploadFill(n) \/ DownloadPresent(n)
      PROVE  RestOK'
  <2>1. n \in Known
    BY <1>2 DEF GuiFill, UploadFill, DownloadPresent, IsFirmwareOnDisk
  <2>2. FileOf(n) \in File
    BY <2>1, NewCallType
  <2>3. Filled(n) \in [Names -> Content \cup {NoFile}]
    BY <1>0, <2>2 DEF Filled
  <2> QED
    BY <1>0, <1>2, <2>3 DEF GuiFill, UploadFill, DownloadPresent, disk, memory
<1>3. ASSUME NEW n \in Names, DownloadFirmware(n)
      PROVE  RestOK'
  BY <1>0, <1>3 DEF DownloadFirmware, memory
<1>4. ASSUME NEW n \in Names, DownloadCannotOpen(n)
      PROVE  RestOK'
  <2>1. cache' \in [File -> Content \cup {NoFile}]
    BY <1>4, RemovedType DEF DownloadCannotOpen
  <2>2. \/ Down
        \/ UNCHANGED <<m_firmware, data, pc>>
    BY <1>4 DEF DownloadCannotOpen, memory
  <2>3. /\ m_firmware' \in [Names -> 0 .. MaxVersion]
        /\ data' \in [Names -> Content \cup {NoFile}]
        /\ pc' \in Pc
    BY <1>0, <2>2, DownType DEF Pc
  <2> QED
    BY <1>0, <1>4, <2>1, <2>3 DEF DownloadCannotOpen
<1>5. CASE Arrives
  <2>1. Top.name \in Names
    BY <1>5, TopType DEF Arrives
  <2> QED
    BY <1>0, <1>5, <2>1 DEF Arrives, memory
<1>6. CASE TransferFails \/ VerifyBad
  <2>1. cache' \in [File -> Content \cup {NoFile}]
    BY <1>6, RemovedType DEF TransferFails, VerifyBad
  <2> QED
    BY <1>0, <1>6, <2>1 DEF TransferFails, VerifyBad, memory
<1>7. CASE VerifyOk
  <2>1. Top.name \in Names /\ TopFile \in File
    BY <1>7, TopType DEF VerifyOk
  <2>2. data' \in [Names -> Content \cup {NoFile}]
    BY <1>0, <1>7, <2>1 DEF VerifyOk
  <2> QED
    BY <1>0, <1>7, <2>1, <2>2 DEF VerifyOk, disk
<1>8. CASE VerifyGone
  <2>1. \/ Down
        \/ UNCHANGED <<m_firmware, data, pc>>
    BY <1>8 DEF VerifyGone, memory
  <2>2. /\ m_firmware' \in [Names -> 0 .. MaxVersion]
        /\ data' \in [Names -> Content \cup {NoFile}]
        /\ pc' \in Pc
    BY <1>0, <2>1, DownType DEF Pc
  <2> QED
    BY <1>0, <1>8, <2>2 DEF VerifyGone, disk
<1>9. CASE DeleteCache \/ CleanCache
  <2>1. cache' \in [File -> Content \cup {NoFile}]
    BY <1>9, RemovedType DEF DeleteCache, CleanCache
  <2>2. newIndex' \in IndexFile
    BY <1>0, <1>9 DEF DeleteCache, CleanCache, NoIndex, None, IndexFile
  <2> QED
    BY <1>0, <1>9, <2>1, <2>2 DEF DeleteCache, CleanCache, memory
<1>10. ASSUME NEW n \in Names, ServerUpdate(n)
       PROVE  RestOK'
  BY <1>0, <1>10 DEF ServerUpdate, disk, memory
<1>11. CASE Quit \/ Crash
  <2>1. /\ m_firmware' \in [Names -> 0 .. MaxVersion]
        /\ data' \in [Names -> Content \cup {NoFile}]
        /\ pc' \in Pc
    BY <1>11, DownType DEF Quit, Crash, Pc
  <2> QED
    BY <1>0, <1>11, <2>1 DEF Quit, Crash, disk
<1>12. CASE UNCHANGED vars
  BY <1>0, <1>12 DEF vars, disk, memory
<1> QED
  BY <1>1, <1>2, <1>3, <1>4, <1>5, <1>6, <1>7, <1>8, <1>9, <1>10, <1>11, <1>12
     DEF ProgramStep, DownloadStep

\* Where there are downloads the program is up.
LEMMA UpStep ==
  ASSUME TypeOK, CallsInv, [Next]_vars
  PROVE  (downloads # <<>> => pc = "up")'
<1>1. CallsStep
  BY StepIsCallsStep
<1>2. CASE downloads = <<>> /\ downloads' # <<>>
  <2>1. Ready /\ UNCHANGED pc
    <3>1. Len(<<>>) = 0
      BY EmptySeq
    <3>2. \A files : Unlinked(downloads, files) = <<>>
      <4>1. SUFFICES ASSUME NEW files PROVE Unlinked(downloads, files) = <<>>
        OBVIOUS
      <4>2. Unlinked(downloads, files) \in Seq(Download) /\ Len(Unlinked(downloads, files)) = 0
        BY <1>2, <3>1, UnlinkedCalls, EmptySeq
      <4> QED
        BY <4>2, EmptySeq
    <3> QED
      BY <1>1, <1>2, <3>2 DEF CallsStep
  <2> QED
    BY <2>1 DEF Ready
<1>3. CASE downloads # <<>> /\ downloads' # <<>>
  BY <1>1, <1>3 DEF CallsStep, CallsInv
<1> QED
  BY <1>2, <1>3

\* A step keeps the types and CallsInv, which go together.
LEMMA TypeStep ==
  TypeOK /\ CallsInv /\ [Next]_vars => TypeOK' /\ CallsInv'
<1> SUFFICES ASSUME TypeOK, CallsInv, [Next]_vars PROVE TypeOK' /\ CallsInv'
  OBVIOUS
<1>1. StackOK(downloads)'
  BY StepIsCallsStep, StackStep
<1> QED
  BY <1>1, RestStep, UpStep DEF TypeOK, CallsInv, RestOK, StackOK

\* In every state of the pool the variables have their types, and the downloads that
\* are under way are those of downloadFirmware() calls within each other.
THEOREM TypeCorrect ==
  Spec => []TypeOK
<1>1. Init => TypeOK /\ CallsInv
  <2>1. Len(<<>>) = 0
    BY EmptySeq
  <2> QED
    BY <2>1, TypeInit DEF Init, CallsInv
<1> QED
  BY <1>1, TypeStep, PTL DEF Spec

-----------------------------------------------------------------------------
(* The index and the memory                                                *)

\* Calls of the pool come when the program is up.
LEMMA UpOrDown ==
  ASSUME CallsInv, [Next]_vars
  PROVE  \/ IndexStep
         \/ pc = "up" /\ pc' = "up" /\ UNCHANGED <<m_firmware, index>>
         \/ Down /\ UNCHANGED index
         \/ UNCHANGED <<pc, m_firmware, data, index, newIndex>>
<1>1. ASSUME NEW n \in Names,
             GuiFill(n) \/ UploadFill(n) \/ DownloadPresent(n) \/ DownloadFirmware(n)
      PROVE  pc = "up" /\ pc' = "up" /\ UNCHANGED <<m_firmware, index>>
  BY <1>1 DEF GuiFill, UploadFill, DownloadPresent, DownloadFirmware, ToDownload, Ready,
              disk, memory
<1>2. ASSUME NEW n \in Names, DownloadCannotOpen(n)
      PROVE  \/ pc = "up" /\ pc' = "up" /\ UNCHANGED <<m_firmware, index>>
             \/ Down /\ UNCHANGED index
  BY <1>2 DEF DownloadCannotOpen, ToDownload, Ready, memory
<1>3. CASE DownloadStep
  BY <1>3 DEF DownloadStep, Arrives, TransferFails, VerifyOk, VerifyBad, VerifyGone,
              CallsInv, disk, memory
<1>4. CASE DeleteCache \/ CleanCache
  BY <1>4 DEF DeleteCache, CleanCache, Ready, memory
<1>5. CASE Quit \/ Crash
  BY <1>5 DEF Quit, Crash, disk
<1>6. ASSUME NEW n \in Names, ServerUpdate(n)
      PROVE  UNCHANGED <<pc, m_firmware, data, index, newIndex>>
  BY <1>6 DEF ServerUpdate, disk, memory
<1>7. CASE OtherProgram \/ UNCHANGED vars
  BY <1>7 DEF OtherProgram, vars, disk, memory
<1> QED
  BY <1>1, <1>2, <1>3, <1>4, <1>5, <1>6, <1>7 DEF Next, ProgramStep

\* The index is read when nothing is in memory.
LEMMA MemoryStep ==
  ASSUME CallsInv, MemoryInv, [Next]_vars
  PROVE  MemoryInv'
<1> USE DEF MemoryInv
<1>1. CASE IndexStep
  BY <1>1 DEF IndexStep, SkipDownloadIndex, DownloadIndex, IndexArrives, IndexFails,
              RenameIndex, ReadIndex, disk, memory
<1>2. CASE Down
  BY <1>2 DEF Down
<1>3. CASE pc = "up" /\ pc' = "up"
  BY <1>3
<1>4. CASE UNCHANGED <<pc, data>>
  BY <1>4
<1> QED
  BY <1>1, <1>2, <1>3, <1>4, UpOrDown

\* What a step does to the files of the index when it is not one of the download of the index.
IndexRests ==
  /\ index' = index /\ newIndex' \in {newIndex, NoIndex}
  /\ killed => killed'
  /\ pc = "downloadIndex" => pc' = "downloadIndex" \/ killed'
  /\ \A n \in Names : server[n] <= server'[n]

\* Steps of the pool leave the index alone, and the server's versions only grow.
LEMMA IndexAlone ==
  ASSUME TypeOK, CallsInv, [Next]_vars
  PROVE  IndexStep \/ IndexRests
<1>0. \A n \in Names : server[n] \in Int
  BY DEF TypeOK, Version
<1>1. ASSUME NEW n \in Names,
             GuiFill(n) \/ UploadFill(n) \/ DownloadPresent(n) \/ DownloadFirmware(n)
      PROVE  IndexRests
  BY <1>0, <1>1 DEF IndexRests, GuiFill, UploadFill, DownloadPresent, DownloadFirmware, disk
<1>2. ASSUME NEW n \in Names, DownloadCannotOpen(n)
      PROVE  IndexRests
  BY <1>0, <1>2 DEF IndexRests, DownloadCannotOpen, ToDownload, Ready
<1>3. CASE DownloadStep
  BY <1>0, <1>3 DEF IndexRests, DownloadStep, Arrives, TransferFails, VerifyOk, VerifyBad,
                    VerifyGone, CallsInv, disk
<1>4. CASE DeleteCache \/ CleanCache
  BY <1>0, <1>4 DEF IndexRests, DeleteCache, CleanCache
<1>5. CASE Quit \/ Crash
  BY <1>0, <1>5 DEF IndexRests, Quit, Crash, disk
<1>6. ASSUME NEW n \in Names, ServerUpdate(n)
      PROVE  IndexRests
  <2>1. \A m \in Names : server'[m] = IF m = n THEN server[m] + 1 ELSE server[m]
    BY <1>6 DEF ServerUpdate, TypeOK
  <2>2. \A m \in Names : server[m] <= server'[m]
    BY <1>0, <2>1
  <2> QED
    BY <1>6, <2>2 DEF IndexRests, ServerUpdate, disk
<1>7. CASE OtherProgram \/ UNCHANGED vars
  BY <1>0, <1>7 DEF IndexRests, OtherProgram, vars, disk
<1> QED
  BY <1>1, <1>2, <1>3, <1>4, <1>5, <1>6, <1>7 DEF Next, ProgramStep

\* The steps of the download of the index, by what becomes of the two files.
LEMMA IndexStepIs ==
  ASSUME IndexStep
  PROVE  /\ UNCHANGED <<server, killed>>
         /\ \/ UNCHANGED <<index, newIndex>> /\ pc # "downloadIndex"
            \/ index' = index /\ newIndex' = PartialIndex /\ pc' = "downloadIndex"
            \/ index' = index /\ newIndex' = [state |-> "whole", versions |-> server]
            \/ index' = index /\ newIndex' = NoIndex
            \/ /\ pc = "rename" /\ newIndex.state # "none"
               /\ index' = newIndex /\ newIndex' = NoIndex
  BY DEF IndexStep, SkipDownloadIndex, DownloadIndex, IndexArrives, IndexFails, RenameIndex,
         ReadIndex, disk

\* Where a part of an index comes from, and that what waits to be the index is not older.
LEMMA IndexInvStep ==
  ASSUME TypeOK, CallsInv, IndexInv, [Next]_vars
  PROVE  IndexInv'
<1> USE DEF IndexInv, NotOlder
<1>0. \A n \in Names : /\ server[n] \in Int /\ server'[n] \in Int /\ 0 <= server[n]
                       /\ index.versions[n] \in Int /\ newIndex.versions[n] \in Int
  <2>1. TypeOK'
    BY TypeStep
  <2>2. /\ server \in [Names -> Version] /\ server' \in [Names -> Version]
        /\ index.versions \in [Names -> 0 .. MaxVersion]
        /\ newIndex.versions \in [Names -> 0 .. MaxVersion]
    BY <2>1 DEF TypeOK, IndexFile
  <2> QED
    BY <2>2, FirmwarepoolAssumption DEF Version
<1>1. NoIndex.state = "none" /\ \A n \in Names : NoIndex.versions[n] = 0
  BY DEF NoIndex, None
<1>2. PartialIndex.state = "partial" /\ \A n \in Names : PartialIndex.versions[n] = 0
  BY DEF PartialIndex, None
<1>3. CASE IndexStep
  <2>0. server' = server /\ killed' = killed
    BY <1>3, IndexStepIs
  <2>1. CASE UNCHANGED <<index, newIndex>> /\ pc # "downloadIndex"
    BY <2>0, <2>1
  <2>2. CASE index' = index /\ newIndex' = PartialIndex /\ pc' = "downloadIndex"
    BY <1>0, <1>2, <2>0, <2>2
  <2>3. CASE index' = index /\ newIndex' = [state |-> "whole", versions |-> server]
    <3>1. newIndex'.state = "whole" /\ newIndex'.versions = server
      BY <2>3
    <3> QED
      BY <1>0, <2>0, <2>3, <3>1
  <2>4. CASE index' = index /\ newIndex' = NoIndex
    BY <1>0, <1>1, <2>0, <2>4
  <2>5. CASE index' = newIndex /\ newIndex' = NoIndex
    BY <1>0, <1>1, <2>0, <2>5
  <2> QED
    BY <1>3, <2>1, <2>2, <2>3, <2>4, <2>5, IndexStepIs
<1>4. CASE IndexRests
  <2>1. index' = index /\ (killed => killed')
        /\ (pc = "downloadIndex" => pc' = "downloadIndex" \/ killed')
    BY <1>4 DEF IndexRests
  <2>2. \A n \in Names : server[n] <= server'[n]
    BY <1>4 DEF IndexRests
  <2>3. CASE newIndex' = newIndex
    BY <1>0, <2>1, <2>2, <2>3
  <2>4. CASE newIndex' = NoIndex
    BY <1>0, <1>1, <2>1, <2>2, <2>4
  <2> QED
    BY <1>4, <2>3, <2>4 DEF IndexRests
<1> QED
  BY <1>3, <1>4, IndexAlone

\* The index stays, or a newer one comes, or the part that a killed program has left.
LEMMA IndexKeptStep ==
  ASSUME TypeOK, CallsInv, IndexInv, [Next]_vars, index.state = "whole"
  PROVE  \/ index'.state = "whole" /\ NotOlder(index', index)
         \/ /\ killed /\ pc = "rename" /\ newIndex.state = "partial"
            /\ index' = newIndex
<1>1. \A n \in Names : index.versions[n] \in Int
  <2>1. index.versions \in [Names -> 0 .. MaxVersion]
    BY DEF TypeOK, IndexFile
  <2> QED
    BY <2>1
<1>2. CASE index' = index
  BY <1>1, <1>2 DEF NotOlder
<1>3. CASE pc = "rename" /\ newIndex.state # "none" /\ index' = newIndex
  <2>1. newIndex.state \in {"partial", "whole"}
    BY <1>3 DEF TypeOK, IndexFile
  <2> QED
    BY <1>3, <2>1 DEF IndexInv, NotOlder
<1> QED
  BY <1>2, <1>3, IndexAlone, IndexStepIs DEF IndexRests

-----------------------------------------------------------------------------
(* Parts of binaries                                                       *)

\* Somebody is writing the file f.
Held(calls, f) ==
  \E i \in 1 .. Len(calls) :
    FileOfCall(calls[i]) = f /\ calls[i].linked /\ calls[i].pc = "transfer"

\* A removal of other files leaves f with the one who writes it.
LEMMA HeldUnlinked ==
  ASSUME NEW calls \in Seq(Download), NEW files, NEW f, f \notin files, Held(calls, f)
  PROVE  Held(Unlinked(calls, files), f)
<1>1. PICK i \in 1 .. Len(calls) :
         FileOfCall(calls[i]) = f /\ calls[i].linked /\ calls[i].pc = "transfer"
  BY DEF Held
<1>2. Unlinked(calls, files)[i] = calls[i]
  BY <1>1, UnlinkedCall
<1>3. Len(Unlinked(calls, files)) = Len(calls)
  BY UnlinkedCalls
<1> QED
  BY <1>1, <1>2, <1>3 DEF Held

\* Whatever becomes of the innermost call, the files of the others are held by them.
LEMMA HeldBelow ==
  ASSUME downloads \in Seq(Download), downloads # <<>>, NEW f, Held(downloads, f),
         ~Top.linked \/ Top.pc # "transfer" \/ TopFile # f
  PROVE  /\ Held(Tail(downloads), f)
         /\ Held([downloads EXCEPT ![1].pc = "verify"], f)
<1>1. PICK i \in 1 .. Len(downloads) :
        /\ FileOfCall(downloads[i]) = f
        /\ downloads[i].linked /\ downloads[i].pc = "transfer"
  BY DEF Held
<1>2. i # 1
  BY <1>1 DEF Top, TopFile
<1>3. Held(Tail(downloads), f)
  <2>1. i - 1 \in 1 .. Len(Tail(downloads)) /\ Tail(downloads)[i - 1] = downloads[i]
    BY <1>2, PoppedCalls
  <2> QED
    BY <1>1, <2>1 DEF Held
<1>4. Held([downloads EXCEPT ![1].pc = "verify"], f)
  <2> DEFINE new == [downloads EXCEPT ![1].pc = "verify"]
  <2>1. Len(new) = Len(downloads) /\ new[i] = downloads[i]
    BY <1>2, CheckingCalls
  <2> HIDE DEF new
  <2>2. Held(new, f)
    BY <1>1, <2>1 DEF Held
  <2> QED
    BY <2>2 DEF new
<1> QED
  BY <1>3, <1>4

\* So does a new call, which writes its own file.
LEMMA HeldPushed ==
  ASSUME TypeOK, NEW n \in Known, NEW calls \in Seq(Download), NEW f,
         f = FileOf(n) \/ Held(calls, f)
  PROVE  Held(<<NewCall(n)>> \o calls, f)
<1> DEFINE all == <<NewCall(n)>> \o calls
<1>1. /\ Len(all) = Len(calls) + 1 /\ Len(calls) \in Nat
      /\ all[1] = NewCall(n)
      /\ \A i \in 1 .. Len(calls) : all[i + 1] = calls[i]
  BY NewCallType, PushedCalls, LenProperties
<1> HIDE DEF all
<1>2. CASE f = FileOf(n)
  <2>1. FileOfCall(all[1]) = f /\ all[1].linked /\ all[1].pc = "transfer"
    BY <1>1, <1>2, NewCallType DEF NewCall
  <2>2. 1 \in 1 .. Len(all)
    BY <1>1
  <2> QED
    BY <2>1, <2>2 DEF Held, all
<1>3. CASE Held(calls, f)
  <2>1. PICK i \in 1 .. Len(calls) :
          FileOfCall(calls[i]) = f /\ calls[i].linked /\ calls[i].pc = "transfer"
    BY <1>3 DEF Held
  <2>2. i + 1 \in 1 .. Len(all) /\ all[i + 1] = calls[i]
    BY <1>1
  <2> QED
    BY <2>1, <2>2 DEF Held, all
<1> QED
  BY <1>2, <1>3

\* A step leaves no part of a binary to nobody.
LEMMA PartialStep ==
  ASSUME TypeOK, CallsInv, PartialOnlyIfKilled, [Next]_vars
  PROVE  PartialOnlyIfKilled'
<1>1. SUFFICES ASSUME NEW f \in File, cache'[f] = Partial, ~killed'
               PROVE  Held(downloads', f)
  BY DEF PartialOnlyIfKilled, Held
<1>2. downloads \in Seq(Download)
  BY DEF TypeOK
<1>3. ASSUME ~killed, cache[f] = Partial
      PROVE  Held(downloads, f)
  BY <1>3 DEF PartialOnlyIfKilled, Held
<1>4. CASE IndexStep \/ OtherProgram \/ UNCHANGED vars
  <2>1. UNCHANGED <<cache, downloads, killed>>
    BY <1>4 DEF IndexStep, SkipDownloadIndex, DownloadIndex, IndexArrives,
                IndexFails, RenameIndex, ReadIndex, OtherProgram, vars, disk
  <2> QED
    BY <1>1, <1>3, <2>1
<1>5. ASSUME NEW n \in Names,
             GuiFill(n) \/ UploadFill(n) \/ DownloadPresent(n) \/ ServerUpdate(n)
      PROVE  Held(downloads', f)
  <2>1. UNCHANGED <<cache, downloads, killed>>
    BY <1>5 DEF GuiFill, UploadFill, DownloadPresent, ServerUpdate, disk
  <2> QED
    BY <1>1, <1>3, <2>1
<1>6. ASSUME NEW n \in Names, DownloadFirmware(n)
      PROVE  Held(downloads', f)
  <2> DEFINE rest == Unlinked(downloads, {FileOf(n)})
  <2>1. n \in Known /\ UNCHANGED killed
    BY <1>6 DEF DownloadFirmware, ToDownload
  <2>2. downloads' = <<NewCall(n)>> \o rest
    BY <1>6 DEF DownloadFirmware, NewCall
  <2>3. f # FileOf(n) => cache[f] = Partial
    BY <1>1, <1>6 DEF DownloadFirmware, TypeOK
  <2>4. f # FileOf(n) => Held(rest, f)
    BY <1>1, <1>2, <1>3, <2>1, <2>3, HeldUnlinked
  <2>5. rest \in Seq(Download)
    BY <1>2, UnlinkedCalls
  <2> HIDE DEF rest
  <2> QED
    BY <2>1, <2>2, <2>4, <2>5, HeldPushed
<1>7. ASSUME NEW n \in Names, DownloadCannotOpen(n)
      PROVE  Held(downloads', f)
  BY <1>1, <1>3, <1>7 DEF DownloadCannotOpen, Removed
<1>8. CASE Arrives
  <2>1. cache[f] = Partial /\ (~Top.linked \/ TopFile # f)
    <3>1. Top.linked => TopFile # f
      <4>1. SUFFICES ASSUME Top.linked, TopFile = f PROVE FALSE
        OBVIOUS
      <4>2. cache'[f] = server[Top.name] /\ server[Top.name] \in Version
        BY <1>1, <1>8, <4>1, TopType DEF Arrives, TypeOK
      <4> QED
        BY <1>1, <4>2
    <3> QED
      BY <1>1, <1>8, <3>1 DEF Arrives, TypeOK
  <2> QED
    BY <1>1, <1>2, <1>3, <1>8, <2>1, HeldBelow DEF Arrives
<1>9. CASE TransferFails \/ VerifyBad
  <2>1. cache[f] = Partial /\ f # TopFile
    BY <1>1, <1>9 DEF TransferFails, VerifyBad, Removed
  <2>2. Held(Tail(downloads), f) /\ Tail(downloads) \in Seq(Download)
    BY <1>1, <1>2, <1>3, <1>9, <2>1, HeldBelow, PoppedCalls DEF TransferFails, VerifyBad
  <2>3. downloads' = Unlinked(Tail(downloads), {TopFile})
    BY <1>9 DEF TransferFails, VerifyBad
  <2>4. f \notin {TopFile}
    BY <2>1
  <2> QED
    BY <2>2, <2>3, <2>4, HeldUnlinked
<1>10. CASE VerifyOk \/ VerifyGone
  <2>1. cache[f] = Partial /\ ~killed
    BY <1>1, <1>10 DEF VerifyOk, VerifyGone, disk
  <2> QED
    BY <1>1, <1>2, <1>3, <1>10, <2>1, HeldBelow DEF VerifyOk, VerifyGone
<1>11. CASE DeleteCache \/ CleanCache
  <2>1. PICK files : cache' = Removed(files) /\ downloads' = Unlinked(downloads, files)
    BY <1>11 DEF DeleteCache, CleanCache
  <2>2. cache[f] = Partial /\ f \notin files
    BY <1>1, <2>1 DEF Removed
  <2> QED
    BY <1>1, <1>2, <1>3, <1>11, <2>1, <2>2, HeldUnlinked DEF DeleteCache, CleanCache
<1>12. CASE Quit
  BY <1>1, <1>3, <1>12 DEF Quit, Down, disk
<1>13. CASE Crash
  BY <1>1, <1>13 DEF Crash
<1> QED
  BY <1>4, <1>5, <1>6, <1>7, <1>8, <1>9, <1>10, <1>11, <1>12, <1>13
     DEF Next, ProgramStep, DownloadStep

-----------------------------------------------------------------------------
(* Whole binaries                                                          *)

\* The file f has arrived and its checksum is going to be checked.
Checking(f) == downloads # <<>> /\ Top.pc = "verify" /\ TopFile = f

\* The user is not asked between the end of a transfer and its check.
LEMMA ReadyNotChecking ==
  ASSUME Ready, NEW f
  PROVE  ~Checking(f)
BY DEF Ready, Checking

\* A step leaves no wrong file without its check to come.
LEMMA CacheStep ==
  ASSUME TypeOK, CacheRight, [Next]_vars
  PROVE  CacheRight'
<1>1. SUFFICES ASSUME NEW f \in File, ~killed', f[1] \in Checked, cache'[f] \in Version
               PROVE  cache'[f] = f[2] \/ Checking(f)'
  BY DEF CacheRight, DigestOk, Checking
<1>2. ASSUME ~killed, cache[f] \in Version
      PROVE  cache[f] = f[2] \/ Checking(f)
  BY <1>1, <1>2 DEF CacheRight, DigestOk, Checking
<1>3. ASSUME ~killed, cache'[f] = cache[f], ~Checking(f)
      PROVE  cache'[f] = f[2]
  BY <1>1, <1>2, <1>3
<1>4. CASE IndexStep \/ OtherProgram \/ UNCHANGED vars
  <2>1. UNCHANGED <<cache, downloads, killed>>
    BY <1>4 DEF IndexStep, SkipDownloadIndex, DownloadIndex, IndexArrives,
                IndexFails, RenameIndex, ReadIndex, OtherProgram, vars, disk
  <2> QED
    BY <1>1, <1>2, <2>1 DEF Checking, Top, TopFile
<1>5. ASSUME NEW n \in Names,
             GuiFill(n) \/ UploadFill(n) \/ DownloadPresent(n) \/ ServerUpdate(n)
      PROVE  cache'[f] = f[2] \/ Checking(f)'
  <2>1. UNCHANGED <<cache, downloads, killed>>
    BY <1>5 DEF GuiFill, UploadFill, DownloadPresent, ServerUpdate, disk
  <2> QED
    BY <1>1, <1>2, <2>1 DEF Checking, Top, TopFile
<1>6. ASSUME NEW n \in Names, DownloadFirmware(n)
      PROVE  cache'[f] = f[2]
  <2>1. Ready /\ UNCHANGED killed
    BY <1>6 DEF DownloadFirmware, ToDownload
  <2>2. cache'[f] = cache[f]
    BY <1>1, <1>6 DEF DownloadFirmware, TypeOK
  <2> QED
    BY <1>1, <1>3, <2>1, <2>2, ReadyNotChecking
<1>7. ASSUME NEW n \in Names, DownloadCannotOpen(n)
      PROVE  cache'[f] = f[2]
  <2>1. Ready /\ ~killed
    BY <1>1, <1>7 DEF DownloadCannotOpen, ToDownload
  <2>2. cache'[f] = cache[f]
    BY <1>1, <1>7 DEF DownloadCannotOpen, Removed
  <2> QED
    BY <1>3, <2>1, <2>2, ReadyNotChecking
<1>8. CASE Arrives
  <2>1. ~Checking(f) /\ ~killed
    BY <1>1, <1>8 DEF Arrives, Checking
  <2>2. CASE TopFile = f
    <3>1. /\ Len(downloads') = Len(downloads) /\ Len(downloads) \in Nat \ {0}
          /\ downloads'[1].pc = "verify" /\ FileOfCall(downloads'[1]) = f
      BY <1>8, <2>2, CheckingCalls, PoppedCalls DEF Arrives, TypeOK
    <3>2. downloads' # <<>>
      BY <3>1, EmptySeq
    <3> QED
      BY <3>1, <3>2 DEF Checking, Top, TopFile, FileOfCall
  <2>3. CASE TopFile # f
    <3>1. cache'[f] = cache[f]
      BY <1>8, <2>3 DEF Arrives, TypeOK
    <3> QED
      BY <1>3, <2>1, <3>1
  <2> QED
    BY <2>2, <2>3
<1>9. CASE TransferFails \/ VerifyBad
  <2>1. f # TopFile /\ cache'[f] = cache[f] /\ ~killed
    BY <1>1, <1>9 DEF TransferFails, VerifyBad, Removed
  <2> QED
    BY <1>3, <2>1 DEF Checking
<1>10. CASE VerifyOk
  <2>1. cache'[f] = cache[f] /\ ~killed
    BY <1>1, <1>10 DEF VerifyOk, disk
  <2>2. CASE TopFile = f
    <3>1. Top.name = f[1]
      BY <1>10, <2>2, TopType DEF VerifyOk
    <3> QED
      BY <1>1, <1>10, <2>1, <2>2, <3>1 DEF VerifyOk, DigestOk
  <2> QED
    BY <1>3, <2>1, <2>2 DEF Checking
<1>11. CASE VerifyGone
  <2>1. cache'[f] = cache[f] /\ ~killed /\ f # TopFile
    BY <1>1, <1>11 DEF VerifyGone, disk
  <2> QED
    BY <1>3, <2>1 DEF Checking
<1>12. CASE DeleteCache \/ CleanCache
  <2>1. Ready /\ ~killed
    BY <1>1, <1>12 DEF DeleteCache, CleanCache
  <2>2. PICK files : cache' = Removed(files)
    BY <1>12 DEF DeleteCache, CleanCache
  <2>3. cache'[f] = cache[f]
    BY <1>1, <2>2 DEF Removed
  <2> QED
    BY <1>3, <2>1, <2>3, ReadyNotChecking
<1>13. CASE Quit
  <2>1. cache'[f] = cache[f] /\ ~killed /\ ~Checking(f)
    BY <1>1, <1>13 DEF Quit, disk, Checking
  <2> QED
    BY <1>3, <2>1
<1>14. CASE Crash
  BY <1>1, <1>14 DEF Crash
<1> QED
  BY <1>4, <1>5, <1>6, <1>7, <1>8, <1>9, <1>10, <1>11, <1>12, <1>13, <1>14
     DEF Next, ProgramStep, DownloadStep

\* A downloadFirmware() that returns has found the version of the index.
LEMMA VerifiedStep ==
  ASSUME TypeOK, CallsInv, DownloadVerified, [Next]_vars
  PROVE  DownloadVerified'
<1> USE DEF DownloadVerified
<1>1. NoName \notin Checked /\ AllNames \notin Checked
  OBVIOUS
<1>2. CASE OtherProgram \/ UNCHANGED vars
  BY <1>2 DEF OtherProgram, vars, disk, memory, DigestOk, FileOf
<1>3. ASSUME NEW n \in Names, DownloadPresent(n)
      PROVE  DownloadVerified'
  BY <1>3 DEF DownloadPresent, Present, DigestOk, FileOf, disk, memory
<1>4. CASE VerifyOk
  <2>1. 1 \in 1 .. Len(downloads)
    BY <1>4, PoppedCalls DEF VerifyOk, TypeOK
  <2>2. Top.version = m_firmware[Top.name]
    BY <2>1 DEF CallsInv, Top
  <2>3. TopFile = FileOf(Top.name)
    BY <2>2 DEF TopFile, FileOfCall, FileOf
  <2> QED
    BY <1>4, <2>3 DEF VerifyOk, DigestOk, FileOf, disk
<1>5. CASE IndexStep
  BY <1>1, <1>5 DEF IndexStep, SkipDownloadIndex, DownloadIndex, IndexArrives,
                    IndexFails, RenameIndex, ReadIndex
<1>6. ASSUME NEW n \in Names,
             \/ GuiFill(n) \/ UploadFill(n) \/ DownloadFirmware(n)
             \/ DownloadCannotOpen(n) \/ ServerUpdate(n)
      PROVE  DownloadVerified'
  BY <1>1, <1>6 DEF GuiFill, UploadFill, DownloadFirmware, DownloadCannotOpen, ServerUpdate
<1>7. CASE Arrives \/ TransferFails \/ VerifyBad \/ VerifyGone
  BY <1>1, <1>7 DEF Arrives, TransferFails, VerifyBad, VerifyGone
<1>8. CASE DeleteCache \/ CleanCache \/ Quit \/ Crash
  BY <1>1, <1>8 DEF DeleteCache, CleanCache, Quit, Crash
<1> QED
  BY <1>2, <1>3, <1>4, <1>5, <1>6, <1>7, <1>8 DEF Next, ProgramStep, DownloadStep

-----------------------------------------------------------------------------
(* usbprog                                                                 *)

\* What a call of the user needs to know of the stack in usbprog.
LEMMA CliStack ==
  ASSUME TypeOK, ~gui
  PROVE  /\ Len(downloads) \in 0 .. 1
         /\ downloads # <<>> => Len(downloads) = 1 /\ Len(Tail(downloads)) = 0
<1>1. Len(downloads) \in Nat /\ Len(downloads) <= 1 /\ downloads \in Seq(Download)
  BY LenProperties DEF TypeOK
<1>2. ASSUME downloads # <<>>
      PROVE  Len(downloads) \in Nat \ {0} /\ Len(Tail(downloads)) = Len(downloads) - 1
  BY <1>1, <1>2, PoppedCalls
<1> DEFINE len == Len(downloads)
           rest == Len(Tail(downloads))
<1>3. len \in Nat /\ len <= 1
  BY <1>1
<1>4. downloads # <<>> => len \in Nat \ {0} /\ rest = len - 1
  BY <1>2
<1> HIDE DEF len, rest
<1>5. len \in 0 .. 1 /\ (downloads # <<>> => len = 1 /\ rest = 0)
  BY <1>3, <1>4
<1> QED
  BY <1>5 DEF len, rest

\* Nobody but the download makes anything of its file in usbprog.
LEMMA CliStep ==
  ASSUME TypeOK, TypeOK', CallsInv, CliInv, [Next]_vars
  PROVE  CliInv'
<1> SUFFICES ASSUME UNCHANGED gui, ProgramStep \/ UNCHANGED vars PROVE CliInv'
  <2>1. CASE OtherProgram
    <3>1. downloads' = <<>>
      BY <2>1 DEF OtherProgram, CallsInv
    <3> QED
      BY <3>1, EmptySeq DEF CliInv
  <2> QED
    BY <2>1 DEF Next, vars
<1>1. SUFFICES ASSUME ~gui, NEW i \in 1 .. Len(downloads'), downloads'[i].pc = "transfer"
               PROVE  cache'[FileOfCall(downloads'[i])] = Partial
  BY DEF CliInv, FileOfCall
<1>2. i = 1 /\ Len(downloads') > 0
  <2>1. Len(downloads') \in Nat /\ Len(downloads') <= 1
    BY <1>1, LenProperties DEF TypeOK
  <2> QED
    BY <2>1
<1>3. ASSUME UNCHANGED <<cache, downloads>>
      PROVE  cache'[FileOfCall(downloads'[i])] = Partial
  BY <1>1, <1>3 DEF CliInv
<1>4. ASSUME NEW files, downloads' = Unlinked(<<>>, files) \/ downloads' = <<>>
      PROVE  FALSE
  <2>1. <<>> \in Seq(Download) /\ Len(<<>>) = 0
    BY EmptySeq
  <2>2. Len(Unlinked(<<>>, files)) = 0
    BY <2>1, UnlinkedCalls
  <2> QED
    BY <1>2, <1>4, <2>1, <2>2
<1>5. CASE IndexStep \/ UNCHANGED vars
  <2>1. UNCHANGED <<cache, downloads>>
    BY <1>5 DEF IndexStep, SkipDownloadIndex, DownloadIndex, IndexArrives,
                IndexFails, RenameIndex, ReadIndex, vars, disk
  <2> QED
    BY <1>3, <2>1
<1>6. ASSUME NEW n \in Names,
             GuiFill(n) \/ UploadFill(n) \/ DownloadPresent(n) \/ ServerUpdate(n)
      PROVE  cache'[FileOfCall(downloads'[i])] = Partial
  <2>1. UNCHANGED <<cache, downloads>>
    BY <1>6 DEF GuiFill, UploadFill, DownloadPresent, ServerUpdate, disk
  <2> QED
    BY <1>3, <2>1
<1>7. ASSUME NEW n \in Names, DownloadFirmware(n)
      PROVE  cache'[FileOfCall(downloads'[i])] = Partial
  <2> DEFINE rest == Unlinked(downloads, {FileOf(n)})
  <2>1. n \in Known /\ rest \in Seq(Download)
    BY <1>7, UnlinkedCalls DEF DownloadFirmware, ToDownload, TypeOK
  <2>2. downloads' = <<NewCall(n)>> \o rest
    BY <1>7 DEF DownloadFirmware, NewCall
  <2> HIDE DEF rest
  <2>3. downloads'[i] = NewCall(n)
    BY <1>2, <2>1, <2>2, NewCallType, PushedCalls
  <2>4. FileOfCall(downloads'[i]) = FileOf(n) /\ FileOf(n) \in File
    BY <2>1, <2>3, NewCallType
  <2> QED
    BY <1>7, <2>4 DEF DownloadFirmware, TypeOK
<1>8. ASSUME NEW n \in Names, DownloadCannotOpen(n)
      PROVE  FALSE
  <2>1. downloads' = <<>>
    BY <1>1, <1>8, ReadyCli DEF DownloadCannotOpen, ToDownload
  <2> QED
    BY <1>4, <2>1
<1>9. CASE Arrives
  <2>1. downloads'[1].pc = "verify"
    BY <1>9, CheckingCalls DEF Arrives, TypeOK
  <2> QED
    BY <1>1, <1>2, <2>1
<1>10. CASE TransferFails \/ VerifyOk \/ VerifyBad \/ VerifyGone
  <2>1. downloads # <<>>
    BY <1>10 DEF TransferFails, VerifyOk, VerifyBad, VerifyGone
  <2>2. Tail(downloads) = <<>>
    BY <1>1, <2>1, CliStack, PoppedCalls, EmptySeq DEF TypeOK
  <2>3. \/ downloads' = Tail(downloads)
        \/ downloads' = Unlinked(Tail(downloads), {TopFile})
    BY <1>1, <1>10 DEF TransferFails, VerifyOk, VerifyBad, VerifyGone
  <2> QED
    BY <1>4, <2>2, <2>3
<1>11. CASE DeleteCache \/ CleanCache
  <2>1. downloads = <<>>
    BY <1>1, <1>11, ReadyCli DEF DeleteCache, CleanCache
  <2>2. PICK files : downloads' = Unlinked(downloads, files)
    BY <1>11 DEF DeleteCache, CleanCache
  <2> QED
    BY <1>4, <2>1, <2>2
<1>12. CASE Quit \/ Crash
  BY <1>4, <1>12 DEF Quit, Crash, Down
<1> QED
  BY <1>5, <1>6, <1>7, <1>8, <1>9, <1>10, <1>11, <1>12 DEF ProgramStep, DownloadStep

\* What usbprog reads for an upload is the version of the index.
LEMMA UploadFillRight ==
  ASSUME TypeOK, CacheRight, PartialOnlyIfKilled, UploadedRight, ~killed, ~gui,
         NEW n \in Checked, NEW k \in Names, UploadFill(k)
  PROVE  data'[n] \in {NoFile, m_firmware[n]}
<1>1. downloads = <<>> /\ k \in Known /\ cache[FileOf(k)] # NoFile
  BY ReadyCli DEF UploadFill, IsFirmwareOnDisk
<1>2. CASE n # k
  BY <1>2 DEF UploadFill, Filled, UploadedRight, TypeOK
<1>3. CASE n = k
  <2>1. FileOf(n) \in File /\ FileOf(n)[1] = n /\ FileOf(n)[2] = m_firmware[n]
    BY <1>1, <1>3, NewCallType DEF FileOf
  <2>2. cache[FileOf(n)] # Partial
    BY <1>1, <2>1, EmptySeq DEF PartialOnlyIfKilled
  <2>3. cache[FileOf(n)] \in Version
    BY <1>1, <1>3, <2>1, <2>2 DEF TypeOK
  <2>4. cache[FileOf(n)] = m_firmware[n]
    BY <1>1, <2>1, <2>3 DEF CacheRight, DigestOk
  <2>5. data'[n] = cache[FileOf(n)]
    BY <1>3 DEF UploadFill, Filled, TypeOK
  <2> QED
    BY <2>4, <2>5
<1> QED
  BY <1>2, <1>3

\* What usbprog has in memory stays the version of the index.
LEMMA UploadStep ==
  ASSUME TypeOK, CallsInv, MemoryInv, CacheRight, PartialOnlyIfKilled, UploadedRight,
         [Next]_vars
  PROVE  UploadedRight'
<1> SUFFICES ASSUME UNCHANGED gui, ProgramStep \/ UNCHANGED vars PROVE UploadedRight'
  <2>1. CASE OtherProgram
    BY <2>1 DEF OtherProgram, MemoryInv, UploadedRight, memory
  <2> QED
    BY <2>1 DEF Next, vars
<1>1. SUFFICES ASSUME ~killed', ~gui, NEW n \in Checked
               PROVE  data'[n] \in {NoFile, m_firmware'[n]}
  BY DEF UploadedRight
<1>2. ASSUME UNCHANGED <<m_firmware, data, killed>>
      PROVE  data'[n] \in {NoFile, m_firmware'[n]}
  BY <1>1, <1>2 DEF UploadedRight
<1>3. ASSUME Down
      PROVE  data'[n] = NoFile
  BY <1>3 DEF Down
<1>4. CASE IndexStep
  <2>1. pc # "up" /\ UNCHANGED data
    BY <1>4 DEF IndexStep, SkipDownloadIndex, DownloadIndex, IndexArrives,
                IndexFails, RenameIndex, ReadIndex, memory
  <2> QED
    BY <2>1 DEF MemoryInv
<1>5. ASSUME NEW k \in Names, UploadFill(k)
      PROVE  data'[n] \in {NoFile, m_firmware'[n]}
  <2>1. ~killed /\ UNCHANGED m_firmware
    BY <1>1, <1>5 DEF UploadFill
  <2> QED
    BY <1>1, <1>5, <2>1, UploadFillRight
<1>6. ASSUME NEW k \in Names, GuiFill(k)
      PROVE  FALSE
  BY <1>1, <1>6 DEF GuiFill
<1>7. ASSUME NEW k \in Names, DownloadPresent(k) \/ DownloadFirmware(k) \/ ServerUpdate(k)
      PROVE  data'[n] \in {NoFile, m_firmware'[n]}
  BY <1>2, <1>7 DEF DownloadPresent, DownloadFirmware, ServerUpdate, memory
<1>8. ASSUME NEW k \in Names, DownloadCannotOpen(k)
      PROVE  data'[n] \in {NoFile, m_firmware'[n]}
  BY <1>1, <1>2, <1>8 DEF DownloadCannotOpen, memory
<1>9. CASE VerifyOk
  <2>1. 1 \in 1 .. Len(downloads)
    BY <1>9, PoppedCalls DEF VerifyOk, TypeOK
  <2>2. Top.fill = FALSE
    BY <1>1, <2>1 DEF CallsInv, Top
  <2> QED
    BY <1>2, <1>9, <2>2 DEF VerifyOk
<1>10. CASE Arrives \/ TransferFails \/ VerifyBad \/ VerifyGone
  BY <1>1, <1>2, <1>10 DEF Arrives, TransferFails, VerifyBad, VerifyGone, memory
<1>11. CASE DeleteCache \/ CleanCache
  BY <1>2, <1>11 DEF DeleteCache, CleanCache, memory
<1>12. CASE Quit \/ Crash
  BY <1>3, <1>12 DEF Quit, Crash
<1>13. CASE UNCHANGED vars
  BY <1>2, <1>13 DEF vars, memory
<1> QED
  BY <1>4, <1>5, <1>6, <1>7, <1>8, <1>9, <1>10, <1>11, <1>12, <1>13
     DEF ProgramStep, DownloadStep

-----------------------------------------------------------------------------
(* The inductive invariant                                                 *)

\* The inductive invariant holds at the start.
LEMMA InitInv ==
  Init => IInv
<1> SUFFICES ASSUME Init PROVE IInv
  OBVIOUS
<1>1. TypeOK
  BY TypeInit
<1>2. Len(downloads) = 0 /\ downloads = <<>>
  BY EmptySeq DEF Init
<1>3. CallsInv /\ MemoryInv /\ CliInv
  BY <1>2 DEF Init, CallsInv, MemoryInv, CliInv
<1>4. IndexInv /\ DownloadVerified
  BY DEF Init, NoIndex, None, IndexInv, DownloadVerified
<1>5. CacheRight /\ PartialOnlyIfKilled /\ UploadedRight
  BY DEF Init, CacheRight, PartialOnlyIfKilled, UploadedRight
<1> QED
  BY <1>1, <1>3, <1>4, <1>5 DEF IInv

\* Every step keeps the inductive invariant.
LEMMA StepInv ==
  IInv /\ [Next]_vars => IInv'
<1> SUFFICES ASSUME IInv, [Next]_vars PROVE IInv'
  OBVIOUS
<1>1. /\ TypeOK /\ CallsInv /\ MemoryInv /\ IndexInv /\ CliInv
      /\ DownloadVerified /\ CacheRight /\ PartialOnlyIfKilled /\ UploadedRight
  BY DEF IInv
<1>2. TypeOK' /\ CallsInv'
  BY <1>1, TypeStep
<1>3. MemoryInv' /\ IndexInv'
  BY <1>1, MemoryStep, IndexInvStep
<1>4. CliInv'
  BY <1>1, <1>2, CliStep
<1>5. DownloadVerified' /\ CacheRight' /\ PartialOnlyIfKilled' /\ UploadedRight'
  BY <1>1, VerifiedStep, CacheStep, PartialStep, UploadStep
<1> QED
  BY <1>2, <1>3, <1>4, <1>5 DEF IInv

\* The inductive invariant holds in every state.
LEMMA Inductive ==
  Spec => []IInv
BY InitInv, StepInv, PTL DEF Spec

\* Once there is an index there is one for ever that is not older and can be read, wherever
\* a download breaks off, a file cannot be opened or renamed, or the program is killed: unless
\* a part that a killed program has left is renamed.
THEOREM IndexIsKept ==
  Spec => IndexKept
<1>1. IInv /\ [Next]_vars
        => [index.state = "whole" =>
              \/ index'.state = "whole" /\ NotOlder(index', index)
              \/ /\ killed /\ pc = "rename" /\ newIndex.state = "partial"
                 /\ index' = newIndex]_vars
  BY IndexKeptStep DEF IInv
<1> QED
  BY <1>1, Inductive, PTL DEF Spec, IndexKept

\* When downloadFirmware() returns for a firmware with a checksum, the file of the
\* version of the index holds just that.
THEOREM DownloadIsVerified ==
  Spec => []DownloadVerified
BY Inductive, PTL DEF IInv

\* As long as the program was not killed, a whole file that has another content than its
\* name says is one that the innermost download is about to check.
THEOREM CacheIsRight ==
  Spec => []CacheRight
BY Inductive, PTL DEF IInv

\* As long as the program was not killed, a part of a binary has somebody writing it,
\* in however many downloads within each other.
THEOREM PartsAreWritten ==
  Spec => []PartialOnlyIfKilled
BY Inductive, PTL DEF IInv

\* What usbprog uploads without a check is the version of the index.
THEOREM UploadIsRight ==
  Spec => []UploadedRight
BY Inductive, PTL DEF IInv

-----------------------------------------------------------------------------
(* Good files                                                              *)

\* A step of usbprog that takes a good file away is one of the two that may.
LEMMA GoodStep ==
  ASSUME TypeOK, CliInv, ~gui, Next,
         NEW f \in File, f[1] \in Checked, DigestOk(f)
  PROVE  \/ DigestOk(f)'
         \/ returned' = AllNames
         \/ IsFirmwareOnDisk(f[1]) /\ f[2] # m_firmware[f[1]]
<1>1. cache[f] = f[2] /\ f[2] \in Version /\ cache[f] # NoFile
  BY DEF DigestOk
<1>2. ASSUME cache'[f] = cache[f]
      PROVE  DigestOk(f)'
  BY <1>1, <1>2 DEF DigestOk
<1>3. ASSUME NEW n \in Names, ToDownload(n)
      PROVE  f # FileOf(n)
  <2>1. SUFFICES ASSUME f = FileOf(n) PROVE FALSE
    OBVIOUS
  <2>2. n \in Checked
    BY <2>1 DEF FileOf
  <2>3. Present(n)
    BY <1>1, <2>1, <2>2 DEF Present, DigestOk
  <2> QED
    BY <1>3, <2>3 DEF ToDownload
<1>4. ASSUME downloads # <<>>, Top.pc = "transfer"
      PROVE  f # TopFile
  <2>1. 1 \in 1 .. Len(downloads)
    BY <1>4, PoppedCalls DEF TypeOK
  <2>2. cache[TopFile] = Partial
    BY <1>4, <2>1 DEF CliInv, Top, TopFile
  <2> QED
    BY <1>1, <2>2
<1>5. CASE IndexStep
  BY <1>2, <1>5 DEF IndexStep, SkipDownloadIndex, DownloadIndex, IndexArrives,
                    IndexFails, RenameIndex, ReadIndex, disk
<1>6. ASSUME NEW n \in Names,
             GuiFill(n) \/ UploadFill(n) \/ DownloadPresent(n) \/ ServerUpdate(n)
      PROVE  DigestOk(f)'
  BY <1>2, <1>6 DEF GuiFill, UploadFill, DownloadPresent, ServerUpdate, disk
<1>7. ASSUME NEW n \in Names, DownloadFirmware(n)
      PROVE  DigestOk(f)'
  <2>1. f # FileOf(n)
    BY <1>3, <1>7 DEF DownloadFirmware
  <2>2. cache'[f] = cache[f]
    BY <1>7, <2>1 DEF DownloadFirmware, TypeOK
  <2> QED
    BY <1>2, <2>2
<1>8. ASSUME NEW n \in Names, DownloadCannotOpen(n)
      PROVE  DigestOk(f)'
  <2>1. f # FileOf(n)
    BY <1>3, <1>8 DEF DownloadCannotOpen
  <2>2. cache'[f] = cache[f]
    BY <1>8, <2>1 DEF DownloadCannotOpen, Removed
  <2> QED
    BY <1>2, <2>2
<1>9. CASE Arrives
  <2>1. f # TopFile
    BY <1>4, <1>9 DEF Arrives
  <2>2. cache'[f] = cache[f]
    BY <1>9, <2>1 DEF Arrives, TypeOK
  <2> QED
    BY <1>2, <2>2
<1>10. CASE TransferFails \/ VerifyBad
  <2>1. f # TopFile
    BY <1>1, <1>4, <1>10 DEF TransferFails, VerifyBad, DigestOk
  <2>2. cache'[f] = cache[f]
    BY <1>10, <2>1 DEF TransferFails, VerifyBad, Removed
  <2> QED
    BY <1>2, <2>2
<1>11. CASE VerifyOk \/ VerifyGone
  BY <1>2, <1>11 DEF VerifyOk, VerifyGone, disk
<1>12. CASE DeleteCache
  BY <1>12 DEF DeleteCache
<1>13. CASE CleanCache
  <2>1. PICK files \in SUBSET Obsolete : cache' = Removed(files)
    BY <1>13 DEF CleanCache
  <2>2. CASE f \in files
    BY <2>1, <2>2 DEF Obsolete
  <2>3. CASE f \notin files
    BY <1>2, <2>1, <2>3 DEF Removed
  <2> QED
    BY <2>2, <2>3
<1>14. CASE Quit \/ Crash
  BY <1>2, <1>14 DEF Quit, Crash, disk
<1>15. CASE OtherProgram
  BY <1>2, <1>15 DEF OtherProgram, disk
<1> QED
  BY <1>5, <1>6, <1>7, <1>8, <1>9, <1>10, <1>11, <1>12, <1>13, <1>14, <1>15
     DEF Next, ProgramStep, DownloadStep

\* In usbprog a good file of the cache is lost to "cache delete" only, or as an old
\* version of which the current one is there: to no failing or killed download.
THEOREM GoodFilesStay ==
  Spec => GoodFileStays
<1>1. IInv /\ [Next]_vars =>
        [\A f \in File :
           ~gui /\ f[1] \in Checked /\ DigestOk(f) =>
             \/ DigestOk(f)'
             \/ returned' = AllNames
             \/ IsFirmwareOnDisk(f[1]) /\ f[2] # m_firmware[f[1]]]_vars
  BY GoodStep DEF IInv
<1> QED
  BY <1>1, Inductive, PTL DEF Spec, GoodFileStays
=============================================================================

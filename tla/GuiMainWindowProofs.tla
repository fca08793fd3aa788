------------------------- MODULE GuiMainWindowProofs -------------------------
(***************************************************************************)
(* Theorems about GuiMainWindow, for any boards, firmwares and bounds.     *)
(***************************************************************************)
EXTENDS GuiMainWindow, UpdateDevicesProofs

-----------------------------------------------------------------------------
(* The inductive invariant                                                 *)

\* A slot under another one is downloading, and another one has run in it.
Nested == \A i \in 2 .. Len(slots) : Downloading(slots[i]) /\ ~slots[i].alone

Fetching == \A i \in 1 .. Len(slots) : Downloading(slots[i]) => slots[i].fw \in Firmwares

\* Somebody who downloads f, which is below place n, or at it.
FetchedFrom(n, f) == \E i \in n .. Len(slots) : Downloading(slots[i]) /\ slots[i].fw = f

\* A part of a firmware is on disk only while it is written.
PartFetched == \A f \in Firmwares : cache[f] = "part" =>
  \E i \in 1 .. Len(slots) : Downloading(slots[i]) /\ slots[i].fw = f /\ slots[i].linked

Filled == {"mode", "switch"} \cup Calls

PartNested == slots # <<>> /\ Top.pc \in Filled /\ Top.part # NoFirmware =>
                FetchedFrom(2, Top.part)

StackInv == Nested /\ Fetching /\ PartFetched /\ PartNested

\* What the slot that runs knows of the manager, while it runs.
TopInv ==
  /\ switching.pc # "no" <=> slots # <<>> /\ Top.pc = "switch"
  /\ slots # <<>> /\ Top.pc \in Calls => Top.dev \in DevicesOf(m_updateDevices)
  /\ slots # <<>> /\ Top.alone =>
       /\ Top.pc \in {"download", "mode"} => /\ Top.dev = GetCurrentUpdateDevice
                                             /\ Top.dev # NoDevice
                                             /\ Top.shown \in {Top.dev, NoDevice}
       /\ Top.pc = "switch" => Top.shown = NoDevice \/ ~IsUpdateMode(Top.shown)
       /\ Top.pc = "writeFirmware" =>
            /\ IsUpdateMode(Top.dev)
            /\ Top.shown # NoDevice => ~IsUpdateMode(Top.shown) \/ Top.dev = Top.shown

\* A fresh box has the size of the list.
ComboInv == devicesCombo.fresh => devicesCombo.boards = Len(m_updateDevices)

IInv ==
  /\ TypeOK /\ UDInv /\ StackInv
  /\ ended = "no" => TopInv /\ ComboInv
  /\ CrashesNested

-----------------------------------------------------------------------------
(* Stacks of slots                                                         *)

\* A slot is put on others.
LEMMA Pushed ==
  ASSUME NEW slot \in Slot, NEW s \in Seq(Slot)
  PROVE  LET t == <<slot>> \o s IN
         /\ t \in Seq(Slot) /\ t # <<>> /\ Len(t) = Len(s) + 1 /\ t[1] = slot
         /\ \A i \in 2 .. Len(t) : t[i] = s[i - 1] /\ i - 1 \in 1 .. Len(s)
         /\ \A i \in 1 .. Len(s) : t[i + 1] = s[i] /\ i + 1 \in 2 .. Len(t)
<1> DEFINE t == <<slot>> \o s
<1>1. <<slot>> \in Seq(Slot) /\ Len(<<slot>>) = 1 /\ <<slot>>[1] = slot
  OBVIOUS
<1>2. Len(s) \in Nat
  BY LenProperties
<1>3. /\ t \in Seq(Slot) /\ Len(t) = Len(<<slot>>) + Len(s)
      /\ \A i \in 1 .. Len(<<slot>>) + Len(s) :
           t[i] = IF i <= Len(<<slot>>) THEN <<slot>>[i] ELSE s[i - Len(<<slot>>)]
  BY <1>1, ConcatProperties
<1> HIDE DEF t
<1>4. t[1] = slot
  BY <1>1, <1>2, <1>3
<1>5. \A i \in 2 .. Len(t) : t[i] = s[i - 1] /\ i - 1 \in 1 .. Len(s)
  BY <1>1, <1>2, <1>3
<1>6. \A i \in 1 .. Len(s) : t[i + 1] = s[i] /\ i + 1 \in 2 .. Len(t)
  BY <1>1, <1>2, <1>3
<1>7. t # <<>> /\ Len(t) = Len(s) + 1
  BY <1>1, <1>2, <1>3, EmptySeq
<1> QED
  BY <1>3, <1>4, <1>5, <1>6, <1>7 DEF t

\* The innermost slot returns.
LEMMA Popped ==
  ASSUME NEW s \in Seq(Slot), s # <<>>
  PROVE  /\ Tail(s) \in Seq(Slot) /\ Len(Tail(s)) = Len(s) - 1
         /\ Len(s) \in Nat \ {0} /\ s[1] \in Slot
         /\ \A i \in 1 .. Len(Tail(s)) : Tail(s)[i] = s[i + 1] /\ i + 1 \in 2 .. Len(s)
         /\ \A i \in 2 .. Len(s) : s[i] = Tail(s)[i - 1] /\ i - 1 \in 1 .. Len(Tail(s))
<1>1. Len(s) \in Nat \ {0}
  BY EmptySeq, LenProperties
<1>2. /\ Tail(s) \in Seq(Slot) /\ Len(Tail(s)) = Len(s) - 1
      /\ \A i \in 1 .. Len(Tail(s)) : Tail(s)[i] = s[i + 1]
  BY HeadTailProperties
<1>3. s[1] \in Slot
  BY <1>1, ElementOfSeq
<1>4. \A i \in 2 .. Len(s) : i - 1 \in 1 .. Len(Tail(s)) /\ i = (i - 1) + 1
  BY <1>1, <1>2
<1>5. \A i \in 2 .. Len(s) : s[i] = Tail(s)[i - 1]
  BY <1>2, <1>4
<1> QED
  BY <1>1, <1>2, <1>3, <1>4, <1>5

\* t is s after something has happened to its slots, but nothing to who is still
\* writing another file than those of names.
Touched(t, s, names) ==
  /\ t \in Seq(Slot) /\ Len(t) = Len(s)
  /\ \A i \in 1 .. Len(s) :
       /\ t[i].pc = s[i].pc /\ t[i].fw = s[i].fw /\ t[i].part = s[i].part
       /\ ~s[i].alone => ~t[i].alone
       /\ t[i].dev \in {s[i].dev, NoDevice}
       /\ s[i].fw \notin names /\ s[i].linked => t[i].linked

\* Nothing need happen.
LEMMA Untouched ==
  ASSUME NEW s \in Seq(Slot), NEW names
  PROVE  Touched(s, s, names)
BY DEF Touched

\* Another slot has run inside a slot.
LEMMA DisturbedSlot ==
  ASSUME NEW r \in Slot, NEW scanned \in BOOLEAN
  PROVE  LET d == [r EXCEPT !.alone = FALSE, !.shown = NoDevice,
                            !.dev = IF scanned THEN NoDevice ELSE @]
         IN  /\ d \in Slot /\ d.pc = r.pc /\ d.fw = r.fw /\ d.part = r.part
             /\ ~d.alone /\ d.dev \in {r.dev, NoDevice} /\ d.linked = r.linked
             /\ ~scanned => d.dev = r.dev
BY DEF Slot

\* Another slot has run inside these.
LEMMA DisturbedTouched ==
  ASSUME NEW s \in Seq(Slot), NEW scanned \in BOOLEAN, NEW names
  PROVE  /\ Touched(Disturbed(s, scanned), s, names)
         /\ \A i \in 1 .. Len(s) : ~Disturbed(s, scanned)[i].alone
         /\ ~scanned => \A i \in 1 .. Len(s) : Disturbed(s, scanned)[i].dev = s[i].dev
<1> DEFINE t == Disturbed(s, scanned)
<1>1. Len(s) \in Nat /\ DOMAIN s = 1 .. Len(s) /\ \A i \in 1 .. Len(s) : s[i] \in Slot
  BY LenProperties, ElementOfSeq
<1>2. \A i \in 1 .. Len(s) :
        /\ t[i] \in Slot /\ t[i].pc = s[i].pc /\ t[i].fw = s[i].fw /\ t[i].part = s[i].part
        /\ ~t[i].alone /\ t[i].dev \in {s[i].dev, NoDevice} /\ t[i].linked = s[i].linked
        /\ ~scanned => t[i].dev = s[i].dev
  <2> TAKE i \in 1 .. Len(s)
  <2>1. s[i] \in Slot
    BY <1>1
  <2> DEFINE d == [s[i] EXCEPT !.alone = FALSE, !.shown = NoDevice,
                               !.dev = IF scanned THEN NoDevice ELSE @]
  <2>2. t[i] = d
    BY <1>1 DEF Disturbed
  <2>3. /\ d \in Slot /\ d.pc = s[i].pc /\ d.fw = s[i].fw /\ d.part = s[i].part
        /\ ~d.alone /\ d.dev \in {s[i].dev, NoDevice} /\ d.linked = s[i].linked
        /\ ~scanned => d.dev = s[i].dev
    BY <2>1, DisturbedSlot
  <2> HIDE DEF t, d
  <2> QED
    BY <2>2, <2>3
<1>3. t \in [1 .. Len(s) -> Slot]
  BY <1>1, <1>2 DEF Disturbed
<1> HIDE DEF t
<1>4. t \in Seq(Slot) /\ Len(t) = Len(s)
  BY <1>1, <1>3, SeqDef, LenProperties
<1> QED
  BY <1>2, <1>4 DEF Touched, t

\* A file is removed under a slot.
LEMMA UnlinkedSlot ==
  ASSUME NEW r \in Slot, NEW keep \in BOOLEAN
  PROVE  LET u == [r EXCEPT !.linked = @ /\ keep]
         IN  /\ u \in Slot /\ u.pc = r.pc /\ u.fw = r.fw /\ u.part = r.part
             /\ u.alone = r.alone /\ u.dev = r.dev
             /\ u.linked <=> r.linked /\ keep
BY DEF Slot

\* A file is removed under these.
LEMMA UnlinkedTouched ==
  ASSUME NEW s \in Seq(Slot), NEW names
  PROVE  /\ Touched(Unlinked(s, names), s, names)
         /\ \A i \in 1 .. Len(s) : /\ Unlinked(s, names)[i].alone = s[i].alone
                                   /\ Unlinked(s, names)[i].dev = s[i].dev
<1> DEFINE t == Unlinked(s, names)
<1>1. Len(s) \in Nat /\ DOMAIN s = 1 .. Len(s) /\ \A i \in 1 .. Len(s) : s[i] \in Slot
  BY LenProperties, ElementOfSeq
<1>2. \A i \in 1 .. Len(s) : t[i] = [s[i] EXCEPT !.linked = @ /\ (s[i].fw \notin names)]
  BY <1>1 DEF Unlinked
<1>3. \A i \in 1 .. Len(s) :
        /\ t[i] \in Slot /\ t[i].pc = s[i].pc /\ t[i].fw = s[i].fw /\ t[i].part = s[i].part
        /\ t[i].alone = s[i].alone /\ t[i].dev = s[i].dev
        /\ t[i].linked <=> s[i].linked /\ s[i].fw \notin names
  <2> TAKE i \in 1 .. Len(s)
  <2> DEFINE keep == s[i].fw \notin names
  <2>1. keep \in BOOLEAN /\ t[i] = [s[i] EXCEPT !.linked = @ /\ keep] /\ s[i] \in Slot
    BY <1>1, <1>2
  <2> HIDE DEF t
  <2>2. /\ t[i] \in Slot /\ t[i].pc = s[i].pc /\ t[i].fw = s[i].fw /\ t[i].part = s[i].part
        /\ t[i].alone = s[i].alone /\ t[i].dev = s[i].dev
        /\ t[i].linked <=> s[i].linked /\ keep
    <3> HIDE DEF keep
    <3> QED
      BY <2>1, UnlinkedSlot
  <2> QED
    BY <2>2
<1>4. t \in [1 .. Len(s) -> Slot]
  BY <1>1, <1>3 DEF Unlinked
<1> HIDE DEF t
<1>5. t \in Seq(Slot) /\ Len(t) = Len(s)
  BY <1>1, <1>4, SeqDef, LenProperties
<1> QED
  BY <1>3, <1>5 DEF Touched, t

\* Two things may happen.
LEMMA TouchedTwice ==
  ASSUME NEW s, NEW t, NEW u, NEW names, Touched(t, s, names), Touched(u, t, names)
  PROVE  Touched(u, s, names)
BY DEF Touched

-----------------------------------------------------------------------------
(* What the kinds of steps do to the stack                                 *)

SlotsType ==
  /\ slots \in Seq(Slot) /\ Len(slots) <= MaxDepth
  /\ \A i \in 1 .. Len(slots) : slots[i].pc \in Calls => slots[i].dev # NoDevice

\* It is that of TypeOK.
LEMMA SlotsTypeOK ==
  ASSUME TypeOK
  PROVE  SlotsType
BY LenProperties DEF TypeOK, SlotsType

\* Who is downloading is not in a call of the updater.
LEMMA DownloadingPc ==
  ASSUME NEW slot, Downloading(slot)
  PROVE  slot.pc \in {"download", "downloadAll"} /\ slot.pc \notin Filled \cup Calls
BY DEF Downloading, Filled, Calls

\* The innermost slot goes on as `new'.
LEMMA Replaced ==
  ASSUME SlotsType, StackInv, slots # <<>>, NEW new \in Slot, NEW t, NEW names,
         Touched(t, Tail(slots), names), slots' = <<new>> \o t,
         new.pc \in Calls => new.dev # NoDevice,
         Downloading(new) => new.fw \in Firmwares,
         \A f \in Firmwares : cache'[f] = "part" =>
           \/ /\ f \notin names /\ cache[f] = "part"
              /\ ~(Downloading(Top) /\ Top.fw = f /\ Top.linked)
           \/ Downloading(new) /\ new.fw = f /\ new.linked,
         new.pc \in Filled /\ new.part # NoFirmware => FetchedFrom(2, new.part)
  PROVE  SlotsType' /\ StackInv' /\ slots' # <<>> /\ Top' = new
<1> USE DEF Top
<1>1. /\ Tail(slots) \in Seq(Slot) /\ Len(Tail(slots)) = Len(slots) - 1
      /\ Len(slots) \in Nat
      /\ \A i \in 1 .. Len(Tail(slots)) : Tail(slots)[i] = slots[i + 1] /\ i + 1 \in 2 .. Len(slots)
      /\ \A i \in 2 .. Len(slots) : slots[i] = Tail(slots)[i - 1] /\ i - 1 \in 1 .. Len(Tail(slots))
  BY Popped DEF SlotsType
<1>2. t \in Seq(Slot) /\ Len(t) = Len(slots) - 1
  BY <1>1 DEF Touched
<1>3. /\ slots' \in Seq(Slot) /\ slots' # <<>> /\ Len(slots') = Len(slots) /\ slots'[1] = new
      /\ \A i \in 2 .. Len(slots) : slots'[i] = t[i - 1] /\ i - 1 \in 1 .. Len(t)
  <2>1. LET u == <<new>> \o t IN
        /\ u \in Seq(Slot) /\ u # <<>> /\ Len(u) = Len(t) + 1 /\ u[1] = new
        /\ \A i \in 2 .. Len(u) : u[i] = t[i - 1] /\ i - 1 \in 1 .. Len(t)
    BY <1>2, Pushed
  <2>2. /\ slots' \in Seq(Slot) /\ slots' # <<>> /\ Len(slots') = Len(t) + 1 /\ slots'[1] = new
        /\ \A i \in 2 .. Len(slots') : slots'[i] = t[i - 1] /\ i - 1 \in 1 .. Len(t)
    BY <2>1, Zenon
  <2>3. Len(slots') = Len(slots)
    <3>1. Len(slots') = Len(t) + 1 /\ Len(t) = Len(slots) - 1 /\ Len(slots) \in Nat
      BY <1>1, <1>2, <2>2, Zenon
    <3> QED
      BY <3>1
  <2> QED
    BY <2>2, <2>3, Zenon
<1>4. \A i \in 2 .. Len(slots) :
        /\ slots'[i].pc = slots[i].pc /\ slots'[i].fw = slots[i].fw
        /\ ~slots[i].alone => ~slots'[i].alone
        /\ slots[i].fw \notin names /\ slots[i].linked => slots'[i].linked
  <2> TAKE i \in 2 .. Len(slots)
  <2>1. /\ slots'[i] = t[i - 1] /\ i - 1 \in 1 .. Len(Tail(slots))
        /\ Tail(slots)[i - 1] = slots[i]
    BY <1>1, <1>3
  <2> QED
    BY <2>1 DEF Touched
<1>5. Nested'
  BY <1>3, <1>4 DEF StackInv, Nested, Downloading
<1>6. Fetching'
  <2> SUFFICES ASSUME NEW i \in 1 .. Len(slots'), Downloading(slots'[i])
               PROVE  slots'[i].fw \in Firmwares
    BY DEF Fetching, Downloading
  <2>1. CASE i = 1
    BY <1>3, <2>1
  <2>2. CASE i # 1
    <3>1. i \in 2 .. Len(slots)
      BY <1>3, <2>2
    <3> QED
      BY <1>4, <3>1 DEF StackInv, Fetching, Downloading
  <2> QED
    BY <2>1, <2>2
<1>7. PartFetched'
  <2> SUFFICES ASSUME NEW f \in Firmwares, cache'[f] = "part"
               PROVE  \E i \in 1 .. Len(slots') :
                        Downloading(slots'[i]) /\ slots'[i].fw = f /\ slots'[i].linked
    BY DEF PartFetched, Downloading
  <2>1. CASE Downloading(new) /\ new.fw = f /\ new.linked
    BY <1>1, <1>3, <2>1
  <2>2. CASE /\ f \notin names /\ cache[f] = "part"
             /\ ~(Downloading(Top) /\ Top.fw = f /\ Top.linked)
    <3>1. PICK i \in 1 .. Len(slots) : Downloading(slots[i]) /\ slots[i].fw = f /\ slots[i].linked
      BY <2>2 DEF StackInv, PartFetched
    <3>2. i \in 2 .. Len(slots)
      BY <2>2, <3>1
    <3> QED
      BY <1>3, <1>4, <2>2, <3>1, <3>2 DEF Downloading
  <2> QED
    BY <2>1, <2>2
<1>8. PartNested'
  <2> SUFFICES ASSUME new.pc \in Filled, new.part # NoFirmware
               PROVE  \E i \in 2 .. Len(slots') : Downloading(slots'[i]) /\ slots'[i].fw = new.part
    BY <1>3 DEF PartNested, FetchedFrom, Downloading
  <2> QED
    BY <1>3, <1>4 DEF FetchedFrom, Downloading
<1>9. SlotsType'
  <2>1. \A i \in 2 .. Len(slots) : slots'[i].pc \notin Calls
    BY <1>4, DownloadingPc DEF StackInv, Nested
  <2> QED
    BY <1>3, <2>1 DEF SlotsType
<1> QED
  BY <1>3, <1>5, <1>6, <1>7, <1>8, <1>9 DEF StackInv

\* A slot `new' begins inside the others.
LEMMA Begun ==
  ASSUME SlotsType, StackInv, slots # <<>> => Downloading(Top), Len(slots) < MaxDepth,
         NEW new \in Slot, NEW t, NEW names,
         Touched(t, slots, names), \A i \in 1 .. Len(slots) : ~t[i].alone,
         slots' = <<new>> \o t,
         new.pc \in Calls => new.dev # NoDevice,
         Downloading(new) => new.fw \in Firmwares,
         \A f \in Firmwares : cache'[f] = "part" =>
           \/ f \notin names /\ cache[f] = "part"
           \/ Downloading(new) /\ new.fw = f /\ new.linked,
         new.pc \in Filled /\ new.part # NoFirmware => FetchedFrom(1, new.part)
  PROVE  SlotsType' /\ StackInv' /\ slots' # <<>> /\ Top' = new
<1> USE DEF Top
<1>1. Len(slots) \in Nat /\ (slots = <<>> => Len(slots) = 0) /\ MaxDepth \in Nat
  BY LenProperties, EmptySeq, GuiMainWindowAssumption DEF SlotsType
<1>2. t \in Seq(Slot) /\ Len(t) = Len(slots)
  BY DEF Touched
<1>3. /\ slots' \in Seq(Slot) /\ slots' # <<>> /\ Len(slots') = Len(slots) + 1
      /\ slots'[1] = new
      /\ \A i \in 2 .. Len(slots') : slots'[i] = t[i - 1] /\ i - 1 \in 1 .. Len(slots)
      /\ \A i \in 1 .. Len(slots) : slots'[i + 1] = t[i] /\ i + 1 \in 2 .. Len(slots')
  <2>1. LET u == <<new>> \o t IN
        /\ u \in Seq(Slot) /\ u # <<>> /\ Len(u) = Len(t) + 1 /\ u[1] = new
        /\ \A i \in 2 .. Len(u) : u[i] = t[i - 1] /\ i - 1 \in 1 .. Len(t)
        /\ \A i \in 1 .. Len(t) : u[i + 1] = t[i] /\ i + 1 \in 2 .. Len(u)
    BY <1>2, Pushed
  <2> QED
    BY <1>1, <1>2, <2>1
<1>4. \A i \in 1 .. Len(slots) : Downloading(slots[i])
  <2> TAKE i \in 1 .. Len(slots)
  <2>1. CASE i = 1
    BY <1>1, <2>1
  <2>2. CASE i # 1
    <3>1. i \in 2 .. Len(slots)
      BY <1>1, <2>2
    <3> QED
      BY <3>1 DEF StackInv, Nested
  <2> QED
    BY <2>1, <2>2
<1>5. \A i \in 1 .. Len(slots) :
        /\ t[i].pc = slots[i].pc /\ t[i].fw = slots[i].fw /\ Downloading(t[i])
        /\ slots[i].fw \notin names /\ slots[i].linked => t[i].linked
  BY <1>4 DEF Touched, Downloading
<1>6. Nested'
  BY <1>3, <1>5 DEF Nested, Downloading
<1>7. Fetching'
  <2> SUFFICES ASSUME NEW i \in 1 .. Len(slots'), Downloading(slots'[i])
               PROVE  slots'[i].fw \in Firmwares
    BY DEF Fetching, Downloading
  <2>1. CASE i = 1
    BY <1>3, <2>1
  <2>2. CASE i # 1
    <3>1. i \in 2 .. Len(slots')
      BY <1>3, <2>2
    <3>2. slots'[i] = t[i - 1] /\ i - 1 \in 1 .. Len(slots)
      BY <1>3, <3>1
    <3> QED
      BY <1>4, <1>5, <3>2 DEF StackInv, Fetching
  <2> QED
    BY <2>1, <2>2
<1>8. PartFetched'
  <2> SUFFICES ASSUME NEW f \in Firmwares, cache'[f] = "part"
               PROVE  \E i \in 1 .. Len(slots') :
                        Downloading(slots'[i]) /\ slots'[i].fw = f /\ slots'[i].linked
    BY DEF PartFetched, Downloading
  <2>1. CASE Downloading(new) /\ new.fw = f /\ new.linked
    BY <1>1, <1>3, <2>1
  <2>2. CASE f \notin names /\ cache[f] = "part"
    <3>1. PICK i \in 1 .. Len(slots) : Downloading(slots[i]) /\ slots[i].fw = f /\ slots[i].linked
      BY <2>2 DEF StackInv, PartFetched
    <3>2. slots'[i + 1] = t[i] /\ i + 1 \in 1 .. Len(slots')
      BY <1>3
    <3> QED
      BY <1>5, <2>2, <3>1, <3>2
  <2> QED
    BY <2>1, <2>2
<1>9. PartNested'
  <2> SUFFICES ASSUME new.pc \in Filled, new.part # NoFirmware
               PROVE  \E i \in 2 .. Len(slots') : Downloading(slots'[i]) /\ slots'[i].fw = new.part
    BY <1>3 DEF PartNested, FetchedFrom, Downloading
  <2>1. PICK i \in 1 .. Len(slots) : Downloading(slots[i]) /\ slots[i].fw = new.part
    BY DEF FetchedFrom
  <2>2. slots'[i + 1] = t[i] /\ i + 1 \in 2 .. Len(slots')
    BY <1>3
  <2> QED
    BY <1>5, <2>1, <2>2
<1>10. SlotsType'
  <2>1. \A i \in 2 .. Len(slots') : slots'[i].pc \notin Calls
    BY <1>3, <1>5, DownloadingPc
  <2>2. \A i \in 1 .. Len(slots') : i = 1 \/ i \in 2 .. Len(slots')
    BY <1>1, <1>3
  <2> QED
    BY <1>1, <1>3, <2>1, <2>2 DEF SlotsType
<1> QED
  BY <1>3, <1>6, <1>7, <1>8, <1>9, <1>10 DEF StackInv

\* The innermost slot, which does not download any more, returns.
LEMMA Returned ==
  ASSUME SlotsType, StackInv, slots # <<>>, ~Downloading(Top), Return, UNCHANGED cache
  PROVE  SlotsType' /\ StackInv' /\ (slots' # <<>> => Downloading(Top') /\ ~Top'.alone)
<1> USE DEF Top, Return
<1>1. /\ slots' \in Seq(Slot) /\ Len(slots') = Len(slots) - 1 /\ Len(slots) \in Nat \ {0}
      /\ \A i \in 1 .. Len(slots') : slots'[i] = slots[i + 1] /\ i + 1 \in 2 .. Len(slots)
      /\ \A i \in 2 .. Len(slots) : slots[i] = slots'[i - 1] /\ i - 1 \in 1 .. Len(slots')
  BY Popped DEF SlotsType
<1>2. \A i \in 1 .. Len(slots') : Downloading(slots'[i]) /\ ~slots'[i].alone
  BY <1>1 DEF StackInv, Nested
<1>3. slots' # <<>> => Downloading(Top') /\ ~Top'.alone
  <2>1. slots' # <<>> => 1 \in 1 .. Len(slots')
    BY <1>1, EmptySeq, LenProperties
  <2> QED
    BY <1>2, <2>1 DEF Downloading
<1>4. Nested'
  BY <1>1, <1>2 DEF Nested, Downloading
<1>5. Fetching'
  BY <1>1 DEF StackInv, Fetching, Downloading
<1>6. PartFetched'
  <2> SUFFICES ASSUME NEW f \in Firmwares, cache[f] = "part"
               PROVE  \E i \in 1 .. Len(slots') :
                        Downloading(slots'[i]) /\ slots'[i].fw = f /\ slots'[i].linked
    BY DEF PartFetched, Downloading
  <2>1. PICK i \in 1 .. Len(slots) : Downloading(slots[i]) /\ slots[i].fw = f /\ slots[i].linked
    BY DEF StackInv, PartFetched
  <2>2. i \in 2 .. Len(slots)
    BY <1>1, <2>1
  <2> QED
    BY <1>1, <2>1, <2>2
<1>7. PartNested'
  BY <1>3, DownloadingPc DEF PartNested, Downloading, Filled, Calls
<1>8. SlotsType'
  <2>1. \A i \in 1 .. Len(slots') : slots'[i].pc \notin Calls
    BY <1>2, DownloadingPc
  <2> QED
    BY <1>1, <2>1, GuiMainWindowAssumption DEF SlotsType
<1> QED
  BY <1>3, <1>4, <1>5, <1>6, <1>7, <1>8 DEF StackInv

\* Nobody begins or returns, but the slots are touched.
LEMMA Stayed ==
  ASSUME SlotsType, StackInv, slots # <<>> => Top.pc \notin Calls, NEW names,
         Touched(slots', slots, names),
         \A f \in Firmwares : cache'[f] = "part" => f \notin names /\ cache[f] = "part"
  PROVE  /\ SlotsType' /\ StackInv'
         /\ slots' = <<>> <=> slots = <<>>
         /\ slots # <<>> => Top'.pc = Top.pc
<1> USE DEF Top
<1>1. Len(slots) \in Nat /\ slots' \in Seq(Slot) /\ Len(slots') = Len(slots)
  BY LenProperties DEF SlotsType, Touched
<1>2. /\ slots = <<>> <=> Len(slots) = 0
      /\ slots' = <<>> <=> Len(slots) = 0
  BY <1>1, EmptySeq, Zenon DEF SlotsType
<1>3. \A i \in 1 .. Len(slots) :
        /\ slots'[i].pc = slots[i].pc /\ slots'[i].fw = slots[i].fw
        /\ slots'[i].part = slots[i].part
        /\ ~slots[i].alone => ~slots'[i].alone
        /\ slots[i].fw \notin names /\ slots[i].linked => slots'[i].linked
  BY DEF Touched
<1>4. slots # <<>> => 1 \in 1 .. Len(slots)
  BY <1>1, <1>2
<1>5. Nested'
  BY <1>1, <1>3 DEF StackInv, Nested, Downloading
<1>6. Fetching'
  BY <1>1, <1>3 DEF StackInv, Fetching, Downloading
<1>7. PartFetched'
  <2> SUFFICES ASSUME NEW f \in Firmwares, cache'[f] = "part"
               PROVE  \E i \in 1 .. Len(slots') :
                        Downloading(slots'[i]) /\ slots'[i].fw = f /\ slots'[i].linked
    BY DEF PartFetched, Downloading
  <2>1. PICK i \in 1 .. Len(slots) : Downloading(slots[i]) /\ slots[i].fw = f /\ slots[i].linked
    BY DEF StackInv, PartFetched
  <2> QED
    BY <1>1, <1>3, <2>1 DEF Downloading
<1>8. PartNested'
  <2> SUFFICES ASSUME slots # <<>>, slots[1].pc \in Filled, slots[1].part # NoFirmware
               PROVE  \E i \in 2 .. Len(slots') :
                        Downloading(slots'[i]) /\ slots'[i].fw = slots[1].part
    BY <1>2, <1>3, <1>4 DEF PartNested, FetchedFrom, Downloading
  <2>1. PICK i \in 2 .. Len(slots) : Downloading(slots[i]) /\ slots[i].fw = slots[1].part
    BY DEF StackInv, PartNested, FetchedFrom
  <2> QED
    BY <1>1, <1>3, <2>1 DEF Downloading
<1>9. SlotsType'
  <2>1. \A i \in 1 .. Len(slots) : slots[i].pc \notin Calls
    <3> TAKE i \in 1 .. Len(slots)
    <3>1. CASE i = 1
      BY <1>1, <1>2, <3>1
    <3>2. CASE i # 1
      <4>1. i \in 2 .. Len(slots)
        BY <1>1, <3>2
      <4> QED
        BY <4>1, DownloadingPc DEF StackInv, Nested
    <3> QED
      BY <3>1, <3>2
  <2> QED
    BY <1>1, <1>3, <2>1 DEF SlotsType
<1> QED
  BY <1>2, <1>3, <1>4, <1>5, <1>6, <1>7, <1>8, <1>9 DEF StackInv

\* Nothing happens to the stack or to the files.
LEMMA KeptStack ==
  ASSUME SlotsType, StackInv, UNCHANGED <<slots, cache>>
  PROVE  SlotsType' /\ StackInv' /\ Top' = Top
BY DEF SlotsType, StackInv, Nested, Fetching, PartFetched, PartNested, FetchedFrom,
       Downloading, Top

-----------------------------------------------------------------------------
(* Slots                                                                   *)

\* A new slot knows nothing yet.
LEMMA NewSlotFields ==
  ASSUME NEW pc \in SlotPc, NEW fw \in Source
  PROVE  LET n == NewSlot(pc, fw)
         IN  /\ n \in Slot /\ n.pc = pc /\ n.fw = fw /\ ~n.linked /\ n.part = NoFirmware
             /\ n.dev = NoDevice /\ n.alone /\ n.shown = NoDevice
BY DEF NewSlot, Slot, Source

\* A message box needs nothing.
LEMMA MessageFields ==
  /\ MessageSlot \in Slot /\ MessageSlot.pc = "message" /\ MessageSlot.part = NoFirmware
  /\ ~Downloading(MessageSlot) /\ MessageSlot.pc \notin Filled \cup Calls
BY NewSlotFields DEF MessageSlot, Source, SlotPc, Downloading, Filled, Calls

\* It looks for the next firmware.
LEMMA NextSlot ==
  ASSUME NEW r \in Slot
  PROVE  LET s == [r EXCEPT !.pc = "next", !.linked = FALSE]
         IN  s \in Slot /\ s.pc = "next"
BY DEF Slot, SlotPc

\* It has opened its file.
LEMMA LinkedSlot ==
  ASSUME NEW r \in Slot
  PROVE  LET s == [r EXCEPT !.linked = TRUE]
         IN  /\ s \in Slot /\ s.linked /\ s.pc = r.pc /\ s.fw = r.fw /\ s.dev = r.dev
             /\ s.alone = r.alone /\ s.part = r.part /\ s.shown = r.shown
BY DEF Slot

\* It begins with the download of one of the missing firmwares.
LEMMA FetchingSlot ==
  ASSUME NEW r \in Slot, NEW fw \in Source
  PROVE  LET s == [r EXCEPT !.pc = "downloadAll", !.fw = fw]
         IN  s \in Slot /\ s.pc = "downloadAll" /\ s.fw = fw
BY DEF Slot, SlotPc

\* It has read its firmware.
LEMMA FilledSlot ==
  ASSUME NEW r \in Slot, NEW part \in Source
  PROVE  LET s == [r EXCEPT !.pc = "mode", !.fw = NoFirmware, !.linked = FALSE,
                            !.part = part]
         IN  /\ s \in Slot /\ s.pc = "mode" /\ s.part = part /\ s.dev = r.dev
             /\ s.alone = r.alone /\ s.shown = r.shown
BY DEF Slot, SlotPc, Source

-----------------------------------------------------------------------------
(* Parts of the invariant                                                  *)

\* The whole of it, from its parts.
LEMMA Assembled ==
  ASSUME UDInv', SlotsType', StackInv', (cache \in [Firmwares -> File])',
         devicesCombo' \in Combo, timers' \in Nat, ended' \in Ends,
         ended' = "no" => (TopInv' /\ ComboInv'), CrashesNested'
  PROVE  IInv'
<1>1. DOMAIN slots' = 1 .. Len(slots')
  BY LenProperties DEF SlotsType
<1> QED
  BY <1>1 DEF IInv, TypeOK, UDInv, SlotsType

\* Where the innermost slot has nothing to do with the manager.
LEMMA TopElsewhere ==
  ASSUME switching'.pc = "no",
         slots' # <<>> => \/ Top'.pc \in {"message", "next", "downloadAll"}
                          \/ Downloading(Top') /\ ~Top'.alone
  PROVE  TopInv'
BY DEF TopInv, Downloading, Calls

\* A cache that has not changed has no new parts.
LEMMA SameCache ==
  ASSUME UNCHANGED cache, cache \in [Firmwares -> File]
  PROVE  /\ \A f \in Firmwares : cache'[f] = "part" => f \notin {} /\ cache[f] = "part"
         /\ (cache \in [Firmwares -> File])'
OBVIOUS

\* The parts that hold before a step.
LEMMA Before ==
  ASSUME IInv
  PROVE  /\ TypeOK /\ UDInv /\ SlotsType /\ StackInv /\ CrashesNested
         /\ cache \in [Firmwares -> File] /\ devicesCombo \in Combo /\ timers \in Nat
         /\ ended \in Ends
         /\ ended = "no" => TopInv /\ ComboInv
         /\ slots # <<>> => Top \in Slot
BY SlotsTypeOK, Popped DEF IInv, TypeOK, Top

\* The manager has not changed.
LEMMA SameManager ==
  ASSUME UNCHANGED udVars, UDInv
  PROVE  /\ UDInv' /\ UNCHANGED <<switching, m_updateDevices, m_currentUpdateDevice>>
         /\ GetCurrentUpdateDevice' = GetCurrentUpdateDevice
BY DEF udVars, busVars, UDInv, UpdateDevicesTypeOK, BusTypeOK, UniqueAddresses, Known,
       Attached, DeviceOf, SwitchingInv, GetCurrentUpdateDevice

\* Only the bus has, perhaps.
LEMMA SameList ==
  ASSUME IInv, ended = "no", UNCHANGED <<m_updateDevices, devicesCombo>>
  PROVE  ComboInv'
BY DEF IInv, ComboInv

\* Clicks are taken where no switch is under way.
LEMMA UserIdle ==
  ASSUME IInv, UserMay
  PROVE  /\ switching.pc = "no" /\ ended = "no"
         /\ slots # <<>> => Downloading(Top) /\ Top.pc \notin Calls
BY DownloadingPc DEF IInv, TopInv, UserMay, Downloading

-----------------------------------------------------------------------------
(* Steps of the user and of timers                                         *)

\* A refresh disturbs every slot.
LEMMA RefreshInv ==
  ASSUME IInv, ended = "no", slots # <<>> => Top.pc \notin Calls,
         RefreshDevices, timers' \in Nat
  PROVE  IInv'
<1>1. PoolDevices \in SUBSET Applications
  BY GuiMainWindowAssumption
<1>2. UDInv' /\ UNCHANGED switching
  <2>1. Discover(PoolDevices) \/ DiscoverThrows(PoolDevices)
    BY DEF RefreshDevices
  <2> QED
    BY <1>1, <2>1, ClientStepInv DEF IInv, Discover, DiscoverThrows
<1>3. slots' = Disturbed(slots, TRUE) /\ UNCHANGED cache
  BY DEF RefreshDevices
<1>4. Touched(slots', slots, {}) /\ \A i \in 1 .. Len(slots) : ~slots'[i].alone
  BY <1>3, Before, DisturbedTouched DEF SlotsType
<1>5. /\ SlotsType' /\ StackInv' /\ (slots' = <<>> <=> slots = <<>>)
      /\ slots # <<>> => Top'.pc = Top.pc
  <2>1. SlotsType /\ StackInv
    BY Before
  <2>2. \A f \in Firmwares : cache'[f] = "part" => f \notin {} /\ cache[f] = "part"
    BY <1>3
  <2> QED
    BY <1>4, <2>1, <2>2, Stayed
<1>6. slots # <<>> => ~Top'.alone
  BY <1>4, Before, Popped DEF SlotsType, Top
<1>7. TopInv'
  BY <1>2, <1>5, <1>6 DEF IInv, TopInv
<1>8. devicesCombo' \in Combo /\ ended' \in {"no", "IOError"} /\ (ended' = "no" => ComboInv')
  <2>1. CASE Discover(PoolDevices) /\ Refreshed /\ UNCHANGED ended
    <3>1. Len(m_updateDevices') \in Nat
      BY <1>2, LenProperties DEF UDInv, UpdateDevicesTypeOK
    <3> QED
      BY <2>1, <3>1 DEF Refreshed, Combo, ComboInv
  <2>2. CASE End("IOError") /\ UNCHANGED devicesCombo
    BY <2>2, Before DEF End
  <2> QED
    BY <2>1, <2>2 DEF RefreshDevices
<1> QED
  BY <1>2, <1>3, <1>5, <1>7, <1>8, Before, Assembled DEF CrashesNested, Ends

\* Cache slots that a click begins.
LEMMA CacheClickInv ==
  ASSUME IInv, CacheDownloadAll \/ CacheDelete
  PROVE  IInv'
<1>1. /\ UserMay /\ UNCHANGED <<udVars, devicesCombo, timers>>
  BY DEF CacheDownloadAll, CacheDelete, FirmwareSelected
<1>2. /\ switching.pc = "no" /\ ended = "no"
      /\ slots # <<>> => Downloading(Top) /\ Top.pc \notin Calls
  BY <1>1, UserIdle
<1>3. UDInv' /\ UNCHANGED <<switching, m_updateDevices>>
  BY <1>1, SameManager DEF IInv
<1>4. ComboInv'
  BY <1>1, <1>2, <1>3, SameList
<1>5. CASE CacheDownloadAll
  <2> DEFINE new == NewSlot("next", NoFirmware)
             t == Disturbed(slots, FALSE)
  <2>1. slots' = <<new>> \o t /\ Len(slots) < MaxDepth /\ UNCHANGED <<cache, ended>>
    BY <1>5 DEF CacheDownloadAll
  <2>2. new \in Slot /\ new.pc = "next" /\ ~Downloading(new) /\ new.pc \notin Calls \cup Filled
    BY NewSlotFields DEF SlotPc, Source, Downloading, Calls, Filled
  <2>3. Touched(t, slots, {}) /\ \A i \in 1 .. Len(slots) : ~t[i].alone
    BY Before, DisturbedTouched DEF SlotsType
  <2> HIDE DEF new, t
  <2>4. SlotsType' /\ StackInv' /\ slots' # <<>> /\ Top' = new
    BY <1>2, <2>1, <2>2, <2>3, Before, Begun
  <2>5. TopInv'
    BY <1>2, <1>3, <2>2, <2>4, TopElsewhere
  <2>6. CrashesNested'
    BY <1>2, <2>1 DEF CrashesNested
  <2> QED
    BY <1>1, <1>3, <1>4, <2>1, <2>4, <2>5, <2>6, Before, SameCache, Assembled
<1>6. CASE CacheDelete
  <2> DEFINE t == Disturbed(slots, FALSE)
  <2>1. /\ slots' = Unlinked(t, Firmwares) /\ cache' = [f \in Firmwares |-> "none"]
        /\ ended' = IF FirmwareNames = <<>> THEN "NULL" ELSE ended
    BY <1>6 DEF CacheDelete, FirmwareSelected
  <2>2. Touched(t, slots, Firmwares) /\ \A i \in 1 .. Len(slots) : ~t[i].alone
    BY Before, DisturbedTouched DEF SlotsType
  <2> HIDE DEF t
  <2>3. /\ Touched(slots', t, Firmwares)
        /\ \A i \in 1 .. Len(t) : slots'[i].alone = t[i].alone
    BY <2>1, <2>2, UnlinkedTouched DEF Touched
  <2>4. Touched(slots', slots, Firmwares) /\ \A i \in 1 .. Len(slots) : ~slots'[i].alone
    BY <2>2, <2>3, TouchedTwice DEF Touched
  <2>5. /\ SlotsType' /\ StackInv' /\ (slots' = <<>> <=> slots = <<>>)
        /\ slots # <<>> => Top'.pc = Top.pc
    <3>1. \A f \in Firmwares : cache'[f] # "part"
      BY <2>1
    <3> QED
      BY <1>2, <2>4, <3>1, Before, Stayed
  <2>6. slots # <<>> => ~Top'.alone
    BY <2>4, Before, Popped DEF SlotsType, Top
  <2>7. TopInv'
    BY <1>2, <1>3, <2>5, <2>6, TopElsewhere DEF Downloading
  <2>8. (cache \in [Firmwares -> File])'
    BY <2>1 DEF File, Firmwares
  <2> QED
    BY <1>1, <1>2, <1>3, <1>4, <2>1, <2>5, <2>7, <2>8, Before, Assembled
       DEF CrashesNested, Ends
<1> QED
  BY <1>5, <1>6

\* A slot of the main loop or of a message box returns.
LEMMA ReturnInv ==
  ASSUME IInv, ended = "no", slots # <<>>, ~Downloading(Top), Return, UDInv',
         switching'.pc = "no", timers' \in Nat,
         UNCHANGED <<m_updateDevices, devicesCombo, cache, ended>>
  PROVE  IInv'
<1>1. SlotsType' /\ StackInv' /\ (slots' # <<>> => Downloading(Top') /\ ~Top'.alone)
  BY Before, Returned
<1>2. TopInv' /\ ComboInv'
  BY <1>1, TopElsewhere, SameList
<1>3. CrashesNested'
  BY DEF CrashesNested
<1> QED
  BY <1>1, <1>2, <1>3, Before, SameCache, Assembled

\* A slot shows a message box.
LEMMA MessageInv ==
  ASSUME IInv, ended = "no", slots # <<>>, ~Downloading(Top), Message, UDInv',
         switching'.pc = "no", timers' \in Nat,
         UNCHANGED <<m_updateDevices, devicesCombo, cache, ended>>
  PROVE  IInv'
<1>1. Touched(Tail(slots), Tail(slots), {})
  BY Before, Popped, Untouched DEF SlotsType
<1>2. slots' = <<MessageSlot>> \o Tail(slots)
  BY DEF Message, TopBecomes
<1>3. SlotsType' /\ StackInv' /\ slots' # <<>> /\ Top' = MessageSlot
  <2>1. \A f \in Firmwares : cache'[f] = "part" =>
          /\ f \notin {} /\ cache[f] = "part"
          /\ ~(Downloading(Top) /\ Top.fw = f /\ Top.linked)
    OBVIOUS
  <2>2. SlotsType /\ StackInv
    BY Before
  <2> DEFINE new == MessageSlot
             t == Tail(slots)
  <2>3. /\ new \in Slot /\ (new.pc \in Calls => new.dev # NoDevice)
        /\ (Downloading(new) => new.fw \in Firmwares)
        /\ (new.pc \in Filled /\ new.part # NoFirmware => FetchedFrom(2, new.part))
    BY MessageFields
  <2>4. Touched(t, Tail(slots), {}) /\ slots' = <<new>> \o t
    BY <1>1, <1>2
  <2> HIDE DEF new, t
  <2>5. SlotsType' /\ StackInv' /\ slots' # <<>> /\ Top' = new
    BY <2>1, <2>2, <2>3, <2>4, Replaced
  <2> QED
    BY <2>5 DEF new
<1>4. TopInv' /\ ComboInv'
  BY <1>3, MessageFields, TopElsewhere, SameList
<1>5. CrashesNested'
  BY DEF CrashesNested
<1> QED
  BY <1>3, <1>4, <1>5, Before, SameCache, Assembled

\* The program ends by itself.
LEMMA EndInv ==
  ASSUME IInv, NEW how \in Ends \ {"no"}, End(how), UDInv',
         slots # <<>> => Top.pc \notin Calls,
         UNCHANGED <<cache, devicesCombo, slots, timers>>,
         how \in {"NULL", "freed"} => slots # <<>> /\ ~Top.alone
  PROVE  IInv'
<1>1. SlotsType' /\ StackInv'
  <2>1. Touched(slots', slots, {})
    BY Before, Untouched DEF SlotsType
  <2> QED
    BY <2>1, Before, SameCache, Stayed
<1>2. CrashesNested' /\ ended' = how
  BY DEF CrashesNested, End, Top
<1> QED
  BY <1>1, <1>2, Before, SameCache, Assembled

-----------------------------------------------------------------------------
(* Downloads                                                               *)

\* Who downloads may become `new', others may lose their file.
LEMMA DownloadGoesOn ==
  ASSUME IInv, ended = "no", slots # <<>>, NEW names, NEW new \in Slot,
         slots' = <<new>> \o Unlinked(Tail(slots), names),
         new.pc \notin Calls, Downloading(new) => new.fw \in Firmwares,
         \A f \in Firmwares : cache'[f] = "part" =>
           \/ /\ f \notin names /\ cache[f] = "part"
              /\ ~(Downloading(Top) /\ Top.fw = f /\ Top.linked)
           \/ Downloading(new) /\ new.fw = f /\ new.linked,
         new.pc \notin Filled,
         new.pc \in {"message", "next", "downloadAll"},
         cache' \in [Firmwares -> File], switching.pc = "no",
         UNCHANGED <<udVars, devicesCombo, timers, ended>>
  PROVE  IInv'
<1>1. /\ SlotsType /\ StackInv /\ UDInv
      /\ Tail(slots) \in Seq(Slot)
  BY Before, Popped DEF SlotsType
<1> DEFINE t == Unlinked(Tail(slots), names)
<1>2. Touched(t, Tail(slots), names) /\ slots' = <<new>> \o t
  BY <1>1, UnlinkedTouched
<1> HIDE DEF t
<1>3. SlotsType' /\ StackInv' /\ slots' # <<>> /\ Top' = new
  BY <1>1, <1>2, Replaced
<1>4. UDInv' /\ UNCHANGED <<switching, m_updateDevices>>
  BY <1>1, SameManager
<1>5. TopInv' /\ ComboInv'
  BY <1>3, <1>4, TopElsewhere, SameList
<1>6. CrashesNested'
  BY DEF CrashesNested
<1> QED
  BY <1>3, <1>4, <1>5, <1>6, Before, Assembled

\* The innermost slot, when it downloads or looks for what to download.
LEMMA Fetcher ==
  ASSUME IInv, ended = "no", slots # <<>>, Downloading(Top) \/ Top.pc = "next"
  PROVE  /\ Top \in Slot /\ switching.pc = "no"
         /\ Downloading(Top) => Top.fw \in Firmwares /\ Arrived \in File
         /\ cache \in [Firmwares -> File] /\ Top.pc \notin Calls \cup Filled
<1>1. /\ Top \in Slot /\ TopInv /\ cache \in [Firmwares -> File]
      /\ StackInv /\ SlotsType
  BY Before
<1>2. Top.pc \notin Calls \cup Filled /\ switching.pc = "no"
  BY <1>1, DownloadingPc DEF TopInv, Calls, Filled
<1>3. Downloading(Top) => Top.fw \in Firmwares
  <2>1. 1 \in 1 .. Len(slots)
    BY <1>1, Popped DEF SlotsType
  <2> QED
    BY <1>1, <2>1 DEF StackInv, Fetching, Top
<1>4. Downloading(Top) => Arrived \in File
  BY <1>1, <1>3 DEF Arrived, File
<1> QED
  BY <1>1, <1>2, <1>3, <1>4

\* A download fails: the file is gone.
LEMMA FailsInv ==
  ASSUME IInv, DownloadFails \/ DownloadAllFails
  PROVE  IInv'
<1>1. /\ ended = "no" /\ slots # <<>> /\ Downloading(Top)
      /\ cache' = [cache EXCEPT ![Top.fw] = "none"]
      /\ UNCHANGED <<udVars, devicesCombo, timers, ended>>
  BY DEF DownloadFails, DownloadAllFails, TopAt, Downloading
<1>2. /\ Top \in Slot /\ switching.pc = "no" /\ Top.fw \in Firmwares
      /\ cache \in [Firmwares -> File]
  BY <1>1, Fetcher
<1>3. PICK new \in {MessageSlot, [Top EXCEPT !.pc = "next", !.linked = FALSE]} :
        slots' = <<new>> \o Unlinked(Tail(slots), {Top.fw})
  BY DEF DownloadFails, DownloadAllFails
<1>4. new \in Slot /\ new.pc \in {"message", "next"}
  <2>1. CASE new = MessageSlot
    BY <2>1, MessageFields
  <2>2. CASE new = [Top EXCEPT !.pc = "next", !.linked = FALSE]
    BY <1>2, <2>2, NextSlot
  <2> QED
    BY <1>3, <2>1, <2>2
<1>5. new.pc \notin Calls \cup Filled /\ ~Downloading(new)
  BY <1>4 DEF Calls, Filled, Downloading
<1>6. /\ cache' \in [Firmwares -> File]
      /\ \A f \in Firmwares : cache'[f] = "part" =>
           /\ f \notin {Top.fw} /\ cache[f] = "part"
           /\ ~(Downloading(Top) /\ Top.fw = f /\ Top.linked)
  BY <1>1, <1>2 DEF File
<1> DEFINE names == {Top.fw}
<1> HIDE DEF names
<1>7. /\ slots' = <<new>> \o Unlinked(Tail(slots), names)
      /\ \A f \in Firmwares : cache'[f] = "part" =>
           /\ f \notin names /\ cache[f] = "part"
           /\ ~(Downloading(Top) /\ Top.fw = f /\ Top.linked)
  BY <1>3, <1>6 DEF names
<1> QED
  BY <1>1, <1>2, <1>4, <1>5, <1>6, <1>7, DownloadGoesOn

\* Nothing is unlinked.
LEMMA NothingUnlinked ==
  ASSUME NEW s \in Seq(Slot)
  PROVE  Touched(s, s, {}) /\ Unlinked(s, {}) = s
<1>1. Len(s) \in Nat /\ DOMAIN s = 1 .. Len(s) /\ \A i \in 1 .. Len(s) : s[i] \in Slot
  BY LenProperties, ElementOfSeq
<1>2. \A i \in 1 .. Len(s) : [s[i] EXCEPT !.linked = @ /\ s[i].fw \notin {}] = s[i]
  BY <1>1 DEF Slot
<1>3. Unlinked(s, {}) = [i \in DOMAIN s |-> s[i]]
  BY <1>1, <1>2 DEF Unlinked
<1>4. s = [i \in DOMAIN s |-> s[i]]
  BY <1>1
<1> QED
  BY <1>3, <1>4, Untouched

\* What arrives is of a firmware that somebody else still writes, or it is complete.
LEMMA ArrivedPart ==
  ASSUME IInv, ended = "no", slots # <<>>, Downloading(Top),
         cache' = [cache EXCEPT ![Top.fw] = Arrived]
  PROVE  /\ cache' \in [Firmwares -> File]
         /\ Arrived = "part" => FetchedFrom(2, Top.fw)
         /\ \A f \in Firmwares : cache'[f] = "part" =>
              /\ f \notin {} /\ cache[f] = "part"
              /\ ~(Downloading(Top) /\ Top.fw = f /\ Top.linked)
<1>1. Top.fw \in Firmwares /\ Arrived \in File /\ cache \in [Firmwares -> File]
  BY Fetcher
<1>2. Arrived = "part" => ~Top.linked /\ cache[Top.fw] = "part"
  BY DEF Arrived
<1>3. \A f \in Firmwares : cache'[f] = "part" =>
        cache[f] = "part" /\ ~(Top.fw = f /\ Top.linked)
  <2> TAKE f \in Firmwares
  <2> HAVE cache'[f] = "part"
  <2>1. CASE f = Top.fw
    BY <1>1, <1>2, <2>1
  <2>2. CASE f # Top.fw
    BY <1>1, <2>2
  <2> QED
    BY <2>1, <2>2
<1>4. ASSUME Arrived = "part" PROVE FetchedFrom(2, Top.fw)
  <2>1. SlotsType /\ StackInv /\ Len(slots) \in Nat
    BY Before, Popped DEF SlotsType
  <2>2. PICK i \in 1 .. Len(slots) :
          Downloading(slots[i]) /\ slots[i].fw = Top.fw /\ slots[i].linked
    BY <1>1, <1>2, <1>4, <2>1 DEF StackInv, PartFetched
  <2>3. i \in 2 .. Len(slots)
    BY <1>2, <1>4, <2>1, <2>2 DEF Top
  <2> QED
    BY <2>2, <2>3 DEF FetchedFrom
<1> QED
  BY <1>1, <1>3, <1>4

\* One of the missing firmwares has arrived.
LEMMA AllArrivesInv ==
  ASSUME IInv, DownloadAllArrives
  PROVE  IInv'
<1>1. /\ ended = "no" /\ slots # <<>> /\ Downloading(Top)
      /\ cache' = [cache EXCEPT ![Top.fw] = Arrived]
      /\ UNCHANGED <<udVars, devicesCombo, timers, ended>>
  BY DEF DownloadAllArrives, TopAt, Downloading
<1> DEFINE new == [Top EXCEPT !.pc = "next", !.linked = FALSE]
           names == {}
<1>2. Tail(slots) \in Seq(Slot)
  BY <1>1, Before, Popped DEF SlotsType
<1>3. slots' = <<new>> \o Unlinked(Tail(slots), names)
  BY <1>2, NothingUnlinked DEF DownloadAllArrives, TopBecomes
<1>4. switching.pc = "no" /\ new \in Slot /\ new.pc = "next"
  BY <1>1, Fetcher, NextSlot
<1>5. /\ cache' \in [Firmwares -> File]
      /\ \A f \in Firmwares : cache'[f] = "part" =>
           /\ f \notin names /\ cache[f] = "part"
           /\ ~(Downloading(Top) /\ Top.fw = f /\ Top.linked)
  BY <1>1, ArrivedPart
<1> HIDE DEF new, names
<1>6. new.pc \notin Calls \cup Filled /\ ~Downloading(new)
  BY <1>4 DEF Calls, Filled, Downloading
<1> QED
  BY <1>1, <1>3, <1>4, <1>5, <1>6, DownloadGoesOn

\* The firmware of an upload has arrived: it is read, or an error is shown.
LEMMA ArrivesInv ==
  ASSUME IInv, DownloadArrives
  PROVE  IInv'
<1>1. /\ ended = "no" /\ slots # <<>> /\ Downloading(Top) /\ Top.pc = "download"
      /\ cache' = [cache EXCEPT ![Top.fw] = Arrived]
      /\ UNCHANGED <<udVars, devicesCombo, timers, ended>>
      /\ Fill(Top, Arrived, Tail(slots))
  BY DEF DownloadArrives, TopAt, Downloading
<1>2. /\ Tail(slots) \in Seq(Slot) /\ SlotsType /\ StackInv /\ UDInv /\ TopInv
      /\ Top \in Slot
  BY <1>1, Before, Popped DEF SlotsType
<1>3. switching.pc = "no" /\ Top.fw \in Firmwares
  BY <1>1, Fetcher
<1> DEFINE names == {}
<1>4. /\ cache' \in [Firmwares -> File]
      /\ Arrived = "part" => FetchedFrom(2, Top.fw)
      /\ \A f \in Firmwares : cache'[f] = "part" =>
           /\ f \notin names /\ cache[f] = "part"
           /\ ~(Downloading(Top) /\ Top.fw = f /\ Top.linked)
  BY <1>1, ArrivedPart
<1>5. CASE slots' = <<MessageSlot>> \o Tail(slots)
  <2> DEFINE new == MessageSlot
  <2>1. slots' = <<new>> \o Unlinked(Tail(slots), names)
    BY <1>2, <1>5, NothingUnlinked
  <2>2. new \in Slot /\ new.pc = "message" /\ new.pc \notin Calls \cup Filled /\ ~Downloading(new)
    BY MessageFields
  <2> HIDE DEF new, names
  <2> QED
    BY <1>1, <1>3, <1>4, <2>1, <2>2, DownloadGoesOn
<1>6. CASE slots' # <<MessageSlot>> \o Tail(slots)
  <2> DEFINE part == IF Arrived = "part" THEN Top.fw ELSE NoFirmware
             new == [Top EXCEPT !.pc = "mode", !.fw = NoFirmware, !.linked = FALSE,
                                !.part = part]
             t == Tail(slots)
  <2>1. slots' = <<new>> \o t
    BY <1>1, <1>6 DEF Fill
  <2>2. part \in Source /\ (part # NoFirmware => FetchedFrom(2, part))
    BY <1>3, <1>4 DEF Source
  <2> HIDE DEF part
  <2>3. /\ new \in Slot /\ new.pc = "mode" /\ new.part = part /\ new.dev = Top.dev
        /\ new.alone = Top.alone /\ new.shown = Top.shown
    BY <1>2, <2>2, FilledSlot
  <2>4. Touched(t, Tail(slots), names)
    BY <1>2, NothingUnlinked
  <2> HIDE DEF new, names, t
  <2>5. new.pc \notin Calls /\ ~Downloading(new)
    BY <2>3 DEF Calls, Downloading
  <2>6. new.pc \in Filled /\ new.part # NoFirmware => FetchedFrom(2, new.part)
    BY <2>2, <2>3
  <2>7. SlotsType' /\ StackInv' /\ slots' # <<>> /\ Top' = new
    BY <1>1, <1>2, <1>4, <2>1, <2>3, <2>4, <2>5, <2>6, Replaced
  <2>8. /\ UDInv' /\ UNCHANGED <<switching, m_updateDevices>>
        /\ GetCurrentUpdateDevice' = GetCurrentUpdateDevice
    BY <1>1, <1>2, SameManager
  <2>9. TopInv'
    BY <1>1, <1>2, <1>3, <2>3, <2>5, <2>7, <2>8 DEF TopInv
  <2>10. ComboInv' /\ CrashesNested'
    BY <1>1, <2>8, SameList DEF CrashesNested
  <2> QED
    BY <1>1, <1>4, <2>7, <2>8, <2>9, <2>10, Before, Assembled
<1> QED
  BY <1>5, <1>6

\* The file of a download is gone.
LEMMA ArrivedGoneInv ==
  ASSUME IInv, ArrivedGone
  PROVE  IInv'
<1>1. /\ ended = "no" /\ slots # <<>> /\ Downloading(Top) /\ End("IOError")
      /\ UNCHANGED <<udVars, cache, devicesCombo, slots, timers>>
  BY DEF ArrivedGone
<1>2. UDInv' /\ Top.pc \notin Calls
  BY <1>1, Before, SameManager, Fetcher
<1> QED
  BY <1>1, <1>2, EndInv DEF Ends

\* The first missing firmware is one of the list.
LEMMA MissingListed ==
  ASSUME NEW f, Missing(f) # {}
  PROVE  FirmwareNames[CHOOSE i \in Missing(f) : \A j \in Missing(f) : i <= j]
           \in Firmwares
<1>1. Missing(f) \subseteq DOMAIN FirmwareNames /\ Missing(f) \in SUBSET Nat
  BY GuiMainWindowAssumption DEF Missing
<1>2. \E i \in Missing(f) : \A j \in Missing(f) : i <= j
  BY <1>1, SmallestIndex
<1> QED
  BY <1>1, <1>2 DEF Firmwares

\* A download is begun in the place of a slot that looks for what is missing.
LEMMA AllNextInv ==
  ASSUME IInv, DownloadAllNext
  PROVE  IInv'
<1> DEFINE next == CHOOSE i \in Missing(Top.fw) : \A j \in Missing(Top.fw) : i <= j
           fw == FirmwareNames[next]
           begun == [Top EXCEPT !.pc = "downloadAll", !.fw = fw]
           new == [begun EXCEPT !.linked = TRUE]
           names == {begun.fw}
<1>1. /\ ended = "no" /\ slots # <<>> /\ Top.pc = "next" /\ Missing(Top.fw) # {}
      /\ StartDownload(begun, Tail(slots))
      /\ UNCHANGED <<udVars, devicesCombo, timers>>
  BY DEF DownloadAllNext, TopAt
<1>2. fw \in Firmwares
  BY <1>1, MissingListed
<1>3. Top \in Slot /\ switching.pc = "no" /\ cache \in [Firmwares -> File] /\ Top.pc \notin Calls
  BY <1>1, Fetcher
<1> HIDE DEF fw
<1>4. begun \in Slot /\ begun.pc = "downloadAll" /\ begun.fw = fw
  BY <1>2, <1>3, FetchingSlot DEF Source
<1>5. CASE End("IOError") /\ UNCHANGED <<cache, slots>>
  <2>1. UDInv'
    BY <1>1, Before, SameManager
  <2> QED
    BY <1>1, <1>3, <1>5, <2>1, EndInv DEF Ends
<1>6. CASE /\ cache' = [cache EXCEPT ![begun.fw] = "part"]
           /\ slots' = <<new>> \o Unlinked(Tail(slots), names)
           /\ UNCHANGED ended
  <2> HIDE DEF begun
  <2>1. new \in Slot /\ new.pc = "downloadAll" /\ new.fw = fw /\ new.linked
    BY <1>4, LinkedSlot
  <2> HIDE DEF new
  <2>2. new.pc \notin Calls \cup Filled /\ Downloading(new) /\ new.fw \in Firmwares
    BY <1>2, <2>1 DEF Calls, Filled, Downloading
  <2>3. cache' \in [Firmwares -> File]
    BY <1>2, <1>3, <1>4, <1>6 DEF File
  <2>4. \A f \in Firmwares : cache'[f] = "part" =>
          \/ /\ f \notin names /\ cache[f] = "part"
             /\ ~(Downloading(Top) /\ Top.fw = f /\ Top.linked)
          \/ Downloading(new) /\ new.fw = f /\ new.linked
    BY <1>1, <1>2, <1>3, <1>4, <1>6, <2>1, <2>2 DEF Downloading
  <2> HIDE DEF names
  <2> QED
    BY <1>1, <1>3, <1>6, <2>1, <2>2, <2>3, <2>4, DownloadGoesOn
<1> QED
  BY <1>1, <1>5, <1>6 DEF StartDownload

\* Nothing is missing any more, or a message box is closed.
LEMMA SlotReturnsInv ==
  ASSUME IInv, DownloadAllReturns \/ MessageClosed
  PROVE  IInv'
<1>1. /\ ended = "no" /\ slots # <<>> /\ Top.pc \in {"next", "message"}
      /\ Return \/ Message
      /\ UNCHANGED <<udVars, cache, devicesCombo, timers, ended>>
  BY DEF DownloadAllReturns, MessageClosed, TopAt
<1>2. UDInv /\ TopInv /\ timers \in Nat
  BY <1>1, Before
<1>3. switching.pc = "no" /\ ~Downloading(Top)
  BY <1>1, <1>2 DEF TopInv, Downloading
<1>4. UDInv' /\ UNCHANGED <<switching, m_updateDevices>>
  BY <1>1, <1>2, SameManager
<1> QED
  BY <1>1, <1>2, <1>3, <1>4, ReturnInv, MessageInv

-----------------------------------------------------------------------------
(* An upload that has its firmware                                         *)

\* The slot of an upload goes on as `new', if only to show a message.
LEMMA UploadGoesOn ==
  ASSUME IInv, ended = "no", slots # <<>>, Top.pc \in Filled, NEW new \in Slot,
         NEW t, Touched(t, Tail(slots), {}), slots' = <<new>> \o t,
         new.pc \in Filled \cup {"message"}, new.part \in {Top.part, NoFirmware},
         new.pc \in Calls => new.dev # NoDevice,
         UDInv', Top' = new => TopInv', ComboInv', devicesCombo' \in Combo,
         UNCHANGED <<cache, timers, ended>>
  PROVE  IInv'
<1>1. SlotsType /\ StackInv
  BY Before
<1> DEFINE names == {}
<1>2. Touched(t, Tail(slots), names)
  OBVIOUS
<1>3. \A f \in Firmwares : cache'[f] = "part" =>
        /\ f \notin names /\ cache[f] = "part"
        /\ ~(Downloading(Top) /\ Top.fw = f /\ Top.linked)
  BY DownloadingPc
<1> HIDE DEF names
<1>4. new.part # NoFirmware => FetchedFrom(2, new.part)
  BY <1>1 DEF StackInv, PartNested
<1>5. ~Downloading(new)
  BY DEF Downloading, Filled, Calls
<1>6. SlotsType' /\ StackInv' /\ Top' = new
  BY <1>1, <1>2, <1>3, <1>4, <1>5, Replaced
<1>7. CrashesNested'
  BY DEF CrashesNested
<1> QED
  BY <1>6, <1>7, Before, SameCache, Assembled

\* An upload that runs knows its slot.
LEMMA Uploader ==
  ASSUME IInv, ended = "no", slots # <<>>, Top.pc \in Filled
  PROVE  /\ Top \in Slot /\ UDInv /\ TopInv /\ SlotsType /\ ~Downloading(Top)
         /\ timers \in Nat /\ devicesCombo \in Combo
         /\ Tail(slots) \in Seq(Slot)
<1>1. ~Downloading(Top)
  BY DownloadingPc
<1> QED
  BY <1>1, Before, Popped DEF SlotsType

\* What knows nothing of a scan that went on in a slot.
LEMMA TopMessage ==
  ASSUME switching'.pc = "no", Top' = MessageSlot
  PROVE  TopInv'
BY MessageFields, TopElsewhere

\* An updater for what is current in the list as it is after the step, or a message.
LEMMA NewUpdaterInv ==
  ASSUME IInv, ended = "no", slots # <<>>, Top.pc \in {"mode", "switch"}, NewUpdater,
         UDInv', switching'.pc = "no", ComboInv', devicesCombo' \in Combo,
         UNCHANGED <<cache, timers, ended>>,
         Top.alone /\ GetCurrentUpdateDevice' # NoDevice =>
           /\ IsUpdateMode(GetCurrentUpdateDevice')
           /\ Top.shown # NoDevice =>
                ~IsUpdateMode(Top.shown) \/ GetCurrentUpdateDevice' = Top.shown
  PROVE  IInv'
<1>1. Top \in Slot /\ Tail(slots) \in Seq(Slot) /\ Top.pc \in Filled
  BY Uploader DEF Filled
<1> DEFINE t == Tail(slots)
           current == GetCurrentUpdateDevice'
<1>2. Touched(t, Tail(slots), {})
  BY <1>1, NothingUnlinked
<1>3. CASE Message
  <2>1. slots' = <<MessageSlot>> \o t
    BY <1>3 DEF Message, TopBecomes
  <2>2. /\ MessageSlot \in Slot /\ MessageSlot.pc \in Filled \cup {"message"}
        /\ MessageSlot.part \in {Top.part, NoFirmware} /\ MessageSlot.pc \notin Calls
    BY MessageFields
  <2>3. Top' = MessageSlot => TopInv'
    BY TopMessage
  <2> DEFINE new == MessageSlot
  <2> HIDE DEF t, new
  <2>4. /\ new \in Slot /\ new.pc \in Filled \cup {"message"} /\ slots' = <<new>> \o t
        /\ new.part \in {Top.part, NoFirmware} /\ new.pc \notin Calls
        /\ Top' = new => TopInv'
    BY <2>1, <2>2, <2>3 DEF new
  <2> QED
    BY <1>1, <1>2, <2>4, UploadGoesOn
<1>4. CASE ~Message
  <2> DEFINE new == [Top EXCEPT !.pc = "writeFirmware", !.dev = current]
  <2>1. slots' = <<new>> \o t /\ current # NoDevice
    BY <1>4 DEF NewUpdater, TopBecomes, GetCurrentUpdateDevice
  <2>2. current \in DevicesOf(m_updateDevices')
    BY <2>1, CurrentListed DEF UDInv, UpdateDevicesTypeOK, GetCurrentUpdateDevice
  <2>3. current \in Device
    BY <2>2, ElementOfSeq DEF UDInv, UpdateDevicesTypeOK, DevicesOf
  <2> HIDE DEF current
  <2>4. "writeFirmware" \in SlotPc \cap Filled \cap Calls
    BY DEF SlotPc, Filled, Calls
  <2>5. /\ new \in Slot /\ new.pc = "writeFirmware" /\ new.part = Top.part
        /\ new.dev = current /\ new.alone = Top.alone /\ new.shown = Top.shown
    <3>1. "writeFirmware" \in SlotPc /\ current \in Device \cup {NoDevice} /\ Top \in Slot
      BY <1>1, <2>3, <2>4
    <3> QED
      BY <3>1 DEF Slot
  <2> HIDE DEF new, t
  <2>6. Top' = new => TopInv'
    <3> SUFFICES ASSUME Top' = new PROVE TopInv'
      OBVIOUS
    <3>1. Top.alone =>
            /\ IsUpdateMode(current)
            /\ Top.shown # NoDevice => ~IsUpdateMode(Top.shown) \/ current = Top.shown
      BY <2>1 DEF current
    <3> QED
      BY <2>2, <2>5, <3>1 DEF TopInv
  <2> QED
    BY <1>1, <1>2, <2>1, <2>4, <2>5, <2>6, UploadGoesOn
<1> QED
  BY <1>3, <1>4

\* The board of an upload is in update mode, or the current one is.
LEMMA ModeInv ==
  ASSUME IInv, UploadUpdateMode \/ UploadSwitch
  PROVE  IInv'
<1>1. /\ ended = "no" /\ slots # <<>> /\ Top.pc = "mode"
      /\ UNCHANGED <<cache, devicesCombo, timers, ended>>
  BY DEF UploadUpdateMode, UploadSwitch, TopAt
<1>2. /\ Top \in Slot /\ UDInv /\ TopInv /\ devicesCombo \in Combo
      /\ Tail(slots) \in Seq(Slot)
  BY <1>1, Uploader DEF Filled
<1>3. switching.pc = "no"
  BY <1>1, <1>2 DEF TopInv
<1>4. CASE UNCHANGED udVars /\ NewUpdater
  <2>1. /\ UDInv' /\ UNCHANGED <<switching, m_updateDevices>>
        /\ GetCurrentUpdateDevice' = GetCurrentUpdateDevice
    BY <1>2, <1>4, SameManager
  <2>2. ComboInv'
    BY <1>1, <2>1, SameList
  <2>3. Top.alone => /\ Top.dev = GetCurrentUpdateDevice /\ Top.dev # NoDevice
                     /\ Top.shown \in {Top.dev, NoDevice}
    BY <1>1, <1>2 DEF TopInv
  <2>4. Top.alone => IsUpdateMode(Top.dev)
    <3>1. CASE UploadUpdateMode
      BY <2>3, <3>1 DEF UploadUpdateMode, ModeRead
    <3>2. CASE IsUpdateMode(GetCurrentUpdateDevice)
      BY <2>3, <3>2
    <3>3. CASE UploadSwitch
      <4>1. ~BeginSwitch
        BY <1>4 DEF BeginSwitch, udVars, Switching, UDInv, UpdateDevicesTypeOK, Idle
      <4> QED
        BY <3>2, <3>3, <4>1 DEF UploadSwitch
    <3> QED
      BY <3>1, <3>3
  <2> QED
    BY <1>1, <1>2, <1>3, <1>4, <2>1, <2>2, <2>3, <2>4, NewUpdaterInv
<1>5. CASE BeginSwitch /\ UploadSwitch /\ ~(UNCHANGED udVars /\ NewUpdater)
  <2> DEFINE new == [Top EXCEPT !.pc = "switch", !.dev = NoDevice]
             t == Tail(slots)
  <2>1. /\ FALSE \in ModeRead /\ slots' = <<new>> \o t
    BY <1>5 DEF UploadSwitch, TopBecomes
  <2>2. "switch" \in SlotPc
    BY DEF SlotPc
  <2>3. /\ new \in Slot /\ new.pc = "switch" /\ new.part = Top.part
        /\ new.alone = Top.alone /\ new.shown = Top.shown
    BY <1>2, <2>2 DEF Slot
  <2>4. Touched(t, Tail(slots), {})
    BY <1>2, NothingUnlinked
  <2> HIDE DEF new, t
  <2>5. UDInv' /\ switching'.pc = "trying" /\ UNCHANGED m_updateDevices
    BY <1>2, <1>5, ClientStepInv DEF BeginSwitch
  <2>6. ComboInv'
    BY <1>1, <2>5, SameList
  <2>7. Top.alone /\ Top.shown # NoDevice => ~IsUpdateMode(Top.shown)
    BY <1>1, <1>2, <2>1 DEF TopInv, ModeRead
  <2>8. Top' = new => TopInv'
    BY <2>1, <2>3, <2>5, <2>7, EmptySeq DEF TopInv, Calls, Top
  <2>9. new.pc \in Filled /\ new.pc \notin Calls /\ Top.pc \in Filled
    BY <1>1, <2>3 DEF Filled, Calls
  <2> QED
    BY <1>1, <1>2, <2>1, <2>3, <2>4, <2>5, <2>6, <2>8, <2>9, UploadGoesOn
<1> QED
  BY <1>4, <1>5 DEF UploadUpdateMode, UploadSwitch

\* A slot that asks a device that is not there was not alone.
LEMMA CrashInv ==
  ASSUME IInv, UploadCrashes
  PROVE  IInv'
<1>1. /\ ended = "no" /\ slots # <<>> /\ Top.pc = "mode"
      /\ UNCHANGED <<udVars, cache, devicesCombo, slots, timers>>
      /\ Top.dev = NoDevice \/ GetCurrentUpdateDevice = NoDevice
  BY DEF UploadCrashes, TopAt
<1>2. UDInv /\ TopInv /\ Top.pc \notin Calls
  BY <1>1, Uploader DEF Filled, Calls
<1>3. UDInv' /\ ~Top.alone
  BY <1>1, <1>2, SameManager DEF TopInv
<1>4. PICK how \in {"freed", "NULL"} : End(how)
  BY DEF UploadCrashes
<1> QED
  BY <1>1, <1>2, <1>3, <1>4, EndInv DEF Ends

\* The updater writes; it may fail.
LEMMA WriteInv ==
  ASSUME IInv, WriteFirmware
  PROVE  IInv'
<1>1. /\ ended = "no" /\ slots # <<>> /\ Top.pc = "writeFirmware"
      /\ UNCHANGED <<udVars, cache, devicesCombo, timers, ended>>
  BY DEF WriteFirmware, TopAt
<1>2. /\ Top \in Slot /\ UDInv /\ TopInv /\ devicesCombo \in Combo /\ timers \in Nat
      /\ Tail(slots) \in Seq(Slot) /\ ~Downloading(Top) /\ Top.pc \in Filled /\ SlotsType
  BY <1>1, Uploader DEF Filled, Calls
<1>3. switching.pc = "no" /\ Top.dev \in DevicesOf(m_updateDevices)
  BY <1>1, <1>2 DEF TopInv, Calls
<1>4. /\ UDInv' /\ UNCHANGED <<switching, m_updateDevices>>
  BY <1>1, <1>2, SameManager
<1>5. CASE Message
  BY <1>1, <1>2, <1>3, <1>4, <1>5, MessageInv
<1>6. CASE ~Message
  <2> DEFINE new == [Top EXCEPT !.pc = "startDevice"]
             t == Tail(slots)
  <2>1. slots' = <<new>> \o t
    BY <1>6 DEF WriteFirmware, TopBecomes
  <2>2. "startDevice" \in SlotPc \cap Filled \cap Calls
    BY DEF SlotPc, Filled, Calls
  <2>3. /\ new \in Slot /\ new.pc = "startDevice" /\ new.part = Top.part /\ new.dev = Top.dev
    BY <1>2, <2>2 DEF Slot
  <2>4. Touched(t, Tail(slots), {})
    BY <1>2, NothingUnlinked
  <2>5. Top.dev # NoDevice
    BY <1>1, <1>2, Popped DEF SlotsType, Top, Calls
  <2> HIDE DEF new, t
  <2>6. Top' = new => TopInv'
    BY <1>3, <1>4, <2>3 DEF TopInv
  <2>7. ComboInv'
    BY <1>1, <1>4, SameList
  <2> QED
    BY <1>1, <1>2, <1>4, <2>1, <2>2, <2>3, <2>4, <2>5, <2>6, <2>7, UploadGoesOn
<1> QED
  BY <1>5, <1>6

\* The board is started, and the slot returns; or an error is shown.
LEMMA StartInv ==
  ASSUME IInv, StartDevice
  PROVE  IInv'
<1>1. /\ ended = "no" /\ slots # <<>> /\ Top.pc = "startDevice" /\ (Return \/ Message)
      /\ UNCHANGED <<m_updateDevices, m_currentUpdateDevice, switching, cache, devicesCombo,
                     ended>>
      /\ timers' \in {timers, timers + 1}
  BY DEF StartDevice, TopAt
<1>2. /\ UDInv /\ TopInv /\ timers \in Nat /\ ~Downloading(Top) /\ Top.pc \in Calls
  BY <1>1, Uploader DEF Filled, Calls
<1>3. switching.pc = "no" /\ Top.dev \in DevicesOf(m_updateDevices)
  BY <1>1, <1>2 DEF TopInv, Calls
<1>4. UDInv'
  <2>1. CASE UNCHANGED busVars
    BY <1>1, <1>2, <2>1, SameManager DEF udVars
  <2>2. CASE \E m \in Mode : Restart(Top.dev.board, m)
    <3>1. Top.dev \in Device
      BY <1>2, <1>3, ElementOfSeq DEF UDInv, UpdateDevicesTypeOK, DevicesOf
    <3> QED
      BY <1>1, <1>2, <2>2, <3>1, RestartStep DEF Device
  <2> QED
    BY <2>1, <2>2 DEF StartDevice
<1>5. timers' \in Nat
  BY <1>1, <1>2
<1> QED
  BY <1>1, <1>2, <1>3, <1>4, <1>5, ReturnInv, MessageInv

\* A box that was made from this very list is still fresh.
LEMMA NotRefreshedInv ==
  ASSUME devicesCombo \in Combo, ComboInv, NotRefreshed
  PROVE  devicesCombo' \in Combo /\ ComboInv'
<1> DEFINE kept == m_updateDevices' = m_updateDevices
<1>1. devicesCombo' = [devicesCombo EXCEPT !.fresh = @ /\ kept] /\ kept \in BOOLEAN
  BY DEF NotRefreshed
<1> HIDE DEF kept
<1>2. /\ devicesCombo' \in Combo /\ devicesCombo'.boards = devicesCombo.boards
      /\ devicesCombo'.fresh => devicesCombo.fresh /\ kept
  BY <1>1 DEF Combo
<1> QED
  BY <1>2 DEF ComboInv, kept

\* A slot that waits for the switch of its board.
LEMMA SwitchingWindowInv ==
  ASSUME IInv, UploadSwitching
  PROVE  IInv'
<1>1. /\ ended = "no" /\ slots # <<>> /\ Top.pc = "switch"
      /\ UNCHANGED <<cache, timers, ended>> /\ NotRefreshed
  BY DEF UploadSwitching, TopAt
<1>2. /\ Top \in Slot /\ UDInv /\ TopInv /\ devicesCombo \in Combo /\ timers \in Nat
      /\ Tail(slots) \in Seq(Slot) /\ Top.pc \in Filled /\ Top.pc \notin Calls
  BY <1>1, Uploader DEF Filled, Calls
<1>3. ComboInv' /\ devicesCombo' \in Combo
  <2>1. ComboInv
    BY <1>1, Before
  <2> QED
    BY <1>1, <1>2, <2>1, NotRefreshedInv
<1>4. UDInv'
  BY <1>2, SwitchStepInv DEF UploadSwitching, SwitchStep
<1>5. Top.alone => Top.shown = NoDevice \/ ~IsUpdateMode(Top.shown)
  BY <1>1, <1>2 DEF TopInv
<1> DEFINE d == Disturbed(Tail(slots), TRUE)
<1>6. Touched(d, Tail(slots), {})
  BY <1>2, DisturbedTouched
<1> HIDE DEF d
<1>7. CASE SwitchRestarts /\ UNCHANGED slots
  <2>1. switching'.pc = "trying"
    BY <1>7 DEF SwitchRestarts
  <2>2. SlotsType' /\ StackInv' /\ Top' = Top
    BY <1>1, <1>7, Before, KeptStack
  <2>3. TopInv'
    BY <1>1, <1>2, <1>5, <1>7, <2>1, <2>2 DEF TopInv, Calls
  <2>4. CrashesNested'
    BY <1>1 DEF CrashesNested
  <2> QED
    BY <1>1, <1>2, <1>3, <1>4, <2>2, <2>3, <2>4, Before, SameCache, Assembled
<1>8. CASE SwitchThrows /\ slots' = <<MessageSlot>> \o d
  <2>1. switching'.pc = "no"
    BY <1>8 DEF SwitchThrows, NotSwitching
  <2> DEFINE new == MessageSlot
  <2>2. /\ new \in Slot /\ new.pc \in Filled \cup {"message"} /\ slots' = <<new>> \o d
        /\ new.part \in {Top.part, NoFirmware} /\ new.pc \notin Calls
        /\ Top' = new => TopInv'
    BY <1>8, <2>1, MessageFields, TopMessage
  <2> HIDE DEF new
  <2> QED
    BY <1>1, <1>2, <1>3, <1>4, <1>6, <2>2, UploadGoesOn
<1>9. CASE SwitchScans /\ slots' = <<Top>> \o d
  <2>1. switching'.pc = "restore"
    BY <1>9 DEF SwitchScans
  <2> DEFINE new == Top
  <2>2. /\ new \in Slot /\ new.pc \in Filled /\ slots' = <<new>> \o d
        /\ new.part = Top.part /\ new.pc \notin Calls
    BY <1>2, <1>9
  <2>3. Top' = new => TopInv'
    <3>1. slots' # <<>>
      BY <2>2, <1>6, Pushed DEF Touched
    <3> QED
      BY <1>1, <1>2, <1>5, <2>1, <3>1 DEF TopInv, Calls
  <2> HIDE DEF new
  <2> QED
    BY <1>1, <1>2, <1>3, <1>4, <1>6, <2>2, <2>3, UploadGoesOn
<1>10. CASE SwitchReturns /\ NewUpdater
  <2>1. switching'.pc = "no" /\ UNCHANGED m_updateDevices /\ switching.pc = "restore"
    BY <1>10 DEF SwitchReturns, NotSwitching
  <2>2. ASSUME GetCurrentUpdateDevice' # NoDevice
        PROVE  IsUpdateMode(GetCurrentUpdateDevice')
    <3>1. GetCurrentUpdateDevice' \in DevicesOf(m_updateDevices')
      BY <1>4, <2>2, CurrentListed DEF UDInv, UpdateDevicesTypeOK, GetCurrentUpdateDevice
    <3> QED
      BY <1>2, <2>1, <3>1 DEF UDInv, SwitchingInv, DevicesOf
  <2> QED
    BY <1>1, <1>3, <1>4, <1>5, <1>10, <2>1, <2>2, NewUpdaterInv
<1> QED
  BY <1>7, <1>8, <1>9, <1>10 DEF UploadSwitching, d

-----------------------------------------------------------------------------
(* An upload that is clicked                                               *)

\* A slot `new' begins, of an upload that knows the current device.
LEMMA SlotBegins ==
  ASSUME IInv, UserMay, Len(slots) < MaxDepth, UDInv',
         UNCHANGED <<m_updateDevices, switching, devicesCombo, timers, ended>>,
         NEW new \in Slot, NEW t, NEW names,
         Touched(t, slots, names), \A i \in 1 .. Len(slots) : ~t[i].alone,
         slots' = <<new>> \o t, new.pc \in {"download", "mode", "message"},
         Downloading(new) => new.fw \in Firmwares,
         \A f \in Firmwares : cache'[f] = "part" =>
           \/ f \notin names /\ cache[f] = "part"
           \/ Downloading(new) /\ new.fw = f /\ new.linked,
         new.part # NoFirmware => FetchedFrom(1, new.part),
         cache' \in [Firmwares -> File],
         new.pc # "message" => /\ new.dev = GetCurrentUpdateDevice' /\ new.dev # NoDevice
                               /\ new.shown \in {new.dev, NoDevice}
  PROVE  IInv'
<1>1. /\ switching.pc = "no" /\ ended = "no"
      /\ slots # <<>> => Downloading(Top) /\ Top.pc \notin Calls
  BY UserIdle
<1>2. SlotsType /\ StackInv /\ new.pc \notin Calls
  BY Before DEF Calls
<1>3. SlotsType' /\ StackInv' /\ slots' # <<>> /\ Top' = new
  BY <1>1, <1>2, Begun
<1>4. TopInv'
  BY <1>1, <1>2, <1>3 DEF TopInv
<1>5. ComboInv' /\ CrashesNested'
  BY <1>1, SameList DEF CrashesNested
<1> QED
  BY <1>3, <1>4, <1>5, Before, Assembled

\* What an upload knows when it begins.
LEMMA UploadSlotFields ==
  ASSUME NEW pc \in SlotPc, NEW fw \in Source,
         UploadDevice \in Device \cup {NoDevice}
  PROVE  LET s == UploadSlot(pc, fw)
         IN  /\ s \in Slot /\ s.pc = pc /\ s.fw = fw /\ s.part = NoFirmware
             /\ s.dev = UploadDevice /\ s.shown \in {s.dev, NoDevice}
<1> DEFINE n == NewSlot(pc, fw)
           dev == UploadDevice
           shown == IF devicesCombo.fresh THEN dev ELSE NoDevice
<1>1. n \in Slot /\ n.pc = pc /\ n.fw = fw /\ n.part = NoFirmware
  BY NewSlotFields
<1>2. UploadSlot(pc, fw) = [n EXCEPT !.dev = dev, !.shown = shown]
  BY DEF UploadSlot
<1>3. dev \in Device \cup {NoDevice} /\ shown \in {dev, NoDevice}
  OBVIOUS
<1> HIDE DEF n, dev, shown
<1>4. LET s == [n EXCEPT !.dev = dev, !.shown = shown]
      IN  /\ s \in Slot /\ s.pc = pc /\ s.fw = fw /\ s.part = NoFirmware
          /\ s.dev = dev /\ s.shown \in {s.dev, NoDevice}
  BY <1>1, <1>3 DEF Slot
<1> QED
  BY <1>2, <1>4 DEF dev

\* The program goes on after a click, with no slot for it.
LEMMA NoSlotBegins ==
  ASSUME IInv, UserMay, UDInv', slots' = Disturbed(slots, FALSE),
         UNCHANGED <<m_updateDevices, switching, devicesCombo, timers, ended, cache>>
  PROVE  IInv'
<1>1. /\ switching.pc = "no" /\ ended = "no"
      /\ slots # <<>> => Downloading(Top) /\ Top.pc \notin Calls
  BY UserIdle
<1>2. SlotsType /\ StackInv /\ slots \in Seq(Slot)
  BY Before DEF SlotsType
<1> DEFINE names == {}
<1>3. Touched(slots', slots, names) /\ \A i \in 1 .. Len(slots) : ~slots'[i].alone
  BY <1>2, DisturbedTouched
<1>4. \A f \in Firmwares : cache'[f] = "part" => f \notin names /\ cache[f] = "part"
  OBVIOUS
<1> HIDE DEF names
<1>5. /\ SlotsType' /\ StackInv' /\ (slots' = <<>> <=> slots = <<>>)
      /\ slots # <<>> => Top'.pc = Top.pc
  BY <1>1, <1>2, <1>3, <1>4, Stayed
<1>6. slots # <<>> => ~Top'.alone
  <2>1. slots # <<>> => 1 \in 1 .. Len(slots)
    BY <1>2, Popped
  <2> QED
    BY <1>3, <2>1 DEF Top
<1>7. TopInv'
  BY <1>1, <1>5, <1>6, TopElsewhere DEF Downloading
<1>8. ComboInv' /\ CrashesNested'
  BY <1>1, SameList DEF CrashesNested
<1> QED
  BY <1>1, <1>5, <1>7, <1>8, Before, SameCache, Assembled

\* A message at once.
LEMMA MessageBegins ==
  ASSUME IInv, UserMay, Len(slots) < MaxDepth, UDInv',
         UNCHANGED <<m_updateDevices, switching, devicesCombo, timers, ended, cache>>,
         slots' = <<MessageSlot>> \o Disturbed(slots, FALSE)
  PROVE  IInv'
<1> DEFINE new == MessageSlot
           t == Disturbed(slots, FALSE)
           names == {}
<1>1. slots \in Seq(Slot) /\ cache \in [Firmwares -> File]
  BY Before DEF SlotsType
<1>2. Touched(t, slots, names) /\ \A i \in 1 .. Len(slots) : ~t[i].alone
  BY <1>1, DisturbedTouched
<1>3. /\ new \in Slot /\ new.pc = "message" /\ new.part = NoFirmware /\ ~Downloading(new)
      /\ slots' = <<new>> \o t
  BY MessageFields
<1>4. \A f \in Firmwares : cache'[f] = "part" => f \notin names /\ cache[f] = "part"
  OBVIOUS
<1> HIDE DEF new, t, names
<1> QED
  BY <1>1, <1>2, <1>3, <1>4, SlotBegins

\* A dialog, before which some files may have been removed.
LEMMA DialogInv ==
  ASSUME IInv, NEW gone \in SUBSET Firmwares, ShowDialog(gone)
  PROVE  IInv'
<1> DEFINE new == MessageSlot
           d == Disturbed(slots, FALSE)
           t == Unlinked(d, gone)
<1>1. /\ UserMay /\ Len(slots) < MaxDepth /\ UNCHANGED <<udVars, devicesCombo, timers, ended>>
      /\ cache' = [f \in Firmwares |-> IF f \in gone THEN "none" ELSE cache[f]]
      /\ slots' = <<new>> \o t
  BY DEF ShowDialog
<1>2. UDInv' /\ UNCHANGED <<m_updateDevices, switching, devicesCombo, timers, ended>>
  BY <1>1, SameManager DEF IInv
<1>3. slots \in Seq(Slot) /\ cache \in [Firmwares -> File]
  BY Before DEF SlotsType
<1>4. Touched(d, slots, gone) /\ \A i \in 1 .. Len(slots) : ~d[i].alone
  BY <1>3, DisturbedTouched
<1> HIDE DEF d
<1>5. Touched(t, d, gone) /\ \A i \in 1 .. Len(d) : t[i].alone = d[i].alone
  BY <1>4, UnlinkedTouched DEF Touched
<1>6. Touched(t, slots, gone) /\ \A i \in 1 .. Len(slots) : ~t[i].alone
  BY <1>4, <1>5, TouchedTwice DEF Touched
<1>7. new \in Slot /\ new.pc = "message" /\ new.part = NoFirmware /\ ~Downloading(new)
  BY MessageFields
<1>8. cache' \in [Firmwares -> File]
  BY <1>1, <1>3 DEF File
<1>9. \A f \in Firmwares : cache'[f] = "part" => f \notin gone /\ cache[f] = "part"
  BY <1>1
<1> HIDE DEF new, t
<1> QED
  BY <1>1, <1>2, <1>6, <1>7, <1>8, <1>9, SlotBegins

\* A firmware, or a part of one that an outer slot still writes, is read at once.
LEMMA FillBegins ==
  ASSUME IInv, UserMay, Len(slots) < MaxDepth, UDInv',
         UNCHANGED <<m_updateDevices, switching, devicesCombo, timers, ended, cache>>,
         NEW fw \in Firmwares, NEW slot \in Slot, slot.fw = fw,
         slot.dev = GetCurrentUpdateDevice', slot.dev # NoDevice,
         slot.shown \in {slot.dev, NoDevice},
         Fill(slot, cache[fw], Disturbed(slots, FALSE))
  PROVE  IInv'
<1> DEFINE t == Disturbed(slots, FALSE)
           names == {}
           part == IF cache[fw] = "part" THEN fw ELSE NoFirmware
           new == [slot EXCEPT !.pc = "mode", !.fw = NoFirmware, !.linked = FALSE,
                               !.part = part]
<1>1. CASE slots' = <<MessageSlot>> \o t
  BY <1>1, MessageBegins
<1>2. CASE slots' # <<MessageSlot>> \o t
  <2>1. slots \in Seq(Slot) /\ cache \in [Firmwares -> File] /\ StackInv
    BY Before DEF SlotsType
  <2>2. Touched(t, slots, names) /\ \A i \in 1 .. Len(slots) : ~t[i].alone
    BY <2>1, DisturbedTouched
  <2>3. slots' = <<new>> \o t
    BY <1>2 DEF Fill
  <2>4. part \in Source /\ (part # NoFirmware => FetchedFrom(1, part))
    BY <2>1 DEF Source, StackInv, PartFetched, FetchedFrom
  <2> HIDE DEF part
  <2>5. /\ new \in Slot /\ new.pc = "mode" /\ new.part = part /\ new.dev = slot.dev
        /\ new.shown = slot.shown
    BY <2>4, FilledSlot
  <2>6. \A f \in Firmwares : cache'[f] = "part" => f \notin names /\ cache[f] = "part"
    OBVIOUS
  <2> HIDE DEF new, t, names
  <2>7. ~Downloading(new) /\ (new.part # NoFirmware => FetchedFrom(1, new.part))
    BY <2>4, <2>5 DEF Downloading
  <2> QED
    BY <2>1, <2>2, <2>3, <2>5, <2>6, <2>7, SlotBegins
<1> QED
  BY <1>1, <1>2

\* The download of a firmware is begun.
LEMMA DownloadBegins ==
  ASSUME IInv, UserMay, Len(slots) < MaxDepth, UDInv',
         UNCHANGED <<m_updateDevices, switching, devicesCombo, timers, ended>>,
         NEW fw \in Firmwares, NEW slot \in Slot, slot.pc = "download", slot.fw = fw,
         slot.dev = GetCurrentUpdateDevice', slot.dev # NoDevice, slot.part = NoFirmware,
         slot.shown \in {slot.dev, NoDevice},
         cache' = [cache EXCEPT ![slot.fw] = "part"],
         slots' = <<[slot EXCEPT !.linked = TRUE]>>
                    \o Unlinked(Disturbed(slots, FALSE), {slot.fw})
  PROVE  IInv'
<1> DEFINE d == Disturbed(slots, FALSE)
           names == {slot.fw}
           t == Unlinked(d, names)
           new == [slot EXCEPT !.linked = TRUE]
<1>1. slots \in Seq(Slot) /\ cache \in [Firmwares -> File]
  BY Before DEF SlotsType
<1>2. Touched(d, slots, names) /\ \A i \in 1 .. Len(slots) : ~d[i].alone
  BY <1>1, DisturbedTouched
<1> HIDE DEF d, names
<1>3. /\ Touched(t, d, names)
      /\ \A i \in 1 .. Len(d) : t[i].alone = d[i].alone
  BY <1>2, UnlinkedTouched DEF Touched
<1>4. slots' = <<new>> \o t
  BY DEF d, names
<1> HIDE DEF t
<1>5. Touched(t, slots, names) /\ \A i \in 1 .. Len(slots) : ~t[i].alone
  BY <1>2, <1>3, TouchedTwice DEF Touched
<1>6. /\ new \in Slot /\ new.linked /\ new.pc = "download" /\ new.fw = fw
      /\ new.dev = slot.dev /\ new.shown = slot.shown /\ new.part = NoFirmware
  BY LinkedSlot
<1> HIDE DEF new
<1>7. Downloading(new) /\ cache' \in [Firmwares -> File]
  BY <1>1, <1>6 DEF Downloading, File
<1>8. \A f \in Firmwares : cache'[f] = "part" =>
        \/ f \notin names /\ cache[f] = "part"
        \/ Downloading(new) /\ new.fw = f /\ new.linked
  BY <1>1, <1>6, <1>7 DEF names
<1>9. /\ new \in Slot /\ new.pc \in {"download", "mode", "message"}
      /\ Downloading(new) => new.fw \in Firmwares
      /\ new.part # NoFirmware => FetchedFrom(1, new.part)
      /\ new.pc # "message" => /\ new.dev = GetCurrentUpdateDevice' /\ new.dev # NoDevice
                               /\ new.shown \in {new.dev, NoDevice}
  BY <1>6
<1> HIDE DEF names
<1> QED
  BY <1>4, <1>5, <1>7, <1>8, <1>9, SlotBegins

\* A click on "upload".
LEMMA ClickedInv ==
  ASSUME IInv, NEW deviceIndex \in ItemData, UploadClicked(deviceIndex)
  PROVE  IInv'
<1>1. /\ UserMay /\ Len(slots) < MaxDepth /\ Idle /\ Select(deviceIndex)
      /\ UNCHANGED <<busVars, m_updateDevices, switching, devicesCombo, timers>>
      /\ UploadAsserts \/ UploadFile \/ \E fw \in Firmwares : UploadFirmware(fw)
  BY DEF UploadClicked
<1>2. /\ slots # <<>> => Downloading(Top) /\ Top.pc \notin Calls
      /\ devicesCombo \in Combo /\ UDInv /\ timers \in Nat
  BY <1>1, UserIdle, Before
<1>3. UDInv'
  <2>1. deviceIndex \in Nat
    BY <1>2 DEF ItemData, Combo
  <2>2. SetCurrentUpdateDevice(deviceIndex)
    BY <1>1 DEF SetCurrentUpdateDevice
  <2> QED
    BY <1>2, <2>1, <2>2, ClientStepInv
<1>4. UploadDevice = GetCurrentUpdateDevice' /\ UploadDevice \in Device \cup {NoDevice}
  <2>1. UploadDevice = GetCurrentUpdateDevice'
    BY <1>1 DEF UploadDevice, GetCurrentUpdateDevice
  <2>2. UploadDevice # NoDevice => UploadDevice \in DevicesOf(m_updateDevices')
    BY <1>3, <2>1, CurrentListed DEF UDInv, UpdateDevicesTypeOK, GetCurrentUpdateDevice
  <2> QED
    BY <1>3, <2>1, <2>2, ElementOfSeq DEF UDInv, UpdateDevicesTypeOK, DevicesOf
<1>5. CASE End("IOError") /\ UNCHANGED <<cache, slots>>
  BY <1>1, <1>2, <1>3, <1>5, EndInv DEF Ends
<1>6. CASE UploadAsserts
  BY <1>1, <1>2, <1>3, <1>6, EndInv DEF Ends, UploadAsserts
<1>7. CASE UploadFile
  <2>1. UNCHANGED <<cache, ended>> /\ UploadDevice # NoDevice
    BY <1>7 DEF UploadFile
  <2>2. CASE slots' = Disturbed(slots, FALSE)
    BY <1>1, <1>3, <2>1, <2>2, NoSlotBegins
  <2>3. CASE slots' = <<MessageSlot>> \o Disturbed(slots, FALSE)
    BY <1>1, <1>3, <2>1, <2>3, MessageBegins
  <2>4. CASE slots' = <<UploadSlot("mode", NoFirmware)>> \o Disturbed(slots, FALSE)
    <3> DEFINE new == UploadSlot("mode", NoFirmware)
               t == Disturbed(slots, FALSE)
               names == {}
    <3>1. slots \in Seq(Slot) /\ cache \in [Firmwares -> File]
      BY Before DEF SlotsType
    <3>2. Touched(t, slots, names) /\ \A i \in 1 .. Len(slots) : ~t[i].alone
      BY <3>1, DisturbedTouched
    <3>3. /\ new \in Slot /\ new.pc = "mode" /\ new.part = NoFirmware
          /\ new.dev = UploadDevice /\ new.shown \in {new.dev, NoDevice}
      BY <1>4, UploadSlotFields DEF SlotPc, Source
    <3>4. \A f \in Firmwares : cache'[f] = "part" => f \notin names /\ cache[f] = "part"
      BY <2>1
    <3>5. slots' = <<new>> \o t
      BY <2>4
    <3> HIDE DEF new, t, names
    <3>6. ~Downloading(new)
      BY <3>3 DEF Downloading
    <3> QED
      BY <1>1, <1>3, <1>4, <2>1, <3>1, <3>2, <3>3, <3>4, <3>5, <3>6, SlotBegins
  <2> QED
    BY <1>7, <2>2, <2>3, <2>4 DEF UploadFile
<1>8. ASSUME NEW fw \in Firmwares, UploadFirmware(fw), ~End("IOError")
      PROVE  IInv'
  <2>1. UploadDevice # NoDevice
    BY <1>8 DEF UploadFirmware
  <2>2. CASE cache[fw] = "none"
    <3> DEFINE slot == UploadSlot("download", fw)
    <3>1. /\ slot \in Slot /\ slot.pc = "download" /\ slot.fw = fw /\ slot.part = NoFirmware
          /\ slot.dev = UploadDevice /\ slot.shown \in {slot.dev, NoDevice}
      BY <1>4, UploadSlotFields DEF SlotPc, Source
    <3>2. /\ cache' = [cache EXCEPT ![slot.fw] = "part"]
          /\ slots' = <<[slot EXCEPT !.linked = TRUE]>>
                        \o Unlinked(Disturbed(slots, FALSE), {slot.fw})
          /\ UNCHANGED ended
      BY <1>8, <2>2 DEF UploadFirmware, StartDownload
    <3> HIDE DEF slot
    <3> QED
      BY <1>1, <1>3, <1>4, <2>1, <3>1, <3>2, DownloadBegins
  <2>3. CASE cache[fw] # "none"
    <3> DEFINE slot == UploadSlot("mode", fw)
    <3>1. /\ slot \in Slot /\ slot.fw = fw
          /\ slot.dev = UploadDevice /\ slot.shown \in {slot.dev, NoDevice}
      BY <1>4, UploadSlotFields DEF SlotPc, Source
    <3>2. Fill(slot, cache[fw], Disturbed(slots, FALSE)) /\ UNCHANGED <<cache, ended>>
      BY <1>8, <2>3 DEF UploadFirmware
    <3> HIDE DEF slot
    <3> QED
      BY <1>1, <1>3, <1>4, <2>1, <3>1, <3>2, FillBegins
  <2> QED
    BY <2>2, <2>3
<1> QED
  <2>1. ASSUME NEW fw \in Firmwares, UploadFirmware(fw), End("IOError")
        PROVE  UNCHANGED <<cache, slots>>
    <3>1. ended' # ended
      BY <1>1, <2>1 DEF End, UserMay
    <3> QED
      BY <2>1, <3>1 DEF UploadFirmware, StartDownload, End
  <2> QED
    BY <1>1, <1>5, <1>6, <1>7, <1>8, <2>1

-----------------------------------------------------------------------------
(* The invariant is inductive                                              *)

\* A refresh that is clicked, or for which a timer has expired.
LEMMA RefreshesInv ==
  ASSUME IInv, RefreshClicked \/ TimerFires
  PROVE  IInv'
<1>1. timers \in Nat /\ (ended = "no" => TopInv)
  BY Before
<1>2. timers' \in Nat /\ RefreshDevices /\ ended = "no"
  BY <1>1 DEF RefreshClicked, TimerFires, UserMay, TimersRun, TopAt
<1>3. slots # <<>> => Top.pc \notin Calls
  <2>1. CASE UserMay
    BY <2>1, UserIdle
  <2>2. CASE TopAt("message") \/ TopAt("switch")
    BY <2>2 DEF TopAt, Calls
  <2> QED
    BY <2>1, <2>2 DEF RefreshClicked, TimerFires, TimersRun
<1> QED
  BY <1>2, <1>3, RefreshInv

\* The bus is none of the window's business.
LEMMA WindowBusInv ==
  ASSUME IInv, WindowBusStep
  PROVE  IInv'
<1>1. /\ UNCHANGED <<cache, devicesCombo, slots, timers, ended>> /\ BusStep
      /\ UNCHANGED <<m_updateDevices, m_currentUpdateDevice, switching>> /\ ended = "no"
  BY DEF WindowBusStep, BusStep, window
<1>2. UDInv' /\ TopInv
  BY <1>1, Before, BusStepInv
<1>3. SlotsType' /\ StackInv' /\ Top' = Top
  BY <1>1, Before, KeptStack
<1>4. TopInv' /\ ComboInv' /\ CrashesNested'
  BY <1>1, <1>2, <1>3, SameList DEF TopInv, GetCurrentUpdateDevice, CrashesNested
<1> QED
  BY <1>1, <1>2, <1>3, <1>4, Before, SameCache, Assembled

\* IInv is an invariant.
LEMMA WindowInductive ==
  WindowSpec => []IInv
<1>1. WindowInit => IInv
  <2> SUFFICES ASSUME WindowInit PROVE IInv
    OBVIOUS
  <2>1. UDInv /\ slots = <<>> /\ Len(slots) = 0 /\ slots \in Seq(Slot)
    BY InitUD, EmptySeq DEF WindowInit
  <2>2. TypeOK
    BY <2>1, GuiMainWindowAssumption, LenProperties
       DEF WindowInit, TypeOK, UDInv, File, Combo, Ends
  <2>3. StackInv
    BY <2>1 DEF WindowInit, StackInv, Nested, Fetching, PartFetched, PartNested
  <2>4. TopInv /\ ComboInv /\ CrashesNested
    BY <2>1, EmptySeq
       DEF WindowInit, Init, NotSwitching, TopInv, ComboInv, CrashesNested
  <2> QED
    BY <2>1, <2>2, <2>3, <2>4 DEF IInv
<1>2. IInv /\ [WindowNext]_vars => IInv'
  <2> SUFFICES ASSUME IInv, [WindowNext]_vars PROVE IInv'
    OBVIOUS
  <2>1. CASE UNCHANGED vars
    <3>1. UNCHANGED udVars /\ UNCHANGED <<cache, devicesCombo, slots, timers, ended>>
      BY <2>1 DEF vars, window
    <3>2. /\ UDInv' /\ UNCHANGED <<switching, m_updateDevices>>
          /\ GetCurrentUpdateDevice' = GetCurrentUpdateDevice
      BY <3>1, Before, SameManager
    <3>3. SlotsType' /\ StackInv' /\ Top' = Top
      BY <3>1, Before, KeptStack
    <3>4. (ended' = "no" => (TopInv' /\ ComboInv')) /\ CrashesNested'
      BY <3>1, <3>2, <3>3 DEF IInv, TopInv, ComboInv, CrashesNested
    <3> QED
      BY <3>1, <3>2, <3>3, <3>4, Before, SameCache, Assembled
  <2>2. CASE UserStep
    BY <2>2, RefreshesInv, CacheClickInv, SlotReturnsInv, DialogInv, ClickedInv DEF UserStep
  <2>3. CASE DownloadStep
    BY <2>3, ArrivesInv, ArrivedGoneInv, FailsInv, AllArrivesInv DEF DownloadStep
  <2>4. CASE SlotStep
    BY <2>4, AllNextInv, SlotReturnsInv, ModeInv, CrashInv, SwitchingWindowInv, WriteInv,
       StartInv DEF SlotStep
  <2> QED
    BY <2>1, <2>2, <2>3, <2>4, RefreshesInv, WindowBusInv DEF WindowNext
<1> QED
  BY <1>1, <1>2, PTL DEF WindowSpec

-----------------------------------------------------------------------------
(* The theorems                                                            *)

\* The types, and that no slot calls an updater without its device.
THEOREM WindowTypes ==
  WindowSpec => []TypeOK
BY WindowInductive, PTL DEF IInv

\* An upload in which no other slot has run writes to bootloaders only, and to the board
\* that was shown, if that was in update mode.
THEOREM RightBoardWritten ==
  WindowSpec => []AloneWritesRight
<1>1. IInv => AloneWritesRight
  <2> SUFFICES ASSUME IInv, Writing, Top.alone
               PROVE  /\ Reachable(Top.dev) => mode[Top.dev.board] = Bootloader
                      /\ Top.shown # NoDevice =>
                           ~IsUpdateMode(Top.shown) \/ Top.dev = Top.shown
    BY DEF AloneWritesRight
  <2>1. TopInv /\ UDInv /\ slots # <<>> /\ Top.pc = "writeFirmware"
    BY Before DEF Writing, TopAt
  <2>2. Top.dev \in DevicesOf(m_updateDevices) /\ IsUpdateMode(Top.dev)
    BY <2>1 DEF TopInv, Calls
  <2>3. Top.dev \in Device
    BY <2>1, <2>2, ElementOfSeq DEF UDInv, UpdateDevicesTypeOK, DevicesOf
  <2>4. Reachable(Top.dev) => mode[Top.dev.board] = Bootloader
    BY <2>1, <2>2, <2>3, ReachableSame DEF Known, IsUpdateMode
  <2>5. Top.shown # NoDevice => ~IsUpdateMode(Top.shown) \/ Top.dev = Top.shown
    BY <2>1 DEF TopInv
  <2> QED
    BY <2>4, <2>5
<1> QED
  BY <1>1, WindowInductive, PTL

\* Whatever users, timers, network and boards do, the window needs nested slots or an
\* empty list of firmwares to crash.
THEOREM CrashesAreNested ==
  WindowSpec => []CrashesNested
BY WindowInductive, PTL DEF IInv

\* A part of a firmware is written only by a slot inside its download.
THEOREM PartsAreNested ==
  WindowSpec => []PartWrittenNested
<1>1. IInv => PartWrittenNested
  <2>1. "writeFirmware" \in Filled
    BY DEF Filled, Calls
  <2> QED
    BY <2>1, Before DEF PartWrittenNested, Writing, TopAt, StackInv, PartNested, FetchedFrom
<1> QED
  BY <1>1, WindowInductive, PTL

\* Nothing but the click of an upload ends at the assertion.
LEMMA OnlyClicksAssert ==
  ASSUME WindowNext, ended = "no", ended' = "assert"
  PROVE  \E deviceIndex \in ItemData : UploadClicked(deviceIndex) /\ UploadDevice = NoDevice
<1>1. ~RefreshDevices
  BY DEF RefreshDevices, End
<1>2. ~RefreshClicked /\ ~TimerFires
  BY <1>1 DEF RefreshClicked, TimerFires
<1>3. /\ ~CacheDownloadAll /\ ~CacheDelete /\ ~MessageClosed
      /\ \A gone \in SUBSET Firmwares : ~ShowDialog(gone)
  BY DEF CacheDownloadAll, CacheDelete, FirmwareSelected, MessageClosed, ShowDialog
<1>4. ~DownloadStep
  BY DEF DownloadStep, DownloadArrives, ArrivedGone, End, DownloadFails, DownloadAllArrives,
         DownloadAllFails
<1>5. ~SlotStep
  BY DEF SlotStep, DownloadAllNext, StartDownload, End, DownloadAllReturns, UploadUpdateMode,
         UploadSwitch, UploadCrashes, UploadSwitching, WriteFirmware, StartDevice
<1>6. ~WindowBusStep
  BY DEF WindowBusStep, window
<1>7. PICK deviceIndex \in ItemData : UploadClicked(deviceIndex)
  BY <1>2, <1>3, <1>4, <1>5, <1>6 DEF WindowNext, UserStep
<1>8. ASSUME NEW fw \in Firmwares, UploadFirmware(fw) PROVE FALSE
  BY <1>8 DEF UploadFirmware, StartDownload, End
<1>9. UploadAsserts
  BY <1>7, <1>8 DEF UploadClicked, UploadFile
<1> QED
  BY <1>7, <1>9 DEF UploadAsserts

\* A box that shows the list that the manager has never offers what makes the
\* assertion of uploadFirmware() fail.
THEOREM FreshBoxNeverAsserts ==
  WindowSpec => AssertsWhenStale
<1>1. IInv /\ [WindowNext]_vars =>
        [ended = "no" /\ ended' = "assert" => ~devicesCombo.fresh]_vars
  <2> SUFFICES ASSUME IInv, WindowNext, ended = "no", ended' = "assert", devicesCombo.fresh
               PROVE  FALSE
    OBVIOUS
  <2>1. PICK deviceIndex \in ItemData :
          UploadClicked(deviceIndex) /\ UploadDevice = NoDevice
    BY OnlyClicksAssert
  <2>2. /\ UDInv /\ devicesCombo.boards = Len(m_updateDevices)
        /\ m_updateDevices \in Seq(Device)
    BY Before DEF ComboInv, UDInv, UpdateDevicesTypeOK
  <2>3. Len(m_updateDevices) \in Nat
    BY <2>2, LenProperties
  <2>4. deviceIndex \in 0 .. Len(m_updateDevices) - 1
    BY <2>1, <2>2 DEF ItemData
  <2>5. m_currentUpdateDevice' = deviceIndex
    BY <2>1, <2>4 DEF UploadClicked, Select
  <2>6. deviceIndex + 1 \in 1 .. Len(m_updateDevices) /\ deviceIndex # -1
    BY <2>3, <2>4
  <2>7. UploadDevice = m_updateDevices[deviceIndex + 1]
    BY <2>4, <2>5, <2>6 DEF UploadDevice, CurrentDevice, GetDevice
  <2>8. UploadDevice \in Device
    BY <2>2, <2>6, <2>7, ElementOfSeq
  <2> QED
    BY <2>1, <2>8, NoDeviceAssumption
<1> QED
  BY <1>1, WindowInductive, PTL DEF WindowSpec, AssertsWhenStale
=============================================================================

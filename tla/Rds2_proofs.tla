---------------------------- MODULE Rds2_proofs -----------------------------
(***************************************************************************)
(* File transfers over RDS2, for any files, orders and CRC interval: the   *)
(* types, and that a file which is sent once ends only after all of its    *)
(* segments went out.                                                      *)
(***************************************************************************)
EXTENDS Rds2, SequenceTheorems, WellFoundedInduction, NaturalsInduction, TLAPS

SlotType == [app : Apps, data : {"zero", "small", "large"}]

LEMMA Positions ==
    ASSUME NEW T, NEW r \in Seq(T)
    PROVE  /\ Len(r) \in Nat /\ DOMAIN r = 1 .. Len(r)
           /\ \A i \in 1 .. Len(r) : i \in Nat \ {0} /\ r[i] \in T
BY LenProperties, ElementOfSeq

LEMMA LeastNumber ==
    ASSUME NEW S \in SUBSET Nat, S # {}
    PROVE  \E x \in S : \A y \in S : x <= y
<1> DEFINE R == {p \in Nat \X Nat : p[1] < p[2]}
<1>1. IsWellFoundedOn(R, Nat)
  BY NatLessThanWellFounded, Zenon DEF OpToRel
<1>2. PICK x \in S : \A y \in S : <<y, x>> \notin R
  <2> HIDE DEF R
  <2> QED
    BY <1>1, WFMin
<1>3. \A y \in S : ~(y < x)
  BY <1>2
<1> QED
  BY <1>3

-----------------------------------------------------------------------------
(* One file: stopped, given another order, given its slot.                  *)
LEMMA FileStopped ==
    ASSUME NEW r \in FileType
    PROVE  /\ Stopped(r) \in FileType
           /\ Stopped(r).seg = 0 /\ Stopped(r).segs = 0 /\ Stopped(r).aid = r.aid
           /\ Stopped(r).slot = IF r.aid # 0 THEN 0 ELSE r.slot
BY DEF Stopped, FileType

LEMMA FileCleared ==
    ASSUME file \in [Files -> FileType], NEW f \in Files, NEW o \in Orders
    PROVE  /\ Cleared(f, o) \in FileType
           /\ Same(f, o) => Cleared(f, o) = file[f]
           /\ ~Same(f, o) => Cleared(f, o).seg = 0 /\ Cleared(f, o).segs = 0
           /\ ~Same(f, o) => Cleared(f, o).slot = IF file[f].aid # 0 THEN 0 ELSE file[f].slot
<1>1. CASE Same(f, o)
  BY <1>1 DEF Cleared
<1>2. CASE ~Same(f, o)
  <2>1. PICK s \in FileType : s = Stopped(file[f]) /\ s.seg = 0 /\ s.segs = 0
                              /\ s.slot = IF file[f].aid # 0 THEN 0 ELSE file[f].slot
    BY FileStopped
  <2>2. Cleared(f, o) = [s EXCEPT !.aid = o.aid]
    BY <1>2, <2>1 DEF Cleared
  <2>3. o.aid \in Nat
    BY ConstantsAssumption
  <2> QED
    BY <1>2, <2>1, <2>2, <2>3 DEF FileType
<1> QED
  BY <1>1, <1>2

LEMMA FileLoaded ==
    ASSUME file \in [Files -> FileType], NEW f \in Files, NEW o \in Orders
    PROVE  /\ Loaded(f, o) \in FileType
           /\ Loaded(f, o).segs = o.segs /\ Loaded(f, o).seg = Cleared(f, o).seg
           /\ Loaded(f, o).slot = Cleared(f, o).slot
<1>1. PICK r \in FileType : r = Cleared(f, o)
  BY FileCleared
<1>2. PICK v \in 0 .. 7 : v = IF o.id = r.id THEN (r.version + 1) % 8 ELSE r.version
  <2>1. r.version \in 0 .. 7
    BY DEF FileType
  <2>2. (r.version + 1) % 8 \in 0 .. 7
    BY <2>1
  <2> QED
    BY <2>1, <2>2
<1>3. Loaded(f, o) = [r EXCEPT !.segs = o.segs, !.once = o.once, !.crc = o.crc, !.version = v]
  BY <1>1, <1>2 DEF Loaded, FileType
<1>4. o.segs \in Nat /\ o.once \in BOOLEAN /\ o.crc \in Sums
  BY ConstantsAssumption
<1> QED
  BY <1>1, <1>3, <1>4 DEF FileType

(* The room for a new application.                                          *)
LEMMA RoomIsNumber ==
    ASSUME NEW slots \in Seq(SlotType) PROVE Room(slots) \in Nat \ {0}
<1>1. PICK n \in Nat : n = Len(slots)
  BY Positions
<1> DEFINE R == {i \in 1 .. n + 1 : i <= n => slots[i].app = Nobody}
<1>2. n + 1 \in R
  OBVIOUS
<1>3. PICK k \in R : \A j \in R : k <= j
  <2>1. R \subseteq 1 .. n + 1 /\ 1 .. n + 1 \subseteq Nat
    OBVIOUS
  <2>2. R \subseteq Nat /\ R # {}
    <3> HIDE DEF R
    <3> QED
      BY <1>2, <2>1
  <2> HIDE DEF R
  <2> QED
    BY <2>2, LeastNumber
<1>4. \A j \in 1 .. k - 1 : slots[j].app # Nobody
  <2> SUFFICES ASSUME NEW j \in 1 .. k - 1 PROVE j \notin R /\ j \in 1 .. n
    OBVIOUS
  <2>1. k \in 1 .. n + 1
    OBVIOUS
  <2>2. j \in 1 .. n /\ ~(k <= j)
    <3> HIDE DEF R
    <3> QED
      BY <2>1
  <2>3. j \in R => k <= j
    <3> HIDE DEF R
    <3> QED
      BY <1>3
  <2> QED
    BY <2>2, <2>3
<1>5. k \in 1 .. n + 1 /\ (k <= n => slots[k].app = Nobody)
  OBVIOUS
<1>6. Room(slots) \in 1 .. n + 1
  BY <1>1, <1>4, <1>5 DEF Room
<1> QED
  BY <1>6

LEMMA SlotsWith ==
    ASSUME NEW slots \in Seq(SlotType), NEW i \in Nat, NEW s \in SlotType
    PROVE  With(slots, i, s) \in Seq(SlotType)
<1>1. Append(slots, s) \in Seq(SlotType)
  BY AppendProperties
<1>2. [slots EXCEPT ![i] = s] \in Seq(SlotType)
  <2>1. CASE i \in 1 .. Len(slots)
    BY <2>1, ExceptSeq
  <2>2. CASE i \notin 1 .. Len(slots)
    <3>1. [slots EXCEPT ![i] = s] = slots
      BY <2>2, Positions
    <3> QED
      BY <3>1
  <2> QED
    BY <2>1, <2>2
<1> QED
  BY <1>1, <1>2 DEF With

LEMMA SlotsFreed ==
    ASSUME TypeOK, NEW f \in Files PROVE Freed(f) \in Seq(SlotType)
<1>1. odas \in Seq(SlotType) /\ FreeSlot \in SlotType /\ file[f].slot \in Nat
  BY DEF TypeOK, SlotType, FreeSlot, Slot, Apps, FileType
<1>2. [odas EXCEPT ![file[f].slot] = FreeSlot] \in Seq(SlotType)
  <2>1. CASE file[f].slot \in 1 .. Len(odas)
    BY <1>1, <2>1, ExceptSeq
  <2>2. CASE file[f].slot \notin 1 .. Len(odas)
    <3>1. [odas EXCEPT ![file[f].slot] = FreeSlot] = odas
      BY <1>1, <2>2, Positions
    <3> QED
      BY <1>1, <3>1
  <2> QED
    BY <2>1, <2>2
<1> QED
  BY <1>1, <1>2 DEF Freed

LEMMA PointerPast ==
    ASSUME NEW p \in Nat \ {0}, NEW i PROVE Past(p, i) \in Nat \ {0}
BY DEF Past

-----------------------------------------------------------------------------
(* A file sent once that did not replace one under way has sent, since it   *)
(* was loaded, the segments before its position; no file is past its end.   *)
Progress(f) ==
    LET r == file[f]
    IN IF r.segs = 0 THEN r.seg = 0
       ELSE /\ r.seg < r.segs /\ got[f] \subseteq 0 .. r.segs - 1
            /\ r.once => 0 .. r.seg - 1 \subseteq got[f]
ProgressInv == \A f \in Files : f \notin replaced => Progress(f)

LEMMA ProgressSame ==
    ASSUME ProgressInv, UNCHANGED <<file, got, replaced>> PROVE ProgressInv'
BY DEF ProgressInv, Progress

(* A step that changes one file.                                            *)
LEMMA ProgressOne ==
    ASSUME TypeOK, ProgressInv, NEW f \in Files, NEW r \in FileType, NEW g \in SUBSET Nat,
           file' = [file EXCEPT ![f] = r], got' = [got EXCEPT ![f] = g],
           replaced' \ {f} = replaced \ {f},
           f \notin replaced' =>
              IF r.segs = 0 THEN r.seg = 0
              ELSE /\ r.seg < r.segs /\ g \subseteq 0 .. r.segs - 1
                   /\ r.once => 0 .. r.seg - 1 \subseteq g
    PROVE  ProgressInv' /\ file' \in [Files -> FileType] /\ got' \in [Files -> SUBSET Nat]
<1>1. /\ file'[f] = r /\ got'[f] = g
      /\ \A h \in Files : h # f => file'[h] = file[h] /\ got'[h] = got[h]
      /\ \A h \in Files : h # f => (h \in replaced' <=> h \in replaced)
  BY DEF TypeOK
<1>2. ASSUME NEW h \in Files, h \notin replaced' PROVE Progress(h)'
  <2>1. CASE h = f
    BY <1>1, <1>2, <2>1 DEF Progress
  <2>2. CASE h # f
    BY <1>1, <1>2, <2>2 DEF ProgressInv, Progress
  <2> QED
    BY <2>1, <2>2
<1> QED
  BY <1>2 DEF ProgressInv, TypeOK

-----------------------------------------------------------------------------
(* Calls of the API.                                                        *)
Inv == TypeOK /\ ProgressInv

LEMMA CommandCounted ==
    ASSUME TypeOK, Command
    PROVE  commands' \in 0 .. MaxCommands /\ commands' # commands
           /\ UNCHANGED <<streams, stream>>
BY ConstantsAssumption DEF Command, TypeOK

(* sendFile that loaded the order, whether it gets a slot or fails.         *)
LEMMA LoadInv ==
    ASSUME Inv, NEW f \in Files, NEW o \in Orders, Send(f, o), Load(f, o), NEW r \in FileType,
           r.segs = o.segs, r.seg = Cleared(f, o).seg, file' = [file EXCEPT ![f] = r],
           odas' \in Seq(SlotType)
    PROVE  Inv'
<1>1. /\ replaced' \subseteq Files /\ replaced' \ {f} = replaced \ {f}
      /\ Same(f, o) => (f \notin replaced' => f \notin replaced /\ file[f].segs = 0)
  BY DEF Load, Inv, TypeOK
<1>2. o.segs \in Nat
  BY ConstantsAssumption
<1>3. f \notin replaced' => r.seg = 0
  <2>1. CASE Same(f, o)
    <3>1. Cleared(f, o) = file[f]
      BY <2>1 DEF Cleared
    <3>2. f \notin replaced' => Progress(f) /\ file[f].segs = 0
      BY <1>1, <2>1 DEF Inv, ProgressInv
    <3> QED
      BY <3>1, <3>2 DEF Progress
  <2>2. CASE ~Same(f, o)
    BY <2>2, FileCleared DEF Inv, TypeOK
  <2> QED
    BY <2>1, <2>2
<1>4. f \notin replaced' =>
         IF r.segs = 0 THEN r.seg = 0
         ELSE /\ r.seg < r.segs /\ {} \subseteq 0 .. r.segs - 1
              /\ r.once => 0 .. r.seg - 1 \subseteq {}
  BY <1>2, <1>3
<1>5. ProgressInv' /\ file' \in [Files -> FileType] /\ got' \in [Files -> SUBSET Nat]
  <2>1. got' = [got EXCEPT ![f] = {}] /\ {} \in SUBSET Nat
    BY DEF Load
  <2> QED
    BY <1>1, <1>4, <2>1, ProgressOne DEF Inv
<1>6. pointer' \in Nat \ {0} /\ counter' = counter
  BY PointerPast DEF Send, Inv, TypeOK
<1>7. commands' \in 0 .. MaxCommands /\ UNCHANGED <<streams, stream>>
  BY CommandCounted DEF Send, Inv
<1> QED
  BY <1>1, <1>5, <1>6, <1>7 DEF Inv, TypeOK, SlotType

LEMMA SendInv ==
    ASSUME Inv, NEW f \in Files, NEW o \in Orders,
           SendFile(f, o) \/ SendFails(f, o) \/ SendNoFile(f, o)
    PROVE  Inv' /\ commands' # commands
<1>1. file \in [Files -> FileType] /\ odas \in Seq(SlotType) /\ Slots(f, o) \in Seq(SlotType)
  BY SlotsFreed DEF Inv, TypeOK, SlotType, Slots
<1>2. commands' # commands
  BY CommandCounted DEF SendFile, SendFails, SendNoFile, Send, Inv
<1>3. CASE SendNoFile(f, o)
  <2>1. PICK r \in FileType : r = Cleared(f, o)
    BY <1>1, FileCleared
  <2>2. /\ replaced' \subseteq Files /\ replaced' \ {f} = replaced \ {f}
        /\ Same(f, o) => replaced' = replaced
    BY <1>3 DEF SendNoFile, Inv, TypeOK
  <2>3. f \notin replaced' =>
         IF r.segs = 0 THEN r.seg = 0
         ELSE /\ r.seg < r.segs /\ got[f] \subseteq 0 .. r.segs - 1
              /\ r.once => 0 .. r.seg - 1 \subseteq got[f]
    <3>1. CASE Same(f, o)
      BY <1>1, <2>1, <2>2, <3>1, FileCleared DEF Inv, ProgressInv, Progress
    <3>2. CASE ~Same(f, o)
      BY <1>1, <2>1, <3>2, FileCleared
    <3> QED
      BY <3>1, <3>2
  <2>4. /\ file' = [file EXCEPT ![f] = r] /\ got' = [got EXCEPT ![f] = got[f]]
        /\ got[f] \in SUBSET Nat
    BY <1>3, <2>1 DEF SendNoFile, Inv, TypeOK
  <2>5. ProgressInv' /\ file' \in [Files -> FileType] /\ got' \in [Files -> SUBSET Nat]
    BY <2>2, <2>3, <2>4, ProgressOne DEF Inv
  <2>6. pointer' \in Nat \ {0} /\ counter' = counter /\ odas' \in Seq(SlotType)
    BY <1>1, <1>3, PointerPast DEF SendNoFile, Send, Inv, TypeOK
  <2>7. commands' \in 0 .. MaxCommands /\ UNCHANGED <<streams, stream>>
    BY <1>3, CommandCounted DEF SendNoFile, Send, Inv
  <2> QED
    BY <1>2, <2>2, <2>5, <2>6, <2>7 DEF Inv, TypeOK, SlotType
<1>4. CASE SendFails(f, o)
  <2>1. PICK r \in FileType : r = Loaded(f, o) /\ r.segs = o.segs /\ r.seg = Cleared(f, o).seg
    BY <1>1, FileLoaded
  <2> QED
    BY <1>1, <1>2, <1>4, <2>1, LoadInv DEF SendFails
<1>5. CASE SendFile(f, o)
  <2>1. PICK r \in FileType :
           /\ r = Loaded(f, o) /\ r.segs = o.segs /\ r.seg = Cleared(f, o).seg
           /\ r.slot = Cleared(f, o).slot
    BY <1>1, FileLoaded
  <2>2. PICK slots \in Seq(SlotType) : slots = Slots(f, o)
    BY <1>1
  <2>3. PICK i \in Nat : i = IF r.slot = 0 THEN Room(slots) ELSE r.slot
    <3>1. r.slot \in Nat
      BY DEF FileType
    <3> QED
      BY <3>1, RoomIsNumber
  <2>4. PICK done \in FileType :
           /\ done = [r EXCEPT !.slot = i, !.id = o.id, !.paused = FALSE]
           /\ done.segs = r.segs /\ done.seg = r.seg
    <3>1. o.id \in -1 .. 63
      BY ConstantsAssumption
    <3>2. PICK done : done = [r EXCEPT !.slot = i, !.id = o.id, !.paused = FALSE]
      OBVIOUS
    <3>3. done \in FileType /\ done.segs = r.segs /\ done.seg = r.seg
      BY <3>1, <3>2 DEF FileType
    <3> QED
      BY <3>2, <3>3
  <2>5. PICK who : who = IF r.slot = 0 THEN f ELSE slots[i].app
    OBVIOUS
  <2>6. /\ r.slot # 0 => Used(r.slot)
        /\ Send(f, o) /\ Load(f, o) /\ file' = [file EXCEPT ![f] = done]
        /\ odas' = With(slots, i, Slot(who, DataField(done)))
    BY <1>5, <2>1, <2>2, <2>3, <2>4, <2>5 DEF SendFile
  <2>7. who \in Apps
    <3>1. CASE r.slot = 0
      BY <2>5, <3>1 DEF Apps
    <3>2. CASE r.slot # 0
      <4>1. slots = odas
        <5>1. Cleared(f, o).slot # 0
          BY <2>1, <3>2
        <5>2. Same(f, o) \/ ~Holds(f)
          BY <1>1, <5>1, FileCleared DEF Holds
        <5> QED
          BY <2>2, <5>2 DEF Slots, Freed
      <4>2. i \in 1 .. Len(odas)
        BY <2>3, <2>6, <3>2 DEF Used
      <4>3. odas[i] \in SlotType
        BY <1>1, <4>2, Positions
      <4>4. odas[i].app \in Apps
        BY <4>3 DEF SlotType
      <4> QED
        BY <2>5, <3>2, <4>1, <4>4
    <3> QED
      BY <3>1, <3>2
  <2>8. Slot(who, DataField(done)) \in SlotType
    BY <2>7 DEF Slot, SlotType, DataField
  <2>9. odas' \in Seq(SlotType)
    BY <2>6, <2>8, SlotsWith
  <2> QED
    BY <1>2, <2>1, <2>4, <2>6, <2>9, LoadInv
<1> QED
  BY <1>3, <1>4, <1>5

LEMMA OtherCommandInv ==
    ASSUME Inv, \/ \E f \in Files : Stop(f) \/ Pause(f)
                \/ \E p \in Plain : Register(p) \/ Unregister(p)
                \/ OnState \/ CustomGroup
    PROVE  Inv' /\ (commands' # commands)
<1>1. file \in [Files -> FileType] /\ odas \in Seq(SlotType) /\ FreeSlot \in SlotType
  BY DEF Inv, TypeOK, SlotType, FreeSlot, Slot, Apps
<1>2. ASSUME NEW f \in Files, Stop(f) PROVE Inv' /\ commands' # commands
  <2>1. PICK r \in FileType : r = Stopped(file[f]) /\ r.seg = 0 /\ r.segs = 0
    BY <1>1, FileStopped
  <2>2. /\ file' = [file EXCEPT ![f] = r] /\ got' = [got EXCEPT ![f] = got[f]]
        /\ got[f] \in SUBSET Nat
        /\ replaced' \ {f} = replaced \ {f} /\ replaced' \subseteq Files
    BY <1>2, <2>1 DEF Stop, Inv, TypeOK
  <2>3. ProgressInv' /\ file' \in [Files -> FileType] /\ got' \in [Files -> SUBSET Nat]
    BY <2>1, <2>2, ProgressOne DEF Inv
  <2>4. pointer' \in Nat \ {0} /\ counter' = counter /\ odas' \in Seq(SlotType)
    BY <1>2, PointerPast, SlotsFreed DEF Stop, Inv, TypeOK
  <2>5. commands' \in 0 .. MaxCommands /\ commands' # commands /\ UNCHANGED <<streams, stream>>
    BY <1>2, CommandCounted DEF Stop, Inv
  <2> QED
    BY <2>2, <2>3, <2>4, <2>5 DEF Inv, TypeOK, SlotType
<1>3. ASSUME NEW f \in Files, Pause(f) PROVE Inv' /\ commands' # commands
  <2>1. PICK r \in FileType :
           /\ r = [file[f] EXCEPT !.paused = TRUE] /\ r.seg = file[f].seg
           /\ r.segs = file[f].segs /\ r.once = file[f].once
    <3>1. PICK old \in FileType : old = file[f]
      BY <1>1
    <3>2. PICK r : r = [old EXCEPT !.paused = TRUE]
      OBVIOUS
    <3>3. r \in FileType /\ r.seg = old.seg /\ r.segs = old.segs /\ r.once = old.once
      BY <3>2 DEF FileType
    <3> QED
      BY <3>1, <3>2, <3>3
  <2>2. /\ file' = [file EXCEPT ![f] = r] /\ got' = [got EXCEPT ![f] = got[f]]
        /\ got[f] \in SUBSET Nat /\ UNCHANGED <<odas, pointer, counter, replaced>>
    BY <1>3, <2>1 DEF Pause, Inv, TypeOK
  <2>3. ProgressInv' /\ file' \in [Files -> FileType] /\ got' \in [Files -> SUBSET Nat]
    BY <2>1, <2>2, ProgressOne DEF Inv, ProgressInv, Progress
  <2>4. commands' \in 0 .. MaxCommands /\ commands' # commands /\ UNCHANGED <<streams, stream>>
    BY <1>3, CommandCounted DEF Pause, Inv
  <2> QED
    BY <2>2, <2>3, <2>4 DEF Inv, TypeOK
<1>4. ASSUME Command, UNCHANGED <<file, got, replaced>>, pointer' \in Nat \ {0},
             counter' \in 0 .. AIDCOUNT, odas' \in Seq(SlotType)
      PROVE  Inv' /\ commands' # commands
  <2>1. commands' \in 0 .. MaxCommands /\ commands' # commands /\ UNCHANGED <<streams, stream>>
    BY <1>4, CommandCounted DEF Inv
  <2>2. ProgressInv'
    BY <1>4, ProgressSame DEF Inv
  <2> QED
    BY <1>4, <2>1, <2>2 DEF Inv, TypeOK, SlotType
<1>5. ASSUME NEW p \in Plain, Register(p) PROVE Inv' /\ commands' # commands
  <2>1. Slot(p, "zero") \in SlotType
    BY DEF Slot, SlotType, Apps
  <2>2. odas' \in Seq(SlotType)
    BY <1>1, <1>5, <2>1, SlotsWith, RoomIsNumber DEF Register
  <2> QED
    BY <1>4, <1>5, <2>2 DEF Register, Inv, TypeOK
<1>6. ASSUME NEW p \in Plain, Unregister(p) PROVE Inv' /\ commands' # commands
  <2>1. PICK i \in 1 .. Len(odas) : /\ Command /\ odas' = [odas EXCEPT ![i] = FreeSlot]
                                    /\ pointer' = Past(pointer, i)
                                    /\ UNCHANGED <<counter, file, got, replaced>>
    BY <1>6 DEF Unregister
  <2>2. odas' \in Seq(SlotType)
    BY <1>1, <2>1, ExceptSeq
  <2>3. pointer' \in Nat \ {0} /\ counter' \in 0 .. AIDCOUNT
    BY <2>1, PointerPast DEF Inv, TypeOK
  <2> QED
    BY <1>4, <2>1, <2>2, <2>3
<1>7. CASE OnState
  <2>1. odas' \in Seq(SlotType) /\ pointer' \in Nat \ {0} /\ counter' \in 0 .. AIDCOUNT
    BY <1>7, EmptySeq, ConstantsAssumption DEF OnState
  <2> QED
    BY <1>4, <1>7, <2>1 DEF OnState
<1>8. CASE CustomGroup
  <2>1. commands' \in 0 .. MaxCommands /\ commands' # commands
    BY <1>8, ConstantsAssumption DEF CustomGroup, Inv, TypeOK
  <2>2. stream' \in 1 .. streams /\ streams' = streams
    <3>1. streams \in Nat \ {0} /\ stream \in 1 .. streams
      BY ConstantsAssumption DEF Inv, TypeOK
    <3>2. stream % streams \in 0 .. streams - 1
      BY <3>1
    <3> QED
      BY <1>8, <3>1, <3>2 DEF CustomGroup
  <2>3. ProgressInv'
    BY <1>8, ProgressSame DEF CustomGroup, Inv
  <2> QED
    BY <1>8, <2>1, <2>2, <2>3 DEF CustomGroup, Inv, TypeOK
<1> QED
  BY <1>2, <1>3, <1>5, <1>6, <1>7, <1>8

-----------------------------------------------------------------------------
(* The hook: the places round the ring that it comes to.                    *)
LEMMA RoundInRange ==
    ASSUME odas \in Seq(SlotType), odas # <<>>, NEW p \in Nat \ {0}, NEW k \in Nat
    PROVE  Round(p, k) \in 1 .. Len(odas) /\ Wrap(p) \in 1 .. Len(odas)
<1>1. PICK n \in Nat : n = Len(odas)
  BY Positions
<1>2. n # 0
  BY <1>1, EmptySeq
<1>3. PICK m \in Nat : m = p - 1 + k
  OBVIOUS
<1>4. m % n \in 0 .. n - 1
  BY <1>2
<1>5. Round(p, k) \in 1 .. n
  BY <1>1, <1>3, <1>4 DEF Round
<1> QED
  BY <1>1, <1>2, <1>5 DEF Wrap

LEMMA CurrentInRange ==
    ASSUME odas \in Seq(SlotType), pointer \in Nat \ {0}, SomeUsed
    PROVE  odas # <<>> /\ Current \in 1 .. Len(odas)
<1>1. PICK i \in 1 .. Len(odas) : Used(i)
  BY DEF SomeUsed
<1>2. PICK n \in Nat : n = Len(odas) /\ i \in 1 .. n
  BY <1>1, Positions
<1>3. odas # <<>>
  BY <1>2, EmptySeq
<1>4. PICK p \in 1 .. n : p = Wrap(pointer)
  BY <1>2, <1>3, RoundInRange
<1> DEFINE K == {k \in 0 .. n - 1 : Used(Round(p, k))}
<1>5. K # {}
  <2>1. PICK d \in 0 .. n - 1 : p - 1 + d = i - 1 \/ p - 1 + d = (i - 1) + n
    <3>1. CASE i >= p
      <4>1. i - p \in 0 .. n - 1 /\ p - 1 + (i - p) = i - 1
        BY <1>2, <3>1
      <4> QED
        BY <4>1
    <3>2. CASE i < p
      <4>1. i - p + n \in 0 .. n - 1 /\ p - 1 + (i - p + n) = (i - 1) + n
        BY <1>2, <3>2
      <4> QED
        BY <4>1
    <3> QED
      BY <1>2, <3>1, <3>2
  <2>2. PICK m \in 0 .. n - 1 : m = i - 1
    BY <1>2
  <2>3. m % n = m /\ (m + n) % n = m
    OBVIOUS
  <2>4. (p - 1 + d) % n = m
    BY <2>1, <2>2, <2>3
  <2>5. Round(p, d) = i
    BY <1>2, <2>2, <2>4 DEF Round
  <2> QED
    BY <1>1, <2>5
<1>6. PICK k \in K : \A j \in K : k <= j
  <2>1. K \subseteq 0 .. n - 1 /\ 0 .. n - 1 \subseteq Nat
    OBVIOUS
  <2> HIDE DEF K
  <2>2. K \subseteq Nat
    BY <2>1
  <2> QED
    BY <1>5, <2>2, LeastNumber
<1>7. k \in 0 .. n - 1 /\ Used(Round(p, k))
  OBVIOUS
<1>8. \A j \in 0 .. k - 1 : ~Used(Round(p, j))
  <2> SUFFICES ASSUME NEW j \in 0 .. k - 1 PROVE j \notin K /\ j \in 0 .. n - 1
    OBVIOUS
  <2>1. j \in 0 .. n - 1 /\ ~(k <= j)
    <3> HIDE DEF K
    <3> QED
      BY <1>7
  <2>2. j \in K => k <= j
    <3> HIDE DEF K
    <3> QED
      BY <1>6
  <2> QED
    BY <2>1, <2>2
<1>9. PICK c \in 0 .. n - 1 : Current = Round(p, c)
  BY <1>2, <1>4, <1>7, <1>8 DEF Current
<1>10. p \in Nat \ {0} /\ c \in Nat
  OBVIOUS
<1>11. Round(p, c) \in 1 .. Len(odas)
  BY <1>3, <1>10, RoundInRange
<1> QED
  BY <1>3, <1>9, <1>11

LEMMA VisitInRange ==
    ASSUME odas \in Seq(SlotType), odas # <<>>, NEW c \in 1 .. Len(odas), NEW k \in Nat
    PROVE  Visit(c, k) \in 1 .. Len(odas) /\ After(c, k) \in Nat \ {0}
<1>1. Len(odas) \in Nat /\ c \in Nat \ {0} /\ c + 2 \in Nat \ {0} /\ c + 1 \in Nat \ {0}
  BY Positions
<1>2. CASE k = 0
  BY <1>1, <1>2 DEF Visit, After
<1>3. CASE k # 0
  <2>1. PICK j \in Nat : j = k - 1
    BY <1>3
  <2>2. PICK p \in Nat \ {0} : p = Wrap(c + 2)
    <3>1. PICK q \in Nat \ {0} : q = c + 2
      BY <1>1
    <3>2. Wrap(q) \in 1 .. Len(odas)
      BY RoundInRange, 0 \in Nat
    <3>3. 1 .. Len(odas) \subseteq Nat \ {0}
      BY <1>1
    <3> QED
      BY <3>1, <3>2, <3>3
  <2>3. Round(p, j) \in 1 .. Len(odas)
    BY RoundInRange
  <2>4. Visit(c, k) = Round(p, j)
    BY <1>3, <2>1, <2>2 DEF Visit
  <2> QED
    BY <1>1, <1>3, <2>3, <2>4 DEF After
<1> QED
  BY <1>2, <1>3

LEMMA AskedInRange ==
    ASSUME odas \in Seq(SlotType), NEW c PROVE Asked(c) \in 0 .. Len(odas)
<1>1. PICK n \in Nat : n = Len(odas)
  BY Positions
<1> DEFINE K == {k \in 0 .. n : k < n => ~Asks(c, k)}
<1>2. n \in K
  OBVIOUS
<1>3. PICK k \in K : \A j \in K : k <= j
  <2>1. K \subseteq 0 .. n /\ 0 .. n \subseteq Nat
    OBVIOUS
  <2> HIDE DEF K
  <2>2. K \subseteq Nat /\ K # {}
    BY <1>2, <2>1
  <2> QED
    BY <2>2, LeastNumber
<1>4. k \in 0 .. n /\ (k < n => ~Asks(c, k))
  OBVIOUS
<1>5. \A j \in 0 .. k - 1 : Asks(c, j)
  <2> SUFFICES ASSUME NEW j \in 0 .. k - 1 PROVE j \notin K /\ j \in 0 .. n
    OBVIOUS
  <2>1. j \in 0 .. n /\ ~(k <= j)
    <3> HIDE DEF K
    <3> QED
      BY <1>4
  <2>2. j \in K => k <= j
    <3> HIDE DEF K
    <3> QED
      BY <1>3
  <2> QED
    BY <2>1, <2>2
<1> QED
  BY <1>1, <1>4, <1>5 DEF Asked

-----------------------------------------------------------------------------
(* The answers of the hook.                                                 *)

(* An answer that leaves the registry and the files alone.                  *)
Kept == NoFileChange /\ pointer' \in Nat \ {0}

LEMMA IdleKept == ASSUME Inv, Idle PROVE Kept /\ counter' = counter
<1>1. odas \in Seq(SlotType) /\ pointer \in Nat \ {0}
  BY DEF Inv, TypeOK, SlotType
<1>2. pointer' \in Nat \ {0}
  BY <1>1, Positions DEF Idle, Wrap
<1> QED
  BY <1>2 DEF Idle, Kept

LEMMA AidKept ==
    ASSUME Inv, NEW c \in 1 .. Len(odas), Aid(c)
    PROVE  Kept /\ counter' \in 0 .. AIDCOUNT
<1>1. c \in Nat \ {0}
  BY Positions DEF Inv, TypeOK
<1>2. pointer' \in {c + 1, c + 2, c + 3}
  BY DEF Aid, Announce
<1>3. pointer' \in Nat \ {0}
  BY <1>1, <1>2
<1>4. counter' \in 0 .. AIDCOUNT /\ NoFileChange
  BY ConstantsAssumption DEF Aid
<1> QED
  BY <1>3, <1>4 DEF Kept

(* The handler of a file keeps the types and the progress of every file, and *)
(* ends only a file that is sent once and whole.                             *)
LEMMA CrcGroupInv ==
    ASSUME Inv, NEW f \in Files, NEW p \in Nat \ {0}, CrcGroup(f, p)
    PROVE  /\ ProgressInv' /\ file' \in [Files -> FileType] /\ got' \in [Files -> SUBSET Nat]
           /\ odas' = odas /\ pointer' \in Nat \ {0} /\ replaced' = replaced
           /\ \A g \in Files : file'[g].segs = file[g].segs
<1>1. PICK old \in FileType : old = file[f]
  BY DEF Inv, TypeOK
<1>2. old.chunk \in Nat
  BY DEF FileType
<1>3. PICK k \in Nat : k = IF old.chunk + 1 >= Chunks(file[f]) THEN 0 ELSE old.chunk + 1
  BY <1>2
<1>4. PICK r : r = [old EXCEPT !.crcSent = TRUE, !.chunk = k]
  OBVIOUS
<1>5. r \in FileType /\ r.seg = old.seg /\ r.segs = old.segs /\ r.once = old.once
  BY <1>4 DEF FileType
<1>6. file \in [Files -> FileType] /\ got \in [Files -> SUBSET Nat]
  BY DEF Inv, TypeOK
<1>7. file' = [file EXCEPT ![f] = r]
  BY <1>1, <1>3, <1>4, <1>6 DEF CrcGroup
<1>8. /\ got' = [got EXCEPT ![f] = got[f]] /\ got[f] \in SUBSET Nat
      /\ UNCHANGED <<odas, got, replaced>> /\ pointer' = p
  BY <1>6 DEF CrcGroup
<1>9. f \notin replaced' =>
         IF r.segs = 0 THEN r.seg = 0
         ELSE /\ r.seg < r.segs /\ got[f] \subseteq 0 .. r.segs - 1
              /\ r.once => 0 .. r.seg - 1 \subseteq got[f]
  BY <1>1, <1>5, <1>8 DEF Inv, ProgressInv, Progress
<1>10. ProgressInv' /\ file' \in [Files -> FileType] /\ got' \in [Files -> SUBSET Nat]
  BY <1>5, <1>7, <1>8, <1>9, ProgressOne DEF Inv
<1>11. \A g \in Files : file'[g].segs = file[g].segs
  BY <1>1, <1>5, <1>6, <1>7
<1> QED
  BY <1>8, <1>10, <1>11

LEMMA SegmentInv ==
    ASSUME Inv, NEW f \in Files, NEW p \in Nat \ {0}, Segment(f, p)
    PROVE  /\ ProgressInv' /\ file' \in [Files -> FileType] /\ got' \in [Files -> SUBSET Nat]
           /\ odas' \in Seq(SlotType) /\ pointer' \in Nat \ {0} /\ replaced' \subseteq Files
           /\ \A g \in Files :
                 file[g].segs # 0 /\ file'[g].segs = 0
                     => g \in replaced \/ got[g] \cup {air'.n} = 0 .. file[g].segs - 1
<1>1. PICK old \in FileType : old = file[f]
  BY DEF Inv, TypeOK
<1>2. old.seg \in Nat /\ old.segs \in Nat
  BY DEF FileType
<1>3. file \in [Files -> FileType] /\ got \in [Files -> SUBSET Nat] /\ replaced \subseteq Files
      /\ odas \in Seq(SlotType)
  BY DEF Inv, TypeOK, SlotType
<1>4. f \notin replaced =>
         IF old.segs = 0 THEN old.seg = 0
         ELSE /\ old.seg < old.segs /\ got[f] \subseteq 0 .. old.segs - 1
              /\ old.once => 0 .. old.seg - 1 \subseteq got[f]
  BY <1>1 DEF Inv, ProgressInv, Progress
<1>5. PICK r : r = [old EXCEPT !.crcSent = FALSE]
  OBVIOUS
<1>6. r \in FileType /\ r.seg = old.seg /\ r.segs = old.segs /\ r.once = old.once
  BY <1>5 DEF FileType
<1>7. air'.n = old.seg
  BY <1>1, <1>5, <1>6 DEF Segment, Answer
<1>8. CASE r.seg + 1 >= r.segs /\ r.once
  <2>1. PICK b : b = [r EXCEPT !.seg = 0]
    OBVIOUS
  <2>2. b \in FileType
    BY <1>6, <2>1 DEF FileType
  <2>3. PICK s \in FileType : s = Stopped(b) /\ s.seg = 0 /\ s.segs = 0
    BY <2>2, FileStopped
  <2>4. /\ file' = [file EXCEPT ![f] = s] /\ got' = [got EXCEPT ![f] = {}]
        /\ odas' = Freed(f) /\ pointer' = Past(p, r.slot) /\ replaced' = replaced \ {f}
    BY <1>1, <1>5, <1>8, <2>1, <2>3 DEF Segment
  <2>5. {} \in SUBSET Nat /\ replaced' \ {f} = replaced \ {f}
    BY <2>4
  <2>6. ProgressInv' /\ file' \in [Files -> FileType] /\ got' \in [Files -> SUBSET Nat]
    BY <2>3, <2>4, <2>5, ProgressOne DEF Inv
  <2>7. odas' \in Seq(SlotType) /\ pointer' \in Nat \ {0} /\ replaced' \subseteq Files
    BY <1>3, <2>4, SlotsFreed, PointerPast DEF Inv
  <2>8. f \notin replaced /\ old.segs # 0 => got[f] \cup {old.seg} = 0 .. old.segs - 1
    <3> SUFFICES ASSUME f \notin replaced, old.segs # 0
                 PROVE  got[f] \cup {old.seg} = 0 .. old.segs - 1
      OBVIOUS
    <3>1. /\ old.seg < old.segs /\ 0 .. old.seg - 1 \subseteq got[f]
          /\ got[f] \subseteq 0 .. old.segs - 1
      BY <1>4, <1>6, <1>8
    <3>2. old.segs - 1 = old.seg
      BY <1>2, <1>6, <1>8, <3>1
    <3>3. 0 .. old.seg = (0 .. old.seg - 1) \cup {old.seg}
      BY <1>2
    <3> QED
      BY <3>1, <3>2, <3>3
  <2>9. \A g \in Files : g # f => file'[g] = file[g]
    BY <1>3, <2>4
  <2> QED
    BY <1>1, <1>7, <2>6, <2>7, <2>8, <2>9
<1>9. CASE ~(r.seg + 1 >= r.segs /\ r.once)
  <2>1. PICK k \in Nat : k = IF r.seg + 1 >= r.segs THEN 0 ELSE r.seg + 1
    BY <1>2, <1>6
  <2>2. PICK s : s = [r EXCEPT !.seg = k]
    OBVIOUS
  <2>3. s \in FileType /\ s.seg = k /\ s.segs = r.segs /\ s.once = r.once
    BY <1>6, <2>2 DEF FileType
  <2>4. PICK h \in SUBSET Nat : h = IF r.once THEN got[f] \cup {r.seg} ELSE got[f]
    BY <1>2, <1>3, <1>6
  <2>5. file' = [file EXCEPT ![f] = s]
    BY <1>1, <1>5, <1>9, <2>1, <2>2 DEF Segment
  <2>6. got' = [got EXCEPT ![f] = h]
    BY <1>1, <1>3, <1>5, <1>9, <2>4 DEF Segment
  <2>7. pointer' = p /\ UNCHANGED <<odas, replaced>>
    BY <1>1, <1>5, <1>9 DEF Segment
  <2>8. f \notin replaced' =>
           IF s.segs = 0 THEN s.seg = 0
           ELSE /\ s.seg < s.segs /\ h \subseteq 0 .. s.segs - 1
                /\ s.once => 0 .. s.seg - 1 \subseteq h
    <3> SUFFICES ASSUME f \notin replaced
                 PROVE  IF s.segs = 0 THEN s.seg = 0
                        ELSE /\ s.seg < s.segs /\ h \subseteq 0 .. s.segs - 1
                             /\ s.once => 0 .. s.seg - 1 \subseteq h
      BY <2>7
    <3>1. CASE old.segs = 0
      BY <1>2, <1>6, <2>1, <2>3, <3>1
    <3>2. CASE old.segs # 0
      <4>1. /\ old.seg < old.segs /\ got[f] \subseteq 0 .. old.segs - 1
            /\ old.once => 0 .. old.seg - 1 \subseteq got[f]
        BY <1>4, <3>2
      <4>2. k < old.segs /\ (k = 0 \/ k - 1 = old.seg)
        BY <1>2, <1>6, <2>1, <3>2
      <4>3. 0 .. k - 1 \subseteq (0 .. old.seg - 1) \cup {old.seg}
        BY <1>2, <4>2
      <4>4. s.once => 0 .. k - 1 \subseteq h
        BY <1>6, <2>3, <2>4, <4>1, <4>3
      <4>5. old.seg \in 0 .. old.segs - 1
        BY <1>2, <4>1
      <4>6. h \subseteq 0 .. old.segs - 1
        BY <1>6, <2>4, <4>1, <4>5
      <4> QED
        BY <1>6, <2>3, <3>2, <4>2, <4>4, <4>6
    <3> QED
      BY <3>1, <3>2
  <2>9. ProgressInv' /\ file' \in [Files -> FileType] /\ got' \in [Files -> SUBSET Nat]
    BY <2>3, <2>5, <2>6, <2>7, <2>8, ProgressOne DEF Inv
  <2>10. \A g \in Files : file'[g].segs = file[g].segs
    BY <1>1, <1>3, <1>6, <2>3, <2>5
  <2> QED
    BY <1>3, <2>7, <2>9, <2>10
<1> QED
  BY <1>8, <1>9

LEMMA DataInv ==
    ASSUME Inv, odas # <<>>, NEW c \in 1 .. Len(odas), NEW k \in 0 .. Len(odas), Data(c, k)
    PROVE  /\ ProgressInv' /\ file' \in [Files -> FileType] /\ got' \in [Files -> SUBSET Nat]
           /\ odas' \in Seq(SlotType) /\ pointer' \in Nat \ {0} /\ counter' \in 0 .. AIDCOUNT
           /\ replaced' \subseteq Files
           /\ \A g \in Files :
                 file[g].segs # 0 /\ file'[g].segs = 0
                     => g \in replaced \/ got[g] \cup {air'.n} = 0 .. file[g].segs - 1
<1>1. odas \in Seq(SlotType) /\ replaced \subseteq Files
  BY DEF Inv, TypeOK, SlotType
<1>2. counter' \in 0 .. AIDCOUNT
  BY ConstantsAssumption DEF Data, Inv, TypeOK
<1>3. k \in Nat /\ k + 1 \in Nat /\ Len(odas) \in Nat /\ c + 1 \in Nat \ {0}
  BY <1>1, Positions
<1>4. 1 .. Len(odas) \subseteq Nat \ {0}
  BY <1>3
<1>5. ASSUME Kept
      PROVE  /\ ProgressInv' /\ file' \in [Files -> FileType] /\ got' \in [Files -> SUBSET Nat]
             /\ odas' \in Seq(SlotType) /\ pointer' \in Nat \ {0} /\ replaced' \subseteq Files
             /\ \A g \in Files : file'[g].segs = file[g].segs
  BY <1>1, <1>5, ProgressSame DEF Kept, NoFileChange, Inv, TypeOK
<1>6. CASE k = Len(odas)
  <2>1. pointer' = Visit(c, Len(odas)) /\ NoFileChange
    BY <1>6 DEF Data, NoneHasData
  <2>2. Visit(c, Len(odas)) \in 1 .. Len(odas)
    BY <1>1, <1>3, VisitInRange
  <2> QED
    BY <1>2, <1>4, <1>5, <2>1, <2>2 DEF Kept
<1>7. CASE k # Len(odas)
  <2>1. PICK app : app = odas[Visit(c, k)].app
    OBVIOUS
  <2>2. PICK p \in Nat \ {0} : p = After(c, k)
    BY <1>1, <1>3, VisitInRange
  <2>3. IF app \in Files THEN CrcGroup(app, p) \/ Segment(app, p) ELSE NoHandler(c, k)
    BY <1>7, <2>1, <2>2 DEF Data
  <2>4. CASE app \in Files /\ CrcGroup(app, p)
    BY <1>1, <1>2, <2>4, CrcGroupInv
  <2>5. CASE app \in Files /\ Segment(app, p)
    BY <1>2, <2>5, SegmentInv
  <2>6. CASE NoHandler(c, k)
    <3>1. NoFileChange /\ pointer' \in {c + 1, Visit(c, k), Visit(c, k + 1)}
      BY <2>6 DEF NoHandler
    <3>2. Visit(c, k) \in 1 .. Len(odas) /\ Visit(c, k + 1) \in 1 .. Len(odas)
      BY <1>1, <1>3, VisitInRange
    <3> QED
      BY <1>2, <1>3, <1>4, <1>5, <3>1, <3>2 DEF Kept
  <2> QED
    BY <2>3, <2>4, <2>5, <2>6
<1> QED
  BY <1>6, <1>7

LEMMA HookInv ==
    ASSUME Inv, Hook
    PROVE  /\ Inv'
           /\ \A g \in Files :
                 file[g].segs # 0 /\ file'[g].segs = 0
                     => g \in replaced \/ got[g] \cup {air'.n} = 0 .. file[g].segs - 1
<1>1. UNCHANGED <<streams, commands>> /\ stream' \in 1 .. streams
  <2>1. streams \in Nat \ {0} /\ stream \in 1 .. streams
    BY ConstantsAssumption DEF Inv, TypeOK
  <2>2. stream % streams \in 0 .. streams - 1
    BY <2>1
  <2> QED
    BY <2>1, <2>2 DEF Hook
<1>2. ASSUME Kept, counter' \in 0 .. AIDCOUNT
      PROVE  Inv' /\ \A g \in Files : file'[g].segs = file[g].segs
  <2>1. ProgressInv'
    BY <1>2, ProgressSame DEF Kept, NoFileChange, Inv
  <2> QED
    BY <1>1, <1>2, <2>1 DEF Kept, NoFileChange, Inv, TypeOK
<1>3. CASE ~SomeUsed
  <2>1. Kept /\ counter' \in 0 .. AIDCOUNT
    BY <1>3, IdleKept DEF Hook, Inv, TypeOK
  <2> QED
    BY <1>2, <2>1
<1>4. CASE SomeUsed
  <2>1. odas \in Seq(SlotType) /\ pointer \in Nat \ {0}
    BY DEF Inv, TypeOK, SlotType
  <2>2. PICK c \in 1 .. Len(odas) : c = Current
    BY <1>4, <2>1, CurrentInRange
  <2>3. odas # <<>>
    BY <1>4, <2>1, CurrentInRange
  <2>4. PICK k \in 0 .. Len(odas) : k = Asked(c)
    BY <2>1, AskedInRange
  <2>5. Aid(c) \/ Data(c, k)
    BY <1>4, <2>2, <2>4 DEF Hook
  <2>6. CASE Aid(c)
    <3>1. Kept /\ counter' \in 0 .. AIDCOUNT
      BY <2>6, AidKept
    <3> QED
      BY <1>2, <3>1
  <2>7. CASE Data(c, k)
    <3>1. /\ ProgressInv' /\ file' \in [Files -> FileType] /\ got' \in [Files -> SUBSET Nat]
          /\ odas' \in Seq(SlotType) /\ pointer' \in Nat \ {0} /\ counter' \in 0 .. AIDCOUNT
          /\ replaced' \subseteq Files
          /\ \A g \in Files :
                file[g].segs # 0 /\ file'[g].segs = 0
                    => g \in replaced \/ got[g] \cup {air'.n} = 0 .. file[g].segs - 1
      BY <2>3, <2>7, DataInv
    <3> QED
      BY <1>1, <3>1 DEF Inv, TypeOK, SlotType
  <2> QED
    BY <2>5, <2>6, <2>7
<1> QED
  BY <1>3, <1>4

-----------------------------------------------------------------------------
(* A file that the start-up script sent is at its start.                    *)
LEMMA StartedTyped ==
    ASSUME NEW i \in Nat
    PROVE  /\ Started(StartOrder, i) \in FileType /\ Started(StartOrder, i).seg = 0
           /\ DataField(Started(StartOrder, i)) \in {"zero", "small", "large"}
<1>1. PICK o \in [aid : Nat \ {0}, id : 0 .. 63, segs : Nat, crc : Sums, once : BOOLEAN] :
         o = StartOrder
  BY ConstantsAssumption
<1>2. /\ o.aid \in Nat /\ o.id \in -1 .. 63 /\ o.segs \in Nat /\ o.crc \in Sums
      /\ o.once \in BOOLEAN
  <2>1. o.id \in 0 .. 63
    OBVIOUS
  <2> QED
    BY <2>1
<1>3. NewFile \in FileType /\ NewFile.seg = 0
  BY DEF NewFile, FileType, Sums
<1>4. PICK n \in FileType : n = NewFile
  BY <1>3
<1>5. PICK r : r = [n EXCEPT !.slot = i, !.aid = o.aid, !.id = o.id, !.segs = o.segs,
                             !.crc = o.crc, !.once = o.once]
  OBVIOUS
<1>6. r \in FileType /\ r.seg = n.seg
  BY <1>2, <1>5 DEF FileType
<1>7. Started(StartOrder, i) = r
  BY <1>1, <1>4, <1>5 DEF Started
<1> QED
  BY <1>3, <1>4, <1>6, <1>7 DEF DataField

LEMMA InitInv == Init => Inv
<1> SUFFICES ASSUME Init PROVE Inv
  OBVIOUS
<1>1. NewFile \in FileType /\ NewFile.segs = 0 /\ NewFile.seg = 0
  BY DEF NewFile, FileType, Sums
<1>2. PICK q \in AtStart : InitWith(q)
  BY DEF Init
<1>3. q \in Seq(Files) /\ Len(q) \in Nat
  BY ConstantsAssumption
<1>4. ASSUME NEW f \in Files PROVE file[f] \in FileType /\ file[f].seg = 0
  <2>1. CASE \E i \in 1 .. Len(q) : q[i] = f
    <3>1. PICK i \in 1 .. Len(q) : i = CHOOSE j \in 1 .. Len(q) : q[j] = f
      BY <2>1
    <3>2. file[f] = Started(StartOrder, i)
      BY <1>2, <2>1, <3>1 DEF InitWith
    <3>3. i \in Nat
      BY <1>3
    <3> QED
      BY <3>2, <3>3, StartedTyped
  <2>2. CASE ~\E i \in 1 .. Len(q) : q[i] = f
    <3>1. file[f] = NewFile
      BY <1>2, <2>2 DEF InitWith
    <3> QED
      BY <1>1, <3>1
  <2> QED
    BY <2>1, <2>2
<1>5. file \in [Files -> FileType]
  <2>1. DOMAIN file = Files /\ file = [f \in Files |-> file[f]]
    BY <1>2 DEF InitWith
  <2> QED
    BY <1>4, <2>1
<1>6. got \in [Files -> SUBSET Nat] /\ \A f \in Files : got[f] = {}
  BY DEF Init
<1>7. \A i \in 1 .. Len(q) : Slot(q[i], DataField(Started(StartOrder, i))) \in SlotType
  <2> TAKE i \in 1 .. Len(q)
  <2>1. i \in Nat /\ q[i] \in Files
    BY <1>3
  <2> QED
    BY <2>1, StartedTyped DEF Slot, SlotType, Apps
<1>8. odas \in Seq(SlotType)
  BY <1>2, <1>3, <1>7 DEF InitWith
<1>9. streams \in StreamCounts /\ stream \in 1 .. streams
  BY ConstantsAssumption DEF Init
<1>10. ASSUME NEW f \in Files PROVE Progress(f)
  <2>1. PICK r \in FileType : r = file[f] /\ r.seg = 0
    BY <1>4
  <2>2. r.segs \in Nat
    BY DEF FileType
  <2> QED
    BY <1>6, <2>1, <2>2 DEF Progress
<1> QED
  BY <1>5, <1>6, <1>8, <1>9, <1>10, ConstantsAssumption
  DEF Init, Inv, TypeOK, ProgressInv, SlotType

LEMMA StepInv ==
    ASSUME Inv, [Next]_vars
    PROVE  /\ Inv'
           /\ \A f \in Files :
                 file[f].segs # 0 /\ file'[f].segs = 0 /\ commands' = commands
                     => f \in replaced \/ got[f] \cup {air'.n} = 0 .. file[f].segs - 1
<1>1. CASE \E f \in Files, o \in Orders : SendFile(f, o) \/ SendFails(f, o) \/ SendNoFile(f, o)
  BY <1>1, SendInv
<1>2. CASE \/ \E f \in Files : Stop(f) \/ Pause(f)
           \/ \E p \in Plain : Register(p) \/ Unregister(p)
           \/ OnState \/ CustomGroup
  BY <1>2, OtherCommandInv
<1>3. CASE Hook
  BY <1>3, HookInv
<1>4. CASE UNCHANGED vars
  <2>1. UNCHANGED <<file, got, replaced>>
    BY <1>4 DEF vars
  <2>2. ProgressInv'
    BY <2>1, ProgressSame DEF Inv
  <2> QED
    BY <1>4, <2>1, <2>2 DEF vars, Inv, TypeOK
<1> QED
  BY <1>1, <1>2, <1>3, <1>4 DEF Next

LEMMA InductiveInv == Spec => []Inv
<1>1. Inv /\ [Next]_vars => Inv'
  BY StepInv
<1> QED
  BY InitInv, <1>1, PTL DEF Spec

(* The types hold: a slot of the registry always belongs to a file, a plain *)
(* application or nobody, the pointer of the registry stays a position and  *)
(* the counter of announcements within AIDCOUNT (rds2_oda.lua), and the     *)
(* fields of an RftInstance keep their ranges (rft.lua).                    *)
THEOREM TypeCorrect == Spec => []TypeOK
<1>1. Inv => TypeOK
  BY DEF Inv
<1> QED
  BY InductiveInv, <1>1, PTL

(* A file sent once that ends had all of its segments sent since it was     *)
(* loaded, unless it replaced one under way: RftInstance's position and its *)
(* segment count change together in every call, whatever the slots do.      *)
THEOREM WholeOnce == Spec => OnceWhole
<1>1. Inv /\ [Next]_vars =>
        [\A f \in Files :
            file[f].segs # 0 /\ file'[f].segs = 0 /\ commands' = commands
                => f \in replaced \/ got[f] \cup {air'.n} = 0 .. file[f].segs - 1]_vars
  BY StepInv
<1> QED
  BY InductiveInv, <1>1, PTL DEF Spec, OnceWhole
=============================================================================

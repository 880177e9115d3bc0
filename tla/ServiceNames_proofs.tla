------------------------ MODULE ServiceNames_proofs -------------------------
(***************************************************************************)
(* Type correctness of ServiceNames and what a receiver collects of a name,*)
(* for texts of any length, any group sequence and any number of commands. *)
(*                                                                         *)
(* The second part is about the other groups whose content goes round: the *)
(* rotations of the module Eon.                                            *)
(***************************************************************************)
EXTENDS ServiceNames, Eon, FiniteSetTheorems, WellFoundedInduction, TLAPS

(* The byte of a group has that group's marks, and a position in its text.  *)
BytesOf(g) == [new : SUBSET Marked(g), st : 0 .. Segs[g] - 1, ab : {0, 1}]
Values == Names \cup {Blank}
Texts(f) ==
    /\ f \in [Kinds -> UNION {[Places(k) -> Values] : k \in Kinds}]
    /\ \A k \in Kinds : f[k] \in [Places(k) -> Values]

TextTypes == Texts(data) /\ Texts(text)
ByteTypes ==
    /\ byte \in [Groups -> Bytes]
    /\ \A g \in Groups : byte[g] \in BytesOf(g)
PlaceTypes == cseg \in 0 .. Segs["ps"] - 1 /\ lsegs \in 0 .. Segs["lps"]
Ctls == [pc : {"idle", "mark", "blank", "first", "second", "count"},
         k : Kinds, v : Names, old : Bytes]
CtlTypes ==
    /\ ctl \in Ctls /\ ctl.old \in BytesOf(GroupOf(ctl.k))
    /\ sets \in 0 .. MaxSets /\ mix \subseteq Groups
Txs == [pc : {"idle", "copy", "emit", "advance"} \cup Kinds, g : Groups, old : Bytes]
TxTypes ==
    /\ tx \in Txs /\ tx.old \in BytesOf(tx.g)
    /\ tx.pc \in Kinds => tx.pc \in Marked(tx.g)
SeenTypes == seen \in [Groups -> SUBSET Values] /\ flag \in {0, 1}

TypeInv == TextTypes /\ ByteTypes /\ PlaceTypes /\ CtlTypes /\ TxTypes /\ SeenTypes

-----------------------------------------------------------------------------
(* What the constants and the helpers are.                                  *)
LEMMA Constants ==
    /\ \A g \in Groups : Segs[g] \in Nat \ {0} /\ 0 \in 0 .. Segs[g] - 1
    /\ "ps" \in Groups /\ "lps" \in Groups /\ "ptyn" \in Groups /\ Groups \subseteq Kinds
    /\ \A k \in Kinds : GroupOf(k) \in Groups /\ 0 \in Places(k) /\ k \in Marked(GroupOf(k))
    /\ 0 \in Names /\ Names \subseteq Nat /\ Blank \notin Names
BY ConstantsAssumption DEF Groups, Kinds, GroupOf, Places, Names, Blank, Marked

LEMMA Marks ==
    /\ Marked("ps") = {"ps", "tps"} /\ Marked("lps") = {"lps"} /\ Marked("ptyn") = {"ptyn"}
    /\ \A g \in Groups : Marked(g) \subseteq Kinds /\ g \in Marked(g)
    /\ \A g \in Groups, k \in Kinds : k \in Marked(g) <=> GroupOf(k) = g
BY DEF Marked, Groups, Kinds, GroupOf

LEMMA FilledType ==
    ASSUME NEW k \in Kinds, NEW v \in Values
    PROVE  Filled(k, v) \in [Places(k) -> Values] /\ \A i \in Places(k) : Filled(k, v)[i] = v
BY DEF Filled

LEMMA TextsExcept ==
    ASSUME NEW f, Texts(f), NEW k \in Kinds, NEW t \in [Places(k) -> Values]
    PROVE  Texts([f EXCEPT ![k] = t])
BY DEF Texts

LEMMA ZeroedType == Texts(Zeroed)
<1>1. 0 \in Values /\ Blank \in Values
  BY Constants DEF Values
<1>2. \A k \in Kinds : Filled(k, IF k = "ps" THEN Blank ELSE 0) \in [Places(k) -> Values]
  BY <1>1, FilledType
<1> QED
  BY <1>2 DEF Texts, Zeroed

LEMMA BytesOfType ==
    ASSUME NEW g \in Groups
    PROVE  /\ BytesOf(g) \subseteq Bytes
           /\ ResetByte(g) \in BytesOf(g) /\ NoByte \in BytesOf(g)
<1>1. Marked(g) \subseteq Kinds /\ 0 .. Segs[g] - 1 \subseteq Nat /\ 0 \in 0 .. Segs[g] - 1
  BY Marks, Constants
<1> QED
  BY <1>1 DEF BytesOf, Bytes, ResetByte, NoByte

LEMMA LpsCountType == \A v \in Values : LpsCount(v) \in 0 .. Segs["lps"]
<1>1. Segs["lps"] \in Nat \ {0}
  BY Constants
<1> QED
  BY <1>1 DEF LpsCount

LEMMA AfterType ==
    ASSUME PlaceTypes, NEW g \in Groups, NEW st \in 0 .. Segs[g] - 1
    PROVE  After(g, st) \in 0 .. Segs[g] - 1
<1>1. Segs[g] \in Nat \ {0}
  BY Constants
<1> QED
  BY <1>1 DEF After, PlaceTypes

LEMMA ByteExcept ==
    ASSUME ByteTypes, NEW g \in Groups, NEW b \in BytesOf(g), byte' = [byte EXCEPT ![g] = b]
    PROVE  ByteTypes'
<1>1. b \in Bytes
  BY BytesOfType
<1> QED
  BY <1>1 DEF ByteTypes

-----------------------------------------------------------------------------
LEMMA InitType == Init => TypeInv
<1> SUFFICES ASSUME Init PROVE TypeInv
  OBVIOUS
<1>1. TextTypes
  <2>1. \A k \in Kinds : Filled(k, 0) \in [Places(k) -> Values]
    BY FilledType, Constants DEF Values
  <2> QED
    BY <2>1, ZeroedType DEF Init, TextTypes, Texts
<1>2. ByteTypes
  BY BytesOfType DEF Init, ByteTypes
<1>3. PlaceTypes
  BY Constants DEF Init, PlaceTypes
<1>4. CtlTypes
  <2>1. IdleCtl \in Ctls /\ IdleCtl.old \in BytesOf(GroupOf(IdleCtl.k))
    BY Constants, BytesOfType DEF IdleCtl, Ctls
  <2> QED
    BY <2>1, ConstantsAssumption DEF Init, CtlTypes
<1>5. TxTypes
  BY Constants, BytesOfType DEF Init, IdleTx, TxTypes, Txs, Kinds, Groups
<1>6. SeenTypes
  BY DEF Init, SeenTypes
<1> QED
  BY <1>1, <1>2, <1>3, <1>4, <1>5, <1>6 DEF TypeInv

-----------------------------------------------------------------------------
(* Steps of the control thread.                                             *)
LEMMA SetNameType == ASSUME TypeInv, NEW k \in Kinds, SetName(k) PROVE TypeInv'
<1>1. PICK v \in Names : ctl' = [pc |-> "mark", k |-> k, v |-> v, old |-> byte[GroupOf(k)]]
  <2>1. sets + 1 \in Names /\ 0 \in Names
    BY ConstantsAssumption DEF SetName, TypeInv, CtlTypes, Names
  <2> QED
    BY <2>1 DEF SetName
<1>2. byte[GroupOf(k)] \in BytesOf(GroupOf(k)) /\ byte[GroupOf(k)] \in Bytes
  BY Constants DEF TypeInv, ByteTypes
<1>3. sets' \in 0 .. MaxSets /\ mix' = mix
  BY ConstantsAssumption DEF SetName, TypeInv, CtlTypes, CtlSame
<1>4. CtlTypes'
  BY <1>1, <1>2, <1>3 DEF CtlTypes, Ctls, TypeInv
<1> QED
  BY <1>4 DEF SetName, CtlSame, TypeInv, TextTypes, ByteTypes, PlaceTypes, TxTypes, SeenTypes

LEMMA CtlStepType ==
    ASSUME TypeInv, NEW pc \in {"idle", "blank", "first", "second", "count"}, CtlStep(pc),
           mix' = mix
    PROVE  CtlTypes'
<1>1. GroupOf(ctl.k) \in Groups /\ GroupOf("ps") \in Groups
  BY Constants DEF TypeInv, CtlTypes, Ctls
<1>2. CASE pc = "idle"
  BY <1>1, <1>2, BytesOfType, Constants
     DEF CtlStep, IdleCtl, TypeInv, CtlTypes, Ctls
<1>3. CASE pc # "idle"
  <2>1. ctl' = [ctl EXCEPT !.pc = pc, !.old = NoByte] /\ sets' = sets
    BY <1>3 DEF CtlStep
  <2>2. NoByte \in Bytes /\ NoByte \in BytesOf(GroupOf(ctl.k))
    BY <1>1, BytesOfType
  <2> QED
    BY <2>1, <2>2 DEF TypeInv, CtlTypes, Ctls
<1> QED
  BY <1>2, <1>3

LEMMA CtlType == ASSUME TypeInv, Ctl PROVE TypeInv'
<1>1. ctl.k \in Kinds /\ ctl.v \in Values /\ GroupOf(ctl.k) \in Groups
  BY Constants DEF TypeInv, CtlTypes, Ctls, Values
<1>2. CASE Mark
  <2>1. CtlTypes'
    BY <1>2, CtlStepType DEF Mark
  <2>2. PICK b : b = [ctl.old EXCEPT !.new = @ \cup {ctl.k}]
    OBVIOUS
  <2>3. b \in BytesOf(GroupOf(ctl.k))
    BY <1>1, <2>2, Constants DEF TypeInv, CtlTypes, BytesOf
  <2>4. ByteTypes'
    BY <1>1, <1>2, <2>2, <2>3, ByteExcept DEF Mark, TypeInv
  <2> QED
    BY <1>2, <2>1, <2>4 DEF Mark, TypeInv, TextTypes, PlaceTypes, TxTypes, SeenTypes
<1>3. CASE WriteBlank
  <2>1. CtlTypes'
    BY <1>3, CtlStepType DEF WriteBlank, CtlSame
  <2>2. PICK w \in Values : data' = [data EXCEPT ![ctl.k] = Filled(ctl.k, w)]
    BY <1>3, Constants DEF WriteBlank, Values
  <2>3. TextTypes'
    <3>1. Filled(ctl.k, w) \in [Places(ctl.k) -> Values]
      BY <1>1, FilledType
    <3>2. Texts(data) /\ Texts(text) /\ text' = text
      BY <1>3 DEF WriteBlank, CtlSame, TypeInv, TextTypes
    <3>3. Texts(data')
      BY <1>1, <2>2, <3>1, <3>2, TextsExcept
    <3> QED
      BY <3>2, <3>3 DEF TextTypes
  <2> QED
    BY <1>3, <2>1, <2>3
       DEF WriteBlank, CtlSame, TypeInv, ByteTypes, PlaceTypes, TxTypes, SeenTypes
<1>4. CASE WriteName
  <2>1. CtlTypes'
    BY <1>4, CtlStepType DEF WriteName, CtlSame
  <2>2. PICK t : t = [i \in Places(ctl.k) |->
                  IF ctl.pc = "second" \/ 2 * i < Segs[GroupOf(ctl.k)] THEN ctl.v ELSE Blank]
    OBVIOUS
  <2>3. t \in [Places(ctl.k) -> Values]
    BY <1>1, <2>2 DEF Values
  <2>4. data' = [data EXCEPT ![ctl.k] = t]
    BY <1>4, <2>2 DEF WriteName
  <2>5. TextTypes'
    <3>1. Texts(data) /\ Texts(text) /\ text' = text
      BY <1>4 DEF WriteName, CtlSame, TypeInv, TextTypes
    <3>2. Texts(data')
      BY <1>1, <2>3, <2>4, <3>1, TextsExcept
    <3> QED
      BY <3>1, <3>2 DEF TextTypes
  <2> QED
    BY <1>4, <2>1, <2>5
       DEF WriteName, CtlSame, TypeInv, ByteTypes, PlaceTypes, TxTypes, SeenTypes
<1>5. CASE CountLps
  <2>1. CtlTypes'
    BY <1>5, CtlStepType DEF CountLps, CtlSame
  <2>2. lsegs' \in 0 .. Segs["lps"]
    <3>1. 0 \in 0 .. Segs["lps"]
      BY Constants
    <3> QED
      BY <1>1, <1>5, <3>1, LpsCountType DEF CountLps
  <2> QED
    BY <1>5, <2>1, <2>2
       DEF CountLps, CtlSame, TypeInv, TextTypes, ByteTypes, PlaceTypes, TxTypes, SeenTypes
<1> QED
  BY <1>2, <1>3, <1>4, <1>5 DEF Ctl

(* Group and marks of a group the sequence names.                           *)
LEMMA CodedType == \A slot \in Groups : Coded(slot) \in Groups
BY Constants DEF Coded

LEMMA ToggledType ==
    ASSUME NEW g \in Groups, NEW b \in BytesOf(g), NEW ks
    PROVE  Toggled(b, ks) \in BytesOf(g) /\ Toggled(b, ks).st = b.st
<1>1. b.new \ ks \in SUBSET Marked(g) /\ (IF ks = {"ptyn"} THEN 1 - b.ab ELSE b.ab) \in {0, 1}
  BY DEF BytesOf
<1>2. PICK n \in SUBSET Marked(g), a \in {0, 1} :
         n = b.new \ ks /\ a = IF ks = {"ptyn"} THEN 1 - b.ab ELSE b.ab
  BY <1>1
<1>3. Toggled(b, ks) = [b EXCEPT !.new = n, !.ab = a]
  BY <1>2 DEF Toggled
<1> QED
  BY <1>3 DEF BytesOf

LEMMA OtherType ==
    ASSUME TypeInv, SetTa \/ Reset \/ (\E g \in Groups : EncodeGroup(g)) PROVE TypeInv'
<1>1. UNCHANGED <<mix, data, ctl, tx, seen, flag, sets>>
  BY DEF SetTa, Reset, EncodeGroup, Other
<1>2. CtlTypes' /\ TxTypes' /\ SeenTypes'
  BY <1>1 DEF TypeInv, CtlTypes, TxTypes, SeenTypes
<1>3. CASE SetTa
  BY <1>1, <1>2, <1>3 DEF SetTa, TypeInv, TextTypes, ByteTypes, PlaceTypes
<1>4. CASE Reset
  <2>1. TextTypes'
    BY <1>1, <1>4, ZeroedType DEF Reset, TypeInv, TextTypes
  <2>2. ByteTypes'
    BY <1>4, BytesOfType DEF Reset, ByteTypes
  <2>3. PlaceTypes'
    <3>1. data["lps"][0] \in Values
      BY Constants DEF TypeInv, TextTypes, Texts, GroupOf
    <3> QED
      BY <1>4, <3>1, LpsCountType, Constants DEF Reset, PlaceTypes
  <2> QED
    BY <1>2, <2>1, <2>2, <2>3 DEF TypeInv
<1>5. ASSUME NEW slot \in Groups, EncodeGroup(slot) PROVE TypeInv'
  <2>1. PICK g \in Groups : g = Coded(slot)
    BY CodedType
  <2>2. PICK ks : ks = {k \in Marked(g) : MayCopy(k)}
    OBVIOUS
  <2>3. /\ text' = [k \in Kinds |-> IF k \in ks THEN data[k] ELSE text[k]]
        /\ byte' = [byte EXCEPT ![g] = IF g = "ps" THEN Toggled(byte[g], ks)
                                       ELSE [Toggled(byte[g], ks) EXCEPT !.st = After(g, @)]]
        /\ cseg' = IF g = "ps" THEN After(g, cseg) ELSE cseg
        /\ lsegs' = lsegs
    BY <1>5, <2>1, <2>2 DEF EncodeGroup
  <2>4. TextTypes'
    BY <1>1, <2>3 DEF TypeInv, TextTypes, Texts
  <2>5. PlaceTypes'
    BY <2>3, AfterType DEF TypeInv, PlaceTypes
  <2>6. PICK b : b = Toggled(byte[g], ks)
    OBVIOUS
  <2>7. b \in BytesOf(g)
    BY <2>6, ToggledType DEF TypeInv, ByteTypes
  <2>8. b.st \in 0 .. Segs[g] - 1
    BY <2>7 DEF BytesOf
  <2>9. [b EXCEPT !.st = After(g, @)] \in BytesOf(g)
    BY <2>7, <2>8, AfterType DEF TypeInv, BytesOf
  <2>10. ByteTypes'
    BY <2>3, <2>6, <2>7, <2>9, ByteExcept DEF TypeInv
  <2> QED
    BY <1>2, <2>4, <2>5, <2>10 DEF TypeInv
<1> QED
  BY <1>3, <1>4, <1>5

-----------------------------------------------------------------------------
(* Steps of the transmitter.                                                *)
LEMMA TxStepIs ==
    ASSUME NEW pc \in {"idle", "copy", "emit", "advance"} \cup Kinds, TxStep(pc)
    PROVE  /\ pc = "idle" => tx' = IdleTx
           /\ pc \in Kinds \cup {"advance"} => tx' = [tx EXCEPT !.pc = pc, !.old = byte[tx.g]]
           /\ pc \in {"copy", "emit"} => tx' = [tx EXCEPT !.pc = pc, !.old = NoByte]
           /\ UNCHANGED <<mix, data, lsegs, ta, ctl, last, sets, others>>
BY DEF TxStep, Kinds, Groups

LEMMA TxStepType ==
    ASSUME TypeInv, NEW pc \in {"idle", "copy", "emit", "advance"} \cup Marked(tx.g), TxStep(pc)
    PROVE  /\ TxTypes' /\ CtlTypes' /\ UNCHANGED <<mix, data, lsegs, ta, ctl>>
           /\ tx'.pc = pc /\ (pc # "idle" => tx'.g = tx.g)
           /\ pc \in Kinds \cup {"advance"} => tx'.old = byte[tx.g]
<1>1. tx \in Txs /\ tx.g \in Groups /\ Marked(tx.g) \subseteq Kinds
      /\ byte[tx.g] \in BytesOf(tx.g) /\ byte[tx.g] \in Bytes
  BY Marks DEF TypeInv, TxTypes, Txs, ByteTypes
<1>2. /\ pc = "idle" => tx' = IdleTx
      /\ pc \in Kinds \cup {"advance"} => tx' = [tx EXCEPT !.pc = pc, !.old = byte[tx.g]]
      /\ pc \in {"copy", "emit"} => tx' = [tx EXCEPT !.pc = pc, !.old = NoByte]
      /\ UNCHANGED <<mix, data, lsegs, ta, ctl, last, sets, others>>
  <2>1. pc \in {"idle", "copy", "emit", "advance"} \cup Kinds
    BY <1>1
  <2> QED
    BY <2>1, TxStepIs
<1>3. CtlTypes'
  BY <1>2 DEF TypeInv, CtlTypes
<1>4. CASE pc = "idle"
  <2>1. "ps" \in Groups /\ NoByte \in Bytes /\ NoByte \in BytesOf("ps")
        /\ "idle" \notin Kinds \cup {"advance"}
    BY Constants, BytesOfType DEF Kinds, Groups
  <2> QED
    BY <1>2, <1>3, <1>4, <2>1 DEF IdleTx, TxTypes, Txs
<1>5. CASE pc \in {"copy", "emit"}
  <2>1. NoByte \in Bytes /\ NoByte \in BytesOf(tx.g) /\ pc \notin Kinds \cup {"advance"}
    BY <1>1, <1>5, BytesOfType DEF Kinds, Groups
  <2> QED
    BY <1>1, <1>2, <1>3, <1>5, <2>1 DEF TxTypes, Txs
<1>6. CASE pc \in Marked(tx.g) \cup {"advance"}
  <2>1. "advance" \notin Kinds
    BY DEF Kinds, Groups
  <2> QED
    BY <1>1, <1>2, <1>3, <1>6, <2>1 DEF TxTypes, Txs
<1> QED
  BY <1>4, <1>5, <1>6

LEMMA BeginType == ASSUME TypeInv, NEW slot \in Groups, Begin(slot) PROVE TypeInv'
<1>1. PICK g \in Groups : tx' = [pc |-> "copy", g |-> g, old |-> NoByte]
  BY CodedType DEF Begin
<1>2. NoByte \in Bytes /\ NoByte \in BytesOf(g)
  BY BytesOfType
<1>3. TxTypes'
  BY <1>1, <1>2 DEF TxTypes, Txs, Kinds, Groups
<1> QED
  BY <1>3 DEF Begin, TypeInv, TextTypes, ByteTypes, PlaceTypes, CtlTypes, SeenTypes

(* The value on air is of a text that has a place for each position.        *)
LEMMA OnAirType ==
    ASSUME TypeInv
    PROVE  /\ OnAir \in Values
           /\ Position(tx.g) \in Places(tx.g)
           /\ \A g \in Groups : Position(g) \in 0 .. Segs[g] - 1
<1>1. \A g \in Groups : Position(g) \in 0 .. Segs[g] - 1
  BY DEF TypeInv, PlaceTypes, ByteTypes, BytesOf, Position
<1>2. tx.g \in Groups
  BY DEF TypeInv, TxTypes, Txs
<1>3. PICK k \in Kinds :
         /\ GroupOf(k) = tx.g
         /\ k = IF tx.g = "ps" /\ ta /\ text["tps"][0] # 0 THEN "tps" ELSE tx.g
  BY <1>2 DEF Kinds, Groups, GroupOf
<1>4. Places(k) = 0 .. Segs[tx.g] - 1 /\ Places(tx.g) = 0 .. Segs[tx.g] - 1
  BY <1>2, <1>3 DEF Places, GroupOf, Groups
<1> QED
  BY <1>1, <1>2, <1>3, <1>4 DEF OnAir, TypeInv, TextTypes, Texts

LEMMA TxType == ASSUME TypeInv, Tx PROVE TypeInv'
<1>1. /\ tx \in Txs /\ tx.g \in Groups /\ tx.old \in BytesOf(tx.g)
      /\ tx.pc \in Kinds => tx.pc \in Marked(tx.g)
      /\ Marked(tx.g) \subseteq Kinds
  BY Marks DEF TypeInv, TxTypes, Txs
<1>2. CASE CopyName
  <2>1. PICK pc \in {"emit"} \cup Marked(tx.g) : TxStep(pc)
    BY <1>2 DEF CopyName
  <2>2. TxTypes' /\ CtlTypes' /\ UNCHANGED <<lsegs, data>>
    BY <2>1, TxStepType
  <2>3. TextTypes'
    <3>1. CASE \E k \in Marked(tx.g) : text' = [text EXCEPT ![k] = data[k]]
      <4>1. PICK k \in Kinds : text' = [text EXCEPT ![k] = data[k]]
        BY <1>1, <3>1
      <4>2. data[k] \in [Places(k) -> Values] /\ Texts(text) /\ Texts(data)
        BY DEF TypeInv, TextTypes, Texts
      <4>3. Texts(text')
        BY <4>1, <4>2, TextsExcept
      <4> QED
        BY <2>2, <4>2, <4>3 DEF TextTypes
    <3>2. CASE UNCHANGED text
      BY <2>2, <3>2 DEF TypeInv, TextTypes
    <3> QED
      BY <1>2, <3>1, <3>2 DEF CopyName
  <2> QED
    BY <1>2, <2>2, <2>3 DEF CopyName, TypeInv, ByteTypes, PlaceTypes, SeenTypes
<1>3. CASE ClearMark
  <2>1. PICK pc \in {"copy", "emit"} : TxStep(pc)
    BY <1>3 DEF ClearMark
  <2>2. TxTypes' /\ CtlTypes' /\ UNCHANGED <<lsegs, data>>
    BY <2>1, TxStepType
  <2>3. ByteTypes'
    BY <1>1, <1>3, ToggledType, ByteExcept DEF ClearMark, TypeInv
  <2> QED
    BY <1>3, <2>2, <2>3 DEF ClearMark, TypeInv, TextTypes, PlaceTypes, SeenTypes
<1>4. CASE Emit
  <2>1. TxTypes' /\ CtlTypes' /\ UNCHANGED <<lsegs, data>>
    BY <1>4, TxStepType DEF Emit
  <2>2. seen' \in [Groups -> SUBSET Values]
    <3>1. PICK n \in SUBSET Values : seen' = [seen EXCEPT ![tx.g] = n]
      <4>1. {OnAir} \in SUBSET Values /\ seen[tx.g] \cup {OnAir} \in SUBSET Values
        BY <1>1, OnAirType DEF TypeInv, SeenTypes
      <4> QED
        BY <1>4, <4>1 DEF Emit
    <3> QED
      BY <3>1 DEF TypeInv, SeenTypes
  <2>3. flag' \in {0, 1}
    <3>1. byte["ptyn"].ab \in {0, 1}
      BY Constants DEF TypeInv, ByteTypes, BytesOf
    <3> QED
      BY <1>4, <3>1 DEF Emit, TypeInv, SeenTypes
  <2> QED
    BY <1>4, <2>1, <2>2, <2>3 DEF Emit, TypeInv, TextTypes, ByteTypes, PlaceTypes, SeenTypes
<1>5. CASE Advance
  <2>1. TxTypes' /\ CtlTypes' /\ UNCHANGED <<lsegs, data>>
    BY <1>5, TxStepType DEF Advance
  <2>2. CASE tx.g = "ps"
    <3>1. PlaceTypes'
      BY <1>1, <1>5, <2>1, <2>2, AfterType DEF Advance, TypeInv, PlaceTypes
    <3> QED
      BY <1>5, <2>1, <2>2, <3>1 DEF Advance, TypeInv, TextTypes, ByteTypes, SeenTypes
  <2>3. CASE tx.g # "ps"
    <3>1. PICK b : b = [tx.old EXCEPT !.st = After(tx.g, @)]
      OBVIOUS
    <3>2. tx.old.st \in 0 .. Segs[tx.g] - 1
      BY <1>1 DEF BytesOf
    <3>3. b \in BytesOf(tx.g)
      BY <1>1, <3>1, <3>2, AfterType DEF TypeInv, BytesOf
    <3>4. ByteTypes'
      BY <1>1, <1>5, <2>3, <3>1, <3>3, ByteExcept DEF Advance, TypeInv
    <3> QED
      BY <1>5, <2>1, <2>3, <3>4 DEF Advance, TypeInv, TextTypes, PlaceTypes, SeenTypes
  <2> QED
    BY <2>2, <2>3
<1> QED
  BY <1>2, <1>3, <1>4, <1>5 DEF Tx

LEMMA TypeStep == TypeInv /\ [Next]_vars => TypeInv'
<1> SUFFICES ASSUME TypeInv, [Next]_vars PROVE TypeInv'
  OBVIOUS
<1>1. CASE UNCHANGED vars
  BY <1>1 DEF vars, TypeInv, TextTypes, ByteTypes, PlaceTypes, CtlTypes, TxTypes, SeenTypes
<1> QED
  BY <1>1, SetNameType, CtlType, OtherType, BeginType, TxType DEF Next

(* Names, marks and segment counters keep their types: no position runs     *)
(* past the end of its text, whatever the other thread writes to the byte   *)
(* it is in, and however often lps_segments is counted anew.                *)
THEOREM TypeCorrect == Spec => []TypeOK
<1>1. TypeInv => TypeOK
  BY OnAirType DEF TypeInv, TextTypes, Texts, PlaceTypes, Values, TypeOK
<1> QED
  BY <1>1, InitType, TypeStep, PTL DEF Spec

-----------------------------------------------------------------------------
(* What a receiver collects.  A text outside of torn, and a name no command *)
(* is in the middle of writing, are of one name on all their places.        *)
Whole(f, k) == f[k][0] # Blank /\ \A i \in Places(k) : f[k][i] = f[k][0]
CopyInv ==
    /\ \A k \in Kinds : InWriting(k) \/ Whole(data, k)
    /\ \A k \in Kinds \ torn : Whole(text, k)
    /\ tx.pc = "lps" => tx.old.st = 0

(* What the segments of a group show.                                       *)
Shown(g) == text[IF g = "ps" /\ ta /\ text["tps"][0] # 0 THEN "tps" ELSE g][0]
Clear(g) == g \notin broken /\ torn \cap Marked(g) = {}

(* Of a PS or LPS begun at its first segment: names are copied there only,  *)
(* so all that was sent since is what is still shown.                       *)
SegmentInv ==
    \A g \in {"ps", "lps"} :
        Clear(g) /\ (Position(g) # 0 \/ (tx.g = g /\ tx.pc = "advance"))
            => seen[g] = {Shown(g)}

(* Of a PTYN: a name copied turns the flag before its first segment is sent.*)
FlagInv ==
    "ptyn" \notin broken =>
        /\ tx.pc \in {"ptyn", "advance"} /\ tx.g = "ptyn" => byte["ptyn"].ab = tx.old.ab
        /\ byte["ptyn"].ab # flag => seen["ptyn"] = {} \/ (tx.g = "ptyn" /\ tx.pc = "emit")
        /\ byte["ptyn"].ab = flag /\ tx.pc # "ptyn" /\ "ptyn" \notin torn
              => seen["ptyn"] \subseteq {Shown("ptyn")}
        /\ tx.g = "ptyn" /\ tx.pc = "advance" => seen["ptyn"] # {} /\ byte["ptyn"].ab = flag

Shows == CopyInv /\ SegmentInv /\ FlagInv

LEMMA ShowsWhole == TypeInv /\ Shows => ShownWhole
<1> SUFFICES ASSUME TypeInv, Shows, tx.pc = "advance", Clear(tx.g)
             PROVE  Cardinality(seen[tx.g]) = 1 /\ Blank \notin seen[tx.g]
  BY DEF ShownWhole, Clear
<1>1. tx.g \in Groups
  BY DEF TypeInv, TxTypes, Txs
<1>2. seen[tx.g] = {Shown(tx.g)}
  <2>1. CASE tx.g = "ptyn"
    BY <2>1, Marks DEF Shows, FlagInv, Clear
  <2>2. CASE tx.g \in {"ps", "lps"}
    BY <2>2 DEF Shows, SegmentInv
  <2> QED
    BY <1>1, <2>1, <2>2 DEF Groups
<1>3. Shown(tx.g) # Blank
  BY <1>1, Marks DEF Shows, CopyInv, Whole, Shown, Clear, Groups, Kinds
<1>4. Cardinality({Shown(tx.g)}) = 1
  BY FS_Singleton
<1> QED
  BY <1>2, <1>3, <1>4

LEMMA InitShows == Init => Shows
<1> SUFFICES ASSUME Init PROVE Shows
  OBVIOUS
<1>1. ASSUME NEW k \in Kinds PROVE Whole(data, k) /\ (k # "ps" => Whole(text, k))
  BY Constants DEF Init, Whole, Zeroed, Filled, Blank
<1>2. CopyInv
  BY <1>1, Constants DEF Init, CopyInv, IdleTx
<1>3. SegmentInv /\ FlagInv
  BY Constants
     DEF Init, SegmentInv, FlagInv, IdleTx, Position, ResetByte, Groups
<1> QED
  BY <1>2, <1>3 DEF Shows

-----------------------------------------------------------------------------
(* Steps that leave what is on air, and the bytes, alone.                   *)
LEMMA AirSame ==
    ASSUME Shows, UNCHANGED <<text, byte, cseg, ta, tx, seen, flag, torn, broken>>
    PROVE  SegmentInv' /\ FlagInv'
BY DEF Shows, SegmentInv, FlagInv, Clear, Shown, Position

LEMMA SetNameShows == ASSUME TypeInv, Shows, NEW k \in Kinds, SetName(k) PROVE Shows'
<1>1. SegmentInv' /\ FlagInv'
  BY AirSame DEF SetName, CtlSame
<1>2. CopyInv'
  <2>1. ctl.pc = "idle" /\ UNCHANGED <<data, text, torn, tx>>
    BY DEF SetName, CtlSame
  <2> QED
    BY <2>1 DEF Shows, CopyInv, InWriting, Whole
<1> QED
  BY <1>1, <1>2 DEF Shows

LEMMA CtlStepIs ==
    ASSUME TypeInv, NEW pc, CtlStep(pc)
    PROVE  /\ pc = "idle" => ctl'.pc = "idle"
           /\ pc # "idle" => ctl'.pc = pc /\ ctl'.k = ctl.k /\ ctl'.v = ctl.v
BY DEF CtlStep, IdleCtl, TypeInv, CtlTypes, Ctls

LEMMA CtlShows == ASSUME TypeInv, Shows, Ctl PROVE Shows'
<1>1. ctl.k \in Kinds /\ ctl.v \in Names /\ GroupOf(ctl.k) \in Groups /\ ctl \in Ctls
      /\ data \in [Kinds -> UNION {[Places(k) -> Values] : k \in Kinds}]
  BY Constants DEF TypeInv, CtlTypes, Ctls, TextTypes, Texts
<1>2. CASE Mark
  <2>1. UNCHANGED <<data, text, cseg, ta, tx, seen, flag, torn>> /\ ctl'.pc = "blank"
    BY <1>2, CtlStepIs DEF Mark
  <2>2. CopyInv'
    BY <1>2, <2>1 DEF Mark, Shows, CopyInv, InWriting, Whole
  <2>3. ASSUME NEW g \in Groups, g \notin broken'
        PROVE  g \notin broken /\ byte'[g].st = byte[g].st /\ byte'[g].ab = byte[g].ab
    <3>1. CASE g = GroupOf(ctl.k)
      <4>1. g \notin broken /\ byte[g] = ctl.old
        BY <1>2, <2>3, <3>1 DEF Mark
      <4>2. byte'[g] = [ctl.old EXCEPT !.new = @ \cup {ctl.k}]
        BY <1>2, <3>1 DEF Mark, TypeInv, ByteTypes
      <4>3. ctl.old \in Bytes
        BY <1>1 DEF Ctls
      <4> QED
        BY <4>1, <4>2, <4>3 DEF Bytes
    <3>2. CASE g # GroupOf(ctl.k)
      BY <1>2, <2>3, <3>2 DEF Mark, TypeInv, ByteTypes
    <3> QED
      BY <3>1, <3>2
  <2>4. SegmentInv'
    BY <2>1, <2>3 DEF Shows, SegmentInv, Clear, Shown, Position, Groups
  <2>5. FlagInv'
    BY <2>1, <2>3 DEF Shows, FlagInv, Shown, Groups
  <2> QED
    BY <2>2, <2>4, <2>5 DEF Shows
<1>3. CASE WriteBlank
  <2>1. SegmentInv' /\ FlagInv'
    BY <1>3, AirSame DEF WriteBlank, CtlSame
  <2>2. UNCHANGED <<text, torn, tx>> /\ ctl.pc = "blank"
    BY <1>3 DEF WriteBlank, CtlSame
  <2>3. CASE ctl.v = 0
    <3>1. data' = [data EXCEPT ![ctl.k] = Filled(ctl.k, 0)]
      BY <1>3, <2>3 DEF WriteBlank
    <3>2. Whole(data', ctl.k) /\ \A k \in Kinds \ {ctl.k} : data'[k] = data[k]
      BY <1>1, <3>1, Constants DEF Whole, Filled
    <3> QED
      BY <2>1, <2>2, <3>2 DEF Shows, CopyInv, InWriting, Whole
  <2>4. CASE ctl.v # 0
    <3>1. ctl'.pc = "first" /\ ctl'.k = ctl.k
      BY <1>3, <2>4, CtlStepIs DEF WriteBlank
    <3>2. \A k \in Kinds \ {ctl.k} : data'[k] = data[k]
      BY <1>1, <1>3 DEF WriteBlank
    <3> QED
      BY <2>1, <2>2, <3>1, <3>2 DEF Shows, CopyInv, InWriting, Whole
  <2> QED
    BY <2>3, <2>4
<1>4. CASE WriteName
  <2>1. SegmentInv' /\ FlagInv'
    BY <1>4, AirSame DEF WriteName, CtlSame
  <2>2. UNCHANGED <<text, torn, tx>> /\ \A k \in Kinds \ {ctl.k} : data'[k] = data[k]
    BY <1>1, <1>4 DEF WriteName, CtlSame
  <2>3. CASE ctl.pc = "first"
    <3>1. ctl'.pc = "second" /\ ctl'.k = ctl.k
      BY <1>4, <2>3, CtlStepIs DEF WriteName
    <3> QED
      BY <2>1, <2>2, <3>1 DEF Shows, CopyInv, InWriting, Whole
  <2>4. CASE ctl.pc = "second"
    <3>1. data'[ctl.k] = [i \in Places(ctl.k) |-> ctl.v]
      BY <1>1, <1>4, <2>4 DEF WriteName
    <3>2. Whole(data', ctl.k)
      BY <1>1, <3>1, Constants DEF Whole
    <3> QED
      BY <2>1, <2>2, <3>2 DEF Shows, CopyInv, InWriting, Whole
  <2> QED
    BY <1>4, <2>3, <2>4 DEF WriteName
<1>5. CASE CountLps
  <2>1. SegmentInv' /\ FlagInv'
    BY <1>5, AirSame DEF CountLps, CtlSame
  <2>2. UNCHANGED <<data, text, torn, tx>> /\ ctl.pc = "count"
    BY <1>5 DEF CountLps, CtlSame
  <2> QED
    BY <2>1, <2>2 DEF Shows, CopyInv, InWriting, Whole
<1> QED
  BY <1>2, <1>3, <1>4, <1>5 DEF Ctl

-----------------------------------------------------------------------------
(* TA, a reset and a group off the air disturb the collection they touch.   *)
LEMMA OtherShows ==
    ASSUME TypeInv, Shows, SetTa \/ Reset \/ (\E g \in Groups : EncodeGroup(g)) PROVE Shows'
<1>1. UNCHANGED <<data, ctl, tx, seen, flag>> /\ ctl.pc = "idle"
  BY DEF SetTa, Reset, EncodeGroup, Other
<1>2. \A k \in Kinds : Whole(data, k)
  BY <1>1 DEF Shows, CopyInv, InWriting
<1>3. CASE SetTa
  <2>1. UNCHANGED <<text, byte, cseg, torn>> /\ broken' = broken \cup {"ps"}
    BY <1>3 DEF SetTa
  <2>2. CopyInv'
    BY <1>1, <2>1 DEF Shows, CopyInv, InWriting, Whole
  <2>3. SegmentInv' /\ FlagInv'
    BY <1>1, <2>1 DEF Shows, SegmentInv, FlagInv, Clear, Shown, Position
  <2> QED
    BY <2>2, <2>3 DEF Shows
<1>4. CASE Reset
  <2>1. text' = Zeroed /\ torn' = {"ps"} /\ broken' = Groups
    BY <1>4 DEF Reset
  <2>2. \A k \in Kinds \ torn' : Whole(text', k)
    BY <2>1, Constants DEF Whole, Zeroed, Filled, Blank
  <2>3. CopyInv'
    BY <1>1, <2>2 DEF Shows, CopyInv, InWriting, Whole
  <2>4. SegmentInv' /\ FlagInv'
    BY <2>1 DEF SegmentInv, FlagInv, Clear, Groups
  <2> QED
    BY <2>3, <2>4 DEF Shows
<1>5. ASSUME NEW slot \in Groups, EncodeGroup(slot) PROVE Shows'
  <2>1. PICK g \in Groups : g = Coded(slot)
    BY CodedType
  <2>2. PICK ks : ks = {k \in Marked(g) : MayCopy(k)}
    OBVIOUS
  <2>3. PICK b :
        /\ text' = [k \in Kinds |-> IF k \in ks THEN data[k] ELSE text[k]]
        /\ torn' = torn \ ks /\ broken' = broken \cup {g} /\ ta' = ta
        /\ byte' = [byte EXCEPT ![g] = b]
        /\ g # "ps" => cseg' = cseg
    BY <1>5, <2>1, <2>2 DEF EncodeGroup
  <2>4. CopyInv'
    <3>1. \A k \in Kinds \ torn' : Whole(text', k)
      BY <1>2, <2>3 DEF Shows, CopyInv, Whole
    <3> QED
      BY <1>1, <1>2, <3>1 DEF Shows, CopyInv
  <2>5. ASSUME NEW h \in Groups, h # g
        PROVE  /\ byte'[h] = byte[h] /\ torn' \cap Marked(h) = torn \cap Marked(h)
               /\ \A k \in Marked(h) : text'[k] = text[k]
    <3>1. Marked(g) \cap Marked(h) = {} /\ ks \subseteq Marked(g) /\ Marked(h) \subseteq Kinds
      BY <2>2, <2>5 DEF Marked
    <3> QED
      BY <2>3, <2>5, <3>1 DEF TypeInv, ByteTypes
  <2>6. ASSUME NEW h \in Groups, h # g PROVE Shown(h)' = Shown(h)
    BY <2>3, <2>5, <2>6, Marks DEF Shown, Groups
  <2>7. SegmentInv'
    <3> SUFFICES ASSUME NEW h \in {"ps", "lps"}, Clear(h)',
                        Position(h)' # 0 \/ (tx'.g = h /\ tx'.pc = "advance")
                 PROVE  seen'[h] = {Shown(h)'}
      BY DEF SegmentInv
    <3>1. h # g /\ h \in Groups
      BY <2>3 DEF Clear, Groups
    <3>2. Clear(h) /\ Position(h)' = Position(h)
      BY <2>3, <2>5, <3>1 DEF Clear, Position
    <3> QED
      BY <1>1, <2>6, <3>1, <3>2 DEF Shows, SegmentInv
  <2>8. FlagInv'
    <3> SUFFICES ASSUME "ptyn" \notin broken' PROVE FlagInv'
      BY DEF FlagInv
    <3>1. "ptyn" # g /\ "ptyn" \in Groups /\ "ptyn" \notin broken
      BY <2>3 DEF Groups
    <3>2. byte'["ptyn"] = byte["ptyn"] /\ ("ptyn" \in torn' <=> "ptyn" \in torn)
          /\ Shown("ptyn")' = Shown("ptyn")
      BY <2>5, <2>6, <3>1, Marks
    <3> QED
      BY <1>1, <3>1, <3>2 DEF Shows, FlagInv
  <2> QED
    BY <2>4, <2>7, <2>8 DEF Shows
<1> QED
  BY <1>3, <1>4, <1>5

-----------------------------------------------------------------------------
(* Steps of the transmitter.                                                *)
LEMMA BeginShows == ASSUME TypeInv, Shows, NEW slot \in Groups, Begin(slot) PROVE Shows'
<1>1. PICK g \in Groups :
        /\ tx' = [pc |-> "copy", g |-> g, old |-> NoByte]
        /\ broken' = IF g # "ptyn" /\ Position(g) = 0 THEN broken \ {g} ELSE broken
        /\ UNCHANGED <<data, text, byte, cseg, ta, ctl, seen, flag, torn>>
  BY CodedType DEF Begin
<1>2. CopyInv'
  BY <1>1 DEF Shows, CopyInv, InWriting, Whole
<1>3. SegmentInv'
  <2> SUFFICES ASSUME NEW h \in {"ps", "lps"}, Clear(h)', Position(h)' # 0
               PROVE  seen'[h] = {Shown(h)'}
    BY <1>1 DEF SegmentInv
  <2>1. Position(h)' = Position(h) /\ Shown(h)' = Shown(h)
    BY <1>1 DEF Position, Shown
  <2>2. Clear(h)
    BY <1>1, <2>1 DEF Clear
  <2> QED
    BY <1>1, <2>1, <2>2 DEF Shows, SegmentInv
<1>4. FlagInv'
  <2> SUFFICES ASSUME "ptyn" \notin broken' PROVE FlagInv'
    BY DEF FlagInv
  <2>1. "ptyn" \notin broken
    BY <1>1
  <2>2. tx.pc = "idle" /\ tx'.pc = "copy" /\ Shown("ptyn")' = Shown("ptyn")
    BY <1>1 DEF Begin, Shown
  <2> QED
    BY <1>1, <2>1, <2>2 DEF Shows, FlagInv
<1> QED
  BY <1>2, <1>3, <1>4 DEF Shows

LEMMA CopyShows == ASSUME TypeInv, Shows, CopyName PROVE Shows'
<1>1. /\ tx.pc = "copy" /\ tx \in Txs /\ tx.g \in Groups /\ Marked(tx.g) \subseteq Kinds
      /\ UNCHANGED <<byte, cseg, seen, flag, broken>>
  BY Marks DEF CopyName, TypeInv, TxTypes, Txs
<1>2. CASE /\ \A k \in Marked(tx.g) : ~MayCopy(k)
           /\ TxStep("emit") /\ UNCHANGED <<text, torn>>
  <2>1. /\ tx'.pc = "emit" /\ tx'.g = tx.g
        /\ UNCHANGED <<data, ta, ctl>>
    BY <1>2, TxStepType
  <2>2. CopyInv'
    BY <1>2, <2>1 DEF Shows, CopyInv, InWriting, Whole
  <2>3. SegmentInv'
    BY <1>1, <1>2, <2>1 DEF Shows, SegmentInv, Clear, Shown, Position
  <2>4. FlagInv'
    BY <1>1, <1>2, <2>1 DEF Shows, FlagInv, Shown
  <2> QED
    BY <2>2, <2>3, <2>4 DEF Shows
<1>3. ASSUME NEW k \in Marked(tx.g), MayCopy(k), TxStep(k),
             text' = [text EXCEPT ![k] = data[k]],
             torn' = IF InWriting(k) THEN torn \cup {k} ELSE torn \ {k}
      PROVE  Shows'
  <2>1. /\ tx'.pc = k /\ tx'.g = tx.g /\ tx'.old = byte[tx.g]
        /\ UNCHANGED <<data, ta, ctl>> /\ k \in Kinds /\ GroupOf(k) = tx.g
    <3>1. k \in {"idle", "copy", "emit", "advance"} \cup Marked(tx.g)
          /\ k \in Kinds /\ k # "idle"
      BY <1>1 DEF Kinds, Groups
    <3>2. tx'.pc = k /\ tx'.g = tx.g /\ tx'.old = byte[tx.g] /\ UNCHANGED <<data, ta, ctl>>
      BY <1>3, <3>1, TxStepType
    <3> QED
      BY <3>1, <3>2 DEF Marked
  <2>2. Position(tx.g) = 0 /\ k \notin {"advance", "emit"}
    BY <1>3, <2>1 DEF MayCopy, Kinds, Groups
  <2>3. CopyInv'
    <3>1. \A j \in Kinds \ {k} : text'[j] = text[j]
      BY <1>3 DEF TypeInv, TextTypes, Texts
    <3>2. ~InWriting(k) => Whole(text', k)
      BY <1>3, <2>1 DEF Shows, CopyInv, Whole, TypeInv, TextTypes, Texts
    <3>3. \A j \in Kinds \ torn' : Whole(text', j)
      BY <1>3, <3>1, <3>2 DEF Shows, CopyInv, Whole
    <3>4. tx'.pc = "lps" => tx'.old.st = 0
      BY <2>1, <2>2 DEF Position, GroupOf
    <3> QED
      BY <2>1, <3>3, <3>4 DEF Shows, CopyInv, InWriting, Whole
  <2>4. ASSUME NEW h \in Groups, h # tx.g
        PROVE  Shown(h)' = Shown(h) /\ torn' \cap Marked(h) = torn \cap Marked(h)
    <3>1. k \notin Marked(h)
      BY <2>1, <2>4 DEF Marked
    <3>2. \A j \in Marked(h) : text'[j] = text[j]
      BY <1>3, <3>1, Marks DEF TypeInv, TextTypes, Texts
    <3> QED
      BY <1>3, <2>1, <3>1, <3>2, Marks DEF Shown, Groups
  <2>5. SegmentInv'
    <3> SUFFICES ASSUME NEW h \in {"ps", "lps"}, Clear(h)', Position(h)' # 0
                 PROVE  seen'[h] = {Shown(h)'}
      BY <2>1, <2>2 DEF SegmentInv
    <3>1. Position(h)' = Position(h) /\ h # tx.g /\ h \in Groups
      BY <1>1, <2>2 DEF Position, Groups
    <3> QED
      BY <1>1, <2>4, <3>1 DEF Shows, SegmentInv, Clear
  <2>6. FlagInv'
    <3> SUFFICES ASSUME "ptyn" \notin broken PROVE FlagInv'
      BY <1>1 DEF FlagInv
    <3>1. CASE tx.g = "ptyn"
      <4>1. k = "ptyn"
        BY <1>1, <2>1, <3>1, Marks
      <4> QED
        BY <1>1, <2>1, <3>1, <4>1 DEF Shows, FlagInv
    <3>2. CASE tx.g # "ptyn"
      <4>1. Shown("ptyn")' = Shown("ptyn") /\ ("ptyn" \in torn' <=> "ptyn" \in torn)
        BY <2>4, <3>2, Marks, Constants
      <4>2. tx.pc # "ptyn"
        BY <1>1
      <4> QED
        BY <1>1, <2>1, <3>2, <4>1, <4>2 DEF Shows, FlagInv
    <3> QED
      BY <3>1, <3>2
  <2> QED
    BY <2>3, <2>5, <2>6 DEF Shows
<1> QED
  BY <1>2, <1>3 DEF CopyName

LEMMA ClearShows == ASSUME TypeInv, Shows, ClearMark PROVE Shows'
<1>1. /\ tx \in Txs /\ tx.g \in Groups /\ tx.pc \in Marked(tx.g)
      /\ UNCHANGED <<text, cseg, seen, flag, torn, broken>>
      /\ byte' = [byte EXCEPT ![tx.g] = Toggled(tx.old, {tx.pc})]
      /\ tx.old \in BytesOf(tx.g)
  BY DEF ClearMark, TypeInv, TxTypes, Txs
<1>2. PICK pc \in {"copy", "emit"} :
        /\ TxStep(pc) /\ pc = IF tx.pc = "ps" THEN "copy" ELSE "emit"
  BY DEF ClearMark
<1>3. tx'.pc = pc /\ tx'.g = tx.g /\ UNCHANGED <<data, ta, ctl>>
  BY <1>2, TxStepType
<1>4. CopyInv'
  BY <1>1, <1>3 DEF Shows, CopyInv, InWriting, Whole
<1>5. PICK b : b = Toggled(tx.old, {tx.pc})
  OBVIOUS
<1>6. b.st = tx.old.st
  BY <1>1, <1>5, ToggledType
<1>7. byte'[tx.g] = b /\ \A h \in Groups \ {tx.g} : byte'[h] = byte[h]
  BY <1>1, <1>5 DEF TypeInv, ByteTypes
<1>8. SegmentInv'
  <2> SUFFICES ASSUME NEW h \in {"ps", "lps"}, Clear(h)', Position(h)' # 0
               PROVE  seen'[h] = {Shown(h)'}
    BY <1>3 DEF SegmentInv
  <2>1. Clear(h) /\ Shown(h)' = Shown(h)
    BY <1>1, <1>3 DEF Clear, Shown
  <2>2. Position(h) # 0
    <3>1. CASE h = "lps" /\ tx.g = "lps"
      <4>1. tx.pc = "lps" /\ tx.old.st = 0
        BY <1>1, <3>1, Marks DEF Shows, CopyInv
      <4> QED
        BY <1>6, <1>7, <3>1, <4>1 DEF Position
    <3>2. CASE h = "ps" \/ h # tx.g
      BY <1>1, <1>7, <3>2 DEF Position, Groups
    <3> QED
      BY <3>1, <3>2
  <2> QED
    BY <1>1, <2>1, <2>2 DEF Shows, SegmentInv
<1>9. FlagInv'
  <2> SUFFICES ASSUME "ptyn" \notin broken PROVE FlagInv'
    BY <1>1 DEF FlagInv
  <2>1. Shown("ptyn")' = Shown("ptyn")
    BY <1>1, <1>3 DEF Shown
  <2>2. CASE tx.g = "ptyn"
    <3>1. tx.pc = "ptyn" /\ pc = "emit"
      BY <1>1, <1>2, <2>2, Marks
    <3>2. b.ab = 1 - tx.old.ab
      <4>1. PICK n : n = tx.old.new \ {"ptyn"}
        OBVIOUS
      <4>2. b = [tx.old EXCEPT !.new = n, !.ab = 1 - @]
        BY <1>5, <3>1, <4>1 DEF Toggled
      <4> QED
        BY <1>1, <4>2 DEF BytesOf
    <3>3. byte["ptyn"].ab = tx.old.ab /\ byte["ptyn"].ab \in {0, 1} /\ flag \in {0, 1}
      BY <2>2, <3>1, Constants DEF Shows, FlagInv, TypeInv, ByteTypes, BytesOf, SeenTypes
    <3>4. byte["ptyn"].ab # flag => seen["ptyn"] = {}
      BY <3>1 DEF Shows, FlagInv
    <3>5. byte'["ptyn"].ab = flag' => seen'["ptyn"] = {}
      BY <1>1, <1>7, <2>2, <3>2, <3>3, <3>4
    <3> QED
      BY <1>3, <2>2, <3>1, <3>5 DEF FlagInv
  <2>3. CASE tx.g # "ptyn"
    <3>1. byte'["ptyn"] = byte["ptyn"] /\ tx.pc # "ptyn"
      BY <1>1, <1>7, <2>3, Constants, Marks DEF Marked, GroupOf
    <3>2. tx.pc \notin {"emit", "advance"} /\ tx'.pc \notin {"ptyn", "advance"}
      BY <1>1, <1>2, <1>3 DEF Marked, Kinds, Groups
    <3> QED
      BY <1>1, <1>3, <2>1, <2>3, <3>1, <3>2 DEF Shows, FlagInv
  <2> QED
    BY <2>2, <2>3
<1> QED
  BY <1>4, <1>8, <1>9 DEF Shows

(* A text that is not torn shows the same name at all positions.            *)
LEMMA OnAirShown == ASSUME TypeInv, Shows, Clear(tx.g) PROVE OnAir = Shown(tx.g)
<1>1. tx.g \in Groups
  BY DEF TypeInv, TxTypes, Txs
<1>2. PICK k \in Kinds :
         /\ k = IF tx.g = "ps" /\ ta /\ text["tps"][0] # 0 THEN "tps" ELSE tx.g
         /\ k \in Marked(tx.g) /\ GroupOf(k) = tx.g
  BY <1>1, Marks DEF Groups, Kinds, GroupOf
<1>3. Position(tx.g) \in Places(k)
  BY <1>1, <1>2, OnAirType DEF Places
<1>4. Whole(text, k)
  BY <1>2 DEF Shows, CopyInv, Clear
<1> QED
  BY <1>2, <1>3, <1>4 DEF OnAir, Shown, Whole

LEMMA EmitShows == ASSUME TypeInv, Shows, Emit PROVE Shows'
<1>1. /\ tx.g \in Groups /\ tx.pc = "emit" /\ UNCHANGED <<text, byte, cseg, torn>>
      /\ seen \in [Groups -> SUBSET Values]
  BY DEF Emit, TypeInv, TxTypes, Txs, SeenTypes
<1>2. /\ tx'.pc = "advance" /\ tx'.g = tx.g /\ tx'.old = byte[tx.g]
      /\ UNCHANGED <<data, ta, ctl>>
  BY TxStepType DEF Emit
<1>3. CopyInv'
  BY <1>1, <1>2 DEF Shows, CopyInv, InWriting, Whole
<1>4. \A g : Position(g)' = Position(g) /\ Shown(g)' = Shown(g)
  BY <1>1, <1>2 DEF Position, Shown
<1>5. \A h \in Groups \ {tx.g} : seen'[h] = seen[h]
  BY <1>1 DEF Emit
<1>6. CASE tx.g = "ptyn"
  <2>1. /\ seen'["ptyn"] = (IF byte["ptyn"].ab # flag THEN {OnAir}
                            ELSE seen["ptyn"] \cup {OnAir})
        /\ flag' = byte["ptyn"].ab
        /\ broken' = (IF byte["ptyn"].ab # flag THEN broken \ {"ptyn"} ELSE broken)
    BY <1>1, <1>6 DEF Emit
  <2>2. SegmentInv'
    BY <1>1, <1>2, <1>4, <1>5, <1>6, <2>1 DEF Shows, SegmentInv, Clear, Groups
  <2>3. "ptyn" \notin torn => OnAir = Shown("ptyn")
    <3>1. "ptyn" \notin torn => Whole(text, "ptyn")
      BY Constants DEF Shows, CopyInv
    <3> QED
      BY <1>6, <3>1, OnAirType DEF OnAir, Shown, Whole
  <2>4. FlagInv'
    BY <1>1, <1>2, <1>4, <1>6, <2>1, <2>3 DEF Shows, FlagInv
  <2> QED
    BY <1>3, <2>2, <2>4 DEF Shows
<1>7. CASE tx.g # "ptyn"
  <2>1. /\ seen'[tx.g] = (IF Position(tx.g) = 0 THEN {OnAir} ELSE seen[tx.g] \cup {OnAir})
        /\ flag' = flag /\ broken' = broken /\ seen'["ptyn"] = seen["ptyn"]
    BY <1>1, <1>5, <1>7, Constants DEF Emit
  <2>2. SegmentInv'
    <3> SUFFICES ASSUME NEW h \in {"ps", "lps"}, Clear(h)',
                        Position(h)' # 0 \/ (tx'.g = h /\ tx'.pc = "advance")
                 PROVE  seen'[h] = {Shown(h)'}
      BY DEF SegmentInv
    <3>1. Clear(h) /\ h \in Groups
      BY <1>1, <2>1 DEF Clear, Groups
    <3>2. CASE h = tx.g
      BY <1>4, <2>1, <3>1, <3>2, OnAirShown DEF Shows, SegmentInv
    <3>3. CASE h # tx.g
      BY <1>2, <1>4, <1>5, <3>1, <3>3 DEF Shows, SegmentInv
    <3> QED
      BY <3>2, <3>3
  <2>3. FlagInv'
    BY <1>1, <1>2, <1>4, <1>7, <2>1 DEF Shows, FlagInv
  <2> QED
    BY <1>3, <2>2, <2>3 DEF Shows
<1> QED
  BY <1>6, <1>7

LEMMA AdvanceShows == ASSUME TypeInv, Shows, Advance PROVE Shows'
<1>1. /\ tx.g \in Groups /\ tx.pc = "advance"
      /\ UNCHANGED <<text, seen, flag, torn, broken>>
  BY DEF Advance, TypeInv, TxTypes, Txs
<1>2. tx'.pc = "idle" /\ UNCHANGED <<data, ta, ctl>>
  BY TxStepType DEF Advance
<1>3. CopyInv'
  BY <1>1, <1>2 DEF Shows, CopyInv, InWriting, Whole
<1>4. \A g : Shown(g)' = Shown(g) /\ (Clear(g)' <=> Clear(g))
  BY <1>1, <1>2 DEF Shown, Clear
<1>5. ASSUME NEW h \in {"ps", "lps"}, h # tx.g PROVE Position(h)' = Position(h)
  BY <1>1, <1>5 DEF Advance, Position, TypeInv, ByteTypes, Groups
<1>6. SegmentInv'
  <2> SUFFICES ASSUME NEW h \in {"ps", "lps"}, Clear(h), Position(h)' # 0
               PROVE  seen[h] = {Shown(h)}
    BY <1>1, <1>2, <1>4 DEF SegmentInv
  <2> QED
    BY <1>1, <1>5 DEF Shows, SegmentInv
<1>7. FlagInv'
  <2> SUFFICES ASSUME "ptyn" \notin broken PROVE FlagInv'
    BY <1>1 DEF FlagInv
  <2>1. byte'["ptyn"].ab = byte["ptyn"].ab
    <3>1. CASE tx.g = "ptyn"
      <4>1. byte'["ptyn"].ab = tx.old.ab
        BY <1>1, <3>1 DEF Advance, TypeInv, ByteTypes, TxTypes, Txs, Bytes
      <4> QED
        BY <1>1, <3>1, <4>1 DEF Shows, FlagInv
    <3>2. CASE tx.g # "ptyn"
      BY <1>1, <3>2 DEF Advance, TypeInv, ByteTypes, Groups
    <3> QED
      BY <3>1, <3>2
  <2> QED
    BY <1>1, <1>2, <1>4, <2>1 DEF Shows, FlagInv
<1> QED
  BY <1>3, <1>6, <1>7 DEF Shows

(* What a receiver shows between two first segments, or two turns of the    *)
(* flag, is one whole name: get_rds_ps_group and its like copy a name at    *)
(* its first segment only, and PTYN's flag turns with the copy.             *)
THEOREM NamesShownWhole == Spec => []ShownWhole
<1>1. TypeInv /\ Shows /\ [Next]_vars => Shows'
  <2> SUFFICES ASSUME TypeInv, Shows, [Next]_vars PROVE Shows'
    OBVIOUS
  <2>1. CASE UNCHANGED vars
    BY <2>1, AirSame DEF vars, Shows, CopyInv, InWriting, Whole
  <2> QED
    BY <2>1, SetNameShows, CtlShows, OtherShows, BeginShows, CopyShows, ClearShows,
       EmitShows, AdvanceShows DEF Next, Tx
<1> QED
  BY <1>1, InitShows, ShowsWhole, InitType, TypeStep, PTL DEF Spec

-----------------------------------------------------------------------------
(* The rotations of the EON and PS groups: get_rds_eon_group, get_next_af   *)
(* and get_next_af_eon of src/rds_groups.c.                                 *)
LEMMA LeastNumber ==
    ASSUME NEW S \in SUBSET Nat, S # {}
    PROVE  \E x \in S : \A y \in S : x <= y
<1> DEFINE R == {p \in Nat \X Nat : p[1] < p[2]}
<1>1. IsWellFoundedOn(R, Nat)
  BY NatLessThanWellFounded, Zenon DEF OpToRel
<1>2. PICK x \in S : \A y \in S : <<y, x>> \notin R
  <2> HIDE DEF R
  <2> QED
    BY <1>1, WFMin
<1>3. \A y \in S : ~(y < x)
  BY <1>2
<1> QED
  BY <1>3

(* Where the search looks: right after the present index, whatever is       *)
(* there, and then round the array, from its start or two after the index.  *)
First == Wrapped(Successor(Successor(index)))

LEMMA Successors ==
    \A i \in 0 .. IndexMod - 1 :
       Successor(i) = IF i = IndexMod - 1 THEN 0 ELSE i + 1
<1> SUFFICES ASSUME NEW i \in 0 .. IndexMod - 1
             PROVE  (i + 1) % IndexMod = IF i = IndexMod - 1 THEN 0 ELSE i + 1
  BY DEF Successor
<1>1. IndexMod \in Nat /\ IndexMod > 0
  BY EonAssumption
<1>2. CASE i = IndexMod - 1
  <2>1. IndexMod % IndexMod = 0
    BY <1>1
  <2>2. i + 1 = IndexMod
    BY <1>1, <1>2
  <2> QED
    BY <1>2, <2>1, <2>2
<1>3. CASE i # IndexMod - 1
  <2>1. PICK m \in 0 .. IndexMod - 1 : m = i + 1
    BY <1>1, <1>3
  <2>2. m % IndexMod = m
    BY <1>1
  <2> QED
    BY <1>3, <2>1, <2>2
<1> QED
  BY <1>2, <1>3

LEMMA Looks ==
    ASSUME index \in 0 .. IndexMod - 1
    PROVE  /\ First \in 0 .. EONs - 1
           /\ index + 2 < EONs => First = index + 2
           /\ index + 2 >= EONs /\ index # IndexMod - 1 => First = 0
           /\ index = IndexMod - 1 => First = IF EONs = 1 THEN 0 ELSE 1
           /\ Candidate(0) = IF index = IndexMod - 1 THEN 0 ELSE index + 1
           /\ \A k \in 1 .. EONs :
                 /\ Candidate(k) = IF First + k - 1 >= EONs THEN First + k - 1 - EONs
                                        ELSE First + k - 1
                 /\ Candidate(k) \in 0 .. EONs - 1
<1>1. EONs \in Nat \ {0} /\ IndexMod \in Nat /\ IndexMod > EONs
  BY EonAssumption
<1>2. Successor(index) = IF index = IndexMod - 1 THEN 0 ELSE index + 1
  BY Successors
<1>3. Successor(index) \in 0 .. IndexMod - 1
  BY <1>1, <1>2
<1>4. Successor(Successor(index)) =
        IF index = IndexMod - 1 THEN 1 ELSE IF index = IndexMod - 2 THEN 0 ELSE index + 2
  <2> DEFINE j == Successor(index)
  <2>1. Successor(j) = IF j = IndexMod - 1 THEN 0 ELSE j + 1
    BY <1>3, Successors
  <2> QED
    BY <1>1, <1>2, <2>1
<1>5. First = IF Successor(Successor(index)) >= EONs THEN 0
              ELSE Successor(Successor(index))
  BY DEF First, Wrapped
<1>6. /\ First \in 0 .. EONs - 1
      /\ index + 2 < EONs => First = index + 2
      /\ index + 2 >= EONs /\ index # IndexMod - 1 => First = 0
      /\ index = IndexMod - 1 => First = IF EONs = 1 THEN 0 ELSE 1
  BY <1>1, <1>4, <1>5
<1>7. Candidate(0) = IF index = IndexMod - 1 THEN 0 ELSE index + 1
  BY <1>2 DEF Candidate
<1>8. ASSUME NEW k \in 1 .. EONs
      PROVE  /\ Candidate(k) = IF First + k - 1 >= EONs THEN First + k - 1 - EONs
                                    ELSE First + k - 1
             /\ Candidate(k) \in 0 .. EONs - 1
  <2>1. Candidate(k) = IF First + k - 1 >= EONs THEN First + k - 1 - EONs
                            ELSE First + k - 1
    <3>1. k # 0
      BY <1>1
    <3>2. Candidate(k) =
            LET i == First + k - 1 IN IF i >= EONs THEN i - EONs ELSE i
      BY <3>1, Zenon DEF Candidate, First
    <3> QED
      BY <1>1, <1>6, <3>2
  <2> QED
    BY <1>1, <1>6, <2>1
<1> QED
  BY <1>6, <1>7, <1>8

LEMMA StepsIs ==
    /\ Steps \in 0 .. EONs
    /\ Steps < EONs => Enabled(Candidate(Steps))
    /\ \A j \in 0 .. Steps - 1 : ~Enabled(Candidate(j))
<1> DEFINE K == {k \in 0 .. EONs : k < EONs => Enabled(Candidate(k))}
<1>1. EONs \in Nat
  BY EonAssumption
<1>2. EONs \in K /\ K \subseteq Nat
  BY <1>1
<1>3. PICK k \in K : \A j \in K : k <= j
  <2> HIDE DEF K
  <2> QED
    BY <1>2, LeastNumber
<1>4. ASSUME NEW j \in 0 .. k - 1 PROVE ~Enabled(Candidate(j))
  BY <1>1, <1>3
<1>5. \E n \in 0 .. EONs : /\ n < EONs => Enabled(Candidate(n))
                           /\ \A j \in 0 .. n - 1 : ~Enabled(Candidate(j))
  BY <1>3, <1>4
<1> QED
  BY <1>5 DEF Steps

LEMMA LooksType ==
    ASSUME index \in 0 .. IndexMod - 1
    PROVE  Candidate(Steps) \in 0 .. IndexMod - 1
<1>1. EONs \in Nat \ {0} /\ IndexMod \in Nat /\ IndexMod > EONs
  BY EonAssumption
<1>2. Candidate(0) \in 0 .. IndexMod - 1
  BY <1>1, Looks
<1>3. \A k \in 1 .. EONs : Candidate(k) \in 0 .. IndexMod - 1
  BY <1>1, Looks
<1> QED
  BY <1>1, <1>2, <1>3, StepsIs
-----------------------------------------------------------------------------
(* Type correctness.                                                        *)
LEMMA PairType ==
    ASSUME RotaTypeOK, NEW e \in Networks
    PROVE  /\ EonPair(e) \in SUBSET (0 .. MaxAfs)
           /\ EonAfNext(e) \in 0 .. MaxAfs
<1>1. MaxAfs \in Nat /\ num[e] \in 0 .. MaxAfs /\ afState[e] \in 0 .. MaxAfs
  BY EonAssumption DEF RotaTypeOK
<1>2. EonPair(e) \in SUBSET (0 .. MaxAfs)
  BY <1>1 DEF EonPair
<1>3. EonAfNext(e) \in 0 .. MaxAfs
  BY <1>1 DEF EonAfNext
<1> QED
  BY <1>2, <1>3

Blocks == [kind : {"none", "ps", "af", "pty"}, pair : 0 .. 3, afs : SUBSET (0 .. MaxAfs)]

LEMMA BlockTypes ==
    /\ \A k \in 0 .. 3 : PsPair(k) \in Blocks
    /\ \A s \in SUBSET (0 .. MaxAfs) : Afs(s) \in Blocks
    /\ \A kind \in {"none", "pty"} : Block(kind) \in Blocks
BY DEF Blocks, PsPair, Afs, Block

LEMMA VariantType ==
    ASSUME RotaTypeOK, EonVariant
    PROVE  RotaTypeOK'
<1> DEFINE af == variant = 4 /\ index \in Networks
           c == CASE variant < 4 -> PsPair(variant)
                  [] variant = 5 -> Block("pty")
                  [] af -> Afs(EonPair(index))
                  [] OTHER -> Block("none")
           v == IF variant = 5 THEN 13 ELSE variant
<1>1. /\ variant < 6 /\ variant' = variant + 1
      /\ air' = [v |-> v, c |-> c, pi |-> index]
      /\ afState' = IF af THEN [afState EXCEPT ![index] = EonAfNext(index)] ELSE afState
      /\ UNCHANGED index /\ EonOnly
  BY DEF EonVariant
<1>2. variant \in 0 .. 5 /\ index \in 0 .. IndexMod - 1
  BY <1>1 DEF RotaTypeOK
<1>3. c \in Blocks
  <2>1. CASE variant < 4
    BY <1>2, <2>1, BlockTypes
  <2>2. CASE variant = 5
    BY <2>2, BlockTypes
  <2>3. CASE af
    BY <2>3, PairType, BlockTypes
  <2>4. CASE ~(variant < 4) /\ variant # 5 /\ ~af
    BY <2>4, BlockTypes
  <2> QED
    BY <2>1, <2>2, <2>3, <2>4
<1>4. air' \in [v : {0, 1, 2, 3, 4, 13, Data}, c : Blocks, pi : 0 .. IndexMod - 1]
  <2>1. v \in {0, 1, 2, 3, 4, 13, Data}
    BY <1>2
  <2> HIDE DEF c, v
  <2> QED
    BY <1>1, <1>2, <1>3, <2>1
<1>5. afState' \in [Networks -> 0 .. MaxAfs]
  <2>1. CASE af
    BY <1>1, <2>1, PairType DEF RotaTypeOK
  <2>2. CASE ~af
    BY <1>1, <2>2 DEF RotaTypeOK
  <2> QED
    BY <2>1, <2>2
<1> HIDE DEF c, v, af
<1> QED
  BY <1>1, <1>2, <1>4, <1>5 DEF RotaTypeOK, EonOnly, Blocks

LEMMA LastType ==
    ASSUME RotaTypeOK, EonLast
    PROVE  RotaTypeOK'
<1>1. index' \in 0 .. IndexMod - 1 /\ index \in 0 .. IndexMod - 1
  BY LooksType DEF EonLast, RotaTypeOK
<1>2. PsPair(0) \in Blocks
  BY BlockTypes
<1>3. air' \in [v : {0, 1, 2, 3, 4, 13, Data}, c : Blocks, pi : 0 .. IndexMod - 1]
  BY <1>1, <1>2 DEF EonLast
<1> QED
  BY <1>1, <1>3 DEF EonLast, EonOnly, RotaTypeOK, Blocks

LEMMA RotaTypeStep ==
    ASSUME RotaTypeOK, [RotaNext]_rotaVars
    PROVE  RotaTypeOK'
<1>1. MaxAfs \in Nat /\ MaxCommands \in Nat
  BY EonAssumption
<1>2. ASSUME NEW e \in Networks, SetEon(e) PROVE RotaTypeOK'
  <2>1. on' \in SUBSET Networks /\ result' \in {"ok", "error"}
    BY <1>2 DEF SetEon, RotaTypeOK
  <2>2. num' \in [Networks -> 0 .. MaxAfs]
    BY <1>2 DEF SetEon, RotaTypeOK
  <2>3. commands' \in 0 .. MaxCommands
    BY <1>1, <1>2 DEF SetEon, Command, RotaTypeOK
  <2> QED
    BY <1>2, <2>1, <2>2, <2>3 DEF SetEon, Transmitter, RotaTypeOK
<1>3. CASE SetAf
  BY <1>1, <1>3 DEF SetAf, Command, Transmitter, RotaTypeOK
<1>4. CASE PsGroup
  <2>1. mainState' \in 0 .. MaxAfs /\ mainAir' \in SUBSET (0 .. MaxAfs)
    BY <1>1, <1>4 DEF PsGroup, RotaTypeOK
  <2> QED
    BY <1>4, <2>1 DEF PsGroup, RotaTypeOK
<1>5. CASE UNCHANGED rotaVars
  BY <1>5 DEF rotaVars, RotaTypeOK
<1> QED
  BY <1>2, <1>3, <1>4, <1>5, VariantType, LastType DEF RotaNext, EonGroup

LEMMA RotaInvariant == RotaSpec => []RotaTypeOK
<1>1. RotaInit => RotaTypeOK
  <2> SUFFICES ASSUME RotaInit PROVE RotaTypeOK
    OBVIOUS
  <2>1. /\ EONs \in Nat \ {0} /\ IndexMod \in Nat \ {0} /\ MaxAfs \in Nat
        /\ MaxCommands \in Nat
    BY EonAssumption
  <2>2. Block("none") \in Blocks
    BY BlockTypes
  <2> QED
    BY <2>1, <2>2 DEF RotaInit, RotaTypeOK, Blocks
<1> QED
  BY <1>1, RotaTypeStep, PTL DEF RotaSpec

(* Whatever lists are set and whichever networks are switched, the position *)
(* in every list of frequencies stays within what a list may hold, eon_index*)
(* within its width, and a search always comes to an end.                   *)
THEOREM RotaTypeCorrect == RotaSpec => []RotaTypeOK
<1> QED
  BY RotaInvariant

-----------------------------------------------------------------------------
(* The order in which the networks get their turns.                         *)
LEMMA LooksEverywhere ==
    ASSUME index \in 0 .. IndexMod - 1, NEW e \in Networks
    PROVE  \E k \in 1 .. EONs : Candidate(k) = e
<1>1. EONs \in Nat \ {0} /\ e \in 0 .. EONs - 1
  BY EonAssumption DEF Networks
<1>2. First \in 0 .. EONs - 1
  BY Looks
<1>3. CASE e >= First
  <2>1. PICK k \in 1 .. EONs : k = e - First + 1
    BY <1>1, <1>2, <1>3
  <2>2. Candidate(k) = IF First + k - 1 >= EONs THEN First + k - 1 - EONs
                            ELSE First + k - 1
    BY Looks
  <2> QED
    BY <1>1, <1>2, <2>1, <2>2
<1>4. CASE e < First
  <2>1. PICK k \in 1 .. EONs : k = e - First + 1 + EONs
    BY <1>1, <1>2, <1>4
  <2>2. Candidate(k) = IF First + k - 1 >= EONs THEN First + k - 1 - EONs
                            ELSE First + k - 1
    BY Looks
  <2> QED
    BY <1>1, <1>2, <1>4, <2>1, <2>2
<1> QED
  BY <1>1, <1>2, <1>3, <1>4

LEMMA TurnStep ==
    ASSUME RotaTypeOK, EonLast, on # {}
    PROVE  /\ Enabled(index')
           /\ \A e \in on : e > index => index < index' /\ index' <= e
           /\ (\A e \in on : e <= index) /\ index' \in Networks
                => \A e \in on : index' <= e
<1>1. /\ EONs \in Nat \ {0} /\ IndexMod \in Nat /\ IndexMod > EONs
      /\ index \in 0 .. IndexMod - 1
      /\ on \subseteq 0 .. EONs - 1 /\ ghosts \subseteq EONs .. IndexMod - 1
  BY EonAssumption DEF RotaTypeOK, Networks
<1>2. index' = Candidate(Steps)
  BY DEF EonLast
<1>3. PICK n \in 0 .. EONs : n = Steps
  BY StepsIs
<1>4. /\ index' = Candidate(n)
      /\ n < EONs => Enabled(Candidate(n))
      /\ \A j \in 0 .. n - 1 : ~Enabled(Candidate(j))
  BY <1>2, <1>3, StepsIs
<1>5. \A e \in on : Enabled(e)
  BY DEF Enabled
<1>6. /\ First \in 0 .. EONs - 1
      /\ index + 2 < EONs => First = index + 2
      /\ index + 2 >= EONs /\ index # IndexMod - 1 => First = 0
      /\ index = IndexMod - 1 => First = IF EONs = 1 THEN 0 ELSE 1
      /\ Candidate(0) = IF index = IndexMod - 1 THEN 0 ELSE index + 1
  BY <1>1, Looks
<1>7. \A k \in 1 .. EONs :
         Candidate(k) = IF First + k - 1 >= EONs THEN First + k - 1 - EONs
                             ELSE First + k - 1
  BY <1>1, Looks
<1>8. Enabled(index')
  <2>1. CASE n < EONs
    BY <1>4, <2>1
  <2>2. CASE n = EONs
    <3>1. PICK e \in on : TRUE
      OBVIOUS
    <3>2. PICK k \in 1 .. EONs : Candidate(k) = e
      BY <1>1, LooksEverywhere DEF Networks
    <3>3. k = EONs
      BY <1>1, <1>4, <1>5, <2>2, <3>2
    <3> QED
      BY <1>4, <1>5, <2>2, <3>2, <3>3
  <2> QED
    BY <1>1, <2>1, <2>2
<1>9. ASSUME NEW e \in on, NEW k \in 0 .. EONs, Candidate(k) = e PROVE n <= k
  BY <1>1, <1>4, <1>5, <1>9
<1>10. ASSUME NEW e \in on, e > index PROVE index < index' /\ index' <= e
  <2>1. e \in 0 .. EONs - 1 /\ index + 1 < EONs /\ Candidate(0) = index + 1
    BY <1>1, <1>6, <1>10
  <2>2. CASE n = 0
    BY <1>1, <1>4, <1>10, <2>1, <2>2
  <2>3. CASE n # 0
    <3>1. e # index + 1
      BY <1>1, <1>9, <2>1, <2>3
    <3>2. index + 2 < EONs /\ First = index + 2
      BY <1>1, <1>6, <1>10, <2>1, <3>1
    <3>3. PICK k \in 1 .. EONs : k = e - index - 1
      BY <1>1, <1>10, <2>1, <3>1
    <3>4. Candidate(k) = e
      BY <1>1, <1>7, <2>1, <3>2, <3>3
    <3>5. n \in 1 .. k
      BY <1>1, <1>9, <2>3, <3>4
    <3>6. Candidate(n) = First + n - 1
      BY <1>1, <1>7, <2>1, <3>2, <3>3, <3>5
    <3> QED
      BY <1>1, <1>4, <2>1, <3>2, <3>3, <3>5, <3>6
  <2> QED
    BY <2>2, <2>3
<1>11. ASSUME \A e \in on : e <= index, index' \in Networks, NEW e \in on
       PROVE  index' <= e
  <2>1. e \in 0 .. EONs - 1 /\ e <= index
    BY <1>1, <1>11
  <2>2. index' \in on /\ index' \in 0 .. EONs - 1 /\ index' <= index
    BY <1>1, <1>8, <1>11 DEF Enabled, Networks
  <2>3. CASE index = IndexMod - 1
    <3>1. CASE n = 0
      BY <1>1, <1>4, <1>6, <2>1, <2>3, <3>1
    <3>2. CASE n # 0
      <4>1. e # 0
        BY <1>1, <1>6, <1>9, <2>3, <3>2
      <4>2. First = 1 /\ e \in 1 .. EONs
        BY <1>1, <1>6, <2>1, <2>3, <4>1
      <4>3. Candidate(e) = e
        BY <1>1, <1>7, <2>1, <4>2
      <4>4. n \in 1 .. e
        BY <1>1, <1>9, <3>2, <4>2, <4>3
      <4>5. Candidate(n) = n
        BY <1>1, <1>7, <2>1, <4>2, <4>4
      <4> QED
        BY <1>4, <4>4, <4>5
    <3> QED
      BY <3>1, <3>2
  <2>4. CASE index # IndexMod - 1
    <3>1. n \in 1 .. EONs
      BY <1>1, <1>4, <1>6, <2>2, <2>4
    <3>2. CASE index + 2 < EONs
      <4>1. First = index + 2
        BY <1>6, <3>2
      <4>2. PICK k \in 1 .. EONs : k = e - First + 1 + EONs
        BY <1>1, <2>1, <3>2, <4>1
      <4>3. Candidate(k) = e
        BY <1>1, <1>7, <2>1, <3>2, <4>1, <4>2
      <4>4. n <= k
        BY <1>9, <4>3
      <4>5. First + n - 1 >= EONs
        BY <1>1, <1>4, <1>7, <2>2, <3>1, <4>1
      <4>6. index' = First + n - 1 - EONs
        BY <1>1, <1>4, <1>7, <3>1, <4>5
      <4> QED
        BY <1>1, <2>1, <3>1, <4>1, <4>2, <4>4, <4>6
    <3>3. CASE index + 2 >= EONs
      <4>1. First = 0
        BY <1>6, <2>4, <3>3
      <4>2. e + 1 \in 1 .. EONs
        BY <1>1, <2>1
      <4>3. Candidate(e + 1) = e
        BY <1>1, <1>7, <2>1, <4>1, <4>2
      <4>4. n <= e + 1
        BY <1>1, <1>9, <2>1, <4>3
      <4>5. index' = n - 1
        BY <1>1, <1>4, <1>7, <3>1, <4>1
      <4> QED
        BY <1>1, <2>1, <3>1, <4>4, <4>5
    <3> QED
      BY <1>1, <3>2, <3>3
  <2> QED
    BY <2>3, <2>4
<1> QED
  BY <1>8, <1>10, <1>11

(* The search of get_rds_eon_group ends at an enabled network if there is   *)
(* one, in the order of the array, for any number of networks and any width *)
(* of eon_index that leaves room for one index more.                        *)
THEOREM TurnsInOrder == RotaSpec => NextInTurn
<1>1. RotaTypeOK /\ [RotaNext]_rotaVars =>
        [EonLast /\ on # {} =>
            /\ Enabled(index')
            /\ \A e \in on : e > index => index < index' /\ index' <= e
            /\ (\A e \in on : e <= index) /\ index' \in Networks
                => \A e \in on : index' <= e]_rotaVars
  BY TurnStep
<1> QED
  BY <1>1, RotaInvariant, PTL DEF RotaSpec, NextInTurn
=============================================================================

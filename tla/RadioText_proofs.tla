-------------------------- MODULE RadioText_proofs --------------------------
(***************************************************************************)
(* Radiotext for any buffer and any number of texts: the types; that no    *)
(* segment past the text goes out unless the two threads' handlers         *)
(* overlapped; that a receiver never shows parts of two texts as one unless*)
(* no change of the flag parted them; and that every step, overlapped or   *)
(* not, is one of TextBroadcast, whose receivers never go back.            *)
(***************************************************************************)
EXTENDS RadioText, TLAPS

CtlPcs == {"idle", "update", "text", "text2", "segments", "toggle", "toggled"}
TxPcs == {"idle", "clear", "emit", "advance", "compare", "hook", "wrap"}
CtlType == [pc : CtlPcs, old : Bytes]
TxType == [pc : TxPcs, old : Bytes]
RcvType == [buf : [Places -> Texts], ab : {0, 1}, shown : SUBSET Texts]

LEMMA Numbers ==
    /\ 0 \in Places /\ 0 \in Texts /\ Texts \subseteq Nat /\ Places \subseteq Nat
    /\ \A v \in Texts : Length[v] \in 0 .. Segments
BY ConstantsAssumption DEF Places, Texts

LEMMA FilledType == ASSUME NEW v \in Texts PROVE Filled(v) \in [Places -> Texts]
BY DEF Filled

(* Changes of one byte, and of the steps of the two threads.                *)
LEMMA ByteFields ==
    ASSUME NEW b \in Bytes
    PROVE  /\ b.st \in 0 .. Segments /\ b.upd \in BOOLEAN /\ b.ab \in {0, 1}
           /\ 1 - b.ab \in {0, 1} /\ 1 - b.ab # b.ab
BY DEF Bytes

LEMMA ByteMarked ==
    ASSUME NEW b \in Bytes, NEW u \in BOOLEAN
    PROVE  [b EXCEPT !.upd = u] \in Bytes /\ [b EXCEPT !.upd = u, !.st = 0] \in Bytes
<1>1. 0 \in 0 .. Segments
  BY ConstantsAssumption
<1> QED
  BY <1>1 DEF Bytes

LEMMA BytePlaced ==
    ASSUME NEW b \in Bytes, NEW n \in 0 .. Segments PROVE [b EXCEPT !.st = n] \in Bytes
BY DEF Bytes

LEMMA ByteToggled ==
    ASSUME NEW b \in Bytes, NEW u \in BOOLEAN
    PROVE  [b EXCEPT !.ab = 1 - @] \in Bytes /\ [b EXCEPT !.upd = u, !.ab = 1 - @] \in Bytes
<1>1. PICK a \in {0, 1} : a = 1 - b.ab
  BY ByteFields
<1>2. [b EXCEPT !.ab = a] \in Bytes /\ [b EXCEPT !.upd = u, !.ab = a] \in Bytes
  BY DEF Bytes
<1> QED
  BY <1>1, <1>2

LEMMA ZeroByteType == ZeroByte \in Bytes
BY ConstantsAssumption DEF ZeroByte, Bytes

(* What the receiver has after a group with a segment of text v.            *)
Kept(b) == IF b.ab = rcv.ab THEN rcv.buf ELSE Filled(0)
LEMMA GroupReceived ==
    ASSUME NEW b \in Bytes, b.st \in Places, NEW v \in Texts, rcv \in RcvType
    PROVE  \E buf \in [Places -> Texts] :
              /\ \A i \in Places : buf[i] = IF i = b.st THEN v ELSE Kept(b)[i]
              /\ Received(b, v) = [buf |-> buf, ab |-> b.ab, shown |-> Shown(buf, rcv.shown)]
<1>1. Kept(b) \in [Places -> Texts]
  BY FilledType, Numbers DEF Kept, RcvType
<1>2. PICK buf \in [Places -> Texts] : buf = [Kept(b) EXCEPT ![b.st] = v]
  BY <1>1
<1>3. Received(b, v) = [buf |-> buf, ab |-> b.ab, shown |-> Shown(buf, rcv.shown)]
  BY <1>2 DEF Received, Kept
<1> QED
  BY <1>1, <1>2, <1>3

(* A whole text in a buffer: the segments up to its end, none missing.      *)
LEMMA WholeBuffer ==
    ASSUME NEW buf \in [Places -> Texts], NEW before, NEW n \in Whole(buf)
    PROVE  /\ n \in Places /\ 0 .. n \subseteq Places /\ 0 \in 0 .. n
           /\ \A i \in 0 .. n : buf[i] # 0
           /\ Shown(buf, before) = {buf[i] : i \in 0 .. n}
<1>1. \A k \in Whole(buf) :
          k \in Places /\ Ends(buf, k) /\ \A i \in 0 .. k : buf[i] # 0 /\ (i < k => ~Ends(buf, i))
  BY DEF Whole
<1>2. \A k \in Whole(buf) : k = n
  <2> SUFFICES ASSUME NEW k \in Whole(buf), k # n PROVE FALSE
    OBVIOUS
  <2>1. k \in Nat /\ n \in Nat
    BY <1>1, Numbers
  <2>2. k < n \/ n < k
    BY <2>1
  <2>3. (k < n => k \in 0 .. n) /\ (n < k => n \in 0 .. k)
    BY <2>1
  <2> QED
    BY <1>1, <2>2, <2>3
<1>3. (CHOOSE k \in Whole(buf) : TRUE) = n
  BY <1>2
<1>4. Shown(buf, before) = {buf[i] : i \in 0 .. n}
  BY <1>3 DEF Shown
<1>5. 0 .. n \subseteq Places /\ 0 \in 0 .. n
  BY <1>1, ConstantsAssumption DEF Places
<1> QED
  BY <1>1, <1>4, <1>5

LEMMA ShownType ==
    ASSUME NEW buf \in [Places -> Texts], NEW before \in SUBSET Texts
    PROVE  Shown(buf, before) \in SUBSET Texts
<1>1. CASE Whole(buf) = {}
  BY <1>1 DEF Shown
<1>2. CASE Whole(buf) # {}
  BY <1>2, WholeBuffer
<1> QED
  BY <1>1, <1>2

-----------------------------------------------------------------------------
LEMMA TypeParts ==
    TypeOK <=>
        /\ text \in [Places -> Texts] /\ latched \in [Places -> Texts]
        /\ byte \in Bytes /\ segs \in 0 .. Segments
        /\ ctl \in CtlType /\ tx \in TxType /\ rcv \in RcvType
        /\ issued \in Texts /\ resets \in 0 .. MaxResets /\ raced \in BOOLEAN
        /\ joined \subseteq Texts
BY DEF TypeOK, CtlType, TxType, RcvType, CtlPcs, TxPcs

LEMMA InitType == Init => TypeOK
<1> SUFFICES ASSUME Init PROVE TypeOK
  OBVIOUS
<1>1. [st |-> 0, upd |-> TRUE, ab |-> 0] \in Bytes /\ 0 \in 0 .. MaxResets
  BY ConstantsAssumption DEF Bytes
<1> QED
  BY <1>1, TypeParts, Numbers, FilledType, ZeroByteType
     DEF Init, CtlType, TxType, RcvType, CtlPcs, TxPcs

(* A step of the control thread: what it leaves alone, and its history.     *)
LEMMA CtlStepType ==
    ASSUME TypeOK, NEW pc \in CtlPcs, CtlStep(pc)
    PROVE  /\ ctl' \in CtlType /\ ctl'.pc = pc
           /\ raced' = (raced \/ tx.pc # "idle") /\ raced' \in BOOLEAN
           /\ joined \subseteq joined' /\ joined' \subseteq Texts
           /\ raced' => issued \in joined'
           /\ ~raced' => joined' = joined
           /\ UNCHANGED <<latched, tx, rcv, issued, resets>>
BY TypeParts, ZeroByteType DEF CtlStep, Step, CtlType

LEMMA CtlTypes == ASSUME TypeOK, Ctl \/ CtlContinue PROVE TypeOK'
<1>1. /\ text \in [Places -> Texts] /\ latched \in [Places -> Texts]
      /\ byte \in Bytes /\ segs \in 0 .. Segments
      /\ ctl \in CtlType /\ tx \in TxType /\ rcv \in RcvType
      /\ issued \in Texts /\ resets \in 0 .. MaxResets /\ raced \in BOOLEAN /\ joined \subseteq Texts
  BY TypeParts
<1>2. ASSUME NEW pc \in CtlPcs, CtlStep(pc), text' \in [Places -> Texts], byte' \in Bytes,
             segs' \in 0 .. Segments
      PROVE  TypeOK'
  <2>1. /\ ctl' \in CtlType /\ raced' \in BOOLEAN /\ joined' \subseteq Texts
        /\ UNCHANGED <<latched, tx, rcv, issued, resets>>
    BY <1>2, CtlStepType
  <2> QED
    BY <1>1, <1>2, <2>1 DEF TypeOK, CtlType, TxType, RcvType, CtlPcs, TxPcs
<1>3. /\ issued < MaxTexts => issued + 1 \in Texts
      /\ resets < MaxResets => resets + 1 \in 0 .. MaxResets
  BY <1>1, ConstantsAssumption DEF Texts
<1>4. /\ ctl.old \in Bytes
      /\ [ctl.old EXCEPT !.upd = TRUE] \in Bytes /\ [ctl.old EXCEPT !.ab = 1 - @] \in Bytes
  <2>1. ctl.old \in Bytes
    BY <1>1 DEF CtlType
  <2> QED
    BY <2>1, ByteMarked, ByteToggled
<1>5. CASE SetRt
  <2>1. ctl' \in CtlType /\ raced' \in BOOLEAN /\ issued' \in Texts /\ joined' \subseteq Texts
    BY <1>1, <1>3, <1>5 DEF SetRt, CtlType, CtlPcs
  <2> QED
    BY <1>1, <1>5, <2>1 DEF SetRt, TypeOK, CtlType, TxType, RcvType, CtlPcs, TxPcs
<1>6. CASE SetUpdate
  BY <1>1, <1>2, <1>4, <1>6 DEF SetUpdate, CtlPcs
<1>7. CASE SetText
  <2>1. text' \in [Places -> Texts]
    BY <1>1, <1>7 DEF SetText
  <2> QED
    BY <1>1, <1>2, <1>7, <2>1 DEF SetText, CtlPcs
<1>8. CASE SetSegments
  <2>1. segs' \in 0 .. Segments
    <3>1. 0 \in 0 .. Segments /\ Length[issued] \in 0 .. Segments
      BY <1>1, Numbers, ConstantsAssumption
    <3> QED
      BY <1>8, <3>1 DEF SetSegments
  <2> QED
    BY <1>1, <1>2, <1>8, <2>1 DEF SetSegments, CtlPcs
<1>9. CASE KeepFlag \/ ToggleRead
  <2>1. ctl' \in CtlType
    BY <1>1, <1>9, ZeroByteType DEF KeepFlag, ToggleRead, CtlType, CtlPcs
  <2>2. raced' \in BOOLEAN /\ joined' \subseteq Texts
    BY <1>1, <1>9 DEF KeepFlag, ToggleRead, Step
  <2>3. UNCHANGED <<text, byte, segs, latched, tx, rcv, issued, resets>>
    BY <1>9 DEF KeepFlag, ToggleRead
  <2> QED
    BY <1>1, <2>1, <2>2, <2>3 DEF TypeOK, CtlType, TxType, RcvType, CtlPcs, TxPcs
<1>10. CASE ToggleWrite
  BY <1>1, <1>2, <1>4, <1>10 DEF ToggleWrite, CtlPcs
<1>11. CASE Reset
  <2>1. byte' \in Bytes /\ latched' \in [Places -> Texts] /\ raced' \in BOOLEAN /\ joined' \subseteq Texts
    BY <1>1, <1>11, FilledType, Numbers, ConstantsAssumption DEF Reset, Bytes
  <2>2. segs' \in 0 .. Segments /\ resets' \in 0 .. MaxResets
    <3>1. text[0] \in Texts
      BY <1>1, Numbers
    <3> QED
      BY <1>3, <1>11, <3>1, Numbers DEF Reset
  <2> QED
    BY <1>1, <1>11, <2>1, <2>2 DEF Reset, TypeOK, CtlType, TxType, RcvType, CtlPcs, TxPcs
<1> QED
  BY <1>5, <1>6, <1>7, <1>8, <1>9, <1>10, <1>11 DEF Ctl, CtlContinue

(* A step of the transmitter.                                               *)
LEMMA TxStepType ==
    ASSUME TypeOK, NEW pc \in TxPcs, TxStep(pc)
    PROVE  /\ tx' \in TxType /\ tx'.pc = pc
           /\ pc \in {"clear", "advance", "wrap"} => tx'.old = byte
           /\ raced' = (raced \/ ctl.pc # "idle") /\ raced' \in BOOLEAN
           /\ joined \subseteq joined' /\ joined' \subseteq Texts
           /\ raced' => issued \in joined'
           /\ ~raced' => joined' = joined
           /\ UNCHANGED <<text, segs, ctl, issued, resets>>
BY TypeParts, ZeroByteType DEF TxStep, Step, TxType

LEMMA TxTypes == ASSUME TypeOK, Tx PROVE TypeOK'
<1>1. /\ text \in [Places -> Texts] /\ latched \in [Places -> Texts]
      /\ byte \in Bytes /\ segs \in 0 .. Segments
      /\ ctl \in CtlType /\ tx \in TxType /\ rcv \in RcvType
      /\ issued \in Texts /\ resets \in 0 .. MaxResets /\ raced \in BOOLEAN /\ joined \subseteq Texts
  BY TypeParts
<1>3. tx.old \in Bytes
  BY <1>1 DEF TxType
<1>4. ASSUME NEW pc \in TxPcs, TxStep(pc), byte' \in Bytes,
             latched' \in [Places -> Texts], rcv' \in RcvType
      PROVE  TypeOK'
  <2>1. /\ tx' \in TxType /\ raced' \in BOOLEAN /\ joined' \subseteq Texts
        /\ UNCHANGED <<text, segs, ctl, issued, resets>>
    BY <1>4, TxStepType
  <2> QED
    BY <1>1, <1>4, <2>1 DEF TypeOK, CtlType, TxType, RcvType, CtlPcs, TxPcs
<1>5. CASE Begin
  BY <1>1, <1>4, <1>5 DEF Begin, TxPcs
<1>6. CASE Clear
  <2>1. byte' \in Bytes
    BY <1>3, <1>6, ByteMarked DEF Clear
  <2> QED
    BY <1>1, <1>4, <1>6, <2>1 DEF Clear, TxPcs
<1>7. CASE Emit
  <2>1. rcv' \in RcvType
    <3>1. CASE byte.st \in Places
      <4>1. latched[byte.st] \in Texts
        BY <1>1, <3>1
      <4>2. PICK buf \in [Places -> Texts] :
                Received(byte, latched[byte.st])
                  = [buf |-> buf, ab |-> byte.ab, shown |-> Shown(buf, rcv.shown)]
        BY <1>1, <3>1, <4>1, GroupReceived
      <4>3. Shown(buf, rcv.shown) \in SUBSET Texts /\ byte.ab \in {0, 1}
        BY <1>1, ShownType, ByteFields DEF RcvType
      <4> QED
        BY <1>7, <3>1, <4>2, <4>3 DEF Emit, RcvType
    <3>2. CASE byte.st \notin Places
      BY <1>1, <1>7, <3>2 DEF Emit
    <3> QED
      BY <3>1, <3>2
  <2> QED
    BY <1>1, <1>4, <1>7, <2>1 DEF Emit, TxPcs
<1>8. CASE Advance
  <2>1. PICK n \in 0 .. Segments : n = IF tx.old.st < Segments THEN tx.old.st + 1 ELSE tx.old.st
    <3>1. tx.old.st \in 0 .. Segments
      BY <1>3, ByteFields
    <3> QED
      BY <3>1, ConstantsAssumption
  <2>2. byte' = [tx.old EXCEPT !.st = n]
    BY <1>8, <2>1 DEF Advance
  <2>3. byte' \in Bytes
    BY <1>3, <2>2, BytePlaced
  <2> QED
    BY <1>1, <1>4, <1>8, <2>3 DEF Advance, TxPcs
<1>9. CASE Compare
  BY <1>1, <1>4, <1>9 DEF Compare, TxPcs
<1>10. CASE Hook
  BY <1>1, <1>4, <1>10 DEF Hook, TxPcs
<1>11. CASE HookSetRt
  <2>1. issued' \in Texts /\ issued' = issued + 1
    BY <1>1, <1>11, ConstantsAssumption DEF HookSetRt, Texts
  <2>2. text' \in [Places -> Texts] /\ segs' \in 0 .. Segments
    BY <1>11, <2>1, FilledType, Numbers DEF HookSetRt
  <2>3. byte' \in Bytes /\ joined' \subseteq Texts
    <3>1. PICK toggle \in BOOLEAN :
             /\ byte' = [byte EXCEPT !.upd = TRUE, !.ab = IF toggle THEN 1 - @ ELSE @]
             /\ joined' \subseteq joined \cup {issued, issued + 1}
      BY <1>11 DEF HookSetRt
    <3>2. CASE toggle
      BY <1>1, <2>1, <3>1, <3>2, ByteToggled
    <3>3. CASE ~toggle
      <4>1. byte' = [byte EXCEPT !.upd = TRUE]
        BY <1>1, <3>1, <3>3 DEF Bytes
      <4> QED
        BY <1>1, <2>1, <3>1, <4>1, ByteMarked
    <3> QED
      BY <3>2, <3>3
  <2>4. tx' \in TxType
    BY <1>11, <2>3 DEF HookSetRt, TxType, TxPcs
  <2> QED
    BY <1>1, <1>11, <2>1, <2>2, <2>3, <2>4
       DEF HookSetRt, TypeOK, CtlType, TxType, RcvType, CtlPcs, TxPcs
<1>12. CASE Wrap
  <2>1. byte' \in Bytes
    <3>1. 0 \in 0 .. Segments
      BY ConstantsAssumption
    <3> QED
      BY <1>3, <1>12, <3>1, BytePlaced DEF Wrap
  <2> QED
    BY <1>1, <1>4, <1>12, <2>1 DEF Wrap, TxPcs
<1> QED
  BY <1>5, <1>6, <1>7, <1>8, <1>9, <1>10, <1>11, <1>12 DEF Tx

(* Every variable keeps its type; the position is never past one after the  *)
(* last segment.                                                            *)
THEOREM TypeCorrect == Spec => []TypeOK
<1>1. TypeOK /\ [Next]_vars => TypeOK'
  <2> SUFFICES ASSUME TypeOK, [Next]_vars PROVE TypeOK'
    OBVIOUS
  <2>1. CASE UNCHANGED vars
    BY <2>1 DEF vars, TypeOK
  <2> QED
    BY <2>1, CtlTypes, TxTypes DEF Next
<1> QED
  BY <1>1, InitType, PTL DEF Spec

-----------------------------------------------------------------------------
(* As long as handlers have not overlapped since the last text was set, one *)
(* thread at most is inside one, what it has read of the byte is what is    *)
(* there, and the position is of a segment whenever one is to be sent.      *)
Changing == {"text", "text2", "segments", "toggle", "toggled"}
Quiet ==
    /\ ctl.pc = "idle" \/ tx.pc = "idle"
    /\ tx.pc \in {"clear", "advance", "wrap"} => tx.old = byte
    /\ ctl.pc \in {"update", "toggled"} => ctl.old = byte
    /\ ctl.pc \in Changing => byte.upd
    /\ tx.pc = "clear" => byte.upd
    /\ tx.pc \in {"emit", "advance"} => byte.st \in Places
    /\ ctl.pc = "idle" /\ tx.pc = "idle" /\ ~byte.upd => byte.st \in Places
QuietInv == ~raced => Quiet

LEMMA QuietCtl == ASSUME TypeOK, QuietInv, Ctl \/ CtlContinue PROVE QuietInv'
<1> SUFFICES ASSUME ~raced' PROVE Quiet'
  BY DEF QuietInv
<1>1. ctl \in CtlType /\ byte \in Bytes
  BY TypeParts
<1>2. \A pc \in CtlPcs : CtlStep(pc) => Quiet /\ tx' = tx /\ tx.pc = "idle" /\ ctl'.pc = pc
  BY CtlStepType DEF QuietInv
<1>3. CASE SetRt
  BY <1>3 DEF SetRt, Quiet, Changing
<1>4. CASE SetUpdate
  <2>1. Quiet /\ tx' = tx /\ tx.pc = "idle" /\ ctl'.pc = "text"
    BY <1>2, <1>4 DEF SetUpdate, CtlPcs
  <2>2. byte'.upd
    <3>1. ctl.old \in Bytes
      BY <1>1 DEF CtlType
    <3> QED
      BY <1>4, <3>1 DEF SetUpdate, Bytes
  <2> QED
    BY <2>1, <2>2 DEF Quiet, Changing
<1>5. CASE SetText
  <2>1. Quiet /\ tx' = tx /\ tx.pc = "idle" /\ ctl'.pc \in {"text2", "segments"} /\ byte' = byte
        /\ ctl.pc \in Changing
    BY <1>2, <1>5 DEF SetText, CtlPcs, Changing
  <2> QED
    BY <2>1 DEF Quiet, Changing
<1>6. CASE SetSegments
  <2>1. Quiet /\ tx' = tx /\ tx.pc = "idle" /\ ctl'.pc \in {"segments", "toggle"} /\ byte' = byte
        /\ ctl.pc \in Changing
    BY <1>2, <1>6 DEF SetSegments, CtlPcs, Changing
  <2> QED
    BY <2>1 DEF Quiet, Changing
<1>7. CASE KeepFlag \/ ToggleRead
  <2>1. Quiet /\ tx' = tx /\ tx.pc = "idle" /\ byte' = byte /\ ctl.pc = "toggle"
    BY <1>7 DEF KeepFlag, ToggleRead, Step, QuietInv
  <2>2. ctl'.pc = "idle" \/ (ctl'.pc = "toggled" /\ ctl'.old = byte)
    BY <1>7 DEF KeepFlag, ToggleRead
  <2> QED
    BY <2>1, <2>2 DEF Quiet, Changing
<1>8. CASE ToggleWrite
  <2>1. Quiet /\ tx' = tx /\ tx.pc = "idle" /\ ctl'.pc = "idle" /\ ctl.pc = "toggled"
    BY <1>2, <1>8 DEF ToggleWrite, CtlPcs
  <2>2. byte'.upd
    BY <1>1, <1>8, <2>1 DEF ToggleWrite, Quiet, Changing, Bytes
  <2> QED
    BY <2>1, <2>2 DEF Quiet, Changing
<1>9. CASE Reset
  <2>1. Quiet /\ tx' = tx /\ tx.pc = "idle" /\ ctl' = ctl /\ ctl.pc = "idle" /\ byte'.upd
    BY <1>9 DEF Reset, QuietInv
  <2> QED
    BY <2>1 DEF Quiet, Changing
<1> QED
  BY <1>3, <1>4, <1>5, <1>6, <1>7, <1>8, <1>9 DEF Ctl, CtlContinue

LEMMA QuietTx == ASSUME TypeOK, QuietInv, Tx PROVE QuietInv'
<1> SUFFICES ASSUME ~raced' PROVE Quiet'
  BY DEF QuietInv
<1>1. tx \in TxType /\ byte \in Bytes /\ tx.old \in Bytes
  BY TypeParts DEF TxType
<1>2. ASSUME NEW pc \in TxPcs, TxStep(pc)
      PROVE  /\ Quiet /\ ctl' = ctl /\ ctl.pc = "idle" /\ tx'.pc = pc
             /\ pc \in {"clear", "advance", "wrap"} => tx'.old = byte
  BY <1>2, TxStepType DEF QuietInv
<1>3. CASE Begin
  <2>1. CASE byte.upd
    <3>1. /\ Quiet /\ ctl' = ctl /\ ctl.pc = "idle" /\ byte' = byte
          /\ tx'.pc = "clear" /\ tx'.old = byte
      BY <1>2, <1>3, <2>1 DEF Begin, TxPcs
    <3> QED
      BY <2>1, <3>1 DEF Quiet, Changing
  <2>2. CASE ~byte.upd
    <3>1. /\ Quiet /\ ctl' = ctl /\ ctl.pc = "idle" /\ byte' = byte
          /\ tx.pc = "idle" /\ tx'.pc = "emit"
      BY <1>2, <1>3, <2>2 DEF Begin, TxPcs
    <3> QED
      BY <2>2, <3>1 DEF Quiet, Changing
  <2> QED
    BY <2>1, <2>2
<1>4. CASE Clear
  <2>1. Quiet /\ ctl' = ctl /\ ctl.pc = "idle" /\ tx'.pc = "emit"
    BY <1>2, <1>4 DEF Clear, TxPcs
  <2>2. byte'.st = 0
    BY <1>1, <1>4 DEF Clear, Bytes
  <2> QED
    BY <2>1, <2>2, Numbers DEF Quiet, Changing
<1>5. CASE Emit
  <2>1. Quiet /\ ctl' = ctl /\ ctl.pc = "idle" /\ tx'.pc = "advance" /\ tx'.old = byte /\ byte' = byte
        /\ tx.pc = "emit"
    BY <1>2, <1>5 DEF Emit, TxPcs
  <2> QED
    BY <2>1 DEF Quiet, Changing
<1>6. CASE Advance
  <2>1. Quiet /\ ctl' = ctl /\ ctl.pc = "idle" /\ tx'.pc = "compare"
    BY <1>2, <1>6 DEF Advance, TxPcs
  <2> QED
    BY <2>1 DEF Quiet, Changing
<1>7. CASE Compare
  <2>1. Quiet /\ ctl' = ctl /\ ctl.pc = "idle" /\ byte' = byte
        /\ tx'.pc = (IF byte.st >= segs \/ byte.st >= Segments THEN "hook" ELSE "idle")
    BY <1>2, <1>7 DEF Compare, TxPcs
  <2>2. tx'.pc = "idle" => byte.st \in Places
    <3>1. byte.st \in 0 .. Segments
      BY <1>1, ByteFields
    <3> QED
      BY <2>1, <3>1, ConstantsAssumption DEF Places
  <2> QED
    BY <2>1, <2>2 DEF Quiet, Changing
<1>8. CASE Hook
  <2>1. Quiet /\ ctl' = ctl /\ ctl.pc = "idle" /\ tx'.pc = "wrap" /\ tx'.old = byte /\ byte' = byte
    BY <1>2, <1>8 DEF Hook, TxPcs
  <2> QED
    BY <2>1 DEF Quiet, Changing
<1>9. CASE HookSetRt
  <2>1. ctl' = ctl /\ ctl.pc = "idle" /\ tx'.pc = "wrap" /\ tx'.old = byte'
    BY <1>9 DEF HookSetRt
  <2>2. byte'.upd
    BY <1>1, <1>9 DEF HookSetRt, Bytes
  <2> QED
    BY <2>1, <2>2 DEF Quiet, Changing
<1>10. CASE Wrap
  <2>1. Quiet /\ ctl' = ctl /\ ctl.pc = "idle" /\ tx'.pc = "idle"
    BY <1>2, <1>10 DEF Wrap, TxPcs
  <2>2. byte'.st = 0
    BY <1>1, <1>10 DEF Wrap, Bytes
  <2> QED
    BY <2>1, <2>2, Numbers DEF Quiet, Changing
<1> QED
  BY <1>3, <1>4, <1>5, <1>6, <1>7, <1>8, <1>9, <1>10 DEF Tx

LEMMA QuietSpec == Spec => []QuietInv
<1>1. Init => QuietInv
  BY Numbers DEF Init, QuietInv, Quiet, Changing
<1>2. TypeOK /\ QuietInv /\ [Next]_vars => QuietInv'
  <2> SUFFICES ASSUME TypeOK, QuietInv, [Next]_vars PROVE QuietInv'
    OBVIOUS
  <2>1. CASE UNCHANGED vars
    BY <2>1 DEF vars, QuietInv, Quiet
  <2> QED
    BY <2>1, QuietCtl, QuietTx DEF Next
<1> QED
  BY <1>1, <1>2, TypeCorrect, PTL DEF Spec

(* No group with a segment past the text, unless handlers overlapped        *)
(* (get_rds_rt_group, which compares after it has sent).                    *)
THEOREM AddressesInText == Spec => []AddressInText
<1>1. QuietInv => AddressInText
  BY DEF QuietInv, Quiet, AddressInText
<1> QED
  BY <1>1, QuietSpec, PTL

-----------------------------------------------------------------------------
(* Texts v and w are together when no change of the flag parts them: when   *)
(* all texts after v, up to w, are joined to the ones before them.          *)
Together(j, v, w) == v <= w /\ (v + 1) .. w \subseteq j
WithLast(v) == Together(joined, v, issued)
WithPrevious(v) == issued > 0 /\ Together(joined, v, issued - 1)

LEMMA TogetherKept ==
    ASSUME TypeOK, NEW v \in Texts, joined \subseteq joined', issued' = issued
    PROVE  /\ WithLast(v) => WithLast(v)'
           /\ WithPrevious(v) => WithPrevious(v)'
           /\ issued \in joined' /\ WithPrevious(v) => WithLast(v)'
<1>1. v \in Nat /\ issued \in Nat
  BY TypeParts, Numbers
<1>2. issued \in joined' /\ WithPrevious(v) => WithLast(v)'
  <2> SUFFICES ASSUME issued \in joined', WithPrevious(v) PROVE WithLast(v)'
    OBVIOUS
  <2>1. v <= issued /\ (v + 1) .. issued - 1 \subseteq joined'
    BY <1>1 DEF WithPrevious, Together
  <2>2. \A k \in (v + 1) .. issued : k = issued \/ k \in (v + 1) .. issued - 1
    BY <1>1
  <2>3. (v + 1) .. issued \subseteq joined'
    BY <2>1, <2>2
  <2> QED
    BY <1>1, <2>1, <2>3 DEF WithLast, Together
<1> QED
  BY <1>1, <1>2 DEF WithLast, WithPrevious, Together

LEMMA TogetherNext ==
    ASSUME TypeOK, NEW v \in Texts, joined \subseteq joined', issued' = issued + 1
    PROVE  /\ WithLast(v) => WithPrevious(v)'
           /\ issued + 1 \in joined' /\ WithLast(v) => WithLast(v)'
           /\ {issued, issued + 1} \subseteq joined' /\ WithPrevious(v) => WithLast(v)'
<1>1. v \in Nat /\ issued \in Nat
  BY TypeParts, Numbers
<1>2. WithLast(v) => WithPrevious(v)'
  BY <1>1 DEF WithLast, WithPrevious, Together
<1>3. issued + 1 \in joined' /\ WithLast(v) => WithLast(v)'
  <2> SUFFICES ASSUME issued + 1 \in joined', WithLast(v) PROVE WithLast(v)'
    OBVIOUS
  <2>1. v <= issued + 1 /\ (v + 1) .. issued \subseteq joined'
    BY <1>1 DEF WithLast, Together
  <2>2. \A k \in (v + 1) .. issued + 1 : k = issued + 1 \/ k \in (v + 1) .. issued
    BY <1>1
  <2>3. (v + 1) .. issued + 1 \subseteq joined'
    BY <2>1, <2>2
  <2> QED
    BY <1>1, <2>1, <2>3 DEF WithLast, Together
<1>4. {issued, issued + 1} \subseteq joined' /\ WithPrevious(v) => WithLast(v)'
  <2> SUFFICES ASSUME {issued, issued + 1} \subseteq joined', WithPrevious(v) PROVE WithLast(v)'
    OBVIOUS
  <2>1. v <= issued + 1 /\ (v + 1) .. issued - 1 \subseteq joined'
    BY <1>1 DEF WithPrevious, Together
  <2>2. \A k \in (v + 1) .. issued + 1 : k \in {issued, issued + 1} \/ k \in (v + 1) .. issued - 1
    BY <1>1
  <2>3. (v + 1) .. issued + 1 \subseteq joined'
    BY <2>1, <2>2
  <2> QED
    BY <1>1, <2>1, <2>3 DEF WithLast, Together
<1> QED
  BY <1>2, <1>3, <1>4

LEMMA EmptyRange == ASSUME NEW n \in Nat PROVE n <= n /\ \A j : (n + 1) .. n \subseteq j
OBVIOUS

LEMMA LastWithLast == TypeOK => WithLast(issued)
<1> SUFFICES ASSUME TypeOK PROVE WithLast(issued)
  OBVIOUS
<1>1. issued \in Nat
  BY TypeParts, Numbers
<1>2. (issued + 1) .. issued = {}
  BY <1>1
<1> QED
  BY <1>1, <1>2 DEF WithLast, Together

(* The receiver's segments are together with the last text, or with the one *)
(* before it while the change of the flag that parts the two is on its way; *)
(* what the transmitter sends is together with the last text.               *)
Parting == ~raced /\ (IF ctl.pc = "idle" THEN rcv.ab # byte.ab ELSE rcv.ab = byte.ab)
BufInv ==
    \/ \A i \in Places : rcv.buf[i] # 0 => WithLast(rcv.buf[i])
    \/ Parting /\ \A i \in Places : rcv.buf[i] # 0 => WithPrevious(rcv.buf[i])
OnAir == ~raced /\ ctl.pc = "idle" /\ ~byte.upd /\ tx.pc # "emit"
AirInv == OnAir => rcv.ab = byte.ab
Pending == ~raced /\ tx.pc \in {"idle", "wrap"} /\ (ctl.pc # "idle" \/ byte.upd)
LatchInv ==
    \A i \in Places :
        latched[i] = 0 \/ WithLast(latched[i]) \/ (Pending /\ WithPrevious(latched[i]))
TextInv ==
    /\ \A i \in Places :
          text[i] = 0 \/ WithLast(text[i]) \/ (ctl.pc # "idle" /\ WithPrevious(text[i]))
    /\ ctl.pc \in {"idle", "segments", "toggle", "toggled"} => text = Filled(issued)
    /\ ctl.pc = "text2" => \A i \in Places : 2 * i < Segments => text[i] = issued
RaceInv == raced => issued \in joined
PartInv == BufInv /\ AirInv /\ LatchInv /\ TextInv /\ RaceInv /\ NoMixedText

LEMMA MixedKept ==
    ASSUME NoMixedText, joined \subseteq joined', rcv' = rcv PROVE NoMixedText'
BY DEF NoMixedText

(* A later step of a command of the control thread.                         *)
LEMMA PartContinue ==
    ASSUME TypeOK, QuietInv, PartInv, TextInv', ctl.pc # "idle",
           raced' = (raced \/ tx.pc # "idle"), joined \subseteq joined',
           raced' => issued \in joined',
           UNCHANGED <<latched, tx, rcv, issued>>,
           ~raced' => \/ ctl'.pc # "idle" /\ byte'.ab = byte.ab
                      \/ /\ ctl'.pc = "idle" /\ byte'.upd
                         /\ issued \in joined' \/ byte'.ab # byte.ab
    PROVE  PartInv'
<1>1. /\ \A i \in Places : rcv.buf[i] \in Texts /\ latched[i] \in Texts
      /\ raced \in BOOLEAN
  BY TypeParts DEF RcvType
<1>2. \A v \in Texts : /\ WithLast(v) => WithLast(v)'
                       /\ WithPrevious(v) => WithPrevious(v)'
                       /\ issued \in joined' /\ WithPrevious(v) => WithLast(v)'
  BY TogetherKept
<1>3. BufInv'
  <2>1. CASE \A i \in Places : rcv.buf[i] # 0 => WithLast(rcv.buf[i])
    BY <1>1, <1>2, <2>1 DEF BufInv
  <2>2. CASE Parting /\ \A i \in Places : rcv.buf[i] # 0 => WithPrevious(rcv.buf[i])
    <3>1. CASE issued \in joined'
      BY <1>1, <1>2, <2>2, <3>1 DEF BufInv
    <3>2. CASE issued \notin joined'
      <4>1. ~raced' /\ Parting'
        BY <2>2, <3>2 DEF Parting
      <4> QED
        BY <1>1, <1>2, <2>2, <4>1 DEF BufInv
    <3> QED
      BY <3>1, <3>2
  <2> QED
    BY <2>1, <2>2 DEF PartInv, BufInv
<1>4. AirInv'
  BY DEF AirInv, OnAir
<1>5. LatchInv'
  <2> SUFFICES ASSUME NEW i \in Places
               PROVE  latched[i] = 0 \/ WithLast(latched[i])' \/ (Pending' /\ WithPrevious(latched[i])')
    BY DEF LatchInv
  <2>1. latched[i] = 0 \/ WithLast(latched[i]) \/ (Pending /\ WithPrevious(latched[i]))
    BY DEF PartInv, LatchInv
  <2>2. Pending /\ issued \notin joined' => Pending'
    BY DEF Pending
  <2> QED
    BY <1>1, <1>2, <2>1, <2>2
<1>6. RaceInv' /\ NoMixedText'
  BY MixedKept DEF RaceInv, PartInv
<1> QED
  BY <1>3, <1>4, <1>5, <1>6 DEF PartInv

(* Its text, when the step does not change it.                              *)
LEMMA TextKept ==
    ASSUME TypeOK, TextInv, joined \subseteq joined', UNCHANGED <<text, issued>>,
           \/ ctl.pc = "update" /\ ctl'.pc = "text"
           \/ /\ ctl.pc \in {"segments", "toggle", "toggled"}
              /\ ctl'.pc \in {"idle", "segments", "toggle", "toggled"}
           \/ ctl' = ctl
    PROVE  TextInv'
<1>1. \A i \in Places : text[i] \in Texts
  BY TypeParts
<1>2. \A v \in Texts : (WithLast(v) => WithLast(v)') /\ (WithPrevious(v) => WithPrevious(v)')
  BY TogetherKept
<1>3. CASE ctl.pc \in {"segments", "toggle", "toggled"}
  <2>1. text = Filled(issued) /\ \A i \in Places : text[i] = issued
    BY <1>3 DEF TextInv, Filled
  <2>2. WithLast(issued)'
    BY <1>2, LastWithLast, TypeParts
  <2> QED
    BY <1>3, <2>1, <2>2 DEF TextInv
<1>4. CASE ctl.pc = "update" /\ ctl'.pc = "text"
  BY <1>1, <1>2, <1>4 DEF TextInv
<1>5. CASE ctl' = ctl
  BY <1>1, <1>2, <1>5 DEF TextInv
<1> QED
  BY <1>3, <1>4, <1>5

LEMMA PartCtl == ASSUME TypeOK, QuietInv, PartInv, Ctl \/ CtlContinue PROVE PartInv'
<1>1. /\ \A i \in Places : rcv.buf[i] \in Texts /\ latched[i] \in Texts /\ text[i] \in Texts
      /\ raced \in BOOLEAN /\ byte \in Bytes /\ ctl \in CtlType /\ ctl.old \in Bytes
      /\ issued \in Texts /\ text \in [Places -> Texts]
  BY TypeParts DEF RcvType, CtlType
<1>2. BufInv /\ AirInv /\ LatchInv /\ TextInv /\ RaceInv /\ NoMixedText
  BY DEF PartInv
<1>3. ASSUME NEW pc \in CtlPcs, CtlStep(pc), ctl.pc # "idle", TextInv',
             ~raced' => \/ pc # "idle" /\ byte'.ab = byte.ab
                        \/ /\ pc = "idle" /\ byte'.upd
                           /\ issued \in joined' \/ byte'.ab # byte.ab
      PROVE  PartInv'
  BY <1>3, CtlStepType, PartContinue
<1>4. CASE SetRt
  <2>1. /\ ctl.pc = "idle" /\ ctl'.pc = "update" /\ issued' = issued + 1
        /\ UNCHANGED <<text, byte, latched, tx, rcv>> /\ joined \subseteq joined'
        /\ raced' = (tx.pc # "idle")
        /\ Hasty \/ raced' => {issued, issued + 1} \subseteq joined'
    BY <1>4 DEF SetRt
  <2>2. \A v \in Texts :
           /\ WithLast(v) => WithPrevious(v)'
           /\ issued + 1 \in joined' /\ WithLast(v) => WithLast(v)'
           /\ {issued, issued + 1} \subseteq joined' /\ WithPrevious(v) => WithLast(v)'
    BY <2>1, TogetherNext
  <2>3. AirInv' /\ RaceInv' /\ NoMixedText'
    BY <1>2, <2>1, MixedKept DEF AirInv, OnAir, RaceInv
  <2>4. TextInv'
    BY <1>1, <1>2, <2>1, <2>2 DEF TextInv
  <2>5. CASE {issued, issued + 1} \subseteq joined'
    <3>1. BufInv'
      BY <1>1, <1>2, <2>1, <2>2, <2>5 DEF BufInv
    <3>2. LatchInv'
      BY <1>1, <1>2, <2>1, <2>2, <2>5 DEF LatchInv
    <3> QED
      BY <2>3, <2>4, <3>1, <3>2 DEF PartInv
  <2>6. CASE ~(Hasty \/ raced')
    <3>1. ~byte.upd /\ ~raced /\ ~raced' /\ tx.pc = "idle" /\ rcv.ab = byte.ab
      BY <1>2, <2>1, <2>6 DEF Hasty, AirInv, OnAir
    <3>2. BufInv'
      <4>1. \A i \in Places : rcv.buf[i] # 0 => WithLast(rcv.buf[i])
        BY <1>2, <2>1, <3>1 DEF BufInv, Parting
      <4>2. Parting'
        BY <2>1, <3>1 DEF Parting
      <4> QED
        BY <1>1, <2>1, <2>2, <4>1, <4>2 DEF BufInv
    <3>3. LatchInv'
      <4>1. \A i \in Places : latched[i] = 0 \/ WithLast(latched[i])
        BY <1>2, <2>1, <3>1 DEF LatchInv, Pending
      <4>2. Pending'
        BY <2>1, <3>1 DEF Pending
      <4> QED
        BY <1>1, <2>1, <2>2, <4>1, <4>2 DEF LatchInv
    <3> QED
      BY <2>3, <2>4, <3>2, <3>3 DEF PartInv
  <2> QED
    BY <2>1, <2>5, <2>6
<1>5. CASE SetUpdate
  <2>1. /\ ctl.pc = "update" /\ CtlStep("text") /\ ctl'.pc = "text" /\ joined \subseteq joined'
        /\ UNCHANGED <<text, issued>> /\ (~raced' => ~raced)
    BY <1>5, CtlStepType DEF SetUpdate, CtlPcs
  <2>2. ~raced' => byte'.ab = byte.ab
    BY <1>1, <1>5, <2>1 DEF SetUpdate, QuietInv, Quiet, Bytes
  <2>3. TextInv'
    BY <1>2, <2>1, TextKept
  <2> QED
    BY <1>3, <2>1, <2>2, <2>3 DEF CtlPcs
<1>6. CASE SetText
  <2>1. /\ ctl.pc \in {"text", "text2"} /\ byte' = byte
        /\ CtlStep(IF ctl.pc = "text" THEN "text2" ELSE "segments")
        /\ text' = [i \in Places |-> IF (2 * i < Segments) = (ctl.pc = "text")
                                     THEN issued ELSE text[i]]
    BY <1>6 DEF SetText
  <2>2. /\ ctl'.pc = (IF ctl.pc = "text" THEN "text2" ELSE "segments")
        /\ joined \subseteq joined' /\ issued' = issued
    BY <2>1, CtlStepType DEF CtlPcs
  <2>3. \A v \in Texts : (WithLast(v) => WithLast(v)') /\ (WithPrevious(v) => WithPrevious(v)')
    BY <2>2, TogetherKept
  <2>4. WithLast(issued)'
    BY <1>1, <2>2, <2>3, LastWithLast DEF WithLast
  <2>5. CASE ctl.pc = "text"
    <3>1. \A i \in Places : text'[i] = IF 2 * i < Segments THEN issued ELSE text[i]
      BY <2>1, <2>5
    <3>2. TextInv'
      BY <1>1, <1>2, <2>2, <2>3, <2>4, <2>5, <3>1 DEF TextInv
    <3> QED
      BY <1>3, <2>1, <2>5, <3>2 DEF CtlPcs
  <2>6. CASE ctl.pc = "text2"
    <3>1. \A i \in Places : text'[i] = issued
      BY <1>2, <2>1, <2>6 DEF TextInv
    <3>2. text' = Filled(issued)
      BY <2>1, <3>1 DEF Filled
    <3>3. TextInv'
      BY <2>2, <2>4, <2>6, <3>1, <3>2 DEF TextInv, Filled
    <3> QED
      BY <1>3, <2>1, <2>6, <3>3 DEF CtlPcs
  <2> QED
    BY <2>1, <2>5, <2>6
<1>7. CASE SetSegments
  <2>1. PICK pc \in {"segments", "toggle"} :
            ctl.pc = "segments" /\ CtlStep(pc) /\ UNCHANGED <<text, byte>>
    BY <1>7 DEF SetSegments
  <2>2. ctl'.pc = pc /\ joined \subseteq joined' /\ issued' = issued
    BY <2>1, CtlStepType DEF CtlPcs
  <2>3. TextInv'
    BY <1>2, <2>1, <2>2, TextKept
  <2> QED
    BY <1>3, <2>1, <2>3 DEF CtlPcs
<1>8. CASE KeepFlag
  <2>1. /\ ctl.pc = "toggle" /\ ctl'.pc = "idle" /\ raced' = (raced \/ tx.pc # "idle")
        /\ joined \subseteq joined' /\ issued \in joined'
        /\ UNCHANGED <<text, byte, latched, tx, rcv, issued>>
    BY <1>1, <1>8 DEF KeepFlag
  <2>2. ~raced' => byte'.upd
    BY <2>1 DEF QuietInv, Quiet, Changing
  <2>3. TextInv'
    BY <1>2, <2>1, TextKept
  <2> QED
    BY <2>1, <2>2, <2>3, PartContinue
<1>9. CASE ToggleRead
  <2>1. /\ ctl.pc = "toggle" /\ ctl'.pc = "toggled" /\ raced' = (raced \/ tx.pc # "idle")
        /\ joined \subseteq joined' /\ (raced' => issued \in joined')
        /\ UNCHANGED <<text, byte, latched, tx, rcv, issued>>
    BY <1>1, <1>9 DEF ToggleRead, Step
  <2>2. TextInv'
    BY <1>2, <2>1, TextKept
  <2> QED
    BY <2>1, <2>2, PartContinue
<1>10. CASE ToggleWrite
  <2>1. /\ ctl.pc = "toggled" /\ CtlStep("idle") /\ ctl'.pc = "idle" /\ joined \subseteq joined'
        /\ UNCHANGED <<text, issued>> /\ (~raced' => ~raced)
    BY <1>10, CtlStepType DEF ToggleWrite, CtlPcs
  <2>2. ~raced' => byte'.upd /\ byte'.ab # byte.ab
    <3>1. ~raced' => ctl.old = byte /\ byte.upd
      BY <2>1 DEF QuietInv, Quiet, Changing
    <3> QED
      BY <1>1, <1>10, <3>1, ByteFields DEF ToggleWrite, Bytes
  <2>3. TextInv'
    BY <1>2, <2>1, TextKept
  <2> QED
    BY <1>3, <2>1, <2>2, <2>3 DEF CtlPcs
<1>11. CASE Reset
  <2>1. /\ ctl.pc = "idle" /\ byte'.upd /\ latched' = Filled(0) /\ joined \subseteq joined'
        /\ raced' = (raced \/ tx.pc # "idle") /\ UNCHANGED <<text, ctl, tx, rcv, issued>>
        /\ Hasty \/ raced' => issued \in joined'
    BY <1>1, <1>11 DEF Reset
  <2>2. \A v \in Texts : /\ WithLast(v) => WithLast(v)'
                         /\ issued \in joined' /\ WithPrevious(v) => WithLast(v)'
    BY <2>1, TogetherKept
  <2>3. TextInv' /\ AirInv' /\ RaceInv' /\ NoMixedText'
    BY <1>2, <2>1, TextKept, MixedKept DEF AirInv, OnAir, RaceInv
  <2>4. LatchInv'
    BY <2>1 DEF LatchInv, Filled
  <2>5. issued \in joined' \/ ~Parting
    BY <1>2, <2>1 DEF Hasty, AirInv, OnAir, Parting
  <2>6. BufInv'
    BY <1>1, <1>2, <2>1, <2>2, <2>5 DEF BufInv
  <2> QED
    BY <2>3, <2>4, <2>6 DEF PartInv
<1> QED
  BY <1>4, <1>5, <1>6, <1>7, <1>8, <1>9, <1>10, <1>11 DEF Ctl, CtlContinue

(* A later step of the transmitter that sends nothing and latches nothing.  *)
LEMMA PartGoing ==
    ASSUME TypeOK, QuietInv, PartInv, NEW pc \in TxPcs \ {"clear"}, TxStep(pc), tx.pc # "idle",
           pc = "idle" => tx.pc \in {"wrap", "compare"},
           tx.pc # "emit", tx.pc = "wrap" => pc = "idle",
           UNCHANGED <<latched, rcv>>,
           ~raced' => /\ byte'.ab = byte.ab
                      /\ pc = "emit" \/ byte'.upd = byte.upd
    PROVE  PartInv'
<1>1. /\ \A i \in Places : rcv.buf[i] \in Texts /\ latched[i] \in Texts
      /\ raced \in BOOLEAN
  BY TypeParts DEF RcvType
<1>2. /\ tx'.pc = pc /\ ctl' = ctl /\ raced' = (raced \/ ctl.pc # "idle")
      /\ joined \subseteq joined' /\ (raced' => issued \in joined')
      /\ UNCHANGED <<text, issued>>
  BY TxStepType
<1>3. \A v \in Texts : /\ WithLast(v) => WithLast(v)'
                       /\ WithPrevious(v) => WithPrevious(v)'
                       /\ issued \in joined' /\ WithPrevious(v) => WithLast(v)'
  BY <1>2, TogetherKept
<1>4. BufInv'
  <2>1. CASE \A i \in Places : rcv.buf[i] # 0 => WithLast(rcv.buf[i])
    BY <1>1, <1>3, <2>1 DEF BufInv
  <2>2. CASE Parting /\ \A i \in Places : rcv.buf[i] # 0 => WithPrevious(rcv.buf[i])
    <3>1. CASE raced'
      BY <1>1, <1>2, <1>3, <2>2, <3>1 DEF BufInv
    <3>2. CASE ~raced'
      <4>1. Parting'
        BY <1>2, <2>2, <3>2 DEF Parting
      <4> QED
        BY <1>1, <1>3, <2>2, <4>1 DEF BufInv
    <3> QED
      BY <3>1, <3>2
  <2> QED
    BY <2>1, <2>2 DEF PartInv, BufInv
<1>5. AirInv'
  BY <1>2 DEF PartInv, AirInv, OnAir
<1>6. LatchInv'
  <2> SUFFICES ASSUME NEW i \in Places
               PROVE  latched[i] = 0 \/ WithLast(latched[i])' \/ (Pending' /\ WithPrevious(latched[i])')
    BY DEF LatchInv
  <2>1. latched[i] = 0 \/ WithLast(latched[i]) \/ (Pending /\ WithPrevious(latched[i]))
    BY DEF PartInv, LatchInv
  <2>2. Pending /\ ~raced' => Pending'
    BY <1>2 DEF Pending, TxPcs
  <2> QED
    BY <1>1, <1>2, <1>3, <2>1, <2>2
<1>7. TextInv' /\ RaceInv' /\ NoMixedText'
  BY <1>2, TextKept, MixedKept DEF RaceInv, PartInv
<1> QED
  BY <1>4, <1>5, <1>6, <1>7 DEF PartInv

LEMMA PartTx == ASSUME TypeOK, QuietInv, PartInv, Tx PROVE PartInv'
<1>1. /\ rcv \in RcvType /\ rcv.buf \in [Places -> Texts]
      /\ \A i \in Places : rcv.buf[i] \in Texts /\ latched[i] \in Texts /\ text[i] \in Texts
      /\ raced \in BOOLEAN /\ byte \in Bytes /\ tx \in TxType /\ tx.old \in Bytes
      /\ issued \in Texts /\ text \in [Places -> Texts]
  BY TypeParts DEF RcvType, TxType
<1>2. BufInv /\ AirInv /\ LatchInv /\ TextInv /\ RaceInv /\ NoMixedText
  BY DEF PartInv
<1>3. ASSUME NEW pc \in TxPcs, TxStep(pc)
      PROVE  /\ tx'.pc = pc /\ ctl' = ctl /\ raced' = (raced \/ ctl.pc # "idle")
             /\ joined \subseteq joined' /\ (raced' => issued \in joined')
             /\ UNCHANGED <<text, issued>> /\ TextInv' /\ RaceInv'
             /\ \A v \in Texts : /\ WithLast(v) => WithLast(v)'
                                 /\ WithPrevious(v) => WithPrevious(v)'
                                 /\ issued \in joined' /\ WithPrevious(v) => WithLast(v)'
  <2>1. /\ tx'.pc = pc /\ ctl' = ctl /\ raced' = (raced \/ ctl.pc # "idle")
        /\ joined \subseteq joined' /\ (raced' => issued \in joined')
        /\ UNCHANGED <<text, issued>>
    BY <1>3, TxStepType
  <2> QED
    BY <1>2, <2>1, TogetherKept, TextKept DEF RaceInv
<1>4. CASE Begin
  <2>1. PICK pc \in {"clear", "emit"} :
            /\ TxStep(pc) /\ tx.pc = "idle" /\ UNCHANGED <<byte, rcv>>
            /\ IF byte.upd THEN pc = "clear" /\ latched' = text
                           ELSE pc = "emit" /\ latched' = latched
    BY <1>4 DEF Begin
  <2>2. /\ tx'.pc = pc /\ ctl' = ctl /\ raced' = (raced \/ ctl.pc # "idle")
        /\ joined \subseteq joined' /\ (raced' => issued \in joined')
        /\ UNCHANGED <<text, issued>> /\ TextInv' /\ RaceInv'
        /\ \A v \in Texts : /\ WithLast(v) => WithLast(v)'
                            /\ WithPrevious(v) => WithPrevious(v)'
                            /\ issued \in joined' /\ WithPrevious(v) => WithLast(v)'
    BY <1>3, <2>1 DEF TxPcs
  <2>3. BufInv'
    <3>1. CASE \A i \in Places : rcv.buf[i] # 0 => WithLast(rcv.buf[i])
      BY <1>1, <2>1, <2>2, <3>1 DEF BufInv
    <3>2. CASE Parting /\ \A i \in Places : rcv.buf[i] # 0 => WithPrevious(rcv.buf[i])
      <4>1. CASE raced'
        BY <1>1, <2>1, <2>2, <3>2, <4>1 DEF BufInv
      <4>2. CASE ~raced'
        <5>1. Parting'
          BY <2>1, <2>2, <3>2, <4>2 DEF Parting
        <5> QED
          BY <1>1, <2>1, <2>2, <3>2, <5>1 DEF BufInv
      <4> QED
        BY <4>1, <4>2
    <3> QED
      BY <1>2, <3>1, <3>2 DEF BufInv
  <2>4. AirInv'
    BY <2>1, <2>2 DEF AirInv, OnAir
  <2>5. LatchInv'
    <3>1. CASE byte.upd
      <4>1. \A i \in Places : text[i] = 0 \/ WithLast(text[i])'
        BY <1>1, <1>2, <2>2 DEF TextInv
      <4> QED
        BY <2>1, <2>2, <3>1, <4>1 DEF LatchInv, WithLast
    <3>2. CASE ~byte.upd
      <4>1. \A i \in Places : latched[i] = 0 \/ WithLast(latched[i])'
        BY <1>1, <1>2, <2>1, <2>2, <3>2 DEF LatchInv, Pending
      <4> QED
        BY <2>1, <3>2, <4>1 DEF LatchInv
    <3> QED
      BY <3>1, <3>2
  <2> QED
    BY <1>2, <2>1, <2>2, <2>3, <2>4, <2>5, MixedKept DEF PartInv
<1>5. CASE Clear
  <2>1. TxStep("emit") /\ tx.pc = "clear" /\ UNCHANGED <<latched, rcv>>
    BY <1>5 DEF Clear
  <2>2. ~raced' => byte'.ab = byte.ab
    <3>1. ~raced' => tx.old = byte
      BY <1>3, <2>1 DEF QuietInv, Quiet, TxPcs
    <3> QED
      BY <1>1, <1>5, <3>1 DEF Clear, Bytes
  <2> QED
    BY <2>1, <2>2, PartGoing DEF TxPcs
<1>6. CASE Emit
  <2>1. /\ tx.pc = "emit" /\ TxStep("advance") /\ UNCHANGED <<byte, latched>>
        /\ rcv' = IF byte.st \in Places THEN Received(byte, latched[byte.st]) ELSE rcv
    BY <1>6 DEF Emit
  <2>2. /\ tx'.pc = "advance" /\ ctl' = ctl /\ raced' = (raced \/ ctl.pc # "idle")
        /\ joined \subseteq joined' /\ (raced' => issued \in joined')
        /\ UNCHANGED <<text, issued>> /\ TextInv' /\ RaceInv'
        /\ \A v \in Texts : /\ WithLast(v) => WithLast(v)'
                            /\ WithPrevious(v) => WithPrevious(v)'
                            /\ issued \in joined' /\ WithPrevious(v) => WithLast(v)'
    BY <1>3, <2>1 DEF TxPcs
  <2>3. \A i \in Places : latched[i] = 0 \/ WithLast(latched[i])'
    BY <1>1, <1>2, <2>1, <2>2 DEF LatchInv, Pending
  <2>4. LatchInv'
    BY <2>1, <2>3 DEF LatchInv
  <2>5. raced' \/ ~Parting \/ rcv.ab # byte.ab
    BY <2>2 DEF Parting
  <2>6. \A v \in Texts : /\ WithLast(v) => Together(joined', v, issued')
                         /\ raced' /\ WithPrevious(v) => Together(joined', v, issued')
    BY <2>2 DEF WithLast
  <2>7. /\ \A i \in Places : latched[i] = 0 \/ Together(joined', latched[i], issued')
        /\ rcv.ab = byte.ab =>
              \A i \in Places : rcv.buf[i] # 0 => Together(joined', rcv.buf[i], issued')
    <3>1. \A i \in Places : latched[i] = 0 \/ Together(joined', latched[i], issued')
      BY <2>1, <2>3 DEF WithLast
    <3>2. ASSUME rcv.ab = byte.ab
          PROVE  \A i \in Places : rcv.buf[i] # 0 => Together(joined', rcv.buf[i], issued')
      <4> SUFFICES ASSUME NEW i \in Places, rcv.buf[i] # 0
                   PROVE  Together(joined', rcv.buf[i], issued')
        OBVIOUS
      <4>1. PICK v \in Texts : v = rcv.buf[i]
        BY <1>1
      <4>2. WithLast(v) \/ (raced' /\ WithPrevious(v))
        BY <1>2, <2>5, <3>2, <4>1 DEF BufInv
      <4>3. Together(joined', v, issued')
        BY <2>6, <4>2
      <4> QED
        BY <4>1, <4>3
    <3> QED
      BY <3>1, <3>2
  <2>8. CASE byte.st \in Places
    <3>1. PICK buf \in [Places -> Texts] :
             /\ \A i \in Places : buf[i] = IF i = byte.st THEN latched[byte.st] ELSE Kept(byte)[i]
             /\ Received(byte, latched[byte.st])
                   = [buf |-> buf, ab |-> byte.ab, shown |-> Shown(buf, rcv.shown)]
      BY <1>1, <2>8, GroupReceived
    <3>2. rcv'.buf = buf /\ rcv'.ab = byte.ab /\ rcv'.shown = Shown(buf, rcv.shown)
      BY <2>1, <2>8, <3>1
    <3>3. \A i \in Places : Kept(byte)[i] # 0 => Together(joined', Kept(byte)[i], issued')
      BY <2>7 DEF Kept, Filled
    <3>4. \A i \in Places : buf[i] # 0 => Together(joined', buf[i], issued')
      BY <2>7, <2>8, <3>1, <3>3
    <3>5. BufInv'
      BY <3>2, <3>4 DEF BufInv, WithLast
    <3>6. AirInv'
      BY <2>1, <3>2 DEF AirInv, OnAir
    <3>7. NoMixedText'
      <4>1. CASE Whole(buf) = {}
        BY <1>2, <2>2, <3>2, <4>1 DEF Shown, NoMixedText
      <4>2. CASE Whole(buf) # {}
        <5>1. PICK n : n \in Whole(buf)
          BY <4>2
        <5>2. /\ 0 .. n \subseteq Places /\ \A i \in 0 .. n : buf[i] # 0
              /\ Shown(buf, rcv.shown) = {buf[i] : i \in 0 .. n}
          BY <5>1, WholeBuffer
        <5>3. \A v \in rcv'.shown : v \in Nat /\ Together(joined', v, issued')
          <6> SUFFICES ASSUME NEW v \in rcv'.shown
                       PROVE  v \in Nat /\ Together(joined', v, issued')
            OBVIOUS
          <6>1. PICK i \in 0 .. n : v = buf[i]
            BY <3>2, <5>2
          <6>2. i \in Places /\ buf[i] # 0 /\ buf[i] \in Texts
            BY <5>2
          <6> QED
            BY <3>4, <6>1, <6>2, Numbers
        <5>4. issued' \in Nat
          BY <1>1, <2>2, Numbers
        <5>5. \A v, w \in rcv'.shown : (v + 1) .. w \subseteq joined'
          <6> SUFFICES ASSUME NEW v \in rcv'.shown, NEW w \in rcv'.shown
                       PROVE  (v + 1) .. w \subseteq joined'
            OBVIOUS
          <6>1. v \in Nat /\ w \in Nat /\ w <= issued' /\ (v + 1) .. issued' \subseteq joined'
            BY <5>3 DEF Together
          <6>2. (v + 1) .. w \subseteq (v + 1) .. issued'
            BY <5>4, <6>1
          <6> QED
            BY <6>1, <6>2
        <5> QED
          BY <5>5 DEF NoMixedText
      <4> QED
        BY <4>1, <4>2
    <3> QED
      BY <2>2, <2>4, <3>5, <3>6, <3>7 DEF PartInv
  <2>9. CASE byte.st \notin Places
    <3>1. rcv' = rcv /\ raced'
      BY <2>1, <2>2, <2>9 DEF QuietInv, Quiet
    <3>2. \A i \in Places : rcv.buf[i] # 0 => Together(joined', rcv.buf[i], issued')
      <4> SUFFICES ASSUME NEW i \in Places, rcv.buf[i] # 0
                   PROVE  Together(joined', rcv.buf[i], issued')
        OBVIOUS
      <4>1. PICK v \in Texts : v = rcv.buf[i]
        BY <1>1
      <4>2. WithLast(v) \/ WithPrevious(v)
        BY <1>2, <4>1 DEF BufInv
      <4>3. Together(joined', v, issued')
        BY <2>6, <3>1, <4>2
      <4> QED
        BY <4>1, <4>3
    <3>3. BufInv'
      BY <3>1, <3>2 DEF BufInv, WithLast
    <3>4. AirInv' /\ NoMixedText'
      BY <1>2, <2>2, <3>1, MixedKept DEF AirInv, OnAir
    <3> QED
      BY <2>2, <2>4, <3>3, <3>4 DEF PartInv
  <2> QED
    BY <2>8, <2>9
<1>7. CASE Advance
  <2>1. TxStep("compare") /\ tx.pc = "advance" /\ UNCHANGED <<latched, rcv>>
    BY <1>7 DEF Advance
  <2>2. ~raced' => byte'.ab = byte.ab /\ byte'.upd = byte.upd
    <3>1. ~raced' => tx.old = byte
      BY <1>3, <2>1 DEF QuietInv, Quiet, TxPcs
    <3> QED
      BY <1>1, <1>7, <3>1 DEF Advance, Bytes
  <2> QED
    BY <2>1, <2>2, PartGoing DEF TxPcs
<1>8. CASE Compare
  <2>1. PICK pc \in {"hook", "idle"} :
            TxStep(pc) /\ tx.pc = "compare" /\ UNCHANGED <<byte, latched, rcv>>
    BY <1>8 DEF Compare
  <2> QED
    BY <2>1, PartGoing DEF TxPcs
<1>9. CASE Hook
  <2>1. TxStep("wrap") /\ tx.pc = "hook" /\ UNCHANGED <<byte, latched, rcv>>
    BY <1>9 DEF Hook
  <2> QED
    BY <2>1, PartGoing DEF TxPcs
<1>10. CASE HookSetRt
  <2>1. /\ tx.pc = "hook" /\ tx'.pc = "wrap" /\ ctl.pc = "idle" /\ ctl' = ctl
        /\ issued' = issued + 1 /\ text' = Filled(issued + 1) /\ ~raced'
        /\ UNCHANGED <<latched, rcv>>
    BY <1>10 DEF HookSetRt
  <2>2. PICK toggle \in BOOLEAN :
           /\ byte' = [byte EXCEPT !.upd = TRUE, !.ab = IF toggle THEN 1 - @ ELSE @]
           /\ joined' = IF Hasty THEN joined \cup {issued, issued + 1}
                        ELSE IF toggle THEN joined ELSE joined \cup {issued + 1}
    BY <1>10 DEF HookSetRt
  <2>3. byte'.upd /\ (toggle => byte'.ab # byte.ab)
    BY <1>1, <2>2, ByteFields DEF Bytes
  <2>4. \A v \in Texts :
           /\ WithLast(v) => WithPrevious(v)'
           /\ issued + 1 \in joined' /\ WithLast(v) => WithLast(v)'
           /\ {issued, issued + 1} \subseteq joined' /\ WithPrevious(v) => WithLast(v)'
    <3>1. joined \subseteq joined'
      BY <2>2
    <3> QED
      BY <2>1, <3>1, TogetherNext
  <2>5. AirInv' /\ RaceInv' /\ NoMixedText'
    BY <1>2, <2>1, <2>2, <2>3, MixedKept DEF AirInv, OnAir, RaceInv
  <2>6. TextInv'
    <3>1. \A i \in Places : text'[i] = issued'
      BY <2>1 DEF Filled
    <3>2. PICK n \in Nat : n = issued'
      BY <1>1, <2>1, Numbers
    <3>3. Together(joined', issued', issued')
      <4>1. n <= n /\ (n + 1) .. n \subseteq joined'
        BY EmptyRange
      <4> QED
        BY <3>2, <4>1 DEF Together
    <3> QED
      BY <2>1, <3>1, <3>3 DEF TextInv, WithLast
  <2>7. /\ \A i \in Places : latched[i] = 0 \/ WithLast(latched[i]) \/ (Hasty /\ WithPrevious(latched[i]))
        /\ Hasty \/ \A i \in Places : rcv.buf[i] # 0 => WithLast(rcv.buf[i])
        /\ Hasty \/ rcv.ab = byte.ab
    BY <1>2, <2>1 DEF LatchInv, Pending, BufInv, AirInv, OnAir, Parting, Hasty
  <2>8. Pending'
    BY <2>1, <2>3 DEF Pending
  <2>9. LatchInv'
    BY <1>1, <2>1, <2>2, <2>4, <2>7, <2>8 DEF LatchInv
  <2>10. BufInv'
    <3>1. CASE Hasty
      BY <1>1, <1>2, <2>1, <2>2, <2>4, <3>1 DEF BufInv
    <3>2. CASE ~Hasty /\ ~toggle
      BY <1>1, <2>1, <2>2, <2>4, <2>7, <3>2 DEF BufInv
    <3>3. CASE ~Hasty /\ toggle
      <4>1. Parting'
        BY <2>1, <2>3, <2>7, <3>3 DEF Parting
      <4> QED
        BY <1>1, <2>1, <2>4, <2>7, <3>3, <4>1 DEF BufInv
    <3> QED
      BY <3>1, <3>2, <3>3
  <2> QED
    BY <2>5, <2>6, <2>9, <2>10 DEF PartInv
<1>11. CASE Wrap
  <2>1. TxStep("idle") /\ tx.pc = "wrap" /\ UNCHANGED <<latched, rcv>>
    BY <1>11 DEF Wrap
  <2>2. ~raced' => byte'.ab = byte.ab /\ byte'.upd = byte.upd
    <3>1. ~raced' => tx.old = byte
      BY <1>3, <2>1 DEF QuietInv, Quiet, TxPcs
    <3> QED
      BY <1>1, <1>11, <3>1 DEF Wrap, Bytes
  <2> QED
    BY <2>1, <2>2, PartGoing DEF TxPcs
<1> QED
  BY <1>4, <1>5, <1>6, <1>7, <1>8, <1>9, <1>10, <1>11 DEF Tx

(* A receiver never shows parts of two texts as one unless every text after *)
(* the first, up to the second, was set without a change of the A/B flag,   *)
(* before the text before it was on air, or by a handler that another       *)
(* overlapped, whatever the lengths of the texts and the threads' steps.    *)
THEOREM NeverMixed == Spec => []NoMixedText
<1>1. Init => PartInv
  <2> SUFFICES ASSUME Init PROVE PartInv
    OBVIOUS
  <2>1. TypeOK /\ WithLast(issued) /\ issued = 0
    BY InitType, LastWithLast DEF Init
  <2>2. \A i \in Places : Filled(0)[i] = 0
    BY DEF Filled
  <2>3. BufInv /\ LatchInv /\ AirInv /\ RaceInv /\ NoMixedText
    BY <2>2 DEF Init, BufInv, LatchInv, AirInv, RaceInv, NoMixedText
  <2>4. TextInv
    BY <2>2 DEF Init, TextInv
  <2> QED
    BY <2>3, <2>4 DEF PartInv
<1>2. TypeOK /\ QuietInv /\ PartInv /\ [Next]_vars => PartInv'
  <2> SUFFICES ASSUME TypeOK, QuietInv, PartInv, [Next]_vars PROVE PartInv'
    OBVIOUS
  <2>1. CASE UNCHANGED vars
    BY <2>1 DEF vars, PartInv, BufInv, AirInv, OnAir, LatchInv, Pending, TextInv, RaceInv, NoMixedText,
                Parting, WithLast, WithPrevious
  <2> QED
    BY <2>1, PartCtl, PartTx DEF Next
<1>3. PartInv => NoMixedText
  BY DEF PartInv
<1> QED
  BY <1>1, <1>2, <1>3, TypeCorrect, QuietSpec, PTL DEF Spec

-----------------------------------------------------------------------------
(* Never back.  A text comes into the buffer first half first, so the first *)
(* segment of what is latched is of a text at least as new as all others;   *)
(* and every text on the display that may be newer than the second half of  *)
(* what is latched is held by the first half of the receiver's buffer, or   *)
(* that half has gaps.                                                      *)
End == Segments - 1
First == {i \in Places : 2 * i < Segments}
Halved(f) ==
    /\ \A i \in First : f[i] = f[0]
    /\ \A i \in Places \ First : f[i] = f[End]
    /\ f[End] <= f[0]
OrderInv ==
    /\ Halved(text) /\ Halved(latched)
    /\ ctl.pc = "text2" => text[0] = issued
    /\ \A i \in Places : text[i] <= issued /\ latched[i] <= text[i] /\ rcv.buf[i] <= text[i]
    /\ latched[0] # 0 => \A i \in Places : rcv.buf[i] <= latched[i]
Covered(v) == \E i \in First : rcv.buf[i] = 0 \/ rcv.buf[i] >= v
DisplayInv ==
    /\ \A v \in rcv.shown : v # 0 /\ v <= text[0] /\ (v <= text[End] \/ Covered(v))
    /\ latched[0] # 0 =>
          \A v \in rcv.shown : v <= latched[0] /\ (v <= latched[End] \/ Covered(v))
    /\ \A n \in Whole(rcv.buf) : rcv.shown = {rcv.buf[i] : i \in 0 .. n}

LEMMA Ordinals ==
    TypeOK => /\ 0 \in First /\ First \subseteq Places /\ 0 \in Places /\ End \in Places
              /\ issued \in Nat /\ rcv.shown \subseteq Nat
              /\ \A i \in Places : text[i] \in Nat /\ latched[i] \in Nat /\ rcv.buf[i] \in Nat
<1>1. 0 \in First /\ First \subseteq Places /\ End \in Places
  BY ConstantsAssumption DEF First, Places, End
<1> QED
  BY <1>1, TypeParts, Numbers DEF RcvType

(* Steps that send nothing.                                                 *)
LEMMA OrderKept ==
    ASSUME TypeOK, OrderInv, DisplayInv, TypeOK', rcv' = rcv,
           \A i \in Places : text[i] <= text'[i] /\ text'[i] <= issued',
           Halved(text)', ctl'.pc = "text2" => text'[0] = issued',
           latched' \in {latched, text, Filled(0)}
    PROVE  OrderInv' /\ DisplayInv'
<1>1. /\ 0 \in First /\ First \subseteq Places /\ 0 \in Places /\ End \in Places /\ rcv.shown \subseteq Nat
      /\ \A i \in Places : /\ text[i] \in Nat /\ latched[i] \in Nat /\ rcv.buf[i] \in Nat
                          /\ text'[i] \in Nat
  <2>1. \A i \in Places : text'[i] \in Nat
    BY TypeParts, Numbers DEF TypeOK
  <2> QED
    BY <2>1, Ordinals
<1>2. /\ Halved(latched)'
      /\ \A i \in Places : latched'[i] <= text'[i] /\ rcv.buf[i] <= text'[i]
      /\ latched'[0] # 0 => \A i \in Places : rcv.buf[i] <= latched'[i]
  <2>1. CASE latched' = latched
    BY <1>1, <2>1 DEF OrderInv, Halved
  <2>2. CASE latched' = text
    BY <1>1, <2>2 DEF OrderInv, Halved
  <2>3. CASE latched' = Filled(0)
    BY <1>1, <2>3 DEF OrderInv, Halved, Filled
  <2> QED
    BY <2>1, <2>2, <2>3
<1>3. OrderInv'
  BY <1>2 DEF OrderInv
<1>4. \A v \in rcv.shown : v # 0 /\ v <= text'[0] /\ (v <= text'[End] \/ Covered(v))
  BY <1>1 DEF DisplayInv
<1>5. latched'[0] # 0 =>
          \A v \in rcv.shown : v <= latched'[0] /\ (v <= latched'[End] \/ Covered(v))
  <2>1. CASE latched' = latched
    BY <2>1 DEF DisplayInv
  <2>2. CASE latched' = text
    BY <2>2 DEF DisplayInv
  <2>3. CASE latched' = Filled(0)
    BY <1>1, <2>3 DEF Filled
  <2> QED
    BY <2>1, <2>2, <2>3
<1>6. \A v : Covered(v)' <=> Covered(v)
  BY DEF Covered
<1> QED
  BY <1>3, <1>4, <1>5, <1>6 DEF DisplayInv

(* What a receiver shows after a group: nothing older alone.                *)
LEMMA OrderSent ==
    ASSUME TypeOK, OrderInv, DisplayInv, byte.st \in Places,
           UNCHANGED <<text, latched, issued>>, ctl' = ctl,
           rcv' = Received(byte, latched[byte.st])
    PROVE  /\ OrderInv' /\ DisplayInv'
           /\ \A v \in rcv.shown : \E w \in rcv'.shown : v <= w
<1>1. /\ 0 \in First /\ First \subseteq Places /\ 0 \in Places /\ End \in Places /\ rcv.shown \subseteq Nat
      /\ \A i \in Places : text[i] \in Nat /\ latched[i] \in Nat /\ rcv.buf[i] \in Nat
  BY Ordinals
<1>2. PICK st \in Places : st = byte.st
  OBVIOUS
<1>3. PICK buf \in [Places -> Texts] :
         /\ \A i \in Places : buf[i] = IF i = st THEN latched[st] ELSE Kept(byte)[i]
         /\ rcv'.buf = buf /\ rcv'.shown = Shown(buf, rcv.shown)
  <2>1. latched[st] \in Texts /\ rcv \in RcvType /\ byte \in Bytes
    BY TypeParts
  <2> QED
    BY <1>2, <2>1, GroupReceived
<1>4. \A i \in Places : Kept(byte)[i] = 0 \/ (Kept(byte) = rcv.buf /\ Kept(byte)[i] = rcv.buf[i])
  BY DEF Kept, Filled
<1>5. \A i \in Places :
          /\ buf[i] \in Nat /\ buf[i] <= text[i]
          /\ latched[0] # 0 => buf[i] <= latched[i]
  BY <1>1, <1>3, <1>4 DEF OrderInv
<1>6. OrderInv'
  BY <1>3, <1>5 DEF OrderInv
(* An old member of the display stays covered.                              *)
<1>7. ASSUME NEW v \in Nat, v <= latched[0] \/ latched[0] = 0, Covered(v)
      PROVE  Covered(v)'
  <2>1. PICK i \in First : rcv.buf[i] = 0 \/ rcv.buf[i] >= v
    BY <1>7 DEF Covered
  <2>2. latched[i] = latched[0]
    BY DEF OrderInv, Halved
  <2>3. buf[i] = 0 \/ buf[i] >= v
    BY <1>1, <1>3, <1>4, <1>7, <2>1, <2>2
  <2> QED
    BY <1>3, <2>3 DEF Covered
<1>8. CASE Whole(buf) = {}
  <2>1. rcv'.shown = rcv.shown
    BY <1>3, <1>8 DEF Shown
  <2>2. \A v \in rcv.shown : v <= latched[0] \/ latched[0] = 0
    BY DEF DisplayInv
  <2>3. DisplayInv'
    BY <1>1, <1>3, <1>7, <1>8, <2>1, <2>2 DEF DisplayInv
  <2> QED
    BY <1>1, <1>6, <2>1, <2>3
<1>9. CASE Whole(buf) # {}
  <2>1. PICK n : n \in Whole(buf)
    BY <1>9
  <2>2. /\ n \in Places /\ 0 .. n \subseteq Places /\ 0 \in 0 .. n
        /\ \A i \in 0 .. n : buf[i] # 0
        /\ rcv'.shown = {buf[i] : i \in 0 .. n}
    BY <1>3, <2>1, WholeBuffer
  <2>3. \A m \in Whole(buf) : rcv'.shown = {buf[i] : i \in 0 .. m}
    BY <1>3, WholeBuffer
  <2>4. \A v \in rcv'.shown :
            \E i \in 0 .. n : i \in Places /\ v = buf[i] /\ v # 0 /\ v \in Nat
    BY <1>5, <2>2
  <2>5. ASSUME NEW v \in rcv'.shown
        PROVE  /\ v # 0 /\ v <= text[0] /\ (v <= text[End] \/ Covered(v)')
               /\ latched[0] # 0 => v <= latched[0] /\ (v <= latched[End] \/ Covered(v)')
    <3>1. PICK i \in Places : v = buf[i] /\ v # 0 /\ v \in Nat
      BY <2>4
    <3>2. v <= text[i] /\ (latched[0] # 0 => v <= latched[i])
      BY <1>5, <3>1
    <3>3. CASE i \in First
      <4>1. Covered(v)'
        BY <1>3, <3>1, <3>3 DEF Covered
      <4>2. text[i] = text[0] /\ latched[i] = latched[0]
        BY <3>3 DEF OrderInv, Halved
      <4> QED
        BY <3>1, <3>2, <4>1, <4>2
    <3>4. CASE i \notin First
      <4>1. /\ text[i] = text[End] /\ latched[i] = latched[End]
            /\ text[End] <= text[0] /\ latched[End] <= latched[0]
        BY <3>4 DEF OrderInv, Halved
      <4>2. v <= text[0] /\ (latched[0] # 0 => v <= latched[0])
        BY <1>1, <3>1, <3>2, <4>1
      <4> QED
        BY <3>1, <3>2, <4>1, <4>2
    <3> QED
      BY <3>3, <3>4
  <2>6. DisplayInv'
    BY <1>3, <2>3, <2>5 DEF DisplayInv
  <2>7. ASSUME NEW v \in rcv.shown PROVE \E w \in rcv'.shown : v <= w
    <3>1. v \in Nat /\ (latched[0] # 0 => v <= latched[0] /\ (v <= latched[End] \/ Covered(v)))
      BY <1>1 DEF DisplayInv
    <3>2. CASE st \notin 0 .. n
      <4>1. \A i \in 0 .. n : i \in Places /\ buf[i] = Kept(byte)[i] /\ buf[i] # 0
        BY <1>3, <2>2, <3>2
      <4>2. Kept(byte) = rcv.buf
        BY <1>4, <2>2, <4>1
      <4>3. \A i \in 0 .. n : buf[i] = rcv.buf[i]
        BY <4>1, <4>2
      <4>4. n \in Whole(rcv.buf)
        <5>1. Ends(buf, n) /\ \A i \in 0 .. n : buf[i] # 0 /\ (i < n => ~Ends(buf, i))
          BY <2>1 DEF Whole
        <5>2. \A i \in 0 .. n : Ends(rcv.buf, i) <=> Ends(buf, i)
          BY <4>3 DEF Ends
        <5>3. n \in 0 .. n
          BY <2>2, Numbers
        <5> QED
          BY <2>2, <4>3, <5>1, <5>2, <5>3 DEF Whole
      <4>5. rcv.shown = {rcv.buf[i] : i \in 0 .. n}
        BY <4>4 DEF DisplayInv
      <4>6. v \in rcv'.shown
        BY <2>2, <4>3, <4>5
      <4> QED
        BY <3>1, <4>6
    <3>3. CASE st \in 0 .. n
      <4>1. buf[st] = latched[st] /\ buf[st] # 0 /\ buf[st] \in rcv'.shown
        BY <1>3, <2>2, <3>3
      <4>2. CASE st \in First
        <5>1. latched[st] = latched[0]
          BY <4>2 DEF OrderInv, Halved
        <5> QED
          BY <1>1, <3>1, <4>1, <5>1
      <4>3. CASE st \notin First
        <5>1. latched[st] = latched[End] /\ latched[End] <= latched[0]
          BY <4>3 DEF OrderInv, Halved
        <5>2. latched[0] # 0
          BY <1>1, <4>1, <5>1
        <5>3. CASE v <= latched[End]
          BY <1>1, <3>1, <4>1, <5>1, <5>3
        <5>4. CASE Covered(v)
          <6>1. PICK i \in First : rcv.buf[i] = 0 \/ rcv.buf[i] >= v
            BY <5>4 DEF Covered
          <6>2. i \in 0 .. n /\ 0 # st /\ i # st
            <7>1. i \in Nat /\ st \in Nat /\ n \in Nat /\ i < st /\ st <= n
              BY <2>2, <3>3, <4>3, Numbers, ConstantsAssumption DEF First, Places
            <7> QED
              BY <1>1, <4>3, <7>1
          <6>3. buf[0] = Kept(byte)[0] /\ buf[0] # 0 /\ buf[i] = Kept(byte)[i] /\ buf[i] # 0
            BY <1>1, <1>3, <2>2, <6>2
          <6>4. buf[i] = rcv.buf[i] /\ buf[i] \in rcv'.shown
            BY <1>1, <1>4, <2>2, <6>2, <6>3
          <6> QED
            BY <6>1, <6>3, <6>4
        <5> QED
          BY <3>1, <5>2, <5>3, <5>4
      <4> QED
        BY <4>2, <4>3
    <3> QED
      BY <3>2, <3>3
  <2> QED
    BY <1>6, <2>6, <2>7
<1> QED
  BY <1>8, <1>9

(* What every step does to texts and receivers.                             *)
LEMMA OrderStep ==
    ASSUME TypeOK, OrderInv, DisplayInv, Next
    PROVE  /\ OrderInv' /\ DisplayInv'
           /\ \A v \in rcv.shown : \E w \in rcv'.shown : v <= w
           /\ \/ issued' = issued + 1 /\ issued < MaxTexts /\ rcv' = rcv
              \/ issued' = issued /\ (raced => raced')
<1>1. TypeOK'
  BY CtlTypes, TxTypes DEF Next
<1>2. /\ 0 \in First /\ First \subseteq Places /\ 0 \in Places /\ End \in Places
      /\ issued \in Nat /\ rcv.shown \subseteq Nat
      /\ \A i \in Places : text[i] \in Nat /\ text[i] <= issued
  BY Ordinals DEF OrderInv
<1>3. ASSUME rcv' = rcv, text' = text, issued' = issued, ctl'.pc # "text2",
             latched' \in {latched, text, Filled(0)}
      PROVE  /\ OrderInv' /\ DisplayInv'
             /\ \A v \in rcv.shown : \E w \in rcv'.shown : v <= w
  <2>1. Halved(text)' /\ \A i \in Places : text[i] <= text'[i] /\ text'[i] <= issued'
    BY <1>2, <1>3 DEF OrderInv, Halved
  <2> QED
    BY <1>1, <1>2, <1>3, <2>1, OrderKept
<1>4. ASSUME rcv' = rcv, text' = text, issued' = issued, ctl' = ctl, latched' \in {latched, text, Filled(0)}
      PROVE  /\ OrderInv' /\ DisplayInv'
             /\ \A v \in rcv.shown : \E w \in rcv'.shown : v <= w
  <2>1. Halved(text)' /\ \A i \in Places : text[i] <= text'[i] /\ text'[i] <= issued'
    BY <1>2, <1>4 DEF OrderInv, Halved
  <2>2. ctl'.pc = "text2" => text'[0] = issued'
    BY <1>4 DEF OrderInv
  <2> QED
    BY <1>1, <1>2, <1>4, <2>1, <2>2, OrderKept
<1>5. CASE SetRt
  <2>1. /\ issued' = issued + 1 /\ issued < MaxTexts /\ ctl'.pc = "update"
        /\ UNCHANGED <<text, latched, rcv>>
    BY <1>5 DEF SetRt
  <2>2. Halved(text)' /\ \A i \in Places : text[i] <= text'[i] /\ text'[i] <= issued'
    BY <1>2, <2>1 DEF OrderInv, Halved
  <2> QED
    BY <1>1, <1>2, <2>1, <2>2, OrderKept
<1>6. CASE SetUpdate \/ SetSegments \/ ToggleWrite
  <2>1. PICK pc \in {"text", "segments", "toggle", "idle"} : CtlStep(pc) /\ text' = text
    BY <1>6 DEF SetUpdate, SetSegments, ToggleWrite
  <2>2. /\ ctl'.pc # "text2" /\ (raced => raced') /\ UNCHANGED <<latched, rcv, issued, text>>
    BY <2>1, CtlStepType DEF CtlPcs
  <2> QED
    BY <1>3, <2>2
<1>7. CASE KeepFlag \/ ToggleRead
  <2>1. ctl'.pc # "text2" /\ UNCHANGED <<latched, rcv, issued, text>>
    BY <1>7 DEF KeepFlag, ToggleRead
  <2>2. raced' = (raced \/ tx.pc # "idle")
    BY <1>7 DEF KeepFlag, ToggleRead, Step
  <2> QED
    BY <1>3, <2>1, <2>2
<1>8. CASE SetText
  <2>1. /\ ctl.pc \in {"text", "text2"}
        /\ CtlStep(IF ctl.pc = "text" THEN "text2" ELSE "segments")
        /\ text' = [i \in Places |-> IF (2 * i < Segments) = (ctl.pc = "text")
                                     THEN issued ELSE text[i]]
    BY <1>8 DEF SetText
  <2>2. /\ ctl'.pc = (IF ctl.pc = "text" THEN "text2" ELSE "segments")
        /\ (raced => raced') /\ UNCHANGED <<latched, rcv, issued>>
    BY <2>1, CtlStepType DEF CtlPcs
  <2>3. CASE ctl.pc = "text"
    <3>1. \A i \in Places : text'[i] = IF i \in First THEN issued ELSE text[i]
      BY <2>1, <2>3 DEF First
    <3>2. Halved(text)'
      <4>1. \A i \in Places \ First : End \notin First
        BY ConstantsAssumption DEF First, Places, End
      <4>2. \A i \in First : text'[i] = issued
        BY <1>2, <3>1
      <4>3. \A i \in Places \ First : text'[i] = text'[End]
        BY <1>2, <3>1, <4>1 DEF OrderInv, Halved
      <4>4. text'[End] <= text'[0]
        BY <1>2, <3>1
      <4> QED
        BY <1>2, <4>2, <4>3, <4>4 DEF Halved
    <3>3. \A i \in Places : text[i] <= text'[i] /\ text'[i] <= issued'
      BY <1>2, <2>2, <3>1
    <3> QED
      BY <1>1, <1>2, <2>2, <3>1, <3>2, <3>3, OrderKept
  <2>4. CASE ctl.pc = "text2"
    <3>1. \A i \in Places : text'[i] = IF i \in First THEN text[i] ELSE issued
      BY <2>1, <2>4 DEF First
    <3>2. Halved(text)'
      BY <1>2, <2>4, <3>1 DEF OrderInv, Halved
    <3>3. \A i \in Places : text[i] <= text'[i] /\ text'[i] <= issued'
      BY <1>2, <2>2, <3>1
    <3> QED
      BY <1>1, <1>2, <2>2, <2>4, <3>2, <3>3, OrderKept
  <2> QED
    BY <2>1, <2>3, <2>4
<1>9. CASE Reset
  <2>1. ctl' = ctl /\ latched' = Filled(0) /\ (raced => raced') /\ UNCHANGED <<rcv, issued, text>>
    BY <1>9 DEF Reset
  <2> QED
    BY <1>4, <2>1
<1>10. CASE Begin \/ Clear \/ Advance \/ Compare \/ Hook \/ Wrap
  <2>1. PICK pc \in TxPcs : TxStep(pc) /\ rcv' = rcv /\ latched' \in {latched, text}
    BY <1>10 DEF Begin, Clear, Advance, Compare, Hook, Wrap, TxPcs
  <2>2. ctl' = ctl /\ (raced => raced') /\ UNCHANGED <<issued, text>>
    BY <2>1, TxStepType
  <2> QED
    BY <1>4, <2>1, <2>2
<1>11. CASE Emit
  <2>1. /\ TxStep("advance") /\ latched' = latched
        /\ rcv' = IF byte.st \in Places THEN Received(byte, latched[byte.st]) ELSE rcv
    BY <1>11 DEF Emit
  <2>2. ctl' = ctl /\ (raced => raced') /\ UNCHANGED <<issued, text>>
    BY <2>1, TxStepType DEF TxPcs
  <2>3. CASE byte.st \in Places
    BY <2>1, <2>2, <2>3, OrderSent
  <2>4. CASE byte.st \notin Places
    BY <1>4, <2>1, <2>2, <2>4
  <2> QED
    BY <2>3, <2>4
<1>12. CASE HookSetRt
  <2>1. /\ issued' = issued + 1 /\ issued < MaxTexts /\ ctl.pc = "idle" /\ ctl' = ctl
        /\ text' = Filled(issued + 1) /\ UNCHANGED <<latched, rcv>>
    BY <1>12 DEF HookSetRt
  <2>2. \A i \in Places : text'[i] = issued + 1
    BY <2>1 DEF Filled
  <2>3. Halved(text)' /\ \A i \in Places : text[i] <= text'[i] /\ text'[i] <= issued'
    BY <1>2, <2>1, <2>2 DEF Halved
  <2> QED
    BY <1>1, <1>2, <2>1, <2>3, OrderKept
<1> QED
  BY <1>5, <1>6, <1>7, <1>8, <1>9, <1>10, <1>11, <1>12 DEF Next, Ctl, CtlContinue, Tx

(* Whatever the threads do, a receiver shows issued texts and never goes    *)
(* back to older ones: every step is one that TextBroadcast allows.         *)
THEOREM BroadcastSteps ==
    Spec => Broadcast!Init /\ [][Broadcast!Next]_<<issued, rcv.shown, raced>>
<1>1. Init => Broadcast!Init /\ OrderInv /\ DisplayInv
  <2> SUFFICES ASSUME Init PROVE Broadcast!Init /\ OrderInv /\ DisplayInv
    OBVIOUS
  <2>1. \A i \in Places : text[i] = 0 /\ latched[i] = 0 /\ rcv.buf[i] = 0
    BY DEF Init, Filled
  <2>2. TypeOK /\ ctl.pc = "idle" /\ issued = 0 /\ rcv.shown = {} /\ ~raced
    BY InitType DEF Init
  <2>3. 0 \in First /\ First \subseteq Places /\ 0 \in Places /\ End \in Places
    BY <2>2, Ordinals
  <2>4. Whole(rcv.buf) = {}
    <3>1. \A n \in Whole(rcv.buf) : n \in Places /\ \A i \in 0 .. n : rcv.buf[i] # 0
      BY DEF Whole
    <3>2. \A n \in Places : n \in 0 .. n
      BY Numbers
    <3> QED
      BY <2>1, <3>1, <3>2
  <2> QED
    BY <2>1, <2>2, <2>3, <2>4 DEF Broadcast!Init, OrderInv, Halved, DisplayInv
<1>2. ASSUME TypeOK, OrderInv, DisplayInv, [Next]_vars
      PROVE  OrderInv' /\ DisplayInv' /\ [Broadcast!Next]_<<issued, rcv.shown, raced>>
  <2>1. CASE UNCHANGED vars
    <3>1. OrderInv' /\ DisplayInv'
      <4>1. OrderInv'
        BY <1>2, <2>1 DEF vars, OrderInv, Halved
      <4>2. \A v : Covered(v)' <=> Covered(v)
        BY <2>1 DEF vars, Covered
      <4> QED
        BY <1>2, <2>1, <4>1, <4>2 DEF vars, DisplayInv
    <3> QED
      BY <2>1, <3>1 DEF vars
  <2>2. CASE Next
    <3>1. /\ OrderInv' /\ DisplayInv'
          /\ \A v \in rcv.shown : \E w \in rcv'.shown : v <= w
          /\ \/ issued' = issued + 1 /\ issued < MaxTexts /\ rcv' = rcv
             \/ issued' = issued /\ (raced => raced')
      BY <1>2, <2>2, OrderStep
    <3>2. TypeOK'
      BY <1>2, <2>2, CtlTypes, TxTypes DEF Next
    <3>3. raced \in BOOLEAN /\ raced' \in BOOLEAN
      BY <1>2, <3>2 DEF TypeOK
    <3>4. CASE issued' = issued + 1 /\ issued < MaxTexts /\ rcv' = rcv
      BY <3>1, <3>3, <3>4 DEF Broadcast!Next, Broadcast!Issue
    <3>5. CASE issued' = issued /\ (raced => raced')
      <4>1. \A v \in rcv'.shown : v \in Nat /\ v # 0 /\ v <= issued
        <5>1. \A v \in rcv'.shown : v \in Nat
          BY <3>2, Numbers DEF TypeOK
        <5>2. text'[0] \in Nat /\ text'[0] <= issued'
          BY <3>1, <3>2, Numbers DEF OrderInv, TypeOK
        <5>3. \A v \in rcv'.shown : v # 0 /\ v <= text'[0]
          BY <3>1 DEF DisplayInv
        <5>4. issued \in Nat
          BY <1>2, Ordinals
        <5> QED
          BY <3>5, <5>1, <5>2, <5>3, <5>4
      <4>2. issued \in Nat
        BY <1>2, Ordinals
      <4>3. rcv'.shown \in SUBSET (1 .. issued)
        BY <4>1, <4>2
      <4>4. Broadcast!Newer
        BY <3>1, <4>3 DEF Broadcast!Newer
      <4>5. CASE raced'
        <5>1. raced' = TRUE /\ issued' = issued
          BY <3>3, <3>5, <4>5
        <5>2. Broadcast!Disturb
          BY <4>4, <5>1 DEF Broadcast!Disturb
        <5> QED
          BY <3>1, <5>2 DEF Broadcast!Next
      <4>6. CASE ~raced'
        <5>1. ~raced /\ raced' = FALSE /\ issued' = issued
          BY <3>3, <3>5, <4>6
        <5>2. Broadcast!Show
          BY <4>4, <5>1 DEF Broadcast!Show
        <5> QED
          BY <3>1, <5>2 DEF Broadcast!Next
      <4> QED
        BY <4>5, <4>6
    <3> QED
      BY <3>1, <3>4, <3>5
  <2> QED
    BY <1>2, <2>1, <2>2
<1> QED
  BY <1>1, <1>2, TypeCorrect, PTL DEF Spec
=============================================================================

----------------------------- MODULE RadioText ------------------------------
(***************************************************************************)
(* Radiotext from the command that sets it to the receiver that shows it:  *)
(* set_rds_rt and toggle_rt_ab (control thread), get_rds_rt_group and the  *)
(* UECP hook it calls (transmitter thread), reset_rds_state, and a receiver*)
(* that collects segments and clears its buffer when the A/B flag of a     *)
(* group changes.  A text may come without a change of the flag.           *)
(* rt_state, rt_update and rt_ab are bit-fields of one byte, so every      *)
(* write of one of them reads and writes back the other two: a read and a  *)
(* write are two steps here, as are the halves of the text.                *)
(***************************************************************************)
EXTENDS Integers

CONSTANTS
    Segments,   \* RT_LENGTH / 4 (16 in the code)
    MaxTexts,   \* bound: texts set in one behaviour; text number v is the v-th
    MaxResets,  \* bound: resets in one behaviour
    Length      \* segments of text v, its end mark included

ASSUME ConstantsAssumption ==
    /\ Segments \in Nat \ {0} /\ MaxTexts \in Nat /\ MaxResets \in Nat
    /\ Length \in [0 .. MaxTexts -> 1 .. Segments]

VARIABLES
    text,       \* RDSData.rt, the number of the text each segment is of
    byte,       \* the byte of rt_state, rt_update and rt_ab
    segs,       \* rt_segments
    latched,    \* rt_text, the copy being transmitted
    ctl,        \* control thread: step in setting text issued, byte it has read
    tx,         \* transmitter: step and the byte it has read
    rcv,        \* receiver: segments collected, flag seen, texts on its display
    issued,     \* texts set so far
    resets,     \* resets so far (bounded by MaxResets)
    raced,      \* history: handlers have overlapped since the last text was set
    joined      \* history: texts no change of flag parts from the text before

vars == <<text, byte, segs, latched, ctl, tx, rcv, issued, resets, raced, joined>>

Texts == 0 .. MaxTexts          \* 0: the text (or the empty buffer) at the start
Places == 0 .. Segments - 1
Bytes == [st : 0 .. Segments, upd : BOOLEAN, ab : {0, 1}]
ZeroByte == [st |-> 0, upd |-> FALSE, ab |-> 0]
Filled(v) == [i \in Places |-> v]

Init ==
    /\ text = Filled(0) /\ latched = Filled(0)
    /\ byte = [st |-> 0, upd |-> TRUE, ab |-> 0]
    /\ segs = Length[0]
    /\ ctl = [pc |-> "idle", old |-> ZeroByte]
    /\ tx = [pc |-> "idle", old |-> ZeroByte]
    /\ rcv = [buf |-> Filled(0), ab |-> 0, shown |-> {}]
    /\ issued = 0 /\ resets = 0 /\ raced = FALSE /\ joined = {}

-----------------------------------------------------------------------------
(* A step of one thread; r says if the other is inside its handler.  A text *)
(* whose handler was overlapped may have lost its change of flag.           *)
Step(r) ==
    /\ raced' = (raced \/ r)
    /\ joined' = IF raced' THEN joined \cup {issued} ELSE joined

(* A new text, or a reset, before the last text was on air for certain: a   *)
(* second change of the flag, or its return to 0, undoes one no receiver    *)
(* has seen, and parts neither text from the one before.                    *)
Hasty == byte.upd \/ raced

(* The control thread: RT1 in scripts/main.lua, which calls set_rt and then *)
(* toggle_rt_ab, and the RT element of uecp.lua, which may not toggle.      *)

CtlStep(pc) ==
    /\ ctl' = [pc |-> pc, old |-> ZeroByte]
    /\ Step(tx.pc # "idle")
    /\ UNCHANGED <<latched, tx, rcv, issued, resets>>

SetRt ==    \* set_rds_rt reads the byte to set rt_update in it
    /\ ctl.pc = "idle" /\ issued < MaxTexts
    /\ issued' = issued + 1
    /\ ctl' = [pc |-> "update", old |-> byte]
    /\ raced' = (tx.pc # "idle")
    /\ joined' = IF Hasty \/ raced' THEN joined \cup {issued, issued + 1} ELSE joined
    /\ UNCHANGED <<text, byte, segs, latched, tx, rcv, resets>>
SetUpdateLost ==     \* Mutant of SetUpdate: the mark is written back as it was
    /\ ctl.pc = "update" /\ CtlStep("text")
    /\ byte' = ctl.old
    /\ UNCHANGED <<text, segs>>
SetUpdate ==
    /\ ctl.pc = "update" /\ CtlStep("text")
    /\ byte' = [ctl.old EXCEPT !.upd = TRUE]
    /\ UNCHANGED <<text, segs>>
SetText ==  \* the first half of the text, then the second
    /\ ctl.pc \in {"text", "text2"}
    /\ CtlStep(IF ctl.pc = "text" THEN "text2" ELSE "segments")
    /\ text' = [i \in Places |-> IF (2 * i < Segments) = (ctl.pc = "text")
                                 THEN issued ELSE text[i]]
    /\ UNCHANGED <<byte, segs>>
SetSegments ==  \* rt_segments is 0 while it is being counted
    /\ ctl.pc = "segments"
    /\ \/ CtlStep("segments") /\ segs # 0 /\ segs' = 0
       \/ CtlStep("toggle") /\ segs' = Length[issued]
    /\ UNCHANGED <<text, byte>>
KeepFlag ==     \* the RT element of uecp.lua without toggle_ab
    /\ ctl.pc = "toggle"
    /\ ctl' = [pc |-> "idle", old |-> ZeroByte]
    /\ raced' = (raced \/ tx.pc # "idle") /\ joined' = joined \cup {issued}
    /\ UNCHANGED <<text, byte, segs, latched, tx, rcv, issued, resets>>
ToggleRead ==
    /\ ctl.pc = "toggle"
    /\ ctl' = [pc |-> "toggled", old |-> byte]
    /\ Step(tx.pc # "idle")
    /\ UNCHANGED <<text, byte, segs, latched, tx, rcv, issued, resets>>
ToggleForgotten ==   \* Mutant of ToggleWrite: the flag stays
    /\ ctl.pc = "toggled" /\ CtlStep("idle")
    /\ byte' = ctl.old
    /\ UNCHANGED <<text, segs>>
ToggleWrite ==
    /\ ctl.pc = "toggled" /\ CtlStep("idle")
    /\ byte' = [ctl.old EXCEPT !.ab = 1 - @]
    /\ UNCHANGED <<text, segs>>

(* reset_rds_state sets the text again in a zeroed state and copies it over.*)
Reset ==
    /\ ctl.pc = "idle" /\ resets < MaxResets
    /\ resets' = resets + 1
    /\ byte' = [st |-> 0, upd |-> TRUE, ab |-> 0]
    /\ segs' = Length[text[0]] /\ latched' = Filled(0)
    /\ raced' = (raced \/ tx.pc # "idle")
    /\ joined' = IF Hasty \/ raced' THEN joined \cup {issued} ELSE joined
    /\ UNCHANGED <<text, ctl, tx, rcv, issued>>

-----------------------------------------------------------------------------
(* The transmitter: get_rds_rt_group.                                       *)

TxStep(pc) ==
    /\ tx' = [pc |-> pc, old |-> IF pc \in {"clear", "advance", "wrap"} THEN byte ELSE ZeroByte]
    /\ Step(ctl.pc # "idle")
    /\ UNCHANGED <<text, segs, ctl, issued, resets>>

Begin ==    \* copy the text if it is new, and read the byte to clear its mark
    /\ tx.pc = "idle"
    /\ IF byte.upd THEN latched' = text /\ TxStep("clear")
                   ELSE UNCHANGED latched /\ TxStep("emit")
    /\ UNCHANGED <<byte, rcv>>
Clear ==
    /\ tx.pc = "clear"
    /\ byte' = [tx.old EXCEPT !.upd = FALSE, !.st = 0]
    /\ TxStep("emit")
    /\ UNCHANGED <<latched, rcv>>

(* The receiver shows its buffer once every segment up to an end mark, or   *)
(* up to the last, has come in: then it shows segments of these texts.      *)
Ends(buf, i) == i = Length[buf[i]] - 1 \/ i = Segments - 1
Whole(buf) ==
    {n \in Places : Ends(buf, n) /\ \A i \in 0 .. n : buf[i] # 0 /\ (i < n => ~Ends(buf, i))}
Shown(buf, before) ==
    IF Whole(buf) = {} THEN before ELSE {buf[i] : i \in 0 .. CHOOSE n \in Whole(buf) : TRUE}
Received(b, v) ==
    LET kept == IF b.ab = rcv.ab THEN rcv.buf ELSE Filled(0)
        buf == [kept EXCEPT ![b.st] = v]
    IN [buf |-> buf, ab |-> b.ab, shown |-> Shown(buf, rcv.shown)]

Emit ==     \* the group goes out; the byte is read to advance rt_state
    /\ tx.pc = "emit"
    /\ rcv' = IF byte.st \in Places THEN Received(byte, latched[byte.st]) ELSE rcv
    /\ TxStep("advance")
    /\ UNCHANGED <<byte, latched>>
Advance ==
    /\ tx.pc = "advance"
    /\ byte' = [tx.old EXCEPT !.st = IF @ < Segments THEN @ + 1 ELSE @]
    /\ TxStep("compare")
    /\ UNCHANGED <<latched, rcv>>
CompareLate ==       \* Mutant of Compare: one segment too far
    /\ tx.pc = "compare"
    /\ TxStep(IF byte.st > segs THEN "hook" ELSE "idle")
    /\ UNCHANGED <<byte, latched, rcv>>
Compare ==  \* past the last segment: the rt_transmission hook, then wrap
    /\ tx.pc = "compare"
    /\ TxStep(IF byte.st >= segs \/ byte.st >= Segments THEN "hook" ELSE "idle")
    /\ UNCHANGED <<byte, latched, rcv>>
Hook ==     \* rt_transmission, skipped while a command holds the Lua mutex
    /\ tx.pc = "hook" /\ TxStep("wrap")
    /\ UNCHANGED <<byte, latched, rcv>>
HookSetRt ==    \* uecp.lua's hook sets the next text, and may toggle the flag
    /\ tx.pc = "hook" /\ ctl.pc = "idle" /\ issued < MaxTexts
    /\ issued' = issued + 1
    /\ text' = Filled(issued + 1) /\ segs' = Length[issued + 1]
    /\ \E toggle \in BOOLEAN :
          /\ byte' = [byte EXCEPT !.upd = TRUE, !.ab = IF toggle THEN 1 - @ ELSE @]
          /\ joined' = IF Hasty THEN joined \cup {issued, issued + 1}
                       ELSE IF toggle THEN joined ELSE joined \cup {issued + 1}
    /\ tx' = [pc |-> "wrap", old |-> byte']
    /\ raced' = FALSE
    /\ UNCHANGED <<latched, ctl, rcv, resets>>
Wrap ==
    /\ tx.pc = "wrap"
    /\ byte' = [tx.old EXCEPT !.st = 0]
    /\ TxStep("idle")
    /\ UNCHANGED <<latched, rcv>>

Ctl == SetRt \/ Reset
CtlContinue == SetUpdate \/ SetText \/ SetSegments \/ KeepFlag \/ ToggleRead \/ ToggleWrite
Tx == Begin \/ Clear \/ Emit \/ Advance \/ Compare \/ Hook \/ HookSetRt \/ Wrap
Next == Ctl \/ CtlContinue \/ Tx

(* The group sequence serves its RT slots for ever and a command that has   *)
(* begun ends.  No text has to be set.                                      *)
Spec == Init /\ [][Next]_vars /\ WF_vars(Tx) /\ WF_vars(CtlContinue)

-----------------------------------------------------------------------------
(* Properties *)

TypeOK ==
    /\ text \in [Places -> Texts] /\ latched \in [Places -> Texts]
    /\ byte \in Bytes /\ segs \in 0 .. Segments
    /\ ctl \in [pc : {"idle", "update", "text", "text2", "segments", "toggle", "toggled"},
                old : Bytes]
    /\ tx \in [pc : {"idle", "clear", "emit", "advance", "compare", "hook", "wrap"}, old : Bytes]
    /\ rcv \in [buf : [Places -> Texts], ab : {0, 1}, shown : SUBSET Texts]
    /\ issued \in Texts /\ resets \in 0 .. MaxResets /\ raced \in BOOLEAN /\ joined \subseteq Texts

(* No group carries a segment number past the text, whose 16th value would  *)
(* also flip the A/B bit next to it, unless handlers overlapped.            *)
AddressInText == tx.pc = "emit" /\ ~raced => byte.st \in Places

(* A receiver never shows segments of two texts as one when one of the      *)
(* texts that came after the first, up to the second, was set with a change *)
(* of the A/B flag (IEC 62106 has the flag for that), at a time when the    *)
(* text before it was on air, and by a handler that no other overlapped.    *)
NoMixedText == \A v, w \in rcv.shown : (v + 1) .. w \subseteq joined

(* The last text set is on every receiver's display in the end, all of it   *)
(* and nothing else, with or without a change of the flag, if no handler    *)
(* overlapped its command; an overlap may lose rt_update for good.          *)
LastTextShown == \A v \in Texts \ {0} : (issued = v) ~> (issued # v \/ raced \/ rcv.shown = {v})

(* What the texts' handlers do together is a TextBroadcast.                 *)
Broadcast == INSTANCE TextBroadcast WITH shown <- rcv.shown
BroadcastSpec == Broadcast!Spec
=============================================================================

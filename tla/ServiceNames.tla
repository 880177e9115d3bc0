---------------------------- MODULE ServiceNames ----------------------------
(***************************************************************************)
(* The service names of one program from the command that sets one to the  *)
(* receiver: PS and the traffic name TPS in PS groups, LPS, and PTYN.      *)
(* set_rds_ps and its like mark a name as new and then write it (control   *)
(* thread); get_rds_ps_group, get_rds_lps_group and get_rds_ptyn_group     *)
(* copy a marked name when they are at its first segment and clear the     *)
(* mark (transmitter).  The marks are bit-fields that share a byte with    *)
(* the other thread's fields, so reading and writing one are two steps.    *)
(* A name is the number of the command that set it, on every segment.      *)
(***************************************************************************)
EXTENDS Integers, FiniteSets

CONSTANTS
    Segs,       \* segments of a PS, LPS and PTYN text (4, 8 and 2 in the code)
    Mixes,      \* the sets of these groups that a group sequence may name
    MaxSets,    \* bound: names set in one behaviour
    MaxOther    \* bound: TA switches, resets and encode_group calls

Groups == {"ps", "lps", "ptyn"}
Kinds == Groups \cup {"tps"}
GroupOf(k) == IF k = "tps" THEN "ps" ELSE k

ASSUME ConstantsAssumption ==
    /\ Segs \in [Groups -> Nat \ {0}] /\ Mixes \subseteq SUBSET Groups
    /\ MaxSets \in Nat /\ MaxOther \in Nat

VARIABLES
    mix,        \* the groups that the group sequence names; only their names are set
    data,       \* RDSData: the names as set
    text,       \* RDSState: the copies on air
    byte,       \* of each group, the byte of its marks, LPS and PTYN position, flag
    cseg,       \* ps_csegment, which has a byte of its own
    lsegs,      \* lps_segments
    ta,         \* RDSData.ta
    ctl,        \* control thread: step, name kind, number, the byte it has read
    tx,         \* transmitter: step, group, the byte it has read
    seen,       \* receiver: names collected since a group's first segment or flag change
    flag,       \* receiver: the A/B flag of the last PTYN group
    last,       \* history: the name last set of each kind
    torn,       \* history: kinds whose copy is not of a whole name
    broken,     \* history: groups disturbed since the receiver's collection began
    raced,      \* history: kinds set while the transmitter coded their group
    sets, others

vars == <<mix, data, text, byte, cseg, lsegs, ta, ctl, tx, seen, flag, last, torn, broken,
          raced, sets, others>>

Names == 0 .. MaxSets       \* 0: the name at the start; of the others than PS, none
Blank == -1                 \* spaces or NULs where a name should be
Places(k) == 0 .. Segs[GroupOf(k)] - 1
Filled(k, v) == [i \in Places(k) |-> v]
Zeroed == [k \in Kinds |-> Filled(k, IF k = "ps" THEN Blank ELSE 0)]
LpsCount(v) == IF Segs["lps"] > 1 /\ v % 2 = 1 THEN Segs["lps"] - 1 ELSE Segs["lps"]
Bytes == [new : SUBSET Kinds, st : Nat, ab : {0, 1}]
Marked(g) == {k \in Kinds : GroupOf(k) = g}
ResetByte(g) == [new |-> Marked(g), st |-> 0, ab |-> IF g = "ptyn" THEN 1 ELSE 0]
Position(g) == IF g = "ps" THEN cseg ELSE byte[g].st

NoByte == [new |-> {}, st |-> 0, ab |-> 0]
IdleCtl == [pc |-> "idle", k |-> "ps", v |-> 0, old |-> NoByte]
IdleTx == [pc |-> "idle", g |-> "ps", old |-> NoByte]

Init ==
    /\ mix \in Mixes
    /\ data = [k \in Kinds |-> Filled(k, 0)]
    /\ text = Zeroed
    /\ byte = [g \in Groups |-> ResetByte(g)]
    /\ cseg = 0 /\ lsegs = 0 /\ ta = FALSE
    /\ ctl = IdleCtl
    /\ tx = IdleTx
    /\ seen = [g \in Groups |-> {}] /\ flag = 0
    /\ last = [k \in Kinds |-> 0] /\ torn = {"ps"} /\ broken = {} /\ raced = {}
    /\ sets = 0 /\ others = 0

-----------------------------------------------------------------------------
(* The control thread: set_rds_ps, set_rds_tps, set_rds_lps, set_rds_ptyn.  *)

CtlSame == UNCHANGED <<mix, text, cseg, ta, tx, seen, flag, torn, broken, others>>
CtlStep(pc) ==
    /\ ctl' = IF pc = "idle" THEN IdleCtl ELSE [ctl EXCEPT !.pc = pc, !.old = NoByte]
    /\ raced' = IF tx.pc # "idle" THEN raced \cup {ctl.k} ELSE raced
    /\ UNCHANGED <<last, sets>>

(* The number is 0 for the empty name, which clears TPS, LPS or PTYN.       *)
SetName(k) ==
    /\ ctl.pc = "idle" /\ sets < MaxSets /\ GroupOf(k) \in mix
    /\ \E v \in {sets + 1} \cup (IF k = "ps" THEN {} ELSE {0}) :
          /\ ctl' = [pc |-> "mark", k |-> k, v |-> v, old |-> byte[GroupOf(k)]]
          /\ last' = [last EXCEPT ![k] = v]
    /\ sets' = sets + 1
    /\ raced' = IF tx.pc # "idle" THEN raced \cup {k} ELSE raced \ {k}
    /\ UNCHANGED <<data, byte, lsegs>> /\ CtlSame
Mark ==
    /\ ctl.pc = "mark" /\ CtlStep("blank")
    /\ byte' = [byte EXCEPT ![GroupOf(ctl.k)] = [ctl.old EXCEPT !.new = @ \cup {ctl.k}]]
    /\ broken' = IF byte[GroupOf(ctl.k)] = ctl.old THEN broken ELSE broken \cup {GroupOf(ctl.k)}
    /\ UNCHANGED <<mix, data, text, cseg, lsegs, ta, tx, seen, flag, torn, others>>
WriteBlank ==   \* memset; to 0 for an empty name, which is then complete
    /\ ctl.pc = "blank" /\ CtlStep(IF ctl.v = 0 THEN "idle" ELSE "first")
    /\ data' = [data EXCEPT ![ctl.k] = Filled(ctl.k, IF ctl.v = 0 THEN 0 ELSE Blank)]
    /\ UNCHANGED <<byte, lsegs>> /\ CtlSame
WriteName ==    \* the characters, in two parts
    /\ ctl.pc \in {"first", "second"}
    /\ CtlStep(IF ctl.pc = "first" THEN "second" ELSE IF ctl.k = "lps" THEN "count" ELSE "idle")
    /\ data' = [data EXCEPT ![ctl.k] = [i \in Places(ctl.k) |->
                  IF ctl.pc = "second" \/ 2 * i < Segs[GroupOf(ctl.k)] THEN ctl.v ELSE Blank]]
    /\ UNCHANGED <<byte, lsegs>> /\ CtlSame
CountLps ==     \* lps_segments is 0 while it is counted
    /\ ctl.pc = "count"
    /\ \/ CtlStep("count") /\ lsegs # 0 /\ lsegs' = 0
       \/ CtlStep("idle") /\ lsegs' = LpsCount(ctl.v)
    /\ UNCHANGED <<data, byte>> /\ CtlSame

Other ==
    /\ ctl.pc = "idle" /\ others < MaxOther /\ others' = others + 1
    /\ UNCHANGED <<mix, data, ctl, tx, seen, flag, last, sets>>
SetTa ==
    /\ Other
    /\ ta' = ~ta /\ broken' = broken \cup {"ps"}
    /\ UNCHANGED <<text, byte, cseg, lsegs, torn, raced>>
(* reset_rds_state sets the names again in a zeroed state and copies it.    *)
Reset ==
    /\ Other
    /\ text' = Zeroed /\ torn' = {"ps"}
    /\ byte' = [g \in Groups |-> ResetByte(g)]
    /\ cseg' = 0 /\ ta' = FALSE
    /\ lsegs' = IF data["lps"][0] = 0 THEN 0 ELSE LpsCount(data["lps"][0])
    /\ broken' = Groups
    /\ raced' = IF tx.pc # "idle" THEN Kinds ELSE raced

-----------------------------------------------------------------------------
(* A group is coded by the transmitter, and by encode_group off the air.    *)

(* check_rds_good_group with PTYN enabled: a slot that is no good gives PS.  *)
Coded(g) == IF g = "lps" /\ data["lps"][0] = 0 THEN "ps" ELSE g
(* Mutant: a name is copied at any segment.                                 *)
MayCopyAnywhere(k) == k \in byte[GroupOf(k)].new
MayCopy(k) == Position(GroupOf(k)) = 0 /\ k \in byte[GroupOf(k)].new
InWriting(k) == ctl.k = k /\ ctl.pc \in {"first", "second"}
Toggled(b, ks) == [b EXCEPT !.new = @ \ ks, !.ab = IF ks = {"ptyn"} THEN 1 - @ ELSE @]
AfterLate(g, st) ==     \* Mutant of After: the last segment has one after it
    IF st + 1 > (IF g = "lps" THEN lsegs ELSE Segs[g]) THEN 0 ELSE st + 1
After(g, st) == IF st + 1 >= (IF g = "lps" THEN lsegs ELSE Segs[g]) THEN 0 ELSE st + 1

EncodeGroup(slot) ==    \* taken whole; the group goes to the caller, not on air
    /\ Other /\ slot \in mix
    /\ LET g == Coded(slot)
           ks == {k \in Marked(g) : MayCopy(k)}
           b == Toggled(byte[g], ks)
       IN /\ text' = [k \in Kinds |-> IF k \in ks THEN data[k] ELSE text[k]]
          /\ torn' = torn \ ks
          /\ byte' = [byte EXCEPT ![g] = IF g = "ps" THEN b ELSE [b EXCEPT !.st = After(g, @)]]
          /\ cseg' = IF g = "ps" THEN After(g, cseg) ELSE cseg
          /\ broken' = broken \cup {g}
          /\ raced' = IF tx.pc # "idle" THEN raced \cup Marked(g) ELSE raced
    /\ UNCHANGED <<lsegs, ta>>

TxStep(pc) ==
    /\ tx' = CASE pc = "idle" -> IdleTx
               [] pc \in Kinds \cup {"advance"} -> [tx EXCEPT !.pc = pc, !.old = byte[tx.g]]
               [] OTHER -> [tx EXCEPT !.pc = pc, !.old = NoByte]
    /\ raced' = IF ctl.pc # "idle" THEN raced \cup {ctl.k} ELSE raced
    /\ UNCHANGED <<mix, data, lsegs, ta, ctl, last, sets, others>>

Begin(slot) ==
    /\ tx.pc = "idle" /\ slot \in mix
    /\ LET g == Coded(slot)
       IN /\ tx' = [pc |-> "copy", g |-> g, old |-> NoByte]
          /\ broken' = IF g # "ptyn" /\ Position(g) = 0 THEN broken \ {g} ELSE broken
    /\ raced' = IF ctl.pc # "idle" THEN raced \cup {ctl.k} ELSE raced
    /\ UNCHANGED <<mix, data, text, byte, cseg, lsegs, ta, ctl, seen, flag, last, torn,
                   sets, others>>
CopyName ==     \* PS before TPS, each cleared before the next is looked at
    /\ tx.pc = "copy"
    /\ \/ \E k \in Marked(tx.g) :
             /\ MayCopy(k) /\ (k = "tps" => ~MayCopy("ps"))
             /\ text' = [text EXCEPT ![k] = data[k]]
             /\ torn' = IF InWriting(k) THEN torn \cup {k} ELSE torn \ {k}
             /\ TxStep(k)
       \/ /\ \A k \in Marked(tx.g) : ~MayCopy(k)
          /\ TxStep("emit") /\ UNCHANGED <<text, torn>>
    /\ UNCHANGED <<byte, cseg, seen, flag, broken>>
ClearMarks ==    \* Mutant of ClearMark: both marks of the byte are cleared
    /\ tx.pc \in Kinds
    /\ byte' = [byte EXCEPT ![tx.g] = [Toggled(tx.old, {tx.pc}) EXCEPT !.new = {}]]
    /\ TxStep(IF tx.pc = "ps" THEN "copy" ELSE "emit")
    /\ UNCHANGED <<text, cseg, seen, flag, torn, broken>>
ClearMark ==
    /\ tx.pc \in Kinds
    /\ byte' = [byte EXCEPT ![tx.g] = Toggled(tx.old, {tx.pc})]
    /\ TxStep(IF tx.pc = "ps" THEN "copy" ELSE "emit")
    /\ UNCHANGED <<text, cseg, seen, flag, torn, broken>>
OnAir ==    \* the name of the segment sent; TA puts TPS in the place of PS
    LET k == IF tx.g = "ps" /\ ta /\ text["tps"][0] # 0 THEN "tps" ELSE tx.g
    IN text[k][Position(tx.g)]
Emit ==
    /\ tx.pc = "emit" /\ TxStep("advance")
    /\ LET starts == IF tx.g = "ptyn" THEN byte["ptyn"].ab # flag ELSE Position(tx.g) = 0
       IN /\ seen' = [seen EXCEPT ![tx.g] = IF starts THEN {OnAir} ELSE @ \cup {OnAir}]
          /\ flag' = IF tx.g = "ptyn" THEN byte["ptyn"].ab ELSE flag
          /\ broken' = IF tx.g = "ptyn" /\ starts THEN broken \ {"ptyn"} ELSE broken
    /\ UNCHANGED <<text, byte, cseg, torn>>
Advance ==  \* at the end of a PS the ps_transmission hook runs or is skipped
    /\ tx.pc = "advance" /\ TxStep("idle")
    /\ IF tx.g = "ps" THEN cseg' = After("ps", cseg) /\ UNCHANGED byte
       ELSE byte' = [byte EXCEPT ![tx.g] = [tx.old EXCEPT !.st = After(tx.g, @)]] /\ UNCHANGED cseg
    /\ UNCHANGED <<text, seen, flag, torn, broken>>

Ctl == Mark \/ WriteBlank \/ WriteName \/ CountLps
Tx == CopyName \/ ClearMark \/ Emit \/ Advance
Next ==
    \/ \E k \in Kinds : SetName(k)
    \/ SetTa \/ Reset \/ \E g \in Groups : EncodeGroup(g) \/ Begin(g)
    \/ Ctl \/ Tx

(* A command that has begun ends, and every kind of group has its turn in   *)
(* the group sequence again and again (SlotsRecur of GroupScheduler).       *)
Spec == /\ Init /\ [][Next]_vars /\ WF_vars(Ctl) /\ WF_vars(Tx)
        /\ \A g \in Groups : SF_vars(Begin(g))

-----------------------------------------------------------------------------
(* Properties *)

TypeOK ==
    /\ data \in [Kinds -> UNION {[Places(k) -> Names \cup {Blank}] : k \in Kinds}]
    /\ text \in [Kinds -> UNION {[Places(k) -> Names \cup {Blank}] : k \in Kinds}]
    /\ \A g \in Groups : Position(g) \in 0 .. Segs[g] - 1
    /\ lsegs \in 0 .. Segs["lps"]

(* What a receiver has collected of a PS or LPS from its first segment on,  *)
(* or of a PTYN since the flag last changed, is of one whole name, whatever *)
(* names are set meanwhile: unless the copy on air was made from a name     *)
(* half written, TA, a reset or encode_group came in between, or a command  *)
(* wrote an old value back to the byte with the flag.                       *)
ShownWhole ==
    tx.pc = "advance" =>
        \/ Cardinality(seen[tx.g]) = 1 /\ Blank \notin seen[tx.g]
        \/ tx.g \in broken \/ torn \cap Marked(tx.g) # {}

(* The name last set is on air in the end, if its command did not overlap a *)
(* group of its kind: else its mark may be lost, or clear half a name.      *)
LastNameOnAir ==
    \A k \in Kinds :
        <>[](\/ GroupOf(k) \notin mix \/ k \in raced
             \/ k = "lps" /\ last[k] = 0
             \/ text[k] = Filled(k, last[k]))
=============================================================================

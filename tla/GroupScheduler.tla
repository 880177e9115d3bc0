--------------------------- MODULE GroupScheduler ---------------------------
(***************************************************************************)
(* The transmitter's choice of the next RDS group (get_rds_group in        *)
(* src/rds.c) and the commands of the control thread that change what it   *)
(* chooses from (src/lua_api.c).  The two threads share RDSEncoder with no *)
(* lock of their own: the Lua mutex is held by a command, and by the       *)
(* transmitter only while it is inside a Lua hook.  One group is coded in  *)
(* steps, between which commands run: TxBegin, TxMinute, TxCt, TxPreTx,    *)
(* TxSelect or TxRds2, TxCopy, TxLua, TxCoded.  Each reads enc->program    *)
(* anew.                                                                   *)
(***************************************************************************)
EXTENDS Integers, Sequences

CONSTANTS
    PROGRAMS,     \* number of programs (3 in the code)
    SqcSize,      \* length of the grp_sqc array (32 in the code)
    Zeros,        \* bytes after the array that stay 0 (33 in the code)
    IndexMod,     \* grp_seq_idx and grp_sqc_len are uint8_t (256 in the code)
    Codes,        \* group codes a sequence may name
    GrpSeqs,      \* the sequences the set_grpseq command is given
    StreamCounts, \* the integers the set_streams command is given
    PtyBits,      \* the bits of a PTY, a PTY being the set of the bits it has
    Minutes,      \* minutes of the hour are 0 .. Minutes - 1 (60 in the code)
    MaxCommands,  \* bound: commands in one behaviour
    MaxTicks      \* bound: minute changes in one behaviour

ASSUME ProgramsAssumption == PROGRAMS \in Nat \ {0}
ASSUME SizesAssumption ==
    /\ SqcSize \in Nat \ {0} /\ Zeros \in Nat
    /\ IndexMod \in Nat \ {0}
    /\ Minutes \in Nat \ {0}
    /\ MaxCommands \in Nat /\ MaxTicks \in Nat
ASSUME CodesAssumption ==
    /\ Codes \subseteq Nat /\ 0 \in Codes
    /\ GrpSeqs \subseteq Seq(Codes) /\ StreamCounts \subseteq Int

VARIABLES
    data,       \* RDSData of each program, what the scheduler reads of it
    state,      \* RDSState of each program, what the scheduler keeps in it
    program,    \* enc->program: the program on air
    writing,    \* writing_program of the Lua API
    streams,    \* enc->streams
    udp,        \* the command the control thread is in the middle of
    tx,         \* the transmitter: step, stream, group being coded, time it read
    tm,         \* the time in the one struct tm that every gmtime returns
    hist,       \* what the properties remember of the past
    commands,   \* commands issued (bounded by MaxCommands)
    ticks       \* the time: minute changes so far (bounded by MaxTicks)

vars == <<data, state, program, writing, streams, udp, tx, tm, hist, commands, ticks>>

Programs == 0 .. PROGRAMS - 1
PS == 0         \* designation of the PS group
DefaultCode == 48       \* the character '0', which no core handler knows
Zero == -1      \* block A of an RDS2 group that is 0, source of a zero group
Rds2 == -2      \* block A of an RDS2 group that is not 0
HookTok == MaxCommands + 1      \* the identity of every custom group a hook puts
Tokens == 0 .. HookTok          \* identities of custom groups, 0 being none
Streams == 0 .. 7               \* uint8_t streams : 3
MinuteOf(t) == t % Minutes      \* tm_min

(* What blocks B, C and D of a group say: what kind of group, taken from    *)
(* which program's data, which custom group, and which PTY bits.            *)
Payloads == [kind : {"none", "ct", "core", "lua", "custom"},
             code : Codes \cup {DefaultCode}, from : Programs \cup {Zero},
             tok : Tokens, pty : SUBSET PtyBits]
ZeroPayload == [kind |-> "none", code |-> PS, from |-> Zero, tok |-> 0, pty |-> {}]
Groups == [a : Programs \cup {Zero, Rds2}, body : Payloads, tunnel : BOOLEAN]
Buffers == [full : BOOLEAN, tok : Tokens, a : {Zero, Rds2}]
EmptyBuffer == [full |-> FALSE, tok |-> 0, a |-> Zero]
States == [idx : 0 .. IndexMod - 1, min : 0 .. Minutes - 1,
           buf : [{1, 2} -> Buffers], last : Payloads]

-----------------------------------------------------------------------------
(* The groups check_rds_good_group checks the data of: ECC/SLC, RT, PTYN    *)
(* and LPS.  An EON group (28) passes it whether or not an EON is enabled.  *)
Checked == {2, 4, 20, 30}

(* set_rds_defaults: the sequence is the single character '0', and          *)
(* grp_sqc_len stays 0; RT is the one checked group that is enabled.        *)
DefaultData == [sqc |-> [i \in 0 .. SqcSize - 1 |-> IF i = 0 THEN DefaultCode ELSE PS],
                len |-> 0, on |-> {4}, ct |-> TRUE, pty |-> {}]
DataSets == [sqc : [0 .. SqcSize - 1 -> Codes \cup {DefaultCode}],
             len : 0 .. IndexMod - 1, on : SUBSET Checked, ct : BOOLEAN, pty : SUBSET PtyBits]

(* reset_rds_state builds a zeroed RDSState that remembers the time.        *)
FreshState(min) == [idx |-> 0, min |-> min,
                    buf |-> [k \in {1, 2} |-> EmptyBuffer], last |-> ZeroPayload]

GoodGroup(d, code) == code \in Checked => code \in d.on

(* get_rds_sequence_group: the groups the core codes, and all others, which *)
(* the Lua group hooks may code and which decay to PS when they do not.     *)
CoreCodes == {0, 2, 4, 20, 28, 30, 31}
AskLua(d, code) == ~GoodGroup(d, code) \/ code \notin CoreCodes
(* Mutant: the index starts again at the second slot.                       *)
SlotIndexFromOne(d, st) == IF st.idx > d.len THEN 1 ELSE st.idx
(* The slot that is next: the index starts again only once it is beyond the *)
(* length, so one slot more than the sequence has is served in each cycle.  *)
SlotIndex(d, st) == IF st.idx > d.len THEN 0 ELSE st.idx

(* What grp_sqc[i] may be; the bytes after the array are grp_sqc_rds2_len   *)
(* and grp_sqc_rds2, which nothing ever sets, then those of eon.            *)
SlotCodes(d, i) ==
    IF i < SqcSize THEN {d.sqc[i]}
    ELSE IF i < SqcSize + Zeros THEN {PS} ELSE Codes

(* What the control thread is in the middle of: filling buffer k, loading a *)
(* sequence, or resetting the state of prog and, when all, of the later ones.*)
IdleUdp == [pc |-> "idle", prog |-> 0, k |-> 1, tok |-> 0, a |-> Zero,
            at |-> 0, all |-> FALSE, seq |-> <<>>]
Udps == [pc : {"idle", "put", "grpseq", "reset", "copy"}, prog : Programs, k : {1, 2},
         tok : Tokens, a : {Zero, Rds2}, at : 0 .. MaxTicks, all : BOOLEAN,
         seq : GrpSeqs \cup {<<>>}]

-----------------------------------------------------------------------------
Init ==
    /\ data = [p \in Programs |-> DefaultData]
    /\ state = [p \in Programs |-> FreshState(0)]
    /\ program = 0 /\ writing = 0
    /\ streams = 1
    /\ udp = IdleUdp
    /\ tx = [pc |-> "next", s |-> 0, g |-> [a |-> Zero, body |-> ZeroPayload, tunnel |-> FALSE],
             at |-> 0]
    /\ tm = 0
    /\ hist = [told |-> {}, void |-> FALSE, mixed |-> 0, switches |-> 0,
               aired |-> {}, spoilt |-> {}, hand |-> {},
               lastAir |-> ZeroPayload, lastMin |-> 0, quiet |-> TRUE]
    /\ commands = 0
    /\ ticks = 0

-----------------------------------------------------------------------------
(* The transmitter *)

Step(pc, g) == tx' = [tx EXCEPT !.pc = pc, !.g = g]

(* Top of get_rds_group: block A, then the time, then the tick hook.        *)
TxBeginOf(p) ==
    /\ tx.pc = "next" /\ tx.s < streams
    /\ tx' = [tx EXCEPT !.pc = "time", !.at = ticks,
                        !.g = [a |-> p, body |-> ZeroPayload, tunnel |-> FALSE]]
    /\ tm' = ticks
    /\ hist' = [hist EXCEPT !.told = IF ticks = tx.at THEN @ ELSE {}]
    /\ UNCHANGED <<data, state, program, writing, streams, udp, commands, ticks>>
(* Mutant of TxBegin: block A is of the program being written.              *)
TxBeginWriting == TxBeginOf(writing)
TxBegin == TxBeginOf(program)

(* The minute of tm is compared with that of the program on air and, if it  *)
(* is another and the stream is 0, remembered; then the minute_tick hook is *)
(* called, which is skipped if a command holds the Lua mutex.               *)
TxMinuteKeeping(min) ==
    /\ tx.pc = "time"
    /\ LET flips == MinuteOf(tm) # state[program].min /\ tx.s = 0
           misses == program # tx.g.a \/ tm # tx.at
       IN /\ Step(IF flips THEN "ct" ELSE "pre", tx.g)
          /\ state' = IF flips THEN [state EXCEPT ![program].min = min] ELSE state
          /\ hist' = [hist EXCEPT
                !.told = IF flips /\ misses THEN @ \ {tx.g.a} ELSE @,
                !.void = flips /\ misses,
                !.lastMin = IF tx.s = 0 THEN MinuteOf(tm) ELSE @,
                !.quiet = @ \/ tx.s = 0]
    /\ UNCHANGED <<data, program, writing, streams, udp, tm, commands, ticks>>
(* Mutant of TxMinute: the minute is not remembered.                        *)
TxMinuteForgetful == TxMinuteKeeping(state[program].min)
TxMinute == TxMinuteKeeping(MinuteOf(tm))

(* CT, of the time read at the top, if the program on air has it enabled.   *)
TxCt ==
    /\ tx.pc = "ct"
    /\ IF data[program].ct
       THEN /\ Step("coded", [tx.g EXCEPT !.body = [ZeroPayload EXCEPT !.kind = "ct"]])
            /\ hist' = [hist EXCEPT !.told = IF hist.void THEN @ ELSE @ \cup {tx.g.a},
                                    !.void = FALSE]
       ELSE Step("pre", tx.g) /\ hist' = [hist EXCEPT !.void = FALSE]
    /\ UNCHANGED <<data, state, program, writing, streams, udp, tm, commands, ticks>>

(* lua_call_tfunction("pre_tx"): skipped while a command holds the mutex;   *)
(* a hook that runs may put a custom group, each time it is called (that of *)
(* uecp.lua does for as long as its free-format buffer has entries).        *)
TxPreTx ==
    /\ tx.pc = "pre"
    /\ Step("select", tx.g)
    /\ \/ UNCHANGED <<state, hist>>
       \/ /\ udp.pc = "idle" /\ ~state[writing].buf[1].full
          /\ state' = [state EXCEPT ![writing].buf[1] =
                          [full |-> TRUE, tok |-> HookTok, a |-> Zero]]
          /\ hist' = [hist EXCEPT !.spoilt = @ \ {<<writing, 1>>}]
    /\ UNCHANGED <<data, program, writing, streams, udp, tm, commands, ticks>>

(* The buffer the stream being served takes custom groups from.             *)
Buffer == IF tx.s = 0 THEN 1 ELSE 2

(* get_rds_custom_groups and get_rds_custom_groups2 find the mark of the    *)
(* buffer and clear it.                                                     *)
TakeCustom(mark) ==
    /\ state[program].buf[Buffer].full
    /\ state' = [state EXCEPT ![program].buf[Buffer].full = mark]
    /\ Step("copy", tx.g)
    /\ hist' = [hist EXCEPT !.hand = {<<program, Buffer>>}]

(* The next slot of the group sequence.  A slot the core cannot code is left*)
(* to Lua.                                                                  *)
ServeSlot ==
    LET d == data[program]
        i == SlotIndex(d, state[program])
    IN /\ state' = [state EXCEPT ![program].idx = (i + 1) % IndexMod]
       /\ \E code \in SlotCodes(d, i) :
             IF AskLua(d, code)
             THEN Step("lua", [tx.g EXCEPT !.body.code = code])
             ELSE Step("coded", [tx.g EXCEPT !.body =
                     [ZeroPayload EXCEPT !.kind = "core", !.code = code, !.from = program]])
       /\ UNCHANGED hist

AtSelect ==
    /\ tx.pc = "select"
    /\ UNCHANGED <<data, program, writing, streams, udp, tm, commands, ticks>>

(* Mutants of TxSelect: the mark of the custom buffer stays; the buffer is  *)
(* never read.                                                              *)
TxSelectKeeps ==
    /\ AtSelect /\ tx.s = 0
    /\ TakeCustom(TRUE) \/ (~state[program].buf[1].full /\ ServeSlot)
TxSelectSlotsOnly == AtSelect /\ tx.s = 0 /\ ServeSlot
(* Stream 0: a custom group if one is waiting, else a slot.                 *)
TxSelect ==
    /\ AtSelect /\ tx.s = 0
    /\ TakeCustom(FALSE) \/ (~state[program].buf[1].full /\ ServeSlot)

(* The other streams: an RDS2 custom group, or the rds2_group hook.         *)
TxRds2 ==
    /\ AtSelect /\ tx.s # 0
    /\ \/ TakeCustom(FALSE)
       \/ /\ ~state[program].buf[2].full
          /\ Step("lua", [tx.g EXCEPT !.a = Zero])
          /\ UNCHANGED <<state, hist>>

(* The blocks are copied after the mark was cleared, from the buffer of the *)
(* program now on air: every block is the buffer's, but for the PI of a     *)
(* stream 0 group.                                                          *)
TxCopy ==
    /\ tx.pc = "copy"
    /\ LET buf == state[program].buf[Buffer]
           a == IF tx.s = 0 THEN program ELSE buf.a
           body == [ZeroPayload EXCEPT !.kind = "custom", !.tok = buf.tok, !.from = program]
           stands == buf.full /\ <<program, Buffer>> \notin hist.hand
       IN /\ Step("coded", [tx.g EXCEPT !.a = a, !.body = body])
          /\ hist' = [hist EXCEPT !.hand = {},
                !.spoilt = IF stands THEN @ \cup {<<program, Buffer>>} ELSE @]
    /\ UNCHANGED <<data, state, program, writing, streams, udp, tm, commands, ticks>>

(* lua_group and lua_rds2_group wait for the Lua mutex.  On stream 0 the    *)
(* slot is coded by a hook or decays to PS.  On the others a hook codes the *)
(* group with block A zero or not, or returns false for a tunnel of the     *)
(* last stream 0 group; if it is missing or fails, lua_rds2_group still     *)
(* returns 1 and the group stays zero.                                      *)
TxLua ==
    /\ tx.pc = "lua" /\ udp.pc = "idle"
    /\ IF tx.s = 0
       THEN \/ Step("coded", [tx.g EXCEPT !.body.kind = "lua"])
            \/ Step("coded", [tx.g EXCEPT !.body =
                  [ZeroPayload EXCEPT !.kind = "core", !.from = program]])
       ELSE \/ \E a \in {Zero, Rds2} : Step("coded", [tx.g EXCEPT !.a = a, !.body.kind = "lua"])
            \/ Step("coded", [tx.g EXCEPT !.body = state[program].last, !.tunnel = TRUE])
            \/ Step("coded", tx.g)
    /\ UNCHANGED <<data, state, program, writing, streams, udp, tm, hist, commands, ticks>>

(* What has been coded of a stream 0 group is not all of the program now on *)
(* air: block A, or what a slot or a buffer gave.                           *)
Mixed ==
    /\ tx.s = 0
    /\ \/ tx.g.a # program
       \/ tx.g.body.kind \in {"core", "custom"} /\ tx.g.body.from # program

(* group_coded and group_coded_rds2: TP and PTY are ORed into block B, the  *)
(* stream 0 group is kept for tunnels, and the group goes out.              *)
TxCodedKeeping(all) ==
    /\ tx.pc = "coded"
    /\ LET fills == tx.s = 0 \/ tx.g.a = Zero
           g == IF fills THEN [tx.g EXCEPT !.body.pty = @ \cup data[program].pty] ELSE tx.g
           keeps == tx.s = 0 /\ (all \/ g.body.kind # "custom")
       IN /\ state' = IF keeps THEN [state EXCEPT ![program].last = g.body] ELSE state
          /\ hist' = [hist EXCEPT
                !.lastAir = IF tx.s = 0 THEN g.body ELSE @,
                !.mixed = IF Mixed THEN @ + 1 ELSE @,
                !.aired = IF g.body.kind = "custom" /\ ~g.tunnel /\ g.body.tok # HookTok
                          THEN @ \cup {g.body.tok} ELSE @]
          /\ tx' = [tx EXCEPT !.pc = "next", !.s = @ + 1, !.g = g]
    /\ UNCHANGED <<data, program, writing, streams, udp, tm, commands, ticks>>
(* Mutant of TxCoded: a custom group goes out without being kept.           *)
TxCodedSlotsOnly == TxCodedKeeping(FALSE)
TxCoded == TxCodedKeeping(TRUE)

(* The end of a round of main's loop: every stream served, then the sleep.  *)
TxRound ==
    /\ tx.pc = "next" /\ tx.s >= streams
    /\ tx' = [tx EXCEPT !.s = 0]
    /\ UNCHANGED <<data, state, program, writing, streams, udp, tm, hist, commands, ticks>>

Tx == \/ TxBegin \/ TxMinute \/ TxCt \/ TxPreTx \/ TxSelect \/ TxRds2 \/ TxCopy
      \/ TxLua \/ TxCoded \/ TxRound

-----------------------------------------------------------------------------
(* The control thread: commands of the Lua API, each under the Lua mutex.   *)

(* A command begins; h is what hist becomes.                                *)
CommandWith(h) ==
    /\ udp.pc = "idle" /\ commands < MaxCommands
    /\ commands' = commands + 1
    /\ hist' = [h EXCEPT !.quiet = FALSE]
    /\ UNCHANGED <<tx, tm, ticks>>
Command == CommandWith(hist)

SetField(f) ==
    /\ data' = [data EXCEPT ![writing] = f]
    /\ UNCHANGED <<state, program, writing, streams, udp>>

SetPty == Command /\ \E pty \in SUBSET PtyBits : SetField([data[writing] EXCEPT !.pty = pty])
SetCt == Command /\ SetField([data[writing] EXCEPT !.ct = ~@])
Enable ==
    /\ Command
    /\ \E code \in Checked \cap Codes :
          SetField([data[writing] EXCEPT !.on = IF code \in @ THEN @ \ {code}
                                                ELSE @ \cup {code}])

(* lua_set_rds_program: nothing if it is on air already, else both programs.*)
SetProgram ==
    /\ CommandWith([hist EXCEPT !.switches = @ + 1])
    /\ \E p \in Programs : p # program /\ program' = p /\ writing' = p
    /\ UNCHANGED <<data, state, streams, udp>>

SetWritingProgram ==
    /\ Command
    /\ \E p \in Programs : writing' = p
    /\ UNCHANGED <<data, state, program, streams, udp>>

(* Mutant: the count is not cut to the three bits of its field.             *)
SetStreamsWide ==
    /\ Command /\ streams <= 4
    /\ \E n \in StreamCounts : streams' = n
    /\ UNCHANGED <<data, state, program, writing, udp>>

(* lua_set_rds_streams checks the count it replaces, not the new one.       *)
SetStreams ==
    /\ Command /\ streams <= 4
    /\ \E n \in StreamCounts : streams' = n % 8
    /\ UNCHANGED <<data, state, program, writing, udp>>

(* set_rds_grpseq: the length and the zeroed array, then the new elements.  *)
SetGrpSeq ==
    /\ Command
    /\ \E q \in GrpSeqs :
          /\ data' = [data EXCEPT ![writing].len = Len(q) % IndexMod,
                                  ![writing].sqc = [i \in 0 .. SqcSize - 1 |-> PS]]
          /\ udp' = [udp EXCEPT !.pc = "grpseq", !.prog = writing, !.seq = q]
    /\ UNCHANGED <<state, program, writing, streams>>

(* put_custom_group: the full mark is set before the blocks are.            *)
PutCustom ==
    \E k \in {1, 2}, a \in {Zero, Rds2} :
        /\ CommandWith([hist EXCEPT !.hand = @ \ {<<writing, k>>}])
        /\ ~state[writing].buf[k].full /\ (k = 1 => a = Zero)
        /\ state' = [state EXCEPT ![writing].buf[k].full = TRUE]
        /\ udp' = [udp EXCEPT !.pc = "put", !.prog = writing, !.k = k,
                              !.tok = commands + 1, !.a = a]
        /\ UNCHANGED <<data, program, writing, streams>>

(* reset_rds saves, loads back what it saved, and resets every program;     *)
(* set_program_defaults rewrites one program and resets that one.           *)
Reset ==
    /\ Command
    /\ udp' = [udp EXCEPT !.pc = "reset", !.prog = 0, !.all = TRUE]
    /\ UNCHANGED <<data, state, program, writing, streams>>
SetDefaults ==
    /\ Command
    /\ data' = [data EXCEPT ![writing] = DefaultData]
    /\ streams' = 1
    /\ udp' = [udp EXCEPT !.pc = "reset", !.prog = writing, !.all = FALSE]
    /\ UNCHANGED <<state, program, writing>>

(* The later steps of a command begun above; the transmitter runs between.  *)
ContinueWith(pc, h) ==
    /\ udp.pc = pc
    /\ hist' = [h EXCEPT !.quiet = FALSE]
    /\ UNCHANGED <<program, writing, streams, tx, commands, ticks>>

FillGrpSeq ==
    /\ ContinueWith("grpseq", hist)
    /\ data' = [data EXCEPT ![udp.prog].sqc =
                  [i \in 0 .. SqcSize - 1 |-> IF i < Len(udp.seq) THEN udp.seq[i + 1] ELSE PS]]
    /\ udp' = IdleUdp
    /\ UNCHANGED <<state, tm>>
FillCustom ==
    /\ ContinueWith("put", [hist EXCEPT !.spoilt = @ \ {<<udp.prog, udp.k>>}])
    /\ state' = [state EXCEPT ![udp.prog].buf[udp.k].tok = udp.tok,
                              ![udp.prog].buf[udp.k].a = udp.a]
    /\ udp' = IdleUdp
    /\ UNCHANGED <<data, tm>>
FillCustomFails ==   \* a block is no integer: an error, the mark and the old blocks stay
    /\ ContinueWith("put", [hist EXCEPT !.spoilt = @ \cup {<<udp.prog, udp.k>>}])
    /\ udp' = IdleUdp
    /\ UNCHANGED <<data, state, tm>>

(* reset_rds_state builds a new state with the time it reads first, and     *)
(* copies it over the old one last.                                         *)
ResetRead ==
    /\ ContinueWith("reset", hist)
    /\ udp' = [udp EXCEPT !.pc = "copy", !.at = ticks]
    /\ tm' = ticks
    /\ UNCHANGED <<data, state>>
ResetCopy ==
    LET stale == udp.at # ticks \/ (tx.pc = "time" /\ tm # udp.at)
    IN /\ ContinueWith("copy", [hist EXCEPT
             !.told = IF stale THEN @ \ {udp.prog} ELSE @,
             !.void = @ \/ (stale /\ tx.pc = "ct" /\ tx.g.a = udp.prog),
             !.hand = @ \ {<<udp.prog, 1>>, <<udp.prog, 2>>}])
       /\ state' = [state EXCEPT ![udp.prog] = FreshState(MinuteOf(udp.at))]
       /\ udp' = IF udp.all /\ udp.prog + 1 \in Programs
                 THEN [udp EXCEPT !.pc = "reset", !.prog = @ + 1]
                 ELSE IdleUdp
       /\ UNCHANGED <<data, tm>>

Udp == \/ SetPty \/ SetCt \/ Enable \/ SetProgram \/ SetWritingProgram \/ SetStreams
       \/ SetGrpSeq \/ PutCustom \/ Reset \/ SetDefaults
UdpContinue == FillGrpSeq \/ FillCustom \/ FillCustomFails \/ ResetRead \/ ResetCopy

ClockTick ==
    /\ ticks < MaxTicks
    /\ ticks' = ticks + 1
    /\ UNCHANGED <<data, state, program, writing, streams, udp, tx, tm, hist, commands>>

Next == Tx \/ Udp \/ UdpContinue \/ ClockTick

(* main loops until told to stop, and a command that has begun ends; no     *)
(* command and no clock tick has to happen.                                 *)
Spec == Init /\ [][Next]_vars /\ WF_vars(Tx) /\ WF_vars(UdpContinue)

-----------------------------------------------------------------------------
(* Properties *)

TypeOK ==
    /\ data \in [Programs -> DataSets]
    /\ state \in [Programs -> States]
    /\ program \in Programs /\ writing \in Programs
    /\ streams \in Streams
    /\ udp \in Udps
    /\ tx \in [pc : {"next", "time", "ct", "pre", "select", "copy", "lua", "coded"},
               s : 0 .. 7, g : Groups, at : 0 .. MaxTicks]
    /\ tm \in 0 .. MaxTicks
    /\ hist \in [told : SUBSET Programs, void : BOOLEAN, mixed : Nat, switches : Nat,
                 aired : SUBSET Tokens, spoilt : SUBSET (Programs \X {1, 2}),
                 hand : SUBSET (Programs \X {1, 2}),
                 lastAir : Payloads, lastMin : 0 .. Minutes - 1, quiet : BOOLEAN]
    /\ commands \in 0 .. MaxCommands /\ ticks \in 0 .. MaxTicks

(* No two CT groups with the PI of one program tell the same minute.  told  *)
(* has the programs whose CT told the time last read, void says that the CT *)
(* under way does not count.  Neither counts a CT when a reset copied an    *)
(* older minute over the one the transmitter remembered, when the minute    *)
(* was compared for one program and block A was of another, or when a       *)
(* reset's own gmtime had written over the time that was read.              *)
CtOncePerMinute ==
    [][tx.pc = "ct" /\ tx'.pc = "coded" => tx.g.a \notin hist.told]_vars

(* A change of program spoils at most one stream 0 group, the one that is   *)
(* being coded: there are never more groups on air whose block A, contents  *)
(* and PTY are of different programs than there were changes.               *)
SwitchSpoilsOne == hist.mixed <= hist.switches

(* When no command ran since the last stream 0 group was begun, a tunnelled *)
(* group repeats it exactly, PTY bits included.                             *)
TunnelFresh == tx.pc = "next" /\ tx.g.tunnel /\ hist.quiet => tx.g.body = hist.lastAir

(* A custom group that goes out was put there and did not go out before.    *)
(* The mark and the blocks of its buffer are no unit, however, and an old   *)
(* or an empty group may go out if a change of program, a reset or another  *)
(* put comes between the clearing of the mark and the copy (then the buffer *)
(* is no longer in hand), if a put has set the mark and not yet the blocks, *)
(* if a put ended there with an error, and if the blocks were copied before *)
(* while a mark stood over them (spoilt).  The puts of hooks have no bound  *)
(* and one identity, so that nothing is said of their second going out.     *)
CustomOnce ==
    [][tx.pc = "copy" /\ tx'.pc = "coded"
          => \/ tx'.g.body.tok \notin hist.aired \cup {0}
             \/ <<program, Buffer>> \notin hist.hand
             \/ udp.pc = "put" /\ udp.prog = program /\ udp.k = Buffer
             \/ <<program, Buffer>> \in hist.spoilt]_vars

(* context.lua on hooks.minute_tick: called "if the minute has changed since*)
(* the last stream 0 group".  So it is when no command ran since that group *)
(* compared its minute; commands make it early or late, and a command that  *)
(* holds the mutex at that moment makes it be skipped.                      *)
MinuteTickOnChange ==
    [][tx.pc = "time" /\ tx.s = 0 /\ tx'.pc # "time" /\ hist.quiet
          => (tx'.pc = "ct" <=> MinuteOf(tx.at) # hist.lastMin)]_vars

(* A custom group waiting for stream 0 of the program on air is taken, or a *)
(* reset takes it, unless the program leaves the air or streams become 0:   *)
(* CT groups and the group sequence cannot hold it back for ever.           *)
CustomDrains ==
    \A p \in Programs :
        state[p].buf[1].full ~> (~state[p].buf[1].full \/ program # p \/ streams = 0)

(* As long as the sequence is served at all, every slot of the sequence of  *)
(* a program that stays on air is served again and again, whatever index an *)
(* older, longer or shorter sequence left behind, and also when the index   *)
(* overflows at the sequence's end.  It is not served at all while a hook   *)
(* puts a custom group before every stream 0 group, as uecp.lua may.        *)
SequenceServed == tx.s = 0 /\ (tx.pc = "lua" \/ (tx.pc = "coded" /\ tx.g.body.kind = "core"))
SlotsRecur ==
    \A p \in Programs : \A i \in 0 .. IndexMod - 2 :
        /\ <>[](program = p /\ streams > 0 /\ (i = 0 \/ i < data[p].len))
        /\ []<>SequenceServed
        => []<>(state[p].idx = i + 1)

=============================================================================

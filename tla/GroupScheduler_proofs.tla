------------------------ MODULE GroupScheduler_proofs ------------------------
(***************************************************************************)
(* Type correctness of GroupScheduler and its safety properties, for every *)
(* number of programs, every group sequence and every length of the run.   *)
(***************************************************************************)
EXTENDS GroupScheduler, SequenceTheorems, TLAPS

(* A stream's index is read against enc->streams only where its group       *)
(* begins; until the group is coded it stays below what streams can hold.   *)
(* Block A holds the program's PI while the minute is looked at.            *)
StreamInv ==
    /\ tx.pc # "next" => tx.s <= 6
    /\ tx.pc \in {"time", "ct"} => tx.g.a \in Programs

TypeInv == TypeOK /\ StreamInv

-----------------------------------------------------------------------------
(* What the helpers return.                                                 *)
LEMMA Constants ==
    /\ 0 \in Programs /\ PS \in Codes
    /\ 0 \in 0 .. Minutes - 1 /\ 0 \in 0 .. IndexMod - 1
    /\ 0 \in 0 .. MaxTicks /\ 0 \in Tokens /\ HookTok \in Tokens
    /\ \A n \in Int : n % IndexMod \in 0 .. IndexMod - 1
    /\ \A n \in Int : n % Minutes \in 0 .. Minutes - 1
    /\ \A n \in Int : n % 8 \in Streams
<1>1. \A n \in Int, m \in Nat \ {0} : n % m \in 0 .. m - 1
  OBVIOUS
<1> QED
  BY <1>1, ProgramsAssumption, SizesAssumption, CodesAssumption
     DEF Programs, PS, Tokens, HookTok, Streams

LEMMA EmptyTypes ==
    /\ ZeroPayload \in Payloads
    /\ DefaultData \in DataSets
    /\ \A m \in 0 .. Minutes - 1 : FreshState(m) \in States
    /\ IdleUdp \in Udps
<1>1. ZeroPayload \in Payloads
  BY Constants DEF ZeroPayload, Payloads
<1>2. DefaultData \in DataSets
  BY Constants DEF DefaultData, DataSets, Checked, DefaultCode
<1>3. ASSUME NEW m \in 0 .. Minutes - 1 PROVE FreshState(m) \in States
  BY <1>1, Constants DEF FreshState, States, Buffers, EmptyBuffer
<1>4. IdleUdp \in Udps
  BY Constants DEF IdleUdp, Udps
<1> QED
  BY <1>1, <1>2, <1>3, <1>4

(* The slot that is served is an index of a byte and names a known code.    *)
LEMMA Slots ==
    ASSUME NEW d \in DataSets, NEW st \in States
    PROVE  /\ SlotIndex(d, st) \in 0 .. IndexMod - 1
           /\ SlotCodes(d, SlotIndex(d, st)) \subseteq Codes \cup {DefaultCode}
<1>1. SlotIndex(d, st) \in 0 .. IndexMod - 1
  BY Constants DEF SlotIndex, States
<1>2. ASSUME NEW i \in 0 .. IndexMod - 1
      PROVE  SlotCodes(d, i) \subseteq Codes \cup {DefaultCode}
  <2>1. i < SqcSize => i \in 0 .. SqcSize - 1
    BY SizesAssumption
  <2>2. d.sqc \in [0 .. SqcSize - 1 -> Codes \cup {DefaultCode}]
    BY DEF DataSets
  <2> QED
    BY <2>1, <2>2, Constants DEF SlotCodes
<1> QED
  BY <1>1, <1>2

-----------------------------------------------------------------------------
(* What the histories and the transmitter are records of.                   *)
Hists == [told : SUBSET Programs, void : BOOLEAN, mixed : Nat, switches : Nat,
          aired : SUBSET Tokens, spoilt : SUBSET (Programs \X {1, 2}),
          hand : SUBSET (Programs \X {1, 2}),
          lastAir : Payloads, lastMin : 0 .. Minutes - 1, quiet : BOOLEAN]
Txs == [pc : {"next", "time", "ct", "pre", "select", "copy", "lua", "coded"},
        s : 0 .. 7, g : Groups, at : 0 .. MaxTicks]
Coding == {"time", "ct", "pre", "select", "copy", "lua", "coded"}

LEMMA Typed ==
    ASSUME TypeInv
    PROVE  /\ data \in [Programs -> DataSets] /\ state \in [Programs -> States]
           /\ program \in Programs /\ writing \in Programs /\ streams \in Streams
           /\ udp \in Udps /\ udp.prog \in Programs /\ udp.k \in {1, 2}
           /\ tx \in Txs /\ tx.g \in Groups /\ tx.g.body \in Payloads /\ tx.s \in 0 .. 7
           /\ tx.at \in 0 .. MaxTicks /\ tm \in 0 .. MaxTicks /\ ticks \in 0 .. MaxTicks
           /\ hist \in Hists /\ commands \in 0 .. MaxCommands
           /\ state[program] \in States /\ data[program] \in DataSets
           /\ Buffer \in {1, 2} /\ state[program].buf[Buffer] \in Buffers
<1>1. state[program] \in States /\ Buffer \in {1, 2}
  BY DEF TypeInv, TypeOK, Buffer
<1> QED
  BY <1>1 DEF TypeInv, TypeOK, Hists, Txs, Groups, Udps, States

LEMMA InitType == Init => TypeInv
<1> SUFFICES ASSUME Init PROVE TypeInv
  OBVIOUS
<1>1. data \in [Programs -> DataSets] /\ state \in [Programs -> States] /\ udp \in Udps
  BY EmptyTypes, Constants DEF Init
<1>2. 0 \in 0 .. MaxTicks /\ 0 \in 0 .. MaxCommands
  BY SizesAssumption
<1>3. tx \in Txs /\ tx.pc = "next"
  BY <1>2, EmptyTypes DEF Init, Groups, Txs
<1>4. hist \in Hists
  BY EmptyTypes, Constants DEF Init, Hists
<1> QED
  BY <1>1, <1>2, <1>3, <1>4, Constants DEF TypeInv, TypeOK, StreamInv, Init, Streams, Hists, Txs

-----------------------------------------------------------------------------
(* A step of the transmitter within a group.                                *)
LEMMA Stepped ==
    ASSUME TypeInv, NEW pc \in Coding, NEW g \in Groups, tx.s <= 6, Step(pc, g),
           pc \in {"time", "ct"} => g.a \in Programs
    PROVE  /\ tx' \in Txs /\ StreamInv'
           /\ tx'.pc = pc /\ tx'.g = g /\ tx'.s = tx.s /\ tx'.at = tx.at
<1>1. tx' = [tx EXCEPT !.pc = pc, !.g = g] /\ tx \in Txs
  BY Typed DEF Step
<1>2. tx'.pc = pc /\ tx'.g = g /\ tx'.s = tx.s /\ tx'.at = tx.at /\ tx' \in Txs
  BY <1>1 DEF Txs, Coding
<1> QED
  BY <1>2 DEF StreamInv

(* The shape of every step of the transmitter: what it sets has its type.   *)
LEMMA Transmitted ==
    ASSUME TypeInv, tx' \in Txs, StreamInv', state' \in [Programs -> States], hist' \in Hists,
           tm' \in 0 .. MaxTicks,
           UNCHANGED <<data, program, writing, streams, udp, commands, ticks>>
    PROVE  TypeInv'
BY DEF TypeInv, TypeOK, Hists, Txs

LEMMA BeginType == ASSUME TypeInv, TxBegin PROVE TypeInv'
<1> DEFINE g == [a |-> program, body |-> ZeroPayload, tunnel |-> FALSE]
<1>1. tx.s \in 0 .. 6 /\ tx.pc = "next"
  BY DEF TypeInv, TypeOK, TxBegin, TxBeginOf, Streams
<1>2. g \in Groups
  BY EmptyTypes, Typed DEF Groups
<1> HIDE DEF g
<1>3. tx' = [tx EXCEPT !.pc = "time", !.at = ticks, !.g = g] /\ tm' = ticks
  BY DEF TxBegin, TxBeginOf, g
<1>4. tx' \in Txs /\ StreamInv'
  <2>1. tx'.pc = "time" /\ tx'.g = g /\ tx'.s = tx.s /\ tx'.at = ticks
    BY <1>3, Typed DEF Txs
  <2>2. tx' \in Txs
    BY <1>2, <1>3, Typed DEF Txs
  <2>3. g.a \in Programs
    BY Typed DEF g
  <2> QED
    BY <1>1, <2>1, <2>2, <2>3 DEF StreamInv
<1>5. hist' \in Hists
  BY Typed DEF TxBegin, TxBeginOf, Hists
<1> QED
  BY <1>3, <1>4, <1>5, Typed, Transmitted DEF TxBegin, TxBeginOf

LEMMA MinuteType == ASSUME TypeInv, TxMinute PROVE TypeInv'
<1> DEFINE flips == MinuteOf(tm) # state[program].min /\ tx.s = 0
           misses == program # tx.g.a \/ tm # tx.at
<1>1. tx.s <= 6 /\ MinuteOf(tm) \in 0 .. Minutes - 1
  BY Typed, Constants DEF TypeInv, StreamInv, TxMinute, TxMinuteKeeping, MinuteOf
<1>2. tx' \in Txs /\ StreamInv'
  <2>1. PICK pc \in {"ct", "pre"} : Step(pc, tx.g)
    BY DEF TxMinute, TxMinuteKeeping
  <2>2. pc \in Coding /\ tx.g.a \in Programs
    BY DEF Coding, TypeInv, StreamInv, TxMinute, TxMinuteKeeping
  <2> QED
    BY <1>1, <2>1, <2>2, Typed, Stepped
<1>3. state' \in [Programs -> States]
  <2>1. [state[program] EXCEPT !.min = MinuteOf(tm)] \in States
    BY <1>1, Typed DEF States
  <2>2. state' = [state EXCEPT ![program].min = MinuteOf(tm)] \/ state' = state
    BY DEF TxMinute, TxMinuteKeeping
  <2> QED
    BY <2>1, <2>2, Typed
<1>4. hist' \in Hists
  <2>1. hist' = [hist EXCEPT !.told = IF flips /\ misses THEN @ \ {tx.g.a} ELSE @,
                             !.void = flips /\ misses,
                             !.lastMin = IF tx.s = 0 THEN MinuteOf(tm) ELSE @,
                             !.quiet = @ \/ tx.s = 0]
    BY DEF TxMinute, TxMinuteKeeping
  <2> QED
    BY <1>1, <2>1, Typed DEF Hists
<1> QED
  BY <1>2, <1>3, <1>4, Typed, Transmitted DEF TxMinute, TxMinuteKeeping

LEMMA CtType == ASSUME TypeInv, TxCt PROVE TypeInv'
<1> DEFINE ct == [ZeroPayload EXCEPT !.kind = "ct"]
<1>1. tx.s <= 6 /\ tx.g.a \in Programs
  BY DEF TypeInv, StreamInv, TxCt
<1>2. [tx.g EXCEPT !.body = ct] \in Groups
  <2>1. ct \in Payloads
    BY EmptyTypes DEF Payloads
  <2> QED
    BY <2>1, Typed DEF Groups
<1>3. tx' \in Txs /\ StreamInv'
  <2>1. PICK pc \in {"coded", "pre"}, g \in Groups : Step(pc, g)
    BY <1>2, Typed DEF TxCt
  <2>2. pc \in Coding /\ pc \notin {"time", "ct"}
    BY DEF Coding
  <2> QED
    BY <1>1, <2>1, <2>2, Stepped
<1>4. hist' \in Hists
  <2>1. CASE data[program].ct
    <3>1. hist' = [hist EXCEPT !.told = IF hist.void THEN @ ELSE @ \cup {tx.g.a}, !.void = FALSE]
      BY <2>1 DEF TxCt
    <3> QED
      BY <1>1, <3>1, Typed DEF Hists
  <2>2. CASE ~data[program].ct
    BY <2>2, Typed DEF TxCt, Hists
  <2> QED
    BY <2>1, <2>2
<1> QED
  BY <1>3, <1>4, Typed, Transmitted DEF TxCt

(* Writing to one of the two custom buffers of a program, or its mark.      *)
LEMMA BufferTypes ==
    ASSUME NEW p \in Programs, NEW k \in {1, 2},
           state \in [Programs -> States]
    PROVE  /\ \A b \in Buffers : [state EXCEPT ![p].buf[k] = b] \in [Programs -> States]
           /\ [state EXCEPT ![p].buf[k].full = TRUE] \in [Programs -> States]
           /\ [state EXCEPT ![p].buf[k].full = FALSE] \in [Programs -> States]
<1>1. ASSUME NEW c \in Buffers PROVE [state[p].buf EXCEPT ![k] = c] \in [{1, 2} -> Buffers]
  BY <1>1 DEF States
<1>2. ASSUME NEW f \in [{1, 2} -> Buffers]
      PROVE  [state EXCEPT ![p].buf = f] \in [Programs -> States]
  BY DEF States
<1>3. ASSUME NEW full \in BOOLEAN PROVE [state[p].buf[k] EXCEPT !.full = full] \in Buffers
  <2>1. state[p].buf[k] \in Buffers
    BY DEF States
  <2> QED
    BY <2>1 DEF Buffers
<1> QED
  BY <1>1, <1>2, <1>3

LEMMA PreTxType == ASSUME TypeInv, TxPreTx PROVE TypeInv'
<1>1. tx.s <= 6 /\ Step("select", tx.g)
  BY DEF TypeInv, StreamInv, TxPreTx
<1>2. tx' \in Txs /\ StreamInv'
  BY <1>1, Typed, Stepped DEF Coding
<1>3. state' \in [Programs -> States] /\ hist' \in Hists
  <2>1. CASE UNCHANGED <<state, hist>>
    BY <2>1, Typed
  <2>2. CASE /\ state' = [state EXCEPT ![writing].buf[1] =
                              [full |-> TRUE, tok |-> HookTok, a |-> Zero]]
             /\ hist' = [hist EXCEPT !.spoilt = @ \ {<<writing, 1>>}]
    <3>1. [full |-> TRUE, tok |-> HookTok, a |-> Zero] \in Buffers
      BY Constants DEF Buffers
    <3> QED
      BY <2>2, <3>1, Typed, BufferTypes DEF Hists
  <2> QED
    BY <2>1, <2>2 DEF TxPreTx
<1> QED
  BY <1>2, <1>3, Typed, Transmitted DEF TxPreTx

LEMMA TakeType ==
    ASSUME TypeInv, tx.pc = "select", TakeCustom(FALSE)
    PROVE  tx' \in Txs /\ StreamInv' /\ state' \in [Programs -> States] /\ hist' \in Hists
<1>1. tx.s <= 6 /\ Step("copy", tx.g)
  BY DEF TypeInv, StreamInv, TakeCustom
<1>2. tx' \in Txs /\ StreamInv'
  BY <1>1, Typed, Stepped DEF Coding
<1>3. state' \in [Programs -> States]
  BY Typed, BufferTypes DEF TakeCustom
<1>4. hist' \in Hists
  BY Typed DEF TakeCustom, Hists
<1> QED
  BY <1>2, <1>3, <1>4

(* What a slot may become: left to Lua, or coded from the program on air.   *)
SlotLua(code) == [tx.g EXCEPT !.body.code = code]
SlotCore(code) == [tx.g EXCEPT !.body = [ZeroPayload EXCEPT !.kind = "core", !.code = code,
                                                            !.from = program]]

LEMMA Served ==
    ASSUME TypeInv, ServeSlot
    PROVE  /\ hist' = hist
           /\ \E n \in 0 .. IndexMod - 1 : state' = [state EXCEPT ![program].idx = n]
           /\ \E code \in Codes \cup {DefaultCode} :
                 Step("lua", SlotLua(code)) \/ Step("coded", SlotCore(code))
<1> DEFINE d == data[program]
           i == SlotIndex(d, state[program])
<1>1. i \in 0 .. IndexMod - 1 /\ SlotCodes(d, i) \subseteq Codes \cup {DefaultCode}
  BY Typed, Slots
<1>2. (i + 1) % IndexMod \in 0 .. IndexMod - 1
  <2>1. PICK n \in Int : n = i + 1
    BY <1>1, SizesAssumption
  <2>2. n % IndexMod \in 0 .. IndexMod - 1
    BY Constants
  <2> QED
    BY <2>1, <2>2
<1>3. state' = [state EXCEPT ![program].idx = (i + 1) % IndexMod] /\ hist' = hist
  BY DEF ServeSlot
<1>4. PICK code \in SlotCodes(d, i) : Step("lua", SlotLua(code)) \/ Step("coded", SlotCore(code))
  BY DEF ServeSlot, SlotLua, SlotCore
<1>5. code \in Codes \cup {DefaultCode}
  BY <1>1, <1>4
<1> QED
  BY <1>2, <1>3, <1>4, <1>5

LEMMA SlotGroups ==
    ASSUME TypeInv, NEW code \in Codes \cup {DefaultCode}
    PROVE  /\ SlotLua(code) \in Groups /\ SlotCore(code) \in Groups
           /\ SlotLua(code).a = tx.g.a /\ SlotLua(code).tunnel = tx.g.tunnel
           /\ SlotLua(code).body.kind = tx.g.body.kind /\ SlotLua(code).body.from = tx.g.body.from
           /\ SlotCore(code).a = tx.g.a /\ SlotCore(code).tunnel = tx.g.tunnel
           /\ SlotCore(code).body.kind = "core" /\ SlotCore(code).body.from = program
<1>1. PICK l \in Payloads : l = [tx.g.body EXCEPT !.code = code]
  BY Typed DEF Payloads
<1>2. PICK c \in Payloads : c = [ZeroPayload EXCEPT !.kind = "core", !.code = code, !.from = program]
  BY Typed, EmptyTypes DEF Payloads
<1>3. SlotLua(code) = [tx.g EXCEPT !.body = l] /\ SlotCore(code) = [tx.g EXCEPT !.body = c]
  BY <1>1, <1>2, Typed DEF SlotLua, SlotCore, Groups
<1>4. l.kind = tx.g.body.kind /\ l.from = tx.g.body.from /\ c.kind = "core" /\ c.from = program
  BY <1>1, <1>2, Typed, EmptyTypes DEF Payloads
<1> QED
  BY <1>3, <1>4, Typed DEF Groups

LEMMA ServeType ==
    ASSUME TypeInv, tx.pc = "select", ServeSlot
    PROVE  tx' \in Txs /\ StreamInv' /\ state' \in [Programs -> States] /\ hist' \in Hists
<1>1. tx.s <= 6
  BY DEF TypeInv, StreamInv
<1>2. PICK code \in Codes \cup {DefaultCode} :
         Step("lua", SlotLua(code)) \/ Step("coded", SlotCore(code))
  BY Served
<1>3. tx' \in Txs /\ StreamInv'
  BY <1>1, <1>2, SlotGroups, Stepped DEF Coding
<1>4. PICK n \in 0 .. IndexMod - 1 : state' = [state EXCEPT ![program].idx = n]
  BY Served
<1>5. [state[program] EXCEPT !.idx = n] \in States
  BY Typed DEF States
<1> QED
  BY <1>3, <1>4, <1>5, Typed, Served

LEMMA SelectType == ASSUME TypeInv, TxSelect PROVE TypeInv'
<1>1. tx.pc = "select" /\ (TakeCustom(FALSE) \/ ServeSlot)
  BY DEF TxSelect, AtSelect
<1>2. tx' \in Txs /\ StreamInv' /\ state' \in [Programs -> States] /\ hist' \in Hists
  BY <1>1, TakeType, ServeType
<1> QED
  BY <1>2, Typed, Transmitted DEF TxSelect, AtSelect

LEMMA Rds2Type == ASSUME TypeInv, TxRds2 PROVE TypeInv'
<1>1. tx.pc = "select"
  BY DEF TxRds2, AtSelect
<1>2. CASE TakeCustom(FALSE)
  BY <1>1, <1>2, TakeType, Typed, Transmitted DEF TxRds2, AtSelect
<1>3. CASE Step("lua", [tx.g EXCEPT !.a = Zero]) /\ UNCHANGED <<state, hist>>
  <2>1. tx.s <= 6 /\ [tx.g EXCEPT !.a = Zero] \in Groups
    BY <1>1, Typed DEF TypeInv, StreamInv, Groups
  <2>2. tx' \in Txs /\ StreamInv'
    BY <1>3, <2>1, Stepped DEF Coding
  <2> QED
    BY <1>3, <2>2, Typed, Transmitted DEF TxRds2, AtSelect
<1> QED
  BY <1>2, <1>3 DEF TxRds2

(* The group a buffer's blocks make.                                        *)
CustomGroup ==
    LET buf == state[program].buf[Buffer]
    IN [tx.g EXCEPT !.a = IF tx.s = 0 THEN program ELSE buf.a,
                    !.body = [ZeroPayload EXCEPT !.kind = "custom", !.tok = buf.tok,
                                                 !.from = program]]

LEMMA Copied ==
    ASSUME TypeInv, TxCopy
    PROVE  /\ CustomGroup \in Groups /\ Step("coded", CustomGroup)
           /\ CustomGroup.a = IF tx.s = 0 THEN program ELSE state[program].buf[Buffer].a
           /\ CustomGroup.tunnel = tx.g.tunnel
           /\ CustomGroup.body.kind = "custom" /\ CustomGroup.body.from = program
           /\ CustomGroup.body.tok = state[program].buf[Buffer].tok
           /\ hist' \in Hists
<1> DEFINE buf == state[program].buf[Buffer]
           stands == buf.full /\ <<program, Buffer>> \notin hist.hand
<1>1. buf \in Buffers /\ buf.tok \in Tokens /\ buf.a \in {Zero, Rds2}
  BY Typed DEF Buffers
<1>2. PICK c \in Payloads : c = [ZeroPayload EXCEPT !.kind = "custom", !.tok = buf.tok,
                                                    !.from = program]
  BY <1>1, Typed, EmptyTypes DEF Payloads
<1>3. c.kind = "custom" /\ c.tok = buf.tok /\ c.from = program
  BY <1>2, EmptyTypes DEF Payloads
<1>4. PICK a \in Programs \cup {Zero, Rds2} : a = IF tx.s = 0 THEN program ELSE buf.a
  BY <1>1, Typed
<1>5. CustomGroup = [tx.g EXCEPT !.a = a, !.body = c]
  BY <1>2, <1>4 DEF CustomGroup
<1>6. Step("coded", CustomGroup)
  BY DEF TxCopy, CustomGroup
<1>7. hist' \in Hists
  <2>1. hist' = [hist EXCEPT !.hand = {},
                    !.spoilt = IF stands THEN @ \cup {<<program, Buffer>>} ELSE @]
    BY DEF TxCopy
  <2>2. PICK n \in SUBSET (Programs \X {1, 2}) : hist' = [hist EXCEPT !.hand = {}, !.spoilt = n]
    <3>1. hist.spoilt \in SUBSET (Programs \X {1, 2})
          /\ hist.spoilt \cup {<<program, Buffer>>} \in SUBSET (Programs \X {1, 2})
      BY Typed DEF Hists
    <3> QED
      BY <2>1, <3>1
  <2> QED
    BY <2>2, Typed DEF Hists
<1> QED
  BY <1>3, <1>4, <1>5, <1>6, <1>7, Typed DEF Groups

LEMMA CopyType == ASSUME TypeInv, TxCopy PROVE TypeInv'
<1>1. tx.s <= 6
  BY DEF TypeInv, StreamInv, TxCopy
<1>2. tx' \in Txs /\ StreamInv'
  BY <1>1, Copied, Stepped DEF Coding
<1>3. hist' \in Hists
  BY Copied
<1> QED
  BY <1>2, <1>3, Typed, Transmitted DEF TxCopy

(* The groups lua_group and lua_rds2_group leave.                           *)
LuaOwn == [tx.g EXCEPT !.body.kind = "lua"]
LuaDecayed == [tx.g EXCEPT !.body = [ZeroPayload EXCEPT !.kind = "core", !.from = program]]
LuaRds2(a) == [tx.g EXCEPT !.a = a, !.body.kind = "lua"]
LuaTunnel == [tx.g EXCEPT !.body = state[program].last, !.tunnel = TRUE]

LEMMA LuaGroups ==
    ASSUME TypeInv, TxLua
    PROVE  /\ LuaOwn \in Groups /\ LuaOwn.a = tx.g.a /\ LuaOwn.tunnel = tx.g.tunnel
           /\ LuaOwn.body.kind = "lua"
           /\ LuaDecayed \in Groups /\ LuaDecayed.a = tx.g.a /\ LuaDecayed.tunnel = tx.g.tunnel
           /\ LuaDecayed.body.kind = "core" /\ LuaDecayed.body.from = program
           /\ \A a \in {Zero, Rds2} : /\ LuaRds2(a) \in Groups
                                      /\ LuaRds2(a).tunnel = tx.g.tunnel
                                      /\ LuaRds2(a).body.kind = "lua"
           /\ LuaTunnel \in Groups /\ LuaTunnel.tunnel /\ LuaTunnel.body = state[program].last
           /\ IF tx.s = 0
              THEN Step("coded", LuaOwn) \/ Step("coded", LuaDecayed)
              ELSE \/ \E a \in {Zero, Rds2} : Step("coded", LuaRds2(a))
                   \/ Step("coded", LuaTunnel)
                   \/ Step("coded", tx.g)
<1>1. PICK l \in Payloads : l = [tx.g.body EXCEPT !.kind = "lua"]
  BY Typed DEF Payloads
<1>2. PICK c \in Payloads : c = [ZeroPayload EXCEPT !.kind = "core", !.from = program]
  BY Typed, EmptyTypes DEF Payloads
<1>3. state[program].last \in Payloads
  BY Typed DEF States
<1>4. l.kind = "lua" /\ c.kind = "core" /\ c.from = program
  BY <1>1, <1>2, Typed, EmptyTypes DEF Payloads
<1>5. /\ LuaOwn = [tx.g EXCEPT !.body = l] /\ LuaDecayed = [tx.g EXCEPT !.body = c]
      /\ \A a \in {Zero, Rds2} : LuaRds2(a) = [tx.g EXCEPT !.a = a, !.body = l]
  BY <1>1, <1>2, Typed DEF LuaOwn, LuaDecayed, LuaRds2, Groups
<1>6. IF tx.s = 0
      THEN Step("coded", LuaOwn) \/ Step("coded", LuaDecayed)
      ELSE \/ \E a \in {Zero, Rds2} : Step("coded", LuaRds2(a))
           \/ Step("coded", LuaTunnel)
           \/ Step("coded", tx.g)
  BY DEF TxLua, LuaOwn, LuaDecayed, LuaRds2, LuaTunnel
<1>7. LuaTunnel \in Groups /\ LuaTunnel.tunnel /\ LuaTunnel.body = state[program].last
  BY <1>3, Typed DEF LuaTunnel, Groups
<1>8. /\ LuaOwn \in Groups /\ LuaOwn.a = tx.g.a /\ LuaOwn.tunnel = tx.g.tunnel
      /\ LuaOwn.body.kind = "lua"
      /\ LuaDecayed \in Groups /\ LuaDecayed.a = tx.g.a /\ LuaDecayed.tunnel = tx.g.tunnel
      /\ LuaDecayed.body.kind = "core" /\ LuaDecayed.body.from = program
      /\ \A a \in {Zero, Rds2} : /\ LuaRds2(a) \in Groups
                                 /\ LuaRds2(a).tunnel = tx.g.tunnel
                                 /\ LuaRds2(a).body.kind = "lua"
  BY <1>4, <1>5, Typed DEF Groups
<1> QED
  BY <1>6, <1>7, <1>8

LEMMA LuaType == ASSUME TypeInv, TxLua PROVE TypeInv'
<1>1. tx.s <= 6
  BY DEF TypeInv, StreamInv, TxLua
<1>2. PICK g \in Groups : Step("coded", g)
  BY LuaGroups, Typed
<1>3. tx' \in Txs /\ StreamInv'
  BY <1>1, <1>2, Stepped DEF Coding
<1> QED
  BY <1>3, Typed, Transmitted DEF TxLua

(* The group that goes out: TP and PTY are added to its block B.            *)
Sent ==
    IF tx.s = 0 \/ tx.g.a = Zero
    THEN [tx.g EXCEPT !.body.pty = @ \cup data[program].pty] ELSE tx.g

LEMMA SentGroup ==
    ASSUME TypeInv
    PROVE  /\ Sent \in Groups /\ Sent.body \in Payloads
           /\ Sent.a = tx.g.a /\ Sent.tunnel = tx.g.tunnel
           /\ Sent.body.kind = tx.g.body.kind /\ Sent.body.from = tx.g.body.from
           /\ Sent.body.tok = tx.g.body.tok
           /\ tx.s = 0 => data[program].pty \subseteq Sent.body.pty
           /\ data[program].pty \subseteq tx.g.body.pty => Sent.body = tx.g.body
<1>1. data[program].pty \in SUBSET PtyBits
  BY Typed DEF DataSets
<1>2. PICK c \in Payloads : c = [tx.g.body EXCEPT !.pty = @ \cup data[program].pty]
  BY <1>1, Typed DEF Payloads
<1>3. /\ c.kind = tx.g.body.kind /\ c.from = tx.g.body.from /\ c.tok = tx.g.body.tok
      /\ c.pty = tx.g.body.pty \cup data[program].pty
  BY <1>2, Typed DEF Payloads
<1>4. [tx.g EXCEPT !.body.pty = @ \cup data[program].pty] = [tx.g EXCEPT !.body = c]
  BY <1>2, Typed DEF Groups
<1>5. data[program].pty \subseteq tx.g.body.pty => c = tx.g.body
  <2> SUFFICES ASSUME data[program].pty \subseteq tx.g.body.pty PROVE c = tx.g.body
    OBVIOUS
  <2>1. tx.g.body.pty \cup data[program].pty = tx.g.body.pty
    OBVIOUS
  <2>2. c = [tx.g.body EXCEPT !.pty = tx.g.body.pty]
    BY <1>2, <2>1
  <2> QED
    BY <2>2, Typed DEF Payloads
<1> QED
  BY <1>3, <1>4, <1>5, Typed DEF Sent, Groups

LEMMA CodedEffect ==
    ASSUME TypeInv, TxCoded
    PROVE  /\ tx' = [tx EXCEPT !.pc = "next", !.s = @ + 1, !.g = Sent]
           /\ tx'.pc = "next" /\ tx'.s = tx.s + 1 /\ tx'.g = Sent /\ tx'.at = tx.at
           /\ state' = IF tx.s = 0 THEN [state EXCEPT ![program].last = Sent.body] ELSE state
           /\ hist' = [hist EXCEPT
                 !.lastAir = IF tx.s = 0 THEN Sent.body ELSE @,
                 !.mixed = IF Mixed THEN @ + 1 ELSE @,
                 !.aired = IF Sent.body.kind = "custom" /\ ~Sent.tunnel /\ Sent.body.tok # HookTok
                           THEN @ \cup {Sent.body.tok} ELSE @]
<1>1. tx' = [tx EXCEPT !.pc = "next", !.s = @ + 1, !.g = Sent]
  BY Zenon DEF TxCoded, TxCodedKeeping, Sent
<1>2. state' = IF tx.s = 0 THEN [state EXCEPT ![program].last = Sent.body] ELSE state
  BY SMT DEF TxCoded, TxCodedKeeping, Sent
<1>3. hist' = [hist EXCEPT
                 !.lastAir = IF tx.s = 0 THEN Sent.body ELSE @,
                 !.mixed = IF Mixed THEN @ + 1 ELSE @,
                 !.aired = IF Sent.body.kind = "custom" /\ ~Sent.tunnel /\ Sent.body.tok # HookTok
                           THEN @ \cup {Sent.body.tok} ELSE @]
  BY Zenon DEF TxCoded, TxCodedKeeping, Sent
<1> QED
  BY <1>1, <1>2, <1>3, Typed DEF Txs

LEMMA CodedType == ASSUME TypeInv, TxCoded PROVE TypeInv'
<1>1. tx.s \in 0 .. 6
  BY Typed DEF TypeInv, StreamInv, TxCoded, TxCodedKeeping
<1>2. tx' \in Txs /\ StreamInv'
  <2>1. tx.s + 1 \in 0 .. 7
    BY <1>1
  <2> QED
    BY <2>1, CodedEffect, SentGroup, Typed DEF Txs, StreamInv
<1>3. state' \in [Programs -> States]
  BY CodedEffect, SentGroup, Typed DEF States
<1>4. hist' \in Hists
  <2> DEFINE l == IF tx.s = 0 THEN Sent.body ELSE hist.lastAir
             m == IF Mixed THEN hist.mixed + 1 ELSE hist.mixed
             n == IF Sent.body.kind = "custom" /\ ~Sent.tunnel /\ Sent.body.tok # HookTok
                  THEN hist.aired \cup {Sent.body.tok} ELSE hist.aired
  <2>1. hist' = [hist EXCEPT !.lastAir = l, !.mixed = m, !.aired = n]
    BY CodedEffect
  <2>2. l \in Payloads /\ m \in Nat
    BY SentGroup, Typed DEF Hists
  <2>3. n \in SUBSET Tokens
    BY SentGroup, Typed DEF Hists, Payloads
  <2> HIDE DEF l, m, n
  <2> QED
    BY <2>1, <2>2, <2>3, Typed DEF Hists
<1> QED
  BY <1>2, <1>3, <1>4, Typed, Transmitted DEF TxCoded, TxCodedKeeping

LEMMA RoundType == ASSUME TypeInv, TxRound PROVE TypeInv'
<1>1. tx' \in Txs /\ tx'.pc = "next"
  BY Typed DEF TxRound, Txs
<1> QED
  BY <1>1, Typed, Transmitted DEF StreamInv, TxRound

-----------------------------------------------------------------------------
(* Commands: the count goes up and hist only hears of it.                   *)
LEMMA CommandType ==
    ASSUME TypeInv, NEW h \in Hists, CommandWith(h)
    PROVE  /\ commands' \in 0 .. MaxCommands /\ commands + 1 \in Tokens
           /\ hist' = [h EXCEPT !.quiet = FALSE] /\ hist' \in Hists
           /\ UNCHANGED <<tx, tm, ticks>>
<1>1. commands + 1 \in 0 .. MaxCommands
  BY SizesAssumption, Typed DEF CommandWith
<1>2. hist' \in Hists
  BY DEF CommandWith, Hists
<1> QED
  BY <1>1, <1>2, SizesAssumption DEF CommandWith, Tokens, HookTok

(* The shape of every command: what it sets has its type.                   *)
LEMMA Commanded ==
    ASSUME TypeInv, NEW h \in Hists, CommandWith(h),
           data' \in [Programs -> DataSets], state' \in [Programs -> States],
           program' \in Programs, writing' \in Programs, streams' \in Streams, udp' \in Udps
    PROVE  TypeInv'
BY CommandType DEF TypeInv, TypeOK, StreamInv, Hists

LEMMA FieldType ==
    ASSUME TypeInv, Command, NEW f \in DataSets, SetField(f)
    PROVE  TypeInv'
<1>1. data' \in [Programs -> DataSets]
  BY DEF SetField, TypeInv, TypeOK
<1> QED
  BY <1>1, Typed, Commanded DEF SetField, Command

LEMMA UdpType == ASSUME TypeInv, Udp PROVE TypeInv'
<1> DEFINE d == data[writing]
<1>1. /\ data \in [Programs -> DataSets] /\ state \in [Programs -> States]
      /\ program \in Programs /\ writing \in Programs /\ streams \in Streams
      /\ udp \in Udps /\ d \in DataSets /\ hist \in Hists
  BY Typed
<1>2. CASE SetPty
  <2>1. \A pty \in SUBSET PtyBits : [d EXCEPT !.pty = pty] \in DataSets
    BY <1>1 DEF DataSets
  <2> QED
    BY <1>2, <2>1, FieldType DEF SetPty
<1>3. CASE SetCt
  <2>1. [d EXCEPT !.ct = ~@] \in DataSets
    BY <1>1 DEF DataSets
  <2> QED
    BY <1>3, <2>1, FieldType DEF SetCt
<1>4. CASE Enable
  <2>1. ASSUME NEW code \in Checked \cap Codes
        PROVE  [d EXCEPT !.on = IF code \in d.on THEN d.on \ {code} ELSE d.on \cup {code}]
                  \in DataSets
    BY <1>1 DEF DataSets
  <2> QED
    BY <1>4, <2>1, FieldType DEF Enable
<1>5. CASE SetProgram
  <2>1. [hist EXCEPT !.switches = @ + 1] \in Hists
    BY <1>1 DEF Hists
  <2> QED
    BY <1>1, <1>5, <2>1, Commanded DEF SetProgram
<1>6. CASE SetWritingProgram
  BY <1>1, <1>6, Commanded DEF SetWritingProgram, Command
<1>7. CASE SetStreams
  <2>1. \A n \in StreamCounts : n % 8 \in Streams
    BY Constants, CodesAssumption
  <2> QED
    BY <1>1, <1>7, <2>1, Commanded DEF SetStreams, Command
<1>8. CASE SetGrpSeq
  <2>1. PICK q \in GrpSeqs :
          /\ data' = [data EXCEPT ![writing].len = Len(q) % IndexMod,
                                  ![writing].sqc = [i \in 0 .. SqcSize - 1 |-> PS]]
          /\ udp' = [udp EXCEPT !.pc = "grpseq", !.prog = writing, !.seq = q]
    BY <1>8 DEF SetGrpSeq
  <2>2. Len(q) % IndexMod \in 0 .. IndexMod - 1
    BY Constants, CodesAssumption
  <2>3. [i \in 0 .. SqcSize - 1 |-> PS] \in [0 .. SqcSize - 1 -> Codes \cup {DefaultCode}]
    BY Constants
  <2>4. data' \in [Programs -> DataSets]
    BY <1>1, <2>1, <2>2, <2>3 DEF DataSets
  <2>5. udp' \in Udps
    BY <1>1, <2>1 DEF Udps
  <2> QED
    BY <1>1, <1>8, <2>4, <2>5, Commanded DEF SetGrpSeq, Command
<1>9. CASE PutCustom
  <2>1. PICK k \in {1, 2}, a \in {Zero, Rds2} :
          /\ CommandWith([hist EXCEPT !.hand = @ \ {<<writing, k>>}])
          /\ state' = [state EXCEPT ![writing].buf[k].full = TRUE]
          /\ udp' = [udp EXCEPT !.pc = "put", !.prog = writing, !.k = k,
                                !.tok = commands + 1, !.a = a]
          /\ UNCHANGED <<data, program, writing, streams>>
    BY <1>9 DEF PutCustom
  <2>2. [hist EXCEPT !.hand = @ \ {<<writing, k>>}] \in Hists
    BY <1>1 DEF Hists
  <2>3. commands + 1 \in Tokens
    BY <2>1, <2>2, CommandType
  <2>4. udp' \in Udps
    BY <1>1, <2>1, <2>3 DEF Udps
  <2>5. state' \in [Programs -> States]
    BY <1>1, <2>1, BufferTypes
  <2> QED
    BY <1>1, <2>1, <2>2, <2>4, <2>5, Commanded
<1>10. CASE Reset
  <2>1. udp' \in Udps
    BY <1>1, <1>10, Constants DEF Reset, Udps
  <2> QED
    BY <1>1, <1>10, <2>1, Commanded DEF Reset, Command
<1>11. CASE SetDefaults
  <2>1. udp' \in Udps
    BY <1>1, <1>11, Constants DEF SetDefaults, Udps
  <2>2. data' \in [Programs -> DataSets] /\ streams' \in Streams
    BY <1>1, <1>11, EmptyTypes DEF SetDefaults, Streams
  <2> QED
    BY <1>1, <1>11, <2>1, <2>2, Commanded DEF SetDefaults, Command
<1> QED
  BY <1>2, <1>3, <1>4, <1>5, <1>6, <1>7, <1>8, <1>9, <1>10, <1>11 DEF Udp

LEMMA ContinueType == ASSUME TypeInv, UdpContinue PROVE TypeInv'
<1>1. /\ data \in [Programs -> DataSets] /\ state \in [Programs -> States]
      /\ udp \in Udps /\ udp.prog \in Programs /\ udp.k \in {1, 2} /\ hist \in Hists
      /\ tm \in 0 .. MaxTicks /\ ticks \in 0 .. MaxTicks
  BY Typed
<1>2. ASSUME NEW h \in Hists, NEW pc, ContinueWith(pc, h), data' \in [Programs -> DataSets],
             state' \in [Programs -> States], udp' \in Udps, tm' \in 0 .. MaxTicks
      PROVE  TypeInv'
  <2>1. hist' \in Hists
    BY <1>2 DEF ContinueWith, Hists
  <2> QED
    BY <1>2, <2>1 DEF ContinueWith, TypeInv, TypeOK, StreamInv, Hists
<1>4. CASE FillGrpSeq
  <2> DEFINE sqc == [i \in 0 .. SqcSize - 1 |->
                        IF i < Len(udp.seq) THEN udp.seq[i + 1] ELSE PS]
  <2>1. udp.seq \in Seq(Codes)
    <3>1. udp.seq \in GrpSeqs \cup {<<>>}
      BY <1>1 DEF Udps
    <3> QED
      BY <3>1, CodesAssumption, EmptySeq
  <2>2. \A q \in Seq(Codes) : \A i \in 0 .. SqcSize - 1 : i < Len(q) => q[i + 1] \in Codes
    BY SizesAssumption
  <2>3. sqc \in [0 .. SqcSize - 1 -> Codes \cup {DefaultCode}]
    <3>1. ASSUME NEW i \in 0 .. SqcSize - 1
          PROVE  (IF i < Len(udp.seq) THEN udp.seq[i + 1] ELSE PS) \in Codes
      BY <2>1, <2>2, Constants
    <3> QED
      BY <3>1
  <2>4. data' \in [Programs -> DataSets]
    BY <1>1, <1>4, <2>3 DEF FillGrpSeq, DataSets
  <2> QED
    BY <1>1, <1>2, <1>4, <2>4, EmptyTypes DEF FillGrpSeq
<1>5. /\ [hist EXCEPT !.spoilt = @ \ {<<udp.prog, udp.k>>}] \in Hists
      /\ [hist EXCEPT !.spoilt = @ \cup {<<udp.prog, udp.k>>}] \in Hists
  <2>1. /\ hist.spoilt \ {<<udp.prog, udp.k>>} \in SUBSET (Programs \X {1, 2})
        /\ hist.spoilt \cup {<<udp.prog, udp.k>>} \in SUBSET (Programs \X {1, 2})
    BY <1>1 DEF Hists
  <2> QED
    BY <1>1, <2>1 DEF Hists
<1>7. CASE FillCustom
  <2>1. udp.k \in {1, 2} /\ udp.tok \in Tokens /\ udp.a \in {Zero, Rds2}
    BY <1>1 DEF Udps
  <2> DEFINE b == [state[udp.prog].buf[udp.k] EXCEPT !.tok = udp.tok, !.a = udp.a]
  <2>2. state[udp.prog].buf[udp.k] \in Buffers
    BY <1>1, <2>1 DEF States
  <2>3. b \in Buffers
    BY <2>1, <2>2 DEF Buffers
  <2>4. state' = [state EXCEPT ![udp.prog].buf[udp.k] = b]
    BY <1>1, <1>7, <2>1, <2>2 DEF FillCustom, States, Buffers
  <2>5. state' \in [Programs -> States]
    BY <1>1, <2>1, <2>3, <2>4, BufferTypes
  <2> QED
    BY <1>1, <1>2, <1>5, <1>7, <2>5, EmptyTypes DEF FillCustom
<1>8. CASE FillCustomFails
  BY <1>1, <1>2, <1>5, <1>8, EmptyTypes DEF FillCustomFails
<1>9. CASE ResetRead
  <2>1. udp' \in Udps
    BY <1>1, <1>9 DEF ResetRead, Udps
  <2> QED
    BY <1>1, <1>2, <1>9, <2>1 DEF ResetRead
<1>10. CASE ResetCopy
  <2> DEFINE stale == udp.at # ticks \/ (tx.pc = "time" /\ tm # udp.at)
             h == [hist EXCEPT
                     !.told = IF stale THEN @ \ {udp.prog} ELSE @,
                     !.void = @ \/ (stale /\ tx.pc = "ct" /\ tx.g.a = udp.prog),
                     !.hand = @ \ {<<udp.prog, 1>>, <<udp.prog, 2>>}]
  <2>1. state' \in [Programs -> States]
    <3>1. MinuteOf(udp.at) \in 0 .. Minutes - 1
      <4>1. PICK n \in Int : n = udp.at
        BY <1>1, SizesAssumption DEF Udps
      <4> QED
        BY <4>1, Constants DEF MinuteOf
    <3>2. FreshState(MinuteOf(udp.at)) \in States
      BY <3>1, EmptyTypes
    <3> QED
      BY <1>1, <1>10, <3>2 DEF ResetCopy
  <2>2. udp' \in Udps
    <3>1. udp.prog + 1 \in Programs => [udp EXCEPT !.pc = "reset", !.prog = @ + 1] \in Udps
      BY <1>1 DEF Udps
    <3> QED
      BY <1>10, <3>1, EmptyTypes DEF ResetCopy
  <2>3. h \in Hists
    <3>1. hist.void \in BOOLEAN
      BY <1>1 DEF Hists
    <3> QED
      BY <1>1, <3>1 DEF Hists
  <2>4. ContinueWith("copy", h) /\ UNCHANGED <<data, tm>>
    BY <1>10 DEF ResetCopy
  <2> HIDE DEF h
  <2> QED
    BY <1>1, <1>2, <2>1, <2>2, <2>3, <2>4
<1> QED
  BY <1>4, <1>7, <1>8, <1>9, <1>10 DEF UdpContinue

LEMMA ClockType == ASSUME TypeInv, ClockTick PROVE TypeInv'
<1>1. ticks' \in 0 .. MaxTicks
  BY SizesAssumption DEF TypeInv, TypeOK, ClockTick
<1> QED
  BY <1>1 DEF TypeInv, TypeOK, StreamInv, ClockTick

LEMMA TypeStep == TypeInv /\ [Next]_vars => TypeInv'
<1> SUFFICES ASSUME TypeInv, [Next]_vars PROVE TypeInv'
  OBVIOUS
<1>1. CASE Tx
  BY <1>1, BeginType, MinuteType, CtType, PreTxType, SelectType, Rds2Type, CopyType, LuaType,
     CodedType, RoundType DEF Tx
<1>2. CASE UNCHANGED vars
  BY <1>2 DEF vars, TypeInv, TypeOK, StreamInv
<1> QED
  BY <1>1, <1>2, UdpType, ContinueType, ClockType DEF Next

(* Every variable keeps its type: whatever sequences, stream counts and     *)
(* program switches the commands bring, at any point of coding a group.     *)
THEOREM TypeCorrect == Spec => []TypeOK
<1>1. TypeInv => TypeOK
  BY DEF TypeInv
<1> QED
  BY <1>1, InitType, TypeStep, PTL DEF Spec

-----------------------------------------------------------------------------
(* What the steps of the transmitter leave of the histories.                *)
LEMMA TxKeeps ==
    ASSUME TypeInv, Tx
    PROVE  /\ UNCHANGED <<data, program, writing, streams, udp, commands, ticks>>
           /\ hist'.switches = hist.switches
           /\ ~TxBegin => tm' = tm /\ tx'.at = tx.at
           /\ ~TxBegin /\ ~TxMinute /\ ~TxCt => /\ tx'.pc \notin {"time", "ct"}
                                              /\ hist'.told = hist.told /\ hist'.void = hist.void
           /\ ~TxMinute => /\ hist'.quiet = hist.quiet /\ hist'.lastMin = hist.lastMin
                           /\ \A p \in Programs : state'[p].min = state[p].min
           /\ ~TxCoded => hist'.mixed = hist.mixed /\ hist'.lastAir = hist.lastAir
                           /\ hist'.aired = hist.aired
           /\ ~TxCoded => \A p \in Programs : state'[p].last = state[p].last
<1>1. /\ state \in [Programs -> States] /\ hist \in Hists /\ tx \in Txs /\ tx.g \in Groups
      /\ program \in Programs /\ writing \in Programs
  BY Typed
<1>2. \A pc, g : Step(pc, g) => tx'.pc = pc /\ tx'.at = tx.at
  BY <1>1 DEF Step, Txs
<1>3. CASE TxBegin
  <2>1. TxBegin /\ ~TxMinute /\ ~TxCoded
    BY <1>3 DEF TxBegin, TxBeginOf, TxMinute, TxMinuteKeeping, TxCoded, TxCodedKeeping
  <2>2. hist' = [hist EXCEPT !.told = IF ticks = tx.at THEN @ ELSE {}]
    BY <1>3 DEF TxBegin, TxBeginOf
  <2>3. state' = state /\ UNCHANGED <<data, program, writing, streams, udp, commands, ticks>>
    BY <1>3 DEF TxBegin, TxBeginOf
  <2> QED
    BY <1>1, <2>1, <2>2, <2>3 DEF Hists
<1>4. CASE TxMinute
  <2>1. TxMinute /\ ~TxBegin /\ ~TxCoded /\ ~TxCt
    BY <1>4 DEF TxBegin, TxBeginOf, TxMinute, TxMinuteKeeping, TxCoded, TxCodedKeeping, TxCt
  <2>2. /\ hist'.switches = hist.switches /\ hist'.mixed = hist.mixed
        /\ hist'.lastAir = hist.lastAir /\ hist'.aired = hist.aired
    BY <1>1, <1>4 DEF TxMinute, TxMinuteKeeping, Hists
  <2>3. state' = [state EXCEPT ![program].min = MinuteOf(tm)] \/ state' = state
    BY <1>4 DEF TxMinute, TxMinuteKeeping
  <2>4. \A p \in Programs : state'[p].last = state[p].last
    BY <1>1, <2>3 DEF States
  <2>5. tx'.at = tx.at
    BY <1>2, <1>4 DEF TxMinute, TxMinuteKeeping
  <2>6. UNCHANGED <<data, program, writing, streams, udp, commands, ticks, tm>>
    BY <1>4 DEF TxMinute, TxMinuteKeeping
  <2> QED
    BY <2>1, <2>2, <2>4, <2>5, <2>6
<1>5. CASE TxCt
  <2>1. TxCt /\ ~TxBegin /\ ~TxCoded /\ ~TxMinute
    BY <1>5 DEF TxBegin, TxBeginOf, TxMinute, TxMinuteKeeping, TxCoded, TxCodedKeeping, TxCt
  <2>2. /\ hist'.switches = hist.switches /\ hist'.mixed = hist.mixed /\ hist'.quiet = hist.quiet
        /\ hist'.lastAir = hist.lastAir /\ hist'.aired = hist.aired
        /\ hist'.lastMin = hist.lastMin
    BY <1>1, <1>5 DEF TxCt, Hists
  <2>3. tx'.at = tx.at
    BY <1>2, <1>5 DEF TxCt
  <2>4. UNCHANGED <<data, state, program, writing, streams, udp, commands, ticks, tm>>
    BY <1>5 DEF TxCt
  <2> QED
    BY <2>1, <2>2, <2>3, <2>4
<1>6. CASE TxPreTx
  <2>1. /\ tx'.pc = "select" /\ tx'.at = tx.at
        /\ ~TxCoded /\ ~TxMinute
    BY <1>2, <1>6 DEF TxPreTx, TxCoded, TxCodedKeeping, TxMinute, TxMinuteKeeping
  <2>2. hist' = hist \/ hist' = [hist EXCEPT !.spoilt = @ \ {<<writing, 1>>}]
    BY <1>6 DEF TxPreTx
  <2>3. \/ state' = state
        \/ state' = [state EXCEPT ![writing].buf[1] =
                          [full |-> TRUE, tok |-> HookTok, a |-> Zero]]
    BY <1>6 DEF TxPreTx
  <2>4. \A p \in Programs : state'[p].last = state[p].last /\ state'[p].min = state[p].min
    BY <1>1, <2>3 DEF States
  <2>5. UNCHANGED <<data, program, writing, streams, udp, commands, ticks, tm>>
    BY <1>6 DEF TxPreTx
  <2> QED
    BY <1>1, <2>1, <2>2, <2>4, <2>5 DEF Hists
<1>7. CASE AtSelect /\ TakeCustom(FALSE)
  <2>1. /\ tx'.pc = "copy" /\ tx'.at = tx.at
        /\ ~TxCoded /\ ~TxMinute
    BY <1>2, <1>7 DEF AtSelect, TakeCustom, TxCoded, TxCodedKeeping, TxMinute, TxMinuteKeeping
  <2>2. hist' = [hist EXCEPT !.hand = {<<program, Buffer>>}]
        /\ state' = [state EXCEPT ![program].buf[Buffer].full = FALSE]
    BY <1>7 DEF TakeCustom
  <2>3. \A p \in Programs : state'[p].last = state[p].last /\ state'[p].min = state[p].min
    BY <1>1, <2>2 DEF States
  <2>4. UNCHANGED <<data, program, writing, streams, udp, commands, ticks, tm>>
    BY <1>7 DEF AtSelect
  <2> QED
    BY <1>1, <2>1, <2>2, <2>3, <2>4 DEF Hists
<1>8. CASE AtSelect /\ ServeSlot
  <2>1. hist' = hist /\ \E n \in 0 .. IndexMod - 1 : state' = [state EXCEPT ![program].idx = n]
    BY <1>8, Served
  <2>2. \A p \in Programs : state'[p].last = state[p].last /\ state'[p].min = state[p].min
    BY <1>1, <2>1 DEF States
  <2>3. PICK code \in Codes \cup {DefaultCode} :
           Step("lua", SlotLua(code)) \/ Step("coded", SlotCore(code))
    BY <1>8, Served
  <2>4. tx'.pc \in {"lua", "coded"} /\ tx'.at = tx.at
    BY <1>2, <2>3
  <2>5. UNCHANGED <<data, program, writing, streams, udp, commands, ticks, tm>>
    BY <1>8 DEF AtSelect
  <2> QED
    BY <2>1, <2>2, <2>4, <2>5
<1>9. CASE AtSelect /\ Step("lua", [tx.g EXCEPT !.a = Zero]) /\ UNCHANGED <<state, hist>>
  BY <1>2, <1>9 DEF AtSelect
<1>10. CASE TxCopy
  <2>1. Step("coded", CustomGroup) /\ UNCHANGED <<state, data, program, writing, streams, udp, commands, ticks, tm>>
    BY <1>10, Copied DEF TxCopy
  <2>2. \E n : hist' = [hist EXCEPT !.hand = {}, !.spoilt = n]
    BY <1>1, <1>10 DEF TxCopy
  <2> QED
    BY <1>1, <1>2, <2>1, <2>2 DEF Hists
<1>11. CASE TxLua
  <2>1. \E g \in Groups : Step("coded", g)
    BY <1>1, <1>11, LuaGroups
  <2>2. UNCHANGED <<state, data, program, writing, streams, udp, commands, ticks, tm, hist>>
    BY <1>11 DEF TxLua
  <2> QED
    BY <1>2, <2>1, <2>2
<1>12. CASE TxCoded
  <2>1. ~TxMinute /\ tx'.pc = "next" /\ tx'.at = tx.at
    BY <1>12, CodedEffect DEF TxCoded, TxCodedKeeping, TxMinute, TxMinuteKeeping
  <2>2. /\ hist'.switches = hist.switches /\ hist'.quiet = hist.quiet
        /\ hist'.told = hist.told /\ hist'.void = hist.void /\ hist'.lastMin = hist.lastMin
    BY <1>1, <1>12, CodedEffect DEF Hists
  <2>3. \A p \in Programs : state'[p].min = state[p].min
    BY <1>1, <1>12, CodedEffect DEF States
  <2>4. UNCHANGED <<data, program, writing, streams, udp, commands, ticks, tm>>
    BY <1>12 DEF TxCoded, TxCodedKeeping
  <2> QED
    BY <1>1, <1>12, <2>1, <2>2, <2>3, <2>4 DEF Hists
<1>13. CASE TxRound
  <2>1. tx'.pc = "next" /\ tx'.at = tx.at
    BY <1>1, <1>13 DEF TxRound, Txs
  <2> QED
    BY <1>13, <2>1 DEF TxRound
<1> QED
  <2>1. TxSelect \/ TxRds2 =>
           \/ AtSelect /\ TakeCustom(FALSE)
           \/ AtSelect /\ ServeSlot
           \/ AtSelect /\ Step("lua", [tx.g EXCEPT !.a = Zero]) /\ UNCHANGED <<state, hist>>
    BY DEF TxSelect, TxRds2
  <2> QED
    BY <1>3, <1>4, <1>5, <1>6, <1>7, <1>8, <1>9, <1>10, <1>11, <1>12, <1>13, <2>1, Zenon DEF Tx

(* And what the commands leave.                                             *)
LEMMA UdpKeeps ==
    ASSUME TypeInv, Udp \/ UdpContinue
    PROVE  /\ tx' = tx /\ ticks' = ticks /\ ~hist'.quiet
           /\ hist'.mixed = hist.mixed /\ hist'.lastAir = hist.lastAir
           /\ hist'.aired = hist.aired
           /\ ~SetProgram => hist'.switches = hist.switches /\ program' = program
           /\ SetProgram => hist'.switches = hist.switches + 1
           /\ ~ResetRead => tm' = tm
           /\ ~ResetCopy => /\ hist'.told = hist.told /\ hist'.void = hist.void
                            /\ \A p \in Programs : state'[p].min = state[p].min
<1>1. /\ state \in [Programs -> States] /\ hist \in Hists /\ udp \in Udps
      /\ program \in Programs /\ writing \in Programs /\ udp.prog \in Programs /\ udp.k \in {1, 2}
  BY Typed
<1>2. \A h : CommandWith(h) => /\ tx' = tx /\ ticks' = ticks /\ tm' = tm /\ udp.pc = "idle"
                              /\ hist' = [h EXCEPT !.quiet = FALSE]
  BY DEF CommandWith
<1>3. CASE Udp
  <2>1. ~ResetCopy /\ ~ResetRead
    <3>1. udp.pc = "idle"
      BY <1>2, <1>3 DEF Udp, Command, SetPty, SetCt, Enable, SetProgram, SetWritingProgram,
                        SetStreams, SetGrpSeq, PutCustom, Reset, SetDefaults
    <3> QED
      BY <3>1 DEF ResetCopy, ResetRead, ContinueWith
  <2>2. CASE SetProgram
    <3>1. [hist EXCEPT !.switches = @ + 1] \in Hists /\ state' = state
      BY <1>1, <2>2 DEF SetProgram, Hists
    <3>2. hist' = [[hist EXCEPT !.switches = @ + 1] EXCEPT !.quiet = FALSE]
          /\ tx' = tx /\ ticks' = ticks /\ tm' = tm
      BY <1>2, <2>2 DEF SetProgram
    <3> QED
      BY <1>1, <2>2, <2>1, <3>1, <3>2 DEF Hists
  <2>3. CASE PutCustom
    <3>1. PICK k \in {1, 2} :
             /\ CommandWith([hist EXCEPT !.hand = @ \ {<<writing, k>>}])
             /\ state' = [state EXCEPT ![writing].buf[k].full = TRUE]
             /\ program' = program
      BY <2>3 DEF PutCustom
    <3>2. \A p \in Programs : state'[p].min = state[p].min
      BY <1>1, <3>1 DEF States
    <3>3. ~SetProgram
      BY <1>1, <3>1 DEF SetProgram
    <3>4. hist' = [[hist EXCEPT !.hand = @ \ {<<writing, k>>}] EXCEPT !.quiet = FALSE]
          /\ tx' = tx /\ ticks' = ticks /\ tm' = tm
      BY <1>2, <3>1
    <3> QED
      BY <1>1, <2>1, <3>1, <3>2, <3>3, <3>4 DEF Hists
  <2>4. CASE ~SetProgram /\ ~PutCustom
    <3>1. Command /\ state' = state /\ program' = program
      BY <1>3, <2>4 DEF Udp, SetPty, SetCt, Enable, SetWritingProgram, SetField,
                        SetStreams, SetGrpSeq, Reset, SetDefaults
    <3>2. hist' = [hist EXCEPT !.quiet = FALSE] /\ tx' = tx /\ ticks' = ticks /\ tm' = tm
      BY <1>2, <3>1 DEF Command
    <3> QED
      BY <1>1, <2>1, <2>4, <3>1, <3>2 DEF Hists
  <2> QED
    BY <2>2, <2>3, <2>4
<1>4. CASE UdpContinue
  <2>1. udp.pc # "idle" /\ ~SetProgram
    BY <1>2, <1>4 DEF UdpContinue, FillGrpSeq, FillCustom, FillCustomFails, ResetRead, ResetCopy,
                      ContinueWith, SetProgram
  <2>2. tx' = tx /\ ticks' = ticks /\ program' = program /\ (~ResetRead => tm' = tm)
    BY <1>4 DEF UdpContinue, FillGrpSeq, FillCustom, FillCustomFails, ResetRead, ResetCopy,
                ContinueWith
  <2>3. ~ResetCopy => \A p \in Programs : state'[p].min = state[p].min
    <3>1. CASE FillCustom
      BY <1>1, <3>1 DEF FillCustom, States
    <3>2. CASE FillGrpSeq \/ FillCustomFails \/ ResetRead
      BY <3>2 DEF FillGrpSeq, FillCustomFails, ResetRead
    <3> QED
      BY <1>4, <3>1, <3>2 DEF UdpContinue
  <2>4. CASE ~ResetCopy
    <3>1. PICK n \in SUBSET (Programs \X {1, 2}) :
             hist' = [hist EXCEPT !.spoilt = n, !.quiet = FALSE]
      <4>1. /\ hist.spoilt \in SUBSET (Programs \X {1, 2})
            /\ hist.spoilt \ {<<udp.prog, udp.k>>} \in SUBSET (Programs \X {1, 2})
            /\ hist.spoilt \cup {<<udp.prog, udp.k>>} \in SUBSET (Programs \X {1, 2})
            /\ hist = [hist EXCEPT !.spoilt = hist.spoilt]
        BY <1>1 DEF Hists
      <4> QED
        BY <1>1, <1>4, <2>4, <4>1 DEF UdpContinue, FillGrpSeq, FillCustom, FillCustomFails, ResetRead,
                             ContinueWith, Hists
    <3> QED
      BY <1>1, <2>1, <2>2, <2>3, <3>1 DEF Hists
  <2>5. CASE ResetCopy
    BY <1>1, <2>1, <2>2, <2>5 DEF ResetCopy, ContinueWith, Hists
  <2> QED
    BY <2>4, <2>5
<1> QED
  BY <1>3, <1>4

-----------------------------------------------------------------------------
(* One CT in a minute.  A program whose CT told the time last read has that *)
(* minute in its state, as long as that time is the time, or is still in tm *)
(* and about to be compared; then the comparison finds no change.           *)
CtInv ==
    /\ tx.at <= tm /\ tm <= ticks
    /\ \A p \in hist.told :
          ticks = tx.at \/ (tx.pc = "time" /\ tm = tx.at) => state[p].min = MinuteOf(tx.at)
    /\ tx.pc = "ct" => tx.g.a \notin hist.told
    /\ tx.pc = "ct" /\ ~hist.void /\ ticks = tx.at => state[tx.g.a].min = MinuteOf(tx.at)

LEMMA Times == ASSUME TypeInv PROVE tx.at \in Nat /\ tm \in Nat /\ ticks \in Nat
                                    /\ hist.told \subseteq Programs
BY Typed, SizesAssumption DEF Hists

LEMMA CtKept ==
    ASSUME TypeInv, CtInv, hist'.told = hist.told, hist'.void = hist.void, tx'.at = tx.at,
           tm' = tm, ticks' = ticks, \A p \in Programs : state'[p].min = state[p].min,
           tx'.pc \in {"time", "ct"} => tx'.pc = tx.pc /\ tx'.g = tx.g
    PROVE  CtInv'
<1>1. tx.pc = "ct" => tx.g.a \in Programs
  BY DEF TypeInv, StreamInv
<1>2. hist'.told \subseteq Programs /\ MinuteOf(tx.at)' = MinuteOf(tx.at)
  BY Times DEF MinuteOf
<1> QED
  BY <1>1, <1>2 DEF CtInv, MinuteOf

LEMMA BeginCt == ASSUME TypeInv, CtInv, TxBegin PROVE CtInv'
<1>1. /\ tx'.pc = "time" /\ tx'.at = ticks /\ tm' = ticks /\ ticks' = ticks /\ state' = state
      /\ hist'.told = IF ticks = tx.at THEN hist.told ELSE {}
  BY Typed DEF TxBegin, TxBeginOf, Txs, Hists
<1> QED
  BY <1>1, Times DEF CtInv, MinuteOf

LEMMA MinuteCt == ASSUME TypeInv, CtInv, TxMinute PROVE CtInv'
<1> DEFINE flips == MinuteOf(tm) # state[program].min /\ tx.s = 0
           misses == program # tx.g.a \/ tm # tx.at
<1>1. /\ tx.pc = "time" /\ tm' = tm /\ ticks' = ticks
      /\ tx' = [tx EXCEPT !.pc = IF flips THEN "ct" ELSE "pre", !.g = tx.g]
      /\ state' = IF flips THEN [state EXCEPT ![program].min = MinuteOf(tm)] ELSE state
  BY DEF TxMinute, TxMinuteKeeping, Step
<1>2. /\ hist'.told = IF flips /\ misses THEN hist.told \ {tx.g.a} ELSE hist.told
      /\ hist'.void = (flips /\ misses)
  BY Typed DEF TxMinute, TxMinuteKeeping, Hists
<1>3. /\ tx'.pc = (IF flips THEN "ct" ELSE "pre") /\ tx'.at = tx.at /\ tx'.g = tx.g
      /\ program \in Programs /\ tx.g.a \in Programs
  BY <1>1, Typed DEF Txs, TypeInv, StreamInv
<1>4. \A p \in Programs :
         state'[p].min = IF flips /\ p = program THEN MinuteOf(tm) ELSE state[p].min
  BY <1>1, <1>3, Typed DEF States
<1>5. \A p \in hist'.told : ticks = tx.at => state'[p].min = MinuteOf(tx.at)
  BY <1>2, <1>4, Times DEF CtInv
<1>6. flips => tx.g.a \notin hist'.told
  BY <1>1, <1>2, <1>3 DEF CtInv
<1>7. flips /\ ~misses => state'[tx.g.a].min = MinuteOf(tx.at)
  BY <1>4, <1>3
<1> HIDE DEF flips, misses
<1>8. tx.at <= tm /\ tm <= ticks
  BY DEF CtInv
<1>9. MinuteOf(tx.at)' = MinuteOf(tx.at)
  BY <1>3 DEF MinuteOf
<1>10. tx'.pc # "time" /\ (tx'.pc = "ct" <=> flips) /\ (hist'.void <=> flips /\ misses)
  BY <1>2, <1>3, Zenon
<1> QED
  BY <1>1, <1>3, <1>5, <1>6, <1>7, <1>8, <1>9, <1>10 DEF CtInv

LEMMA SentCt == ASSUME TypeInv, CtInv, TxCt PROVE CtInv'
<1>1. /\ tx.pc = "ct" /\ tx'.pc \in {"coded", "pre"} /\ tx'.at = tx.at /\ tm' = tm
      /\ ticks' = ticks /\ state' = state
  BY Typed DEF TxCt, Step, Txs
<1>2. hist'.told = hist.told \/ (~hist.void /\ hist'.told = hist.told \cup {tx.g.a})
  BY Typed DEF TxCt, Hists
<1>3. MinuteOf(tx.at)' = MinuteOf(tx.at)
  BY <1>1 DEF MinuteOf
<1> QED
  BY <1>1, <1>2, <1>3 DEF CtInv

LEMMA ResetCt == ASSUME TypeInv, CtInv, ResetRead \/ ResetCopy PROVE CtInv'
<1>1. /\ tx' = tx /\ ticks' = ticks /\ udp.prog \in Programs /\ hist.told \subseteq Programs
      /\ tx.at \in Nat /\ tm \in Nat /\ ticks \in Nat
      /\ tx.pc = "ct" => tx.g.a \in Programs
  BY UdpKeeps, Typed, Times DEF UdpContinue, TypeInv, StreamInv
<1>2. CASE ResetRead
  <2>1. ~ResetCopy /\ tm' = ticks /\ state' = state
    BY <1>2 DEF ResetRead, ResetCopy, ContinueWith
  <2>2. hist'.told = hist.told /\ hist'.void = hist.void
    BY <1>2, <2>1, UdpKeeps DEF UdpContinue
  <2> QED
    BY <1>1, <2>1, <2>2 DEF CtInv, MinuteOf
<1>3. CASE ResetCopy
  <2> DEFINE stale == udp.at # ticks \/ (tx.pc = "time" /\ tm # udp.at)
  <2>1. /\ hist'.told = IF stale THEN hist.told \ {udp.prog} ELSE hist.told
        /\ hist'.void = (hist.void \/ (stale /\ tx.pc = "ct" /\ tx.g.a = udp.prog))
    BY <1>3, Typed DEF ResetCopy, ContinueWith, Hists
  <2>2. tm' = tm
    BY <1>3 DEF ResetCopy
  <2>3. \A p \in Programs :
           state'[p].min = IF p = udp.prog THEN MinuteOf(udp.at) ELSE state[p].min
    BY <1>1, <1>3, Typed DEF ResetCopy, FreshState
  <2>4. MinuteOf(tx.at)' = MinuteOf(tx.at)
    BY <1>1 DEF MinuteOf
  <2>5. \A p \in hist'.told :
           ticks = tx.at \/ (tx.pc = "time" /\ tm = tx.at) => state'[p].min = MinuteOf(tx.at)
    BY <1>1, <2>1, <2>3 DEF CtInv
  <2>6. tx.pc = "ct" /\ ~hist'.void /\ ticks = tx.at => state'[tx.g.a].min = MinuteOf(tx.at)
    BY <1>1, <2>1, <2>3 DEF CtInv
  <2>7. tx.pc = "ct" => tx.g.a \notin hist'.told
    BY <2>1 DEF CtInv
  <2> QED
    BY <1>1, <2>2, <2>4, <2>5, <2>6, <2>7 DEF CtInv
<1> QED
  BY <1>2, <1>3

LEMMA CtStep == TypeInv /\ CtInv /\ [Next]_vars => CtInv'
<1> SUFFICES ASSUME TypeInv, CtInv, [Next]_vars PROVE CtInv'
  OBVIOUS
<1>1. CASE Tx
  <2>1. CASE TxBegin \/ TxMinute \/ TxCt
    BY <2>1, BeginCt, MinuteCt, SentCt
  <2>2. CASE ~(TxBegin \/ TxMinute \/ TxCt)
    BY <1>1, <2>2, TxKeeps, CtKept
  <2> QED
    BY <2>1, <2>2
<1>2. CASE Udp \/ UdpContinue
  <2>1. CASE ResetRead \/ ResetCopy
    BY <2>1, ResetCt
  <2>2. CASE ~(ResetRead \/ ResetCopy)
    BY <1>2, <2>2, UdpKeeps, CtKept
  <2> QED
    BY <2>1, <2>2
<1>3. CASE ClockTick
  <2>1. ticks' = ticks + 1 /\ UNCHANGED <<state, tx, tm, hist>>
    BY <1>3 DEF ClockTick
  <2> QED
    BY <2>1, Times DEF CtInv, MinuteOf
<1>4. CASE UNCHANGED vars
  BY <1>4, CtKept DEF vars
<1> QED
  BY <1>1, <1>2, <1>3, <1>4 DEF Next

(* The programs whose CT told the time last read send no second CT of that  *)
(* minute, whatever commands run at whatever step, but for what void and    *)
(* told leave out: get_rds_group remembers the minute in the program's own  *)
(* state before it sends the CT, and only reset_rds_state writes it else.   *)
THEOREM OneCt == Spec => CtOncePerMinute
<1>1. Init => CtInv
  BY SizesAssumption DEF Init, CtInv
<1>2. CtInv /\ [Next]_vars => [tx.pc = "ct" /\ tx'.pc = "coded" => tx.g.a \notin hist.told]_vars
  BY DEF CtInv
<1> QED
  BY <1>1, <1>2, InitType, TypeStep, CtStep, PTL DEF Spec, CtOncePerMinute

-----------------------------------------------------------------------------
(* Mixed groups.  A group that is being coded becomes a mixed one only by a *)
(* change of program, and one change makes one group mixed.                 *)
Spoiled == IF tx.pc # "next" /\ Mixed THEN 1 ELSE 0
SwitchInv == hist.mixed + Spoiled <= hist.switches

(* Within a group the transmitter only ever adds to it what is of the       *)
(* program then on air, so that a step of it mixes nothing.                 *)
LEMMA NoNewMix ==
    ASSUME TypeInv, Tx, ~TxCoded, tx'.pc # "next", Mixed'
    PROVE  tx.pc # "next" /\ Mixed
<1>1. tx.s \in 0 .. 7 /\ program' = program
  BY Typed, TxKeeps
<1>2. \A pc, g : Step(pc, g) => tx'.g = g /\ tx'.s = tx.s
  BY Typed DEF Step, Txs
<1>3. CASE TxBegin
  <2>1. tx'.g = [a |-> program, body |-> ZeroPayload, tunnel |-> FALSE]
    BY <1>3, Typed DEF TxBegin, TxBeginOf, Txs
  <2> QED
    BY <1>1, <2>1 DEF Mixed, ZeroPayload
<1>4. CASE TxMinute
  BY <1>1, <1>2, <1>4 DEF TxMinute, TxMinuteKeeping, Mixed
<1>5. CASE TxCt
  <2>1. Step("coded", [tx.g EXCEPT !.body = [ZeroPayload EXCEPT !.kind = "ct"]])
        \/ Step("pre", tx.g)
    BY <1>5 DEF TxCt
  <2>2. /\ [tx.g EXCEPT !.body = [ZeroPayload EXCEPT !.kind = "ct"]].a = tx.g.a
        /\ [tx.g EXCEPT !.body = [ZeroPayload EXCEPT !.kind = "ct"]].body.kind = "ct"
    BY Typed DEF Groups, ZeroPayload
  <2>3. tx.pc = "ct"
    BY <1>5 DEF TxCt
  <2> QED
    BY <1>1, <1>2, <2>1, <2>2, <2>3 DEF Mixed
<1>6. CASE TxPreTx
  BY <1>1, <1>2, <1>6 DEF TxPreTx, Mixed
<1>7. CASE AtSelect /\ TakeCustom(FALSE)
  BY <1>1, <1>2, <1>7 DEF AtSelect, TakeCustom, Mixed
<1>8. CASE AtSelect /\ ServeSlot
  <2>1. PICK code \in Codes \cup {DefaultCode} :
           Step("lua", SlotLua(code)) \/ Step("coded", SlotCore(code))
    BY <1>8, Served
  <2> QED
    BY <1>1, <1>2, <1>8, <2>1, SlotGroups DEF AtSelect, Mixed
<1>9. CASE TxRds2
  <2>1. tx'.s # 0
    BY <1>2, <1>9 DEF TxRds2, TakeCustom
  <2> QED
    BY <2>1 DEF Mixed
<1>10. CASE TxCopy
  <2>1. tx.pc = "copy"
    BY <1>10 DEF TxCopy
  <2> QED
    BY <1>1, <1>2, <1>10, <2>1, Copied DEF Mixed
<1>11. CASE TxLua
  <2>1. tx.pc = "lua"
    BY <1>11 DEF TxLua
  <2>2. CASE tx.s = 0
    BY <1>1, <1>2, <1>11, <2>1, <2>2, LuaGroups DEF Mixed
  <2>3. CASE tx.s # 0
    <3>1. \E g : Step("coded", g)
      BY <1>11, <2>3, LuaGroups
    <3> QED
      BY <1>2, <2>3, <3>1 DEF Mixed
  <2> QED
    BY <2>2, <2>3
<1>12. CASE TxRound
  BY <1>12, Typed DEF TxRound, Txs
<1> QED
  BY <1>3, <1>4, <1>5, <1>6, <1>7, <1>8, <1>9, <1>10, <1>11, <1>12 DEF Tx, TxSelect

LEMMA SwitchStep == TypeInv /\ SwitchInv /\ [Next]_vars => SwitchInv'
<1> SUFFICES ASSUME TypeInv, SwitchInv, [Next]_vars PROVE SwitchInv'
  OBVIOUS
<1>1. hist.mixed \in Nat /\ hist.switches \in Nat
  BY Typed DEF Hists
<1>2. CASE Tx /\ ~TxCoded
  <2>1. hist'.mixed = hist.mixed /\ hist'.switches = hist.switches
    BY <1>2, TxKeeps
  <2>2. Spoiled' <= Spoiled /\ Spoiled \in {0, 1} /\ Spoiled' \in {0, 1}
    BY <1>2, NoNewMix DEF Spoiled
  <2> QED
    BY <1>1, <2>1, <2>2 DEF SwitchInv
<1>3. CASE TxCoded
  <2>1. tx.pc = "coded" /\ hist'.switches = hist.switches
    BY <1>3, TxKeeps DEF Tx, TxCoded, TxCodedKeeping
  <2>2. tx'.pc = "next" /\ hist'.mixed = (IF Mixed THEN hist.mixed + 1 ELSE hist.mixed)
    BY <1>3, Typed, CodedEffect DEF Hists
  <2>3. Spoiled' = 0 /\ hist'.mixed = hist.mixed + Spoiled
    BY <1>1, <2>1, <2>2 DEF Spoiled
  <2>4. Spoiled \in {0, 1}
    BY DEF Spoiled
  <2>5. hist'.mixed + 0 <= hist'.switches
    BY <1>1, <2>1, <2>3, <2>4 DEF SwitchInv
  <2> QED
    BY <2>3, <2>5 DEF SwitchInv
<1>4. CASE Udp \/ UdpContinue
  <2>1. hist'.mixed = hist.mixed /\ tx' = tx
    BY <1>4, UdpKeeps
  <2>2. CASE SetProgram
    <3>1. hist'.switches = hist.switches + 1
      BY <1>4, <2>2, UdpKeeps
    <3>2. Spoiled \in {0, 1} /\ Spoiled' \in {0, 1}
      BY DEF Spoiled
    <3> QED
      BY <1>1, <2>1, <3>1, <3>2 DEF SwitchInv
  <2>3. CASE ~SetProgram
    <3>1. hist'.switches = hist.switches /\ program' = program
      BY <1>4, <2>3, UdpKeeps
    <3>2. Spoiled' = Spoiled
      BY <2>1, <3>1 DEF Spoiled, Mixed
    <3> QED
      BY <2>1, <3>1, <3>2 DEF SwitchInv
  <2> QED
    BY <2>2, <2>3
<1>5. CASE ClockTick \/ UNCHANGED vars
  BY <1>5 DEF ClockTick, vars, SwitchInv, Spoiled, Mixed
<1> QED
  BY <1>2, <1>3, <1>4, <1>5 DEF Next

(* There are no more groups of mixed programs on air than there were        *)
(* changes of program: a change, at whatever step of a group, can spoil     *)
(* that group only, for get_rds_group reads enc->program anew in the next.  *)
THEOREM SwitchSpoilsOneGroup == Spec => []SwitchSpoilsOne
<1>1. Init => SwitchInv
  BY DEF Init, SwitchInv, Spoiled
<1>2. TypeInv /\ SwitchInv => SwitchSpoilsOne
  <2> SUFFICES ASSUME TypeInv, SwitchInv PROVE hist.mixed <= hist.switches
    BY DEF SwitchSpoilsOne
  <2>1. hist.mixed \in Nat /\ hist.switches \in Nat /\ Spoiled \in {0, 1}
    BY Typed DEF Hists, Spoiled
  <2> QED
    BY <2>1 DEF SwitchInv
<1> QED
  BY <1>1, <1>2, InitType, TypeStep, SwitchStep, PTL DEF Spec

-----------------------------------------------------------------------------
(* Tunnels.  hist.quiet says that no command ran since the last stream 0    *)
(* group was begun; then the program on air still keeps that group, and the *)
(* PTY bits that would be added to a copy of it are in it already.          *)
TunnelInv ==
    /\ hist.quiet /\ tx.s >= 1
          => state[program].last = hist.lastAir /\ data[program].pty \subseteq hist.lastAir.pty
    /\ tx.pc # "next" /\ (tx.pc # "coded" \/ tx.s = 0) => ~tx.g.tunnel
    /\ tx.pc = "coded" /\ tx.g.tunnel /\ hist.quiet => tx.g.body = hist.lastAir
    /\ TunnelFresh

(* A step within a group that makes no tunnel.                              *)
LEMMA TunnelKept ==
    ASSUME TypeInv, TunnelInv, Tx, ~TxCoded, tx.pc # "next",
           NEW pc \in Coding, NEW g \in Groups, Step(pc, g), g.tunnel = tx.g.tunnel,
           pc = "coded" => tx.pc # "coded",
           ~TxMinute \/ tx.s # 0 => hist'.quiet = hist.quiet
    PROVE  TunnelInv'
<1>1. tx'.pc = pc /\ tx'.g = g /\ tx'.s = tx.s /\ tx.s \in 0 .. 7 /\ pc # "next"
  BY Typed DEF Step, Txs, Coding
<1>2. /\ data' = data /\ program' = program /\ program \in Programs
      /\ hist'.lastAir = hist.lastAir /\ state'[program].last = state[program].last
  BY Typed, TxKeeps
<1>3. tx.pc # "coded"
  BY DEF Tx, TxBegin, TxBeginOf, TxMinute, TxMinuteKeeping, TxCt, TxPreTx, TxSelect, TxRds2,
         AtSelect, TxCopy, TxLua, TxRound
<1>4. tx.s >= 1 => hist'.quiet = hist.quiet
  BY <1>1
<1>5. ~g.tunnel
  BY <1>3 DEF TunnelInv
<1> QED
  BY <1>1, <1>2, <1>4, <1>5 DEF TunnelInv, TunnelFresh

LEMMA TxTunnel == ASSUME TypeInv, TunnelInv, Tx PROVE TunnelInv'
<1>1. /\ tx \in Txs /\ tx.g \in Groups /\ tx.s \in 0 .. 7 /\ program \in Programs
      /\ state \in [Programs -> States] /\ hist \in Hists
  BY Typed
<1>2. \A pc, g : Step(pc, g) => tx'.pc = pc /\ tx'.g = g /\ tx'.s = tx.s
  BY <1>1 DEF Step, Txs
<1>3. CASE TxBegin
  <2>1. /\ tx'.pc = "time" /\ tx'.s = tx.s
        /\ tx'.g = [a |-> program, body |-> ZeroPayload, tunnel |-> FALSE]
    BY <1>1, <1>3 DEF TxBegin, TxBeginOf, Txs
  <2>2. UNCHANGED <<data, state, program>> /\ hist'.quiet = hist.quiet
        /\ hist'.lastAir = hist.lastAir
    BY <1>1, <1>3 DEF TxBegin, TxBeginOf, Hists
  <2> QED
    BY <2>1, <2>2 DEF TunnelInv, TunnelFresh
<1>4. CASE TxMinute
  <2>1. \E pc \in Coding : Step(pc, tx.g)
    BY <1>4 DEF TxMinute, TxMinuteKeeping, Coding
  <2>2. tx.pc = "time" /\ ~TxCoded
    BY <1>4 DEF TxMinute, TxMinuteKeeping, TxCoded, TxCodedKeeping
  <2>3. tx.s # 0 => hist'.quiet = hist.quiet
    <3>1. hist.quiet \in BOOLEAN /\ hist'.quiet = (hist.quiet \/ tx.s = 0)
      BY <1>1, <1>4 DEF TxMinute, TxMinuteKeeping, Hists
    <3> QED
      BY <3>1, Zenon
  <2> QED
    BY <1>1, <1>4, <2>1, <2>2, <2>3, TunnelKept
<1>5. CASE TxCt
  <2>1. tx.pc = "ct" /\ ~TxCoded /\ ~TxMinute
    BY <1>5 DEF TxCt, TxMinute, TxMinuteKeeping, TxCoded, TxCodedKeeping
  <2> DEFINE g == [tx.g EXCEPT !.body = [ZeroPayload EXCEPT !.kind = "ct"]]
  <2>2. Step("coded", g) \/ Step("pre", tx.g)
    BY <1>5 DEF TxCt
  <2>3. g.tunnel = tx.g.tunnel
    BY <1>1 DEF Groups
  <2>4. g \in Groups
    <3>1. [ZeroPayload EXCEPT !.kind = "ct"] \in Payloads
      BY EmptyTypes DEF Payloads
    <3> QED
      BY <1>1, <3>1 DEF Groups
  <2> HIDE DEF g
  <2>5. hist'.quiet = hist.quiet
    BY <2>1, TxKeeps
  <2>6. "coded" \in Coding /\ "pre" \in Coding
    BY DEF Coding
  <2>7. CASE Step("coded", g)
    BY <2>1, <2>3, <2>4, <2>5, <2>6, <2>7, TunnelKept
  <2>8. CASE Step("pre", tx.g)
    BY <1>1, <2>1, <2>5, <2>6, <2>8, TunnelKept
  <2> QED
    BY <2>2, <2>7, <2>8
<1>6. CASE TxPreTx
  <2>1. tx.pc = "pre" /\ ~TxCoded /\ ~TxMinute /\ Step("select", tx.g) /\ "select" \in Coding
    BY <1>6 DEF TxPreTx, TxMinute, TxMinuteKeeping, TxCoded, TxCodedKeeping, Coding
  <2> QED
    BY <1>1, <2>1, TxKeeps, TunnelKept
<1>7. CASE TxSelect \/ TxRds2
  <2>1. tx.pc = "select" /\ ~TxCoded /\ ~TxMinute
    BY <1>7 DEF TxSelect, TxRds2, AtSelect, TxMinute, TxMinuteKeeping, TxCoded, TxCodedKeeping
  <2>2. \E pc \in Coding, g \in Groups : Step(pc, g) /\ g.tunnel = tx.g.tunnel
    <3>1. CASE TakeCustom(FALSE)
      BY <1>1, <3>1 DEF TakeCustom, Coding
    <3>2. CASE ServeSlot
      <4>1. PICK code \in Codes \cup {DefaultCode} :
               Step("lua", SlotLua(code)) \/ Step("coded", SlotCore(code))
        BY <3>2, Served
      <4> QED
        BY <4>1, SlotGroups DEF Coding
    <3>3. CASE Step("lua", [tx.g EXCEPT !.a = Zero])
      <4>1. [tx.g EXCEPT !.a = Zero] \in Groups /\ [tx.g EXCEPT !.a = Zero].tunnel = tx.g.tunnel
        BY <1>1 DEF Groups
      <4> QED
        BY <3>3, <4>1 DEF Coding
    <3> QED
      BY <1>7, <3>1, <3>2, <3>3 DEF TxSelect, TxRds2
  <2> QED
    BY <2>1, <2>2, TxKeeps, TunnelKept
<1>8. CASE TxCopy
  <2>1. tx.pc = "copy" /\ ~TxCoded /\ ~TxMinute /\ "coded" \in Coding
    BY <1>8 DEF TxCopy, TxMinute, TxMinuteKeeping, TxCoded, TxCodedKeeping, Coding
  <2> QED
    BY <1>8, <2>1, Copied, TxKeeps, TunnelKept
<1>9. CASE TxLua
  <2>1. tx.pc = "lua" /\ ~TxCoded /\ ~TxMinute /\ "coded" \in Coding /\ ~tx.g.tunnel
    BY <1>9 DEF TxLua, TxMinute, TxMinuteKeeping, TxCoded, TxCodedKeeping, Coding, TunnelInv
  <2>2. hist' = hist /\ state' = state /\ data' = data /\ program' = program
    BY <1>9 DEF TxLua
  <2>3. CASE Step("coded", LuaTunnel) /\ tx.s # 0
    <3>1. tx'.pc = "coded" /\ tx'.s = tx.s /\ tx'.g.body = state[program].last /\ tx.s >= 1
      BY <1>1, <1>2, <1>9, <2>3, LuaGroups
    <3> QED
      BY <2>2, <3>1 DEF TunnelInv, TunnelFresh
  <2>4. CASE \E g \in Groups : Step("coded", g) /\ g.tunnel = tx.g.tunnel
    BY <2>1, <2>4, TxKeeps, TunnelKept
  <2> QED
    BY <1>1, <1>9, <2>3, <2>4, LuaGroups
<1>10. CASE TxCoded
  <2>1. tx.pc = "coded" /\ data' = data /\ program' = program /\ hist'.quiet = hist.quiet
    <3>1. ~TxMinute
      BY <1>10 DEF TxCoded, TxCodedKeeping, TxMinute, TxMinuteKeeping
    <3> QED
      BY <1>10, <3>1, TxKeeps DEF TxCoded, TxCodedKeeping
  <2>2. /\ tx'.pc = "next" /\ tx'.s = tx.s + 1 /\ tx'.g = Sent
        /\ state'[program].last = (IF tx.s = 0 THEN Sent.body ELSE state[program].last)
        /\ hist'.lastAir = (IF tx.s = 0 THEN Sent.body ELSE hist.lastAir)
    <3>1. /\ tx'.pc = "next" /\ tx'.s = tx.s + 1 /\ tx'.g = Sent
          /\ hist'.lastAir = (IF tx.s = 0 THEN Sent.body ELSE hist.lastAir)
      BY <1>1, <1>10, CodedEffect DEF Hists
    <3>2. state'[program].last = (IF tx.s = 0 THEN Sent.body ELSE state[program].last)
      BY <1>1, <1>10, CodedEffect DEF States
    <3> QED
      BY <3>1, <3>2
  <2>3. hist.quiet => state'[program].last = hist'.lastAir
                      /\ data[program].pty \subseteq hist'.lastAir.pty
    <3>1. CASE tx.s = 0
      BY <2>2, <3>1, SentGroup
    <3>2. CASE tx.s # 0
      BY <1>1, <2>2, <3>2 DEF TunnelInv
    <3> QED
      BY <3>1, <3>2
  <2>4. hist.quiet /\ Sent.tunnel => Sent.body = hist'.lastAir
    <3> SUFFICES ASSUME hist.quiet, Sent.tunnel PROVE Sent.body = hist'.lastAir
      OBVIOUS
    <3>1. tx.s # 0 /\ tx.g.tunnel /\ tx.g.body = hist.lastAir
      BY <2>1, SentGroup DEF TunnelInv
    <3>2. data[program].pty \subseteq tx.g.body.pty
      BY <1>1, <3>1 DEF TunnelInv
    <3> QED
      BY <2>2, <3>1, <3>2, SentGroup
  <2> QED
    BY <2>1, <2>2, <2>3, <2>4 DEF TunnelInv, TunnelFresh
<1>11. CASE TxRound
  <2>1. tx'.pc = "next" /\ tx'.s = 0 /\ tx'.g = tx.g /\ tx.pc = "next"
        /\ UNCHANGED <<data, state, program, hist>>
    BY <1>1, <1>11 DEF TxRound, Txs
  <2> QED
    BY <2>1 DEF TunnelInv, TunnelFresh
<1> QED
  BY <1>3, <1>4, <1>5, <1>6, <1>7, <1>8, <1>9, <1>10, <1>11 DEF Tx

(* A tunnel repeats the last stream 0 group, PTY bits included, unless a    *)
(* command ran since: last_stream0_group is kept in the program's state.    *)
THEOREM TunnelRepeats == Spec => []TunnelFresh
<1>1. Init => TunnelInv
  BY DEF Init, ZeroPayload, TunnelInv, TunnelFresh
<1>2. TypeInv /\ TunnelInv /\ [Next]_vars => TunnelInv'
  <2> SUFFICES ASSUME TypeInv, TunnelInv, [Next]_vars PROVE TunnelInv'
    OBVIOUS
  <2>1. CASE Udp \/ UdpContinue
    BY <2>1, UdpKeeps DEF TunnelInv, TunnelFresh
  <2>2. CASE ClockTick \/ UNCHANGED vars
    BY <2>2 DEF ClockTick, vars, TunnelInv, TunnelFresh
  <2> QED
    BY <2>1, <2>2, TxTunnel DEF Next
<1>3. TunnelInv => TunnelFresh
  BY DEF TunnelInv
<1> QED
  BY <1>1, <1>2, <1>3, InitType, TypeStep, PTL DEF Spec

-----------------------------------------------------------------------------
(* The minute hook.  Until a command runs, the program on air remembers the *)
(* minute of the last stream 0 group, and no reset has written over tm.     *)
MinuteInv ==
    /\ hist.quiet => state[program].min = hist.lastMin
    /\ hist.quiet /\ tx.pc = "time" => tm = tx.at

LEMMA MinuteStep == TypeInv /\ MinuteInv /\ [Next]_vars => MinuteInv'
<1> SUFFICES ASSUME TypeInv, MinuteInv, [Next]_vars PROVE MinuteInv'
  OBVIOUS
<1>1. /\ state \in [Programs -> States] /\ hist \in Hists /\ tx \in Txs /\ program \in Programs
  BY Typed
<1>2. CASE TxBegin
  <2>1. tm' = tx'.at
    BY <1>1, <1>2 DEF TxBegin, TxBeginOf, Txs
  <2>2. ~TxMinute
    BY <1>2 DEF TxBegin, TxBeginOf, TxMinute, TxMinuteKeeping
  <2> QED
    BY <1>1, <1>2, <2>1, <2>2, TxKeeps DEF Tx, MinuteInv
<1>3. CASE TxMinute
  <2> DEFINE flips == MinuteOf(tm) # state[program].min /\ tx.s = 0
  <2>1. /\ tx'.pc # "time" /\ program' = program
        /\ state'[program].min = IF flips THEN MinuteOf(tm) ELSE state[program].min
    BY <1>1, <1>3 DEF TxMinute, TxMinuteKeeping, Step, Txs, States
  <2>2. /\ hist'.lastMin = (IF tx.s = 0 THEN MinuteOf(tm) ELSE hist.lastMin)
        /\ tx.s # 0 => (hist'.quiet <=> hist.quiet)
    <3>1. hist.quiet \in BOOLEAN /\ hist'.quiet = (hist.quiet \/ tx.s = 0)
          /\ hist'.lastMin = (IF tx.s = 0 THEN MinuteOf(tm) ELSE hist.lastMin)
      BY <1>1, <1>3 DEF TxMinute, TxMinuteKeeping, Hists
    <3> QED
      BY <3>1, Zenon
  <2> QED
    BY <2>1, <2>2 DEF MinuteInv
<1>4. CASE Tx /\ ~TxBegin /\ ~TxMinute
  <2>1. TxCt => tx'.pc # "time"
    BY <1>1 DEF TxCt, Step, Txs
  <2> QED
    BY <1>1, <1>4, <2>1, TxKeeps DEF MinuteInv
<1>5. CASE Udp \/ UdpContinue
  BY <1>5, UdpKeeps DEF MinuteInv
<1>6. CASE ClockTick \/ UNCHANGED vars
  BY <1>6 DEF ClockTick, vars, MinuteInv
<1> QED
  BY <1>2, <1>3, <1>4, <1>5, <1>6 DEF Next

(* The minute_tick hook is called when, and only when, the minute has       *)
(* changed since the last stream 0 group, if no command came between: the   *)
(* minute it is compared with is that of the program on air, written at     *)
(* each change.                                                             *)
THEOREM MinuteHookOnChange == Spec => MinuteTickOnChange
<1> DEFINE OnChange == tx.pc = "time" /\ tx.s = 0 /\ tx'.pc # "time" /\ hist.quiet
                         => (tx'.pc = "ct" <=> MinuteOf(tx.at) # hist.lastMin)
<1>1. TypeInv /\ MinuteInv /\ [Next]_vars => [OnChange]_vars
  <2> SUFFICES ASSUME TypeInv, MinuteInv, Next, tx.pc = "time", tx.s = 0, tx'.pc # "time",
                      hist.quiet
               PROVE  tx'.pc = "ct" <=> MinuteOf(tx.at) # hist.lastMin
    OBVIOUS
  <2>1. tx \in Txs
    BY Typed
  <2>2. TxMinute
    <3>1. ~TxBegin /\ ~TxCt /\ ~TxPreTx /\ ~TxSelect /\ ~TxRds2 /\ ~TxCopy /\ ~TxLua /\ ~TxCoded
          /\ ~TxRound
      BY DEF TxBegin, TxBeginOf, TxCt, TxPreTx, TxSelect, TxRds2, AtSelect, TxCopy, TxLua, TxCoded,
             TxCodedKeeping, TxRound
    <3>2. ~Udp /\ ~UdpContinue /\ ~ClockTick
      BY UdpKeeps DEF ClockTick
    <3> QED
      BY <3>1, <3>2 DEF Next, Tx
  <2>3. tx'.pc = IF MinuteOf(tm) # state[program].min /\ tx.s = 0 THEN "ct" ELSE "pre"
    BY <2>1, <2>2 DEF TxMinute, TxMinuteKeeping, Step, Txs
  <2> QED
    BY <2>3 DEF MinuteInv
<1>2. Init => MinuteInv
  BY Constants DEF Init, FreshState, MinuteInv
<1> QED
  BY <1>1, <1>2, InitType, TypeStep, MinuteStep, PTL DEF Spec, MinuteTickOnChange

-----------------------------------------------------------------------------
(* Identities of custom groups.  A buffer is Filled when its blocks are     *)
(* those of the put that marked it and they are to go out: its mark stands, *)
(* or the transmitter has it in hand.  The identity it holds is then in no  *)
(* other buffer, on no group the transmitter carries, and was never aired.  *)
Tok(p, k) == state[p].buf[k].tok
Filled(p, k) ==
    /\ state[p].buf[k].full \/ <<p, k>> \in hist.hand
    /\ ~(udp.pc = "put" /\ udp.prog = p /\ udp.k = k)
    /\ <<p, k>> \notin hist.spoilt
    /\ Tok(p, k) # HookTok
Carried == tx.pc = "coded" /\ tx.g.body.kind = "custom" /\ ~tx.g.tunnel
Unused(t) == t # 0 /\ t \notin hist.aired /\ (Carried => tx.g.body.tok # t)

(* Identities are given out in order, so those in use are old ones, or the  *)
(* one that all puts of the hook share.                                     *)
Old(t) == t <= commands \/ t = HookTok
OldInv ==
    /\ \A t \in hist.aired : t <= commands
    /\ \A p \in Programs, k \in {1, 2} : Old(Tok(p, k))
    /\ Carried => Old(tx.g.body.tok)
(* The put that has marked its buffer and not yet written its blocks.       *)
PutInv ==
    udp.pc = "put" =>
        /\ udp.tok <= commands /\ Unused(udp.tok)
        /\ \A p \in Programs, k \in {1, 2} : Tok(p, k) # udp.tok
FilledInv ==
    \A p \in Programs, k \in {1, 2} : Filled(p, k) =>
        /\ Unused(Tok(p, k))
        /\ \A q \in Programs, l \in {1, 2} : q # p \/ l # k => Tok(q, l) # Tok(p, k)
(* A buffer in hand has no mark, and its blocks are about to be copied.     *)
HandInv ==
    \A p \in Programs, k \in {1, 2} : <<p, k>> \in hist.hand =>
        ~state[p].buf[k].full /\ tx.pc = "copy" /\ k = Buffer
BlankInv == tx.pc \notin {"next", "coded"} => tx.g.body.kind = "none"

TokenInv == OldInv /\ PutInv /\ FilledInv /\ HandInv /\ BlankInv

LEMMA TokenTypes ==
    ASSUME TypeInv
    PROVE  /\ commands \in Nat /\ HookTok \in Nat /\ commands < HookTok /\ HookTok # 0
           /\ \A p \in Programs, k \in {1, 2} : Tok(p, k) \in Nat
           /\ tx.g.body.tok \in Nat /\ udp.tok \in Nat
           /\ hist.aired \subseteq Nat
           /\ udp.prog \in Programs /\ udp.k \in {1, 2}
<1>1. Tokens \subseteq Nat /\ commands \in Nat /\ HookTok \in Nat /\ commands < HookTok /\ HookTok # 0
  BY Typed, SizesAssumption DEF Tokens, HookTok
<1>2. ASSUME NEW p \in Programs, NEW k \in {1, 2} PROVE Tok(p, k) \in Tokens
  BY DEF TypeInv, TypeOK, States, Buffers, Tok
<1>3. tx.g.body.tok \in Tokens /\ udp.tok \in Tokens /\ hist.aired \subseteq Tokens
  BY DEF TypeInv, TypeOK, Groups, Payloads, Udps
<1>4. udp.prog \in Programs /\ udp.k \in {1, 2}
  BY Typed
<1> QED
  BY <1>1, <1>2, <1>3, <1>4

(* Steps after which no buffer is newly filled, no group newly carried.     *)
LEMMA TokensKept ==
    ASSUME TypeInv, TypeInv', TokenInv, commands <= commands', hist'.aired = hist.aired,
           \A p \in Programs, k \in {1, 2} :
               Tok(p, k)' = Tok(p, k) /\ (Filled(p, k)' => Filled(p, k)),
           Carried' => Carried /\ tx'.g.body.tok = tx.g.body.tok,
           udp'.pc = "put" => udp.pc = "put" /\ udp'.tok = udp.tok,
           HandInv', BlankInv'
    PROVE  TokenInv'
<1>1. \A t : Unused(t) => Unused(t)'
  BY DEF Unused
<1>2. commands \in Nat /\ commands' \in Nat
  BY TokenTypes, SizesAssumption DEF TypeInv, TypeOK
<1>3. \A t \in Nat : Old(t) => Old(t)'
  BY <1>2 DEF Old
<1>4. OldInv'
  <2>1. \A t \in hist'.aired : t <= commands'
    BY <1>2, TokenTypes DEF TokenInv, OldInv
  <2>2. \A p \in Programs, k \in {1, 2} : Old(Tok(p, k))'
    <3> SUFFICES ASSUME NEW p \in Programs, NEW k \in {1, 2} PROVE Old(Tok(p, k))'
      OBVIOUS
    <3>1. PICK t \in Nat : t = Tok(p, k)
      BY TokenTypes
    <3>2. Old(t)'
      BY <1>3, <3>1 DEF TokenInv, OldInv
    <3> QED
      BY <3>1, <3>2 DEF Old
  <2>3. Carried' => Old(tx.g.body.tok)'
    <3> SUFFICES ASSUME Carried' PROVE Old(tx.g.body.tok)'
      OBVIOUS
    <3>1. PICK t \in Nat : t = tx.g.body.tok
      BY TokenTypes
    <3>2. Old(t)' /\ tx'.g.body.tok = t
      BY <1>3, <3>1 DEF TokenInv, OldInv
    <3> QED
      BY <3>2 DEF Old
  <2> QED
    BY <2>1, <2>2, <2>3 DEF OldInv
<1>5. PutInv'
  BY <1>1, <1>2, TokenTypes DEF TokenInv, PutInv, Unused
<1>6. FilledInv'
  <2> SUFFICES ASSUME NEW p \in Programs, NEW k \in {1, 2}, Filled(p, k)'
               PROVE  /\ Unused(Tok(p, k))'
                      /\ \A q \in Programs, l \in {1, 2} :
                            q # p \/ l # k => Tok(q, l)' # Tok(p, k)'
    BY DEF FilledInv
  <2>1. Unused(Tok(p, k))
    BY DEF TokenInv, FilledInv
  <2>2. Unused(Tok(p, k))'
    BY <2>1 DEF Unused
  <2> QED
    BY <2>2 DEF TokenInv, FilledInv
<1> QED
  BY <1>4, <1>5, <1>6 DEF TokenInv

(* A step of the transmitter that leaves the buffers alone and makes no     *)
(* custom group.                                                            *)
LEMMA PlainTokens ==
    ASSUME TypeInv, TypeInv', TokenInv, tx.pc # "copy",
           commands' = commands, udp' = udp,
           hist'.aired = hist.aired, hist'.spoilt = hist.spoilt, hist'.hand = hist.hand,
           \A p \in Programs : state'[p].buf = state[p].buf,
           ~Carried', BlankInv'
    PROVE  TokenInv'
<1>1. \A p \in Programs, k \in {1, 2} : <<p, k>> \notin hist'.hand
  BY DEF TokenInv, HandInv
<1>2. \A p \in Programs, k \in {1, 2} :
         Tok(p, k)' = Tok(p, k) /\ (Filled(p, k)' => Filled(p, k))
  BY DEF Tok, Filled
<1>3. HandInv' /\ commands <= commands'
  BY <1>1, TokenTypes DEF HandInv
<1> QED
  BY <1>2, <1>3, TokensKept

LEMMA PlainSteps ==
    ASSUME TypeInv, TypeInv', TokenInv,
           \/ TxBegin \/ TxMinute \/ TxCt \/ TxLua \/ TxRound
           \/ AtSelect /\ ServeSlot
           \/ AtSelect /\ Step("lua", [tx.g EXCEPT !.a = Zero]) /\ UNCHANGED <<state, hist>>
    PROVE  TokenInv'
<1>1. /\ state \in [Programs -> States] /\ hist \in Hists /\ tx \in Txs /\ tx.g \in Groups
      /\ program \in Programs
  BY Typed
<1>2. \A pc, g : Step(pc, g) => tx'.pc = pc /\ tx'.g = g
  BY <1>1 DEF Step, Txs
<1>3. CASE TxBegin
  <2>1. tx.pc = "next" /\ tx'.pc = "time" /\ tx'.g.body = ZeroPayload
    BY <1>1, <1>3 DEF TxBegin, TxBeginOf, Txs
  <2>2. ~Carried' /\ BlankInv'
    BY <2>1 DEF Carried, BlankInv, ZeroPayload
  <2>3. hist'.aired = hist.aired /\ hist'.spoilt = hist.spoilt /\ hist'.hand = hist.hand
    BY <1>1, <1>3 DEF TxBegin, TxBeginOf, Hists
  <2> QED
    BY <1>3, <2>1, <2>2, <2>3, PlainTokens DEF TxBegin, TxBeginOf
<1>4. CASE TxMinute
  <2>1. tx.pc = "time" /\ tx'.pc \in {"ct", "pre"} /\ tx'.g = tx.g
    BY <1>2, <1>4 DEF TxMinute, TxMinuteKeeping
  <2>2. ~Carried' /\ BlankInv'
    BY <2>1 DEF Carried, TokenInv, BlankInv
  <2>3. hist'.aired = hist.aired /\ hist'.spoilt = hist.spoilt /\ hist'.hand = hist.hand
    BY <1>1, <1>4 DEF TxMinute, TxMinuteKeeping, Hists
  <2>4. state' = [state EXCEPT ![program].min = MinuteOf(tm)] \/ state' = state
    BY <1>4 DEF TxMinute, TxMinuteKeeping
  <2>5. \A p \in Programs : state'[p].buf = state[p].buf
    BY <1>1, <2>4 DEF States
  <2> QED
    BY <1>4, <2>1, <2>2, <2>3, <2>5, PlainTokens DEF TxMinute, TxMinuteKeeping
<1>5. CASE TxCt
  <2> DEFINE g == [tx.g EXCEPT !.body = [ZeroPayload EXCEPT !.kind = "ct"]]
  <2>1. Step("coded", g) \/ Step("pre", tx.g)
    BY <1>5 DEF TxCt
  <2>2. g.body.kind = "ct" /\ tx.pc = "ct"
    BY <1>1, <1>5 DEF TxCt, Groups, ZeroPayload
  <2> HIDE DEF g
  <2>3. ~Carried' /\ BlankInv'
    BY <1>2, <2>1, <2>2 DEF Carried, TokenInv, BlankInv
  <2>4. hist'.aired = hist.aired /\ hist'.spoilt = hist.spoilt /\ hist'.hand = hist.hand
    BY <1>1, <1>5 DEF TxCt, Hists
  <2> QED
    BY <1>5, <2>2, <2>3, <2>4, PlainTokens DEF TxCt
<1>6. CASE TxLua
  <2>1. tx.pc = "lua" /\ tx.g.body.kind = "none"
    BY <1>6 DEF TxLua, TokenInv, BlankInv
  <2>2. ~Carried' /\ BlankInv'
    BY <1>2, <1>6, <2>1, LuaGroups DEF Carried, BlankInv
  <2> QED
    BY <1>6, <2>1, <2>2, PlainTokens DEF TxLua
<1>7. CASE TxRound
  <2>1. tx.pc = "next" /\ tx'.pc = "next"
    BY <1>1, <1>7 DEF TxRound, Txs
  <2>2. ~Carried' /\ BlankInv'
    BY <2>1 DEF Carried, BlankInv
  <2> QED
    BY <1>7, <2>1, <2>2, PlainTokens DEF TxRound
<1>8. CASE AtSelect /\ ServeSlot
  <2>1. tx.pc = "select" /\ tx.g.body.kind = "none"
    BY <1>8 DEF AtSelect, TokenInv, BlankInv
  <2>2. PICK code \in Codes \cup {DefaultCode} :
           Step("lua", SlotLua(code)) \/ Step("coded", SlotCore(code))
    BY <1>8, Served
  <2>3. ~Carried' /\ BlankInv'
    BY <1>2, <2>1, <2>2, SlotGroups DEF Carried, BlankInv
  <2>4. hist' = hist /\ \E n \in 0 .. IndexMod - 1 : state' = [state EXCEPT ![program].idx = n]
    BY <1>8, Served
  <2>5. \A p \in Programs : state'[p].buf = state[p].buf
    BY <1>1, <2>4 DEF States
  <2> QED
    BY <1>8, <2>1, <2>3, <2>4, <2>5, PlainTokens DEF AtSelect
<1>9. CASE AtSelect /\ Step("lua", [tx.g EXCEPT !.a = Zero]) /\ UNCHANGED <<state, hist>>
  <2>1. tx.pc = "select" /\ tx'.pc = "lua" /\ tx'.g.body = tx.g.body
    BY <1>1, <1>2, <1>9 DEF AtSelect, Groups
  <2>2. ~Carried' /\ BlankInv'
    BY <2>1 DEF Carried, TokenInv, BlankInv
  <2> QED
    BY <1>9, <2>1, <2>2, PlainTokens DEF AtSelect
<1> QED
  BY <1>3, <1>4, <1>5, <1>6, <1>7, <1>8, <1>9

(* The hook's put: its buffer was not full, and becomes the hook's.         *)
LEMMA PreTokens == ASSUME TypeInv, TypeInv', TokenInv, TxPreTx PROVE TokenInv'
<1>1. state \in [Programs -> States] /\ hist \in Hists /\ tx \in Txs /\ writing \in Programs
  BY Typed
<1>2. /\ tx.pc = "pre" /\ tx'.pc = "select" /\ tx'.g = tx.g
      /\ UNCHANGED <<udp, commands>>
  BY <1>1 DEF TxPreTx, Step, Txs
<1>3. ~Carried /\ ~Carried' /\ BlankInv'
  BY <1>2 DEF Carried, TokenInv, BlankInv
<1>4. CASE UNCHANGED <<state, hist>>
  BY <1>2, <1>3, <1>4, PlainTokens
<1>5. CASE /\ udp.pc = "idle"
           /\ state' = [state EXCEPT ![writing].buf[1] =
                            [full |-> TRUE, tok |-> HookTok, a |-> Zero]]
           /\ hist' = [hist EXCEPT !.spoilt = @ \ {<<writing, 1>>}]
  <2>1. /\ hist'.aired = hist.aired /\ hist'.hand = hist.hand
        /\ hist'.spoilt = hist.spoilt \ {<<writing, 1>>}
    BY <1>1, <1>5 DEF Hists
  <2>2. ASSUME NEW p \in Programs, NEW k \in {1, 2}
        PROVE  IF p = writing /\ k = 1
               THEN Tok(p, k)' = HookTok
               ELSE Tok(p, k)' = Tok(p, k) /\ state'[p].buf[k].full = state[p].buf[k].full
    BY <1>1, <1>5 DEF States, Tok
  <2>3. ASSUME NEW p \in Programs, NEW k \in {1, 2}, Filled(p, k)'
        PROVE  ~(p = writing /\ k = 1) /\ Tok(p, k)' = Tok(p, k) /\ Filled(p, k)
    <3>1. ~(p = writing /\ k = 1)
      BY <2>2, <2>3 DEF Filled, HookTok
    <3>2. <<p, k>> # <<writing, 1>>
      BY <3>1
    <3> QED
      BY <1>2, <2>1, <2>2, <2>3, <3>1, <3>2 DEF Filled
  <2>4. OldInv'
    BY <1>2, <1>3, <2>1, <2>2, Zenon DEF TokenInv, OldInv, Old, HookTok
  <2>5. PutInv'
    BY <1>2, <1>5 DEF PutInv
  <2>6. FilledInv'
    <3> SUFFICES ASSUME NEW p \in Programs, NEW k \in {1, 2}, Filled(p, k)'
                 PROVE  /\ Unused(Tok(p, k))'
                        /\ \A q \in Programs, l \in {1, 2} :
                              q # p \/ l # k => Tok(q, l)' # Tok(p, k)'
      BY DEF FilledInv
    <3>1. Filled(p, k) /\ Tok(p, k)' = Tok(p, k) /\ Tok(p, k) # HookTok
      BY <2>3 DEF Filled
    <3>2. Unused(Tok(p, k))'
      BY <1>3, <2>1, <3>1 DEF TokenInv, FilledInv, Unused
    <3> QED
      BY <2>2, <3>1, <3>2 DEF TokenInv, FilledInv
  <2>7. HandInv'
    BY <1>2, <2>1 DEF TokenInv, HandInv
  <2> QED
    BY <1>3, <2>4, <2>5, <2>6, <2>7 DEF TokenInv
<1> QED
  BY <1>4, <1>5 DEF TxPreTx

(* The mark is cleared: the buffer is in hand.                              *)
LEMMA TakeTokens ==
    ASSUME TypeInv, TypeInv', TokenInv, AtSelect, TakeCustom(FALSE)
    PROVE  TokenInv'
<1>1. /\ state \in [Programs -> States] /\ hist \in Hists /\ tx \in Txs /\ program \in Programs
      /\ Buffer \in {1, 2} /\ program' = program
  BY Typed DEF AtSelect
<1>2. /\ tx.pc = "select" /\ tx'.pc = "copy" /\ tx'.g = tx.g /\ tx'.s = tx.s
      /\ UNCHANGED <<udp, commands>>
      /\ state[program].buf[Buffer].full
  BY <1>1 DEF AtSelect, TakeCustom, Step, Txs
<1>3. hist'.aired = hist.aired /\ hist'.spoilt = hist.spoilt
      /\ hist'.hand = {<<program, Buffer>>}
  BY <1>1 DEF TakeCustom, Hists
<1>4. Buffer' = Buffer
  BY <1>2 DEF Buffer
<1>5. PICK b \in {1, 2} : b = Buffer
  BY <1>1
<1>6. ASSUME NEW p \in Programs, NEW k \in {1, 2}
      PROVE  /\ Tok(p, k)' = Tok(p, k)
             /\ state'[p].buf[k].full <=> state[p].buf[k].full /\ ~(p = program /\ k = b)
  <2>1. state' = [state EXCEPT ![program].buf[b].full = FALSE]
    BY <1>5 DEF TakeCustom
  <2> QED
    BY <1>1, <2>1 DEF States, Buffers, Tok
<1>7. \A p \in Programs, k \in {1, 2} : Filled(p, k)' => Filled(p, k)
  BY <1>2, <1>3, <1>5, <1>6 DEF Filled
<1>8. ~Carried' /\ BlankInv'
  BY <1>2 DEF Carried, TokenInv, BlankInv
<1>9. HandInv'
  BY <1>2, <1>3, <1>4, <1>5, <1>6 DEF HandInv
<1> QED
  BY <1>2, <1>3, <1>6, <1>7, <1>8, <1>9, TokenTypes, TokensKept

(* The blocks are copied.  If the mark stands over them again, they are     *)
(* spoilt: they would go out a second time.                                 *)
LEMMA CopyTokens == ASSUME TypeInv, TypeInv', TokenInv, TxCopy PROVE TokenInv'
<1>1. /\ state \in [Programs -> States] /\ hist \in Hists /\ tx \in Txs /\ program \in Programs
      /\ Buffer \in {1, 2}
  BY Typed
<1>2. PICK b \in {1, 2} : b = Buffer
  BY <1>1
<1>3. PICK t \in Nat : t = Tok(program, b)
  BY <1>1, TokenTypes
<1>4. /\ tx.pc = "copy" /\ tx'.pc = "coded" /\ tx'.g.body.tok = t
      /\ UNCHANGED <<state, udp, commands>>
  <2>1. Step("coded", CustomGroup) /\ CustomGroup.body.tok = state[program].buf[Buffer].tok
    BY Copied
  <2> QED
    BY <1>1, <1>2, <1>3, <2>1 DEF TxCopy, Step, Txs, Tok
<1>5. /\ hist'.aired = hist.aired /\ hist'.hand = {} /\ hist.spoilt \subseteq hist'.spoilt
      /\ state[program].buf[b].full /\ <<program, b>> \notin hist.hand
            => <<program, b>> \in hist'.spoilt
  BY <1>1, <1>2 DEF TxCopy, Hists
<1>6. ~Carried
  BY <1>4 DEF Carried
<1>7. ASSUME NEW p \in Programs, NEW k \in {1, 2}, Filled(p, k)'
      PROVE  Filled(p, k) /\ ~(p = program /\ k = b) /\ Tok(p, k)' = Tok(p, k)
  <2>1. Tok(p, k)' = Tok(p, k) /\ state[p].buf[k].full /\ <<p, k>> \notin hist'.spoilt
    BY <1>4, <1>5, <1>7 DEF Filled, Tok
  <2>2. <<p, k>> \notin hist.hand
    BY <2>1 DEF TokenInv, HandInv
  <2>3. ~(p = program /\ k = b)
    BY <1>5, <2>1, <2>2
  <2> QED
    BY <1>4, <1>5, <1>7, <2>1, <2>3 DEF Filled
<1>8. \A u : Unused(u) /\ u # t => Unused(u)'
  BY <1>4, <1>5 DEF Unused
<1>9. OldInv'
  <2>1. Old(t)
    BY <1>1, <1>3 DEF TokenInv, OldInv
  <2> QED
    BY <1>4, <1>5, <2>1, Zenon DEF TokenInv, OldInv, Old, Tok, HookTok
<1>10. PutInv'
  <2> SUFFICES ASSUME udp'.pc = "put"
               PROVE  /\ udp'.tok <= commands' /\ Unused(udp.tok)'
                      /\ \A p \in Programs, k \in {1, 2} : Tok(p, k)' # udp'.tok
    BY DEF PutInv
  <2>1. /\ udp.tok <= commands /\ Unused(udp.tok)
        /\ \A p \in Programs, k \in {1, 2} : Tok(p, k) # udp.tok
    BY <1>4 DEF TokenInv, PutInv
  <2>2. udp.tok # t
    BY <1>1, <1>3, <2>1
  <2> QED
    BY <1>4, <1>5, <2>1, <2>2 DEF Tok, Unused
<1>11. FilledInv'
  <2> SUFFICES ASSUME NEW p \in Programs, NEW k \in {1, 2}, Filled(p, k)'
               PROVE  /\ Unused(Tok(p, k))'
                      /\ \A q \in Programs, l \in {1, 2} :
                            q # p \/ l # k => Tok(q, l)' # Tok(p, k)'
    BY DEF FilledInv
  <2>1. Filled(p, k) /\ ~(p = program /\ k = b) /\ Tok(p, k)' = Tok(p, k)
    BY <1>7
  <2>2. Unused(Tok(p, k)) /\ Tok(p, k) # t
    BY <1>1, <1>3, <2>1 DEF TokenInv, FilledInv
  <2>3. Unused(Tok(p, k))'
    BY <1>4, <1>5, <2>1, <2>2 DEF Unused
  <2> QED
    BY <1>4, <2>1, <2>3 DEF TokenInv, FilledInv, Tok
<1>12. HandInv' /\ BlankInv'
  BY <1>4, <1>5 DEF HandInv, BlankInv
<1> QED
  BY <1>9, <1>10, <1>11, <1>12 DEF TokenInv

(* The group goes out: what it carried has been aired.                      *)
LEMMA CodedTokens == ASSUME TypeInv, TypeInv', TokenInv, TxCoded PROVE TokenInv'
<1>1. state \in [Programs -> States] /\ hist \in Hists /\ tx \in Txs
  BY Typed
<1>2. tx.pc = "coded" /\ tx'.pc = "next" /\ UNCHANGED <<udp, commands>>
  BY CodedEffect DEF TxCoded, TxCodedKeeping
<1>3. /\ hist'.spoilt = hist.spoilt /\ hist'.hand = hist.hand
      /\ hist'.aired = IF Carried /\ tx.g.body.tok # HookTok
                       THEN hist.aired \cup {tx.g.body.tok} ELSE hist.aired
  BY <1>1, <1>2, CodedEffect, SentGroup DEF Hists, Carried
<1>4. \A p \in Programs, k \in {1, 2} :
         /\ Tok(p, k)' = Tok(p, k) /\ (Filled(p, k)' <=> Filled(p, k))
         /\ state'[p].buf[k].full = state[p].buf[k].full
  <2>1. \A p \in Programs : state'[p].buf = state[p].buf
    BY <1>1, CodedEffect DEF States
  <2> QED
    BY <1>2, <1>3, <2>1 DEF Tok, Filled
<1>5. ~Carried' /\ BlankInv'
  BY <1>2 DEF Carried, BlankInv
<1>6. ASSUME NEW t, Unused(t) PROVE t # 0 /\ t \notin hist'.aired
  BY <1>3, <1>6 DEF Unused
<1>7. OldInv'
  <2>1. Carried /\ tx.g.body.tok # HookTok => tx.g.body.tok <= commands
    BY DEF TokenInv, OldInv, Old
  <2>2. \A t \in hist'.aired : t <= commands
    BY <1>3, <2>1 DEF TokenInv, OldInv
  <2> QED
    BY <1>2, <1>4, <1>5, <2>2, Zenon DEF TokenInv, OldInv, Old, HookTok
<1>8. PutInv'
  BY <1>2, <1>4, <1>5, <1>6 DEF TokenInv, PutInv, Unused
<1>9. FilledInv'
  BY <1>4, <1>5, <1>6 DEF TokenInv, FilledInv, Unused
<1>10. HandInv'
  BY <1>2, <1>3 DEF TokenInv, HandInv
<1> QED
  BY <1>5, <1>7, <1>8, <1>9, <1>10 DEF TokenInv

LEMMA TxTokens == ASSUME TypeInv, TypeInv', TokenInv, Tx PROVE TokenInv'
<1>1. TxSelect \/ TxRds2 =>
         \/ AtSelect /\ TakeCustom(FALSE)
         \/ AtSelect /\ ServeSlot
         \/ AtSelect /\ Step("lua", [tx.g EXCEPT !.a = Zero]) /\ UNCHANGED <<state, hist>>
  BY DEF TxSelect, TxRds2
<1> QED
  BY <1>1, PlainSteps, PreTokens, TakeTokens, CopyTokens, CodedTokens DEF Tx

(* Of the commands only a put writes to a state before its later steps.     *)
LEMMA OtherCommands ==
    ASSUME TypeInv, Udp, ~PutCustom
    PROVE  /\ state' = state /\ udp'.pc # "put" /\ commands' = commands + 1
           /\ hist'.aired = hist.aired /\ hist'.spoilt = hist.spoilt /\ hist'.hand = hist.hand
<1>1. udp \in Udps /\ hist \in Hists
  BY Typed
<1>2. \A h : CommandWith(h) => udp.pc = "idle" /\ commands' = commands + 1
                              /\ hist' = [h EXCEPT !.quiet = FALSE]
  BY DEF CommandWith
<1>3. CASE SetProgram
  <2>1. [hist EXCEPT !.switches = @ + 1] \in Hists
    BY <1>1 DEF Hists
  <2>2. CommandWith([hist EXCEPT !.switches = @ + 1]) /\ UNCHANGED <<state, udp>>
    BY <1>3 DEF SetProgram
  <2> QED
    BY <1>1, <1>2, <2>1, <2>2 DEF Hists
<1>4. CASE ~SetProgram
  <2>1. Command /\ state' = state
    BY <1>4 DEF Udp, SetPty, SetCt, Enable, SetWritingProgram, SetField, SetStreams, SetGrpSeq,
                Reset, SetDefaults
  <2>2. udp'.pc # "put"
    <3>1. CASE SetPty \/ SetCt \/ Enable \/ SetWritingProgram \/ SetStreams
      BY <1>2, <2>1, <3>1 DEF Command, SetField, SetPty, SetCt, Enable, SetWritingProgram, SetStreams
    <3>2. CASE SetGrpSeq
      <4>1. PICK q \in GrpSeqs : udp' = [udp EXCEPT !.pc = "grpseq", !.prog = writing, !.seq = q]
        BY <3>2 DEF SetGrpSeq
      <4> QED
        BY <1>1, <4>1 DEF Udps
    <3>3. CASE Reset
      BY <1>1, <3>3 DEF Reset, Udps
    <3>4. CASE SetDefaults
      BY <1>1, <3>4 DEF SetDefaults, Udps
    <3> QED
      BY <1>4, <3>1, <3>2, <3>3, <3>4 DEF Udp
  <2> QED
    BY <1>1, <1>2, <2>1, <2>2 DEF Command, Hists
<1> QED
  BY <1>3, <1>4

(* A put sets the mark: its buffer, no longer in hand, is not filled yet.   *)
LEMMA PutTokens == ASSUME TypeInv, TypeInv', TokenInv, PutCustom PROVE TokenInv'
<1>1. /\ state \in [Programs -> States] /\ hist \in Hists /\ udp \in Udps
      /\ writing \in Programs
  BY Typed
<1>2. PICK k \in {1, 2}, a \in {Zero, Rds2} :
         /\ CommandWith([hist EXCEPT !.hand = @ \ {<<writing, k>>}])
         /\ state' = [state EXCEPT ![writing].buf[k].full = TRUE]
         /\ udp' = [udp EXCEPT !.pc = "put", !.prog = writing, !.k = k,
                               !.tok = commands + 1, !.a = a]
  BY DEF PutCustom
<1>3. udp'.pc = "put" /\ udp'.prog = writing /\ udp'.k = k /\ udp'.tok = commands + 1
  BY <1>1, <1>2 DEF Udps
<1>4. /\ udp.pc = "idle" /\ commands' = commands + 1 /\ tx' = tx
      /\ hist'.aired = hist.aired /\ hist'.spoilt = hist.spoilt
      /\ hist'.hand = hist.hand \ {<<writing, k>>}
  BY <1>1, <1>2 DEF CommandWith, Hists
<1>5. ASSUME NEW p \in Programs, NEW l \in {1, 2}
      PROVE  /\ Tok(p, l)' = Tok(p, l)
             /\ state'[p].buf[l].full => state[p].buf[l].full \/ (p = writing /\ l = k)
  BY <1>1, <1>2 DEF States, Buffers, Tok
<1>6. \A p \in Programs, l \in {1, 2} : Filled(p, l)' => Filled(p, l)
  BY <1>3, <1>4, <1>5 DEF Filled
<1>7. (Carried' <=> Carried) /\ BlankInv'
  BY <1>4 DEF Carried, TokenInv, BlankInv
<1>8. \A t : Unused(t)' <=> Unused(t)
  BY <1>4, <1>7 DEF Unused
<1>9. /\ commands \in Nat /\ commands + 1 <= MaxCommands
      /\ \A t \in Nat : Old(t) => t # commands + 1 /\ Old(t)'
  <2>1. commands \in Nat /\ MaxCommands \in Nat /\ commands + 1 <= MaxCommands
    BY <1>2, TokenTypes, SizesAssumption DEF CommandWith
  <2> QED
    BY <1>4, <2>1 DEF Old, HookTok
<1>10. \A p \in Programs, l \in {1, 2} : Old(Tok(p, l))' /\ Tok(p, l) # commands + 1
  <2> TAKE p \in Programs, l \in {1, 2}
  <2>1. PICK t \in Nat : t = Tok(p, l)
    BY TokenTypes
  <2>2. Old(t)' /\ t # commands + 1
    BY <1>9, <2>1 DEF TokenInv, OldInv
  <2> QED
    BY <1>5, <2>1, <2>2 DEF Old
<1>11. Carried' => Old(tx.g.body.tok)' /\ tx.g.body.tok # commands + 1
  <2>1. PICK t \in Nat : t = tx.g.body.tok
    BY TokenTypes
  <2>2. Carried' => Old(t)' /\ t # commands + 1
    BY <1>7, <1>9, <2>1 DEF TokenInv, OldInv
  <2> QED
    BY <1>4, <2>1, <2>2 DEF Old
<1>12. OldInv'
  <2>1. \A t \in hist'.aired : t <= commands'
    BY <1>4, <1>9, TokenTypes DEF TokenInv, OldInv
  <2> QED
    BY <1>10, <1>11, <2>1 DEF OldInv
<1>13. PutInv'
  <2>1. commands + 1 # 0 /\ commands + 1 \notin hist.aired
    BY <1>9, TokenTypes DEF TokenInv, OldInv
  <2>2. udp'.tok <= commands'
    BY <1>3, <1>4, <1>9
  <2> QED
    BY <1>3, <1>4, <1>5, <1>10, <1>11, <2>1, <2>2 DEF PutInv, Unused
<1>14. FilledInv'
  BY <1>5, <1>6, <1>8 DEF TokenInv, FilledInv, Unused
<1>15. HandInv'
  <2>1. Buffer' = Buffer
    BY <1>4 DEF Buffer
  <2> QED
    BY <1>4, <1>5, <2>1 DEF TokenInv, HandInv
<1> QED
  BY <1>7, <1>12, <1>13, <1>14, <1>15 DEF TokenInv

LEMMA CommandTokens == ASSUME TypeInv, TypeInv', TokenInv, Udp PROVE TokenInv'
<1>1. CASE PutCustom
  BY <1>1, PutTokens
<1>2. CASE ~PutCustom
  <2>1. /\ state' = state /\ udp'.pc # "put" /\ commands' = commands + 1 /\ tx' = tx
        /\ hist'.aired = hist.aired /\ hist'.spoilt = hist.spoilt /\ hist'.hand = hist.hand
    BY <1>2, OtherCommands, UdpKeeps
  <2>2. udp.pc # "put"
    BY DEF Udp, Command, CommandWith, SetPty, SetCt, Enable, SetProgram, SetWritingProgram,
           SetStreams, SetGrpSeq, PutCustom, Reset, SetDefaults
  <2>3. \A p \in Programs, k \in {1, 2} :
           Tok(p, k)' = Tok(p, k) /\ (Filled(p, k)' => Filled(p, k))
    BY <2>1, <2>2 DEF Tok, Filled
  <2>4. (Carried' => Carried) /\ BlankInv' /\ HandInv'
    BY <2>1 DEF Carried, TokenInv, BlankInv, HandInv, Buffer
  <2>5. commands <= commands'
    BY <2>1, TokenTypes
  <2> QED
    BY <2>1, <2>3, <2>4, <2>5, TokensKept
<1> QED
  BY <1>1, <1>2

LEMMA FillTokens == ASSUME TypeInv, TypeInv', TokenInv, FillCustom PROVE TokenInv'
<1>1. /\ state \in [Programs -> States] /\ hist \in Hists /\ udp \in Udps
      /\ udp.prog \in Programs /\ udp.k \in {1, 2}
  BY Typed
<1>2. /\ udp.pc = "put" /\ udp'.pc # "put" /\ tx' = tx /\ commands' = commands
      /\ hist'.aired = hist.aired /\ hist'.hand = hist.hand
      /\ hist'.spoilt = hist.spoilt \ {<<udp.prog, udp.k>>}
  BY <1>1 DEF FillCustom, ContinueWith, IdleUdp, Hists
<1>3. ASSUME NEW p \in Programs, NEW l \in {1, 2}
      PROVE  /\ Tok(p, l)' = IF p = udp.prog /\ l = udp.k THEN udp.tok ELSE Tok(p, l)
             /\ state'[p].buf[l].full = state[p].buf[l].full
  <2> DEFINE b == [state[udp.prog].buf[udp.k] EXCEPT !.tok = udp.tok, !.a = udp.a]
  <2>1. state[udp.prog].buf[udp.k] \in Buffers
    BY <1>1 DEF States
  <2>2. b.tok = udp.tok /\ b.full = state[udp.prog].buf[udp.k].full
    BY <2>1 DEF Buffers
  <2>3. state' = [state EXCEPT ![udp.prog].buf[udp.k] = b]
    BY <1>1, <2>1 DEF FillCustom, States, Buffers
  <2> HIDE DEF b
  <2> QED
    BY <1>1, <2>2, <2>3 DEF States, Tok
<1>4. \A p \in Programs, l \in {1, 2} :
         Filled(p, l)' /\ ~(p = udp.prog /\ l = udp.k) => Filled(p, l)
  BY <1>2, <1>3 DEF Filled
<1>5. /\ udp.tok <= commands /\ Unused(udp.tok)
      /\ \A p \in Programs, k \in {1, 2} : Tok(p, k) # udp.tok
  BY <1>2 DEF TokenInv, PutInv
<1>6. (Carried' <=> Carried) /\ BlankInv' /\ HandInv'
  BY <1>2, <1>3 DEF Carried, TokenInv, BlankInv, HandInv, Buffer
<1>7. \A t : t # 0 /\ t \notin hist'.aired /\ (Carried' => tx'.g.body.tok # t) <=> Unused(t)
  BY <1>2, <1>6 DEF Unused
<1>8. OldInv' /\ PutInv'
  BY <1>2, <1>3, <1>5, <1>6 DEF TokenInv, OldInv, PutInv, Old
<1>9. FilledInv'
  <2> SUFFICES ASSUME NEW p \in Programs, NEW k \in {1, 2}, Filled(p, k)'
               PROVE  /\ Unused(Tok(p, k))'
                      /\ \A q \in Programs, l \in {1, 2} :
                            q # p \/ l # k => Tok(q, l)' # Tok(p, k)'
    BY DEF FilledInv
  <2>1. CASE p = udp.prog /\ k = udp.k
    <3>1. Tok(p, k)' = udp.tok
      BY <1>3, <2>1
    <3>2. Unused(Tok(p, k))'
      BY <1>5, <1>7, <3>1 DEF Unused
    <3> QED
      BY <1>3, <1>5, <2>1, <3>1, <3>2
  <2>2. CASE ~(p = udp.prog /\ k = udp.k)
    <3>1. Tok(p, k)' = Tok(p, k) /\ Filled(p, k)
      BY <1>3, <1>4, <2>2
    <3>2. Unused(Tok(p, k))
      BY <3>1 DEF TokenInv, FilledInv
    <3>3. Unused(Tok(p, k))'
      BY <1>7, <3>1, <3>2 DEF Unused
    <3>4. ASSUME NEW q \in Programs, NEW l \in {1, 2}, q # p \/ l # k
          PROVE  Tok(q, l)' # Tok(p, k)'
      BY <1>3, <1>5, <3>1, <3>4 DEF TokenInv, FilledInv
    <3> QED
      BY <3>3, <3>4
  <2> QED
    BY <2>1, <2>2
<1> QED
  BY <1>6, <1>8, <1>9 DEF TokenInv

LEMMA ResetTokens == ASSUME TypeInv, TypeInv', TokenInv, ResetCopy PROVE TokenInv'
<1>1. /\ state \in [Programs -> States] /\ hist \in Hists /\ udp \in Udps
      /\ udp.prog \in Programs
  BY Typed
<1>2. /\ udp.pc = "copy" /\ udp'.pc # "put" /\ tx' = tx /\ commands' = commands
      /\ hist'.aired = hist.aired /\ hist'.spoilt = hist.spoilt
      /\ hist'.hand = hist.hand \ {<<udp.prog, 1>>, <<udp.prog, 2>>}
  BY <1>1 DEF ResetCopy, ContinueWith, IdleUdp, Hists, Udps
<1>3. ASSUME NEW p \in Programs, NEW l \in {1, 2}
      PROVE  IF p = udp.prog
             THEN Tok(p, l)' = 0 /\ ~state'[p].buf[l].full /\ <<p, l>> \notin hist'.hand
             ELSE Tok(p, l)' = Tok(p, l) /\ state'[p].buf[l].full = state[p].buf[l].full
  <2>1. state'[p] = IF p = udp.prog THEN FreshState(MinuteOf(udp.at)) ELSE state[p]
    BY <1>1 DEF ResetCopy
  <2> QED
    BY <1>2, <2>1 DEF FreshState, EmptyBuffer, Tok
<1>4. \A p \in Programs, l \in {1, 2} :
         Filled(p, l)' => p # udp.prog /\ Filled(p, l) /\ Tok(p, l)' = Tok(p, l)
  BY <1>2, <1>3 DEF Filled
<1>5. (Carried' <=> Carried) /\ BlankInv' /\ HandInv'
  BY <1>2, <1>3 DEF Carried, TokenInv, BlankInv, HandInv, Buffer
<1>6. OldInv' /\ PutInv'
  <2>1. 0 <= commands /\ HookTok' = HookTok
    BY TokenTypes DEF HookTok
  <2>2. ASSUME NEW p \in Programs, NEW l \in {1, 2} PROVE Old(Tok(p, l))'
    <3>1. Old(Tok(p, l))
      BY DEF TokenInv, OldInv
    <3>2. Tok(p, l)' = 0 \/ Tok(p, l)' = Tok(p, l)
      BY <1>3
    <3> QED
      BY <1>2, <2>1, <3>1, <3>2 DEF Old
  <2>3. (\A t \in hist'.aired : t <= commands') /\ (Carried' => Old(tx.g.body.tok)')
    BY <1>2, <1>5, <2>1 DEF TokenInv, OldInv, Old
  <2> QED
    BY <1>2, <2>2, <2>3 DEF OldInv, PutInv
<1>7. FilledInv'
  <2> SUFFICES ASSUME NEW p \in Programs, NEW k \in {1, 2}, Filled(p, k)'
               PROVE  /\ Unused(Tok(p, k))'
                      /\ \A q \in Programs, l \in {1, 2} :
                            q # p \/ l # k => Tok(q, l)' # Tok(p, k)'
    BY DEF FilledInv
  <2>1. Tok(p, k)' = Tok(p, k) /\ Filled(p, k)
    BY <1>4
  <2>2. Unused(Tok(p, k)) /\ Tok(p, k) # 0
    BY <2>1 DEF TokenInv, FilledInv, Unused
  <2>3. Unused(Tok(p, k))'
    BY <1>2, <1>5, <2>1, <2>2 DEF Unused
  <2>4. ASSUME NEW q \in Programs, NEW l \in {1, 2}, q # p \/ l # k
        PROVE  Tok(q, l)' # Tok(p, k)'
    <3>1. Tok(q, l)' = 0 \/ Tok(q, l)' = Tok(q, l)
      BY <1>3
    <3>2. Tok(q, l) # Tok(p, k)
      BY <2>1, <2>4 DEF TokenInv, FilledInv
    <3> QED
      BY <2>1, <2>2, <3>1, <3>2
  <2> QED
    BY <2>3, <2>4
<1> QED
  BY <1>5, <1>6, <1>7 DEF TokenInv

LEMMA ContinueTokens == ASSUME TypeInv, TypeInv', TokenInv, UdpContinue PROVE TokenInv'
<1>1. hist \in Hists /\ udp \in Udps /\ udp.prog \in Programs /\ udp.k \in {1, 2}
  BY Typed
<1>2. CASE FillGrpSeq \/ FillCustomFails \/ ResetRead
  <2>1. state' = state /\ udp'.pc # "put" /\ tx' = tx /\ commands' = commands
    <3>1. CASE FillGrpSeq \/ FillCustomFails
      BY <3>1 DEF FillGrpSeq, FillCustomFails, ContinueWith, IdleUdp
    <3>2. CASE ResetRead
      BY <1>1, <3>2 DEF ResetRead, ContinueWith, Udps
    <3> QED
      BY <1>2, <3>1, <3>2
  <2>2. /\ hist.spoilt \subseteq hist'.spoilt /\ hist'.aired = hist.aired
        /\ hist'.hand = hist.hand
        /\ udp.pc = "put" => <<udp.prog, udp.k>> \in hist'.spoilt
    <3>1. CASE FillCustomFails
      BY <1>1, <3>1 DEF FillCustomFails, ContinueWith, Hists
    <3>2. CASE FillGrpSeq \/ ResetRead
      BY <1>1, <3>2 DEF FillGrpSeq, ResetRead, ContinueWith, Hists
    <3> QED
      BY <1>2, <3>1, <3>2
  <2>3. \A p \in Programs, k \in {1, 2} :
           Tok(p, k)' = Tok(p, k) /\ (Filled(p, k)' => Filled(p, k))
    BY <2>1, <2>2 DEF Tok, Filled
  <2>4. (Carried' => Carried) /\ BlankInv' /\ HandInv' /\ commands <= commands'
    BY <2>1, <2>2, TokenTypes DEF Carried, TokenInv, BlankInv, HandInv, Buffer
  <2> QED
    BY <2>1, <2>2, <2>3, <2>4, TokensKept
<1> QED
  BY <1>2, FillTokens, ResetTokens DEF UdpContinue

LEMMA InitTokens == Init => TokenInv
<1> SUFFICES ASSUME Init PROVE TokenInv
  OBVIOUS
<1>1. /\ hist.aired = {} /\ hist.hand = {} /\ commands = 0 /\ tx.pc = "next" /\ udp.pc = "idle"
      /\ \A p \in Programs, k \in {1, 2} : Tok(p, k) = 0 /\ ~state[p].buf[k].full
  BY DEF Init, IdleUdp, FreshState, EmptyBuffer, Tok
<1> QED
  BY <1>1 DEF TokenInv, OldInv, PutInv, FilledInv, HandInv, BlankInv, Carried, Filled, Old

LEMMA TokenStep == TypeInv /\ TokenInv /\ [Next]_vars => TokenInv'
<1> SUFFICES ASSUME TypeInv, TokenInv, [Next]_vars PROVE TokenInv'
  OBVIOUS
<1>1. TypeInv'
  BY TypeStep
<1>2. CASE ClockTick \/ UNCHANGED vars
  <2>1. UNCHANGED <<state, udp, tx, commands, hist>>
    BY <1>2 DEF ClockTick, vars
  <2>2. (Carried' <=> Carried) /\ BlankInv' /\ HandInv' /\ commands <= commands'
    BY <2>1, TokenTypes DEF Carried, TokenInv, BlankInv, HandInv, Buffer
  <2>3. \A p \in Programs, k \in {1, 2} :
           Tok(p, k)' = Tok(p, k) /\ (Filled(p, k)' => Filled(p, k))
    BY <2>1 DEF Tok, Filled
  <2> QED
    BY <1>1, <2>1, <2>2, <2>3, TokensKept
<1> QED
  BY <1>1, <1>2, TxTokens, CommandTokens, ContinueTokens DEF Next

(* A custom group that was put goes out once: whatever runs between the put *)
(* and the group, and between the clearing of its mark and the copy of its  *)
(* blocks, an identity goes out a second time only where CustomOnce names   *)
(* what came between.                                                       *)
THEOREM CustomSentOnce == Spec => CustomOnce
<1> DEFINE Once == tx.pc = "copy" /\ tx'.pc = "coded"
                     => \/ tx'.g.body.tok \notin hist.aired \cup {0}
                        \/ <<program, Buffer>> \notin hist.hand
                        \/ udp.pc = "put" /\ udp.prog = program /\ udp.k = Buffer
                        \/ <<program, Buffer>> \in hist.spoilt
<1>1. TypeInv /\ TokenInv /\ [Next]_vars => [Once]_vars
  <2> SUFFICES ASSUME TypeInv, TokenInv, Next, tx.pc = "copy", tx'.pc = "coded",
                      <<program, Buffer>> \in hist.hand,
                      ~(udp.pc = "put" /\ udp.prog = program /\ udp.k = Buffer),
                      <<program, Buffer>> \notin hist.spoilt
               PROVE  tx'.g.body.tok \notin hist.aired \cup {0}
    OBVIOUS
  <2>1. TxCopy
    <3>1. ~TxBegin /\ ~TxMinute /\ ~TxCt /\ ~TxPreTx /\ ~TxSelect /\ ~TxRds2 /\ ~TxLua /\ ~TxCoded
          /\ ~TxRound
      BY DEF TxBegin, TxBeginOf, TxMinute, TxMinuteKeeping, TxCt, TxPreTx, TxSelect, TxRds2, AtSelect,
             TxLua, TxCoded, TxCodedKeeping, TxRound
    <3>2. ~Udp /\ ~UdpContinue /\ ~ClockTick
      BY UdpKeeps DEF ClockTick
    <3> QED
      BY <3>1, <3>2 DEF Next, Tx
  <2>2. PICK k \in {1, 2} : k = Buffer
    BY Typed
  <2>3. program \in Programs /\ tx'.g.body.tok = Tok(program, k)
    BY <2>1, <2>2, Typed, Copied DEF Step, Txs, Tok
  <2>4. CASE Tok(program, k) = HookTok
    <3>1. HookTok \notin hist.aired /\ HookTok # 0
      BY TokenTypes DEF TokenInv, OldInv
    <3> QED
      BY <2>3, <2>4, <3>1
  <2>5. CASE Tok(program, k) # HookTok
    <3>1. Filled(program, k)
      BY <2>2, <2>5 DEF Filled
    <3>2. Unused(Tok(program, k))
      BY <2>3, <3>1 DEF TokenInv, FilledInv
    <3> QED
      BY <2>3, <3>2 DEF Unused
  <2> QED
    BY <2>4, <2>5
<1> QED
  BY <1>1, InitType, TypeStep, InitTokens, TokenStep, PTL DEF Spec, CustomOnce
=============================================================================

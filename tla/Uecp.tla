-------------------------------- MODULE Uecp --------------------------------
(***************************************************************************)
(* The UECP decoder (src/modules/uecp.lua): frames of elements that write  *)
(* to the data sets they name by moving the writing program of the Lua API *)
(* (src/lua_api.c) there, and two buffers it serves from the transmitter's *)
(* hooks: radiotexts (rt_transmission) and free-format groups (pre_tx).    *)
(* A frame holds the Lua mutex from its first element to its last, so that *)
(* no hook runs within it; the transmitter's own code does.                *)
(* What a command writes is known by its number; number 0 is there at the  *)
(* start.  Address, length and checksum of a frame are taken to be good.   *)
(***************************************************************************)
EXTENDS Integers, SequencesExt

CONSTANTS
    PROGRAMS,       \* number of programs (3 in the code)
    Dsns,           \* the data set numbers frames use (0 to 255)
    Repeats,        \* the numbers of transmissions of a text (0 to 15)
    StreamCounts,   \* the values of enc->streams
    MaxCommands     \* bound: elements of frames and other commands together

ASSUME ConstantsAssumption ==
    /\ PROGRAMS \in Nat \ {0} /\ Dsns \subseteq 0 .. 255 /\ Repeats \subseteq 0 .. 15
    /\ StreamCounts \subseteq Nat \ {0} /\ MaxCommands \in Nat

VARIABLES
    output,     \* enc->program, the program on air
    writing,    \* writing_program
    val,        \* what the settings of a program but for RT (and TA, which a change of
                \* program clears) were last written by
    rt,         \* what RT of a program was last written by
    rtOn,       \* rt_enabled of each program
    rtBuf,      \* rt_buffer, its index and rt_tx_remaining
    free,       \* freedata_buffer and its index
    custom,     \* of each program, the custom group waiting for stream 0, or 0
    frame,      \* TRUE within a frame
    tx,         \* transmitter: step and stream
    streams,
    air,        \* the last group of stream 0: a custom group, or 0 for one of the sequence
    named,      \* history: the programs the last command meant
    diverted,   \* history: an error or a command left writing_program off the air
    commands

vars == <<output, writing, val, rt, rtOn, rtBuf, free, custom, frame, tx, streams, air,
          named, diverted, commands>>

Programs == 0 .. PROGRAMS - 1
Numbers == 0 .. MaxCommands
Clamp(p) == IF p < 0 THEN 0 ELSE IF p >= PROGRAMS THEN PROGRAMS - 1 ELSE p

(* dsn_helper: the programs written to, the first of them, and those meant, *)
(* the current data set being the program on air.                           *)
Reached(dsn, current) ==
    CASE dsn = 0   -> {current}
      [] dsn = 254 -> Programs \ {current}
      [] dsn = 255 -> Programs
      [] OTHER     -> {Clamp(dsn - 1)}
First(dsn) ==
    IF Reached(dsn, writing) = {} THEN writing
    ELSE CHOOSE p \in Reached(dsn, writing) : \A q \in Reached(dsn, writing) : p <= q

EmptyTexts == [seq |-> <<>>, idx |-> 1, left |-> 0]
EmptyFree == [seq |-> <<>>, idx |-> 1]
Entry(v, n) == [text |-> v, tx |-> n]

Init ==
    /\ output \in Programs /\ writing = 0
    /\ val = [p \in Programs |-> 0] /\ rt = val /\ custom = val
    /\ rtOn = [p \in Programs |-> TRUE]
    /\ rtBuf = EmptyTexts /\ free = EmptyFree
    /\ frame = FALSE /\ tx = [pc |-> "pre", s |-> 0] /\ streams \in StreamCounts
    /\ air = 0 /\ named = {} /\ diverted = (output # 0) /\ commands = 0

-----------------------------------------------------------------------------
(* Frames *)

Number == commands + 1
Command ==
    /\ commands < MaxCommands /\ commands' = Number
    /\ UNCHANGED <<tx, streams, air>>

(* The loop of parse_uecp sets the writing program to the one on air after  *)
(* each element that raises no error.                                       *)
DoneStays(on) == \* Mutant of Done: the writing program stays where it was moved
    diverted' = FALSE /\ \E dsn \in Dsns : writing' \in Reached(dsn, writing)
Done(on) == diverted' = FALSE /\ writing' = on
Element(on) == Command /\ frame' = TRUE /\ output' = on /\ Done(on)

(* PI, PS, LPS, PTYI, TP/TA, PTY, PTYN, ECC, group sequence; CT has 255.    *)
Set(dsn) ==
    /\ Element(output)
    /\ val' = [p \in Programs |-> IF p \in Reached(dsn, writing) THEN Number ELSE val[p]]
    /\ named' = Reached(dsn, output)
    /\ UNCHANGED <<rt, rtOn, rtBuf, free, custom>>

(* An element too short for its fields raises an error when it is written   *)
(* to the first of its programs; the rest of the frame is not looked at.    *)
SetFails(dsn) ==
    /\ Command
    /\ frame' = FALSE /\ writing' = First(dsn) /\ diverted' = (writing' # output)
    /\ UNCHANGED <<output, val, rt, rtOn, rtBuf, free, custom, named>>

(* RT: buffer configuration 0 replaces the buffer, sets the text at once and*)
(* enables RT, 2 adds to the buffer whatever the data set; an empty element *)
(* clears the buffer and disables RT, and an addition does not enable it.   *)
SetText(dsn, n) ==
    /\ Element(output)
    /\ rtBuf' = [seq |-> <<Entry(Number, n)>>, idx |-> 1, left |-> n]
    /\ rt' = [p \in Programs |-> IF p \in Reached(dsn, writing) THEN Number ELSE rt[p]]
    /\ rtOn' = [p \in Programs |-> rtOn[p] \/ p \in Reached(dsn, writing)]
    /\ named' = Reached(dsn, output)
    /\ UNCHANGED <<val, free, custom>>
AddText(n) ==
    /\ Element(output)
    /\ rtBuf' = [rtBuf EXCEPT !.seq = Append(@, Entry(Number, n))]
    /\ named' = {}
    /\ UNCHANGED <<val, rt, rtOn, free, custom>>
ClearText(dsn) ==
    /\ Element(output) /\ rtBuf' = EmptyTexts
    /\ rtOn' = [p \in Programs |-> rtOn[p] /\ p \notin Reached(dsn, writing)]
    /\ named' = Reached(dsn, output)
    /\ UNCHANGED <<val, rt, free, custom>>

(* Free-format groups: buffer 0 is put, 2 added, 3 clears.  A put into a    *)
(* full buffer raises an error.                                             *)
PutFree ==
    /\ custom[writing] = 0
    /\ Element(output)
    /\ custom' = [custom EXCEPT ![writing] = Number]
    /\ named' = {output}
    /\ UNCHANGED <<val, rt, rtOn, rtBuf, free>>
PutFreeFails ==
    /\ custom[writing] # 0
    /\ Command /\ frame' = FALSE
    /\ UNCHANGED <<output, writing, val, rt, rtOn, rtBuf, free, custom, named, diverted>>
AddFree ==
    /\ Element(output)
    /\ free' = [free EXCEPT !.seq = Append(@, Number)]
    /\ named' = {}
    /\ UNCHANGED <<val, rt, rtOn, rtBuf, custom>>
ClearFree ==
    /\ Element(output) /\ free' = EmptyFree
    /\ named' = {}
    /\ UNCHANGED <<val, rt, rtOn, rtBuf, custom>>

(* DS select takes the number itself, where dsn_helper takes it less one.   *)
SelectDataSet(dsn) ==
    /\ Element(Clamp(dsn))
    /\ named' = {}
    /\ UNCHANGED <<val, rt, rtOn, rtBuf, free, custom>>

FrameEnd == \* the last element, or one whose code is unknown
    /\ frame /\ frame' = FALSE
    /\ UNCHANGED <<output, writing, val, rt, rtOn, rtBuf, free, custom, tx, streams, air,
                   named, diverted, commands>>

-----------------------------------------------------------------------------
(* ASCII commands (scripts/main.lua), between frames or in an element for   *)
(* the manufacturer (0x2D).  Such a command leaves on on air; it leaves to  *)
(* as the writing program, which the end of an element moves again.         *)
Ascii(on, to) ==
    \/ Element(on)
    \/ /\ ~frame /\ Command
       /\ output' = on /\ writing' = to /\ diverted' = (to # on)
       /\ UNCHANGED frame

SetWriting(p) ==    \* a piece of Lua that calls set_writing_program
    /\ Ascii(output, p) /\ named' = {}
    /\ UNCHANGED <<val, rt, rtOn, rtBuf, free, custom>>
SetProgram(p) ==
    /\ Ascii(p, p) /\ named' = {}
    /\ UNCHANGED <<val, rt, rtOn, rtBuf, free, custom>>
AsciiSet ==     \* PI, PS, PTY and so on
    /\ Ascii(output, writing) /\ named' = {output}
    /\ val' = [val EXCEPT ![writing] = Number]
    /\ UNCHANGED <<rt, rtOn, rtBuf, free, custom>>
AsciiText ==    \* RT1 makes its text the only entry
    /\ Ascii(output, writing) /\ named' = {output}
    /\ rtBuf' = [seq |-> <<Entry(Number, 0)>>, idx |-> 1, left |-> 0]
    /\ rt' = [rt EXCEPT ![writing] = Number] /\ rtOn' = [rtOn EXCEPT ![writing] = TRUE]
    /\ UNCHANGED <<val, free, custom>>
EnableText(b) ==    \* RT1EN
    /\ Ascii(output, writing) /\ named' = {output}
    /\ rtOn' = [rtOn EXCEPT ![writing] = b]
    /\ UNCHANGED <<val, rt, rtBuf, free, custom>>
AsciiGroup ==       \* G; an error in it, when a group is waiting, stays in it
    /\ custom[writing] = 0
    /\ Ascii(output, writing) /\ named' = {output}
    /\ custom' = [custom EXCEPT ![writing] = Number]
    /\ UNCHANGED <<val, rt, rtOn, rtBuf, free>>

-----------------------------------------------------------------------------
(* The transmitter; a hook is skipped while a frame holds the mutex.        *)

TxSame == UNCHANGED <<output, writing, val, rtOn, frame, streams, diverted, commands>>

(* Mutant of AfterFree below: back to the start one entry too early.        *)
AfterFreeEarly == IF free.idx + 1 >= Len(free.seq) THEN 1 ELSE free.idx + 1
AfterFree == IF free.idx + 1 > Len(free.seq) THEN 1 ELSE free.idx + 1

(* The pre_tx hook, on every stream: the index moves on before the put,     *)
(* which raises an error when a group is waiting.                           *)
PreTx ==
    /\ tx.pc = "pre" /\ tx' = [tx EXCEPT !.pc = "select"]
    /\ IF frame \/ free.seq = <<>> THEN UNCHANGED <<free, custom>>
       ELSE /\ free' = [free EXCEPT !.idx = AfterFree]
            /\ custom' = IF custom[writing] # 0 THEN custom
                         ELSE [custom EXCEPT ![writing] = free.seq[free.idx]]
    /\ UNCHANGED <<rt, rtBuf, air, named>> /\ TxSame

NextStream == tx' = [pc |-> "pre", s |-> (tx.s + 1) % streams]
Custom ==
    /\ tx.pc = "select" /\ tx.s = 0 /\ custom[output] # 0 /\ NextStream
    /\ air' = custom[output] /\ custom' = [custom EXCEPT ![output] = 0]
    /\ UNCHANGED <<rt, rtBuf, free, named>> /\ TxSame
Rds2 == tx.pc = "select" /\ tx.s # 0 /\ NextStream
        /\ UNCHANGED <<rt, rtBuf, free, custom, air, named>> /\ TxSame
Sequence ==
    /\ tx.pc = "select" /\ tx.s = 0 /\ custom[output] = 0 /\ NextStream /\ air' = 0
    /\ UNCHANGED <<free, custom>> /\ TxSame
SequenceGroup == Sequence /\ UNCHANGED <<rt, rtBuf, named>>
TextEnds == \* the last RT group of a text, if RT is coded: the rt_transmission hook
    /\ Sequence /\ rtOn[output]
    /\ IF frame \/ Len(rtBuf.seq) < 2 THEN UNCHANGED <<rt, rtBuf, named>>
       ELSE IF rtBuf.left > 1
       THEN rtBuf' = [rtBuf EXCEPT !.left = @ - 1] /\ UNCHANGED <<rt, named>>
       ELSE LET i == (rtBuf.idx % Len(rtBuf.seq)) + 1
            IN /\ rtBuf' = [rtBuf EXCEPT !.idx = i, !.left = rtBuf.seq[i].tx]
               /\ rt' = [rt EXCEPT ![writing] = rtBuf.seq[i].text]
               /\ named' = {output}

Tx == PreTx \/ Custom \/ Rds2 \/ SequenceGroup \/ TextEnds
Next ==
    \/ \E dsn \in Dsns : Set(dsn) \/ SetFails(dsn) \/ SelectDataSet(dsn) \/ ClearText(dsn)
    \/ \E dsn \in Dsns, n \in Repeats : SetText(dsn, n)
    \/ \E n \in Repeats : AddText(n)
    \/ PutFree \/ PutFreeFails \/ AddFree \/ ClearFree \/ FrameEnd
    \/ \E p \in Programs : SetWriting(p) \/ SetProgram(p)
    \/ \E b \in BOOLEAN : EnableText(b)
    \/ AsciiSet \/ AsciiText \/ AsciiGroup \/ Tx

(* main loops for ever, a frame has an end, and a text comes to its last    *)
(* segment again and again as long as the group sequence is served, has RT  *)
(* groups and RT is enabled.                                                *)
Spec == Init /\ [][Next]_vars /\ WF_vars(Tx) /\ WF_vars(FrameEnd) /\ SF_vars(TextEnds)

-----------------------------------------------------------------------------
(* Properties *)

TypeOK ==
    /\ output \in Programs /\ writing \in Programs
    /\ val \in [Programs -> Numbers] /\ rt \in [Programs -> Numbers]
    /\ rtOn \in [Programs -> BOOLEAN]
    /\ custom \in [Programs -> Numbers]
    /\ rtBuf \in [seq : Seq([text : Numbers, tx : 0 .. 15]), idx : Nat, left : 0 .. 15]
    /\ free \in [seq : Seq(Numbers), idx : Nat]
    /\ rtBuf.idx \in 1 .. Len(rtBuf.seq) + 1
    /\ free.idx = 1 \/ free.idx \in 1 .. Len(free.seq)
    /\ streams \in StreamCounts /\ tx \in [pc : {"pre", "select"}, s : 0 .. streams - 1]
    /\ air \in Numbers /\ named \subseteq Programs /\ commands \in Numbers
    /\ frame \in BOOLEAN /\ diverted \in BOOLEAN

(* Every element of a frame, every text command and every text the hook     *)
(* sets is written to the data sets it means, the current one being the one *)
(* on air, whatever frames and errors came before: unless an error or a     *)
(* command has left the writing program elsewhere and no element ended well *)
(* since.                                                                   *)
NamedOnly ==
    [][\A p \in Programs :
          val'[p] # val[p] \/ rt'[p] # rt[p] \/ rtOn'[p] # rtOn[p]
              => p \in named' \/ diverted]_vars

Divides(d, n) == \E k \in 1 .. n : k * d = n
Coprime(m, n) == \A d \in 2 .. m : ~(Divides(d, m) /\ Divides(d, n))

(* Every free-format group in the buffer goes out again and again, as long  *)
(* as the number of streams, on each of which the hook moves on, has no     *)
(* common divisor with that of the groups.                                  *)
FreeRecurs ==
    \A v \in Numbers :
        <>[](v \in ToSet(free.seq) /\ writing = output /\ Coprime(streams, Len(free.seq)))
            => []<>(air = v)
(* Every text of the buffer is set again and again on the program on air,   *)
(* when RT is enabled there and no free-format group takes all of stream 0. *)
(* That texts were added does not enable it: after an empty element they    *)
(* wait for a text of configuration 0 or a command that does.               *)
TextsRecur ==
    \A v \in Numbers :
        <>[](/\ v \in {e.text : e \in ToSet(rtBuf.seq)} /\ Len(rtBuf.seq) > 1
             /\ writing = output /\ rtOn[output] /\ free.seq = <<>>)
            => []<>(rt[output] = v)
BuffersRotate == FreeRecurs /\ TextsRecur
=============================================================================

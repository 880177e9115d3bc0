-------------------------------- MODULE Rds2 --------------------------------
(***************************************************************************)
(* RDS2 applications (src/modules/rds2_oda.lua): a registry whose freed    *)
(* slots are false, one pointer that announcements and data share, and a   *)
(* counter that makes room for announcements; and the file transfers that  *)
(* use it (src/modules/rft.lua).  Everything runs under the Lua mutex, so  *)
(* a call of the hook or of the API is one step.  Channels, file contents  *)
(* and check sums are left out.                                            *)
(***************************************************************************)
EXTENDS Integers, Sequences

CONSTANTS
    Files,          \* the RftInstances
    Plain,          \* applications of a script that have data 0 and no handler
    Orders,         \* what sendFile is asked for: application, id, segments, CRC, once
    AtStart,        \* the files a start-up script sends, one after the other
    StartOrder,     \* and what it is asked for with each
    CRCEVERY,       \* segments between two CRC groups (16 in the code)
    MODESEGS,       \* a longer file has chunks twice as long (8192 segments in the code)
    AIDCOUNT,       \* largest value of the announcement counter (8 in the code)
    StreamCounts,   \* the numbers of RDS2 streams (1 to 3)
    MaxCommands     \* bound: calls of the API

(* No CRC, one of the whole file, one of each chunk, with chunks as long as *)
(* the file's length asks for.                                              *)
Sums == {"off", "whole", "chunks", "auto"}
ASSUME ConstantsAssumption ==
    /\ Files \cap Plain = {} /\ CRCEVERY \in Nat \ {0} /\ MODESEGS \in Nat
    /\ AIDCOUNT \in Nat \ {0}
    /\ AtStart \subseteq Seq(Files)
    /\ \A q \in AtStart : \A i, j \in 1 .. Len(q) : q[i] = q[j] => i = j
    /\ Orders \cup {StartOrder} \subseteq
          [aid : Nat \ {0}, id : 0 .. 63, segs : Nat, crc : Sums, once : BOOLEAN]
    /\ StreamCounts \subseteq Nat \ {0} /\ MaxCommands \in Nat

VARIABLES
    odas,       \* _RDS2_ODAs: who has each slot, and its data field
    pointer,    \* _RDS2_ODA_pointer
    counter,    \* _RDS2_ODA_aid
    file,       \* the fields of each RftInstance
    got,        \* history: of each file sent once, the segments sent since it was loaded
    replaced,   \* history: the files that took the place of one under way
    streams, stream,
    air,        \* the group of the last call: its kind, of which applications, its number
    commands

vars == <<odas, pointer, counter, file, got, replaced, streams, stream, air, commands>>

Nobody == "nobody"      \* false
Slot(app, data) == [app |-> app, data |-> data]
FreeSlot == Slot(Nobody, "zero")
NewFile ==
    [slot |-> 0, aid |-> 0, id |-> -1, version |-> 0, segs |-> 0, seg |-> 0, crc |-> "off",
     chunk |-> 0, crcSent |-> FALSE, once |-> FALSE, paused |-> FALSE]
Nothing == [kind |-> "none", apps |-> {}, n |-> 0]

Chunk(r) ==     \* segments that share a CRC: 16, 32 or 64
    CRCEVERY * (CASE r.crc # "auto" \/ r.segs <= MODESEGS -> 1
                  [] r.segs \in MODESEGS + 1 .. 2 * MODESEGS -> 2
                  [] OTHER -> 4)
Chunks(r) ==
    IF r.crc \in {"chunks", "auto"} THEN (r.segs + Chunk(r) - 1) \div Chunk(r) ELSE 0
DataField(r) ==
    IF r.id # 0 \/ r.version # 0 \/ r.crc # "off" THEN "large"
    ELSE IF r.segs = 0 THEN "zero" ELSE "small"

(* A new instance that was sent o and got slot i. *)
Started(o, i) ==
    [NewFile EXCEPT !.slot = i, !.aid = o.aid, !.id = o.id, !.segs = o.segs, !.crc = o.crc,
                    !.once = o.once]
InitWith(q) ==
    /\ odas = [i \in 1 .. Len(q) |-> Slot(q[i], DataField(Started(StartOrder, i)))]
    /\ file = [f \in Files |-> IF \E i \in 1 .. Len(q) : q[i] = f
                               THEN Started(StartOrder, CHOOSE i \in 1 .. Len(q) : q[i] = f)
                               ELSE NewFile]
Init ==
    /\ \E q \in AtStart : InitWith(q)
    /\ pointer = 1 /\ counter = 0
    /\ got = [f \in Files |-> {}] /\ replaced = {}
    /\ streams \in StreamCounts /\ stream = 1 /\ air = Nothing /\ commands = 0

-----------------------------------------------------------------------------
(* The registry *)

Used(i) == i \in 1 .. Len(odas) /\ odas[i].app # Nobody

(* The first freed slot, or a new one at the end. *)
Room(slots) ==
    CHOOSE i \in 1 .. Len(slots) + 1 :
        /\ i <= Len(slots) => slots[i].app = Nobody
        /\ \A j \in 1 .. i - 1 : slots[j].app # Nobody
With(slots, i, s) == IF i > Len(slots) THEN Append(slots, s) ELSE [slots EXCEPT ![i] = s]
Past(p, i) == IF p = i THEN p + 1 ELSE p     \* unregister moves the pointer off its slot

(* RftInstance:stop frees the slot it remembers, whoever has it by now; it  *)
(* raises an error, and changes nothing, when nobody has.                   *)
Holds(f) == file[f].slot # 0 /\ file[f].aid # 0
CanStop(f) == Holds(f) => Used(file[f].slot)
StoppedKeepsSeg(r) == \* Mutant of Stopped: the next file begins where this one was left
    [r EXCEPT !.slot = IF r.aid # 0 THEN 0 ELSE @, !.segs = 0, !.chunk = 0, !.paused = FALSE]
Stopped(r) ==
    [r EXCEPT !.slot = IF r.aid # 0 THEN 0 ELSE @, !.segs = 0, !.seg = 0, !.chunk = 0,
              !.paused = FALSE]
Freed(f) == IF Holds(f) THEN [odas EXCEPT ![file[f].slot] = FreeSlot] ELSE odas

-----------------------------------------------------------------------------
(* Calls of the API *)

Command ==
    /\ commands < MaxCommands /\ commands' = commands + 1
    /\ UNCHANGED <<streams, stream, air>>

(* sendFile: another application stops the file under way, the same one     *)
(* replaces it, wherever it is.  Cleared and Loaded are the instance after  *)
(* that and after the reading of the file.                                  *)
Same(f, o) == file[f].aid = o.aid
Cleared(f, o) == IF Same(f, o) THEN file[f] ELSE [Stopped(file[f]) EXCEPT !.aid = o.aid]
Slots(f, o) == IF Same(f, o) THEN odas ELSE Freed(f)
Loaded(f, o) ==
    LET r == Cleared(f, o)
    IN [r EXCEPT !.segs = o.segs, !.once = o.once, !.crc = o.crc,
                 !.version = IF o.id = r.id THEN (@ + 1) % 8 ELSE @]
Send(f, o) ==
    /\ Command /\ UNCHANGED counter
    /\ Same(f, o) \/ CanStop(f)
    /\ pointer' = IF Same(f, o) \/ ~Holds(f) THEN pointer ELSE Past(pointer, file[f].slot)
Load(f, o) ==
    /\ got' = [got EXCEPT ![f] = {}]
    /\ replaced' = IF ~Same(f, o) THEN replaced \ {f}
                   ELSE IF file[f].segs # 0 THEN replaced \cup {f} ELSE replaced

SendNoFile(f, o) == \* an error: the file cannot be opened
    /\ Send(f, o)
    /\ file' = [file EXCEPT ![f] = Cleared(f, o)] /\ odas' = Slots(f, o)
    /\ got' = got /\ replaced' = IF Same(f, o) THEN replaced ELSE replaced \ {f}
SendFails(f, o) ==  \* an error: too large, or the slot remembered is nobody's
    /\ Send(f, o) /\ Load(f, o)
    /\ file' = [file EXCEPT ![f] = Loaded(f, o)] /\ odas' = Slots(f, o)
SendFile(f, o) ==
    LET r == Loaded(f, o)
        slots == Slots(f, o)
        i == IF r.slot = 0 THEN Room(slots) ELSE r.slot
        done == [r EXCEPT !.slot = i, !.id = o.id, !.paused = FALSE]
        who == IF r.slot = 0 THEN f ELSE slots[i].app
    IN /\ r.slot # 0 => Used(r.slot)
       /\ Send(f, o) /\ Load(f, o)
       /\ file' = [file EXCEPT ![f] = done]
       /\ odas' = With(slots, i, Slot(who, DataField(done)))

Stop(f) ==
    /\ Command /\ CanStop(f)
    /\ file' = [file EXCEPT ![f] = Stopped(@)] /\ odas' = Freed(f)
    /\ pointer' = IF Holds(f) THEN Past(pointer, file[f].slot) ELSE pointer
    /\ replaced' = replaced \ {f} /\ UNCHANGED <<counter, got>>
Pause(f) ==
    /\ Command /\ file' = [file EXCEPT ![f].paused = TRUE]
    /\ UNCHANGED <<odas, pointer, counter, got, replaced>>

Register(p) ==
    /\ Command /\ p \notin {odas[i].app : i \in 1 .. Len(odas)}
    /\ odas' = With(odas, Room(odas), Slot(p, "zero"))
    /\ UNCHANGED <<pointer, counter, file, got, replaced>>
Unregister(p) ==
    \E i \in 1 .. Len(odas) :
        /\ Command /\ odas[i].app = p
        /\ odas' = [odas EXCEPT ![i] = FreeSlot] /\ pointer' = Past(pointer, i)
        /\ UNCHANGED <<counter, file, got, replaced>>
OnState ==      \* the registry is emptied, the files keep the slots they remember
    /\ Command /\ odas' = <<>> /\ pointer' = 1 /\ counter' = 0
    /\ UNCHANGED <<file, got, replaced>>

-----------------------------------------------------------------------------
(* The hook rds2_group, called for one RDS2 stream after the other          *)

Answer(kind, apps, n) == air' = [kind |-> kind, apps |-> apps, n |-> n]
NoFileChange == UNCHANGED <<file, got, replaced, odas>>

(* The first slot in use from the pointer on. *)
Wrap(p) == IF p > Len(odas) THEN 1 ELSE p
Round(p, k) == ((p - 1 + k) % Len(odas)) + 1
SomeUsed == \E i \in 1 .. Len(odas) : Used(i)
Current ==
    LET p == Wrap(pointer)
        k == CHOOSE k \in 0 .. Len(odas) - 1 :
                Used(Round(p, k)) /\ \A j \in 0 .. k - 1 : ~Used(Round(p, j))
    IN Round(p, k)
Idle == \* nobody has a slot; the pointer goes once round
    /\ pointer' = IF odas = <<>> THEN pointer ELSE Wrap(pointer)
    /\ Answer("none", {}, 0) /\ UNCHANGED counter /\ NoFileChange

(* An announcement from slot c on, of one application or of as many as      *)
(* their data leave room for.  It fails when it looks into a freed slot.    *)
Announce(c, k, shown) ==
    /\ pointer' = c + k
    /\ IF shown = 0 THEN Answer("none", {}, 0)
       ELSE Answer("aid", {odas[i].app : i \in c .. c + shown - 1}, 0)
Aid(c) ==
    LET data(i) == odas[i].data
    IN /\ counter' = 1 /\ NoFileChange
       /\ IF c = Len(odas) THEN Announce(c, 1, 1)
          ELSE IF ~Used(c + 1) THEN Announce(c, 1, IF data(c) = "zero" THEN 0 ELSE 1)
          ELSE IF {data(c), data(c + 1)} = {"zero", "small"} THEN Announce(c, 2, 2)
          ELSE IF data(c) # "zero" \/ data(c + 1) # "zero" THEN Announce(c, 1, 1)
          ELSE IF c + 1 = Len(odas) THEN Announce(c, 2, 1)
          ELSE Announce(c, 3, IF Used(c + 2) THEN 3 ELSE 0)

(* Handlers are asked from slot c on; one that has nothing sends the        *)
(* pointer two slots on at first, since it has moved before.                *)
Visit(c, k) == IF k = 0 THEN c ELSE Round(Wrap(c + 2), k - 1)
After(c, k) == IF k = 0 THEN c + 1 ELSE Visit(c, k)
IsIdle(f) == file[f].segs = 0 \/ file[f].paused
Asks(c, k) == LET app == odas[Visit(c, k)].app IN app \in Files /\ IsIdle(app)
Asked(c) ==     \* how many have nothing
    CHOOSE k \in 0 .. Len(odas) :
        (k < Len(odas) => ~Asks(c, k)) /\ \A j \in 0 .. k - 1 : Asks(c, j)

NoneHasData(c) ==
    pointer' = Visit(c, Len(odas)) /\ Answer("none", {}, 0) /\ NoFileChange
(* The slot is freed, or its application has no handler: an error, or,      *)
(* after an error within pcall, the announcement of the slot after it.      *)
NoHandler(c, k) ==
    LET app == odas[Visit(c, k)].app
        next == odas[Visit(c, k + 1)].app
    IN /\ NoFileChange
       /\ IF k = 0 THEN pointer' = c + 1 /\ Answer("aid", {app}, 0)
          ELSE IF app = Nobody THEN pointer' = Visit(c, k) /\ Answer("none", {}, 0)
          ELSE /\ pointer' = Visit(c, k + 1)
               /\ IF k + 1 = Len(odas) \/ next = Nobody THEN Answer("none", {}, 0)
                  ELSE Answer("aid", {next}, 0)

(* The handler of a file: a CRC group before every CRCEVERY segments, or    *)
(* the next segment.  A file sent once is stopped with its last.            *)
CrcTurnAgain(r) == r.crc # "off" /\ r.seg % CRCEVERY = 0   \* Mutant of CrcTurn: for ever
CrcTurn(r) == ~r.crcSent /\ r.crc # "off" /\ r.seg % CRCEVERY = 0
CrcGroup(f, p) ==
    /\ CrcTurn(file[f])
    /\ file' = [file EXCEPT ![f].crcSent = TRUE,
                            ![f].chunk = IF @ + 1 >= Chunks(file[f]) THEN 0 ELSE @ + 1]
    /\ Answer("crc", {f}, file[f].chunk)
    /\ pointer' = p /\ UNCHANGED <<odas, got, replaced>>
Segment(f, p) ==
    LET r == [file[f] EXCEPT !.crcSent = FALSE]
        last == r.seg + 1 >= r.segs
    IN /\ ~CrcTurn(file[f])
       /\ Answer("data", {f}, r.seg)
       /\ IF last /\ r.once
          THEN /\ file' = [file EXCEPT ![f] = Stopped([r EXCEPT !.seg = 0])]
               /\ odas' = Freed(f) /\ pointer' = Past(p, r.slot)
               /\ got' = [got EXCEPT ![f] = {}] /\ replaced' = replaced \ {f}
          ELSE /\ file' = [file EXCEPT ![f] = [r EXCEPT !.seg = IF last THEN 0 ELSE @ + 1]]
               /\ got' = [got EXCEPT ![f] = IF r.once THEN @ \cup {r.seg} ELSE @]
               /\ pointer' = p /\ UNCHANGED <<odas, replaced>>

Data(c, k) ==
    /\ counter' = IF counter + 1 > AIDCOUNT THEN 0 ELSE counter + 1
    /\ IF k = Len(odas) THEN NoneHasData(c)
       ELSE LET app == odas[Visit(c, k)].app
            IN IF app \in Files THEN CrcGroup(app, After(c, k)) \/ Segment(app, After(c, k))
               ELSE NoHandler(c, k)
Hook ==
    /\ stream' = (stream % streams) + 1 /\ UNCHANGED <<streams, commands>>
    /\ IF ~SomeUsed THEN Idle
       ELSE LET c == Current
            IN IF counter = 0 /\ stream = 1 THEN Aid(c) ELSE LET k == Asked(c) IN Data(c, k)
(* A custom group goes out on the stream instead, and the hook is not asked. *)
CustomGroup ==
    /\ commands < MaxCommands /\ commands' = commands + 1
    /\ stream' = (stream % streams) + 1 /\ Answer("none", {}, 0)
    /\ UNCHANGED <<odas, pointer, counter, file, got, replaced, streams>>

Next ==
    \/ \E f \in Files, o \in Orders : SendFile(f, o) \/ SendFails(f, o) \/ SendNoFile(f, o)
    \/ \E f \in Files : Stop(f) \/ Pause(f)
    \/ \E p \in Plain : Register(p) \/ Unregister(p)
    \/ OnState \/ Hook \/ CustomGroup

(* main codes a group of every stream for ever. *)
Spec == Init /\ [][Next]_vars /\ WF_vars(Hook)

-----------------------------------------------------------------------------
(* Properties *)

Apps == Files \cup Plain \cup {Nobody}
FileType ==
    [slot : Nat, aid : Nat, id : -1 .. 63, version : 0 .. 7, segs : Nat, seg : Nat, crc : Sums,
     chunk : Nat, crcSent : BOOLEAN, once : BOOLEAN, paused : BOOLEAN]
TypeOK ==
    /\ odas \in Seq([app : Apps, data : {"zero", "small", "large"}])
    /\ pointer \in Nat \ {0} /\ counter \in 0 .. AIDCOUNT
    /\ file \in [Files -> FileType]
    /\ got \in [Files -> SUBSET Nat] /\ replaced \subseteq Files
    /\ streams \in StreamCounts /\ stream \in 1 .. streams
    /\ commands \in 0 .. MaxCommands

(* A file sent once that ends had all of its segments sent since it was     *)
(* loaded, whatever was sent, stopped or reset before, unless it replaced   *)
(* one of the same application under way (whose position it goes on from).  *)
OnceWhole ==
    [][\A f \in Files :
          file[f].segs # 0 /\ file'[f].segs = 0 /\ commands' = commands
              => f \in replaced \/ got[f] \cup {air'.n} = 0 .. file[f].segs - 1]_vars

Serving(f) == (\E i \in 1 .. Len(odas) : odas[i].app = f) /\ ~IsIdle(f)
IdleBefore(f) ==
    \E i \in 2 .. Len(odas) :
        odas[i].app = f /\ odas[i - 1].app \in Files /\ IsIdle(odas[i - 1].app)
Turn(f) == Serving(f) /\ ~IdleBefore(f) /\ Len(odas) <= AIDCOUNT
Sent(kind, f, n) == air = [kind |-> kind, apps |-> {f}, n |-> n]

(* Every segment of a file under way, and every CRC chunk of it, goes out   *)
(* again and again (the first two, which are all of them in the instance    *)
(* checked), whatever the other applications have to send: unless the slot  *)
(* before it has a file that is paused or empty, over whose successor the   *)
(* search goes, or there are more slots than calls from one announcement to *)
(* the next.                                                                *)
FilesRecur ==
    \A f \in Files, n \in 0 .. 1 :
        /\ <>[](Turn(f) /\ n < file[f].segs) => []<>Sent("data", f, n)
        /\ <>[](Turn(f) /\ n < Chunks(file[f])) => []<>Sent("crc", f, n)

Divides(d, n) == \E k \in 1 .. n : k * d = n
Common(m, n) ==     \* the greatest common divisor
    CHOOSE d \in 1 .. m : /\ Divides(d, m) /\ Divides(d, n)
                          /\ \A e \in d + 1 .. m : ~(Divides(e, m) /\ Divides(e, n))
AllSend == odas # <<>> /\ \A i \in 1 .. Len(odas) : /\ Used(i) /\ odas[i].data = "large"
                                                    /\ Serving(odas[i].app)
(* Announcements come every AIDCOUNT + 1 calls, on stream 1 only, and share *)
(* the pointer with data.  When all slots have files that send, they fall   *)
(* on one in g of the slots, g being the greatest common divisor of the     *)
(* number of slots and of the calls between them: of every g slots that     *)
(* follow each other one is announced again and again, and every file when  *)
(* g is 1.  With 3 streams in the code they may cease altogether.           *)
AidsRecur ==
    \A i \in 1 .. 4 :
        <>[](AllSend /\ i <= Len(odas) /\ Common(streams, AIDCOUNT + 1) = 1)
            => []<>(/\ air.kind = "aid" /\ i <= Len(odas)
                    /\ \E k \in 0 .. Common(Len(odas), streams * (AIDCOUNT + 1)) - 1 :
                          odas[Round(i, k)].app \in air.apps)
AllRecur == FilesRecur /\ AidsRecur
=============================================================================

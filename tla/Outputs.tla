------------------------------ MODULE Outputs -------------------------------
(***************************************************************************)
(* Where groups go (the loops of src/src/rds95.c): to fm95 over a local    *)
(* socket as differentially coded bits (ipc_client.c), or as lines of text *)
(* to TCP clients (tcp_server.c).  The number of streams is read anew at   *)
(* every use, while commands change it.  Of a group's bits the differential*)
(* code needs their sum: it turns the bit before the group into its last.  *)
(* fm95 and the TCP clients are not in this repository: they are modelled  *)
(* from what the code does with their answers and failures.                *)
(***************************************************************************)
EXTENDS Integers, SequencesExt

CONSTANTS
    Clients,        \* TCP clients
    MAXCLIENTS,     \* MAX_TCP_CLIENTS (10 in the code)
    ENTRIES,        \* entries of prev_output (4 in the code)
    StreamCounts,   \* the values of enc->streams (0 to 7)
    MaxChanges,     \* bound: changes of enc->streams
    MaxFails        \* bound: sends to fm95 that fail

ASSUME ConstantsAssumption ==
    /\ MAXCLIENTS \in Nat \ {0} /\ ENTRIES \in Nat \ {0}
    /\ StreamCounts \subseteq 0 .. 7 /\ MaxChanges \in Nat /\ MaxFails \in Nat

Nobody == "nobody"
ASSUME NobodyAssumption == Nobody \notin Clients

VARIABLES
    mode,       \* config.asciig: "ipc" or "tcp"
    streams,    \* enc->streams
    stop,       \* stop_rds
    main,       \* main: its step, the stream of its loop, sent_num
    prev,       \* client->prev_output
    wire,       \* messages fm95 has not read
    replies,    \* replies main has not read
    fm,         \* fm95: whether it is there, the streams it knows, the last bit of each
    lost,       \* streams whose last group fm95 did not take
    unsent,     \* streams whose last group could not be sent
    untold,     \* the last announcement could not be sent
    slots,      \* tcp_server.clients: who has each
    queue,      \* connections not accepted
    client,     \* what has become of each client
    changes, fails

ipcVars == <<prev, wire, replies, fm, lost, unsent, untold>>
tcpVars == <<slots, queue, client>>
vars == <<mode, streams, stop, main, ipcVars, tcpVars, changes, fails>>

Bits == {0, 1}
Entries == 0 .. ENTRIES - 1
SlotIds == 1 .. MAXCLIENTS
Flip(bit, sum) == (bit + sum) % 2
NoRef == 2      \* of a group that follows on none that was sent
Announcement(n) == [op |-> 113, n |-> n, ref |-> NoRef, bit |-> 0]
GroupOf(s, ref, bit) == [op |-> 112, n |-> s, ref |-> ref, bit |-> bit]
Unspecified(s) == GroupOf(s, NoRef, 0)      \* of a stream with no entry

Init ==
    /\ mode \in {"ipc", "tcp"} /\ streams \in StreamCounts /\ stop = FALSE
    /\ main = [pc |-> IF mode = "ipc" THEN "announce" ELSE "top", s |-> 0, sent |-> streams]
    /\ prev = [s \in Entries |-> 0] /\ wire = <<>> /\ replies = 0
    /\ fm = [up |-> TRUE, known |-> 0, last |-> prev] /\ lost = {}
    /\ unsent = {} /\ untold = FALSE
    /\ slots = [i \in SlotIds |-> Nobody] /\ queue = <<>>
    /\ client = [c \in Clients |-> "out"] /\ changes = 0 /\ fails = 0

Goto(pc) == main' = [main EXCEPT !.pc = pc]
EnvSame == UNCHANGED <<mode, streams, stop, changes>>
MayFail == fails < MaxFails /\ fails' = fails + 1

-----------------------------------------------------------------------------
(* Others: commands, signals, fm95 and the clients *)

Running == main.pc \notin {"end", "killed"}
SetStreams(n) ==    \* lua_set_rds_streams looks at the number that was
    /\ Running /\ streams <= 4 /\ changes < MaxChanges /\ n # streams
    /\ streams' = n /\ changes' = changes + 1
    /\ UNCHANGED <<mode, stop, main, fails, ipcVars, tcpVars>>
Signal ==
    /\ Running /\ ~stop /\ stop' = TRUE
    /\ UNCHANGED <<mode, streams, main, changes, fails, ipcVars, tcpVars>>

FmSame == EnvSame /\ UNCHANGED <<main, prev, unsent, untold, fails>> /\ UNCHANGED tcpVars
FmTakes ==
    /\ fm.up /\ wire # <<>>
    /\ wire' = Tail(wire) /\ replies' = replies + 1
    /\ LET m == Head(wire)
       IN IF m.op = 113 THEN fm' = [fm EXCEPT !.known = m.n] /\ lost' = lost
          ELSE IF m.n \in Entries
          THEN fm' = [fm EXCEPT !.last[m.n] = m.bit] /\ lost' = lost \ {m.n}
          ELSE UNCHANGED <<fm, lost>>
    /\ FmSame
FmOverruns ==   \* its ring of bits is full: the group is dropped
    /\ fm.up /\ wire # <<>> /\ Head(wire).op = 112
    /\ wire' = Tail(wire) /\ replies' = replies + 1
    /\ lost' = lost \cup ({Head(wire).n} \cap Entries) /\ fm' = fm
    /\ FmSame
FmCloses ==
    /\ mode = "ipc" /\ fm.up /\ fm' = [fm EXCEPT !.up = FALSE]
    /\ UNCHANGED <<wire, replies, lost>> /\ FmSame

ClientSame == EnvSame /\ UNCHANGED <<main, slots, fails>> /\ UNCHANGED ipcVars
Listening == mode = "tcp" /\ main.pc # "end"
Connect(c) ==
    /\ Listening /\ client[c] = "out"
    /\ client' = [client EXCEPT ![c] = "open"] /\ queue' = Append(queue, c) /\ ClientSame
Leave(c) ==     \* its end is closed; the server learns of it by a failing send
    /\ client[c] = "open" /\ client' = [client EXCEPT ![c] = "left"]
    /\ UNCHANGED queue /\ ClientSame
Reset(c) ==     \* from now on a send fails
    /\ client[c] = "left" /\ client' = [client EXCEPT ![c] = "reset"]
    /\ UNCHANGED queue /\ ClientSame

-----------------------------------------------------------------------------
(* main with fm95 *)

IpcSame == EnvSame /\ UNCHANGED <<fm, lost>> /\ UNCHANGED tcpVars
Top ==
    /\ main.pc = "top" /\ ~stop
    /\ main' = [main EXCEPT !.pc = IF mode = "ipc" THEN "group" ELSE "accept", !.s = 0]
    /\ EnvSame /\ UNCHANGED <<fails, ipcVars, tcpVars>>

Sending == mode = "ipc" /\ main.pc = "group" /\ main.s < streams
NothingSent == UNCHANGED <<prev, wire, unsent, untold, fails>>

(* A send to a socket that fm95 has closed raises SIGPIPE, which nobody     *)
(* handles: the process ends there, without the save at its exit.           *)
Killed ==
    /\ ~fm.up /\ (main.pc = "announce" \/ Sending) /\ Goto("killed")
    /\ NothingSent /\ UNCHANGED replies /\ IpcSame

(* ipc_send_streams; its send may fail: a signal came while it blocked, or  *)
(* there is no memory.  The local socket takes a message whole or not.      *)
Announce ==
    /\ main.pc = "announce" /\ fm.up
    /\ wire' = Append(wire, Announcement(main.sent)) /\ Goto("announced")
    /\ untold' = FALSE /\ UNCHANGED <<prev, unsent, replies, fails>> /\ IpcSame
AnnounceFails ==
    /\ main.pc = "announce" /\ fm.up /\ MayFail /\ Goto("top")
    /\ untold' = TRUE /\ UNCHANGED <<prev, wire, unsent, replies>> /\ IpcSame

(* ipc_send_bits.  When the send fails, prev_output has moved on all the    *)
(* same.  Past its last entry prev_output is other memory of main: what the *)
(* bits of such a stream are is left open, and what is written there is     *)
(* taken to be nothing that is in use.                                      *)
PutShared(s, bit) == [k \in Entries |-> bit]     \* Mutant of Put: one bit for all streams
Put(s, bit) == [prev EXCEPT ![s] = bit]
Follows(s) == IF s \in unsent THEN NoRef ELSE prev[s]
CodeBits(bit) == prev' = IF main.s \in Entries THEN Put(main.s, bit) ELSE prev
SendBits ==
    /\ Sending /\ fm.up
    /\ IF main.s \in Entries
       THEN \E sum \in Bits :
                LET bit == Flip(prev[main.s], sum)
                IN wire' = Append(wire, GroupOf(main.s, Follows(main.s), bit)) /\ CodeBits(bit)
       ELSE wire' = Append(wire, Unspecified(main.s)) /\ prev' = prev
    /\ unsent' = unsent \ {main.s} /\ untold' = untold
    /\ Goto("sent") /\ UNCHANGED <<replies, fails>> /\ IpcSame
SendBitsFails ==
    /\ Sending /\ fm.up /\ MayFail /\ \E bit \in Bits : CodeBits(bit)
    /\ unsent' = unsent \cup ({main.s} \cap Entries)
    /\ main' = [main EXCEPT !.s = @ + 1] /\ UNCHANGED <<wire, untold, replies>> /\ IpcSame

(* recv_all: a reply, or nothing when fm95 has gone or the signal came      *)
(* here; the reply is then left to the next call.                           *)
Received ==
    /\ main.pc \in {"announced", "sent"}
    /\ \/ replies > 0 /\ replies' = replies - 1
       \/ replies = 0 /\ (~fm.up \/ stop) /\ replies' = 0
    /\ main' = IF main.pc = "announced" THEN [main EXCEPT !.pc = "top"]
               ELSE [main EXCEPT !.pc = "group", !.s = @ + 1]
    /\ NothingSent /\ IpcSame

RoundEnds ==
    /\ mode = "ipc" /\ main.pc = "group" /\ main.s >= streams
    /\ Goto("check") /\ NothingSent /\ UNCHANGED replies /\ IpcSame
CheckNever ==    \* Mutant of Check: only the first number of streams is announced
    main.pc = "check" /\ Goto("top") /\ NothingSent /\ UNCHANGED replies /\ IpcSame
Check ==
    /\ main.pc = "check" /\ Goto(IF streams # main.sent THEN "assign" ELSE "top")
    /\ NothingSent /\ UNCHANGED replies /\ IpcSame
Assign ==
    /\ main.pc = "assign" /\ main' = [main EXCEPT !.pc = "announce", !.sent = streams]
    /\ NothingSent /\ UNCHANGED replies /\ IpcSame

-----------------------------------------------------------------------------
(* main with TCP clients *)

TcpSame == EnvSame /\ UNCHANGED <<ipcVars, fails>>

Free == {i \in SlotIds : slots[i] = Nobody}
AcceptSame == UNCHANGED <<slots, queue, client>>
FirstFree == CHOOSE i \in Free : \A j \in Free : i <= j
Accept ==   \* accept_tcp_clients: one connection a round, to the first free slot or none
    /\ main.pc = "accept" /\ Goto("group") /\ TcpSame
    /\ \/ queue = <<>> /\ AcceptSame
       \/ /\ queue # <<>> /\ Free # {} /\ queue' = Tail(queue)
          /\ slots' = [slots EXCEPT ![FirstFree] = Head(queue)] /\ client' = client
       \/ /\ queue # <<>> /\ Free = {} /\ queue' = Tail(queue)
          /\ client' = [client EXCEPT ![Head(queue)] = "shut"] /\ slots' = slots

(* send_to_tcp_clients: a failing send frees the slot; a send that would    *)
(* block, or sends part of the line, changes nothing here.                  *)
CanFail(c) == client[c] = "reset"
FreedKeepsSlot(failed) == slots     \* Mutant of Freed: the socket is closed, the slot stays
Freed(failed) == [i \in SlotIds |-> IF slots[i] \in failed THEN Nobody ELSE slots[i]]
SendLines ==
    LET failed == {c \in Clients : (\E i \in SlotIds : slots[i] = c) /\ CanFail(c)}
    IN /\ mode = "tcp" /\ main.pc = "group" /\ main.s < streams
       /\ main' = [main EXCEPT !.s = @ + 1]
       /\ slots' = Freed(failed)
       /\ client' = [c \in Clients |-> IF c \in failed THEN "shut" ELSE client[c]]
       /\ UNCHANGED queue /\ TcpSame
TcpRoundEnds ==
    /\ mode = "tcp" /\ main.pc = "group" /\ main.s >= streams
    /\ Goto("top") /\ TcpSame /\ UNCHANGED tcpVars

End == \* the exit: ipc_close, or close_tcp_server, which ends all connections
    /\ main.pc = "top" /\ stop /\ Goto("end")
    /\ slots' = [i \in SlotIds |-> Nobody] /\ queue' = <<>>
    /\ client' = [c \in Clients |-> IF client[c] = "out" THEN "out" ELSE "shut"]
    /\ fm' = [fm EXCEPT !.up = FALSE]
    /\ EnvSame /\ UNCHANGED <<prev, wire, replies, lost, unsent, untold, fails>>

Main ==
    \/ Top \/ Killed \/ Announce \/ AnnounceFails \/ SendBits \/ SendBitsFails
    \/ Received \/ RoundEnds \/ Check \/ Assign
    \/ Accept \/ SendLines \/ TcpRoundEnds \/ End
Fm == FmTakes \/ FmOverruns
Next ==
    \/ Main \/ Fm \/ FmCloses \/ Signal
    \/ \E n \in StreamCounts : SetStreams(n)
    \/ \E c \in Clients : Connect(c) \/ Leave(c) \/ Reset(c)

(* main loops for ever; fm95 answers what it reads; the network tells of a  *)
(* connection that was closed.                                              *)
Spec ==
    /\ Init /\ [][Next]_vars /\ WF_vars(Main) /\ WF_vars(Fm)
    /\ \A c \in Clients : WF_vars(Reset(c))

-----------------------------------------------------------------------------
(* Properties *)

Messages == [op : {112, 113}, n : 0 .. 7, ref : Bits \cup {NoRef}, bit : Bits]
TypeOK ==
    /\ mode \in {"ipc", "tcp"} /\ streams \in StreamCounts /\ stop \in BOOLEAN
    /\ main \in [pc : {"announce", "announced", "top", "group", "sent", "check", "assign",
                      "accept", "end", "killed"}, s : 0 .. 7, sent : StreamCounts]
    /\ main.pc = "sent" => main.s < 7
    /\ prev \in [Entries -> Bits] /\ wire \in Seq(Messages) /\ replies \in Nat
    /\ fm \in [up : BOOLEAN, known : 0 .. 7, last : [Entries -> Bits]]
    /\ lost \subseteq Entries /\ unsent \subseteq Entries /\ untold \in BOOLEAN
    /\ slots \in [SlotIds -> Clients \cup {Nobody}] /\ queue \in Seq(Clients)
    /\ client \in [Clients -> {"out", "open", "left", "reset", "shut"}]
    /\ changes \in 0 .. MaxChanges /\ fails \in 0 .. MaxFails

(* A group on its way to fm95 follows on the last bit that fm95 has of its  *)
(* stream, whatever changes of the number of streams, replies missed and    *)
(* groups of other streams came between: a receiver decodes it, unless the  *)
(* one before could not be sent or was dropped by fm95, or there is no      *)
(* entry for the stream.                                                    *)
Decodable ==
    \A k \in 1 .. Len(wire) :
        LET m == wire[k]
        IN m.op = 112 /\ m.n \in Entries /\ m.n \notin lost /\ m.ref # NoRef
           /\ (\A j \in 1 .. k - 1 : wire[j].op # 112 \/ wire[j].n # m.n)
               => m.ref = fm.last[m.n]

(* An accepted connection has one slot until it is closed, and no slot has  *)
(* a closed one: none is lost and no group goes to a socket of another.     *)
Waiting(c) == c \in ToSet(queue)
OwnSlot ==
    /\ \A i \in SlotIds : slots[i] # Nobody => client[slots[i]] \in {"open", "left", "reset"}
    /\ \A c \in Clients : client[c] \in {"open", "left", "reset"} =>
        ~Waiting(c) <=> \E i \in SlotIds : slots[i] = c /\ \A j \in SlotIds \ {i} : slots[j] # c

(* fm95 learns the number of streams, and keeps it, however it changed while *)
(* main sent or waited, unless the announcement could not be sent (nobody   *)
(* repeats it); every connection is accepted or turned away; and a client   *)
(* that left gives its slot back, if there are streams: without a group no  *)
(* send fails.                                                              *)
Announced ==
    \A n \in StreamCounts :
        <>[](mode = "ipc" /\ streams = n /\ fm.up /\ ~stop /\ ~untold) => <>[](fm.known = n)
Answered == \A c \in Clients : Waiting(c) ~> ~Waiting(c)
SlotsBack ==
    \A c \in Clients :
        <>[](client[c] # "out" /\ streams > 0) => <>[](client[c] \in {"open", "shut"})
Served == Announced /\ Answered /\ SlotsBack
=============================================================================

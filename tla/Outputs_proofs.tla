--------------------------- MODULE Outputs_proofs ---------------------------
(***************************************************************************)
(* For any number of clients, slots and streams: a group on its way to     *)
(* fm95 follows on the last bit fm95 has of its stream, and connections    *)
(* and slots of the TCP server agree.                                      *)
(***************************************************************************)
EXTENDS Outputs, SequenceTheorems, WellFoundedInduction, TLAPS

USE DEF Goto, EnvSame, MayFail, NothingSent, Sending, ipcVars, tcpVars

LEMMA StreamTyped ==
    ASSUME TypeOK PROVE streams \in 0 .. 7 /\ main.s \in 0 .. 7 /\ main.sent \in 0 .. 7
  BY ConstantsAssumption DEF TypeOK

LEMMA FlipTyped == ASSUME NEW b \in Bits, NEW sum \in Bits PROVE Flip(b, sum) \in Bits
  BY DEF Bits, Flip

LEMMA MessagesTyped ==
    ASSUME NEW s \in 0 .. 7, NEW r \in Bits \cup {NoRef}, NEW b \in Bits
    PROVE  {Announcement(s), GroupOf(s, r, b), Unspecified(s)} \subseteq Messages
  BY DEF Announcement, GroupOf, Unspecified, Messages, Bits

-----------------------------------------------------------------------------
(* Type correctness: the parts of the state each group of actions changes   *)

LEMMA EnvironmentTyped ==
    ASSUME TypeOK, Signal \/ FmCloses \/ \E n \in StreamCounts : SetStreams(n) PROVE TypeOK'
<1>1. CASE Signal
  BY <1>1 DEF Signal, TypeOK
<1>2. CASE FmCloses
  <2>1. fm' \in [up : BOOLEAN, known : 0 .. 7, last : [Entries -> Bits]]
    BY <1>2 DEF FmCloses, TypeOK
  <2> QED
    BY <1>2, <2>1 DEF FmCloses, FmSame, TypeOK
<1>3. ASSUME NEW n \in StreamCounts, SetStreams(n) PROVE TypeOK'
  <2>1. changes' \in 0 .. MaxChanges
    BY <1>3, ConstantsAssumption DEF SetStreams, TypeOK
  <2> QED
    BY <1>3, <2>1 DEF SetStreams, TypeOK
<1> QED
  BY <1>1, <1>2, <1>3

LEMMA FmTyped ==
    ASSUME TypeOK, Fm PROVE TypeOK'
<1>1. wire # <<>> /\ wire' = Tail(wire) /\ replies' = replies + 1 /\ FmSame
  BY DEF Fm, FmTakes, FmOverruns
<1>2. Head(wire) \in Messages /\ wire' \in Seq(Messages)
  BY <1>1 DEF TypeOK
<1>3. lost' \subseteq Entries
  BY DEF Fm, FmTakes, FmOverruns, TypeOK
<1>4. fm' \in [up : BOOLEAN, known : 0 .. 7, last : [Entries -> Bits]]
  <2> DEFINE m == Head(wire)
  <2>1. m.n \in 0 .. 7 /\ m.bit \in Bits /\ fm \in [up : BOOLEAN, known : 0 .. 7, last : [Entries -> Bits]]
    BY <1>2 DEF Messages, TypeOK
  <2>2. [fm EXCEPT !.known = m.n] \in [up : BOOLEAN, known : 0 .. 7, last : [Entries -> Bits]]
    BY <2>1
  <2>3. [fm EXCEPT !.last[m.n] = m.bit] \in [up : BOOLEAN, known : 0 .. 7, last : [Entries -> Bits]]
    BY <2>1
  <2>4. fm' \in {fm, [fm EXCEPT !.known = m.n], [fm EXCEPT !.last[m.n] = m.bit]}
    BY DEF Fm, FmTakes, FmOverruns
  <2> QED
    BY <2>1, <2>2, <2>3, <2>4
<1> QED
  BY <1>1, <1>2, <1>3, <1>4 DEF FmSame, TypeOK

LEMMA ClientsTyped ==
    ASSUME TypeOK, NEW c \in Clients, Connect(c) \/ Leave(c) \/ Reset(c) PROVE TypeOK'
<1>1. queue' \in Seq(Clients) /\ client' \in [Clients -> {"out", "open", "left", "reset", "shut"}]
  <2>1. CASE Connect(c)
    BY <2>1 DEF Connect, TypeOK
  <2>2. CASE Leave(c) \/ Reset(c)
    BY <2>2 DEF Leave, Reset, TypeOK
  <2> QED
    BY <2>1, <2>2
<1>2. ClientSame
  BY DEF Connect, Leave, Reset
<1> QED
  BY <1>1, <1>2 DEF ClientSame, TypeOK

LEMMA MainWith ==
    ASSUME NEW P, NEW Q, NEW S, NEW N, NEW pc \in P, NEW i \in S, NEW m \in [pc : Q, s : S, sent : N]
    PROVE  [m EXCEPT !.pc = pc, !.s = i] \in [pc : P, s : S, sent : N]
  OBVIOUS

(* The steps that only move main on.                                        *)
LEMMA MovesTyped ==
    ASSUME TypeOK, Top \/ Killed \/ Received \/ RoundEnds \/ Check \/ Assign \/ TcpRoundEnds
    PROVE  TypeOK'
<1> USE StreamTyped
<1>1. CASE Top
  <2>1. \/ main' = [main EXCEPT !.pc = "group", !.s = 0]
        \/ main' = [main EXCEPT !.pc = "accept", !.s = 0]
    BY <1>1 DEF Top
  <2>2. main \in [pc : {"announce", "announced", "top", "group", "sent", "check", "assign",
                       "accept", "end", "killed"}, s : 0 .. 7, sent : StreamCounts]
    BY DEF TypeOK
  <2>3. main' \in [pc : {"group", "accept"}, s : 0 .. 7, sent : StreamCounts]
    <3>1. 0 \in 0 .. 7 /\ "group" \in {"group", "accept"} /\ "accept" \in {"group", "accept"}
      OBVIOUS
    <3>2. /\ [main EXCEPT !.pc = "group", !.s = 0] \in [pc : {"group", "accept"}, s : 0 .. 7, sent : StreamCounts]
          /\ [main EXCEPT !.pc = "accept", !.s = 0] \in [pc : {"group", "accept"}, s : 0 .. 7, sent : StreamCounts]
      BY <2>2, <3>1, MainWith
    <3> QED
      BY <2>1, <3>2
  <2>4. UNCHANGED <<mode, streams, stop, changes, fails, ipcVars, tcpVars>>
    BY <1>1 DEF Top
  <2> QED
    BY <2>3, <2>4 DEF TypeOK
<1>2. CASE Killed
  BY <1>2 DEF Killed, IpcSame, TypeOK
<1>3. CASE Received
  <2>1. replies' \in Nat
    BY <1>3 DEF Received, TypeOK
  <2>2. CASE main.pc = "announced"
    BY <1>3, <2>1, <2>2 DEF Received, IpcSame, TypeOK
  <2>3. CASE main.pc = "sent"
    <3>1. main.s + 1 \in 0 .. 7
      BY <2>3 DEF TypeOK
    <3>2. main' = [main EXCEPT !.pc = "group", !.s = main.s + 1]
      BY <1>3, <2>3 DEF Received
    <3> QED
      BY <1>3, <2>1, <3>1, <3>2 DEF Received, IpcSame, TypeOK
  <2> QED
    BY <1>3, <2>2, <2>3 DEF Received
<1>4. CASE RoundEnds
  BY <1>4 DEF RoundEnds, IpcSame, TypeOK
<1>5. CASE Check
  <2>1. main' \in {[main EXCEPT !.pc = "assign"], [main EXCEPT !.pc = "top"]}
    BY <1>5 DEF Check
  <2> QED
    BY <1>5, <2>1 DEF Check, IpcSame, TypeOK
<1>6. CASE Assign
  BY <1>6 DEF Assign, IpcSame, TypeOK
<1>7. CASE TcpRoundEnds
  BY <1>7 DEF TcpRoundEnds, TcpSame, TypeOK
<1> QED
  BY <1>1, <1>2, <1>3, <1>4, <1>5, <1>6, <1>7

LEMMA CodeTyped ==
    ASSUME TypeOK, NEW bit \in Bits, CodeBits(bit) PROVE prev' \in [Entries -> Bits]
  BY DEF CodeBits, Put, TypeOK

LEMMA AnnounceTyped ==
    ASSUME TypeOK, Announce PROVE TypeOK'
<1> USE StreamTyped
<1>1. Announcement(main.sent) \in Messages
  BY MessagesTyped DEF Announcement, Messages, Bits
<1>2. wire' \in Seq(Messages)
  BY <1>1 DEF Announce, TypeOK
<1> QED
  BY <1>2 DEF Announce, IpcSame, TypeOK

LEMMA FailsTyped ==
    ASSUME TypeOK, AnnounceFails \/ SendBitsFails PROVE TypeOK'
<1> USE StreamTyped
<1>1. fails' \in 0 .. MaxFails
  BY ConstantsAssumption DEF AnnounceFails, SendBitsFails, TypeOK
<1>2. CASE AnnounceFails
  BY <1>1, <1>2 DEF AnnounceFails, IpcSame, TypeOK
<1>3. CASE SendBitsFails
  <2>1. main.s < 7 /\ main.pc = "group" /\ main' = [main EXCEPT !.s = main.s + 1]
    BY <1>3 DEF SendBitsFails
  <2>2. prev' \in [Entries -> Bits]
    BY <1>3, CodeTyped DEF SendBitsFails
  <2>3. unsent' \subseteq Entries
    BY <1>3 DEF SendBitsFails, TypeOK
  <2>4. /\ UNCHANGED <<mode, streams, stop, changes, wire, untold, replies, fm, lost>>
        /\ UNCHANGED <<slots, queue, client>>
    BY <1>3 DEF SendBitsFails, IpcSame
  <2>5. main.s + 1 \in 0 .. 7
    BY <2>1
  <2>6. /\ main' \in [pc : {"group"}, s : 0 .. 7, sent : StreamCounts]
        /\ main'.pc = "group"
    BY <2>1, <2>5 DEF TypeOK
  <2> QED
    BY <1>1, <2>2, <2>3, <2>4, <2>6 DEF TypeOK
<1> QED
  BY <1>2, <1>3

LEMMA SendTyped ==
    ASSUME TypeOK, SendBits PROVE TypeOK'
<1> USE StreamTyped
<1>1. main.s < 7
  BY DEF SendBits
<1>2. wire' \in Seq(Messages) /\ prev' \in [Entries -> Bits]
  <2>1. CASE main.s \in Entries
    <3>1. PICK sum \in Bits :
            LET bit == Flip(prev[main.s], sum)
            IN wire' = Append(wire, GroupOf(main.s, Follows(main.s), bit)) /\ CodeBits(bit)
      BY <2>1 DEF SendBits
    <3>2. prev[main.s] \in Bits /\ Flip(prev[main.s], sum) \in Bits
      BY <2>1, FlipTyped DEF TypeOK
    <3>3. GroupOf(main.s, Follows(main.s), Flip(prev[main.s], sum)) \in Messages
      BY <3>2, MessagesTyped DEF Follows
    <3>4. wire' \in Seq(Messages)
      BY <3>1, <3>3, AppendProperties DEF TypeOK
    <3> QED
      BY <3>1, <3>2, <3>4, CodeTyped
  <2>2. CASE main.s \notin Entries
    <3>1. Unspecified(main.s) \in Messages
      BY DEF Unspecified, GroupOf, Messages, Bits
    <3>2. wire' = Append(wire, Unspecified(main.s)) /\ prev' = prev
      BY <2>2 DEF SendBits
    <3>3. wire \in Seq(Messages) /\ prev \in [Entries -> Bits]
      BY DEF TypeOK
    <3> QED
      BY <3>1, <3>2, <3>3, AppendProperties
  <2> QED
    BY <2>1, <2>2
<1> QED
  BY <1>1, <1>2 DEF SendBits, IpcSame, TypeOK

(* The first free slot, when there is one.                                  *)
LEMMA FirstIsFree ==
    ASSUME Free # {}
    PROVE  FirstFree \in Free
<1> DEFINE R == {p \in Nat \X Nat : p[1] < p[2]}
<1>1. IsWellFoundedOn(R, Nat)
  BY NatLessThanWellFounded, Zenon DEF OpToRel
<1>2. Free \subseteq Nat
  BY DEF Free, SlotIds
<1>3. PICK x \in Free : \A y \in Free : <<y, x>> \notin R
  <2> HIDE DEF R
  <2> QED
    BY <1>1, <1>2, WFMin
<1>4. \A y \in Free : ~(y < x)
  BY <1>2, <1>3
<1>5. \A y \in Free : x <= y
  BY <1>2, <1>4
<1> QED
  BY <1>5 DEF FirstFree

LEMMA TcpTyped ==
    ASSUME TypeOK, Accept \/ SendLines \/ End PROVE TypeOK'
<1>1. CASE Accept
  <2>1. CASE queue = <<>>
    BY <1>1, <2>1 DEF Accept, AcceptSame, TcpSame, TypeOK
  <2>2. CASE queue # <<>>
    <3>1. Head(queue) \in Clients /\ Tail(queue) \in Seq(Clients)
      BY <2>2 DEF TypeOK
    <3>2. /\ slots' \in [SlotIds -> Clients \cup {Nobody}]
          /\ client' \in [Clients -> {"out", "open", "left", "reset", "shut"}]
      <4>1. CASE Free = {}
        BY <1>1, <2>2, <3>1, <4>1 DEF Accept, FirstFree, TypeOK
      <4>2. CASE Free # {}
        BY <1>1, <2>2, <3>1, <4>2, FirstIsFree DEF Accept, Free, TypeOK
      <4> QED
        BY <4>1, <4>2
    <3> QED
      BY <1>1, <2>2, <3>1, <3>2 DEF Accept, TcpSame, TypeOK
  <2> QED
    BY <2>1, <2>2
<1>2. CASE SendLines
  <2>1. main' = [main EXCEPT !.s = main.s + 1] /\ main.s + 1 \in 0 .. 7 /\ main.pc = "group"
    BY <1>2, StreamTyped DEF SendLines
  <2>2. /\ slots' \in [SlotIds -> Clients \cup {Nobody}]
        /\ client' \in [Clients -> {"out", "open", "left", "reset", "shut"}]
    BY <1>2 DEF SendLines, Freed, TypeOK
  <2> QED
    BY <1>2, <2>1, <2>2 DEF SendLines, TcpSame, TypeOK
<1>3. CASE End
  <2>1. fm' \in [up : BOOLEAN, known : 0 .. 7, last : [Entries -> Bits]]
    BY <1>3 DEF End, TypeOK
  <2>2. /\ slots' \in [SlotIds -> Clients \cup {Nobody}] /\ queue' \in Seq(Clients)
        /\ client' \in [Clients -> {"out", "open", "left", "reset", "shut"}]
    BY <1>3 DEF End, TypeOK
  <2> QED
    BY <1>3, <2>1, <2>2 DEF End, TypeOK
<1> QED
  BY <1>1, <1>2, <1>3

LEMMA TypeInductive ==
    ASSUME TypeOK, [Next]_vars PROVE TypeOK'
<1>1. CASE UNCHANGED vars
  BY <1>1 DEF vars, TypeOK
<1> QED
  BY <1>1, EnvironmentTyped, FmTyped, ClientsTyped, MovesTyped, AnnounceTyped,
     FailsTyped, SendTyped, TcpTyped DEF Next, Main

(* The variables keep their types; in particular no stream past the 7 that  *)
(* fit enc->streams is sent or announced: the loops of rds95.c.             *)
THEOREM TypeCorrect == Spec => []TypeOK
<1>1. Init => TypeOK
  <2> SUFFICES ASSUME Init PROVE TypeOK
    OBVIOUS
  <2>1. prev \in [Entries -> Bits] /\ fm \in [up : BOOLEAN, known : 0 .. 7, last : [Entries -> Bits]]
    BY DEF Init, Bits
  <2>2. mode \in {"ipc", "tcp"} /\ main.pc \in {"announce", "top"} /\ main.pc # "sent"
    BY DEF Init
  <2>3. main \in [pc : {"announce", "top"}, s : 0 .. 7, sent : StreamCounts]
    BY <2>2 DEF Init
  <2>4. /\ slots \in [SlotIds -> Clients \cup {Nobody}] /\ queue \in Seq(Clients)
        /\ client \in [Clients -> {"out", "open", "left", "reset", "shut"}]
        /\ wire \in Seq(Messages) /\ replies \in Nat /\ lost \subseteq Entries
    BY DEF Init
  <2>7. unsent \subseteq Entries /\ untold \in BOOLEAN
    BY DEF Init
  <2>5. changes \in 0 .. MaxChanges /\ fails \in 0 .. MaxFails
    BY ConstantsAssumption DEF Init
  <2>6. streams \in StreamCounts /\ stop \in BOOLEAN
    BY DEF Init
  <2> QED
    BY <2>1, <2>2, <2>3, <2>4, <2>5, <2>6, <2>7 DEF TypeOK
<1> QED
  BY <1>1, TypeInductive, PTL DEF Spec
-----------------------------------------------------------------------------
(* Slots and connections.  A connection that is neither new nor closed      *)
(* waits once or has one slot; nobody else waits or has one.                *)

Live == {c \in Clients : client[c] \in {"open", "left", "reset"}}
WaitingInv ==
    \A i, j \in DOMAIN queue : queue[i] \in Live /\ (i # j => queue[i] # queue[j])
SlotInv ==
    \A i, j \in SlotIds : slots[i] # Nobody =>
        slots[i] \in Live /\ ~Waiting(slots[i]) /\ (i # j => slots[i] # slots[j])
HasPlace == \A c \in Live : Waiting(c) \/ \E i \in SlotIds : slots[i] = c
PlacesInv == WaitingInv /\ SlotInv /\ HasPlace

LEMMA PlacesSafe == ASSUME TypeOK, PlacesInv PROVE OwnSlot
<1>1. \A c \in Clients : c \in Live <=> client[c] \in {"open", "left", "reset"}
  BY DEF Live
<1>2. \A i \in SlotIds : slots[i] # Nobody => slots[i] \in Clients
  BY DEF TypeOK
<1>3. Nobody \notin Clients
  BY NobodyAssumption
<1> QED
  BY <1>1, <1>2, <1>3 DEF PlacesInv, SlotInv, HasPlace, OwnSlot

LEMMA PlacesSame ==
    ASSUME PlacesInv, UNCHANGED <<slots, queue, client>> PROVE PlacesInv'
  BY DEF PlacesInv, WaitingInv, SlotInv, HasPlace, Waiting, Live

LEMMA ConnectPlaces ==
    ASSUME TypeOK, PlacesInv, NEW c \in Clients, Connect(c) PROVE PlacesInv'
<1>1. /\ client[c] = "out" /\ client' = [client EXCEPT ![c] = "open"]
      /\ queue' = Append(queue, c) /\ slots' = slots
  BY DEF Connect, ClientSame
<1>2. queue \in Seq(Clients) /\ client \in [Clients -> {"out", "open", "left", "reset", "shut"}]
  BY DEF TypeOK
<1>3. Live' = Live \cup {c} /\ c \notin Live
  BY <1>1, <1>2 DEF Live
<1>4. /\ DOMAIN queue' = DOMAIN queue \cup {Len(queue) + 1} /\ Len(queue) + 1 \notin DOMAIN queue
      /\ queue'[Len(queue) + 1] = c /\ \A i \in DOMAIN queue : queue'[i] = queue[i]
  BY <1>1, <1>2, AppendProperties
<1>5. \A d : Waiting(d)' <=> Waiting(d) \/ d = c
  BY <1>4 DEF Waiting, ToSet
<1>6. WaitingInv'
  BY <1>3, <1>4 DEF PlacesInv, WaitingInv
<1>7. SlotInv'
  BY <1>1, <1>3, <1>5 DEF PlacesInv, SlotInv
<1>8. HasPlace'
  BY <1>1, <1>3, <1>5 DEF PlacesInv, HasPlace
<1> QED
  BY <1>6, <1>7, <1>8 DEF PlacesInv

LEMMA LeavePlaces ==
    ASSUME TypeOK, PlacesInv, NEW c \in Clients, Leave(c) \/ Reset(c) PROVE PlacesInv'
<1>1. Live' = Live /\ UNCHANGED <<slots, queue>>
  BY DEF Leave, Reset, ClientSame, Live, TypeOK
<1> QED
  BY <1>1 DEF PlacesInv, WaitingInv, SlotInv, HasPlace, Waiting

LEMMA AcceptPlaces ==
    ASSUME TypeOK, PlacesInv, Accept, queue # <<>> PROVE PlacesInv'
<1> DEFINE c == Head(queue)
<1>1. /\ queue \in Seq(Clients) /\ client \in [Clients -> {"out", "open", "left", "reset", "shut"}]
      /\ slots \in [SlotIds -> Clients \cup {Nobody}]
  BY DEF TypeOK
<1>2. /\ c \in Clients /\ c = queue[1] /\ 1 \in DOMAIN queue /\ queue' = Tail(queue)
      /\ DOMAIN queue' = 1 .. Len(queue) - 1
      /\ \A i \in DOMAIN queue' : queue'[i] = queue[i + 1] /\ i + 1 \in DOMAIN queue
      /\ \A i \in DOMAIN queue \ {1} : i - 1 \in DOMAIN queue' /\ queue[i] = queue'[i - 1]
  <2>1. queue' = Tail(queue)
    BY DEF Accept
  <2> QED
    BY <1>1, <2>1, HeadTailProperties
<1>3. c \in Live /\ Waiting(c)
  BY <1>2 DEF PlacesInv, WaitingInv, Waiting, ToSet
<1> HIDE DEF c
<1>4. \A d : Waiting(d)' <=> Waiting(d) /\ d # c
  <2>1. \A i \in DOMAIN queue' : queue'[i] # c
    BY <1>1, <1>2 DEF PlacesInv, WaitingInv
  <2>2. ASSUME NEW d, Waiting(d), d # c PROVE Waiting(d)'
    <3>1. PICK i \in DOMAIN queue : queue[i] = d
      BY <2>2 DEF Waiting, ToSet
    <3>2. i # 1
      BY <1>2, <2>2, <3>1
    <3> QED
      BY <1>2, <3>1, <3>2 DEF Waiting, ToSet
  <2>3. ASSUME NEW d, Waiting(d)' PROVE Waiting(d) /\ d # c
    <3>1. PICK i \in DOMAIN queue' : queue'[i] = d
      BY <2>3 DEF Waiting, ToSet
    <3> QED
      BY <1>2, <2>1, <3>1 DEF Waiting, ToSet
  <2> QED
    BY <2>2, <2>3
<1>5. \A i, j \in DOMAIN queue' : i # j => queue'[i] # queue'[j]
  BY <1>1, <1>2 DEF PlacesInv, WaitingInv
<1>6. \A i \in DOMAIN queue' : queue'[i] \in Live \ {c}
  BY <1>1, <1>2 DEF PlacesInv, WaitingInv
<1>7. CASE Free = {}
  <2>1. client' = [client EXCEPT ![c] = "shut"] /\ slots' = slots
    BY <1>7 DEF Accept, c
  <2>2. Live' = Live \ {c}
    BY <1>1, <1>2, <2>1 DEF Live
  <2>3. WaitingInv'
    BY <1>5, <1>6, <2>2 DEF WaitingInv
  <2>4. SlotInv'
    BY <1>3, <1>4, <2>1, <2>2 DEF PlacesInv, SlotInv
  <2>5. HasPlace'
    BY <1>4, <2>1, <2>2 DEF PlacesInv, HasPlace
  <2> QED
    BY <2>3, <2>4, <2>5 DEF PlacesInv
<1>8. CASE Free # {}
  <2>1. PICK k \in Free : slots' = [slots EXCEPT ![k] = c] /\ client' = client
    BY <1>8, FirstIsFree DEF Accept, c
  <2>2. Live' = Live
    BY <2>1 DEF Live
  <2>3. k \in SlotIds /\ slots[k] = Nobody /\ c # Nobody
    BY <1>2, NobodyAssumption DEF Free
  <2>4. \A i \in SlotIds : slots'[i] = IF i = k THEN c ELSE slots[i]
    BY <1>1, <2>1, <2>3
  <2>5. WaitingInv'
    BY <1>5, <1>6, <2>2 DEF WaitingInv
  <2>6. \A i \in SlotIds : slots[i] # c
    BY <1>3, <2>3 DEF PlacesInv, SlotInv
  <2>7. SlotInv'
    BY <1>3, <1>4, <2>2, <2>3, <2>4, <2>6 DEF PlacesInv, SlotInv
  <2>8. HasPlace'
    <3>1. ASSUME NEW d \in Live PROVE Waiting(d)' \/ \E i \in SlotIds : slots'[i] = d
      <4>1. CASE d = c
        BY <2>3, <2>4, <4>1
      <4>2. CASE d # c /\ Waiting(d)
        BY <1>4, <4>2
      <4>3. CASE d # c /\ ~Waiting(d)
        <5>1. PICK i \in SlotIds : slots[i] = d
          BY <4>3 DEF PlacesInv, HasPlace
        <5>2. i # k
          BY <2>3, <5>1, NobodyAssumption DEF Live
        <5> QED
          BY <2>4, <5>1, <5>2
      <4> QED
        BY <4>1, <4>2, <4>3
    <3> QED
      BY <2>2, <3>1 DEF HasPlace
  <2> QED
    BY <2>5, <2>7, <2>8 DEF PlacesInv
<1> QED
  BY <1>7, <1>8

LEMMA SendPlaces ==
    ASSUME TypeOK, PlacesInv, SendLines PROVE PlacesInv'
<1> DEFINE failed == {c \in Clients : (\E i \in SlotIds : slots[i] = c) /\ CanFail(c)}
<1>1. /\ queue' = queue /\ slots' = [i \in SlotIds |-> IF slots[i] \in failed THEN Nobody ELSE slots[i]]
      /\ client' = [c \in Clients |-> IF c \in failed THEN "shut" ELSE client[c]]
  BY DEF SendLines, Freed
<1>2. Live' = Live \ failed
  BY <1>1 DEF Live
<1>3. \A c \in failed : ~Waiting(c) /\ c # Nobody
  BY NobodyAssumption DEF PlacesInv, SlotInv
<1>4. \A i \in DOMAIN queue : queue[i] \notin failed
  BY <1>3 DEF Waiting, ToSet
<1> HIDE DEF failed
<1>5. WaitingInv'
  BY <1>1, <1>2, <1>4 DEF PlacesInv, WaitingInv
<1>6. SlotInv'
  BY <1>1, <1>2 DEF PlacesInv, SlotInv, Waiting
<1>7. HasPlace'
  BY <1>1, <1>2 DEF PlacesInv, HasPlace, Waiting
<1> QED
  BY <1>5, <1>6, <1>7 DEF PlacesInv

LEMMA EndPlaces == ASSUME TypeOK, End PROVE PlacesInv'
<1>1. Live' = {} /\ queue' = <<>> /\ \A i \in SlotIds : slots'[i] = Nobody
  BY DEF End, Live
<1> QED
  BY <1>1 DEF PlacesInv, WaitingInv, SlotInv, HasPlace

LEMMA PlacesInductive ==
    ASSUME TypeOK, PlacesInv, [Next]_vars PROVE PlacesInv'
<1>1. CASE \E c \in Clients : Connect(c) \/ Leave(c) \/ Reset(c)
  BY <1>1, ConnectPlaces, LeavePlaces
<1>2. CASE Accept
  <2>1. CASE queue = <<>>
    BY <1>2, <2>1, PlacesSame DEF Accept, AcceptSame
  <2> QED
    BY <1>2, <2>1, AcceptPlaces
<1>3. CASE SendLines \/ End
  BY <1>3, SendPlaces, EndPlaces
<1>4. CASE \/ Top \/ Killed \/ Announce \/ AnnounceFails \/ SendBits \/ SendBitsFails
           \/ Received \/ RoundEnds \/ Check \/ Assign
  BY <1>4, PlacesSame DEF Top, Killed, Announce, AnnounceFails, SendBits, SendBitsFails,
                          Received, RoundEnds, Check, Assign, IpcSame
<1>5. CASE TcpRoundEnds \/ Fm \/ FmCloses \/ Signal \/ \E n \in StreamCounts : SetStreams(n)
  BY <1>5, PlacesSame DEF TcpRoundEnds, Fm, FmTakes, FmOverruns, FmCloses, FmSame, Signal, SetStreams
<1>6. CASE UNCHANGED vars
  BY <1>6, PlacesSame DEF vars
<1> QED
  BY <1>1, <1>2, <1>3, <1>4, <1>5, <1>6 DEF Next, Main

(* An accepted connection has one slot of the TCP server until it is closed,*)
(* and no slot a closed one, for any number of clients and slots.           *)
THEOREM SlotsAreOwn == Spec => []OwnSlot
<1>1. Init => PlacesInv
  BY DEF Init, PlacesInv, WaitingInv, SlotInv, HasPlace, Live
<1> QED
  BY <1>1, PlacesInductive, PlacesSafe, TypeInductive, TypeCorrect, PTL DEF Spec
-----------------------------------------------------------------------------
(* Differential bits.  Of each stream with an entry: its first group on the *)
(* way follows on what fm95 has, a later one on the group before it, and    *)
(* prev_output has the last bit of the last one, but for groups after one   *)
(* that could not be sent.                                                  *)

Group(k, s) == wire[k].op = 112 /\ wire[k].n = s
NoGroup(i, j, s) == \A k \in 1 .. Len(wire) : i <= k /\ k <= j => ~Group(k, s)
FirstInv ==
    \A s \in Entries \ lost : \A k \in 1 .. Len(wire) :
        wire[k].ref # NoRef /\ Group(k, s) /\ NoGroup(1, k - 1, s) => wire[k].ref = fm.last[s]
LinkInv ==
    \A s \in Entries : \A i, k \in 1 .. Len(wire) :
        /\ wire[k].ref # NoRef
        /\ i < k /\ Group(i, s) /\ Group(k, s) /\ NoGroup(i + 1, k - 1, s)
        => wire[k].ref = wire[i].bit
LastInv ==
    \A s \in Entries \ unsent : \A k \in 1 .. Len(wire) :
        Group(k, s) /\ NoGroup(k + 1, Len(wire), s) => wire[k].bit = prev[s]
NoneInv ==
    \A s \in Entries \ (lost \cup unsent) : NoGroup(1, Len(wire), s) => prev[s] = fm.last[s]
ChainInv == FirstInv /\ LinkInv /\ LastInv /\ NoneInv

LEMMA ChainSafe == ASSUME TypeOK, ChainInv PROVE Decodable
<1> SUFFICES ASSUME NEW k \in 1 .. Len(wire), wire[k].op = 112, wire[k].n \in Entries \ lost,
                    wire[k].ref # NoRef,
                    \A j \in 1 .. k - 1 : wire[j].op # 112 \/ wire[j].n # wire[k].n
             PROVE  wire[k].ref = fm.last[wire[k].n]
  BY DEF Decodable
<1>1. NoGroup(1, k - 1, wire[k].n)
  BY DEF NoGroup, Group
<1> QED
  BY <1>1 DEF ChainInv, FirstInv, Group

LEMMA ChainSame ==
    ASSUME ChainInv, UNCHANGED <<wire, prev, lost, unsent>>, fm'.last = fm.last PROVE ChainInv'
  BY DEF ChainInv, FirstInv, LinkInv, LastInv, NoneInv, NoGroup, Group

(* What Append and Tail do to the positions of groups.                      *)
LEMMA AppendGroups ==
    ASSUME TypeOK, NEW m, wire' = Append(wire, m)
    PROVE  /\ Len(wire) \in Nat /\ Len(wire') = Len(wire) + 1 /\ wire'[Len(wire) + 1] = m
           /\ \A k \in 1 .. Len(wire) : wire'[k] = wire[k]
<1>1. wire \in Seq(Messages \cup {m})
  BY DEF TypeOK
<1> QED
  BY <1>1, AppendProperties

LEMMA TailGroups ==
    ASSUME TypeOK, wire # <<>>, wire' = Tail(wire)
    PROVE  /\ Len(wire) \in Nat \ {0} /\ Len(wire') = Len(wire) - 1 /\ Head(wire) = wire[1]
           /\ \A k \in 1 .. Len(wire) - 1 : wire'[k] = wire[k + 1]
<1>1. wire \in Seq(Messages)
  BY DEF TypeOK
<1> QED
  BY <1>1, HeadTailProperties

(* A message that is no group of a stream with an entry.                    *)
LEMMA AppendOther ==
    ASSUME TypeOK, ChainInv, NEW m, wire' = Append(wire, m), UNCHANGED <<prev, fm, lost, unsent>>,
           \A s \in Entries : ~(m.op = 112 /\ m.n = s)
    PROVE  ChainInv'
<1>0. PICK n \in Nat : n = Len(wire)
  BY AppendGroups
<1>1. /\ n \in Nat /\ Len(wire') = n + 1 /\ wire'[n + 1] = m
      /\ \A k \in 1 .. n : wire'[k] = wire[k]
  BY <1>0, AppendGroups
<1>2. \A s \in Entries : ~Group(n + 1, s)' /\ \A k \in 1 .. n : Group(k, s)' <=> Group(k, s)
  BY <1>1 DEF Group
<1>4. \A s \in Entries : \A i, j \in Int : NoGroup(i, j, s)' => NoGroup(i, j, s)
  BY <1>0, <1>1, <1>2 DEF NoGroup
<1>5. \A s \in Entries : NoGroup(1, n + 1, s)' => NoGroup(1, n, s)
  BY <1>0, <1>1, <1>2 DEF NoGroup
<1>6. \A s \in Entries : \A k \in 1 .. n : NoGroup(k + 1, n + 1, s)' => NoGroup(k + 1, n, s)
  BY <1>0, <1>1, <1>2 DEF NoGroup
<1>7. FirstInv'
  BY <1>0, <1>1, <1>2, <1>4 DEF ChainInv, FirstInv
<1>8. LinkInv'
  BY <1>0, <1>1, <1>2, <1>4 DEF ChainInv, LinkInv
<1>9. LastInv'
  BY <1>0, <1>1, <1>2, <1>6 DEF ChainInv, LastInv
<1>10. NoneInv'
  BY <1>0, <1>1, <1>5 DEF ChainInv, NoneInv
<1> QED
  BY <1>7, <1>8, <1>9, <1>10 DEF ChainInv
(* A group of stream s0, coded after prev_output of it.                     *)
LEMMA AppendOwn ==
    ASSUME TypeOK, ChainInv, NEW s0 \in Entries, NEW m, m.op = 112, m.n = s0, m.ref = Follows(s0),
           unsent' = unsent \ {s0},
           wire' = Append(wire, m), prev' = [prev EXCEPT ![s0] = m.bit], UNCHANGED <<fm, lost>>
    PROVE  ChainInv'
<1>0. PICK n \in Nat : n = Len(wire)
  BY AppendGroups
<1>1. /\ n \in Nat /\ Len(wire') = n + 1 /\ wire'[n + 1] = m
      /\ \A k \in 1 .. n : wire'[k] = wire[k]
  BY <1>0, AppendGroups
<1>2. \A s \in Entries : prev'[s] = IF s = s0 THEN m.bit ELSE prev[s]
  BY DEF TypeOK
<1>3. /\ \A s \in Entries : \A k \in 1 .. n : Group(k, s)' <=> Group(k, s)
      /\ \A s \in Entries : Group(n + 1, s)' <=> s = s0
  BY <1>1 DEF Group
<1>4. \A s \in Entries : \A i, j \in Int : NoGroup(i, j, s)' => NoGroup(i, j, s)
  BY <1>0, <1>1, <1>3 DEF NoGroup
<1>5. \A s \in Entries : \A k \in 0 .. n : NoGroup(k + 1, n + 1, s)' => s # s0 /\ NoGroup(k + 1, n, s)
  BY <1>0, <1>1, <1>3 DEF NoGroup
<1>10. m.ref # NoRef => m.ref = prev[s0] /\ s0 \notin unsent
  BY DEF Follows
<1>6. FirstInv'
  <2> SUFFICES ASSUME NEW s \in Entries \ lost, NEW k \in 1 .. n + 1,
                      wire'[k].ref # NoRef, Group(k, s)', NoGroup(1, k - 1, s)'
               PROVE  wire'[k].ref = fm.last[s]
    BY <1>1 DEF FirstInv
  <2>1. NoGroup(1, k - 1, s)
    BY <1>4
  <2>2. CASE k = n + 1
    <3>1. s = s0 /\ NoGroup(1, Len(wire), s)
      BY <1>0, <1>3, <2>1, <2>2
    <3> QED
      BY <1>1, <1>10, <2>2, <3>1 DEF ChainInv, NoneInv
  <2>3. CASE k \in 1 .. n
    BY <1>0, <1>1, <1>3, <2>1, <2>3 DEF ChainInv, FirstInv
  <2> QED
    BY <1>0, <2>2, <2>3
<1>7. LinkInv'
  <2> SUFFICES ASSUME NEW s \in Entries, NEW i \in 1 .. n + 1, NEW k \in 1 .. n + 1, i < k,
                      wire'[k].ref # NoRef, Group(i, s)', Group(k, s)', NoGroup(i + 1, k - 1, s)'
               PROVE  wire'[k].ref = wire'[i].bit
    BY <1>1 DEF LinkInv
  <2>1. NoGroup(i + 1, k - 1, s) /\ i \in 1 .. n /\ Group(i, s)
    BY <1>0, <1>3, <1>4
  <2>2. CASE k = n + 1
    <3>1. s = s0 /\ NoGroup(i + 1, Len(wire), s)
      BY <1>0, <1>3, <2>1, <2>2
    <3>2. m.ref = prev[s0] /\ s0 \notin unsent
      BY <1>1, <1>10, <2>2
    <3>3. wire[i].bit = prev[s]
      BY <1>0, <2>1, <3>1, <3>2 DEF ChainInv, LastInv
    <3> QED
      BY <1>1, <2>1, <2>2, <3>1, <3>2, <3>3
  <2>3. CASE k \in 1 .. n
    BY <1>0, <1>1, <1>3, <2>1, <2>3 DEF ChainInv, LinkInv
  <2> QED
    BY <1>0, <2>2, <2>3
<1>8. LastInv'
  <2> SUFFICES ASSUME NEW s \in Entries \ unsent', NEW k \in 1 .. n + 1,
                      Group(k, s)', NoGroup(k + 1, n + 1, s)'
               PROVE  wire'[k].bit = prev'[s]
    BY <1>1 DEF LastInv
  <2>1. CASE k = n + 1
    BY <1>1, <1>2, <1>3, <2>1
  <2>2. CASE k \in 1 .. n
    <3>1. s # s0 /\ NoGroup(k + 1, Len(wire), s) /\ Group(k, s)
      BY <1>0, <1>3, <1>5, <2>2
    <3> QED
      BY <1>0, <1>1, <1>2, <2>2, <3>1 DEF ChainInv, LastInv
  <2> QED
    BY <1>0, <2>1, <2>2
<1>9. NoneInv'
  <2> SUFFICES ASSUME NEW s \in Entries \ (lost \cup unsent'), NoGroup(0 + 1, n + 1, s)'
               PROVE  prev'[s] = fm.last[s]
    BY <1>1 DEF NoneInv
  <2>1. s # s0 /\ NoGroup(1, Len(wire), s)
    BY <1>0, <1>5
  <2> QED
    BY <1>2, <2>1 DEF ChainInv, NoneInv
<1> QED
  BY <1>6, <1>7, <1>8, <1>9 DEF ChainInv

(* fm95 takes the first message: last has its bit then, or the stream's     *)
(* group is lost, or it was none.                                           *)
LEMMA TakeFirst ==
    ASSUME TypeOK, ChainInv, wire # <<>>, wire' = Tail(wire), UNCHANGED <<prev, unsent>>,
           \A s \in Entries \ lost' :
               IF Group(1, s) THEN fm'.last[s] = wire[1].bit
               ELSE fm'.last[s] = fm.last[s] /\ s \notin lost
    PROVE  ChainInv'
<1>0. PICK n \in Nat : n + 1 = Len(wire)
  <2>1. Len(wire) - 1 \in Nat /\ (Len(wire) - 1) + 1 = Len(wire)
    BY TailGroups
  <2> QED
    BY <2>1
<1>1. Len(wire') = n /\ \A k \in 1 .. n : wire'[k] = wire[k + 1]
  BY <1>0, TailGroups
<1>2. \A s \in Entries : \A k \in 1 .. n : Group(k, s)' <=> Group(k + 1, s)
  BY <1>1 DEF Group
<1>3. ASSUME NEW s \in Entries, NEW i \in Int, NEW j \in Int, i >= 1, NoGroup(i, j, s)'
      PROVE  NoGroup(i + 1, j + 1, s)
  <2>1. ASSUME NEW k \in 1 .. n + 1, i + 1 <= k, k <= j + 1, Group(k, s) PROVE FALSE
    <3>1. k - 1 \in 1 .. n /\ i <= k - 1 /\ k - 1 <= j
      BY <1>0, <1>3, <2>1
    <3>2. Group(k - 1, s)'
      BY <1>2, <2>1, <3>1
    <3> QED
      BY <1>1, <1>3, <3>1, <3>2 DEF NoGroup
  <2> QED
    BY <1>0, <2>1 DEF NoGroup
<1>4. \A s \in Entries : \A j \in Int : ~Group(1, s) /\ NoGroup(2, j, s) => NoGroup(1, j, s)
  BY <1>0 DEF NoGroup
<1>5. FirstInv'
  <2> SUFFICES ASSUME NEW s \in Entries \ lost', NEW k \in 1 .. n,
                      wire'[k].ref # NoRef, Group(k, s)', NoGroup(1, k - 1, s)'
               PROVE  wire'[k].ref = fm'.last[s]
    BY <1>1 DEF FirstInv
  <2>1. NoGroup(2, k, s) /\ Group(k + 1, s) /\ wire'[k] = wire[k + 1]
    <3>1. NoGroup(1 + 1, (k - 1) + 1, s)
      BY <1>3
    <3> QED
      BY <1>1, <1>2, <3>1
  <2>2. CASE Group(1, s)
    <3>1. wire[k + 1].ref = wire[1].bit
      <4>1. NoGroup(1 + 1, (k + 1) - 1, s)
        BY <2>1
      <4> QED
        BY <1>0, <2>1, <2>2, <4>1 DEF ChainInv, LinkInv
    <3> QED
      BY <2>1, <2>2, <3>1
  <2>3. CASE ~Group(1, s)
    <3>1. NoGroup(1, (k + 1) - 1, s)
      BY <1>4, <2>1, <2>3
    <3> QED
      BY <1>0, <2>1, <2>3, <3>1 DEF ChainInv, FirstInv
  <2> QED
    BY <2>2, <2>3
<1>6. LinkInv'
  <2> SUFFICES ASSUME NEW s \in Entries, NEW i \in 1 .. n, NEW k \in 1 .. n, i < k,
                      wire'[k].ref # NoRef, Group(i, s)', Group(k, s)', NoGroup(i + 1, k - 1, s)'
               PROVE  wire'[k].ref = wire'[i].bit
    BY <1>1 DEF LinkInv
  <2>1. NoGroup((i + 1) + 1, (k + 1) - 1, s)
    <3>1. NoGroup((i + 1) + 1, (k - 1) + 1, s)
      BY <1>3
    <3> QED
      BY <3>1
  <2>2. Group(i + 1, s) /\ Group(k + 1, s) /\ wire'[i] = wire[i + 1] /\ wire'[k] = wire[k + 1]
    BY <1>1, <1>2
  <2> QED
    BY <1>0, <2>1, <2>2 DEF ChainInv, LinkInv
<1>7. LastInv'
  <2> SUFFICES ASSUME NEW s \in Entries \ unsent, NEW k \in 1 .. n,
                      Group(k, s)', NoGroup(k + 1, n, s)'
               PROVE  wire'[k].bit = prev[s]
    BY <1>1 DEF LastInv
  <2>1. NoGroup((k + 1) + 1, Len(wire), s)
    <3>1. NoGroup((k + 1) + 1, n + 1, s)
      BY <1>3
    <3> QED
      BY <1>0, <3>1
  <2>2. Group(k + 1, s) /\ wire'[k] = wire[k + 1]
    BY <1>1, <1>2
  <2> QED
    BY <1>0, <2>1, <2>2 DEF ChainInv, LastInv
<1>8. NoneInv'
  <2> SUFFICES ASSUME NEW s \in Entries \ (lost' \cup unsent), NoGroup(1, n, s)'
               PROVE  prev[s] = fm'.last[s]
    BY <1>1 DEF NoneInv
  <2>1. NoGroup(1 + 1, Len(wire), s)
    <3>1. NoGroup(1 + 1, n + 1, s)
      BY <1>3
    <3> QED
      BY <1>0, <3>1
  <2>2. CASE Group(1, s)
    BY <1>0, <2>1, <2>2 DEF ChainInv, LastInv
  <2>3. CASE ~Group(1, s)
    <3>1. NoGroup(1, Len(wire), s)
      BY <1>0, <1>4, <2>1, <2>3
    <3> QED
      BY <2>3, <3>1 DEF ChainInv, NoneInv
  <2> QED
    BY <2>2, <2>3
<1> QED
  BY <1>5, <1>6, <1>7, <1>8 DEF ChainInv
LEMMA FmChain ==
    ASSUME TypeOK, ChainInv, Fm PROVE ChainInv'
<1>1. wire # <<>> /\ wire' = Tail(wire) /\ UNCHANGED <<prev, unsent>>
  BY DEF Fm, FmTakes, FmOverruns, FmSame
<1>2. Head(wire) = wire[1] /\ 1 \in 1 .. Len(wire)
  BY <1>1, TailGroups
<1>3. fm \in [up : BOOLEAN, known : 0 .. 7, last : [Entries -> Bits]]
  BY DEF TypeOK
<1>4. ASSUME NEW s \in Entries \ lost'
      PROVE  IF Group(1, s) THEN fm'.last[s] = wire[1].bit
             ELSE fm'.last[s] = fm.last[s] /\ s \notin lost
  <2>1. CASE FmTakes /\ wire[1].op = 113
    BY <1>2, <1>3, <1>4, <2>1 DEF FmTakes, Group
  <2>2. CASE FmTakes /\ wire[1].op # 113 /\ wire[1].n \in Entries
    <3>1. /\ fm' = [fm EXCEPT !.last[wire[1].n] = wire[1].bit] /\ lost' = lost \ {wire[1].n}
      BY <1>2, <2>2 DEF FmTakes
    <3>2. fm'.last[s] = IF s = wire[1].n THEN wire[1].bit ELSE fm.last[s]
      BY <1>3, <2>2, <3>1
    <3>3. wire[1] \in Messages
      BY <1>2 DEF TypeOK
    <3>4. wire[1].op = 112
      BY <2>2, <3>3 DEF Messages
    <3> QED
      BY <1>4, <3>1, <3>2, <3>4 DEF Group
  <2>3. CASE FmTakes /\ wire[1].op # 113 /\ wire[1].n \notin Entries
    BY <1>2, <1>4, <2>3 DEF FmTakes, Group
  <2>4. CASE FmOverruns
    BY <1>2, <1>4, <2>4 DEF FmOverruns, Group
  <2> QED
    BY <2>1, <2>2, <2>3, <2>4 DEF Fm
<1> QED
  BY <1>1, <1>4, TakeFirst

LEMMA SendChain ==
    ASSUME TypeOK, ChainInv, Announce \/ SendBits PROVE ChainInv'
<1>1. UNCHANGED <<fm, lost>>
  BY DEF Announce, SendBits, IpcSame
<1>2. CASE Announce
  <2>1. wire' = Append(wire, Announcement(main.sent)) /\ UNCHANGED <<prev, unsent>>
    BY <1>2 DEF Announce
  <2> QED
    BY <1>1, <2>1, AppendOther DEF Announcement
<1>3. CASE SendBits /\ main.s \notin Entries
  <2>1. wire' = Append(wire, Unspecified(main.s)) /\ prev' = prev
    BY <1>3 DEF SendBits
  <2>2. unsent' = unsent
    BY <1>3 DEF SendBits, TypeOK
  <2> QED
    BY <1>1, <1>3, <2>1, <2>2, AppendOther DEF Unspecified, GroupOf
<1>4. CASE SendBits /\ main.s \in Entries
  <2>1. PICK sum \in Bits :
          LET bit == Flip(prev[main.s], sum)
          IN wire' = Append(wire, GroupOf(main.s, Follows(main.s), bit)) /\ CodeBits(bit)
    BY <1>4 DEF SendBits
  <2> DEFINE m == GroupOf(main.s, Follows(main.s), Flip(prev[main.s], sum))
  <2>2. m.op = 112 /\ m.n = main.s /\ m.ref = Follows(main.s) /\ m.bit = Flip(prev[main.s], sum)
    BY DEF GroupOf
  <2>3. wire' = Append(wire, m) /\ prev' = [prev EXCEPT ![main.s] = m.bit]
    BY <1>4, <2>1, <2>2 DEF CodeBits, Put
  <2>4. unsent' = unsent \ {main.s}
    BY <1>4 DEF SendBits
  <2> HIDE DEF m
  <2> QED
    BY <1>1, <1>4, <2>2, <2>3, <2>4, AppendOwn
<1> QED
  BY <1>2, <1>3, <1>4

(* A group that could not be sent moves prev_output on: the next one of its *)
(* stream is no longer taken to follow on what fm95 has.                    *)
LEMMA FailChain ==
    ASSUME TypeOK, ChainInv, SendBitsFails PROVE ChainInv'
<1>1. UNCHANGED <<wire, fm, lost>> /\ unsent' = unsent \cup ({main.s} \cap Entries)
  BY DEF SendBitsFails, IpcSame
<1>2. PICK bit \in Bits : CodeBits(bit)
  BY DEF SendBitsFails
<1>3. \A s \in Entries \ unsent' : prev'[s] = prev[s] /\ s \notin unsent
  BY <1>1, <1>2 DEF CodeBits, Put, TypeOK
<1>4. FirstInv' /\ LinkInv'
  BY <1>1 DEF ChainInv, FirstInv, LinkInv, NoGroup, Group
<1>5. LastInv' /\ NoneInv'
  BY <1>1, <1>3 DEF ChainInv, LastInv, NoneInv, NoGroup, Group
<1> QED
  BY <1>4, <1>5 DEF ChainInv

LEMMA ChainInductive ==
    ASSUME TypeOK, ChainInv, [Next]_vars PROVE ChainInv'
<1>1. CASE Fm \/ Announce \/ SendBits \/ SendBitsFails
  BY <1>1, FmChain, SendChain, FailChain
<1>2. CASE FmCloses \/ End
  <2>1. fm'.last = fm.last /\ UNCHANGED <<wire, prev, lost, unsent>>
    BY <1>2 DEF FmCloses, End, FmSame, TypeOK
  <2> QED
    BY <2>1, ChainSame
<1>3. CASE Signal \/ \E n \in StreamCounts : SetStreams(n)
  BY <1>3, ChainSame DEF Signal, SetStreams
<1>4. CASE \E c \in Clients : Connect(c) \/ Leave(c) \/ Reset(c)
  BY <1>4, ChainSame DEF Connect, Leave, Reset, ClientSame
<1>5. CASE Top \/ Killed \/ AnnounceFails \/ Received \/ RoundEnds \/ Check \/ Assign
  BY <1>5, ChainSame DEF Top, Killed, AnnounceFails, Received, RoundEnds, Check, Assign, IpcSame
<1>6. CASE Accept \/ SendLines \/ TcpRoundEnds
  BY <1>6, ChainSame DEF Accept, SendLines, TcpRoundEnds, TcpSame
<1>7. CASE UNCHANGED vars
  BY <1>7, ChainSame DEF vars
<1> QED
  BY <1>1, <1>2, <1>3, <1>4, <1>5, <1>6, <1>7 DEF Next, Main

(* A group on its way to fm95 follows on the last bit fm95 has of its       *)
(* stream, whatever came between, unless the one before was dropped there   *)
(* or could not be sent, for any number of streams and entries:             *)
(* ipc_send_bits.                                                           *)
THEOREM BitsFollow == Spec => []Decodable
<1>1. Init => ChainInv
  BY DEF Init, ChainInv, FirstInv, LinkInv, LastInv, NoneInv
<1> QED
  BY <1>1, ChainInductive, ChainSafe, TypeInductive, TypeCorrect, PTL DEF Spec
=============================================================================

---------------------------- MODULE Uecp_proofs -----------------------------
(***************************************************************************)
(* What frames write is what they name, for any number of programs and of  *)
(* streams, any data set numbers and any behaviour of the other senders.   *)
(***************************************************************************)
EXTENDS Uecp, TLAPS

(* The writing program is the one on air between elements, but after an     *)
(* error or a command that moved it.                                        *)
WritingOnAir == diverted \/ writing = output

LEMMA ReachedPrograms ==
    ASSUME NEW dsn \in Dsns, NEW p \in Programs
    PROVE  Reached(dsn, p) \subseteq Programs
<1>1. Clamp(dsn - 1) \in Programs
  BY ConstantsAssumption DEF Clamp, Programs
<1> QED
  BY <1>1 DEF Reached

(* The least of the programs reached: they are one, all, or all but one.    *)
LEMMA FirstProgram ==
    ASSUME NEW dsn \in Dsns, writing \in Programs
    PROVE  First(dsn) \in Programs
<1> DEFINE R == Reached(dsn, writing)
           Least(p) == p \in R /\ \A q \in R : p <= q
<1>1. CASE R = {}
  BY <1>1 DEF First
<1>2. CASE R # {}
  <2>1. \E p \in R : Least(p)
    <3>1. CASE dsn = 254
      <4>1. R = Programs \ {writing}
        BY <3>1 DEF Reached
      <4>2. CASE writing = 0
        <5>1. 1 \in R /\ \A q \in R : 1 <= q
          BY <4>1, <4>2, <1>2, ConstantsAssumption DEF Programs
        <5> QED
          BY <5>1
      <4>3. CASE writing # 0
        <5>1. 0 \in R /\ \A q \in R : 0 <= q
          BY <4>1, <4>3, ConstantsAssumption DEF Programs
        <5> QED
          BY <5>1
      <4> QED
        BY <4>2, <4>3
    <3>2. CASE dsn = 255
      <4>1. 0 \in R /\ \A q \in R : 0 <= q
        BY <3>2, ConstantsAssumption DEF Reached, Programs
      <4> QED
        BY <4>1
    <3>3. CASE dsn \notin {254, 255}
      <4>1. PICK p : R = {p}
        BY <3>3 DEF Reached
      <4>2. p \in Int
        BY <4>1, ReachedPrograms DEF Programs
      <4> QED
        BY <4>1, <4>2
    <3> QED
      BY <3>1, <3>2, <3>3
  <2>2. First(dsn) = CHOOSE p \in R : \A q \in R : p <= q
    BY <1>2 DEF First
  <2>3. First(dsn) \in R
    BY <2>1, <2>2
  <2> QED
    BY <2>3, ReachedPrograms
<1> QED
  BY <1>1, <1>2

LEMMA NumberTyped ==
    ASSUME TypeOK, Command PROVE Number \in Numbers /\ commands' \in Numbers
  BY ConstantsAssumption DEF TypeOK, Command, Number, Numbers

LEMMA ElementTyped ==
    ASSUME TypeOK, NEW on \in Programs, Element(on)
    PROVE  /\ output' \in Programs /\ writing' \in Programs /\ commands' \in Numbers
           /\ streams' \in StreamCounts
           /\ tx' \in [pc : {"pre", "select"}, s : 0 .. streams' - 1]
           /\ air' \in Numbers /\ frame' \in BOOLEAN /\ diverted' \in BOOLEAN
           /\ Number \in Numbers
  BY NumberTyped DEF TypeOK, Element, Done, Command

LEMMA AsciiTyped ==
    ASSUME TypeOK, NEW on \in Programs, NEW to \in Programs, Ascii(on, to)
    PROVE  /\ output' \in Programs /\ writing' \in Programs /\ commands' \in Numbers
           /\ streams' \in StreamCounts
           /\ tx' \in [pc : {"pre", "select"}, s : 0 .. streams' - 1]
           /\ air' \in Numbers /\ frame' \in BOOLEAN /\ diverted' \in BOOLEAN
           /\ Number \in Numbers
<1>1. CASE Element(on)
  BY <1>1, ElementTyped
<1>2. CASE /\ ~frame /\ Command
           /\ output' = on /\ writing' = to /\ diverted' = (to # on)
           /\ UNCHANGED frame
  BY <1>2, NumberTyped DEF TypeOK, Command
<1> QED
  BY <1>1, <1>2 DEF Ascii

LEMMA TextBufferWith ==
    ASSUME NEW S, NEW D, NEW b \in [seq : S, idx : Nat, left : D],
           NEW q \in S, NEW i \in Nat, NEW l \in D
    PROVE  /\ [b EXCEPT !.seq = q] \in [seq : S, idx : Nat, left : D]
           /\ [b EXCEPT !.seq = q].seq = q /\ [b EXCEPT !.seq = q].idx = b.idx
           /\ [b EXCEPT !.idx = i, !.left = l] \in [seq : S, idx : Nat, left : D]
           /\ [b EXCEPT !.idx = i, !.left = l].seq = b.seq
           /\ [b EXCEPT !.idx = i, !.left = l].idx = i
  OBVIOUS

LEMMA ElementIn ==
    ASSUME NEW S, NEW q \in Seq(S), NEW i \in 1 .. Len(q) PROVE q[i] \in S
  OBVIOUS

LEMMA FreeBufferWith ==
    ASSUME NEW S, NEW b \in [seq : S, idx : Nat], NEW q \in S
    PROVE  /\ [b EXCEPT !.seq = q] \in [seq : S, idx : Nat]
           /\ [b EXCEPT !.seq = q].seq = q /\ [b EXCEPT !.seq = q].idx = b.idx
  OBVIOUS

-----------------------------------------------------------------------------
(* Type correctness, action by action *)

LEMMA SetTyped ==
    ASSUME TypeOK, NEW dsn \in Dsns, Set(dsn) PROVE TypeOK'
<1>1. output \in Programs
  BY DEF TypeOK
<1>2. named' \subseteq Programs
  BY <1>1, ReachedPrograms DEF Set
<1>3. val' \in [Programs -> Numbers]
  BY <1>1, ElementTyped DEF Set, TypeOK
<1> QED
  BY <1>1, <1>2, <1>3, ElementTyped DEF Set, TypeOK

LEMMA SetFailsTyped ==
    ASSUME TypeOK, NEW dsn \in Dsns, SetFails(dsn) PROVE TypeOK'
<1>1. First(dsn) \in Programs
  BY FirstProgram DEF TypeOK
<1> QED
  BY <1>1, NumberTyped DEF SetFails, Command, TypeOK

LEMMA SetTextTyped ==
    ASSUME TypeOK, NEW dsn \in Dsns, NEW n \in Repeats, SetText(dsn, n) PROVE TypeOK'
<1>1. output \in Programs
  BY DEF TypeOK
<1>2. named' \subseteq Programs
  BY <1>1, ReachedPrograms DEF SetText
<1>3. rt' \in [Programs -> Numbers]
  BY <1>1, ElementTyped DEF SetText, TypeOK
<1>4. Number \in Numbers /\ n \in 0 .. 15
  BY <1>1, ElementTyped, ConstantsAssumption DEF SetText
<1>7. rtOn' \in [Programs -> BOOLEAN]
  <2>1. rtOn' = [p \in Programs |-> rtOn[p] \/ p \in Reached(dsn, writing)]
    BY DEF SetText
  <2>2. \A p \in Programs : (rtOn[p] \/ p \in Reached(dsn, writing)) \in BOOLEAN
    OBVIOUS
  <2> QED
    BY <2>1, <2>2, Zenon
<1>5. Entry(Number, n) \in [text : Numbers, tx : 0 .. 15]
  BY <1>4 DEF Entry
<1>6. /\ rtBuf' \in [seq : Seq([text : Numbers, tx : 0 .. 15]), idx : Nat, left : 0 .. 15]
      /\ rtBuf'.idx \in 1 .. Len(rtBuf'.seq) + 1
  BY <1>4, <1>5 DEF SetText
<1> QED
  BY <1>1, <1>2, <1>3, <1>6, <1>7, ElementTyped DEF SetText, TypeOK

LEMMA AddTextTyped ==
    ASSUME TypeOK, NEW n \in Repeats, AddText(n) PROVE TypeOK'
<1>1. output \in Programs
  BY DEF TypeOK
<1>2. Number \in Numbers /\ n \in 0 .. 15
  BY <1>1, ElementTyped, ConstantsAssumption DEF AddText
<1>3. Entry(Number, n) \in [text : Numbers, tx : 0 .. 15]
  BY <1>2 DEF Entry
<1>4. /\ rtBuf' \in [seq : Seq([text : Numbers, tx : 0 .. 15]), idx : Nat, left : 0 .. 15]
      /\ rtBuf'.idx \in 1 .. Len(rtBuf'.seq) + 1
  <2>1. /\ rtBuf.seq \in Seq([text : Numbers, tx : 0 .. 15])
        /\ rtBuf.idx \in 1 .. Len(rtBuf.seq) + 1
    BY DEF TypeOK
  <2>2. rtBuf' = [rtBuf EXCEPT !.seq = Append(rtBuf.seq, Entry(Number, n))]
    BY DEF AddText
  <2>3. /\ Append(rtBuf.seq, Entry(Number, n)) \in Seq([text : Numbers, tx : 0 .. 15])
        /\ Len(Append(rtBuf.seq, Entry(Number, n))) = Len(rtBuf.seq) + 1
    BY <1>3, <2>1
  <2>4. rtBuf \in [seq : Seq([text : Numbers, tx : 0 .. 15]), idx : Nat, left : 0 .. 15]
    BY DEF TypeOK
  <2>5. /\ rtBuf' \in [seq : Seq([text : Numbers, tx : 0 .. 15]), idx : Nat, left : 0 .. 15]
        /\ rtBuf'.seq = Append(rtBuf.seq, Entry(Number, n)) /\ rtBuf'.idx = rtBuf.idx
    BY <2>2, <2>3, <2>4, TextBufferWith
  <2> QED
    BY <2>1, <2>3, <2>5
<1> QED
  BY <1>1, <1>4, ElementTyped DEF AddText, TypeOK

LEMMA BufferTyped ==
    ASSUME TypeOK, PutFree \/ PutFreeFails \/ AddFree \/ ClearFree \/ FrameEnd
    PROVE  TypeOK'
<1>1. output \in Programs
  BY DEF TypeOK
<1>3. CASE PutFree
  BY <1>1, <1>3, ElementTyped DEF PutFree, TypeOK
<1>4. CASE PutFreeFails
  BY <1>4, NumberTyped DEF PutFreeFails, Command, TypeOK
<1>5. CASE AddFree
  <2>1. Number \in Numbers
    BY <1>1, <1>5, ElementTyped DEF AddFree
  <2>2. /\ free' \in [seq : Seq(Numbers), idx : Nat]
        /\ free'.idx = 1 \/ free'.idx \in 1 .. Len(free'.seq)
    <3>1. free' = [free EXCEPT !.seq = Append(free.seq, Number)]
      BY <1>5 DEF AddFree
    <3>2. /\ Append(free.seq, Number) \in Seq(Numbers)
          /\ Len(Append(free.seq, Number)) = Len(free.seq) + 1
      BY <2>1 DEF TypeOK
    <3>3. free \in [seq : Seq(Numbers), idx : Nat] /\ Len(free.seq) \in Nat
      BY DEF TypeOK
    <3>4. /\ free' \in [seq : Seq(Numbers), idx : Nat]
          /\ free'.seq = Append(free.seq, Number) /\ free'.idx = free.idx
      BY <3>1, <3>2, <3>3, FreeBufferWith
    <3>5. free.idx = 1 \/ free.idx \in 1 .. Len(free.seq)
      BY DEF TypeOK
    <3> QED
      BY <3>2, <3>3, <3>4, <3>5
  <2> QED
    BY <1>1, <1>5, <2>2, ElementTyped DEF AddFree, TypeOK
<1>6. CASE ClearFree
  BY <1>1, <1>6, ElementTyped DEF ClearFree, EmptyFree, TypeOK
<1>7. CASE FrameEnd
  BY <1>7 DEF FrameEnd, TypeOK
<1> QED
  BY <1>3, <1>4, <1>5, <1>6, <1>7

LEMMA ClearTextTyped ==
    ASSUME TypeOK, NEW dsn \in Dsns, ClearText(dsn) PROVE TypeOK'
<1>1. output \in Programs
  BY DEF TypeOK
<1>2. named' \subseteq Programs
  BY <1>1, ReachedPrograms DEF ClearText
<1>3. rtOn' \in [Programs -> BOOLEAN]
  <2>1. rtOn' = [p \in Programs |-> rtOn[p] /\ p \notin Reached(dsn, writing)]
    BY DEF ClearText
  <2>2. \A p \in Programs : (rtOn[p] /\ p \notin Reached(dsn, writing)) \in BOOLEAN
    OBVIOUS
  <2> QED
    BY <2>1, <2>2, Zenon
<1>4. /\ rtBuf' \in [seq : Seq([text : Numbers, tx : 0 .. 15]), idx : Nat, left : 0 .. 15]
      /\ rtBuf'.idx \in 1 .. Len(rtBuf'.seq) + 1
  BY DEF ClearText, EmptyTexts
<1> QED
  BY <1>1, <1>2, <1>3, <1>4, ElementTyped DEF ClearText, TypeOK

LEMMA SelectTyped ==
    ASSUME TypeOK, NEW dsn \in Dsns, SelectDataSet(dsn) PROVE TypeOK'
<1>1. Clamp(dsn) \in Programs
  BY ConstantsAssumption DEF Clamp, Programs
<1> QED
  BY <1>1, ElementTyped DEF SelectDataSet, TypeOK

LEMMA AsciiCommandsTyped ==
    ASSUME TypeOK,
           \/ \E p \in Programs : SetWriting(p) \/ SetProgram(p)
           \/ \E b \in BOOLEAN : EnableText(b)
           \/ AsciiSet \/ AsciiText \/ AsciiGroup
    PROVE  TypeOK'
<1>1. output \in Programs /\ writing \in Programs
  BY DEF TypeOK
<1>2. ASSUME NEW p \in Programs, SetWriting(p) PROVE TypeOK'
  BY <1>1, <1>2, AsciiTyped DEF SetWriting, TypeOK
<1>3. ASSUME NEW p \in Programs, SetProgram(p) PROVE TypeOK'
  BY <1>1, <1>3, AsciiTyped DEF SetProgram, TypeOK
<1>4. ASSUME NEW b \in BOOLEAN, EnableText(b) PROVE TypeOK'
  <2>1. rtOn' \in [Programs -> BOOLEAN] /\ named' \subseteq Programs
    BY <1>1, <1>4 DEF EnableText, TypeOK
  <2> QED
    BY <1>1, <1>4, <2>1, AsciiTyped DEF EnableText, TypeOK
<1>5. CASE AsciiSet
  <2>1. Number \in Numbers
    BY <1>1, <1>5, AsciiTyped DEF AsciiSet
  <2>2. val' \in [Programs -> Numbers] /\ named' \subseteq Programs
    BY <1>1, <1>5, <2>1 DEF AsciiSet, TypeOK
  <2> QED
    BY <1>1, <1>5, <2>2, AsciiTyped DEF AsciiSet, TypeOK
<1>6. CASE AsciiText
  <2>1. Number \in Numbers
    BY <1>1, <1>6, AsciiTyped DEF AsciiText
  <2>2. /\ rtBuf' \in [seq : Seq([text : Numbers, tx : 0 .. 15]), idx : Nat, left : 0 .. 15]
        /\ rtBuf'.idx \in 1 .. Len(rtBuf'.seq) + 1
    BY <1>6, <2>1 DEF AsciiText, Entry
  <2>3. /\ rt' \in [Programs -> Numbers] /\ rtOn' \in [Programs -> BOOLEAN]
        /\ named' \subseteq Programs
    BY <1>1, <1>6, <2>1 DEF AsciiText, TypeOK
  <2> QED
    BY <1>1, <1>6, <2>2, <2>3, AsciiTyped DEF AsciiText, TypeOK
<1>7. CASE AsciiGroup
  <2>1. Number \in Numbers
    BY <1>1, <1>7, AsciiTyped DEF AsciiGroup
  <2>2. custom' \in [Programs -> Numbers] /\ named' \subseteq Programs
    BY <1>1, <1>7, <2>1 DEF AsciiGroup, TypeOK
  <2> QED
    BY <1>1, <1>7, <2>2, AsciiTyped DEF AsciiGroup, TypeOK
<1> QED
  BY <1>2, <1>3, <1>4, <1>5, <1>6, <1>7

LEMMA NextStreamTyped ==
    ASSUME TypeOK, NextStream, streams' = streams
    PROVE  tx' \in [pc : {"pre", "select"}, s : 0 .. streams' - 1]
<1>1. streams \in Nat \ {0} /\ tx.s \in Nat
  BY ConstantsAssumption DEF TypeOK
<1>2. (tx.s + 1) % streams \in 0 .. streams - 1
  BY <1>1
<1> QED
  BY <1>2 DEF NextStream

LEMMA TxTyped ==
    ASSUME TypeOK, Tx PROVE TypeOK'
<1>1. CASE PreTx
  <2>1. CASE frame \/ free.seq = <<>>
    BY <1>1, <2>1 DEF PreTx, TxSame, TypeOK
  <2>2. CASE ~(frame \/ free.seq = <<>>)
    <3>1. Len(free.seq) \in Nat \ {0} /\ free.idx \in 1 .. Len(free.seq)
      BY <2>2 DEF TypeOK
    <3>2. free.seq[free.idx] \in Numbers
      BY <3>1 DEF TypeOK
    <3>3. AfterFree \in 1 .. Len(free.seq)
      BY <3>1 DEF AfterFree
    <3>4. custom' \in [Programs -> Numbers]
      <4>1. PICK v \in Numbers : v = free.seq[free.idx]
        BY <3>2
      <4>2. custom' = IF custom[writing] # 0 THEN custom ELSE [custom EXCEPT ![writing] = v]
        BY <1>1, <2>2, <4>1 DEF PreTx
      <4> QED
        BY <4>2 DEF TypeOK
    <3>5. /\ free' \in [seq : Seq(Numbers), idx : Nat]
          /\ free'.idx = 1 \/ free'.idx \in 1 .. Len(free'.seq)
      <4>1. free' = [free EXCEPT !.idx = AfterFree]
        BY <1>1, <2>2 DEF PreTx
      <4>2. free \in [seq : Seq(Numbers), idx : Nat]
        BY DEF TypeOK
      <4> QED
        BY <3>1, <3>3, <4>1, <4>2
    <3> QED
      BY <1>1, <3>4, <3>5 DEF PreTx, TxSame, TypeOK
  <2> QED
    BY <2>1, <2>2
<1>2. CASE Custom
  <2>1. custom' \in [Programs -> Numbers]
    BY <1>2, ConstantsAssumption DEF Custom, TypeOK, Numbers
  <2> QED
    BY <1>2, <2>1, NextStreamTyped DEF Custom, TxSame, TypeOK
<1>3. CASE Rds2
  BY <1>3, NextStreamTyped DEF Rds2, TxSame, TypeOK
<1>4. ASSUME Sequence PROVE
        /\ tx' \in [pc : {"pre", "select"}, s : 0 .. streams' - 1]
        /\ air' \in Numbers
        /\ UNCHANGED <<output, writing, val, rtOn, frame, streams, diverted, commands, free,
                       custom>>
  BY <1>4, NextStreamTyped, ConstantsAssumption DEF Sequence, TxSame, Numbers
<1>5. CASE SequenceGroup
  BY <1>4, <1>5 DEF SequenceGroup, TypeOK
<1>6. CASE TextEnds
  <2>1. CASE frame \/ Len(rtBuf.seq) < 2
    BY <1>4, <1>6, <2>1 DEF TextEnds, TypeOK
  <2>2. CASE ~(frame \/ Len(rtBuf.seq) < 2) /\ rtBuf.left > 1
    <3>1. rtBuf.left - 1 \in 0 .. 15
      BY <2>2 DEF TypeOK
    <3>2. rtBuf' = [rtBuf EXCEPT !.left = @ - 1] /\ UNCHANGED <<rt, named>>
      BY <1>6, <2>2 DEF TextEnds
    <3> QED
      BY <1>4, <1>6, <3>1, <3>2 DEF TextEnds, TypeOK
  <2>3. CASE ~(frame \/ Len(rtBuf.seq) < 2) /\ ~(rtBuf.left > 1)
    <3> DEFINE i == (rtBuf.idx % Len(rtBuf.seq)) + 1
    <3>1. /\ rtBuf' = [rtBuf EXCEPT !.idx = i, !.left = rtBuf.seq[i].tx]
          /\ rt' = [rt EXCEPT ![writing] = rtBuf.seq[i].text] /\ named' = {output}
      BY <1>6, <2>3 DEF TextEnds
    <3>2. Len(rtBuf.seq) \in Nat \ {0} /\ rtBuf.idx \in Nat
      BY <2>3 DEF TypeOK
    <3>3. i \in 1 .. Len(rtBuf.seq)
      BY <3>2
    <3>4. rtBuf.seq[i] \in [text : Numbers, tx : 0 .. 15]
      <4>1. rtBuf.seq \in Seq([text : Numbers, tx : 0 .. 15])
        BY DEF TypeOK
      <4> HIDE DEF i
      <4> QED
        BY <3>3, <4>1, ElementIn
    <3>5. rt' \in [Programs -> Numbers]
      BY <3>1, <3>4 DEF TypeOK
    <3>6. /\ rtBuf' \in [seq : Seq([text : Numbers, tx : 0 .. 15]), idx : Nat, left : 0 .. 15]
          /\ rtBuf'.idx \in 1 .. Len(rtBuf'.seq) + 1
      <4> HIDE DEF i
      <4>1. rtBuf.seq[i].tx \in 0 .. 15 /\ i \in Nat
        BY <3>2, <3>3, <3>4
      <4>2. rtBuf \in [seq : Seq([text : Numbers, tx : 0 .. 15]), idx : Nat, left : 0 .. 15]
        BY DEF TypeOK
      <4>3. rtBuf.seq \in Seq([text : Numbers, tx : 0 .. 15])
        BY <4>2
      <4>4. /\ rtBuf' \in [seq : Seq([text : Numbers, tx : 0 .. 15]), idx : Nat, left : 0 .. 15]
            /\ rtBuf'.seq = rtBuf.seq /\ rtBuf'.idx = i
        BY <3>1, <4>1, <4>2, <4>3, TextBufferWith
      <4> QED
        BY <3>2, <3>3, <4>4
    <3> QED
      BY <1>4, <1>6, <3>1, <3>5, <3>6 DEF TextEnds, TypeOK
  <2> QED
    BY <2>1, <2>2, <2>3
<1> QED
  BY <1>1, <1>2, <1>3, <1>5, <1>6 DEF Tx

LEMMA TypeInductive ==
    ASSUME TypeOK, [Next]_vars PROVE TypeOK'
<1>1. CASE UNCHANGED vars
  BY <1>1 DEF vars, TypeOK
<1> QED
  BY <1>1, SetTyped, SetFailsTyped, SetTextTyped, AddTextTyped, ClearTextTyped, BufferTyped,
     SelectTyped, AsciiCommandsTyped, TxTyped DEF Next

(* The variables keep their types: numbers of commands, data sets within    *)
(* the programs, and both indices of uecp.lua within their buffers.         *)
THEOREM TypeCorrect == Spec => []TypeOK
<1>1. Init => TypeOK
  <2> SUFFICES ASSUME Init PROVE TypeOK
    OBVIOUS
  <2>1. 0 \in Programs /\ 0 \in Numbers
    BY ConstantsAssumption DEF Numbers, Programs
  <2>2. /\ val \in [Programs -> Numbers] /\ rt \in [Programs -> Numbers]
        /\ custom \in [Programs -> Numbers] /\ rtOn \in [Programs -> BOOLEAN]
    BY <2>1 DEF Init
  <2>3. /\ rtBuf \in [seq : Seq([text : Numbers, tx : 0 .. 15]), idx : Nat, left : 0 .. 15]
        /\ rtBuf.idx \in 1 .. Len(rtBuf.seq) + 1
        /\ free \in [seq : Seq(Numbers), idx : Nat] /\ free.idx = 1
    BY DEF Init, EmptyTexts, EmptyFree
  <2>4. streams \in StreamCounts /\ tx \in [pc : {"pre", "select"}, s : 0 .. streams - 1]
    BY ConstantsAssumption DEF Init
  <2>5. diverted \in BOOLEAN /\ frame \in BOOLEAN
    BY DEF Init
  <2> QED
    BY <2>1, <2>2, <2>3, <2>4, <2>5 DEF Init, TypeOK
<1> QED
  BY <1>1, TypeInductive, PTL DEF Spec

-----------------------------------------------------------------------------
(* The writing program *)

LEMMA WritingInductive ==
    ASSUME WritingOnAir, [Next]_vars PROVE WritingOnAir'
<1> USE DEF WritingOnAir
<1>1. ASSUME NEW on, Element(on) PROVE WritingOnAir'
  BY <1>1 DEF Element, Done
<1>2. ASSUME NEW on, NEW to, Ascii(on, to) PROVE WritingOnAir'
  <2>1. CASE Element(on)
    BY <1>1, <2>1
  <2>2. CASE output' = on /\ writing' = to /\ diverted' = (to # on)
    <3>1. CASE to = on
      BY <2>2, <3>1
    <3>2. CASE to # on
      BY <2>2, <3>2
    <3> QED
      BY <3>1, <3>2
  <2> QED
    BY <1>2, <2>1, <2>2 DEF Ascii
<1>3. CASE \E dsn \in Dsns : Set(dsn) \/ SelectDataSet(dsn) \/ ClearText(dsn)
  BY <1>1, <1>3 DEF Set, SelectDataSet, ClearText
<1>4. CASE \E dsn \in Dsns, n \in Repeats : SetText(dsn, n)
  BY <1>1, <1>4 DEF SetText
<1>5. CASE (\E n \in Repeats : AddText(n)) \/ PutFree \/ AddFree \/ ClearFree
  BY <1>1, <1>5 DEF AddText, PutFree, AddFree, ClearFree
<1>6. CASE \E dsn \in Dsns : SetFails(dsn)
  BY <1>6 DEF SetFails
<1>7. CASE \E p \in Programs : SetWriting(p) \/ SetProgram(p)
  BY <1>2, <1>7 DEF SetWriting, SetProgram
<1>8. CASE (\E b \in BOOLEAN : EnableText(b)) \/ AsciiSet \/ AsciiText \/ AsciiGroup
  BY <1>2, <1>8 DEF EnableText, AsciiSet, AsciiText, AsciiGroup
<1>9. CASE PutFreeFails \/ FrameEnd
  BY <1>9 DEF PutFreeFails, FrameEnd
<1>10. CASE Tx
  BY <1>10 DEF Tx, PreTx, Custom, Rds2, SequenceGroup, TextEnds, Sequence, TxSame
<1>11. CASE UNCHANGED vars
  BY <1>11 DEF vars
<1> QED
  BY <1>3, <1>4, <1>5, <1>6, <1>7, <1>8, <1>9, <1>10, <1>11 DEF Next

LEMMA BooleanOr ==
    ASSUME NEW a \in BOOLEAN, NEW b, ~b PROVE (a \/ b) = a
  OBVIOUS

LEMMA BooleanAnd ==
    ASSUME NEW a \in BOOLEAN, NEW b, b PROVE (a /\ b) = a
  OBVIOUS

LEMMA StepNamed ==
    ASSUME TypeOK, WritingOnAir, [Next]_vars, ~diverted,
           NEW p \in Programs, val'[p] # val[p] \/ rt'[p] # rt[p] \/ rtOn'[p] # rtOn[p]
    PROVE  p \in named'
<1>1. writing = output
  BY DEF WritingOnAir
<1>2. /\ val \in [Programs -> Numbers] /\ rt \in [Programs -> Numbers]
      /\ rtOn \in [Programs -> BOOLEAN]
  BY DEF TypeOK
<1>3. CASE \E dsn \in Dsns : Set(dsn)
  BY <1>1, <1>2, <1>3 DEF Set
<1>4. CASE \E dsn \in Dsns, n \in Repeats : SetText(dsn, n)
  <2>1. PICK dsn \in Dsns, n \in Repeats : SetText(dsn, n)
    BY <1>4
  <2>2. SUFFICES ASSUME p \notin Reached(dsn, output) PROVE FALSE
    BY <2>1 DEF SetText
  <2>3. val'[p] = val[p] /\ rt'[p] = rt[p]
    BY <1>1, <2>1, <2>2 DEF SetText
  <2>4. rtOn'[p] = (rtOn[p] \/ p \in Reached(dsn, writing))
    BY <2>1 DEF SetText
  <2>5. rtOn[p] \in BOOLEAN
    BY <1>2
  <2>6. p \notin Reached(dsn, writing)
    BY <1>1, <2>2
  <2>7. rtOn'[p] = rtOn[p]
    BY <2>4, <2>5, <2>6, BooleanOr
  <2> QED
    BY <2>3, <2>7
<1>5. CASE \E dsn \in Dsns : ClearText(dsn)
  <2>1. PICK dsn \in Dsns : ClearText(dsn)
    BY <1>5
  <2>2. SUFFICES ASSUME p \notin Reached(dsn, output) PROVE FALSE
    BY <2>1 DEF ClearText
  <2>3. rtOn'[p] = (rtOn[p] /\ p \notin Reached(dsn, writing))
    BY <2>1 DEF ClearText
  <2>4. rtOn[p] \in BOOLEAN
    BY <1>2
  <2>5. p \notin Reached(dsn, writing)
    BY <1>1, <2>2
  <2>6. rtOn'[p] = rtOn[p]
    BY <2>3, <2>4, <2>5, BooleanAnd
  <2> QED
    BY <2>1, <2>6 DEF ClearText
<1>6. CASE AsciiSet \/ AsciiText \/ \E b \in BOOLEAN : EnableText(b)
  BY <1>1, <1>2, <1>6 DEF AsciiSet, AsciiText, EnableText
<1>7. CASE TextEnds
  BY <1>1, <1>2, <1>7 DEF TextEnds, Sequence, TxSame
<1>8. CASE \E dsn \in Dsns : SetFails(dsn) \/ SelectDataSet(dsn)
  BY <1>8 DEF SetFails, SelectDataSet
<1>9. CASE (\E n \in Repeats : AddText(n)) \/ PutFree \/ PutFreeFails
  BY <1>9 DEF AddText, PutFree, PutFreeFails
<1>10. CASE AddFree \/ ClearFree \/ FrameEnd
  BY <1>10 DEF AddFree, ClearFree, FrameEnd
<1>11. CASE AsciiGroup \/ \E q \in Programs : SetWriting(q) \/ SetProgram(q)
  BY <1>11 DEF AsciiGroup, SetWriting, SetProgram
<1>12. CASE PreTx \/ Custom \/ Rds2 \/ SequenceGroup
  BY <1>12 DEF PreTx, Custom, Rds2, SequenceGroup, Sequence, TxSame
<1>13. CASE UNCHANGED vars
  BY <1>13 DEF vars
<1> QED
  BY <1>3, <1>4, <1>5, <1>6, <1>7, <1>8, <1>9, <1>10, <1>11, <1>12, <1>13 DEF Next, Tx

(* Elements, ASCII commands and the text hook write to the data sets they   *)
(* mean, while no error or command has left the writing program elsewhere:  *)
(* parse_uecp and dsn_helper of uecp.lua.                                   *)
THEOREM WritesNamed == Spec => NamedOnly
<1>1. Init => WritingOnAir
  BY DEF Init, WritingOnAir
<1>2. TypeOK /\ WritingOnAir /\ [Next]_vars =>
        [\A p \in Programs :
            val'[p] # val[p] \/ rt'[p] # rt[p] \/ rtOn'[p] # rtOn[p]
                => p \in named' \/ diverted]_vars
  BY StepNamed
<1> QED
  BY <1>1, <1>2, WritingInductive, TypeCorrect, PTL DEF Spec, NamedOnly
=============================================================================

----------------------------- MODULE Oda_proofs -----------------------------
(***************************************************************************)
(* The registry of open data applications, for any number of commands and  *)
(* any group sequences: the slot of a client is the one whose handle it    *)
(* keeps, and nobody leaves the registry but in the ways TakenOut names.   *)
(***************************************************************************)
EXTENDS Oda, SequenceTheorems, WellFoundedInduction, NaturalsInduction, TLAPS

Holder == Clients \cup Temps \cup {Free}
Once(r) == \A i, j \in DOMAIN r : r[i] = r[j] => i = j

LEMMA NamesApart ==
    /\ Free \notin Clients /\ Free \notin Temps /\ Temps \cap Clients = {}
    /\ Clients \subseteq {"af", "ert", "rtp", "ertp"}
BY ClientsAssumption DEF AllClients, Free

LEMMA Positions ==
    ASSUME NEW T, NEW r \in Seq(T)
    PROVE  /\ Len(r) \in Nat /\ DOMAIN r = 1 .. Len(r)
           /\ \A i \in DOMAIN r : i \in Nat \ {0} /\ r[i] \in T
BY LenProperties, ElementOfSeq

(* One on_state hook after the other: each client once.                     *)
LEMMA HookedOnce ==
    ASSUME NEW r \in Seq(Clients), Once(r), NEW c, NEW cs \in SUBSET Clients,
           \A i \in DOMAIN r : r[i] # c
    PROVE  /\ Hooked(r, c, cs) \in Seq(Clients) /\ Once(Hooked(r, c, cs))
           /\ \A i \in DOMAIN Hooked(r, c, cs) :
                 Hooked(r, c, cs)[i] = c \/ \E j \in DOMAIN r : r[j] = Hooked(r, c, cs)[i]
<1>1. CASE c \notin cs
  BY <1>1 DEF Hooked
<1>2. CASE c \in cs
  <2>1. PICK q : q = Append(r, c)
    OBVIOUS
  <2>2. PICK n \in Nat : n = Len(r) /\ DOMAIN r = 1 .. n
    BY Positions
  <2>3. /\ q \in Seq(Clients) /\ DOMAIN q = 1 .. n + 1 /\ q[n + 1] = c
        /\ \A i \in 1 .. n : q[i] = r[i]
    BY <1>2, <2>1, <2>2, AppendProperties, Positions
  <2>4. Once(q)
    <3> SUFFICES ASSUME NEW i \in 1 .. n + 1, NEW j \in 1 .. n + 1, q[i] = q[j] PROVE i = j
      BY <2>3 DEF Once
    <3>1. CASE i = n + 1 /\ j = n + 1
      BY <3>1
    <3>2. CASE i = n + 1 /\ j # n + 1
      BY <2>2, <2>3, <3>2
    <3>3. CASE i # n + 1 /\ j = n + 1
      BY <2>2, <2>3, <3>3
    <3>4. CASE i # n + 1 /\ j # n + 1
      <4>1. i \in DOMAIN r /\ j \in DOMAIN r
        BY <2>2, <3>4
      <4>2. r[i] = r[j]
        BY <2>2, <2>3, <4>1
      <4> QED
        BY <4>1, <4>2 DEF Once
    <3> QED
      BY <3>1, <3>2, <3>3, <3>4
  <2>5. ASSUME NEW i \in DOMAIN q PROVE q[i] = c \/ \E j \in DOMAIN r : r[j] = q[i]
    <3>1. CASE i = n + 1
      BY <2>3, <3>1
    <3>2. CASE i # n + 1
      BY <2>2, <2>3, <3>2
    <3> QED
      BY <3>1, <3>2
  <2> QED
    BY <1>2, <2>1, <2>3, <2>4, <2>5 DEF Hooked
<1> QED
  BY <1>1, <1>2

LEMMA HookOrderOnce ==
    ASSUME NEW cs \in SUBSET Clients
    PROVE  HookOrder(cs) \in Seq(Clients) /\ Once(HookOrder(cs))
<1>1. PICK a : a = Hooked(<<>>, "af", cs)
  OBVIOUS
<1>2. PICK e : e = Hooked(a, "ert", cs)
  OBVIOUS
<1>3. PICK p : p = Hooked(e, "rtp", cs)
  OBVIOUS
<1>4. <<>> \in Seq(Clients) /\ DOMAIN <<>> = {}
  BY EmptySeq
<1>5. a \in Seq(Clients) /\ Once(a) /\ \A i \in DOMAIN a : a[i] = "af"
  <2>1. Once(<<>>)
    BY <1>4 DEF Once
  <2> QED
    BY <1>1, <1>4, <2>1, HookedOnce
<1>6. e \in Seq(Clients) /\ Once(e) /\ \A i \in DOMAIN e : e[i] \in {"af", "ert"}
  <2>1. \A i \in DOMAIN a : a[i] # "ert"
    BY <1>5
  <2> QED
    BY <1>2, <1>5, <2>1, HookedOnce
<1>7. p \in Seq(Clients) /\ Once(p) /\ \A i \in DOMAIN p : p[i] \in {"af", "ert", "rtp"}
  <2>1. \A i \in DOMAIN e : e[i] # "rtp"
    BY <1>6
  <2> QED
    BY <1>3, <1>6, <2>1, HookedOnce
<1>8. \A i \in DOMAIN p : p[i] # "ertp"
  BY <1>7
<1>9. HookOrder(cs) = Hooked(p, "ertp", cs)
  BY <1>1, <1>2, <1>3 DEF HookOrder
<1> QED
  BY <1>7, <1>8, <1>9, HookedOnce

(* The slots the hooks give are where the clients find themselves.          *)
LEMMA HooksKnow ==
    ASSUME NEW r \in Seq(Clients), Once(r), NEW none \in Nat, NEW c \in Clients
    PROVE  /\ SlotOf(r, c, none) \in Nat
           /\ \A i \in DOMAIN r : r[i] = c => SlotOf(r, c, none) = i
           /\ SlotOf(r, c, none) # none =>
                 SlotOf(r, c, none) \in DOMAIN r /\ r[SlotOf(r, c, none)] = c
<1>1. CASE \E i \in DOMAIN r : r[i] = c
  <2>1. PICK k : k = CHOOSE i \in DOMAIN r : r[i] = c
    OBVIOUS
  <2>2. k \in DOMAIN r /\ r[k] = c
    BY <1>1, <2>1
  <2>3. k \in Nat
    BY <2>2, Positions
  <2>4. SlotOf(r, c, none) = k
    BY <1>1, <2>1 DEF SlotOf
  <2> QED
    BY <2>2, <2>3, <2>4 DEF Once
<1>2. CASE ~\E i \in DOMAIN r : r[i] = c
  BY <1>2 DEF SlotOf
<1> QED
  BY <1>1, <1>2

-----------------------------------------------------------------------------
(* A set of numbers that is not empty has a least one.                      *)
LEMMA LeastNumber ==
    ASSUME NEW S \in SUBSET Nat, S # {}
    PROVE  \E x \in S : \A y \in S : x <= y
<1> DEFINE R == {p \in Nat \X Nat : p[1] < p[2]}
<1>1. IsWellFoundedOn(R, Nat)
  BY NatLessThanWellFounded, Zenon DEF OpToRel
<1>2. PICK x \in S : \A y \in S : <<y, x>> \notin R
  <2> HIDE DEF R
  <2> QED
    BY <1>1, WFMin
<1>3. \A y \in S : ~(y < x)
  BY <1>2
<1> QED
  BY <1>3

(* register_oda takes a free slot or a new one, and leaves the others.      *)
LEMMA RegisteredOne ==
    ASSUME NEW r \in Seq(Holder), NEW who \in Holder
    PROVE  /\ Registered(r, who) \in Seq(Holder)
           /\ SlotFor(r) \in Nat \ {0}
           /\ DOMAIN Registered(r, who) = DOMAIN r \cup {SlotFor(r)}
           /\ SlotFor(r) \in DOMAIN r => r[SlotFor(r)] = Free
           /\ Registered(r, who)[SlotFor(r)] = who
           /\ \A i \in DOMAIN r : i # SlotFor(r) => Registered(r, who)[i] = r[i]
<1> DEFINE free == {i \in DOMAIN r : r[i] = Free}
<1>1. PICK n \in Nat : n = Len(r) /\ DOMAIN r = 1 .. n
  BY Positions
<1>2. PICK k : k = SlotFor(r)
  OBVIOUS
<1>3. (k = n + 1) \/ (k \in 1 .. n /\ r[k] = Free)
  <2>1. CASE free = {}
    BY <1>1, <1>2, <2>1 DEF SlotFor
  <2>2. CASE free # {}
    <3>1. free \subseteq Nat
      BY <1>1
    <3>2. \E x \in free : \A y \in free : x <= y
      <4> HIDE DEF free
      <4> QED
        BY <2>2, <3>1, LeastNumber
    <3>3. k = CHOOSE i \in free : \A j \in free : i <= j
      BY <1>2, <2>2 DEF SlotFor
    <3>4. k \in free
      <4> HIDE DEF free
      <4> QED
        BY <3>2, <3>3
    <3> QED
      BY <1>1, <3>4
  <2> QED
    BY <2>1, <2>2
<1>4. PICK m \in Nat : m = (IF k > n THEN n + 1 ELSE n) /\ 1 .. m = 1 .. n \cup {k}
  BY <1>3
<1>5. Registered(r, who) = [i \in 1 .. m |-> IF i = k THEN who ELSE r[i]]
  BY <1>1, <1>2, <1>4 DEF Registered
<1>6. \A i \in 1 .. m : (IF i = k THEN who ELSE r[i]) \in Holder
  BY <1>1, <1>4, Positions
<1>7. [i \in 1 .. m |-> IF i = k THEN who ELSE r[i]] \in Seq(Holder)
  BY <1>6, IsASeq
<1>8. k \in Nat \ {0}
  BY <1>3
<1> QED
  BY <1>1, <1>2, <1>3, <1>4, <1>5, <1>7, <1>8

-----------------------------------------------------------------------------
(* The turn that comes first, of the slots in s.                            *)
LEMMA TurnsAround ==
    ASSUME TypeOK, reg # <<>>
    PROVE  /\ Len(reg) \in Nat \ {0} /\ Start \in DOMAIN reg
           /\ \A i \in DOMAIN reg : \E k \in DOMAIN reg : Turn(k) = i
           /\ \A k \in DOMAIN reg : Turn(k) \in DOMAIN reg
           /\ \A i \in DOMAIN reg : Next1(i) \in Nat \ {0}
<1>1. PICK n \in Nat : n = Len(reg) /\ DOMAIN reg = 1 .. n
  BY Positions DEF TypeOK
<1>2. n # 0
  BY <1>1, EmptySeq DEF TypeOK
<1>3. PICK p \in 1 .. n : p = Start
  BY <1>1, <1>2 DEF Start
<1>4. ASSUME NEW i \in 1 .. n PROVE \E k \in 1 .. n : ((p + k - 2) % n) + 1 = i
  <2>1. (i - 1) % n = i - 1 /\ ((i - 1) + n) % n = i - 1
    <3>1. PICK m \in 0 .. n - 1 : m = i - 1
      OBVIOUS
    <3>2. m % n = m /\ (m + n) % n = m
      BY <1>2
    <3> QED
      BY <3>1, <3>2
  <2>2. PICK k \in 1 .. n : p + k - 2 = i - 1 \/ p + k - 2 = (i - 1) + n
    <3>1. CASE i >= p
      <4>1. i - p + 1 \in 1 .. n /\ p + (i - p + 1) - 2 = i - 1
        BY <3>1
      <4> QED
        BY <4>1
    <3>2. CASE i < p
      <4>1. i - p + 1 + n \in 1 .. n /\ p + (i - p + 1 + n) - 2 = (i - 1) + n
        BY <3>2
      <4> QED
        BY <4>1
    <3> QED
      BY <3>1, <3>2
  <2>3. (p + k - 2) % n = i - 1
    BY <2>1, <2>2
  <2>4. ((p + k - 2) % n) + 1 = i
    BY <2>3
  <2> WITNESS k \in 1 .. n
  <2> QED
    BY <2>4
<1>5. \A i \in 1 .. n : (i % n) + 1 \in Nat \ {0}
  BY <1>2
<1>6. \A k \in 1 .. n : ((p + k - 2) % n) + 1 \in 1 .. n
  <2> TAKE k \in 1 .. n
  <2>1. PICK m \in Int : m = p + k - 2
    OBVIOUS
  <2>2. m % n \in 0 .. n - 1
    BY <1>2, <2>1
  <2> QED
    BY <2>1, <2>2
<1> QED
  BY <1>1, <1>2, <1>3, <1>4, <1>5, <1>6 DEF Turn, Next1

LEMMA FirstTurnIn ==
    ASSUME TypeOK, NEW s \in SUBSET DOMAIN reg, s # {}
    PROVE  FirstTurn(s) \in DOMAIN reg /\ Turn(FirstTurn(s)) \in s
<1>1. reg # <<>>
  BY EmptySeq
<1> DEFINE K == {k \in DOMAIN reg : Turn(k) \in s}
<1>2. K # {}
  BY <1>1, TurnsAround
<1>3. PICK n \in Nat : DOMAIN reg = 1 .. n
  BY Positions DEF TypeOK
<1>4. K \subseteq Nat
  BY <1>3
<1>5. PICK k \in K : \A j \in K : k <= j
  <2> HIDE DEF K
  <2> QED
    BY <1>2, <1>4, LeastNumber
<1>6. k \in DOMAIN reg /\ Turn(k) \in s /\ \A j \in 1 .. k - 1 : Turn(j) \notin s
  BY <1>3, <1>5
<1> QED
  BY <1>6 DEF FirstTurn

-----------------------------------------------------------------------------
(* The commands.                                                            *)

(* As long as no reset ran, a handle is of a slot its client has.           *)
HandleIsOwn == resets = 0 => \A c \in Clients :
    id[c] # Nil => id[c] \in DOMAIN reg /\ reg[id[c]] = c
Inv == TypeOK /\ HolderKnowsSlot /\ HandleIsOwn

(* What a step must keep besides the registry and the handles.              *)
RestOK ==
    /\ ptr \in Nat \ {0} /\ user \in [Programs -> UserData]
    /\ writing \in Programs /\ afLen \in BOOLEAN
    /\ sequence \in Sequences /\ pos \in DOMAIN sequence
    /\ sent = <<>> \/ sent \in {"aid", "data"} \X (Clients \cup Temps)
    /\ made \subseteq Temps /\ lost \subseteq Temps
    /\ commands \in 0 .. MaxCommands /\ resets \in 0 .. MaxResets
Slots ==
    /\ reg \in Seq(Holder) /\ id \in [Clients -> Nat]
    /\ HolderKnowsSlot /\ HandleIsOwn

LEMMA InvParts == Inv <=> RestOK /\ Slots
BY DEF Inv, TypeOK, RestOK, Slots, Holder

LEMMA SlotsSame == ASSUME Slots, UNCHANGED <<reg, id, resets>> PROVE Slots'
BY DEF Slots, HolderKnowsSlot, HandleIsOwn

LEMMA CommandRest ==
    ASSUME RestOK, Command,
           ptr' \in Nat \ {0}, user' \in [Programs -> UserData],
           writing' \in Programs, afLen' \in BOOLEAN,
           resets' = resets \/ (resets < MaxResets /\ resets' = resets + 1),
           made' \subseteq Temps, lost' \subseteq Temps
    PROVE  RestOK'
<1>1. MaxCommands \in Nat /\ MaxResets \in Nat
  BY BoundsAssumption
<1>2. commands' \in 0 .. MaxCommands
  BY <1>1 DEF Command, RestOK
<1>3. resets' \in 0 .. MaxResets
  BY <1>1 DEF RestOK
<1> QED
  BY <1>2, <1>3 DEF Command, RestOK

(* What a client writes into the userdata of the program being written.     *)
LEMMA UserDataKept ==
    ASSUME RestOK, NEW on \in SUBSET Clients, NEW new \in {"none", "text", "clear"},
           \/ user' = [user EXCEPT ![writing].on = on, ![writing].ertNew = new]
           \/ user' = [user EXCEPT ![writing].on = on]
           \/ user' = [user EXCEPT ![writing].ertNew = new]
           \/ user' = [user EXCEPT ![writing] = [on |-> on, ertNew |-> new]]
    PROVE  user' \in [Programs -> UserData]
BY DEF RestOK, UserData

LEMMA UserDataTyped ==
    ASSUME RestOK
    PROVE  On \in SUBSET Clients /\ user[writing].ertNew \in {"none", "text", "clear"}
BY DEF RestOK, UserData, On

(* A client is given a slot and keeps its handle.                           *)
LEMMA InitClientSlots ==
    ASSUME Slots, NEW c \in Clients, InitClient(c), resets' = resets
    PROVE  Slots'
<1>1. CASE id[c] # Nil
  BY <1>1, SlotsSame DEF InitClient
<1>2. CASE id[c] = Nil
  <2>1. c \in Holder
    BY DEF Holder
  <2>2. PICK k : k = SlotFor(reg)
    OBVIOUS
  <2>3. /\ reg' \in Seq(Holder) /\ k \in Nat \ {0}
        /\ DOMAIN reg' = DOMAIN reg \cup {k}
        /\ k \in DOMAIN reg => reg[k] = Free
        /\ reg'[k] = c
        /\ \A i \in DOMAIN reg : i # k => reg'[i] = reg[i]
    <3>1. reg' = Registered(reg, c) /\ reg \in Seq(Holder)
      BY <1>2 DEF InitClient, Slots
    <3>2. /\ Registered(reg, c) \in Seq(Holder)
          /\ SlotFor(reg) \in Nat \ {0}
          /\ DOMAIN Registered(reg, c) = DOMAIN reg \cup {SlotFor(reg)}
          /\ SlotFor(reg) \in DOMAIN reg => reg[SlotFor(reg)] = Free
          /\ Registered(reg, c)[SlotFor(reg)] = c
          /\ \A i \in DOMAIN reg : i # SlotFor(reg) => Registered(reg, c)[i] = reg[i]
      BY <2>1, <3>1, RegisteredOne
    <3> QED
      BY <2>2, <3>1, <3>2
  <2>4. /\ id' \in [Clients -> Nat] /\ id'[c] = k
        /\ \A d \in Clients : d # c => id'[d] = id[d]
    BY <1>2, <2>2, <2>3 DEF InitClient, Slots
  <2>5. \A i \in DOMAIN reg : reg[i] # c
    <3>1. \A i \in DOMAIN reg : i \in Nat \ {0}
      BY Positions DEF Slots
    <3> QED
      BY <1>2, <3>1 DEF Slots, HolderKnowsSlot, Nil
  <2>6. HolderKnowsSlot'
    BY <2>3, <2>4, <2>5 DEF Slots, HolderKnowsSlot
  <2>7. HandleIsOwn'
    <3> SUFFICES ASSUME resets = 0, NEW d \in Clients, id'[d] # Nil
                 PROVE  id'[d] \in DOMAIN reg' /\ reg'[id'[d]] = d
      BY DEF HandleIsOwn
    <3>1. CASE d = c
      BY <2>3, <2>4, <3>1
    <3>2. CASE d # c
      <4>1. id[d] \in DOMAIN reg /\ reg[id[d]] = d
        BY <2>4, <3>2 DEF Slots, HandleIsOwn
      <4>2. id[d] # k
        BY <2>3, <4>1, NamesApart
      <4> QED
        BY <2>3, <2>4, <3>2, <4>1, <4>2
    <3> QED
      BY <3>1, <3>2
  <2> QED
    BY <2>3, <2>4, <2>6, <2>7 DEF Slots
<1> QED
  BY <1>1, <1>2

(* A script takes a slot for one announcement.                              *)
LEMMA RegisterTempSlots ==
    ASSUME Slots, RegisterTemp PROVE Slots'
<1>1. PICK t \in Temps : reg' = Registered(reg, t)
  BY DEF RegisterTemp
<1>2. PICK k : k = SlotFor(reg)
  OBVIOUS
<1>3. /\ reg' \in Seq(Holder)
      /\ DOMAIN reg' = DOMAIN reg \cup {k}
      /\ k \in DOMAIN reg => reg[k] = Free
      /\ reg'[k] = t
      /\ \A i \in DOMAIN reg : i # k => reg'[i] = reg[i]
  <2>1. t \in Holder
    BY DEF Holder
  <2> QED
    BY <1>1, <1>2, <2>1, RegisteredOne DEF Slots
<1>4. id' = id /\ resets' = resets
  BY DEF RegisterTemp
<1>5. HolderKnowsSlot'
  BY <1>3, <1>4, NamesApart DEF Slots, HolderKnowsSlot
<1>6. HandleIsOwn'
  <2> SUFFICES ASSUME resets = 0, NEW d \in Clients, id[d] # Nil
               PROVE  id[d] \in DOMAIN reg' /\ reg'[id[d]] = d
    BY <1>4 DEF HandleIsOwn
  <2>1. id[d] \in DOMAIN reg /\ reg[id[d]] = d
    BY DEF Slots, HandleIsOwn
  <2>2. id[d] # k
    BY <1>3, <2>1, NamesApart
  <2> QED
    BY <1>3, <2>1, <2>2
<1> QED
  BY <1>3, <1>4, <1>5, <1>6 DEF Slots

(* A slot is freed, with the handle of its client or with no client in it.  *)
LEMMA FreedSlots ==
    ASSUME Slots, NEW i \in DOMAIN reg, reg' = [reg EXCEPT ![i] = Free], resets' = resets,
           \/ reg[i] \notin Clients /\ id' = id
           \/ \E v \in Clients : id[v] = i /\ id' = [id EXCEPT ![v] = Nil]
    PROVE  Slots'
<1>1. reg' \in Seq(Holder)
  BY ExceptSeq DEF Slots, Holder
<1>2. /\ DOMAIN reg' = DOMAIN reg /\ reg'[i] = Free
      /\ \A j \in DOMAIN reg : j # i => reg'[j] = reg[j]
  OBVIOUS
<1>3. i \in Nat \ {0}
  BY Positions DEF Slots
<1>4. CASE reg[i] \notin Clients /\ id' = id
  BY <1>1, <1>2, <1>4, NamesApart DEF Slots, HolderKnowsSlot, HandleIsOwn
<1>5. CASE \E v \in Clients : id[v] = i /\ id' = [id EXCEPT ![v] = Nil]
  <2>1. PICK v \in Clients : id[v] = i /\ id' = [id EXCEPT ![v] = Nil]
    BY <1>5
  <2>2. /\ id' \in [Clients -> Nat] /\ id'[v] = Nil
        /\ \A d \in Clients : d # v => id'[d] = id[d]
    BY <2>1 DEF Slots, Nil
  <2>3. HolderKnowsSlot'
    BY <1>2, <2>1, <2>2, NamesApart DEF Slots, HolderKnowsSlot
  <2>4. HandleIsOwn'
    <3> SUFFICES ASSUME resets = 0, NEW d \in Clients, id'[d] # Nil
                 PROVE  id'[d] \in DOMAIN reg' /\ reg'[id'[d]] = d
      BY DEF HandleIsOwn
    <3>1. d # v /\ id'[d] = id[d]
      BY <2>2
    <3>2. id[d] \in DOMAIN reg /\ reg[id[d]] = d /\ reg[i] = v
      BY <1>3, <2>1, <3>1 DEF Slots, HandleIsOwn, Nil
    <3> QED
      BY <1>2, <3>1, <3>2
  <2> QED
    BY <1>1, <2>2, <2>3, <2>4 DEF Slots
<1> QED
  BY <1>4, <1>5

(* The on_state hooks empty the registry and register clients again.        *)
LEMMA OnStateSlots ==
    ASSUME Slots, NEW wanted \in SUBSET Clients, OnState(id, wanted), resets' # 0
    PROVE  Slots'
<1>1. reg' \in Seq(Clients) /\ Once(reg')
  BY HookOrderOnce DEF OnState
<1>2. reg' \in Seq(Holder)
  BY <1>1 DEF Holder
<1>3. \A c \in Clients : /\ id'[c] = SlotOf(reg', c, id[c]) /\ id'[c] \in Nat
                         /\ \A i \in DOMAIN reg' : reg'[i] = c => id'[c] = i
  <2>1. ASSUME NEW r, r = reg', NEW c \in Clients
        PROVE  /\ SlotOf(r, c, id[c]) \in Nat
               /\ \A i \in DOMAIN r : r[i] = c => SlotOf(r, c, id[c]) = i
    BY <1>1, <2>1, HooksKnow DEF Slots
  <2> QED
    BY <2>1 DEF OnState
<1>4. id' \in [Clients -> Nat]
  BY <1>3 DEF OnState
<1>5. HolderKnowsSlot'
  BY <1>3 DEF HolderKnowsSlot
<1> QED
  BY <1>2, <1>4, <1>5 DEF Slots, HandleIsOwn

LEMMA CommandInv ==
    ASSUME Inv, \/ SetErt \/ ClearErt \/ SetAfFails \/ RegisterTemp \/ SetWriting \/ Reset
                \/ SetDefaults
                \/ \E b \in BOOLEAN : SetAf(b) \/ \E c \in Clients : SetRtp(c, b)
                \/ \E c \in Clients : Unregister(c)
    PROVE  Inv'
<1>1. RestOK /\ Slots
  BY InvParts
<1>2. ASSUME NEW c \in Clients, NEW b \in BOOLEAN, SetOn(c, b)
      PROVE  user' \in [Programs -> UserData]
  <2>1. PICK on : on = IF b THEN On \cup {c} ELSE On \ {c}
    OBVIOUS
  <2>2. on \in SUBSET Clients
    BY <1>1, <2>1, UserDataTyped
  <2>3. user' = [user EXCEPT ![writing].on = on]
    BY <1>1, <1>2, <2>1 DEF SetOn, On, RestOK
  <2> QED
    BY <1>1, <2>2, <2>3, UserDataKept
<1>3. CASE SetErt
  <2>1. "ert" \in Clients /\ InitClient("ert") /\ resets' = resets
    BY <1>3 DEF SetErt, Client
  <2>2. Slots'
    BY <1>1, <2>1, InitClientSlots
  <2>3. user' \in [Programs -> UserData]
    <3>1. PICK on : on = On \cup {"ert"}
      OBVIOUS
    <3>2. PICK new \in {"none", "text"} :
              new = IF "ert" \notin On /\ user[writing].ertNew = "none" THEN "none" ELSE "text"
      OBVIOUS
    <3>3. user' = [user EXCEPT ![writing].on = on, ![writing].ertNew = new]
      BY <1>1, <1>3, <3>1, <3>2 DEF SetErt, On, RestOK
    <3> QED
      BY <1>1, <2>1, <3>1, <3>3, UserDataKept, UserDataTyped
  <2>4. RestOK'
    BY <1>1, <1>3, <2>3, CommandRest DEF SetErt, Client, RestOK
  <2> QED
    BY <2>2, <2>4 DEF Inv, TypeOK, RestOK, Slots, Holder
<1>4. CASE ClearErt
  <2>1. Slots'
    BY <1>1, <1>4, SlotsSame DEF ClearErt, Client
  <2>2. user' \in [Programs -> UserData]
    BY <1>1, <1>4 DEF ClearErt, RestOK, UserData
  <2>3. RestOK'
    BY <1>1, <1>4, <2>2, CommandRest DEF ClearErt, Client, RestOK
  <2> QED
    BY <2>1, <2>3 DEF Inv, TypeOK, RestOK, Slots, Holder
<1>5. CASE SetAfFails
  <2>1. Slots'
    BY <1>1, <1>5, SlotsSame DEF SetAfFails, Client
  <2>2. RestOK'
    BY <1>1, <1>5, CommandRest DEF SetAfFails, Client, RestOK
  <2> QED
    BY <2>1, <2>2 DEF Inv, TypeOK, RestOK, Slots, Holder
<1>6. CASE RegisterTemp
  <2>1. Slots'
    BY <1>1, <1>6, RegisterTempSlots
  <2>2. RestOK'
    BY <1>1, <1>6, CommandRest DEF RegisterTemp, RestOK
  <2> QED
    BY <2>1, <2>2 DEF Inv, TypeOK, RestOK, Slots, Holder
<1>13. CASE SetWriting
  <2>1. Slots'
    BY <1>1, <1>13, SlotsSame DEF SetWriting
  <2>2. RestOK'
    BY <1>1, <1>13, CommandRest DEF SetWriting, RestOK
  <2> QED
    BY <2>1, <2>2 DEF Inv, TypeOK, RestOK, Slots, Holder
<1>7. ASSUME NEW wanted \in SUBSET Clients, OnState(id, wanted), resets' = resets + 1
      PROVE  Slots' /\ ptr' \in Nat \ {0} /\ lost' \subseteq Temps
  <2>1. resets' # 0
    BY <1>1, <1>7, BoundsAssumption DEF RestOK
  <2>2. ptr' \in Nat \ {0} /\ lost' \subseteq Temps
    BY <1>1, <1>7 DEF OnState, RestOK
  <2> QED
    BY <1>1, <1>7, <2>1, <2>2, OnStateSlots
<1>8. ASSUME NEW data \in [Programs -> UserData], Restart(data) PROVE Inv'
  <2>1. user' = data /\ writing' = writing /\ resets' = resets + 1
    BY <1>8 DEF Restart
  <2>2. PICK on : on = user'[writing'].on
    OBVIOUS
  <2>3. on \in SUBSET Clients
    BY <1>1, <2>1, <2>2 DEF RestOK, UserData
  <2>4. OnState(id, on \cup {c \in Clients : c = "af" /\ afLen}) /\ afLen' \in BOOLEAN
    BY <1>1, <1>8, <2>2 DEF Restart, RestOK
  <2>5. Slots' /\ ptr' \in Nat \ {0} /\ lost' \subseteq Temps
    BY <1>7, <2>1, <2>3, <2>4
  <2>6. RestOK'
    BY <1>1, <1>8, <2>1, <2>4, <2>5, CommandRest DEF Restart, RestOK
  <2> QED
    BY <2>5, <2>6 DEF Inv, TypeOK, RestOK, Slots, Holder
<1>9. CASE Reset \/ SetDefaults
  <2>1. user \in [Programs -> UserData]
    BY <1>1 DEF RestOK
  <2>2. [user EXCEPT ![writing] = [on |-> {}, ertNew |-> "none"]] \in [Programs -> UserData]
    BY <1>1 DEF RestOK, UserData
  <2> QED
    BY <1>8, <1>9, <2>1, <2>2 DEF Reset, SetDefaults
<1>10. ASSUME NEW b \in BOOLEAN, SetAf(b) PROVE Inv'
  <2>1. Slots'
    BY <1>1, <1>10, InitClientSlots DEF SetAf, Client
  <2>2. user' \in [Programs -> UserData] /\ afLen' \in BOOLEAN
    BY <1>2, <1>10 DEF SetAf
  <2>3. RestOK'
    BY <1>1, <1>10, <2>2, CommandRest DEF SetAf, Client, RestOK
  <2> QED
    BY <2>1, <2>3 DEF Inv, TypeOK, RestOK, Slots, Holder
<1>11. ASSUME NEW b \in BOOLEAN, NEW c \in Clients, SetRtp(c, b) PROVE Inv'
  <2>1. Slots'
    <3>1. CASE b
      BY <1>1, <1>11, <3>1, InitClientSlots DEF SetRtp, Client
    <3>2. CASE ~b
      BY <1>1, <1>11, <3>2, SlotsSame DEF SetRtp, Client
    <3> QED
      BY <3>1, <3>2
  <2>2. user' \in [Programs -> UserData]
    BY <1>2, <1>11 DEF SetRtp
  <2>3. RestOK'
    BY <1>1, <1>11, <2>2, CommandRest DEF SetRtp, Client, RestOK
  <2> QED
    BY <2>1, <2>3 DEF Inv, TypeOK, RestOK, Slots, Holder
<1>12. ASSUME NEW c \in Clients, Unregister(c) PROVE Inv'
  <2>1. PICK v \in Clients : v = Victim(c)
    BY DEF Victim
  <2> DEFINE Takes(w) ==
               /\ id[w] \in DOMAIN reg /\ reg' = [reg EXCEPT ![id[w]] = Free]
               /\ id' = [id EXCEPT ![w] = Nil]
               /\ ptr' = IF ptr = id[w] THEN (ptr % Len(reg)) + 1 ELSE ptr
  <2>2. Takes(Victim(c))
    BY <1>12 DEF Unregister
  <2>3. Takes(v)
    <3> HIDE DEF Takes
    <3> QED
      BY <2>1, <2>2
  <2>4. PICK i : i = id[v]
    OBVIOUS
  <2>5. /\ i = id[v] /\ i \in DOMAIN reg
        /\ reg' = [reg EXCEPT ![i] = Free] /\ id' = [id EXCEPT ![v] = Nil]
        /\ ptr' = IF ptr = i THEN (ptr % Len(reg)) + 1 ELSE ptr
    BY <2>3, <2>4
  <2>6. Slots'
    BY <1>1, <1>12, <2>5, FreedSlots DEF Unregister, Client
  <2>7. ptr' \in Nat \ {0}
    <3>1. Len(reg) \in Nat \ {0}
      <4>1. Len(reg) \in Nat /\ DOMAIN reg = 1 .. Len(reg)
        BY <1>1, Positions DEF Slots
      <4> QED
        BY <2>5, <4>1
    <3>2. (ptr % Len(reg)) + 1 \in Nat \ {0}
      BY <1>1, <3>1 DEF RestOK
    <3> QED
      BY <1>1, <2>5, <3>2 DEF RestOK
  <2>9. lost' \subseteq Temps
    BY <1>1, <1>12 DEF Unregister, RestOK
  <2>8. RestOK'
    BY <1>1, <1>12, <2>7, <2>9, CommandRest DEF Unregister, Client, RestOK
  <2> QED
    BY <2>6, <2>8 DEF Inv, TypeOK, RestOK, Slots, Holder
<1> QED
  BY <1>3, <1>4, <1>5, <1>6, <1>9, <1>10, <1>11, <1>12, <1>13

-----------------------------------------------------------------------------
(* The slots of the group sequence.                                         *)
LEMMA ServeRest ==
    ASSUME RestOK, NEW slot \in {"aid", "data"}, Serve(slot), ptr' \in Nat \ {0},
           user' \in [Programs -> UserData],
           sent' = <<>> \/ sent' \in {"aid", "data"} \X (Clients \cup Temps)
    PROVE  RestOK'
<1>1. pos' \in DOMAIN sequence
  <2>1. sequence \in Seq({"aid", "data"})
    BY SequencesAssumption DEF RestOK
  <2>2. PICK n \in Nat : n = Len(sequence) /\ DOMAIN sequence = 1 .. n
    BY <2>1, Positions
  <2>3. pos \in 1 .. n /\ pos' = (pos % n) + 1
    BY <2>2 DEF RestOK, Serve
  <2>4. pos % n \in 0 .. n - 1
    BY <2>3
  <2> QED
    BY <2>2, <2>3, <2>4
<1> QED
  BY <1>1 DEF RestOK, Serve

LEMMA NoGroupRest ==
    ASSUME Inv, NoGroup PROVE ptr' \in Nat \ {0} /\ UNCHANGED reg /\ sent' = <<>>
<1>1. CASE reg = <<>>
  BY <1>1 DEF NoGroup, Inv, TypeOK
<1>2. CASE reg # <<>>
  <2>1. Start \in DOMAIN reg
    BY <1>2, TurnsAround DEF Inv
  <2>2. Start \in Nat \ {0}
    BY <2>1, Positions DEF Inv, TypeOK
  <2> QED
    BY <1>2, <2>2 DEF NoGroup
<1> QED
  BY <1>1, <1>2

LEMMA AidInv == ASSUME Inv, Aid PROVE Inv'
<1> DEFINE taken == {i \in DOMAIN reg : reg[i] # Free}
<1>1. RestOK /\ Slots /\ Serve("aid") /\ UNCHANGED <<user, id, resets>>
  BY InvParts DEF Aid, AidOrder, Serve
<1>2. CASE taken = {}
  <2>1. ptr' \in Nat \ {0} /\ UNCHANGED reg /\ sent' = <<>>
    BY <1>2, NoGroupRest DEF Aid, AidOrder
  <2>2. Slots'
    BY <1>1, <2>1, SlotsSame
  <2>3. RestOK'
    BY <1>1, <2>1, ServeRest DEF RestOK
  <2> QED
    BY <2>2, <2>3 DEF Inv, TypeOK, RestOK, Slots, Holder
<1>3. CASE taken # {}
  <2>1. PICK i : i = Turn(FirstTurn(taken))
    OBVIOUS
  <2>2. i \in DOMAIN reg /\ reg[i] # Free /\ reg[i] \in Clients \cup Temps
    <3>1. i \in taken
      <4>1. taken \in SUBSET DOMAIN reg
        OBVIOUS
      <4> HIDE DEF taken
      <4> QED
        BY <1>3, <2>1, <4>1, FirstTurnIn DEF Inv
    <3>2. reg[i] \in Holder
      BY <1>1, <3>1, Positions DEF Slots
    <3> QED
      BY <3>1, <3>2 DEF Holder
  <2>3. /\ sent' = <<"aid", reg[i]>> /\ ptr' = Next1(i)
        /\ reg' = IF reg[i] \in Temps THEN [reg EXCEPT ![i] = Free] ELSE reg
    BY <1>3, <2>1 DEF Aid, AidOrder
  <2>4. Slots'
    <3>1. CASE reg[i] \in Temps
      BY <1>1, <2>2, <2>3, <3>1, FreedSlots, NamesApart
    <3>2. CASE reg[i] \notin Temps
      BY <1>1, <2>3, <3>2, SlotsSame
    <3> QED
      BY <3>1, <3>2
  <2>5. ptr' \in Nat \ {0}
    <3>1. reg # <<>>
      BY <2>2, EmptySeq
    <3> QED
      BY <2>2, <2>3, <3>1, TurnsAround DEF Inv
  <2>6. sent' \in {"aid", "data"} \X (Clients \cup Temps)
    BY <2>2, <2>3
  <2>7. RestOK'
    BY <1>1, <2>5, <2>6, ServeRest DEF RestOK
  <2> QED
    BY <2>4, <2>7 DEF Inv, TypeOK, RestOK, Slots, Holder
<1> QED
  BY <1>2, <1>3

LEMMA DataInv == ASSUME Inv, Data PROVE Inv'
<1> DEFINE gives == {i \in DOMAIN reg : Gives(reg[i])}
<1>1. RestOK /\ Slots /\ Serve("data") /\ UNCHANGED <<id, resets>>
  BY InvParts DEF Data, Serve
<1>2. user' \in [Programs -> UserData]
  <2>1. CASE user' = user
    BY <1>1, <2>1 DEF RestOK
  <2>2. CASE user' # user
    <3>1. ASSUME "ert" \notin Clients PROVE FALSE
      <4>1. \A j \in DOMAIN reg : reg[j] # "ert"
        <5>1. "ert" \notin Holder
          BY <3>1, ClientsAssumption DEF Holder, Free, AllClients
        <5> QED
          BY <1>1, <5>1, Positions DEF Slots
      <4>2. gives # {} => 1 .. FirstTurn(gives) \subseteq DOMAIN reg
        <5>1. gives \in SUBSET DOMAIN reg
          OBVIOUS
        <5>2. PICK n \in Nat : DOMAIN reg = 1 .. n
          BY <1>1, Positions DEF Slots
        <5>3. gives # {} => FirstTurn(gives) \in 1 .. n
          <6> HIDE DEF gives
          <6> QED
            BY <5>1, <5>2, FirstTurnIn DEF Inv
        <5> HIDE DEF gives
        <5> QED
          BY <5>2, <5>3
      <4>3. \A k \in DOMAIN reg : Turn(k) \in DOMAIN reg
        <5>1. CASE reg = <<>>
          BY <5>1
        <5>2. CASE reg # <<>>
          BY <5>2, TurnsAround DEF Inv
        <5> QED
          BY <5>1, <5>2
      <4>4. PICK f : f = 1 .. FirstTurn(gives)
        OBVIOUS
      <4>5. \E j \in IF gives = {} THEN DOMAIN reg ELSE {Turn(k) : k \in f} : reg[j] = "ert"
        BY <2>2, <4>4 DEF Data
      <4> QED
        BY <4>1, <4>2, <4>3, <4>4, <4>5
    <3>2. PICK on : on = IF ErtOn THEN On \cup {"ert"} ELSE On \ {"ert"}
      OBVIOUS
    <3>3. user' = [user EXCEPT ![writing].on = on, ![writing].ertNew = "none"]
      BY <1>1, <2>2, <3>2 DEF Data, On, RestOK
    <3> QED
      BY <1>1, <3>1, <3>2, <3>3, UserDataKept, UserDataTyped
  <2> QED
    BY <2>1, <2>2
<1>3. UNCHANGED reg /\ ptr' \in Nat \ {0}
      /\ (sent' = <<>> \/ sent' \in {"aid", "data"} \X (Clients \cup Temps))
  <2>1. CASE gives = {}
    BY <2>1, NoGroupRest DEF Data
  <2>2. CASE gives # {}
    <3>1. PICK i : i = Turn(FirstTurn(gives))
      OBVIOUS
    <3>2. i \in gives
      <4>1. gives \in SUBSET DOMAIN reg
        OBVIOUS
      <4> HIDE DEF gives
      <4> QED
        BY <2>2, <3>1, <4>1, FirstTurnIn DEF Inv
    <3>3. i \in DOMAIN reg /\ reg[i] \in Clients /\ reg # <<>>
      BY <3>2, EmptySeq DEF Gives
    <3>4. sent' = <<"data", reg[i]>> /\ ptr' = Next1(i) /\ UNCHANGED reg
      BY <2>2, <3>1 DEF Data
    <3> QED
      BY <3>3, <3>4, TurnsAround DEF Inv
  <2> QED
    BY <2>1, <2>2
<1>4. Slots'
  BY <1>1, <1>3, SlotsSame
<1>5. RestOK'
  BY <1>1, <1>2, <1>3, ServeRest
<1> QED
  BY <1>4, <1>5 DEF Inv, TypeOK, RestOK, Slots, Holder

-----------------------------------------------------------------------------
LEMMA InitInv == Init => Inv
<1> SUFFICES ASSUME Init PROVE Inv
  OBVIOUS
<1>1. /\ reg \in Seq(Clients) /\ Once(reg)
      /\ user \in [Programs -> UserData] /\ writing \in Programs
  <2>1. user \in [Programs -> UserData] /\ writing \in Programs
    BY ProgramsAssumption DEF Init, Programs
  <2>2. On \in SUBSET Clients
    BY <2>1 DEF On, UserData
  <2> QED
    BY <2>1, <2>2, HookOrderOnce DEF Init
<1>2. \A c \in Clients : /\ id[c] = SlotOf(reg, c, Nil) /\ id[c] \in Nat
                         /\ \A i \in DOMAIN reg : reg[i] = c => id[c] = i
                         /\ id[c] # Nil => id[c] \in DOMAIN reg /\ reg[id[c]] = c
  <2>1. ASSUME NEW c \in Clients
        PROVE  /\ SlotOf(reg, c, 0) \in Nat
               /\ \A i \in DOMAIN reg : reg[i] = c => SlotOf(reg, c, 0) = i
               /\ SlotOf(reg, c, 0) # 0 =>
                     SlotOf(reg, c, 0) \in DOMAIN reg /\ reg[SlotOf(reg, c, 0)] = c
    BY <1>1, HooksKnow
  <2> QED
    BY <2>1 DEF Init, Nil
<1>3. Slots
  <2>1. reg \in Seq(Holder)
    BY <1>1 DEF Holder
  <2>2. id \in [Clients -> Nat]
    BY <1>2 DEF Init
  <2> QED
    BY <1>2, <2>1, <2>2 DEF Slots, HolderKnowsSlot, HandleIsOwn
<1>4. RestOK
  <2>1. pos \in DOMAIN sequence
    <3>1. sequence \in Seq({"aid", "data"}) /\ sequence # <<>> /\ pos = 1
      BY SequencesAssumption DEF Init
    <3>2. PICK n \in Nat : n = Len(sequence) /\ DOMAIN sequence = 1 .. n
      BY <3>1, Positions
    <3>3. n # 0
      BY <3>1, <3>2, EmptySeq
    <3> QED
      BY <3>1, <3>2, <3>3
  <2>2. afLen \in BOOLEAN
    BY DEF Init
  <2>3. 0 \in 0 .. MaxCommands /\ 0 \in 0 .. MaxResets
    BY BoundsAssumption
  <2>4. /\ commands = 0 /\ resets = 0 /\ ptr = 1 /\ sent = <<>>
        /\ made = {} /\ lost = {} /\ sequence \in Sequences
        /\ user \in [Programs -> UserData] /\ writing \in Programs
    BY <1>1 DEF Init
  <2>5. 1 \in Nat \ {0}
    OBVIOUS
  <2> QED
    BY <2>1, <2>2, <2>3, <2>4, <2>5 DEF RestOK
<1> QED
  BY <1>3, <1>4, InvParts

LEMMA InductiveInv == Spec => []Inv
<1>1. Inv /\ [Next]_vars => Inv'
  <2> SUFFICES ASSUME Inv, [Next]_vars PROVE Inv'
    OBVIOUS
  <2>1. CASE Aid
    BY <2>1, AidInv
  <2>2. CASE Data
    BY <2>2, DataInv
  <2>3. CASE UNCHANGED vars
    BY <2>3 DEF vars, Inv, TypeOK, HolderKnowsSlot, HandleIsOwn
  <2>4. CASE Next /\ ~Slot
    BY <2>4, CommandInv DEF Next
  <2> QED
    BY <2>1, <2>2, <2>3, <2>4 DEF Slot
<1> QED
  BY <1>1, InitInv, PTL DEF Spec

(* Every variable of the registry keeps its type.                           *)
THEOREM TypeCorrect == Spec => []TypeOK
<1>1. Inv => TypeOK
  BY DEF Inv
<1> QED
  BY <1>1, InductiveInv, PTL

(* Whatever is registered, unregistered, announced or reset, a slot that a  *)
(* client has is the one whose handle it keeps (register_oda, the handles   *)
(* of ert.lua, rtp.lua and af.lua).                                         *)
THEOREM HoldersKnow == Spec => []HolderKnowsSlot
<1>1. Inv => HolderKnowsSlot
  BY DEF Inv
<1> QED
  BY <1>1, InductiveInv, PTL

-----------------------------------------------------------------------------
(* Who leaves the registry.                                                 *)
Named ==
    /\ \A c \in Clients : Leaves(c) =>
          id'[c] = Nil \/ resets' # resets \/ StaleHandle(c)
    /\ \A t \in Temps : Leaves(t) =>
          sent' = <<"aid", t>> \/ resets' # resets \/ StaleHandle(t)

LEMMA NobodyLeaves ==
    ASSUME \A i \in DOMAIN reg : reg[i] # Free => i \in DOMAIN reg' /\ reg'[i] = reg[i]
    PROVE  Named
<1>1. \A x \in Clients \cup Temps : ~Leaves(x)
  BY NamesApart DEF Leaves, Holders
<1> QED
  BY <1>1 DEF Named

LEMMA RegisteredStay ==
    ASSUME Inv, NEW who \in Holder, reg' = Registered(reg, who) PROVE Named
<1>1. reg \in Seq(Holder)
  BY DEF Inv, TypeOK, Holder
<1>2. /\ DOMAIN reg' = DOMAIN reg \cup {SlotFor(reg)}
      /\ SlotFor(reg) \in DOMAIN reg => reg[SlotFor(reg)] = Free
      /\ \A i \in DOMAIN reg : i # SlotFor(reg) => reg'[i] = reg[i]
  BY <1>1, RegisteredOne
<1> QED
  BY <1>2, NobodyLeaves

LEMMA InitClientStays ==
    ASSUME Inv, NEW c \in Clients, InitClient(c) PROVE Named
<1>1. c \in Holder
  BY DEF Holder
<1>2. CASE reg' = reg
  BY <1>2, NobodyLeaves
<1>3. CASE reg' = Registered(reg, c)
  BY <1>1, <1>3, RegisteredStay
<1> QED
  BY <1>2, <1>3 DEF InitClient

(* The slot freed is the client's own, with its handle, or that of whoever  *)
(* has the slot of a handle older than a reset.                             *)
LEMMA UnregisterNamed ==
    ASSUME Inv, NEW c \in Clients, Unregister(c) PROVE Named
<1>1. PICK v \in Clients : v = Victim(c)
  BY DEF Victim
<1>2. /\ id[v] \in DOMAIN reg /\ reg' = [reg EXCEPT ![id[v]] = Free]
      /\ id' = [id EXCEPT ![v] = Nil] /\ resets' = resets
  <2>1. PICK w : w = Victim(c)
    OBVIOUS
  <2>2. /\ id[w] \in DOMAIN reg /\ reg' = [reg EXCEPT ![id[w]] = Free]
        /\ id' = [id EXCEPT ![w] = Nil] /\ resets' = resets
    BY <2>1 DEF Unregister, Client
  <2> QED
    BY <1>1, <2>1, <2>2
<1>3. id \in [Clients -> Nat] /\ id[v] \in Nat \ {0}
  <2>1. reg \in Seq(Holder) /\ id \in [Clients -> Nat]
    BY DEF Inv, TypeOK, Holder
  <2> QED
    BY <1>2, <2>1, Positions
<1>4. id'[v] = Nil
  BY <1>2, <1>3
<1>5. ASSUME NEW x \in Clients \cup Temps, Leaves(x) PROVE reg[id[v]] = x
  BY <1>2, <1>5 DEF Leaves, Holders
<1>6. ASSUME NEW x \in Clients \cup Temps, Leaves(x), x # v PROVE StaleHandle(x)
  <2>1. reg[id[v]] = x
    BY <1>5, <1>6
  <2>2. resets # 0
    BY <1>3, <1>6, <2>1 DEF Inv, HandleIsOwn, Nil
  <2>3. resets > 0
    BY <2>2, BoundsAssumption DEF Inv, TypeOK
  <2> QED
    BY <1>2, <1>4, <1>6, <2>1, <2>3 DEF StaleHandle
<1>7. v \notin Temps
  BY NamesApart
<1> QED
  BY <1>4, <1>6, <1>7 DEF Named

LEMMA AidNamed == ASSUME Inv, Aid PROVE Named
<1> DEFINE taken == {i \in DOMAIN reg : reg[i] # Free}
<1>1. CASE taken = {}
  BY <1>1, NoGroupRest, NobodyLeaves DEF Aid, AidOrder
<1>2. CASE taken # {}
  <2>1. PICK i : i = Turn(FirstTurn(taken))
    OBVIOUS
  <2>2. /\ sent' = <<"aid", reg[i]>>
        /\ reg' = IF reg[i] \in Temps THEN [reg EXCEPT ![i] = Free] ELSE reg
    BY <1>2, <2>1 DEF Aid, AidOrder
  <2>3. \A x \in Clients \cup Temps : Leaves(x) => x = reg[i] /\ x \in Temps
    BY <2>2 DEF Leaves, Holders
  <2> QED
    BY <2>2, <2>3, NamesApart DEF Named
<1> QED
  BY <1>1, <1>2

(* Whatever the sequence, the commands and their order: a client leaves the *)
(* registry only with its handle, a one-time registration only announced,   *)
(* but for a reset and for a handle kept over one (unregister_oda, get_aid, *)
(* rtp.lua's unregister_rtp).                                               *)
THEOREM LeavesNamed == Spec => TakenOut
<1>1. Inv /\ [Next]_vars => [Named]_vars
  <2> SUFFICES ASSUME Inv, Next PROVE Named
    OBVIOUS
  <2>1. CASE UNCHANGED reg
    BY <2>1, NobodyLeaves
  <2>2. CASE Aid
    BY <2>2, AidNamed
  <2>3. CASE Data
    <3>1. reg' = reg
      <4>1. CASE NoGroup
        BY <4>1 DEF NoGroup
      <4>2. CASE ~NoGroup
        BY <2>3, <4>2 DEF Data
      <4> QED
        BY <4>1, <4>2
    <3> QED
      BY <3>1, NobodyLeaves
  <2>4. CASE SetErt
    BY <2>4, InitClientStays DEF SetErt
  <2>5. CASE \E b \in BOOLEAN : SetAf(b) \/ \E c \in Clients : SetRtp(c, b)
    <3>1. CASE \E c \in Clients : InitClient(c)
      BY <3>1, InitClientStays
    <3> QED
      BY <2>1, <2>5, <3>1 DEF SetAf, SetRtp
  <2>6. CASE RegisterTemp
    <3>1. \A t \in Temps : t \in Holder
      BY DEF Holder
    <3> QED
      BY <2>6, <3>1, RegisteredStay DEF RegisterTemp
  <2>7. CASE Reset \/ SetDefaults
    <3>1. resets' # resets
      BY <2>7, BoundsAssumption DEF Reset, SetDefaults, Restart, Inv, TypeOK
    <3> QED
      BY <3>1 DEF Named
  <2>8. CASE \E c \in Clients : Unregister(c)
    BY <2>8, UnregisterNamed
  <2> QED
    BY <2>1, <2>2, <2>3, <2>4, <2>5, <2>6, <2>7, <2>8
    DEF Next, Slot, ClearErt, SetAfFails, SetWriting
<1>2. [Named]_vars => [/\ \A c \in Clients : Leaves(c) =>
                             id'[c] = Nil \/ resets' # resets \/ StaleHandle(c)
                       /\ \A t \in Temps : Leaves(t) =>
                             sent' = <<"aid", t>> \/ resets' # resets \/ StaleHandle(t)]_vars
  BY DEF Named
<1> QED
  BY <1>1, <1>2, InductiveInv, PTL DEF Spec, TakenOut
=============================================================================

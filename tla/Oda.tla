-------------------------------- MODULE Oda ---------------------------------
(***************************************************************************)
(* The registry of open data applications (modules/oda.lua): the slots     *)
(* 0x06 (application identifications, AID) and 0xff (application data) of  *)
(* the group sequence take their groups from it, round robin, with one     *)
(* pointer for both.  Its clients are eRT (ert.lua), RT+ and eRT+ (rtp.lua)*)
(* and the AF list (af.lua), which keep the handle they were given, and    *)
(* scripts that register an application for one announcement.  What the    *)
(* clients remember in userdata is that of the program being written.  All *)
(* of it runs inside Lua, one call at a time.                              *)
(***************************************************************************)
EXTENDS Naturals, Sequences, FiniteSets

CONSTANTS
    PROGRAMS,    \* number of programs, each with its userdata (3 in the code)
    Clients,     \* the client modules loaded: a subset of AllClients
    Temps,       \* the registrations for one announcement that scripts make
    Sequences,   \* group sequences, as the ODA slots they contain, in order
    Saved,       \* what a start may find in the programs' userdata
    MaxCommands, \* bound: commands of the control thread in one behaviour
    MaxResets    \* bound: how many of them reset the state

AllClients == {"af", "ert", "rtp", "ertp"}
Free == "free"
Nil == 0
Programs == 0 .. PROGRAMS - 1
(* Of userdata: which clients have data to send, and what set_ert asked for *)
(* and the eRT handler has not taken over yet.                              *)
UserData == [on : SUBSET Clients, ertNew : {"none", "text", "clear"}]

ASSUME ProgramsAssumption ==
    PROGRAMS \in Nat \ {0} /\ Saved \subseteq [Programs -> UserData]
ASSUME ClientsAssumption ==
    Clients \subseteq AllClients /\ Temps \cap (AllClients \cup {Free}) = {}
ASSUME SequencesAssumption == Sequences \subseteq Seq({"aid", "data"}) \ {<<>>}
ASSUME BoundsAssumption == {MaxCommands, MaxResets} \subseteq Nat

VARIABLES
    reg,      \* _RDS_ODAs: who has each slot, Free for a slot that is false
    ptr,      \* _RDS_ODA_pointer
    id,       \* the handle each client keeps, Nil for none
    user,     \* the userdata of each program
    writing,  \* the program being written, whose userdata Lua sees
    afLen,    \* _Af_Oda_len is not 0
    sequence, \* the group sequence
    pos,      \* the slot of it served next
    sent,     \* what the last slot sent: <<slot, who>>, <<>> when it gave nothing
    made,     \* the one-time registrations made
    lost,     \* those of them that a reset or a client's handle took out
    commands, resets \* bounded by MaxCommands, MaxResets

vars == <<reg, ptr, id, user, writing, afLen, sequence, pos, sent, made, lost,
          commands, resets>>

On == user[writing].on
(* What the on_state hooks of the clients cs register, in the order in which*)
(* main.lua requires them; af requires oda, whose own hook is before all.   *)
Hooked(r, c, cs) == IF c \in cs THEN Append(r, c) ELSE r
HookOrder(cs) ==
    Hooked(Hooked(Hooked(Hooked(<<>>, "af", cs), "ert", cs), "rtp", cs), "ertp", cs)
SlotOf(r, c, none) ==
    IF \E i \in DOMAIN r : r[i] = c THEN CHOOSE i \in DOMAIN r : r[i] = c ELSE none
Holders == {reg[i] : i \in DOMAIN reg}

(* register_oda: the first free slot, or a new one.                         *)
SlotFor(r) ==
    LET free == {i \in DOMAIN r : r[i] = Free}
    IN IF free = {} THEN Len(r) + 1 ELSE CHOOSE i \in free : \A j \in free : i <= j
Registered(r, who) ==
    [i \in 1 .. (IF SlotFor(r) > Len(r) THEN Len(r) + 1 ELSE Len(r)) |->
        IF i = SlotFor(r) THEN who ELSE r[i]]

(* Mutant of InitClient: it registers whenever it is asked to.              *)
InitClientAgain(c) == reg' = Registered(reg, c) /\ id' = [id EXCEPT ![c] = SlotFor(reg)]
(* A client's init function registers it only when it has no handle.        *)
InitClient(c) ==
    IF id[c] = Nil
    THEN reg' = Registered(reg, c) /\ id' = [id EXCEPT ![c] = SlotFor(reg)]
    ELSE UNCHANGED <<reg, id>>

(* The on_state hooks, from the handles the clients keep: the registry is   *)
(* emptied, then each client that has something to send is initialised.     *)
OnState(handles, wanted) ==
    /\ reg' = HookOrder({c \in wanted : handles[c] = Nil})
    /\ id' = [c \in Clients |-> SlotOf(reg', c, handles[c])]
    /\ ptr' = 1
    /\ lost' = lost \cup (Holders \cap Temps)

Init ==     \* after init_rds_encoder, with whatever the file had in userdata
    /\ user \in Saved /\ writing = 0
    /\ reg = HookOrder(On)
    /\ id = [c \in Clients |-> SlotOf(reg, c, Nil)]
    /\ ptr = 1
    /\ afLen = ("af" \in On)
    /\ sequence \in Sequences /\ pos = 1 /\ sent = <<>>
    /\ made = {} /\ lost = {}
    /\ commands = 0 /\ resets = 0

-----------------------------------------------------------------------------
(* Commands of the control thread *)

Command ==
    /\ commands < MaxCommands /\ commands' = commands + 1
    /\ UNCHANGED <<sequence, pos, sent>>
Client == Command /\ UNCHANGED <<writing, made, resets>>
SetOn(c, b) ==
    user' = [user EXCEPT ![writing].on = IF b THEN @ \cup {c} ELSE @ \ {c}]

(* set_ert: a first text is current at once, a later one, or the removal    *)
(* of the text, is taken over by the handler.                               *)
SetErt ==
    /\ Client /\ "ert" \in Clients
    /\ user' = [user EXCEPT
          ![writing].on = @ \cup {"ert"},
          ![writing].ertNew = IF "ert" \notin On /\ @ = "none" THEN "none" ELSE "text"]
    /\ InitClient("ert")
    /\ UNCHANGED <<ptr, afLen, lost>>
ClearErt ==
    /\ Client /\ "ert" \in Clients
    /\ user' = [user EXCEPT ![writing].ertNew = "clear"]
    /\ UNCHANGED <<reg, ptr, id, afLen, lost>>

(* set_rtp_meta; an RT+ application that stopped running keeps sending that.*)
SetRtp(c, running) ==
    /\ Client /\ c \in Clients \cap {"rtp", "ertp"}
    /\ SetOn(c, running)
    /\ IF running THEN InitClient(c) ELSE UNCHANGED <<reg, id>>
    /\ UNCHANGED <<ptr, afLen, lost>>

(* set_af_oda of a list, perhaps empty; or of one with a frequency that is  *)
(* none, which raises its error after the length is set.                    *)
SetAf(some) ==
    /\ Client /\ "af" \in Clients
    /\ afLen' = some /\ SetOn("af", some)
    /\ InitClient("af")
    /\ UNCHANGED <<ptr, lost>>
SetAfFails ==
    /\ Client /\ "af" \in Clients
    /\ afLen' = TRUE
    /\ UNCHANGED <<reg, ptr, id, user, lost>>

(* unregister_ert and unregister_rtp: nothing without a handle; an error,   *)
(* the handle kept, when the slot of the handle is not taken.  To           *)
(* unregister eRT+ when it has no handle unregisters RT+.                   *)
Victim(c) == IF c = "ertp" /\ id[c] = Nil /\ "rtp" \in Clients THEN "rtp" ELSE c
Unregister(c) ==
    /\ Client /\ c \in Clients \ {"af"}
    /\ LET v == Victim(c)
           i == id[v]
       IN /\ i \in DOMAIN reg /\ reg[i] # Free
          /\ reg' = [reg EXCEPT ![i] = Free]
          /\ ptr' = IF ptr = i THEN (ptr % Len(reg)) + 1 ELSE ptr
          /\ id' = [id EXCEPT ![v] = Nil]
          /\ lost' = lost \cup ({reg[i]} \cap Temps)
    /\ UNCHANGED <<user, afLen>>

(* register_oda with temp, from a script.                                   *)
RegisterTemp ==
    /\ Command
    /\ \E t \in Temps \ made :
          /\ made' = made \cup {t}
          /\ reg' = Registered(reg, t)
    /\ UNCHANGED <<ptr, id, user, writing, afLen, lost, resets>>

(* set_program and set_writing_program: other userdata, the same registry.  *)
SetWriting ==
    /\ Command
    /\ \E p \in Programs \ {writing} : writing' = p
    /\ UNCHANGED <<reg, ptr, id, user, afLen, made, lost, resets>>

(* reset_rds leaves userdata as it is, set_program_defaults clears that of  *)
(* the program being written.  An AF list that was loaded stays loaded.     *)
Restart(data) ==
    /\ Command /\ resets < MaxResets /\ resets' = resets + 1
    /\ user' = data
    /\ LET on == user'[writing].on
       IN /\ OnState(id, on \cup {c \in Clients : c = "af" /\ afLen})
          /\ afLen' = (afLen \/ "af" \in on)
    /\ UNCHANGED <<writing, made>>
Reset == Restart(user)
SetDefaults == Restart([user EXCEPT ![writing] = [on |-> {}, ertNew |-> "none"]])

-----------------------------------------------------------------------------
(* The transmitter's slots: group_handler *)

Serve(slot) ==
    /\ sequence[pos] = slot
    /\ pos' = (pos % Len(sequence)) + 1
    /\ UNCHANGED <<id, writing, afLen, sequence, made, lost, commands, resets>>
Next1Stays(i) == i                   \* Mutants of Next1: the pointer does not move
Next1Twice(i) == ((i + 1) % Len(reg)) + 1            \* on; it passes over a slot
Next1(i) == (i % Len(reg)) + 1
StartFirst == 1                      \* Mutant of Start: every search is from the first slot
Start == IF ptr \in DOMAIN reg THEN ptr ELSE 1
(* The slots from the pointer on, each once, and the first of them in s.    *)
Turn(k) == ((Start + k - 2) % Len(reg)) + 1
FirstTurn(s) == CHOOSE k \in DOMAIN reg :
                    Turn(k) \in s /\ \A j \in 1 .. k - 1 : Turn(j) \notin s

NoGroup ==      \* the slot decays to PS
    /\ ptr' = IF reg = <<>> THEN ptr ELSE Start
    /\ sent' = <<>> /\ UNCHANGED reg

(* get_aid: the next taken slot, which is freed when it is for one time.    *)
AidOrder(late) ==
    /\ Serve("aid") /\ UNCHANGED user
    /\ LET taken == {i \in DOMAIN reg : reg[i] # Free}
           i == Turn(FirstTurn(taken))
       IN IF taken = {} THEN NoGroup
          ELSE /\ sent' = <<"aid", reg[i]>>
               /\ reg' = IF reg[i] \in Temps
                         THEN [reg EXCEPT ![IF late THEN Next1(i) ELSE i] = Free]
                         ELSE reg
               /\ ptr' = Next1(i)
AidFreesLate == AidOrder(TRUE)   \* Mutant: the slot is freed after the pointer moved on
Aid == AidOrder(FALSE)

(* get_data: the next slot whose handler generates a group.  The eRT        *)
(* handler takes over a new text first and has none when the text is empty; *)
(* it is called only if the turn comes to it.                               *)
ErtOn == IF user[writing].ertNew = "none" THEN "ert" \in On ELSE user[writing].ertNew = "text"
Gives(who) == who \in Clients /\ (who = "ert" => ErtOn)
Data ==
    /\ Serve("data")
    /\ LET giving == {i \in DOMAIN reg : Gives(reg[i])}
           i == Turn(FirstTurn(giving))
           called == IF giving = {} THEN DOMAIN reg
                     ELSE {Turn(k) : k \in 1 .. FirstTurn(giving)}
       IN /\ IF giving = {} THEN NoGroup
             ELSE sent' = <<"data", reg[i]>> /\ ptr' = Next1(i) /\ UNCHANGED reg
          /\ user' = IF \E j \in called : reg[j] = "ert"
                     THEN [user EXCEPT
                             ![writing].on = IF ErtOn THEN @ \cup {"ert"} ELSE @ \ {"ert"},
                             ![writing].ertNew = "none"]
                     ELSE user

Slot == Aid \/ Data
Next ==
    \/ Slot
    \/ SetErt \/ ClearErt \/ SetAfFails \/ RegisterTemp \/ SetWriting \/ Reset \/ SetDefaults
    \/ \E b \in BOOLEAN : SetAf(b) \/ \E c \in Clients : SetRtp(c, b)
    \/ \E c \in Clients : Unregister(c)

(* The transmitter serves the slots of its sequence again and again.        *)
Spec == Init /\ [][Next]_vars /\ WF_vars(Slot)

-----------------------------------------------------------------------------
(* Properties *)

TypeOK ==
    /\ reg \in Seq(Clients \cup Temps \cup {Free})
    /\ ptr \in Nat \ {0}
    /\ id \in [Clients -> Nat] /\ user \in [Programs -> UserData]
    /\ writing \in Programs /\ afLen \in BOOLEAN
    /\ sequence \in Sequences /\ pos \in DOMAIN sequence
    /\ sent = <<>> \/ sent \in {"aid", "data"} \X (Clients \cup Temps)
    /\ made \subseteq Temps /\ lost \subseteq Temps
    /\ commands \in 0 .. MaxCommands /\ resets \in 0 .. MaxResets

(* A slot a client has is the slot of the handle it keeps: it can stop what *)
(* it is sending, and it is never in the registry twice.                    *)
HolderKnowsSlot == \A i \in DOMAIN reg : reg[i] \in Clients => id[reg[i]] = i

(* Who leaves the registry, and how.  A reset empties it.  Otherwise a      *)
(* client leaves it only with its handle, so that it can come back, and a   *)
(* one-time registration only when it is announced; nobody else's           *)
(* registration, announcement or unregistering takes them out, but for a    *)
(* client that kept its handle over a reset, which frees whoever has its    *)
(* old slot now, and for eRT+, which may unregister RT+, handle and all.    *)
Leaves(x) == x \in Holders /\ x \notin Holders'
StaleHandle(x) == resets > 0 /\ \E v \in Clients \ {x} :
    id[v] \in DOMAIN reg /\ reg[id[v]] = x /\ id'[v] = Nil
TakenOut ==
    [][/\ \A c \in Clients : Leaves(c) =>
              id'[c] = Nil \/ resets' # resets \/ StaleHandle(c)
       /\ \A t \in Temps : Leaves(t) =>
              sent' = <<"aid", t>> \/ resets' # resets \/ StaleHandle(t)]_vars

Kinds == {sequence[k] : k \in DOMAIN sequence}
(* Those that slots of a kind serve.                                        *)
Served(kind) == {who \in Holders \ {Free} : kind = "data" => Gives(who)}

(* Whatever ODA slots the sequence has, an application that stays           *)
(* registered and has data to send gets one again and again, be it for an   *)
(* announcement or for data: the pointer never passes it.                   *)
TurnComes == \A c \in Clients :
    <>[](c \in Holders /\ Gives(c)) => []<>(\E kind \in Kinds : sent = <<kind, c>>)

(* It gets slots of every kind when the sequence has one kind of ODA slot,  *)
(* or when both kinds serve the same applications and their number and that *)
(* of the ODA slots have no common divisor.  Otherwise it may not: two      *)
(* applications and the sequence <<"aid", "data">> announce one of them for *)
(* ever and send the data of the other, as both kinds move one pointer.     *)
Coprime(m, n) == \A d \in 2 .. m : m % d # 0 \/ n % d # 0
InStep == Served("aid") = Served("data") /\ Coprime(Len(sequence), Cardinality(Served("aid")))
EveryKind == \A c \in Clients, kind \in {"aid", "data"} :
    <>[](c \in Served(kind) /\ kind \in Kinds /\ (Kinds = {kind} \/ InStep))
        => []<>(sent = <<kind, c>>)

(* With AID slots only, a one-time registration is announced, unless a      *)
(* reset or a stale handle takes it out first.  Data slots pass it over, so *)
(* that with both kinds in the sequence it may never be announced.          *)
TempAnnounced == \A t \in Temps :
    (t \in Holders /\ Kinds = {"aid"}) ~> (sent = <<"aid", t>> \/ t \in lost)
=============================================================================

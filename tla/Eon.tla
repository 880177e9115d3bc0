-------------------------------- MODULE Eon ---------------------------------
(***************************************************************************)
(* The two rotations whose position the encoder keeps per program: the     *)
(* alternative frequencies of the PS group (get_next_af) and the enhanced  *)
(* other networks groups (get_rds_eon_group and get_next_af_eon), all in   *)
(* src/rds_groups.c, with the commands that change the lists under them    *)
(* (set_af and set_eon, src/lua_api.c).  One program; frequencies are      *)
(* entries numbered from 0, all of the FM band, one entry each.            *)
(***************************************************************************)
EXTENDS Naturals, FiniteSets

CONSTANTS
    EONs,        \* number of other networks (4 in the code)
    IndexMod,    \* eon_index is a bit-field of 3 bits (8 in the code)
    Ghosts,      \* bound: indices past the array that may look enabled
    MaxAfs,      \* bound: length of a list (MAX_AFS, 25 in the code)
    MaxCommands  \* bound: commands in one behaviour

(* An index names every network, and one past the last of them at least.    *)
ASSUME EonAssumption ==
    /\ EONs \in Nat \ {0} /\ IndexMod \in Nat /\ IndexMod > EONs
    /\ Ghosts \subseteq EONs .. IndexMod - 1
    /\ MaxAfs \in Nat /\ MaxCommands \in Nat

VARIABLES
    on,         \* the networks that are enabled
    ghosts,     \* indices past the array whose enabled bit, a bit of the userdata
                \* that follows it in RDSData, is set (it stays as it is here)
    num,        \* number of AFs of each network
    mainNum,    \* number of AFs of the program itself
    index,      \* eon_index
    variant,    \* eon_state
    afState,    \* eon_states[].af_state
    mainState,  \* af_state
    air,        \* the last EON group
    mainAir,    \* the entries in block C of the last PS group
    result,     \* how the last set_eon ended
    commands    \* bounded by MaxCommands

rotaVars == <<on, ghosts, num, mainNum, index, variant, afState, mainState, air, mainAir,
          result, commands>>

Networks == 0 .. EONs - 1
Enabled(e) == e \in on \/ e \in ghosts
Data == 15      \* the variant that carries eon.data
(* What block C holds: a pair of PS characters, the AFs with these numbers  *)
(* after the length of a list or not, PTY and TA, or the data of set_eon.   *)
PsPair(k) == [kind |-> "ps", pair |-> k, afs |-> {}]
Afs(s) == [kind |-> "af", pair |-> 0, afs |-> s]
Block(kind) == [kind |-> kind, pair |-> 0, afs |-> {}]

RotaInit ==
    /\ on = {} /\ ghosts \in SUBSET Ghosts /\ num = [e \in Networks |-> 0] /\ mainNum = 0
    /\ index = 0 /\ variant = 0 /\ afState = [e \in Networks |-> 0] /\ mainState = 0
    /\ air = [v |-> 0, c |-> Block("none"), pi |-> 0]
    /\ mainAir = {} /\ result = "ok" /\ commands = 0

-----------------------------------------------------------------------------
Command == commands < MaxCommands /\ commands' = commands + 1
Transmitter == <<index, variant, afState, mainState, air, mainAir>>

(* lua_set_rds_eon: the fields that are given one by one, then the AFs, and *)
(* an error when those are not given; the fields are set all the same.      *)
SetEon(e) ==
    /\ Command
    /\ on' \in {on, on \cup {e}, on \ {e}}
    /\ \/ result' = "error" /\ UNCHANGED num
       \/ result' = "ok" /\ \E n \in 0 .. MaxAfs : num' = [num EXCEPT ![e] = n]
    /\ UNCHANGED <<ghosts, mainNum, Transmitter>>
SetAf ==
    /\ Command /\ mainNum' \in 0 .. MaxAfs
    /\ UNCHANGED <<on, ghosts, num, result, Transmitter>>

-----------------------------------------------------------------------------
(* Mutant of PsGroup: the list starts again after its first entry.          *)
PsGroupOnce ==
    /\ mainNum > 0
    /\ LET next == IF mainState = 0 THEN 1 ELSE mainState + 2
       IN /\ mainAir' = {i \in mainState .. next - 1 : i < mainNum}
          /\ mainState' = IF next >= mainNum THEN 1 ELSE next
    /\ UNCHANGED <<on, ghosts, num, mainNum, index, variant, afState, air, result, commands>>
(* get_next_af, in the PS group: the length with entry 0, then two entries  *)
(* at a time; a second entry that is not there is a filler.                 *)
PsGroup ==
    /\ IF mainNum = 0
       THEN mainAir' = {} /\ UNCHANGED mainState
       ELSE LET next == IF mainState = 0 THEN 1 ELSE mainState + 2
            IN /\ mainAir' = {i \in mainState .. next - 1 : i < mainNum}
               /\ mainState' = IF next >= mainNum THEN 0 ELSE next
    /\ UNCHANGED <<on, ghosts, num, mainNum, index, variant, afState, air, result, commands>>

(* get_next_af_eon of network e: as above, but the position only moves past *)
(* a pair whose second entry is not there.                                  *)
EonPair(e) ==
    LET s == afState[e] IN {i \in IF s = 0 THEN {0} ELSE {s, s + 1} : i < num[e]}
EonAfNext(e) ==
    LET s == afState[e]
        next == CASE s = 0 -> 1
                  [] s > 0 /\ s + 1 < num[e] -> s
                  [] OTHER -> s + 2
    IN IF num[e] = 0 THEN s ELSE IF next >= num[e] THEN 0 ELSE next

(* The search for the next network: one step past the present one, without  *)
(* a wrap, then further ones, with it, for as long as what is there is not  *)
(* enabled and there were fewer than EONs of them.  From the first further  *)
(* step on, what is looked at goes round the array.                         *)
Successor(i) == (i + 1) % IndexMod
Wrapped(i) == IF i >= EONs THEN 0 ELSE i
Candidate(k) ==
    IF k = 0 THEN Successor(index)
    ELSE LET i == Wrapped(Successor(Successor(index))) + k - 1
         IN IF i >= EONs THEN i - EONs ELSE i
StepsNone == 0       \* Mutant of Steps: the next index, enabled or not
StepsFewer == CHOOSE k \in 0 .. EONs - 1 :   \* Mutant of Steps: one step fewer
            /\ k < EONs - 1 => Enabled(Candidate(k))
            /\ \A j \in 0 .. k - 1 : ~Enabled(Candidate(j))
Steps == CHOOSE k \in 0 .. EONs :
            /\ k < EONs => Enabled(Candidate(k))
            /\ \A j \in 0 .. k - 1 : ~Enabled(Candidate(j))

EonOnly == UNCHANGED <<on, ghosts, num, mainNum, mainState, mainAir, result, commands>>

(* get_rds_eon_group, any variant but the last; the position of an index    *)
(* past the array is another field of the state.                            *)
EonVariant ==
    /\ variant < 6
    /\ variant' = variant + 1
    /\ LET af == variant = 4 /\ index \in Networks
           c == CASE variant < 4 -> PsPair(variant)
                  [] variant = 5 -> Block("pty")
                  [] af -> Afs(EonPair(index))
                  [] OTHER -> Block("none")
       IN /\ air' = [v |-> IF variant = 5 THEN 13 ELSE variant, c |-> c, pi |-> index]
          /\ afState' = IF af THEN [afState EXCEPT ![index] = EonAfNext(index)] ELSE afState
    /\ UNCHANGED index /\ EonOnly

(* Mutant of EonLast: the variant goes one too far when the next one starts.*)
EonLastSkips ==
    /\ variant = 6
    /\ index' = Candidate(Steps) /\ variant' = 2
    /\ air' = [v |-> Data, c |-> PsPair(0), pi |-> IF Steps = 0 THEN index ELSE index']
    /\ UNCHANGED afState /\ EonOnly
(* The last: its 15 is put into block B, and without leaving the loop the   *)
(* next network's variant 0 is put over it.  The copy of the network that   *)
(* blocks C and D come from is only renewed by the steps of the search.     *)
EonLast ==
    /\ variant = 6
    /\ index' = Candidate(Steps)
    /\ variant' = 1
    /\ air' = [v |-> Data, c |-> PsPair(0), pi |-> IF Steps = 0 THEN index ELSE index']
    /\ UNCHANGED afState /\ EonOnly

EonGroup == EonVariant \/ EonLast
RotaNext ==
    \/ \E e \in Networks : SetEon(e)
    \/ SetAf \/ PsGroup \/ EonGroup

(* The group sequence has both groups.                                      *)
RotaSpec == RotaInit /\ [][RotaNext]_rotaVars /\ WF_rotaVars(PsGroup) /\ WF_rotaVars(EonGroup)

-----------------------------------------------------------------------------
(* Properties *)

RotaTypeOK ==
    /\ on \subseteq Networks /\ ghosts \subseteq Ghosts
    /\ num \in [Networks -> 0 .. MaxAfs] /\ mainNum \in 0 .. MaxAfs
    /\ index \in 0 .. IndexMod - 1 /\ variant \in 0 .. 6
    /\ afState \in [Networks -> 0 .. MaxAfs] /\ mainState \in 0 .. MaxAfs
    /\ air \in [v : {0, 1, 2, 3, 4, 13, Data},
                c : [kind : {"none", "ps", "af", "pty"}, pair : 0 .. 3,
                     afs : SUBSET (0 .. MaxAfs)],
                pi : 0 .. IndexMod - 1]
    /\ mainAir \subseteq 0 .. MaxAfs
    /\ result \in {"ok", "error"} /\ commands \in 0 .. MaxCommands

(* The search goes on to an enabled network if there is one, never past an  *)
(* enabled network that comes later in the array, and otherwise back to the *)
(* first of them, for all that the index leaves the array on its way.       *)
NextInTurn == [][EonLast /\ on # {} =>
    /\ Enabled(index')
    /\ \A e \in on : e > index => index < index' /\ index' <= e
    /\ (\A e \in on : e <= index) /\ index' \in Networks => \A e \in on : index' <= e]_rotaVars

(* Every AF of the program is sent again and again, whatever position a     *)
(* longer or shorter list left behind.                                      *)
AfsRecur == \A i \in 0 .. MaxAfs - 1 : <>[](i < mainNum) => []<>(i \in mainAir)

(* Every enabled network gets its turn again and again, with the PTY and TA *)
(* variant and the last three PS pairs, however the others are switched.    *)
NetworksRecur == \A e \in Networks :
    <>[](e \in on) =>
        /\ []<>(air.pi = e /\ air.v = 13)
        /\ \A k \in 1 .. 3 : []<>(air.pi = e /\ air.v = k)

(* A network that stays disabled leaves the air when another is enabled.    *)
DisabledLeaves == \A e \in Networks :
    <>[](e \notin on /\ on # {}) => <>[](air.pi # e)
=============================================================================

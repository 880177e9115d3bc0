-------------------------- MODULE LuaEngine_proofs --------------------------
(***************************************************************************)
(* Mutual exclusion in the one Lua state, for any bounds: a thread inside  *)
(* Lua holds lua_mutex, through every call from Lua to C and back, and     *)
(* when main saves at its exit nobody is inside Lua any more.              *)
(*                                                                         *)
(* The second part is about what is saved, the module Persistence: it has  *)
(* one save at a time, which is what the first part proves of its callers. *)
(***************************************************************************)
EXTENDS LuaEngine, Persistence, SequenceTheorems, TLAPS

(* The frame at the bottom of a stack took the mutex; those above it did    *)
(* not and do not give it back.                                             *)
Bottoms(t) == IF t = "tx" THEN {"hook", "group"} ELSE {"data"}
WellStacked(t, s) ==
    s # <<>> => s[1] \in Bottoms(t) /\ \A i \in 2 .. Len(s) : s[i] \notin Locking

(* A thread with frames holds the mutex, the holder has frames, and the     *)
(* worker has frames exactly while it runs a command.                       *)
StackInv ==
    /\ \A t \in Threads : WellStacked(t, stack[t])
    /\ \A t \in Threads : stack[t] # <<>> <=> holder = t
    /\ udp = "run" <=> stack["udp"] # <<>>

(* Main waits and saves outside Lua, and saves after the worker has closed  *)
(* the Lua state if it joins the worker at all.                             *)
ExitInv ==
    /\ tx \in {"join", "saved"} => stack["tx"] = <<>>
    /\ udp = "gone" => ~open
    /\ tx = "saved" /\ UdpPort => udp = "gone"

LEMMA Pushed ==
    ASSUME NEW s \in Seq(Frames), NEW f \in Frames
    PROVE  /\ Append(s, f) \in Seq(Frames)
           /\ Append(s, f) # <<>>
           /\ Len(s) \in Nat
           /\ Len(Append(s, f)) = Len(s) + 1
           /\ \A i \in 1 .. Len(s) : Append(s, f)[i] = s[i]
           /\ Append(s, f)[Len(s) + 1] = f
OBVIOUS

LEMMA Popped ==
    ASSUME NEW s \in Seq(Frames), s # <<>>, NEW r, r = SubSeq(s, 1, Len(s) - 1)
    PROVE  /\ Len(s) \in Nat /\ Len(s) >= 1
           /\ s[Len(s)] \in Frames
           /\ r \in Seq(Frames)
           /\ Len(r) = Len(s) - 1
           /\ (r = <<>>) <=> Len(s) = 1
           /\ \A i \in 1 .. Len(r) : r[i] = s[i]
<1>1. Len(s) \in Nat /\ Len(s) >= 1 /\ \A i \in 1 .. Len(s) : s[i] \in Frames
  BY EmptySeq, ElementOfSeq
<1>2. /\ r \in Seq(Frames)
      /\ Len(r) = IF 1 <= Len(s) - 1 THEN Len(s) - 1 - 1 + 1 ELSE 0
      /\ \A i \in 1 .. Len(s) - 1 - 1 + 1 : r[i] = s[1 + i - 1]
  <2>1. \A i \in 1 .. Len(s) - 1 : s[i] \in Frames
    BY <1>1
  <2>2. 1 \in Int /\ Len(s) - 1 \in Int
    BY <1>1
  <2> HIDE DEF Frames
  <2> QED
    BY <2>1, <2>2, SubSeqProperties
<1>3. Len(r) = Len(s) - 1
  <2>1. \A n \in Nat : n >= 1 => (IF 1 <= n - 1 THEN n - 1 - 1 + 1 ELSE 0) = n - 1
    OBVIOUS
  <2> QED
    BY <1>1, <1>2, <2>1
<1>4. ASSUME NEW i \in 1 .. Len(r) PROVE r[i] = s[i]
  <2>1. i \in 1 .. Len(s) - 1 - 1 + 1 /\ 1 + i - 1 = i
    BY <1>1, <1>3
  <2> QED
    BY <1>2, <2>1
<1>5. r = <<>> => Len(s) = 1
  <2>1. r = <<>> => Len(r) = 0
    BY EmptySeq
  <2>2. \A n \in Nat : n - 1 = 0 => n = 1
    OBVIOUS
  <2> QED
    BY <1>1, <1>3, <2>1, <2>2
<1>6. Len(s) = 1 => r = <<>>
  <2> HIDE DEF Frames
  <2>1. r # <<>> => Len(r) \in Nat \ {0}
    BY <1>2, EmptySeq
  <2> QED
    BY <2>1, <1>3
<1>7. s[Len(s)] \in Frames
  BY <1>1
<1> QED
  BY <1>1, <1>2, <1>3, <1>4, <1>5, <1>6, <1>7

-----------------------------------------------------------------------------
(* A thread that takes the free mutex with a frame of its own.              *)
LEMMA Entered ==
    ASSUME TypeOK, StackInv, NEW t \in Threads, NEW f \in Bottoms(t),
           holder = "none", Enter(t, f), udp' = IF t = "udp" THEN "run" ELSE udp
    PROVE  /\ stack' \in [Threads -> Seq(Frames)] /\ holder' = t
           /\ calls' \in [Threads -> 0 .. MaxCalls]
           /\ StackInv'
<1>1. f \in Frames /\ \A u \in Threads : stack[u] = <<>>
  BY DEF StackInv, Bottoms, Frames, Locking, Threads
<1>2. /\ stack' = [stack EXCEPT ![t] = Append(<<>>, f)]
      /\ calls' = [calls EXCEPT ![t] = 0] /\ holder' = t
  BY <1>1 DEF Enter, Push, TypeOK
<1>3. Append(<<>>, f) \in Seq(Frames) /\ Append(<<>>, f) # <<>>
      /\ Len(Append(<<>>, f)) = 1 /\ Append(<<>>, f)[1] = f
  BY <1>1, Pushed, EmptySeq
<1>4. WellStacked(t, Append(<<>>, f))
  BY <1>3 DEF WellStacked
<1>5. \A u \in Threads : stack'[u] = IF u = t THEN Append(<<>>, f) ELSE <<>>
  BY <1>1, <1>2 DEF TypeOK
<1>6. (\A u \in Threads : WellStacked(u, stack[u]))'
  BY <1>4, <1>5 DEF WellStacked
<1>7. (\A u \in Threads : stack[u] # <<>> <=> holder = u)'
  BY <1>2, <1>3, <1>5
<1>8. (udp = "run" <=> stack["udp"] # <<>>)'
  BY <1>1, <1>3, <1>5 DEF StackInv, Threads
<1>9. stack' \in [Threads -> Seq(Frames)] /\ calls' \in [Threads -> 0 .. MaxCalls]
  BY <1>2, <1>3, ConstantsAssumption DEF TypeOK
<1> QED
  BY <1>2, <1>6, <1>7, <1>8, <1>9 DEF StackInv

(* A call from Lua into C that goes back into Lua.                          *)
LEMMA Called ==
    ASSUME TypeOK, StackInv, NEW t \in Threads, NEW f \in Frames \ Locking, Call(t, f)
    PROVE  /\ stack' \in [Threads -> Seq(Frames)]
           /\ calls' \in [Threads -> 0 .. MaxCalls]
           /\ StackInv'
           /\ \A u \in Threads : stack'[u] = <<>> <=> stack[u] = <<>>
<1> DEFINE s == stack[t]
<1>1. s \in Seq(Frames) /\ s # <<>> /\ stack' = [stack EXCEPT ![t] = Append(s, f)]
  BY DEF Call, InLua, Push, TypeOK
<1>2. /\ Append(s, f) \in Seq(Frames) /\ Append(s, f) # <<>>
      /\ Len(s) \in Nat /\ Len(s) >= 1 /\ Len(Append(s, f)) = Len(s) + 1
      /\ \A i \in 1 .. Len(s) : Append(s, f)[i] = s[i]
      /\ Append(s, f)[Len(s) + 1] = f
  BY <1>1, Pushed, EmptySeq
<1>3. \A u \in Threads : stack'[u] = IF u = t THEN Append(s, f) ELSE stack[u]
  BY <1>1 DEF TypeOK
<1>4. stack' \in [Threads -> Seq(Frames)]
  BY <1>1, <1>2 DEF TypeOK
<1>5. calls' \in [Threads -> 0 .. MaxCalls]
  <2>1. calls[t] \in 0 .. MaxCalls /\ calls[t] < MaxCalls
        /\ calls' = [calls EXCEPT ![t] = calls[t] + 1]
    BY DEF Call, TypeOK
  <2>2. calls[t] + 1 \in 0 .. MaxCalls
    BY <2>1, ConstantsAssumption
  <2> QED
    BY <2>1, <2>2 DEF TypeOK
<1>6. WellStacked(t, Append(s, f))
  <2>1. Append(s, f)[1] \in Bottoms(t)
    BY <1>1, <1>2 DEF StackInv, WellStacked
  <2>2. ASSUME NEW i \in 2 .. Len(s) + 1 PROVE Append(s, f)[i] \notin Locking
    <3>1. CASE i = Len(s) + 1
      BY <3>1, <1>2
    <3>2. CASE i \in 2 .. Len(s)
      BY <3>2, <1>1, <1>2 DEF StackInv, WellStacked
    <3> QED
      BY <3>1, <3>2, <1>2
  <2> QED
    BY <1>2, <2>1, <2>2 DEF WellStacked
<1>7. (\A u \in Threads : WellStacked(u, stack[u]))'
  BY <1>3, <1>6 DEF StackInv, WellStacked
<1>8. \A u \in Threads : stack'[u] = <<>> <=> stack[u] = <<>>
  BY <1>1, <1>2, <1>3
<1>9. holder' = holder /\ udp' = udp
  BY DEF Call
<1> QED
  BY <1>4, <1>5, <1>7, <1>8, <1>9 DEF StackInv, Threads

(* The innermost function of a thread returns.                              *)
LEMMA Returned ==
    ASSUME TypeOK, StackInv, NEW t \in Threads, Return(t)
    PROVE  /\ stack' \in [Threads -> Seq(Frames)]
           /\ holder' \in Threads \cup {"none"}
           /\ StackInv'
           /\ \A u \in Threads : stack[u] = <<>> => stack'[u] = <<>>
           /\ udp' = udp \/ (udp' = "poll" /\ udp = "run")
<1> DEFINE s == stack[t]
           r == SubSeq(s, 1, Len(s) - 1)
<1>1. /\ s \in Seq(Frames) /\ s # <<>> /\ stack' = [stack EXCEPT ![t] = r]
      /\ Top(t) = s[Len(s)]
  BY DEF Return, InLua, TypeOK, Top
<1>2. /\ Len(s) \in Nat /\ Len(s) >= 1
      /\ r \in Seq(Frames) /\ Len(r) = Len(s) - 1
      /\ (r = <<>>) <=> Len(s) = 1
      /\ \A i \in 1 .. Len(r) : r[i] = s[i]
  <2>1. \A q : q = SubSeq(s, 1, Len(s) - 1) =>
            /\ Len(s) \in Nat /\ Len(s) >= 1
            /\ q \in Seq(Frames) /\ Len(q) = Len(s) - 1
            /\ (q = <<>>) <=> Len(s) = 1
            /\ \A i \in 1 .. Len(q) : q[i] = s[i]
    <3> HIDE DEF s
    <3> QED
      BY <1>1, Popped
  <2> QED
    BY <2>1
<1>3. \A u \in Threads : stack'[u] = IF u = t THEN r ELSE stack[u]
  BY <1>1 DEF TypeOK
<1>4. stack' \in [Threads -> Seq(Frames)]
  BY <1>1, <1>2 DEF TypeOK
<1>5. s[1] \in Bottoms(t) /\ \A i \in 2 .. Len(s) : s[i] \notin Locking
  BY <1>1 DEF StackInv, WellStacked
<1>6. WellStacked(t, r)
  BY <1>2, <1>5 DEF WellStacked
<1>7. Top(t) \in Locking <=> Len(s) = 1
  BY <1>1, <1>2, <1>5 DEF Bottoms, Locking
<1>8. Top(t) = "data" <=> Len(s) = 1 /\ t = "udp"
  BY <1>1, <1>2, <1>5, <1>7 DEF Bottoms, Locking, Threads
<1>9. /\ holder = t
      /\ holder' = IF r = <<>> THEN "none" ELSE holder
      /\ udp' = IF r = <<>> /\ t = "udp" THEN "poll" ELSE udp
  BY <1>1, <1>2, <1>7, <1>8 DEF StackInv, Return
<1>10. (\A u \in Threads : WellStacked(u, stack[u]))'
  BY <1>3, <1>6 DEF StackInv, WellStacked
<1>11. (\A u \in Threads : stack[u] # <<>> <=> holder = u)'
  BY <1>1, <1>3, <1>9 DEF StackInv, Threads
<1>12. (udp = "run" <=> stack["udp"] # <<>>)'
  BY <1>1, <1>3, <1>9 DEF StackInv, Threads
<1> QED
  BY <1>1, <1>3, <1>4, <1>9, <1>10, <1>11, <1>12 DEF StackInv, Threads

-----------------------------------------------------------------------------
Inv == TypeOK /\ StackInv /\ ExitInv

LEMMA InitInv == Init => Inv
<1> SUFFICES ASSUME Init PROVE Inv
  OBVIOUS
<1>1. \A t \in Threads : stack[t] = <<>>
  BY DEF Init
<1>2. TypeOK
  <2>1. <<>> \in Seq(Frames) /\ 0 \in 0 .. MaxCalls /\ 0 \in 0 .. MaxCommands
    BY ConstantsAssumption, EmptySeq
  <2> QED
    BY <2>1 DEF Init, TypeOK
<1>3. StackInv
  BY <1>1 DEF Init, StackInv, WellStacked, Threads
<1>4. ExitInv
  BY <1>1 DEF Init, ExitInv, Threads
<1> QED
  BY <1>2, <1>3, <1>4 DEF Inv

(* Steps of main, one LEMMA for those that leave Lua alone and one for those*)
(* that enter it.                                                           *)
LEMMA MovedOutside ==
    ASSUME Inv, tx \notin {"saved", "crashed"}, TxOnly, Outside,
           tx' \in {"second", "tick", "pre_tx", "core", "lua", "sent", "join"}
    PROVE  Inv'
<1>1. TypeOK'
  BY DEF Inv, TypeOK, TxOnly, Outside
<1>2. StackInv'
  BY DEF Inv, StackInv, WellStacked, TxOnly, Outside
<1>3. ExitInv'
  BY DEF Inv, ExitInv, TxOnly, Outside
<1> QED
  BY <1>1, <1>2, <1>3 DEF Inv

LEMMA MovedInside ==
    ASSUME Inv, tx \notin {"saved", "crashed"}, TxOnly, NEW f \in Bottoms("tx"),
           holder = "none", Enter("tx", f),
           tx' \in {"pre_tx", "core", "lua", "sent"}
    PROVE  Inv'
<1>1. /\ stack' \in [Threads -> Seq(Frames)] /\ holder' = "tx"
      /\ calls' \in [Threads -> 0 .. MaxCalls]
      /\ StackInv'
  BY Entered DEF Inv, TxOnly, Threads
<1>2. TypeOK'
  BY <1>1 DEF Inv, TypeOK, TxOnly, Threads
<1>3. ExitInv'
  BY DEF Inv, ExitInv, TxOnly
<1> QED
  BY <1>1, <1>2, <1>3 DEF Inv

LEMMA MainStep == ASSUME Inv, Main PROVE Inv'
<1>1. CASE Connect
  BY <1>1, MovedOutside DEF Connect, Goto
<1>2. CASE Second
  BY <1>2, MovedOutside DEF Second, Goto
<1>3. ASSUME NEW from \in {"tick", "pre_tx", "core"}, NEW to, TryHook(from, to),
             to \subseteq {"pre_tx", "core", "lua", "sent"}
      PROVE  Inv'
  <2>1. tx = from /\ TxOnly /\ tx' \in {"pre_tx", "core", "lua", "sent"}
    BY <1>3 DEF TryHook
  <2>2. CASE holder = "none" /\ Enter("tx", "hook")
    BY <2>1, <2>2, MovedInside DEF Bottoms
  <2>3. CASE Outside
    BY <2>1, <2>3, MovedOutside
  <2> QED
    BY <1>3, <2>2, <2>3 DEF TryHook
<1>4. CASE Tick
  BY <1>3, <1>4 DEF Tick
<1>5. CASE PreTx
  BY <1>3, <1>5 DEF PreTx
<1>6. CASE CoreGroup
  <2>1. CASE TryHook("core", {"sent"})
    BY <1>3, <2>1
  <2>2. CASE Goto("core", {"sent"})
    BY <2>2, MovedOutside DEF Goto
  <2> QED
    BY <1>6, <2>1, <2>2 DEF CoreGroup
<1>7. CASE LuaGroup
  BY <1>7, MovedInside DEF LuaGroup, Bottoms
<1>8. CASE Sent
  BY <1>8, MovedOutside DEF Sent, Goto
<1>9. CASE Join
  <2>1. /\ UdpPort => udp = "gone"
        /\ tx = "join" /\ tx' = "saved" /\ TxOnly /\ Outside
    BY <1>9 DEF Join, Goto
  <2>2. TypeOK'
    BY <2>1 DEF Inv, TypeOK, TxOnly, Outside
  <2>3. StackInv'
    BY <2>1 DEF Inv, StackInv, WellStacked, TxOnly, Outside
  <2>4. ExitInv'
    BY <2>1 DEF Inv, ExitInv, TxOnly, Outside
  <2> QED
    BY <2>2, <2>3, <2>4 DEF Inv
<1>10. CASE SkipClosed
  BY <1>10, MovedOutside DEF SkipClosed, Goto
<1>11. CASE Crash
  <2>1. TypeOK'
    BY <1>11 DEF Crash, Inv, TypeOK
  <2>2. StackInv'
    BY <1>11 DEF Crash, Inv, StackInv, WellStacked
  <2>3. ExitInv'
    BY <1>11 DEF Crash, Inv, ExitInv
  <2> QED
    BY <2>1, <2>2, <2>3 DEF Inv
<1> QED
  BY <1>1, <1>2, <1>4, <1>5, <1>6, <1>7, <1>8, <1>9, <1>10, <1>11 DEF Main

LEMMA WorkerStep == ASSUME Inv, Worker \/ Poll PROVE Inv'
<1>1. CASE Poll
  <2>1. commands + 1 \in 0 .. MaxCommands
    BY <1>1, ConstantsAssumption DEF Poll, Inv, TypeOK
  <2>2. TypeOK'
    BY <1>1, <2>1 DEF Poll, UdpOnly, Outside, Inv, TypeOK
  <2>3. StackInv'
    BY <1>1 DEF Poll, UdpOnly, Outside, Inv, StackInv, WellStacked
  <2>4. ExitInv'
    BY <1>1 DEF Poll, UdpOnly, Outside, Inv, ExitInv, Alive
  <2> QED
    BY <2>2, <2>3, <2>4 DEF Inv
<1>2. CASE RunLua
  <2>1. Enter("udp", "data") /\ holder = "none" /\ udp' = "run" /\ "data" \in Bottoms("udp")
    BY <1>2 DEF RunLua, Bottoms
  <2>2. /\ stack' \in [Threads -> Seq(Frames)] /\ holder' = "udp"
        /\ calls' \in [Threads -> 0 .. MaxCalls]
        /\ StackInv'
    BY <2>1, Entered DEF Inv, Threads
  <2>3. TypeOK'
    BY <1>2, <2>2 DEF RunLua, UdpOnly, Inv, TypeOK, Threads
  <2>4. stack'["tx"] = stack["tx"]
    BY <2>1 DEF Enter, Push, Inv, TypeOK, Threads
  <2>5. ExitInv'
    BY <1>2, <2>4 DEF RunLua, UdpOnly, Inv, ExitInv, Alive
  <2> QED
    BY <2>2, <2>3, <2>5 DEF Inv
<1>3. CASE Close
  <2>1. TypeOK'
    BY <1>3 DEF Close, UdpOnly, Outside, Inv, TypeOK
  <2>2. StackInv'
    BY <1>3 DEF Close, UdpOnly, Outside, Inv, StackInv, WellStacked
  <2>3. ExitInv'
    BY <1>3 DEF Close, UdpOnly, Outside, Inv, ExitInv
  <2> QED
    BY <2>1, <2>2, <2>3 DEF Inv
<1> QED
  BY <1>1, <1>2, <1>3 DEF Worker

LEMMA LuaStep ==
    ASSUME Inv, NEW t \in Threads, Api(t) \/ Return(t)
    PROVE  Inv'
<1>1. ASSUME NEW f \in Frames \ Locking, Call(t, f), inDefaults' \in BOOLEAN
      PROVE  Inv'
  <2>1. /\ stack' \in [Threads -> Seq(Frames)]
        /\ calls' \in [Threads -> 0 .. MaxCalls]
        /\ StackInv'
        /\ \A u \in Threads : stack'[u] = <<>> <=> stack[u] = <<>>
    BY <1>1, Called DEF Inv
  <2>2. TypeOK'
    BY <1>1, <2>1 DEF Call, Inv, TypeOK
  <2>3. ExitInv'
    BY <1>1, <2>1 DEF Call, Inv, ExitInv, Threads
  <2> QED
    BY <2>1, <2>2, <2>3 DEF Inv
<1>2. CASE CallReset(t)
  BY <1>1, <1>2 DEF CallReset, Frames, Locking, Inv, TypeOK
<1>3. CASE CallDefaults(t)
  BY <1>1, <1>3 DEF CallDefaults, Frames, Locking
<1>4. CASE EncodeLua(t)
  BY <1>1, <1>4 DEF EncodeLua, Frames, Locking, Inv, TypeOK
<1>5. CASE Return(t)
  <2>1. /\ stack' \in [Threads -> Seq(Frames)]
        /\ holder' \in Threads \cup {"none"}
        /\ StackInv'
        /\ \A u \in Threads : stack[u] = <<>> => stack'[u] = <<>>
        /\ udp' = udp \/ (udp' = "poll" /\ udp = "run")
    BY <1>5, Returned DEF Inv
  <2>2. inDefaults' \in BOOLEAN
    BY <1>5 DEF Return
  <2>3. TypeOK'
    BY <1>5, <2>1, <2>2 DEF Return, Inv, TypeOK
  <2>4. ExitInv'
    BY <1>5, <2>1 DEF Return, Alive, Inv, ExitInv, Threads
  <2> QED
    BY <2>1, <2>3, <2>4 DEF Inv
<1> QED
  BY <1>2, <1>3, <1>4, <1>5 DEF Api

LEMMA InductiveInv == Spec => []Inv
<1>1. Init => Inv
  BY InitInv
<1>2. Inv /\ [Next]_vars => Inv'
  <2> SUFFICES ASSUME Inv, [Next]_vars PROVE Inv'
    OBVIOUS
  <2>1. CASE Main
    BY <2>1, MainStep
  <2>2. CASE Worker \/ Poll
    BY <2>2, WorkerStep
  <2>3. CASE Signal
    <3>1. TypeOK'
      BY <2>3 DEF Signal, Inv, TypeOK
    <3>2. StackInv' /\ ExitInv'
      BY <2>3 DEF Signal, Inv, StackInv, WellStacked, ExitInv
    <3> QED
      BY <3>1, <3>2 DEF Inv
  <2>4. CASE Exited \/ UNCHANGED vars
    BY <2>4 DEF Exited, vars, Inv, TypeOK, StackInv, WellStacked, ExitInv
  <2>5. ASSUME NEW t \in Threads, Api(t) \/ Return(t) PROVE Inv'
    BY <2>5, LuaStep
  <2> QED
    BY <2>1, <2>2, <2>3, <2>4, <2>5 DEF Next
<1> QED
  BY <1>1, <1>2, PTL DEF Spec

-----------------------------------------------------------------------------
(* Every variable keeps its type, the frames of the threads included, for   *)
(* any bound on the calls Lua makes.                                        *)
THEOREM TypeCorrect == Spec => []TypeOK
<1>1. Inv => TypeOK
  BY DEF Inv
<1> QED
  BY <1>1, InductiveInv, PTL

(* The Lua state is never used by two threads at once, nor by a thread that *)
(* does not hold lua_mutex, however hooks, commands and the calls they make *)
(* interleave (run_lua, lua_group, lua_call_tfunction in src/lua_rds.c).    *)
THEOREM MutexHeld == Spec => []OneThreadInLua
<1>1. Inv => OneThreadInLua
  BY DEF Inv, StackInv, OneThreadInLua
<1> QED
  BY <1>1, InductiveInv, PTL

(* If main joins the worker, it saves when no thread is inside Lua, no      *)
(* command is half done and the Lua state is closed (main, the exit in      *)
(* src/rds95.c).                                                            *)
THEOREM SavesAlone == Spec => []SavedAlone
<1>1. Inv => SavedAlone
  <2> SUFFICES ASSUME Inv, tx = "saved", UdpPort
               PROVE  stack["udp"] = <<>> /\ holder = "none" /\ ~open
    BY DEF SavedAlone
  <2>1. udp = "gone" /\ ~open /\ stack["tx"] = <<>>
    BY DEF Inv, ExitInv
  <2>2. stack["udp"] = <<>>
    BY <2>1 DEF Inv, StackInv
  <2>3. holder \notin Threads
    BY <2>1, <2>2 DEF Inv, StackInv, Threads
  <2> QED
    BY <2>1, <2>2, <2>3 DEF Inv, TypeOK
<1> QED
  BY <1>1, InductiveInv, PTL

-----------------------------------------------------------------------------
(* set_program_defaults: frame i of thread t runs it.  At most one frame    *)
(* does, the flag is up exactly while one does, and a stack is no deeper    *)
(* than the calls its thread has made.                                      *)
Running(t, i) == i \in 1 .. Len(stack[t]) /\ stack[t][i] = "defaults"
DefaultsInv ==
    /\ \A t \in Threads : Len(stack[t]) <= calls[t] + 1
    /\ \A t, u \in Threads : \A i, j \in Nat :
            Running(t, i) /\ Running(u, j) => t = u /\ i = j
    /\ inDefaults <=> \E t \in Threads, i \in Nat : Running(t, i)

LEMMA DefaultsSame ==
    ASSUME DefaultsInv, UNCHANGED <<stack, calls, inDefaults>>
    PROVE  DefaultsInv'
<1>1. \A t, i : Running(t, i)' <=> Running(t, i)
  BY DEF Running
<1> QED
  BY <1>1 DEF DefaultsInv

(* Entering Lua runs a hook, never set_program_defaults.                    *)
LEMMA DefaultsEntered ==
    ASSUME Inv, DefaultsInv, NEW t \in Threads, NEW f \in Bottoms(t),
           stack[t] = <<>>, Enter(t, f), inDefaults' = inDefaults
    PROVE  DefaultsInv'
<1>1. f \in Frames /\ f # "defaults"
  BY DEF Bottoms, Frames, Locking
<1>2. /\ stack' = [stack EXCEPT ![t] = Append(<<>>, f)]
      /\ calls' = [calls EXCEPT ![t] = 0]
  BY DEF Enter, Push, Inv, TypeOK
<1>3. Len(Append(<<>>, f)) = 1 /\ Append(<<>>, f)[1] = f
  BY <1>1, Pushed, EmptySeq
<1>4. \A u \in Threads : /\ stack'[u] = IF u = t THEN Append(<<>>, f) ELSE stack[u]
                         /\ calls'[u] = IF u = t THEN 0 ELSE calls[u]
  BY <1>2 DEF Inv, TypeOK
<1>5. ASSUME NEW u \in Threads, NEW i \in Nat PROVE Running(u, i)' <=> Running(u, i)
  <2>1. CASE u = t
    <3>1. ~Running(u, i)
      BY <2>1, EmptySeq DEF Running
    <3>2. i \in 1 .. 1 => stack'[u][i] = f
      BY <1>3, <1>4, <2>1
    <3> QED
      BY <1>1, <1>3, <1>4, <2>1, <3>1, <3>2 DEF Running
  <2>2. CASE u # t
    BY <1>4, <2>2 DEF Running
  <2> QED
    BY <2>1, <2>2
<1>6. ASSUME NEW u \in Threads PROVE Len(stack'[u]) <= calls'[u] + 1
  <2>1. CASE u = t
    <3>1. stack'[u] = Append(<<>>, f) /\ calls'[u] = 0
      BY <1>4, <2>1
    <3>2. Len(stack'[u]) = 1
      BY <1>3, <3>1
    <3> QED
      BY <3>1, <3>2
  <2>2. CASE u # t
    <3>1. stack'[u] = stack[u] /\ calls'[u] = calls[u]
      BY <1>4, <2>2
    <3> QED
      BY <3>1 DEF DefaultsInv
  <2> QED
    BY <2>1, <2>2
<1> QED
  BY <1>5, <1>6 DEF DefaultsInv

(* A call adds a frame, which runs set_program_defaults only when the flag  *)
(* was down.                                                                *)
LEMMA DefaultsCalled ==
    ASSUME Inv, DefaultsInv, NEW t \in Threads, NEW f \in Frames \ Locking, Call(t, f),
           f = "defaults" => ~inDefaults,
           inDefaults' <=> (inDefaults \/ f = "defaults")
    PROVE  DefaultsInv'
<1>1. PICK n \in Nat : n = Len(stack[t])
  BY EmptySeq DEF Inv, TypeOK
<1>2. PICK s \in Seq(Frames) : s = stack[t]
  BY DEF Inv, TypeOK
<1>3. PICK q \in Seq(Frames) : q = Append(s, f)
  BY Pushed
<1>4. Len(q) = n + 1 /\ q[n + 1] = f /\ \A i \in 1 .. n : q[i] = s[i]
  BY <1>1, <1>2, <1>3, Pushed
<1>5. \A u \in Threads : /\ stack'[u] = IF u = t THEN q ELSE stack[u]
                         /\ calls'[u] = IF u = t THEN calls[u] + 1 ELSE calls[u]
                         /\ calls[u] \in Nat
  BY <1>2, <1>3, ConstantsAssumption DEF Call, Push, Inv, TypeOK
<1>6. ASSUME NEW u \in Threads, NEW i \in Nat
      PROVE  Running(u, i)' <=> Running(u, i) \/ (u = t /\ i = n + 1 /\ f = "defaults")
  <2>1. CASE u # t
    BY <1>5, <2>1 DEF Running
  <2>2. CASE u = t /\ i = n + 1
    <3>1. ~Running(u, i)
      BY <1>1, <2>2 DEF Running
    <3>2. i \in 1 .. Len(q) /\ q[i] = f
      BY <1>4, <2>2
    <3> QED
      BY <1>5, <2>2, <3>1, <3>2 DEF Running
  <2>3. CASE u = t /\ i # n + 1
    <3>1. i \in 1 .. Len(q) <=> i \in 1 .. n
      BY <1>4, <2>3
    <3>2. i \in 1 .. n => q[i] = stack[u][i]
      BY <1>2, <1>4, <2>3
    <3> QED
      BY <1>1, <1>5, <2>3, <3>1, <3>2 DEF Running
  <2> QED
    BY <2>1, <2>2, <2>3
<1>7. \A u \in Threads : Len(stack'[u]) <= calls'[u] + 1
  <2>1. n <= calls[t] + 1
    BY <1>1 DEF DefaultsInv
  <2>2. ASSUME NEW u \in Threads PROVE Len(stack'[u]) <= calls'[u] + 1
    <3>1. CASE u = t
      <4>1. Len(stack'[u]) = n + 1 /\ calls'[u] = calls[t] + 1 /\ calls[t] \in Nat
        BY <1>4, <1>5, <3>1
      <4> QED
        BY <2>1, <4>1
    <3>2. CASE u # t
      <4>1. stack'[u] = stack[u] /\ calls'[u] = calls[u]
        BY <1>5, <3>2
      <4> QED
        BY <4>1 DEF DefaultsInv
    <3> QED
      BY <3>1, <3>2
  <2> QED
    BY <2>2
<1>8. ASSUME f = "defaults" PROVE DefaultsInv'
  <2>1. \A u \in Threads, i \in Nat : ~Running(u, i)
    BY <1>8 DEF DefaultsInv
  <2>2. \A u \in Threads, i \in Nat : Running(u, i)' <=> u = t /\ i = n + 1
    BY <1>6, <1>8, <2>1
  <2>3. inDefaults'
    BY <1>8
  <2>4. n + 1 \in Nat
    OBVIOUS
  <2> QED
    BY <1>7, <2>2, <2>3, <2>4 DEF DefaultsInv
<1>9. CASE f # "defaults"
  <2>1. \A u \in Threads, i \in Nat : Running(u, i)' <=> Running(u, i)
    BY <1>6, <1>9
  <2>2. inDefaults' <=> inDefaults
    BY <1>9
  <2> QED
    BY <1>7, <2>1, <2>2 DEF DefaultsInv
<1> QED
  BY <1>8, <1>9

(* A return removes the last frame, and takes the flag down with the frame  *)
(* that put it up.                                                          *)
LEMMA DefaultsReturned ==
    ASSUME Inv, DefaultsInv, NEW t \in Threads, Return(t)
    PROVE  DefaultsInv'
<1>1. PICK s \in Seq(Frames) : s = stack[t] /\ s # <<>>
  BY DEF Return, InLua, Inv, TypeOK
<1>2. PICK r : r = SubSeq(s, 1, Len(s) - 1)
  OBVIOUS
<1>3. PICK n \in Nat : n = Len(s)
  BY EmptySeq
<1>4. n >= 1 /\ Len(r) = n - 1 /\ \A i \in 1 .. Len(r) : r[i] = s[i]
  BY <1>1, <1>2, <1>3, Popped
<1>5. \A u \in Threads : /\ stack'[u] = IF u = t THEN r ELSE stack[u]
                         /\ calls'[u] = calls[u] /\ calls[u] \in Nat
  BY <1>1, <1>2, ConstantsAssumption DEF Return, Inv, TypeOK
<1>6. Top(t) = s[n] /\ inDefaults' = (inDefaults /\ s[n] # "defaults")
  BY <1>1, <1>3 DEF Return, Top
<1>7. ASSUME NEW u \in Threads, NEW i \in Nat
      PROVE  Running(u, i)' <=> Running(u, i) /\ ~(u = t /\ i = n)
  <2>1. CASE u # t
    BY <1>5, <2>1 DEF Running
  <2>2. CASE u = t
    <3>1. i \in 1 .. Len(r) <=> i \in 1 .. n /\ i # n
      BY <1>4
    <3>2. i \in 1 .. Len(r) => r[i] = s[i]
      BY <1>4
    <3> QED
      BY <1>1, <1>3, <1>5, <2>2, <3>1, <3>2 DEF Running
  <2> QED
    BY <2>1, <2>2
<1>8. \A u \in Threads : Len(stack'[u]) <= calls'[u] + 1
  <2>1. n <= calls[t] + 1
    BY <1>1, <1>3 DEF DefaultsInv
  <2> QED
    BY <1>4, <1>5, <2>1 DEF DefaultsInv
<1>9. Running(t, n) <=> s[n] = "defaults"
  BY <1>1, <1>3, <1>4 DEF Running
<1>10. CASE s[n] = "defaults"
  <2>1. \A u \in Threads, i \in Nat : Running(u, i) => u = t /\ i = n
    BY <1>9, <1>10 DEF DefaultsInv
  <2>2. \A u \in Threads, i \in Nat : ~Running(u, i)'
    BY <1>7, <2>1
  <2>3. ~inDefaults'
    BY <1>6, <1>10
  <2> QED
    BY <1>8, <2>2, <2>3 DEF DefaultsInv
<1>11. CASE s[n] # "defaults"
  <2>1. \A u \in Threads, i \in Nat : Running(u, i)' <=> Running(u, i)
    BY <1>7, <1>9, <1>11
  <2>2. inDefaults' = inDefaults
    BY <1>6, <1>11 DEF Inv, TypeOK
  <2> QED
    BY <1>8, <2>1, <2>2 DEF DefaultsInv
<1> QED
  BY <1>10, <1>11

LEMMA DefaultsStep == Inv /\ DefaultsInv /\ [Next]_vars => DefaultsInv'
<1> SUFFICES ASSUME Inv, DefaultsInv, [Next]_vars PROVE DefaultsInv'
  OBVIOUS
<1>1. ASSUME NEW from, NEW to, Goto(from, to) PROVE DefaultsInv'
  BY <1>1, DefaultsSame DEF Goto, TxOnly, Outside
<1>2. ASSUME NEW from, NEW to, TryHook(from, to) PROVE DefaultsInv'
  <2>1. CASE Outside
    BY <1>2, <2>1, DefaultsSame DEF TryHook, TxOnly, Outside
  <2>2. CASE Enter("tx", "hook")
    BY <1>2, <2>2, DefaultsEntered DEF TryHook, TxOnly, Bottoms, Threads
  <2> QED
    BY <1>2, <2>1, <2>2 DEF TryHook
<1>3. CASE Connect \/ Second \/ Sent \/ Join \/ SkipClosed
  BY <1>1, <1>3 DEF Connect, Second, Sent, Join, SkipClosed
<1>4. CASE Tick \/ PreTx \/ CoreGroup
  BY <1>1, <1>2, <1>4 DEF Tick, PreTx, CoreGroup
<1>5. CASE LuaGroup
  BY <1>5, DefaultsEntered DEF LuaGroup, TxOnly, Bottoms, Threads
<1>6. CASE Crash \/ Signal \/ Exited \/ UNCHANGED vars
  BY <1>6, DefaultsSame DEF Crash, Signal, Exited, vars
<1>7. CASE Poll \/ Close
  BY <1>7, DefaultsSame DEF Poll, Close, UdpOnly, Outside
<1>8. CASE RunLua
  BY <1>8, DefaultsEntered DEF RunLua, UdpOnly, Bottoms, Threads
<1>9. ASSUME NEW t \in Threads, Api(t) PROVE DefaultsInv'
  <2>1. CASE CallReset(t)
    BY <2>1, DefaultsCalled DEF CallReset, Frames, Locking, Inv, TypeOK
  <2>2. CASE CallDefaults(t)
    BY <2>2, DefaultsCalled DEF CallDefaults, Frames, Locking, Inv, TypeOK
  <2>3. CASE EncodeLua(t)
    BY <2>3, DefaultsCalled DEF EncodeLua, Frames, Locking, Inv, TypeOK
  <2> QED
    BY <1>9, <2>1, <2>2, <2>3 DEF Api
<1>10. CASE \E t \in Threads : Return(t)
  BY <1>10, DefaultsReturned
<1> QED
  BY <1>3, <1>4, <1>5, <1>6, <1>7, <1>8, <1>9, <1>10 DEF Next, Main, Worker

(* set_program_defaults never runs inside itself and its flag is down when  *)
(* nobody runs it, for any number of calls and datagrams.                   *)
THEOREM DefaultsOnce == Spec => []DefaultsNotNested
<1>1. Init => DefaultsInv
  <2> SUFFICES ASSUME Init PROVE DefaultsInv
    OBVIOUS
  <2>1. \A t \in Threads : stack[t] = <<>> /\ calls[t] = 0 /\ Len(stack[t]) = 0
    BY EmptySeq DEF Init
  <2>2. \A t \in Threads, i \in Nat : ~Running(t, i)
    BY <2>1 DEF Running
  <2> QED
    BY <2>1, <2>2 DEF Init, DefaultsInv
<1>2. ASSUME Inv, DefaultsInv PROVE DefaultsNotNested
  <2> DEFINE running == {x \in Threads \X (1 .. MaxCalls + 1) :
                            x[2] <= Len(stack[x[1]]) /\ stack[x[1]][x[2]] = "defaults"}
  <2>1. ASSUME NEW x \in running
        PROVE  /\ x[1] \in Threads /\ x[2] \in Nat /\ x = <<x[1], x[2]>>
               /\ Running(x[1], x[2])
    <3>1. x[1] \in Threads /\ x[2] \in 1 .. MaxCalls + 1 /\ x = <<x[1], x[2]>>
          /\ x[2] <= Len(stack[x[1]]) /\ stack[x[1]][x[2]] = "defaults"
      OBVIOUS
    <3>2. Len(stack[x[1]]) \in Nat
      BY <1>2, <3>1, EmptySeq DEF Inv, TypeOK
    <3> QED
      BY <3>1, <3>2, ConstantsAssumption DEF Running
  <2>2. ASSUME NEW t \in Threads, NEW i \in Nat, Running(t, i)
        PROVE  <<t, i>> \in running
    <3>1. /\ i \in 1 .. Len(stack[t]) /\ stack[t][i] = "defaults"
          /\ Len(stack[t]) \in Nat
          /\ Len(stack[t]) <= calls[t] + 1 /\ calls[t] \in 0 .. MaxCalls
      BY <1>2, <2>2, EmptySeq DEF Running, DefaultsInv, Inv, TypeOK
    <3>2. i \in 1 .. MaxCalls + 1
      BY <3>1, ConstantsAssumption
    <3> QED
      BY <3>1, <3>2
  <2>3. \A x, y \in running : x = y
    BY <1>2, <2>1 DEF DefaultsInv
  <2>4. inDefaults <=> running # {}
    <3> HIDE DEF running
    <3>1. inDefaults => running # {}
      BY <1>2, <2>2 DEF DefaultsInv
    <3>2. running # {} => inDefaults
      <4>1. running # {} => \E x : x \in running
        OBVIOUS
      <4> QED
        BY <1>2, <2>1, <4>1 DEF DefaultsInv
    <3> QED
      BY <1>2, <3>1, <3>2 DEF Inv, TypeOK
  <2> QED
    BY <2>3, <2>4 DEF DefaultsNotNested
<1>3. Spec => [](Inv /\ DefaultsInv)
  BY <1>1, InductiveInv, DefaultsStep, PTL DEF Spec
<1> QED
  BY <1>2, <1>3, PTL

-----------------------------------------------------------------------------
(* The settings file.  The saves of lua_force_save and lua_reset_rds run    *)
(* under lua_mutex and that of main after the worker has gone (SavedAlone), *)
(* so that Persistence may have one save at a time.                         *)
USE DEF Loads, Files

(* While a save runs nobody changes the settings, so that what it has       *)
(* packed is what is live; a process has settings as long as it runs.       *)
ProcessInv ==
    /\ pc \in {"open", "write", "rename", "return", "load"} => snap = mem
    /\ pc = "off" <=> mem = Down
    /\ pc = "rename" => tmp \in {snap, Torn}

(* When writes succeed, what is renamed over the file is whole.             *)
FileInv ==
    /\ pc = "rename" => tmp = snap
    /\ file # Torn

LEMMA ProcessInductive ==
    ASSUME SavesTypeOK, ProcessInv, [SavesNext]_savesVars PROVE SavesTypeOK' /\ ProcessInv'
<1> USE PersistenceAssumption DEF SavesTypeOK, ProcessInv
<1>1. CASE Boot
  BY <1>1 DEF Boot
<1>2. CASE Change
  BY <1>2 DEF Change
<1>3. CASE CallSave
  BY <1>3 DEF CallSave
<1>4. CASE Pack
  BY <1>4 DEF Pack
<1>5. CASE Open
  BY <1>5 DEF Open
<1>6. CASE Write
  BY <1>6 DEF Write
<1>7. CASE Rename
  BY <1>7 DEF Rename
<1>8. CASE SaveReturn
  BY <1>8 DEF SaveReturn
<1>9. CASE LoadBack
  BY <1>9 DEF LoadBack
<1>10. CASE Kill
  BY <1>10 DEF Kill
<1>11. CASE UNCHANGED savesVars
  BY <1>11 DEF savesVars
<1> QED
  BY <1>1, <1>2, <1>3, <1>4, <1>5, <1>6, <1>7, <1>8, <1>9, <1>10, <1>11 DEF SavesNext

LEMMA ProcessInvariant == SavesSpec => [](SavesTypeOK /\ ProcessInv)
<1>1. SavesInit => SavesTypeOK /\ ProcessInv
  BY PersistenceAssumption DEF SavesInit, SavesTypeOK, ProcessInv
<1> QED
  BY <1>1, ProcessInductive, PTL DEF SavesSpec

(* The variables keep their types: src/fs.c and its callers.                *)
THEOREM SavesTypeCorrect == SavesSpec => []SavesTypeOK
<1> QED
  BY ProcessInvariant, PTL

LEMMA FileInductive ==
    ASSUME ~WriteFails, SavesTypeOK, ProcessInv, FileInv, [SavesNext]_savesVars PROVE FileInv'
<1> USE PersistenceAssumption DEF SavesTypeOK, ProcessInv, FileInv
<1>1. CASE Write
  BY <1>1 DEF Write
<1>2. CASE Rename
  BY <1>2 DEF Rename
<1>3. CASE Boot \/ Change \/ CallSave \/ Pack \/ Open \/ SaveReturn \/ LoadBack \/ Kill
  BY <1>3 DEF Boot, Change, CallSave, Pack, Open, SaveReturn, LoadBack, Kill
<1>4. CASE UNCHANGED savesVars
  BY <1>4 DEF savesVars
<1> QED
  BY <1>1, <1>2, <1>3, <1>4 DEF SavesNext

(* Each step of the detailed specification is a step of the store: the      *)
(* rename is its save, a reset that found an older file an edit.            *)
LEMMA StepRefines ==
    ASSUME SavesTypeOK, ProcessInv, FileInv, [SavesNext]_savesVars
    PROVE  [Store!Next]_<<mem, file>>
<1> USE PersistenceAssumption DEF SavesTypeOK, ProcessInv, FileInv
<1>1. CASE Boot
  BY <1>1 DEF Boot, Store!Next, Store!Start
<1>2. CASE Change
  BY <1>2 DEF Change, Store!Next, Store!Edit
<1>3. CASE CallSave \/ Pack \/ Open \/ Write
  BY <1>3 DEF CallSave, Pack, Open, Write
<1>4. CASE Rename
  BY <1>4 DEF Rename, Store!Next, Store!Save
<1>5. CASE SaveReturn
  BY <1>5 DEF SaveReturn, Store!Next, Store!Stop
<1>6. CASE LoadBack
  BY <1>6 DEF LoadBack, Store!Next, Store!Edit
<1>7. CASE Kill
  BY <1>7 DEF Kill, Store!Next, Store!Stop
<1>8. CASE UNCHANGED savesVars
  BY <1>8 DEF savesVars
<1> QED
  BY <1>1, <1>2, <1>3, <1>4, <1>5, <1>6, <1>7, <1>8 DEF SavesNext

(* The encoder file implements the durable store when writes succeed,       *)
(* whether or not the temporary file can be opened and renamed and whenever *)
(* the process is killed: encoder_saveToFile and encoder_loadFromFile of    *)
(* src/fs.c.                                                                *)
THEOREM StoreIsDurable == ASSUME ~WriteFails PROVE SavesSpec => Durable
<1>1. SavesInit => FileInv /\ Store!Init
  BY PersistenceAssumption DEF SavesInit, FileInv, Store!Init
<1>2. SavesTypeOK /\ ProcessInv /\ FileInv /\ [SavesNext]_savesVars => FileInv'
  BY FileInductive
<1>3. SavesTypeOK /\ ProcessInv /\ FileInv /\ [SavesNext]_savesVars
        => [Store!Next]_<<mem, file>>
  BY StepRefines
<1> QED
  BY <1>1, <1>2, <1>3, ProcessInvariant, PTL DEF SavesSpec, Durable, Store!Spec

-----------------------------------------------------------------------------
(* When its temporary file opens and gets its name, a save that has come to *)
(* its end has left a file with what is live, or a torn one.                *)
ResultInv == pc \in {"return", "load"} /\ took => file \in {snap, Torn}

LEMMA ResultInductive ==
    ASSUME SavesTypeOK, ProcessInv, ResultInv, [SavesNext]_savesVars PROVE ResultInv'
<1> USE PersistenceAssumption DEF SavesTypeOK, ProcessInv, ResultInv
<1>1. CASE Open
  BY <1>1 DEF Open
<1>2. CASE Rename
  BY <1>2 DEF Rename
<1>3. CASE SaveReturn
  BY <1>3 DEF SaveReturn
<1>4. CASE Boot \/ Change \/ CallSave \/ Pack \/ Write \/ LoadBack \/ Kill
  BY <1>4 DEF Boot, Change, CallSave, Pack, Write, LoadBack, Kill
<1>5. CASE UNCHANGED savesVars
  BY <1>5 DEF savesVars
<1> QED
  BY <1>1, <1>2, <1>3, <1>4, <1>5 DEF SavesNext

(* A reset whose save can open and rename its file ends with the settings   *)
(* it began with, even when the disk is full: lua_reset_rds of lua_api.c.   *)
THEOREM ResetIsHarmless == SavesSpec => ResetKeepsSettings
<1>1. SavesInit => ResultInv
  BY DEF SavesInit, ResultInv
<1>2. SavesTypeOK /\ ProcessInv /\ ResultInv /\ [SavesNext]_savesVars => ResultInv'
  BY ResultInductive
<1>3. SavesTypeOK /\ ProcessInv /\ ResultInv /\ [SavesNext]_savesVars
        => [pc = "load" /\ pc' = "idle" /\ took => mem' = mem]_savesVars
  <2> SUFFICES ASSUME SavesTypeOK, ProcessInv, ResultInv, [SavesNext]_savesVars,
                      pc = "load", pc' = "idle", took
               PROVE  mem' = mem
    OBVIOUS
  <2>1. LoadBack \/ UNCHANGED savesVars
    BY DEF SavesNext, Boot, Change, CallSave, Pack, Open, Write, Rename, SaveReturn, Kill
  <2> QED
    BY <2>1, PersistenceAssumption DEF LoadBack, savesVars, SavesTypeOK, ProcessInv, ResultInv
<1> QED
  BY <1>1, <1>2, <1>3, ProcessInvariant, PTL DEF SavesSpec, ResetKeepsSettings

(* What main saved when it was told to stop is what the next start finds,   *)
(* when it could open and rename its file and writing succeeds: the exit of *)
(* main in src/rds95.c.                                                     *)
THEOREM StopIsKept ==
    ASSUME ~WriteFails PROVE SavesSpec => []StopKeepsSettings
<1> DEFINE LeftInv == left # Nothing => pc = "off" /\ (took => file = left)
<1>1. SavesInit => FileInv /\ ResultInv /\ LeftInv
  BY PersistenceAssumption DEF SavesInit, FileInv, ResultInv
<1>2. SavesTypeOK /\ ProcessInv /\ FileInv /\ [SavesNext]_savesVars => FileInv'
  BY FileInductive
<1>3. SavesTypeOK /\ ProcessInv /\ ResultInv /\ [SavesNext]_savesVars => ResultInv'
  BY ResultInductive
<1>4. SavesTypeOK /\ ProcessInv /\ FileInv /\ ResultInv /\ LeftInv
        /\ [SavesNext]_savesVars => LeftInv'
  <2> SUFFICES ASSUME SavesTypeOK, ProcessInv, FileInv, ResultInv, LeftInv,
                      [SavesNext]_savesVars
               PROVE  LeftInv'
    OBVIOUS
  <2> USE DEF SavesTypeOK, ProcessInv, FileInv, ResultInv
  <2>1. CASE SaveReturn
    BY <2>1 DEF SaveReturn
  <2>2. CASE Boot \/ Kill
    BY <2>2 DEF Boot, Kill
  <2>3. CASE Change \/ CallSave \/ Pack \/ Open \/ Write \/ Rename \/ LoadBack
    BY <2>3 DEF Change, CallSave, Pack, Open, Write, Rename, LoadBack
  <2>4. CASE UNCHANGED savesVars
    BY <2>4 DEF savesVars
  <2> QED
    BY <2>1, <2>2, <2>3, <2>4 DEF SavesNext
<1>5. LeftInv => StopKeepsSettings
  BY DEF StopKeepsSettings
<1> QED
  BY <1>1, <1>2, <1>3, <1>4, <1>5, ProcessInvariant, PTL DEF SavesSpec
=============================================================================

----------------------------- MODULE LuaEngine ------------------------------
(***************************************************************************)
(* The one Lua state and its mutex, shared by the transmitter (the main    *)
(* thread) and the control thread (the UDP worker), from the start of the  *)
(* worker to the exit of main: src/lua_rds.c, src/rds95.c and the commands *)
(* of src/lua_api.c that go back into Lua.  What hooks do to the encoder   *)
(* is left to the other modules; what matters here is who is inside Lua,   *)
(* who waits for the mutex, and which hooks are skipped.                   *)
(***************************************************************************)
EXTENDS Naturals, Sequences

CONSTANTS
    UdpPort,        \* TRUE when udp_port is not 0: main joins the worker at its end
    MaxCalls,       \* bound: calls of the API a Lua function makes, nested or not
    MaxCommands     \* bound: datagrams handled in one behaviour

ASSUME ConstantsAssumption ==
    /\ UdpPort \in BOOLEAN
    /\ MaxCalls \in Nat /\ MaxCommands \in Nat

VARIABLES
    holder,     \* thread that holds lua_mutex, or "none"
    stack,      \* frames of each thread, the innermost last
    calls,      \* API calls each thread made since it last entered Lua
    tx,         \* step of the main thread
    udp,        \* step of the UDP worker
    inDefaults, \* in_set_defaults
    open,       \* globalL is a live state (FALSE once destroy_lua closed it)
    stop,       \* stop_rds
    commands    \* datagrams handled (bounded by MaxCommands)

vars == <<holder, stack, calls, tx, udp, inDefaults, open, stop, commands>>

Threads == {"tx", "udp"}
Alive == tx \notin {"saved", "crashed"}      \* of the process
(* A hook table called under trylock, a group hook called under lock, the   *)
(* data_handle hook called under lock; then what Lua may call: on_init and  *)
(* on_state with no lock, from set_program_defaults or reset_rds; and a     *)
(* group hook that encode_group waits for.                                  *)
Locking == {"hook", "group", "data"}
Frames == Locking \cup {"defaults", "state", "encode"}
Top(t) == stack[t][Len(stack[t])]
InLua(t) == stack[t] # <<>> /\ Top(t) # "encode"
Push(t, f) == stack' = [stack EXCEPT ![t] = Append(@, f)]
(* A thread outside Lua takes the mutex and enters.                         *)
Enter(t, f) == holder' = t /\ Push(t, f) /\ calls' = [calls EXCEPT ![t] = 0]

Init ==
    /\ holder = "none" /\ stack = [t \in Threads |-> <<>>]
    /\ calls = [t \in Threads |-> 0]
    /\ tx = "connect" /\ udp = "poll"
    /\ inDefaults = FALSE /\ open = TRUE /\ stop = FALSE
    /\ commands = 0

-----------------------------------------------------------------------------
(* Inside Lua, either thread.  An encode_group call for a group the core    *)
(* codes changes nothing here: its hooks are skipped, since the trylock     *)
(* fails on the mutex this very thread holds.                               *)

Call(t, f) ==
    /\ Alive /\ InLua(t) /\ calls[t] < MaxCalls
    /\ calls' = [calls EXCEPT ![t] = @ + 1]
    /\ Push(t, f)
    /\ UNCHANGED <<holder, tx, udp, open, stop, commands>>

(* lua_reset_rds runs on_state, as deep as on_state itself asks for it.     *)
CallReset(t) == Call(t, "state") /\ UNCHANGED inDefaults
(* Mutant of CallDefaults: in_set_defaults is not looked at.                *)
CallDefaultsAgain(t) == Call(t, "defaults") /\ inDefaults' = TRUE
(* lua_set_rds_program_defaults runs on_init and on_state, unless it is     *)
(* already running.                                                         *)
CallDefaults(t) == Call(t, "defaults") /\ ~inDefaults /\ inDefaults' = TRUE
(* Of a group the core does not code, lua_encode_group makes lua_group wait *)
(* for the mutex this thread holds.                                         *)
EncodeLua(t) == Call(t, "encode") /\ UNCHANGED inDefaults

(* Mutant of Return: the datagram just handled is handled again.            *)
ReturnAgain(t) ==
    /\ Alive /\ InLua(t)
    /\ stack' = [stack EXCEPT ![t] = SubSeq(@, 1, Len(@) - 1)]
    /\ holder' = IF Top(t) \in Locking THEN "none" ELSE holder
    /\ inDefaults' = (inDefaults /\ Top(t) # "defaults")
    /\ udp' = IF Top(t) = "data" THEN "lock" ELSE udp
    /\ UNCHANGED <<calls, tx, open, stop, commands>>
(* The innermost Lua function returns; a locking call gives the mutex back. *)
Return(t) ==
    /\ Alive /\ InLua(t)
    /\ stack' = [stack EXCEPT ![t] = SubSeq(@, 1, Len(@) - 1)]
    /\ holder' = IF Top(t) \in Locking THEN "none" ELSE holder
    /\ inDefaults' = (inDefaults /\ Top(t) # "defaults")
    /\ udp' = IF Top(t) = "data" THEN "poll" ELSE udp
    /\ UNCHANGED <<calls, tx, open, stop, commands>>

-----------------------------------------------------------------------------
(* The main thread: one group after the other until stop_rds is seen.       *)

TxOnly == stack["tx"] = <<>> /\ UNCHANGED <<udp, inDefaults, open, stop, commands>>
Outside == UNCHANGED <<holder, stack, calls>>
Goto(from, to) == tx = from /\ TxOnly /\ tx' \in to /\ Outside

(* ipc_connect, which may fail: main then goes straight to its exit.        *)
Connect == Goto("connect", {"second", "join"})

(* Mutant of TryHook: the hook is called without the mutex.                 *)
TryHookAnyway(from, to) ==
    tx = from /\ open /\ TxOnly /\ tx' \in to /\ Enter("tx", "hook")
(* lua_call_tfunction: the tick, pre_tx and ps_/rt_transmission hooks are   *)
(* called only if the mutex is free at that moment.                         *)
TryHook(from, to) ==
    /\ tx = from /\ open /\ TxOnly /\ tx' \in to
    /\ IF holder = "none" THEN Enter("tx", "hook") ELSE Outside

Second == Goto("second", {"tick", "pre_tx"})     \* the tick is due when the second changed
Tick == TryHook("tick", {"pre_tx"})
PreTx == TryHook("pre_tx", {"core", "lua"})
CoreGroup == TryHook("core", {"sent"}) \/ Goto("core", {"sent"})  \* hook at the end of PS or RT
LuaGroupAgain ==     \* Mutant of LuaGroup: asks again until it has a group
    /\ tx = "lua" /\ open /\ TxOnly /\ tx' = tx
    /\ holder = "none" /\ Enter("tx", "group")
LuaGroup == \* lua_group and lua_rds2_group wait for the mutex
    /\ tx = "lua" /\ open /\ TxOnly /\ tx' = "sent"
    /\ holder = "none" /\ Enter("tx", "group")
SentDeaf == Goto("sent", {"second"})     \* Mutant of Sent: stop_rds is not read
Sent ==     \* the next stream, or the end of the round where stop_rds is read
    Goto("sent", IF stop THEN {"second", "join"} ELSE {"second"})
JoinNot == Goto("join", {"saved"})       \* Mutant of Join: the worker is left running
Join ==     \* wait for the worker if there is one to wait for, save, return
    (UdpPort => udp = "gone") /\ Goto("join", {"saved"})

(* destroy_lua destroys the mutex and closes the Lua state under the main   *)
(* thread.  A lock of the destroyed mutex fails at once: a trylock makes    *)
(* the hook skipped, a lock goes on into the null state.                    *)
SkipClosed == ~open /\ (\/ Goto("tick", {"pre_tx"}) \/ Goto("pre_tx", {"core", "lua"})
                        \/ Goto("core", {"sent"}))
Crash ==
    /\ Alive /\ ~open /\ (InLua("tx") \/ tx \in {"tick", "pre_tx", "core", "lua"})
    /\ tx' = "crashed"
    /\ UNCHANGED <<holder, stack, calls, udp, inDefaults, open, stop, commands>>

-----------------------------------------------------------------------------
(* The UDP worker *)

UdpOnly == Alive /\ stack["udp"] = <<>> /\ UNCHANGED <<tx, inDefaults, stop>>
Poll ==     \* a datagram came in before the timeout
    /\ udp = "poll" /\ commands < MaxCommands /\ UdpOnly
    /\ commands' = commands + 1 /\ udp' = "lock"
    /\ UNCHANGED open /\ Outside
RunLua ==   \* run_lua waits for the mutex and calls data_handle
    /\ udp = "lock" /\ holder = "none" /\ UdpOnly
    /\ Enter("udp", "data") /\ udp' = "run"
    /\ UNCHANGED <<open, commands>>
Close ==    \* stop_rds seen between two polls: close_udp_server, destroy_lua
    /\ udp = "poll" /\ stop /\ UdpOnly
    /\ open' = FALSE /\ udp' = "gone"
    /\ UNCHANGED commands /\ Outside

Signal ==   \* SIGINT or SIGTERM
    /\ Alive /\ ~stop /\ stop' = TRUE
    /\ UNCHANGED <<holder, stack, calls, tx, udp, inDefaults, open, commands>>

Exited ==   \* nothing runs after main has returned or the process has died
    /\ ~Alive
    /\ UNCHANGED vars

Main ==
    \/ Connect \/ Second \/ Tick \/ PreTx \/ CoreGroup \/ LuaGroup \/ Sent
    \/ Join \/ SkipClosed \/ Crash
Worker == RunLua \/ Close
Api(t) == CallReset(t) \/ CallDefaults(t) \/ EncodeLua(t)
Next == Main \/ Worker \/ Poll \/ Signal \/ Exited
        \/ \E t \in Threads : Api(t) \/ Return(t)

(* Lua functions return; each thread goes on when it can.  The mutex is     *)
(* free while the other thread sleeps, in main between two rounds and in    *)
(* the worker between two polls, so a thread that waits for it gets it      *)
(* (strong fairness); a round ends, and so does a run of polls that find    *)
(* something.                                                               *)
Fairness ==
    /\ WF_vars(Main)
    /\ SF_vars(LuaGroup) /\ SF_vars(Sent /\ tx' = "join")
    /\ SF_vars(RunLua) /\ WF_vars(Close)
    /\ \A t \in Threads : WF_vars(Return(t))
Spec == Init /\ [][Next]_vars /\ Fairness

-----------------------------------------------------------------------------
(* Properties *)

TypeOK ==
    /\ holder \in Threads \cup {"none"}
    /\ stack \in [Threads -> Seq(Frames)]
    /\ calls \in [Threads -> 0 .. MaxCalls]
    /\ tx \in {"connect", "second", "tick", "pre_tx", "core", "lua", "sent", "join",
               "saved", "crashed"}
    /\ udp \in {"poll", "lock", "run", "gone"}
    /\ inDefaults \in BOOLEAN /\ open \in BOOLEAN /\ stop \in BOOLEAN
    /\ commands \in 0 .. MaxCommands

(* The Lua state is used by one thread at a time, and by a thread only while*)
(* it holds the mutex, whatever calls go from Lua to C and back.            *)
OneThreadInLua == \A t \in Threads : stack[t] # <<>> => holder = t

(* set_program_defaults never runs inside itself, in either thread, however *)
(* on_init and on_state call back, and its flag is down once it has ended.  *)
DefaultsNotNested ==
    LET running == {x \in Threads \X (1 .. MaxCalls + 1) :
                        x[2] <= Len(stack[x[1]]) /\ stack[x[1]][x[2]] = "defaults"}
    IN /\ \A x, y \in running : x = y
       /\ inDefaults <=> running # {}

(* When main saves and returns after it has joined the worker, no command   *)
(* is half done and nobody is inside Lua: what is saved is what every       *)
(* command that began has left.                                             *)
SavedAlone == tx = "saved" /\ UdpPort => stack["udp"] = <<>> /\ holder = "none" /\ ~open

(* context.lua on RDS.encode_group: "groups that could not be encoded decay *)
(* to PS"; so no thread waits there for the mutex it holds itself.          *)
SelfLocked == \E t \in Threads : stack[t] # <<>> /\ Top(t) = "encode"
NoSelfLock == ~SelfLocked

(* A datagram that was received is handled, unless the process ends or a    *)
(* hook has locked its own thread out in encode_group.                      *)
CommandHandled == udp = "lock" ~> (udp = "poll" \/ ~Alive \/ SelfLocked)

(* The transmitter is never stuck in a group: it ends it, the group hooks   *)
(* and the worker's commands notwithstanding, with the same exception.      *)
GroupsGoOn == tx \in {"second", "tick", "pre_tx", "core", "lua"}
                ~> (tx = "sent" \/ ~Alive \/ SelfLocked)

(* After a signal the process ends, the connection to fm95 having failed or *)
(* not, with commands in progress or not, with the same exception.          *)
StopEnds == stop ~> (~Alive \/ SelfLocked)
=============================================================================

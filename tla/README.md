# rds95 in TLA+

A verification project for rds95, an RDS encoder: a C core that chooses and
codes one RDS group after the other for the FM modulator (fm95), with a Lua
layer that receives commands by UDP and codes the groups the core does not
know. This file is the inventory of the system, the account of what each module
models, what TLC checks and what TLAPS proves, and the plan of what is left.
Paths are those of the repository; `rds.c:87` stands for `src/rds.c`, line 87.

## 1. Inventory

The process has two threads. The **transmitter** (`main`, `rds95.c:192`)
codes one group per stream about 11.4 times a second, sends them to fm95 or, in
ASCII G mode, to stderr and TCP clients. The **control thread**
(`udp_server_worker`, `rds95.c:45`) takes datagrams and runs each in Lua, where
it calls the API of `lua_api.c`. Both work on one `RDSEncoder`, which has no
lock. The Lua mutex of `lua_rds.c` protects the one Lua state only: a command
holds it from start to end, the transmitter takes it around its hooks.

| part | state | operations | what makes it correct |
|---|---|---|---|
| group scheduler (`rds.c`, parts of `rds_groups.c`, `lua_api.c`) | sequence and index, custom group buffers, last minute, last stream 0 group, program on air, writing program, streams | `get_rds_group`; set_grpseq, put_custom_group, set_output_program, set_streams, reset_rds ... | each slot and each custom group has its turn, CT once a minute, a change of program spoils one group at most, tunnels repeat the last group |
| radiotext | text, latched copy, `rt_update`, `rt_state`, `rt_ab`, `rt_segments` | set_rt, toggle_rt_ab, the RT group, the rt_transmission hook, reset | receivers show whole texts and end with the last one |
| service names (PS, TPS, LPS, PTYN) | text, latched copy and position of each | setters, their groups, TA | a pass is of one name; the last name set is sent |
| AF and EON rotations | lists, positions, network and variant | set_af, set_eon, the PS and EON groups | everything listed is sent again and again |
| Lua engine (`lua_rds.c`, `rds95.c`) | the Lua state, its mutex, `in_set_defaults`, `stop_rds` | hooks, group hooks, commands, calls back, start and end | one thread inside Lua, no deadlock, an orderly end |
| ODA registry (`modules/oda.lua`) and clients eRT, RT+, eRT+, AF | registry, pointer, handles, userdata | register, unregister, the AID and data slots, on_state | handles and slots agree; nobody is starved |
| settings file (`fs.c`) | `~/.rdsEncoder` and its temporary file | save, load, reset_rds, start, exit | settings survive the process, whenever it dies |
| RDS2 ODA registry and file transfer (`rds2_oda.lua`, `rft.lua`) | registry, pointer, announcement counter, file position | register, unregister, the rds2_group hook, sendFile, stop, pause | each application is announced and has its turn; a file sent once is sent whole |
| UECP (`uecp.lua`) | writing program, text buffer, free-format buffer | frames of message elements, hooks | elements change the data set they name and no other; the buffers rotate |
| IPC client (`ipc_client.c`) | connection, last bit per stream, the count announced, replies not read | connect, announce, send, receive | fm95 learns the last number of streams; a group follows on the last bit fm95 has |
| TCP server (`tcp_server.c`) | client slots | accept, send, drop, close | a connection has one slot for as long as it lasts, no slot is lost |
| clock time, checkwords, character set, ini, command line | none | pure functions | - |

What is hard here: every field of `RDSEncoder` is written by one thread while
the other reads it, bit-fields that share a byte among them; hooks are
skipped, not delayed, when the mutex is taken; a reset rebuilds the state under a
transmitter in the middle of a group; the program on air changes between two
steps of a group; saves may fail or be cut short. `PROJECT.json` lists these
hazards line by line, with the properties aimed at each.

## 2. Modules

### GroupScheduler (`rds.c`, `lua_api.c`)

State: `data` and `state` are the parts of `RDSData` and `RDSState` of each
program the choice of a group depends on; `program`, `writing`, `streams` are
the globals of those names; `minute` the wall clock. A group is a record of the
program in block A and a payload: what kind of group, taken from which
program's data, which custom group, which PTY bits. A PTY is the set of its
bits because the code ORs it into block B.

`get_rds_group` is cut where another thread's step makes a difference:
`TxBegin` (block A, then the time), `TxMinute` (the minute compared and
remembered, the minute_tick hook), `TxCt`, `TxPreTx`, `TxSelect` (the mark of a
custom group is cleared, or a slot is served; stream 0) or `TxRds2` (the other streams),
`TxCopy` (the blocks of the custom group), `TxLua` (waits for the mutex),
`TxCoded` (TP, PTY, the copy for tunnels), and `TxRound` for the end of main's
loop over the streams. `enc->program` is read anew in each. `tm` is the one `struct
tm` that every gmtime returns, so that a reset writes over the time the
transmitter has read. Commands of the control thread are one action each; the
three that leave the encoder in an intermediate state a reader can see
(`set_grpseq`, `put_custom_group`, `reset_rds`/`set_program_defaults`) are
followed by `FillGrpSeq`, `FillCustom` or `FillCustomFails`, `ResetRead` and `ResetCopy`, between
which the transmitter runs. `TxPreTx` may put a custom group each time it is
called, without a bound. `hist` is what properties remember; no guard reads it.

Within one of these steps the C code is taken as atomic: a change of program
between two reads of `enc->program` inside one step, and a put between two of the
three or four blocks that are copied, are not modelled. A change of program between the
steps is: `SwitchSpoilsOne` says that it spoils the group being coded and no other.
The other properties name the interleavings under which they would be false of the
code (the comments in the module say which); what goes wrong in them is in the
list at the end of section 3.

### RadioText, refining TextBroadcast

Finer than the scheduler: `rt_state`, `rt_update` and `rt_ab` share a byte, so a
write of one is a read (`old`) and a write back of all three, and the text is
written in two halves. The command is RT1 of `scripts/main.lua` (set_rt, then
toggle_rt_ab) or the RT element of `uecp.lua`, which may leave the A/B flag as it
is (`KeepFlag`). `Hook`/`HookSetRt` are the rt_transmission hook, the latter the
text buffer of `uecp.lua`, whose entries toggle the flag or do not. The receiver (not
in the repository) clears its buffer when the A/B flag changes and shows a text once all
its segments are in. Handlers of the two threads overlap freely, a command comes
at any time, and two histories remember what that may cost: `raced`, a handler overlapped one
of the other thread since the last text was set, and `joined`, the texts that no
effective change of the flag parts from the text before: set without a toggle,
overlapped, or set before the text before them was on air for certain (`Hasty`).
`TextBroadcast` is the promise to listeners: texts are shown whole, never an
older one, at the end the last.

### LuaEngine (`lua_rds.c`, `rds95.c`)

`stack[t]` holds the Lua functions thread `t` is inside of, from the hook or
group handler that took the mutex to calls back from Lua into C and from there
into Lua (`set_program_defaults` and `reset_rds` run hooks without the lock,
`encode_group` with it). `tx` walks through the points of a group where hooks
are called, and through connect, join and save; `udp` is the worker. `Close` is
the end of the worker, which destroys the Lua state that main may still use
(`SkipClosed`, `Crash`). `EncodeLua` is encode_group asked for a group only Lua
codes: its thread waits for the mutex it holds, for ever (`SelfLocked`).

### Oda (`modules/oda.lua`, `ert.lua`, `rtp.lua`, `af.lua`)

`reg` is the registry with `Free` for a slot that is `false`, `ptr` its pointer,
`id` the handle each client keeps, `user` the userdata of each program: which
clients have data to send, and the eRT text that waits to be taken over. Lua sees that
of the program being written (`writing`), which commands move. One action per client
operation, `Aid` and `Data` for the two kinds of slot, and `OnState` for the on_state
hooks in the order the modules are required. Everything runs under the Lua mutex, so
actions are whole operations. A start finds userdata of an earlier run (`Saved`).

### Persistence, refining DurableStore (`fs.c`)

A save is cut at its calls of the file system: `Pack`, `Open`, `Write`,
`Rename`, `Return`; `LoadBack` is the load of `reset_rds`; `Kill` may come at
any step. `OpenFails`, `WriteFails` and `RenameFails` turn failures on; `took` says that
neither fopen nor rename failed in the last save. A file is one of the
settings, nothing, or torn (empty or cut short), which the CRC rejects; a torn
file may leave an older file's bytes in the buffer (`encoder_loadFromFile` does not look at
what `fread` returns). `DurableStore` is the promise: what is found at a start
is what the last completed save had.

### Eon (`rds_groups.c`, `set_eon`, `set_af`)

The AF rotation of the PS group, the EON variants and the search for the next
network, with lists and switches changing under them. `ghosts` is the set of
indices past the array whose "enabled" bit, a bit of userdata, happens to be
set: the search looks at one of them before it wraps. `Candidate(k)` is the index
looked at after k further steps, `Steps` how many of them the loop takes.

### ServiceNames (`rds_groups.c`, `rds_setters.c`)

As fine as RadioText: `byte[g]` is the byte in which the marks of a kind of
group (ps_update and tps_update, lps_update, ptyn_update) lie with fields of the
other thread (LPS and PTYN position, the PTYN flag); `ps_csegment` has a byte
of its own, `cseg`. `SetName`, `Mark`, `WriteBlank`, `WriteName`, `CountLps` are a
setter in the order of its stores; `Begin`, `CopyName`, `ClearMark`, `Emit`,
`Advance` a group. `EncodeGroup` is encode_group, which takes names over and
moves positions for a group that is not sent. The receiver collects a PS or LPS
from its first segment and a PTYN from a change of the flag. `broken`, `torn`
and `raced` remember the disturbances the properties exclude by name. The group
sequence names one kind of group at a time (`MCMixes`): kinds share no state.

### Uecp (`uecp.lua`, and the parts of `lua_api.c` and `main.lua` it works with)

One action per kind of element, by what it writes: `Set` stands for all that
write settings through `dsn_helper`, `SetFails` for one that raises an error in
the middle. `val` and `rt` are what last wrote each program's settings and text,
by the command's number, `rtOn` is rt_enabled. ASCII commands (`AsciiSet`, `AsciiText`,
`EnableText`, `AsciiGroup`, `SetProgram`, `SetWriting`) come between frames or inside one, in
element 0x2D (`Ascii`). A frame holds the Lua mutex (`frame`), so that hooks
are skipped, the C part of the transmitter is not. `PreTx` is the pre_tx hook,
on every stream; `TextEnds` the end of a radiotext with its rt_transmission hook,
which comes only where RT is enabled. How long an element is, is framing and left
out: element 0x16 says 4 + mel (`uecp.lua:294`), whatever its layout.

### Rds2 (`rds2_oda.lua`, `rft.lua`)

`odas` is the list with `Nobody` for a slot that is `false`; a file keeps the
number of its slot. `Hook` is one call of the rds2_group hook: `Aid` when the
counter is 0 on stream 1, else `Data`, which asks one handler after the other
(`Visit`, `Asked`) until one has a group; `CrcGroup` and `Segment` are the
handler of a file. The registry is empty at the start or has what a start-up script
sent. CRC modes differ in how many segments share a sum (`Chunk`). The code's errors (a freed slot that is looked into, a slot
that is gone) are the alternatives that answer nothing, with what they changed before.

### Outputs (`ipc_client.c`, `tcp_server.c`, the loops of `main`)

`main` walks through its loop, reading `streams` anew each time as the code
does (`Top`, `SendBits`, `RoundEnds`, `Check`, `Assign`, `Announce`). A message
is its operation, stream, the bit it was coded after and its last bit. A send to fm95
may fail (`AnnounceFails`, `SendBitsFails`: a signal while it blocks, no memory), after
which `prev_output` has moved on all the same; the local socket takes a message whole or
not at all, so there are no short sends. fm95 and
the TCP clients are external: fm95 answers each message, may drop a group when
its ring is full (`FmOverruns`), may go at any time (`FmCloses`); a client may
leave, after which sends to it fail sooner or later (`Leave`, `Reset`).

### MC modules

`MCGroupScheduler`, `MCRadioText`, `MCOda`, `MCServiceNames` and `MCRds2` only
define values a cfg cannot write (sequences, functions, records);
`MCGroupScheduler` has two instances, one for safety and a smaller one for liveness.

## 3. Runs

Passing runs; the bounds are those of the cfg files.

| run | question | bounds, and why they are enough |
|---|---|---|
| scheduler | one CT a minute; what a change of program spoils; what a tunnel repeats; each custom group once; the minute hook | 2 programs, 2 commands (one of which may be a reset with its steps), hooks that put a custom group whenever they are called, 2 minutes and one change of them; array of 2 and index modulo 4, so that a sequence of 3 is longer than the array and one slot short of the index type; 1 stream at the start, or 2 (10 cut to three bits) |
| scheduler_liveness | custom groups drain; slots recur while the sequence is served | the same commands and hooks; array of 1 and index modulo 3, so that a sequence of 2 has both properties of the 3 above; 1 stream, or none (8 cut to three bits) |
| radiotext | what a receiver shows: no two texts mixed, the last one in the end, never an older one (refinement); addresses in the text | 3 segments; texts of 3, 1 and 2 segments after one of 2, so longer and shorter ones follow each other; a reset; commands and hooks at every step of the other thread, with a toggle of the A/B flag and without |
| lua_engine | exclusion, no nesting, liveness of both threads | 3 datagrams, 3 nested calls: a call back, one inside it, one after; deadlock is not checked, since `encode_group` may stop both threads |
| oda | who leaves the registry and how; nobody is starved; one-time registrations are announced | 4 clients on 2 programs, 4 commands, a reset, 2 one-time registrations, so that one takes the slot the other left; sequences of one kind of ODA slot, and of both with 2 and 3 slots, which have and have not a common divisor with the applications; userdata empty or of an earlier run |
| settings | what stops, resets, failing opens and renames, and kills leave; refinement of DurableStore | 3 settings, any number of saves and kills; writes succeed |
| service_names | what a receiver collects is of one name; the last name set is on air | 2 names set and one TA change, reset or encode_group; PS and LPS of 3 segments, so that there is a first, a middle and a last; PTYN of its 2 |
| uecp | elements write where they mean to; both buffers rotate | 3 elements or commands: two entries in a buffer and something that disturbs them; 2 programs, data set numbers of each kind, 1 to 3 streams |
| rds2 | a file sent once is whole; everything has its turn | 4 files, all under way at the start or none, so that every number of slots up to 5 comes with idle and busy ones; orders of 2 segments with CRC for ever and of 3 in the automatic mode once; an application without handler; 2 calls of the API; an announcement every 5 calls, a CRC group at every segment and 2 segments to a chunk, 1 or 2 streams |
| outputs | bits decodable; fm95 knows the last number of streams; slots and sockets agree; nobody waits for ever | 3 clients for 2 slots, 2 entries for up to 3 streams, 2 changes between no streams and 3, one send that fails; deadlock is not checked, since main ends |
| eon | the search finds the next network, networks recur and leave, AFs recur | 3 networks (4 in the code) with the code's index of 3 bits, the first index past the array enabled or not, lists of up to 3 entries: the head and a pair; 3 commands |

The run in which TLC finds the code to disagree with a comment of its own
(details in `PROJECT.json`, "findings"): `encode_self_lock`, in which
encode_group of a group only Lua codes stops its thread, for ever.

Other places where the model, which follows the code, differs from what a doc
line or a check of the code says, or may surprise. No run states these; a property above is
conditional where it would otherwise fail on one of them.

- A tunnel repeats the last stream 0 group of the program *now on air*, with TP
  and PTY ORed over those it had (`rds.c:127`); `context.lua:120` says it is the
  last group. `TunnelFresh` is about a program and PTY that have not changed.
- The minute hook and the tick are dropped while the mutex is held
  (`lua_rds.c:361`), and `last_minute` is per program (`rds.c:104`);
  `context.lua:66` and `:72` say "every second" and "if the minute has changed".
- `set_output_program` moves the writing program too (`lua_api.c:159`);
  `context.lua:29` says it does not.
- `set_streams` checks the count it replaces, not its argument
  (`lua_api.c:128`), so five to seven streams are accepted, then nothing is.
- `gmtime` has one `struct tm` for the process (`rds.c:97`, `:228`): a reset's call
  writes over the time the transmitter has read. `CtOncePerMinute` names it.
- A custom group's full mark is set before its blocks are even checked
  (`lua_api.c:184`), so the transmitter can send what the buffer had before, while
  the put runs or after it failed. The transmitter clears the mark before it
  copies the blocks (`rds_groups.c:238`, `:251`): a group put in between goes
  out at once, and again later. A change of program or a reset in between
  makes it copy another buffer, or an empty one. `CustomOnce` names each.
- The free-format hook of `uecp.lua` puts a custom group before every stream 0 group as long
  as its buffer is not empty (`uecp.lua:229`), so that the group sequence is not served at
  all. `SlotsRecur` is about a sequence that is served.
- The A/B flag changes with the command, the text with a later RT group
  (`lua_api.c:221`): two texts between two RT groups leave the flag unchanged. An
  RT element of UECP need not toggle at all (`uecp.lua:25`), and a receiver joins such a
  text to the one before. `NoMixedText` is about texts that an effective change of the
  flag parts, however many without one come before or after.
- After reset_rds the ODA clients keep handles of a registry that was emptied,
  and do not register again (`ert.lua:12`); `context.lua:60` tells scripts to
  register in on_state. They are off air until a restart. Who unregisters with such
  a handle frees the slot of whoever has it now. And unregistering eRT+ when it has no
  handle unregisters RT+ (`rtp.lua:90`). `TakenOut` names both.
- The userdata that says which applications have data is that of the program being
  written, the registry is one for all: a change of the writing program changes
  what the same registrations send. The frequencies of the AF application are kept as
  32-bit floats (`af.lua:104`): 87.6 comes back a little larger or smaller, and at the
  edge of a band a frequency may lose its code (`af.lua:17`). Frequencies are not modelled.
- When the save of reset_rds could not open its file (`fs.c:26`), or not rename it
  (`fs.c:32`, whose result is ignored), the load that follows brings back older
  settings; `context.lua:21` says that nothing is lost. `ResetKeepsSettings` is
  about saves that did both.
- Variant 15 of EON falls through to the next network's variant 0
  (`rds_groups.c:209`), so that the data of set_eon is never sent.
- AIDs and data of ODAs share one pointer (`oda.lua:82` and `:104`): with two applications
  and a sequence that alternates the two slots, one is announced for ever and only
  the other's data is sent. `TurnComes` holds of every sequence, `EveryKind` of those
  whose ODA slots have no common divisor with the applications; a one-time
  registration may be passed over by data slots for ever (`TempAnnounced`).
- The results of fwrite and fclose are ignored (`fs.c:30`): a save on a full disk
  renames a broken file over the good one. The proof of `Durable` assumes that
  writes succeed.
- The EON search reads index 4 of an array of four (`rds_groups.c:218`) and may
  send it as a network.
- The AF position of another network stays at a pair that has both entries
  (`rds_groups.c:34`), so the rest of a longer list is never sent. `AfsRecur` is
  about the program's own list.
- `set_eon` sets its fields and then raises an error when `afs` is missing
  (`lua_api.c:275`); `context.lua:247` marks `afs` as optional.
- Service names: the texts are written in place, so a name taken over meanwhile
  is half a name, and may stay one (`rds_setters.c:27`); TA in the middle of a pass
  joins halves of PS and TPS (`rds_groups.c:69`); encode_group skips a segment on
  air (`lua_api.c:358`). `ShownWhole` and `LastNameOnAir` name these cases.
- UECP: DS select takes the data set number itself (`uecp.lua:325`), all else
  the number less one (`uecp.lua:47`); a number past the last program is the
  last program; a text added to the buffer ignores its data set; the hooks write
  to the writing program; an error leaves that diverted (`uecp.lua:37`). An empty
  RT element switches RT off (`uecp.lua:141`), and entries added after it do not switch it
  on (`:177`): they wait until something else does. Entries of the free-format buffer
  that have a common divisor with the number of streams never go out.
- RDS2: announcements come every nine calls and share the pointer with data
  (`rds2_oda.lua:91`). When all slots send, they fall on one in g of the slots, g
  being the greatest common divisor of the slots and of the calls between two of them: with 3 or 9
  slots some applications are never announced, with 9 one is never sent. They come on
  stream 1 only, and with 3 RDS2 streams may cease altogether. A handler that has nothing to
  send makes the search pass over the slot after it (`rds2_oda.lua:86`, `:121`), so that with
  one paused transfer the next may never be sent. `AllRecur` names both.
  The channel of a group is that of the first application asked, whoever
  answers; channel numbers are never used again (`rds2_oda.lua:102`). A file that
  replaces one of the same application goes on from its position
  (`rft.lua:122`), so that of a file sent once only the tail goes out; an
  empty file sent once never ends.
- Outputs: a send to an fm95 that has closed raises SIGPIPE, which ends the
  process without the save at its exit (`ipc_client.c:47`). A number of streams that
  could not be sent is not sent again (`rds95.c:198`). A group that could not be
  sent leaves `prev_output` at a bit fm95 never had (`ipc_client.c:78`). A reply that was
  not read is taken for that of the next message; nothing looks at replies.
  Groups of a new stream go out one round before fm95 hears of it
  (`rds95.c:197`). A send of part of a line counts as sent (`tcp_server.c:130`): the
  client sees a torn line. With no streams, clients that left are never noticed.
- `prev_output` has 4 entries for up to 7 streams (`ipc_client.c:72`), and `starts` (the
  prefixes of TCP lines) as many (`rds95.c:206`). A write past the end of `prev_output`
  (`ipc_client.c:78`) is undefined; in a build with gcc 12 at -O2 it lands in
  memory that only the other mode of output uses, another build may differ. The model has no
  such write: a stream past the entries has bits of its own that nothing follows.

Every property of a passing run has a mutant: an operator beside the definition
it replaces (`TxMinuteForgetful`, `PackOnce`, ...) with a plausible bug, under
which TLC finds the property violated.

## 4. Fairness

- GroupScheduler, RadioText: weak fairness of the transmitter (main loops, and
  sleeps a bounded time) and of the remaining steps of a command that has begun
  (straight-line C). No command and no clock tick has to happen. That the sequence is
  served is a condition of `SlotsRecur`; RadioText assumes that its RT slots come.
- LuaEngine: weak fairness of both threads and of the return of Lua functions
  (the shipped scripts have no endless loops); strong fairness where a thread
  waits for the mutex, since the other one lets go of it and then sleeps, again
  and again, in main between rounds and in the worker between polls; and strong
  fairness of leaving main's loop, as a round has finitely many streams.
- Oda, Eon: weak fairness of serving the slots of the sequence, which the
  property `SlotsRecur` of the scheduler justifies as long as no hook keeps the
  sequence back.
- ServiceNames: weak fairness of the steps of a command and of a group that have
  begun; strong fairness of beginning each kind of group in the sequence, which
  is `SlotsRecur` again (strong, since the slot's turn comes and goes).
- Uecp: weak fairness of the transmitter and of the end of a frame; strong
  fairness of a text's end, since custom groups may delay it, while RT is enabled
  and the group sequence is served.
- Rds2: weak fairness of the hook. No call of the API has to happen.
- Outputs: weak fairness of main, of fm95 for as long as it is there, and of the
  network telling of a connection that its client closed. No client has to
  leave, fm95 need not close, no signal has to come.
- Persistence has safety properties only.

## 5. Proofs

`tlapm` checks every step; the theorems hold for all values of the constants
that satisfy the assumptions named in the modules (`SizesAssumption`,
`CodesAssumption`, `ClientsAssumption`, `ConstantsAssumption`, ...), which say
no more than that sizes are positive, sequences are of known codes, orders have
the fields they need, special values (`Nobody`, a torn file) are none of the
ordinary ones, and `eon_index` has room for one index past the last network
(3 bits for 4 of them). Ten modules have proofs in eight: those of Persistence
are in LuaEngine_proofs, those of Eon in ServiceNames_proofs, which extend both
modules (hence the names `SavesSpec`, `RotaSpec` and the like). Type correctness is
proved of all ten.

**GroupScheduler_proofs.** `TypeOK` alone is not inductive: a group being coded carries a
stream number below 8 only because it was begun with `tx.s < streams` and
`streams` fits three bits; `StreamInv` adds that, and `TypeInv` is the
conjunction. `CtInv` says that a program whose CT told the time last read has that
minute as its `last_minute`, as long as that time can still be compared, so
that the comparison finds no change; a second CT needs `last_minute` to be set back,
which only a reset that read an older minute does (`OneCt`). `SwitchInv` counts: the mixed
groups that went out, and the one being coded if it is mixed, are no more than the
changes of the program on air. A step of the transmitter makes no group mixed, since it
adds what is of the program then on air (`NoNewMix`), and a change of program makes
one so, the one being coded (`SwitchSpoilsOneGroup`). `TunnelInv`: as long as no
command ran since it was begun, the last stream 0 group is the one kept
by the program on air, and PTY bits ORed into it are in it already (`TunnelRepeats`).

`CustomSentOnce` needs to know where the identity of every custom group is.
`TokenInv` says that the identity in a buffer whose blocks are those of the put that
marked it is in no other buffer, on no group the transmitter carries, and was never
aired (`FilledInv`); that the same goes for the identity of a put that has not yet
written its blocks (`PutInv`); that a buffer whose mark the transmitter has cleared and whose
blocks it has yet to copy is still the one it will copy, and has no new mark
(`HandInv`); and that identities are given out in order (`OldInv`).
The property alone is far from inductive: puts, resets, the switch of programs
and the transmitter meet over two buffers per program, one step at a time.
`MinuteInv` ties `last_minute` of the program on air to the minute of the last stream
0 group for as long as no command ran since (`MinuteHookOnChange`).

**LuaEngine_proofs.** `StackInv` says what a stack looks like: empty, or one
locking call at the bottom and calls back above it, and that a thread with a
stack holds the mutex; `ExitInv` ties the worker's step to its stack, so that when main
has joined it, it is out of Lua, and the state is closed. `MutexHeld` and
`SavesAlone` follow. `DefaultsInv` is what `DefaultsOnce` needs: over both stacks
there is at most one place that runs set_rds_defaults, and the one static flag
is up exactly as long as there is one, which holds although the flag is read
without a lock, because whoever reads it is inside Lua.

*Persistence, in the same module.* Its one save at a time is what the first part
proves of the callers: lua_force_save and lua_reset_rds run under the mutex, and main
saves alone. `StoreIsDurable` maps every step to a step of
`DurableStore` or a stutter; the invariant it needs is that from `Pack` on what
is packed, and from `Write` on the temporary file, is what is in memory, so that
the rename is the abstract `Save`. `ResetIsHarmless` and `StopIsKept` follow from the
same invariant. Both speak of a save that could open and rename its file; what happens
otherwise is in the list of section 3. `StoreIsDurable` and `StopIsKept`
assume that writes succeed, `ResetIsHarmless` does not.

**Oda_proofs.** The two properties and the types are inductive together: an
operation writes the registry at a handle only if the handle is nil or the
client's own, and what the pointer comes to is found by an argument about least
numbers round a ring (`FirstTurnIn`). `OnState` is proved hook by hook.
`LeavesNamed` then goes through the operations: only those that free a slot, and the
announcement of a one-time registration, take anybody out.

**RadioText_proofs.** `QuietInv` says what is true of the shared byte while no
two handlers have overlapped (what a step has read is still what is there, and
the position is within the text unless a new text is marked); `AddressesInText`
follows. Two texts are `Together` when no effective change of the flag parts them.
`PartInv` says that all a receiver has collected is together with the last text, or
with the one before while the change that parts them is on its way to it, and
the same of the copy on air and of the text in memory. `NeverMixed`
follows. It says nothing of texts that handlers of two threads overlapped, for
these are joined to the one before (`RaceInv`). `BroadcastSteps` maps every step to
a step of `TextBroadcast` or a stutter: the safety part of the refinement that the
run `radiotext` checks whole. Texts may get mixed there, but never go back: the first half
of a text is written before the second (`OrderInv`), so whatever on the display is newer than the second
half of what is on air is held by the first half of the buffer too (`DisplayInv`).

**Uecp_proofs.** `WritingOnAir`, that the writing program is the one on air unless
an error or a command moved it, is what makes "the current data set" of an
element the right one (`WritesNamed`).

**Outputs_proofs.** `PlacesInv`: a connection that is open waits once or has one
slot, and nobody else does (`SlotsAreOwn`). `ChainInv` links, for each
stream, the bit fm95 had last, the groups on the wire one after the other, and
`prev_output`, but for streams fm95 dropped a group of (`lost`) or whose send
failed (`unsent`); a property of the first group alone is not inductive (`BitsFollow`).

**ServiceNames_proofs.** `TypeInv` is more than types: the byte a step has read
and will write back is one of its own group's (`BytesOf`), so that a stale write never
leaves a foreign mark or a position past the text. `Shows` is what
`NamesShownWhole` needs: a copy on air that is not torn holds one name on every segment
(`CopyInv`), as does a name that was set, unless a command is in the middle of it;
what was collected since the first segment is what is on air (`SegmentInv`); and for
PTYN, whose copies are told apart by the A/B flag alone, what was collected since the
flag last changed is, as long as nobody wrote the byte back (`FlagInv`).

*Eon, in the same module.* `RotaTypeCorrect` needs that a search ends
(`StepsIs`, by least numbers). `TurnsInOrder` says that it ends at an enabled network,
the next one in the order of the array: the first index looked at may lie past the
array, from then on it goes round, and `LooksEverywhere` is why as many looks as there
are networks are enough, whatever the index was.

**Rds2_proofs.** `ProgressInv`: a file that did not replace one under way has sent
the segments before its position since it was loaded, and no others past its
end. Only the last segment of a file sent once brings its count to 0 in the
hook, and then its position is its last (`WholeOnce`). `TypeCorrect` needs that
each search round the ring ends at a slot (`CurrentInRange`, `AskedInRange`).

Only model-checked: everything with liveness (TLAPS has no rule for fairness
here), hence the liveness half of the refinement of TextBroadcast. Every safety
property of a passing run is the statement of a theorem. The type invariants of
LuaEngine, RadioText, Oda, Uecp, Rds2, Outputs, Persistence and Eon are proved and in
no run.

## 6. What is not modelled, and the plan

Not modelled at all: pure functions of one value (clock time, checkwords,
character set), the ini file and the command line, strings of the ASCII
commands. The clock time and checkwords (point 11) were left out on purpose:
a model of them would be the same arithmetic twice. Data that no property apart (block contents, frequencies, text characters, the bytes of a file, the bits
the EON search finds past its array) is abstracted in every module. What happens
within one step of the scheduler is named in section 2.

The work so far, in its order: GroupScheduler; LuaEngine; RadioText and
TextBroadcast; Persistence and DurableStore; Oda; Eon; ServiceNames; Outputs (IPC
client and TCP server); Uecp; Rds2. What is left:

1. A composition of LuaEngine and GroupScheduler, in which the places where
   the scheduler assumes the mutex are those of the engine. Today the scheduler
   takes it to be held exactly while a command is under way (`udp.pc`).
2. The radiotext, AF and EON switches that LF/MF frequencies, linkage and a
   second program would add; the tick hook and TA in the scheduler.
3. Channels of RDS2 groups, which are numbers that are never used again.
4. Proofs: the other groups' order in the group sequence, and which of the
   frequencies of a list a rotation sends between two starts.

---------------------------- MODULE Persistence -----------------------------
(***************************************************************************)
(* How the settings (RDSData of every program, the program on air and the  *)
(* number of streams) are kept in ~/.rdsEncoder: encoder_saveToFile and    *)
(* encoder_loadFromFile of src/fs.c, and their callers: init_rds_encoder,  *)
(* lua_force_save, lua_reset_rds and the exit of main, which joins the     *)
(* worker first, so that one save runs at a time.  A save is cut at its    *)
(* calls of the file system, where the process can be killed.              *)
(***************************************************************************)
CONSTANTS
    Settings,   \* values of the settings
    Down, Nothing, \* no process; no file
    Torn,       \* a file that is empty or cut short
    OpenFails,  \* TRUE when fopen of the temporary file may fail
    RenameFails,\* TRUE when rename may fail
    WriteFails  \* TRUE when fwrite or fclose may fail (disk full)

ASSUME PersistenceAssumption ==
    /\ Down \notin Settings /\ Nothing \notin Settings /\ Torn \notin Settings
    /\ Torn # Nothing
    /\ OpenFails \in BOOLEAN /\ RenameFails \in BOOLEAN /\ WriteFails \in BOOLEAN

VARIABLES
    mem,    \* settings in memory, Down when no process runs
    snap,   \* RDSEncoderFile on the stack of the save that runs or ran last
    pc,     \* the step of the save or load that is next
    why,    \* who called it
    file,   \* ~/.rdsEncoder
    tmp,    \* ~/.rdsEncoder.tmp
    left,   \* settings when main last returned, Nothing after a kill
    took    \* neither fopen nor rename failed in the save that runs or ran last

savesVars == <<mem, snap, pc, why, file, tmp, left, took>>
Files == Settings \cup {Nothing, Torn}

SavesInit ==
    /\ mem = Down /\ snap = Nothing /\ pc = "off" /\ why = "start"
    /\ file \in Settings \cup {Nothing} /\ tmp = Nothing /\ left = Nothing
    /\ took = FALSE

(* encoder_loadFromFile: the markers and the CRC let a whole file pass.     *)
Loads(f) == f \in Settings

(* init_rds_encoder: what the file has, or what on_init makes of the        *)
(* defaults; then a save.                                                   *)
Boot ==
    /\ pc = "off"
    /\ IF Loads(file) THEN mem' = file ELSE mem' \in Settings
    /\ pc' = "pack" /\ why' = "start" /\ left' = Nothing
    /\ UNCHANGED <<snap, file, tmp, took>>

(* A command or a hook changes the settings.                                *)
Change ==
    /\ pc = "idle" /\ mem' \in Settings
    /\ UNCHANGED <<snap, pc, why, file, tmp, left, took>>

(* lua_force_save, lua_reset_rds, main's exit.                              *)
CallSave ==
    /\ pc = "idle"
    /\ pc' = "pack" /\ why' \in {"force_save", "reset", "exit"}
    /\ UNCHANGED <<mem, snap, file, tmp, left, took>>

(* Mutants of Pack and Open: what was packed before is saved again; the     *)
(* encoder file itself is opened.                                           *)
PackOnce ==
    /\ pc = "pack"
    /\ snap' = (IF snap = Nothing THEN mem ELSE snap) /\ pc' = "open"
    /\ UNCHANGED <<mem, why, file, tmp, left, took>>
OpenInPlace ==
    /\ pc = "open"
    /\ pc' = "write" /\ file' = Torn /\ took' = TRUE
    /\ UNCHANGED <<mem, snap, why, tmp, left>>
(* encoder_saveToFile: pack, open, write and close, rename, return.         *)
Pack ==
    /\ pc = "pack"
    /\ snap' = mem /\ pc' = "open"
    /\ UNCHANGED <<mem, why, file, tmp, left, took>>
Open ==
    /\ pc = "open"
    /\ took' \in {TRUE} \cup IF OpenFails THEN {FALSE} ELSE {}
    /\ IF took' THEN pc' = "write" /\ tmp' = Torn ELSE pc' = "return" /\ UNCHANGED tmp
    /\ UNCHANGED <<mem, snap, why, file, left>>
Write ==    \* the results of fwrite and fclose are not looked at
    /\ pc = "write"
    /\ tmp' \in {snap} \cup IF WriteFails THEN {Torn} ELSE {}
    /\ pc' = "rename"
    /\ UNCHANGED <<mem, snap, why, file, left, took>>
Rename ==   \* its result is not looked at
    /\ pc = "rename" /\ pc' = "return"
    /\ \/ file' = tmp /\ tmp' = Nothing /\ took' = took
       \/ RenameFails /\ took' = FALSE /\ UNCHANGED <<file, tmp>>
    /\ UNCHANGED <<mem, snap, why, left>>
SaveReturn ==
    /\ pc = "return"
    /\ pc' = CASE why = "reset" -> "load" [] why = "exit" -> "off" [] OTHER -> "idle"
    /\ IF why = "exit" THEN mem' = Down /\ left' = mem ELSE UNCHANGED <<mem, left>>
    /\ UNCHANGED <<snap, why, file, tmp, took>>

(* lua_reset_rds loads what it saved; that it could not is ignored.  A file *)
(* cut short leaves part of the buffer unset: what is there may be what the *)
(* save before it left on the stack, and pass.                              *)
LoadBack ==
    /\ pc = "load"
    /\ mem' \in IF Loads(file) THEN {file} ELSE IF file = Torn THEN {mem, snap} ELSE {mem}
    /\ pc' = "idle"
    /\ UNCHANGED <<snap, why, file, tmp, left, took>>

(* The process dies; what it had written to the files stays.                *)
Kill ==
    /\ pc # "off"
    /\ mem' = Down /\ pc' = "off" /\ snap' = Nothing /\ left' = Nothing
    /\ UNCHANGED <<why, file, tmp, took>>

SavesNext ==
    \/ Boot \/ Change \/ CallSave
    \/ Pack \/ Open \/ Write \/ Rename \/ SaveReturn \/ LoadBack
    \/ Kill
SavesSpec == SavesInit /\ [][SavesNext]_savesVars

-----------------------------------------------------------------------------
(* Properties *)

SavesTypeOK ==
    /\ mem \in Settings \cup {Down} /\ snap \in Settings \cup {Nothing}
    /\ pc \in {"off", "idle", "pack", "open", "write", "rename", "return", "load"}
    /\ why \in {"start", "force_save", "reset", "exit"}
    /\ file \in Files /\ tmp \in Files /\ left \in Settings \cup {Nothing}
    /\ took \in BOOLEAN

(* Whenever the process is killed, in whatever step of a save, the file is  *)
(* the one of the last save that ended its rename: the encoder file is a    *)
(* durable store of the settings, whether or not the temporary file can be  *)
(* opened and renamed (when writing succeeds).                              *)
Store == INSTANCE DurableStore WITH live <- mem, stored <- file
Durable == Store!Spec

(* What main saved when it was told to stop is what the next start finds,   *)
(* if the save could open its file and rename it.                           *)
StopKeepsSettings == left # Nothing /\ took => file = left

(* A reset ends with the settings in memory it began with: it loads what it *)
(* saved, if the save could open its file and rename it.                    *)
ResetKeepsSettings == [][pc = "load" /\ pc' = "idle" /\ took => mem' = mem]_savesVars
=============================================================================

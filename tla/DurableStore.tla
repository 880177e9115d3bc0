---------------------------- MODULE DurableStore ----------------------------
(***************************************************************************)
(* What the encoder file promises: the settings survive the process, and   *)
(* whatever happens to the process while it saves them, what is found at   *)
(* the next start is the settings of the last save that took effect.       *)
(***************************************************************************)
CONSTANTS Settings, Down, Nothing

VARIABLES
    live,   \* the settings of the running process, Down when there is none
    stored  \* the settings a start would find, Nothing when there are none

Init == live = Down /\ stored \in Settings \cup {Nothing}
Start ==
    /\ live = Down /\ UNCHANGED stored
    /\ IF stored = Nothing THEN live' \in Settings ELSE live' = stored
Edit == live # Down /\ live' \in Settings /\ UNCHANGED stored
Save == live # Down /\ stored' = live /\ UNCHANGED live
Stop == live # Down /\ live' = Down /\ UNCHANGED stored

Next == Start \/ Edit \/ Save \/ Stop
Spec == Init /\ [][Next]_<<live, stored>>
=============================================================================

--------------------------- MODULE TextBroadcast ----------------------------
(* What RadioText promises its listeners: texts are issued one after the    *)
(* other, and a receiver shows issued texts and never goes back: no display *)
(* has only texts older than one on the display before.  When nothing       *)
(* disturbed the last text, it is shown in the end.                         *)
EXTENDS Naturals

CONSTANT MaxTexts       \* bound: texts issued in one behaviour
VARIABLES issued,       \* how many texts have been issued, texts being 1, 2, ...
          shown,        \* the texts the receiver shows parts of, none at first
          raced         \* something has disturbed the last text

vars == <<issued, shown, raced>>

Init == issued = 0 /\ shown = {} /\ ~raced

Newer ==
    /\ shown' \in SUBSET (1 .. issued)
    /\ \A v \in shown : \E w \in shown' : v <= w

Issue == issued < MaxTexts /\ issued' = issued + 1 /\ raced' \in BOOLEAN /\ UNCHANGED shown
Disturb == raced' = TRUE /\ Newer /\ UNCHANGED issued
Show == ~raced /\ raced' = FALSE /\ Newer /\ UNCHANGED issued
ShowLast == Show /\ issued \notin shown /\ issued \in shown'

Next == Issue \/ Disturb \/ Show
Spec == Init /\ [][Next]_vars /\ WF_vars(ShowLast)
=============================================================================

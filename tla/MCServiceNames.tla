--------------------------- MODULE MCServiceNames ---------------------------
(* Instance of ServiceNames for TLC: PS and LPS of three segments, one kind *)
(* of group in the sequence, whose states are all that the others share.    *)
EXTENDS ServiceNames

MCSegs == [g \in Groups |-> IF g = "ptyn" THEN 2 ELSE 3]
MCMixes == {{g} : g \in Groups}
=============================================================================

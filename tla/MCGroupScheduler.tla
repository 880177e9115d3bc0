-------------------------- MODULE MCGroupScheduler --------------------------
(* Instances of GroupScheduler for TLC: two programs, a grp_sqc array of    *)
(* two elements, a sequence that fits it and one that does not; and, where  *)
(* liveness is checked, an array of one element, a sequence of two and one  *)
(* count of streams, which becomes 0.                                       *)
EXTENDS GroupScheduler

MCCodes == {0, 4, 6}
MCGrpSeqs == {<<4, 6>>, <<0, 6, 4>>}
MCStreamCounts == {10}

MCLiveCodes == {0, 6}
MCLiveGrpSeqs == {<<0, 6>>}
MCLiveStreamCounts == {8}
=============================================================================

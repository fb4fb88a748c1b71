------------------------- MODULE MCOverlapSchedule -------------------------
(* Instance of OverlapSchedule for TLC: two ranks and up to three remote      *)
(* stages, so that a stage is first, neither, penultimate and last.           *)
EXTENDS OverlapSchedule, TLC
=============================================================================

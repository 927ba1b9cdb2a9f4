------------------------ MODULE MC_KeyProfileAdmission ------------------------
(***************************************************************************)
(* KeyProfileAdmission for TLC: an 8-bit time.Duration in minutes, so that *)
(* 3 x gracePeriod overflows for gracePeriod >= 43, and durations on both  *)
(* sides of every bound ValidateRotationPolicy checks.                     *)
(***************************************************************************)
EXTENDS KeyProfileAdmission

MCDurations == {-5, 0, 4, 5, 14, 15, 43, 100}
=============================================================================

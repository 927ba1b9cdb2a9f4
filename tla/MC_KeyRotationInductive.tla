----------------------- MODULE MC_KeyRotationInductive -----------------------
(***************************************************************************)
(* The lifecycle instance of MC_KeyRotation with a KeyID space too small  *)
(* to avoid repeats, for the strengthening RInv that the proof of          *)
(* KeysNeverRollBack in KeyRotationSafetyProofs carries from step to step. *)
(***************************************************************************)
EXTENDS KeyRotationSafetyProofs

CONSTANTS p1, p2, s1, t1, t2

MCSecretOf == [p \in Profiles |-> s1]
MCTargetsOf == [p \in Profiles |-> IF p = p1 THEN <<t1, t2>> ELSE <<t1>>]
MCInterval == [p \in Profiles |-> 1]
MCFormat == [p \in Profiles |-> "split-pem"]
=============================================================================

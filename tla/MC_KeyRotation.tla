--------------------------- MODULE MC_KeyRotation ---------------------------
(***************************************************************************)
(* Small instances of KeyRotation for TLC.  Two profiles share the Secret  *)
(* name s1 and the publish target t1; p1 also publishes to t2.             *)
(***************************************************************************)
EXTENDS KeyRotation

CONSTANTS p1, p2, s1, t1, t2

MCSecretOf == [p \in Profiles |-> s1]
MCTargetsOf == [p \in Profiles |-> IF p = p1 THEN <<t1, t2>> ELSE <<t1>>]
MCInterval == [p \in Profiles |-> 1]
MCFormat == [p \in Profiles |-> "split-pem"]
=============================================================================

------------------------- MODULE MC_KeyRotationLive -------------------------
(***************************************************************************)
(* KeyRotation under the scheduling of controller-runtime (Fairness), with *)
(* no failures injected: two profiles, each with a Secret of its own, p1   *)
(* publishing to t1 and t2 and p2 to t1.                                   *)
(***************************************************************************)
EXTENDS KeyRotation

CONSTANTS p1, p2, s1, s2, t1, t2

MCSecretOf == [p \in Profiles |-> IF p = p1 THEN s1 ELSE s2]
MCTargetsOf == [p \in Profiles |-> IF p = p1 THEN <<t1, t2>> ELSE <<t1>>]
MCInterval == [p \in Profiles |-> 1]
(* p2 has time-based rotation disabled (interval 0). *)
MCIntervalOff == [p \in Profiles |-> IF p = p1 THEN 1 ELSE 0]
MCFormat == [p \in Profiles |-> "split-pem"]
(* p2 asks for a format the CRD admits and Render refuses. *)
MCFormatJWKS == [p \in Profiles |-> IF p = p1 THEN "split-pem" ELSE "jwks"]
=============================================================================

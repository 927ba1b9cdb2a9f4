-------------------------- MODULE RotationSchedule --------------------------
(***************************************************************************)
(* The rotation decision engine of pkg/rotation/manager.go and the status  *)
(* comparison of internal/controller/keyprofile_controller.go, as pure     *)
(* operators.                                                              *)
(*                                                                         *)
(* Time is a natural number of ticks.  The value 0 is Go's zero time       *)
(* (time.Time{}), which is also what a nil *metav1.Time reads as through   *)
(* IsZero(); a key ID or a fingerprint of 0 is the empty string "".        *)
(***************************************************************************)
EXTENDS Naturals

ZeroTime == 0
NoID == 0

(* A status or result record: CurrentKeyID, CurrentKeyFingerprint,         *)
(* LastRotation, NextRotation and whether Phase is set.                    *)
StatusRec(IDs, FPs, LastTimes, NextTimes) ==
    [keyID : IDs, fp : FPs, last : LastTimes, next : NextTimes,
     active : BOOLEAN]

(* Mutant: the time-based case of checkRotationNeeded is lost.           *)
checkRotationNeeded_NoExpiry(st, interval, now) ==
    \/ st.keyID = NoID
    \/ st.last = ZeroTime

(* checkRotationNeeded: no key yet, or the interval has strictly expired.  *)
(* An interval of 0 disables time-based rotation.                          *)
checkRotationNeeded(st, interval, now) ==
    \/ st.keyID = NoID
    \/ st.last = ZeroTime
    \/ /\ interval # 0
       /\ now > st.last + interval

(* calculateNextRotation: lastRot + interval, or the zero time ("forever") *)
(* when the interval is 0.                                                 *)
calculateNextRotation(lastRot, interval) ==
    IF interval = 0 THEN ZeroTime ELSE lastRot + interval

(* needsStatusUpdate: some field of the result differs from the status    *)
(* the reconcile read, or Phase is still empty.                            *)
needsStatusUpdate(st, res) ==
    \/ st.keyID # res.keyID
    \/ st.fp # res.fp
    \/ st.last # res.last
    \/ st.next # res.next
    \/ ~st.active
=============================================================================

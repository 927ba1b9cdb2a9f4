-------------------------- MODULE KeyDistribution --------------------------
(***************************************************************************)
(* What openUKR's publish-then-persist protocol promises (spec sections 2, *)
(* 4.7 and 7(c)), with rotation, wiping, retries and the API server left    *)
(* out.  For each profile, a set of keys is available: the public half is  *)
(* at every publish target of that profile, so the profile's validators    *)
(* accept signatures made with it.  Keys become available and never stop  *)
(* being so.  A Secret receives only a key available to the profile that   *)
(* writes it, and a Secret once owned by a profile is never taken over by  *)
(* another one.  The status announces only available keys.                 *)
(***************************************************************************)
CONSTANTS
    Profiles,     \* KeyProfile objects
    SecretNames,  \* Secret names
    Keys,         \* key pairs
    NoKey,        \* no key (an empty Secret or status)
    NoOwner       \* no controller owner

VARIABLES
    avail,    \* [Profiles -> SUBSET Keys]: keys published to all targets
    held,     \* [SecretNames -> [owner, key]]: controller owner and key
    current   \* [Profiles -> Keys \cup {NoKey}]: key the status announces

avars == <<avail, held, current>>

Init ==
    /\ avail = [p \in Profiles |-> {}]
    /\ held = [s \in SecretNames |-> [owner |-> NoOwner, key |-> NoKey]]
    /\ current = [p \in Profiles |-> NoKey]

(* Public keys reach more targets: availability only grows. *)
MakeAvailable ==
    /\ avail' \in [Profiles -> SUBSET Keys]
    /\ \A p \in Profiles : avail[p] \subseteq avail'[p]
    /\ UNCHANGED <<held, current>>

(* Profile p puts one of its available keys into Secret s, which nobody   *)
(* else owns.                                                              *)
Install(s, p) ==
    /\ held[s].owner \in {NoOwner, p}
    /\ \E k \in avail[p] : held' = [held EXCEPT ![s] = [owner |-> p, key |-> k]]
    /\ UNCHANGED <<avail, current>>

(* The status of p announces an available key of p. *)
Announce(p) ==
    /\ \E k \in avail[p] \cup {NoKey} : current' = [current EXCEPT ![p] = k]
    /\ UNCHANGED <<avail, held>>

Next ==
    \/ MakeAvailable
    \/ \E s \in SecretNames, p \in Profiles : Install(s, p)
    \/ \E p \in Profiles : Announce(p)

Spec == Init /\ [][Next]_avars

(* A validator never stops accepting a key it was given: no step makes a  *)
(* key that was available to a profile unavailable.  Publishers only add  *)
(* files named after a KeyID (spec 4.7) and nothing removes one.          *)
AvailNeverShrinks ==
    [][\A p \in Profiles : avail[p] \subseteq avail'[p]]_avars
=============================================================================

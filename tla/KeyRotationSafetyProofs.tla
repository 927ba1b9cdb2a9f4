----------------------- MODULE KeyRotationSafetyProofs -----------------------
(***************************************************************************)
(* Two safety properties of the key lifecycle proved for every number of  *)
(* profiles, Secrets, targets and keys, and whether or not generateKeyID  *)
(* repeats an ID: the deferred Wipe of EnsureKey (WipedAfterEnsureKey) and *)
(* that neither a Secret nor a status ever goes back to an older key       *)
(* (KeysNeverRollBack).                                                    *)
(***************************************************************************)
EXTENDS KeyRotationProofs

USE ConstantsAssumption

-----------------------------------------------------------------------------
(* Inductive strengthening of WipedAfterEnsureKey: a key not generated yet *)
(* has no ID, so the key GenerateLeaks adds to memory has none.            *)
WInv ==
    /\ TypeInv
    /\ UngeneratedHaveNoID
    /\ WipedAfterEnsureKey

-----------------------------------------------------------------------------
(* Inductive strengthening of KeysNeverRollBack.  Keys are numbered in     *)
(* order of generation, so every key any variable names is at most         *)
(* nextKey; a Secret without owner is empty; the key an in-flight EnsureKey *)
(* holds is newer than the status it read and than every Secret its        *)
(* profile owns; and a pending result is at least as new as the status    *)
(* the reconcile read.                                                     *)
KeysBelowNext ==
    /\ \A s \in SecretNames : secret[s].key <= nextKey
    /\ \A p \in Profiles :
          /\ status[p].fp <= nextKey
          /\ cache[p].fp <= nextKey
          /\ seen[p].fp <= nextKey
          /\ res[p].fp <= nextKey
          /\ pc[p] = "publish" => kp[p] <= nextKey

UnownedEmpty ==
    \A s \in SecretNames : secret[s].owner = NoProfile => secret[s].key = NoKey

InFlightNewest(p) ==
    /\ pc[p] = "publish" =>
          /\ seen[p].fp < kp[p]
          /\ \A s \in SecretNames : secret[s].owner = p => secret[s].key < kp[p]
    /\ pc[p] = "status" => seen[p].fp <= res[p].fp

RInv ==
    /\ TypeInv
    /\ KeysBelowNext
    /\ UnownedEmpty
    /\ \A p \in Profiles : InFlightNewest(p)

(* A step that moves one profile p that holds no KeyPair in flight, and   *)
(* touches no key ID, memory or KeyPair, keeps WipedAfterEnsureKey.        *)
LEMMA OtherProfileKeepsWiped ==
    ASSUME TypeOK, WipedAfterEnsureKey, NEW p \in Profiles, NEW v,
           pc[p] # "publish", pc' = [pc EXCEPT ![p] = v], v # "publish",
           UNCHANGED <<keyID, live, kp>>
    PROVE  WipedAfterEnsureKey'
<1> SUFFICES ASSUME NEW k \in live', keyID'[k] # NoID
             PROVE  \E q \in Profiles : pc'[q] = "publish" /\ kp'[q] = k
    BY DEF WipedAfterEnsureKey
<1>1. PICK q \in Profiles : pc[q] = "publish" /\ kp[q] = k
    BY DEF WipedAfterEnsureKey
<1>2. q # p /\ pc'[q] = pc[q]
    BY <1>1 DEF TypeOK
<1>3. QED BY <1>1, <1>2

(* The deferred Wipe on a return of EnsureKey: profile p leaves PublishAll *)
(* and the key it held is wiped; every other key in memory keeps the      *)
(* profile that holds it.                                                  *)
LEMMA WipeKeepsWiped ==
    ASSUME TypeOK, WipedAfterEnsureKey, NEW p \in Profiles, NEW v,
           pc' = [pc EXCEPT ![p] = v], v # "publish", live' = Wipe(kp[p]),
           UNCHANGED <<keyID, kp>>
    PROVE  WipedAfterEnsureKey'
<1> SUFFICES ASSUME NEW k \in live', keyID'[k] # NoID
             PROVE  \E q \in Profiles : pc'[q] = "publish" /\ kp'[q] = k
    BY DEF WipedAfterEnsureKey
<1>1. k \in live /\ k # kp[p]
    BY DEF Wipe
<1>2. PICK q \in Profiles : pc[q] = "publish" /\ kp[q] = k
    BY <1>1 DEF WipedAfterEnsureKey
<1>3. q # p /\ pc'[q] = pc[q]
    BY <1>1, <1>2 DEF TypeOK
<1>4. QED BY <1>2, <1>3

(* Every step keeps WInv, whether or not generateKeyID repeats an ID.      *)
LEMMA WInvStep == WInv /\ [Next]_vars => WInv'
<1> SUFFICES ASSUME WInv, [Next]_vars PROVE WInv'
    OBVIOUS
<1>0. TypeOK /\ TypeInv'
    BY TypeInvStep DEF WInv, TypeInv
<1> DEFINE Goal == UngeneratedHaveNoID' /\ WipedAfterEnsureKey'
<1> SUFFICES Goal
    BY <1>0 DEF WInv
<1>1. ASSUME NEW p \in Profiles, ReconcileNoRotation(p) PROVE Goal
    <2>1. UngeneratedHaveNoID'
        BY <1>1 DEF ReconcileNoRotation, WInv, UngeneratedHaveNoID
    <2>2. WipedAfterEnsureKey'
        BY <1>0, <1>1, OtherProfileKeepsWiped DEF ReconcileNoRotation, WInv
    <2>3. QED BY <2>1, <2>2
<1>2. ASSUME NEW p \in Profiles, GenerateFails(p) PROVE Goal
    BY <1>2 DEF GenerateFails, vars, WInv, UngeneratedHaveNoID,
                WipedAfterEnsureKey
<1>3. ASSUME NEW p \in Profiles, GenerateLeaks(p) PROVE Goal
    <2>1. nextKey + 1 \in Keys /\ keyID[nextKey + 1] = NoID
        BY <1>0, <1>3 DEF GenerateLeaks, WInv, UngeneratedHaveNoID, TypeOK,
                          Keys
    <2>2. UngeneratedHaveNoID'
        <3>1. keyID' = keyID /\ nextKey' = nextKey + 1
            BY <1>3 DEF GenerateLeaks
        <3>2. QED BY <1>0, <3>1 DEF WInv, UngeneratedHaveNoID, TypeOK, Keys
    <2>3. WipedAfterEnsureKey'
        BY <1>3, <2>1 DEF GenerateLeaks, WInv, WipedAfterEnsureKey
    <2>4. QED BY <2>2, <2>3
<1>4. ASSUME NEW p \in Profiles, GenerateOK(p) PROVE Goal
    <2> DEFINE k == nextKey + 1
    <2>1. PICK id \in FreshKeyIDs : keyID' = [keyID EXCEPT ![k] = id]
        BY <1>4 DEF GenerateOK
    <2>2. k \in Keys /\ nextKey' = k
        BY <1>0, <1>4 DEF GenerateOK, TypeOK, Keys
    <2>3. UngeneratedHaveNoID'
        <3> SUFFICES ASSUME NEW x \in Keys, x > nextKey'
                     PROVE  keyID'[x] = NoID
            BY DEF UngeneratedHaveNoID
        <3>1. x # k /\ x > nextKey
            BY <1>0, <2>2 DEF TypeOK, Keys
        <3>2. keyID'[x] = keyID[x]
            BY <1>0, <2>1, <3>1 DEF TypeOK
        <3>3. QED BY <3>1, <3>2 DEF WInv, UngeneratedHaveNoID
    <2>4. WipedAfterEnsureKey'
        <3> SUFFICES ASSUME NEW x \in live', keyID'[x] # NoID
                     PROVE  \E q \in Profiles : pc'[q] = "publish" /\ kp'[q] = x
            BY DEF WipedAfterEnsureKey
        <3>1. CASE x = k
            BY <1>0, <1>4, <3>1 DEF GenerateOK, TypeOK
        <3>2. CASE x # k
            <4>1. x \in live /\ keyID[x] # NoID
                BY <1>0, <1>4, <2>1, <3>2 DEF GenerateOK, TypeOK
            <4>2. PICK q \in Profiles : pc[q] = "publish" /\ kp[q] = x
                BY <4>1 DEF WInv, WipedAfterEnsureKey
            <4>3. q # p
                BY <1>4, <4>2 DEF GenerateOK
            <4>4. QED BY <1>0, <1>4, <4>2, <4>3 DEF GenerateOK, TypeOK
        <3>3. QED BY <3>1, <3>2
    <2>5. QED BY <2>3, <2>4
<1>5. ASSUME NEW p \in Profiles, Publish(p) PROVE Goal
    BY <1>5 DEF Publish, WInv, UngeneratedHaveNoID, WipedAfterEnsureKey
<1>6. ASSUME NEW p \in Profiles, PublishFailed(p) PROVE Goal
    <2>1. UngeneratedHaveNoID'
        BY <1>6 DEF PublishFailed, WInv, UngeneratedHaveNoID
    <2>2. WipedAfterEnsureKey'
        BY <1>0, <1>6, WipeKeepsWiped DEF PublishFailed, WInv
    <2>3. QED BY <2>1, <2>2
<1>7. ASSUME NEW p \in Profiles, Persist(p) PROVE Goal
    <2>1. UngeneratedHaveNoID'
        BY <1>7 DEF Persist, WInv, UngeneratedHaveNoID
    <2>2. \E v \in {"status", "idle"} : pc' = [pc EXCEPT ![p] = v]
        BY <1>7 DEF Persist
    <2>3. WipedAfterEnsureKey'
        BY <1>0, <1>7, <2>2, WipeKeepsWiped DEF Persist, WInv
    <2>4. QED BY <2>1, <2>3
<1>8. ASSUME NEW p \in Profiles, UpdateStatus(p) PROVE Goal
    <2>1. UngeneratedHaveNoID'
        BY <1>8 DEF UpdateStatus, WInv, UngeneratedHaveNoID
    <2>2. WipedAfterEnsureKey'
        BY <1>0, <1>8, OtherProfileKeepsWiped DEF UpdateStatus, WInv
    <2>3. QED BY <2>1, <2>2
<1>9. ASSUME NEW p \in Profiles, CacheSync(p) PROVE Goal
    BY <1>9 DEF CacheSync, WInv, UngeneratedHaveNoID, WipedAfterEnsureKey
<1>10. CASE Tick
    BY <1>10 DEF Tick, WInv, UngeneratedHaveNoID, WipedAfterEnsureKey
<1>11. CASE Crash
    BY <1>11 DEF Crash, WInv, UngeneratedHaveNoID, WipedAfterEnsureKey
<1>12. CASE UNCHANGED vars
    BY <1>12 DEF vars, WInv, UngeneratedHaveNoID, WipedAfterEnsureKey
<1>13. QED BY <1>1, <1>2, <1>3, <1>4, <1>5, <1>6, <1>7, <1>8, <1>9, <1>10,
              <1>11, <1>12 DEF Next

(* WInv holds in every reachable state, whether or not generateKeyID     *)
(* repeats an ID: the strengthening the inductive_invariants run checks.  *)
LEMMA WInvHolds == Spec => []WInv
<1>1. Init => WInv
    BY InitStatusType DEF Init, WInv, TypeInv, TypeOK, NoKey, NoID, Keys,
                          KeyIDs, UngeneratedHaveNoID, WipedAfterEnsureKey
<1>2. QED BY <1>1, WInvStep, PTL DEF Spec

(* The deferred kp.Wipe() of EnsureKey, for every number of profiles and  *)
(* keys and whether or not KeyIDs repeat: whatever the publish failures,  *)
(* Secret write failures and crashes, a KeyPair Generate returned is in   *)
(* memory only while its EnsureKey call is still publishing it.           *)
THEOREM WipedAfterEnsureKeyHolds == Spec => []WipedAfterEnsureKey
<1>1. WInv => WipedAfterEnsureKey
    BY DEF WInv
<1>2. QED BY <1>1, WInvHolds, PTL
-----------------------------------------------------------------------------
(* Every key a Secret, a status, the cache, a read status, a result or a  *)
(* KeyPair in flight names is a natural number (NoKey is 0).              *)
LEMMA KeysAreNumbers ==
    ASSUME TypeOK
    PROVE  /\ \A s \in SecretNames : secret[s].key \in Nat
           /\ \A p \in Profiles :
                 /\ status[p].fp \in Nat /\ cache[p].fp \in Nat
                 /\ seen[p].fp \in Nat /\ res[p].fp \in Nat
                 /\ kp[p] \in Nat
           /\ nextKey \in Nat
<1>1. Keys \cup {NoKey} \subseteq Nat
    BY DEF Keys, NoKey
<1>2. \A st \in Status : st.fp \in Nat
    BY <1>1 DEF Status, StatusRec
<1>3. \A s \in SecretNames : secret[s].key \in Nat
    BY <1>1 DEF TypeOK
<1>4. \A p \in Profiles :
         /\ status[p] \in Status /\ cache[p] \in Status
         /\ seen[p] \in Status /\ res[p] \in Status /\ kp[p] \in Nat
    BY <1>1 DEF TypeOK
<1>5. QED BY <1>2, <1>3, <1>4 DEF TypeOK

(* A step that changes no Secret, status, cache, read status, result,      *)
(* reconcile position or KeyPair, and generates no key or more, keeps RInv. *)
LEMMA RInvQuiet ==
    ASSUME RInv, TypeInv', nextKey <= nextKey',
           UNCHANGED <<secret, status, cache, seen, res, pc, kp>>
    PROVE  RInv'
<1>1. nextKey \in Nat /\ nextKey' \in Nat
    BY DEF RInv, TypeInv, TypeOK
<1>2. KeysBelowNext'
    BY <1>1, KeysAreNumbers DEF RInv, TypeInv, KeysBelowNext
<1>3. UnownedEmpty' /\ \A p \in Profiles : InFlightNewest(p)'
    BY DEF RInv, UnownedEmpty, InFlightNewest
<1>4. QED BY <1>2, <1>3 DEF RInv

(* A step of profile p that changes none of the Secrets and no other      *)
(* profile's read status, result, position or KeyPair keeps               *)
(* InFlightNewest of the other profiles.                                   *)
LEMMA OthersStayNewest ==
    ASSUME RInv, NEW p \in Profiles, UNCHANGED secret,
           \A q \in Profiles \ {p} :
              /\ pc'[q] = pc[q] /\ seen'[q] = seen[q]
              /\ res'[q] = res[q] /\ kp'[q] = kp[q]
    PROVE  \A q \in Profiles \ {p} : InFlightNewest(q)'
BY DEF RInv, InFlightNewest

(* The Status update of KeyProfile p, accepted or not, keeps RInv.        *)
LEMMA UpdateStatusKeepsRInv ==
    ASSUME RInv, TypeInv', NEW p \in Profiles, UpdateStatus(p)
    PROVE  RInv'
<1>0. TypeOK
    BY DEF RInv, TypeInv
<1>1. status' = status \/ status' = [status EXCEPT ![p] = res[p]]
    BY DEF UpdateStatus
<1>2. \A q \in Profiles : status'[q].fp <= nextKey
    BY <1>0, <1>1 DEF UpdateStatus, RInv, KeysBelowNext, TypeOK
<1>3. KeysBelowNext'
    <2>1. pc'[p] = "idle" /\ \A q \in Profiles \ {p} : pc'[q] = pc[q]
        BY <1>0 DEF UpdateStatus, TypeOK
    <2>2. QED BY <1>2, <2>1 DEF UpdateStatus, RInv, KeysBelowNext
<1>4. InFlightNewest(p)'
    BY <1>0 DEF UpdateStatus, InFlightNewest, TypeOK
<1>5. \A q \in Profiles \ {p} : InFlightNewest(q)'
    BY <1>0, OthersStayNewest DEF UpdateStatus, TypeOK
<1>6. UnownedEmpty'
    BY DEF UpdateStatus, RInv, UnownedEmpty
<1>7. QED BY <1>3, <1>4, <1>5, <1>6 DEF RInv

(* The stale-cache path of EnsureKey keeps RInv: the result repeats the   *)
(* read status.                                                            *)
LEMMA ReconcileNoRotationKeepsRInv ==
    ASSUME RInv, TypeInv', NEW p \in Profiles, ReconcileNoRotation(p)
    PROVE  RInv'
<1>0. TypeOK
    BY DEF RInv, TypeInv
<1>1. seen'[p].fp = cache[p].fp /\ res'[p].fp = cache[p].fp
      /\ pc'[p] = "status"
    BY <1>0 DEF ReconcileNoRotation, TypeOK
<1>2. \A q \in Profiles \ {p} :
         /\ pc'[q] = pc[q] /\ seen'[q] = seen[q]
         /\ res'[q] = res[q] /\ kp'[q] = kp[q]
    BY <1>0 DEF ReconcileNoRotation, TypeOK
<1>3. KeysBelowNext'
    BY <1>1, <1>2 DEF ReconcileNoRotation, RInv, KeysBelowNext
<1>4. InFlightNewest(p)'
    BY <1>0, <1>1, KeysAreNumbers DEF InFlightNewest
<1>5. \A q \in Profiles \ {p} : InFlightNewest(q)'
    BY <1>2, OthersStayNewest DEF ReconcileNoRotation
<1>6. UnownedEmpty'
    BY DEF ReconcileNoRotation, RInv, UnownedEmpty
<1>7. QED BY <1>3, <1>4, <1>5, <1>6 DEF RInv

(* Generate keeps RInv: the new key is newer than every key in the state. *)
LEMMA GenerateOKKeepsRInv ==
    ASSUME RInv, TypeInv', NEW p \in Profiles, GenerateOK(p)
    PROVE  RInv'
<1>0. TypeOK /\ nextKey' = nextKey + 1 /\ kp'[p] = nextKey + 1
      /\ pc'[p] = "publish" /\ seen'[p] = cache[p]
    BY DEF RInv, TypeInv, TypeOK, GenerateOK
<1>1. \A q \in Profiles \ {p} :
         /\ pc'[q] = pc[q] /\ seen'[q] = seen[q]
         /\ res'[q] = res[q] /\ kp'[q] = kp[q]
    BY <1>0 DEF GenerateOK, TypeOK
<1>2. UNCHANGED <<secret, status, cache, res>>
    BY DEF GenerateOK
<1>3. KeysBelowNext'
    <2>0. cache[p].fp <= nextKey /\ nextKey \in Nat /\ cache[p].fp \in Nat
        BY <1>0, KeysAreNumbers DEF RInv, KeysBelowNext
    <2>1. \A q \in Profiles : seen'[q].fp <= nextKey'
        <3> SUFFICES ASSUME NEW q \in Profiles PROVE seen'[q].fp <= nextKey'
            OBVIOUS
        <3>1. CASE q = p
            BY <1>0, <2>0, <3>1
        <3>2. CASE q # p
            <4>1. seen'[q] = seen[q]
                BY <1>1, <3>2
            <4>2. seen[q].fp <= nextKey /\ seen[q].fp \in Nat
                BY <1>0, KeysAreNumbers DEF RInv, KeysBelowNext
            <4>3. QED BY <1>0, <2>0, <4>1, <4>2
        <3>3. QED BY <3>1, <3>2
    <2>2. \A q \in Profiles : pc'[q] = "publish" => kp'[q] <= nextKey'
        <3> SUFFICES ASSUME NEW q \in Profiles, pc'[q] = "publish"
                     PROVE  kp'[q] <= nextKey'
            OBVIOUS
        <3>1. CASE q = p
            BY <1>0, <2>0, <3>1
        <3>2. CASE q # p
            <4>1. kp'[q] = kp[q] /\ pc[q] = "publish"
                BY <1>1, <3>2
            <4>2. kp[q] <= nextKey /\ kp[q] \in Nat
                BY <1>0, <4>1, KeysAreNumbers DEF RInv, KeysBelowNext
            <4>3. QED BY <1>0, <2>0, <4>1, <4>2
        <3>3. QED BY <3>1, <3>2
    <2>3. QED BY <1>0, <1>2, <2>1, <2>2, KeysAreNumbers DEF RInv,
                 KeysBelowNext
<1>4. InFlightNewest(p)'
    BY <1>0, <1>2, KeysAreNumbers DEF RInv, KeysBelowNext, InFlightNewest
<1>5. \A q \in Profiles \ {p} : InFlightNewest(q)'
    BY <1>1, <1>2, OthersStayNewest
<1>6. UnownedEmpty'
    BY <1>2 DEF RInv, UnownedEmpty
<1>7. QED BY <1>3, <1>4, <1>5, <1>6 DEF RInv
(* An EnsureKey call of p that returns an error (PublishAll or the Secret *)
(* write failed) keeps RInv: p goes idle and nothing RInv reads changes.   *)
LEMMA ErrorReturnKeepsRInv ==
    ASSUME RInv, TypeInv', NEW p \in Profiles,
           pc' = [pc EXCEPT ![p] = "idle"],
           UNCHANGED <<secret, status, cache, seen, res, kp, nextKey>>
    PROVE  RInv'
<1>0. TypeOK
    BY DEF RInv, TypeInv
<1>1. \A q \in Profiles \ {p} : pc'[q] = pc[q]
    BY <1>0 DEF TypeOK
<1>2. pc'[p] = "idle"
    BY <1>0 DEF TypeOK
<1>3. KeysBelowNext'
    BY <1>1, <1>2 DEF RInv, KeysBelowNext
<1>4. \A q \in Profiles : InFlightNewest(q)'
    BY <1>1, <1>2 DEF RInv, InFlightNewest
<1>5. UnownedEmpty'
    BY DEF RInv, UnownedEmpty
<1>6. QED BY <1>3, <1>4, <1>5 DEF RInv

(* A successful SecretWriter.Write keeps RInv: the Secret receives the    *)
(* newest key of its profile, and the result names it.                     *)
LEMMA PersistOKKeepsRInv ==
    ASSUME RInv, TypeInv', NEW p \in Profiles, Persist(p),
           CanWriteSecret(p), secret' = WriteSecret(p, kp[p]),
           pc' = [pc EXCEPT ![p] = "status"],
           res' = [res EXCEPT ![p] = RotatedResult(p, kp[p])]
    PROVE  RInv'
<1>0. TypeOK /\ pc[p] = "publish" /\ kp[p] \in Keys /\ SecretOf[p] \in SecretNames
    BY DEF RInv, TypeInv, Persist
<1> DEFINE s0 == SecretOf[p]
<1>1. /\ secret'[s0] = [owner |-> p, key |-> kp[p]]
      /\ \A s \in SecretNames \ {s0} : secret'[s] = secret[s]
    BY <1>0 DEF WriteSecret, TypeOK
<1>2. /\ pc'[p] = "status" /\ res'[p].fp = kp[p]
      /\ \A q \in Profiles \ {p} : pc'[q] = pc[q] /\ res'[q] = res[q]
    BY <1>0 DEF TypeOK, RotatedResult
<1>3. UNCHANGED <<status, cache, seen, kp, nextKey>>
    BY DEF Persist
<1>4. kp[p] <= nextKey /\ seen[p].fp < kp[p]
    BY <1>0 DEF RInv, KeysBelowNext, InFlightNewest
<1>5. KeysBelowNext'
    <2>1. ASSUME NEW s \in SecretNames PROVE secret'[s].key <= nextKey'
        <3>1. CASE s = s0
            BY <1>1, <1>3, <1>4, <3>1
        <3>2. CASE s # s0
            BY <1>1, <1>3, <3>2 DEF RInv, KeysBelowNext
        <3>3. QED BY <3>1, <3>2
    <2>2. ASSUME NEW q \in Profiles
          PROVE  /\ res'[q].fp <= nextKey'
                 /\ pc'[q] = "publish" => kp'[q] <= nextKey'
        <3>1. CASE q = p
            BY <1>2, <1>3, <1>4, <3>1
        <3>2. CASE q # p
            BY <1>2, <1>3, <3>2 DEF RInv, KeysBelowNext
        <3>3. QED BY <3>1, <3>2
    <2>3. QED BY <1>3, <2>1, <2>2 DEF RInv, KeysBelowNext
<1>6. UnownedEmpty'
    <2>1. ASSUME NEW s \in SecretNames, secret'[s].owner = NoProfile
          PROVE  secret'[s].key = NoKey
        <3>0. secret'[s0].owner = p /\ p # NoProfile
            BY <1>1, ConstantsAssumption
        <3>1. s # s0
            BY <2>1, <3>0
        <3>2. QED BY <1>1, <2>1, <3>1 DEF RInv, UnownedEmpty
    <2>2. QED BY <2>1 DEF UnownedEmpty
<1>7. InFlightNewest(p)'
    BY <1>0, <1>2, <1>3, <1>4, KeysAreNumbers DEF InFlightNewest
<1>8. ASSUME NEW q \in Profiles \ {p} PROVE InFlightNewest(q)'
    <2>1. \A s \in SecretNames : secret'[s].owner = q => secret'[s] = secret[s]
        BY <1>1
    <2>2. QED BY <1>2, <1>3, <2>1 DEF RInv, InFlightNewest
<1>9. QED BY <1>5, <1>6, <1>7, <1>8 DEF RInv

(* Every step keeps RInv, whether or not generateKeyID repeats an ID.      *)
LEMMA RInvStep == RInv /\ [Next]_vars => RInv'
<1> SUFFICES ASSUME RInv, [Next]_vars PROVE RInv'
    OBVIOUS
<1>0. TypeOK /\ TypeInv'
    BY TypeInvStep DEF RInv, TypeInv
<1>1. ASSUME NEW p \in Profiles, ReconcileNoRotation(p) PROVE RInv'
    BY <1>0, <1>1, ReconcileNoRotationKeepsRInv
<1>2. ASSUME NEW p \in Profiles, GenerateFails(p) PROVE RInv'
    BY <1>0, <1>2, RInvQuiet DEF GenerateFails, vars, TypeOK
<1>3. ASSUME NEW p \in Profiles, GenerateLeaks(p) PROVE RInv'
    BY <1>0, <1>3, RInvQuiet DEF GenerateLeaks, TypeOK
<1>4. ASSUME NEW p \in Profiles, GenerateOK(p) PROVE RInv'
    BY <1>0, <1>4, GenerateOKKeepsRInv
<1>5. ASSUME NEW p \in Profiles, Publish(p) PROVE RInv'
    BY <1>0, <1>5, RInvQuiet DEF Publish, TypeOK
<1>6. ASSUME NEW p \in Profiles, PublishFailed(p) PROVE RInv'
    BY <1>0, <1>6, ErrorReturnKeepsRInv DEF PublishFailed
<1>7. ASSUME NEW p \in Profiles, Persist(p) PROVE RInv'
    <2>1. CASE /\ CanWriteSecret(p) /\ secret' = WriteSecret(p, kp[p])
               /\ pc' = [pc EXCEPT ![p] = "status"]
               /\ res' = [res EXCEPT ![p] = RotatedResult(p, kp[p])]
        BY <1>0, <1>7, <2>1, PersistOKKeepsRInv
    <2>2. CASE pc' = [pc EXCEPT ![p] = "idle"] /\ UNCHANGED <<secret, res>>
        BY <1>0, <1>7, <2>2, ErrorReturnKeepsRInv DEF Persist
    <2>3. QED BY <1>7, <2>1, <2>2 DEF Persist
<1>8. ASSUME NEW p \in Profiles, UpdateStatus(p) PROVE RInv'
    BY <1>0, <1>8, UpdateStatusKeepsRInv
<1>9. ASSUME NEW p \in Profiles, CacheSync(p) PROVE RInv'
    <2>1. \A q \in Profiles : cache'[q].fp <= nextKey
        BY <1>0, <1>9 DEF CacheSync, RInv, KeysBelowNext, TypeOK
    <2>2. KeysBelowNext'
        BY <1>9, <2>1 DEF CacheSync, RInv, KeysBelowNext
    <2>3. UnownedEmpty' /\ \A q \in Profiles : InFlightNewest(q)'
        BY <1>9 DEF CacheSync, RInv, UnownedEmpty, InFlightNewest
    <2>4. QED BY <1>0, <2>2, <2>3 DEF RInv
<1>10. CASE Tick
    BY <1>0, <1>10, RInvQuiet DEF Tick, TypeOK
<1>11. CASE Crash
    <2>1. \A q \in Profiles : pc'[q] = "idle"
        BY <1>11 DEF Crash
    <2>2. KeysBelowNext'
        BY <1>11, <2>1 DEF Crash, RInv, KeysBelowNext
    <2>3. UnownedEmpty' /\ \A q \in Profiles : InFlightNewest(q)'
        BY <1>11, <2>1 DEF Crash, RInv, UnownedEmpty, InFlightNewest
    <2>4. QED BY <1>0, <2>2, <2>3 DEF RInv
<1>12. CASE UNCHANGED vars
    BY <1>0, <1>12, RInvQuiet DEF vars, TypeOK
<1>13. QED BY <1>1, <1>2, <1>3, <1>4, <1>5, <1>6, <1>7, <1>8, <1>9, <1>10,
              <1>11, <1>12 DEF Next
(* The strengthening holds in the initial state: no key exists yet.        *)
LEMMA RInvInit == Init => RInv
<1> SUFFICES ASSUME Init PROVE RInv
    OBVIOUS
<1>1. TypeInv
    BY InitStatusType DEF Init, TypeInv, TypeOK, NoKey, NoID, Keys, KeyIDs
<1>2. KeysBelowNext /\ UnownedEmpty /\ \A p \in Profiles : InFlightNewest(p)
    BY DEF Init, KeysBelowNext, UnownedEmpty, InFlightNewest, InitStatus, NoKey
<1>3. QED BY <1>1, <1>2 DEF RInv

(* SecretWriter.Write never puts an older key into a Secret: the owner    *)
(* check lets only an empty Secret or one of the writing profile through, *)
(* and the key the profile's EnsureKey holds is newer than what it wrote. *)
LEMMA WriteNeverOlder ==
    ASSUME RInv, NEW p \in Profiles, Persist(p), CanWriteSecret(p),
           secret' = WriteSecret(p, kp[p])
    PROVE  \A s \in SecretNames : secret[s].key <= secret'[s].key
<1>0. TypeOK /\ pc[p] = "publish" /\ kp[p] \in Keys /\ SecretOf[p] \in SecretNames
    BY DEF RInv, TypeInv, Persist
<1>1. ASSUME NEW s \in SecretNames PROVE secret[s].key <= secret'[s].key
    <2>1. CASE s = SecretOf[p]
        <3>1. secret'[s].key = kp[p]
            BY <1>0, <2>1 DEF WriteSecret, TypeOK
        <3>2. secret[s].owner \in {NoProfile, p}
            BY <2>1 DEF CanWriteSecret, OwnerOK
        <3>3. secret[s].owner = NoProfile => secret[s].key = NoKey
            BY DEF RInv, UnownedEmpty
        <3>4. secret[s].owner = p => secret[s].key < kp[p]
            BY <1>0 DEF RInv, InFlightNewest
        <3>5. QED BY <1>0, <3>1, <3>2, <3>3, <3>4, KeysAreNumbers DEF Keys, NoKey
    <2>2. CASE s # SecretOf[p]
        BY <1>0, <2>2, KeysAreNumbers DEF WriteSecret, TypeOK
    <2>3. QED BY <2>1, <2>2
<1>2. QED BY <1>1

(* An accepted Status().Update never announces an older key: it carries   *)
(* the status the reconcile read, and the result is at least as new.       *)
LEMMA StatusNeverOlder ==
    ASSUME RInv, NEW p \in Profiles, UpdateStatus(p)
    PROVE  \A q \in Profiles : status[q].fp <= status'[q].fp
<1>0. TypeOK /\ pc[p] = "status"
    BY DEF RInv, TypeInv, UpdateStatus
<1>1. CASE status' = [status EXCEPT ![p] = res[p]] /\ StatusUpdateAccepted(p)
    <2>1. status[p].fp <= res[p].fp
        BY <1>0, <1>1 DEF RInv, InFlightNewest, StatusUpdateAccepted
    <2>2. QED BY <1>0, <1>1, <2>1, KeysAreNumbers DEF TypeOK
<1>2. CASE status' = status
    BY <1>0, <1>2, KeysAreNumbers
<1>3. QED BY <1>1, <1>2 DEF UpdateStatus

(* RInv holds in every reachable state, whether or not generateKeyID     *)
(* repeats an ID: every key named is at most nextKey, an unowned Secret is *)
(* empty, and the key of an EnsureKey in flight is newer than the status   *)
(* its reconcile read and than the profile's Secrets.                      *)
THEOREM RInvHolds == Spec => []RInv
BY RInvInit, RInvStep, PTL DEF Spec

(* What a workload reads from its Secret and what a validator learns from *)
(* a KeyProfile status never goes back to an older key, for every number  *)
(* of profiles, Secrets and keys and whether or not KeyIDs repeat, through *)
(* stale caches, shared Secret names, failed writes and crashes.           *)
THEOREM KeysNeverRollBackHolds == Spec => KeysNeverRollBack
<1> DEFINE Step == /\ \A s \in SecretNames : secret[s].key <= secret'[s].key
                   /\ \A p \in Profiles : status[p].fp <= status'[p].fp
<1>1. RInv /\ [Next]_vars => [Step]_<<secret, status>>
    <2> SUFFICES ASSUME RInv, [Next]_vars, <<secret, status>>' # <<secret, status>>
                 PROVE  Step
        OBVIOUS
    <2>0. TypeOK
        BY DEF RInv, TypeInv
    <2>1. CASE \E p \in Profiles : Persist(p) /\ CanWriteSecret(p)
                                   /\ secret' = WriteSecret(p, kp[p])
        <3>1. PICK p \in Profiles : Persist(p) /\ CanWriteSecret(p)
                                    /\ secret' = WriteSecret(p, kp[p])
            BY <2>1
        <3>2. status' = status
            BY <3>1 DEF Persist
        <3>3. QED BY <2>0, <3>1, <3>2, WriteNeverOlder, KeysAreNumbers
    <2>2. CASE \E p \in Profiles : UpdateStatus(p)
        <3>1. PICK p \in Profiles : UpdateStatus(p)
            BY <2>2
        <3>2. secret' = secret
            BY <3>1 DEF UpdateStatus
        <3>3. QED BY <2>0, <3>1, <3>2, StatusNeverOlder, KeysAreNumbers
    <2>3. QED BY <2>1, <2>2 DEF Next, vars, ReconcileNoRotation, GenerateFails,
                                GenerateLeaks, GenerateOK, Publish,
                                PublishFailed, Persist, CacheSync, Tick, Crash
<1>2. QED BY <1>1, RInvHolds, PTL DEF Spec, KeysNeverRollBack
=============================================================================

-------------------------- MODULE KeyRotationProofs --------------------------
(***************************************************************************)
(* Proofs about KeyRotation for every value of its constants: the         *)
(* variables keep their types, and, when generateKeyID never repeats an    *)
(* ID, EnsureKey never lets a private key reach a Secret, or a status     *)
(* announce a key, before its public half is in place at every target.    *)
(***************************************************************************)
EXTENDS KeyRotation, TLAPS

USE ConstantsAssumption

(* TypeOK alone is not inductive: the RotationResult that Persist builds   *)
(* reads keyID[kp[p]], which is typed only while kp[p] is a generated key.  *)
TypeInv ==
    /\ TypeOK
    /\ \A p \in Profiles : pc[p] = "publish" => kp[p] \in Keys

(* The next target of a PublishAll in progress is a target.                *)
LEMMA TargetOfPublish ==
    ASSUME NEW p \in Profiles, NEW i \in 1..Len(TargetsOf[p])
    PROVE  TargetsOf[p][i] \in Targets
OBVIOUS

(* The empty status of a new KeyProfile is a status record.                *)
LEMMA InitStatusType == InitStatus \in Status
BY DEF Status, StatusRec, InitStatus, ZeroTime, NoID, NoKey

(* The result EnsureKey returns when no rotation is due is a status       *)
(* record.                                                                 *)
LEMMA RepeatedTypes ==
    ASSUME NEW st \in Status, NEW iv \in Nat
    PROVE  [keyID |-> st.keyID, fp |-> st.fp, last |-> st.last,
            next |-> calculateNextRotation(st.last, iv),
            active |-> TRUE] \in Status
BY DEF Status, StatusRec, calculateNextRotation, ZeroTime

(* The RotationResult of a rotation is a status record.                   *)
LEMMA RecordTypes ==
    ASSUME NEW iv \in Nat, NEW t \in 0..MaxTime,
           NEW id \in KeyIDs \cup {NoID}, NEW k \in Keys \cup {NoKey}
    PROVE  [keyID |-> id, fp |-> k, last |-> t,
               next |-> calculateNextRotation(t, iv), active |-> TRUE]
                 \in Status
BY DEF Status, StatusRec, calculateNextRotation, ZeroTime, NoID, NoKey

(* Every step of the controller, the clock and a crash keeps the types.    *)
LEMMA TypeInvStep == TypeInv /\ [Next]_vars => TypeInv'
<1> SUFFICES ASSUME TypeInv, [Next]_vars PROVE TypeInv'
    OBVIOUS
<1> USE DEF TypeInv, TypeOK
<1>1. ASSUME NEW p \in Profiles, ReconcileNoRotation(p) PROVE TypeInv'
    <2>1. [keyID |-> cache[p].keyID, fp |-> cache[p].fp, last |-> cache[p].last,
           next |-> calculateNextRotation(cache[p].last, Interval[p]),
           active |-> TRUE] \in Status
        <3>1. cache[p] \in Status /\ Interval[p] \in Nat
            OBVIOUS
        <3>2. QED BY <3>1, RepeatedTypes
    <2>2. QED BY <1>1, <2>1 DEF ReconcileNoRotation
<1>2. ASSUME NEW p \in Profiles, GenerateFails(p) PROVE TypeInv'
    BY <1>2 DEF GenerateFails, vars
<1>3. ASSUME NEW p \in Profiles, GenerateLeaks(p) PROVE TypeInv'
    BY <1>3 DEF GenerateLeaks, Keys
<1>4. ASSUME NEW p \in Profiles, GenerateOK(p) PROVE TypeInv'
    BY <1>4 DEF GenerateOK, Keys, FreshKeyIDs
<1>5. ASSUME NEW p \in Profiles, Publish(p) PROVE TypeInv'
    <2>1. TargetsOf[p][tgt[p]] \in Targets
        BY <1>5, TargetOfPublish DEF Publish
    <2>2. \A t \in Targets : WriteKeyFile(t, kp[p])
                               \in [Targets -> [KeyIDs -> Keys \cup {NoKey}]]
        BY DEF WriteKeyFile
    <2>3. tgt[p] + 1 \in Nat \ {0}
        OBVIOUS
    <2>4. QED BY <1>5, <2>1, <2>2, <2>3 DEF Publish
<1>6. ASSUME NEW p \in Profiles, PublishFailed(p) PROVE TypeInv'
    BY <1>6 DEF PublishFailed, Wipe
<1>7. ASSUME NEW p \in Profiles, Persist(p) PROVE TypeInv'
    <2>1. RotatedResult(p, kp[p]) \in Status
        <3>1. kp[p] \in Keys
            BY <1>7 DEF Persist
        <3>2. keyID[kp[p]] \in KeyIDs \cup {NoID} /\ now \in 0..MaxTime
            BY <3>1
        <3>3. QED BY <3>1, <3>2, RecordTypes DEF RotatedResult
    <2>2. WriteSecret(p, kp[p]) \in [SecretNames -> [owner : Profiles \cup {NoProfile},
                                                     key : Keys \cup {NoKey}]]
        BY DEF WriteSecret
    <2>3. Wipe(kp[p]) \subseteq Keys
        BY DEF Wipe
    <2>4. CASE CanWriteSecret(p) /\ secret' = WriteSecret(p, kp[p])
                /\ pc' = [pc EXCEPT ![p] = "status"]
                /\ res' = [res EXCEPT ![p] = RotatedResult(p, kp[p])]
        BY <1>7, <2>1, <2>2, <2>3, <2>4 DEF Persist
    <2>5. CASE pc' = [pc EXCEPT ![p] = "idle"] /\ UNCHANGED <<secret, res>>
        BY <1>7, <2>3, <2>5 DEF Persist
    <2>6. QED BY <1>7, <2>4, <2>5 DEF Persist
<1>8. ASSUME NEW p \in Profiles, UpdateStatus(p) PROVE TypeInv'
    BY <1>8 DEF UpdateStatus
<1>9. ASSUME NEW p \in Profiles, CacheSync(p) PROVE TypeInv'
    BY <1>9 DEF CacheSync
<1>10. CASE Tick
    BY <1>10 DEF Tick
<1>11. CASE Crash
    BY <1>11 DEF Crash
<1>12. CASE UNCHANGED vars
    BY <1>12 DEF vars
<1>13. QED BY <1>1, <1>2, <1>3, <1>4, <1>5, <1>6, <1>7, <1>8, <1>9, <1>10,
              <1>11, <1>12 DEF Next

(* Type correctness of the whole model: every variable keeps its type in  *)
(* every reachable state of the reconciler, the clock and crashes.         *)
THEOREM TypeCorrect == Spec => []TypeOK
<1>1. Init => TypeInv
    BY InitStatusType DEF Init, TypeInv, TypeOK, NoKey, NoID, Keys, KeyIDs
<1>2. TypeInv => TypeOK
    BY DEF TypeInv
<1>3. QED BY <1>1, <1>2, TypeInvStep, PTL DEF Spec
-----------------------------------------------------------------------------
(* FilesystemPublisher's rename over {KeyID}.pub: writing a key with an ID *)
(* leaves every other key with a distinct ID where it was.                 *)
LEMMA WriteKeepsOthers ==
    ASSUME TypeOK, KeyIDsDistinct,
           NEW t \in Targets, NEW k0 \in Keys, keyID[k0] # NoID,
           NEW x \in Keys, keyID[x] # NoID,
           NEW t2 \in Targets, published[t2][keyID[x]] = x
    PROVE  WriteKeyFile(t, k0)[t2][keyID[x]] = x
<1>1. CASE x = k0
    BY <1>1 DEF WriteKeyFile, TypeOK
<1>2. CASE x # k0
    <2>1. keyID[x] # keyID[k0]
        BY <1>2 DEF KeyIDsDistinct
    <2>2. QED BY <2>1 DEF WriteKeyFile, TypeOK, KeyIDs, NoID
<1>3. QED BY <1>1, <1>2

(* The same for every announced key: a publish of a key with a fresh ID    *)
(* never unpublishes another.                                              *)
LEMMA WriteKeepsAnnounced ==
    ASSUME TypeOK, KeyIDsDistinct,
           NEW t \in Targets, NEW k0 \in Keys, keyID[k0] # NoID,
           NEW q \in Profiles, NEW x \in Keys \cup {NoKey}, Announced(x, q)
    PROVE  x # NoKey =>
              \A i \in 1..Len(TargetsOf[q]) :
                 WriteKeyFile(t, k0)[TargetsOf[q][i]][keyID[x]] = x
<1> SUFFICES ASSUME x # NoKey, NEW i \in 1..Len(TargetsOf[q])
             PROVE  WriteKeyFile(t, k0)[TargetsOf[q][i]][keyID[x]] = x
    OBVIOUS
<1>1. x \in Keys /\ keyID[x] # NoID
    BY DEF Announced, NoKey, Keys
<1>2. TargetsOf[q][i] \in Targets /\ published[TargetsOf[q][i]][keyID[x]] = x
    BY TargetOfPublish DEF Announced, PublishedEverywhere
<1>3. QED BY <1>1, <1>2, WriteKeepsOthers

-----------------------------------------------------------------------------
(* A step that touches neither the key IDs nor the target files keeps      *)
(* every key announced that was.                                           *)
LEMMA AnnouncedUnchanged ==
    ASSUME UNCHANGED <<keyID, published>>, NEW x, NEW q
    PROVE  Announced(x, q)' <=> Announced(x, q)
BY DEF Announced, PublishedEverywhere

(* A step that generates no key, publishes nothing and writes no Secret    *)
(* keeps the global part of IInv.                                          *)
LEMMA GlobalUnchanged ==
    ASSUME KeyIDsDistinct, UngeneratedHaveNoID, SecretsAnnounced,
           UNCHANGED <<keyID, published, secret, nextKey>>
    PROVE  KeyIDsDistinct' /\ UngeneratedHaveNoID' /\ SecretsAnnounced'
<1>1. KeyIDsDistinct' /\ UngeneratedHaveNoID'
    BY DEF KeyIDsDistinct, UngeneratedHaveNoID
<1>2. SecretsAnnounced'
    BY AnnouncedUnchanged DEF SecretsAnnounced
<1>3. QED BY <1>1, <1>2

(* A step that changes nothing keeps IInv.                                 *)
LEMMA StutterKeepsIInv ==
    ASSUME IInv, UNCHANGED vars
    PROVE  IInv'
<1>1. UNCHANGED <<keyID, published, secret, nextKey, status, cache, res,
                  pc, kp, tgt, pubErr>>
    BY DEF vars
<1>2. TypeOK'
    BY <1>1 DEF vars, IInv, TypeOK
<1>3. KeyIDsDistinct' /\ UngeneratedHaveNoID' /\ SecretsAnnounced'
    BY <1>1, GlobalUnchanged DEF IInv
<1>4. ASSUME NEW q \in Profiles PROVE ProfileAnnounced(q)'
    <2>1. ProfileAnnounced(q)
        BY DEF IInv
    <2>2. QED BY <1>1, <2>1 DEF ProfileAnnounced, Announced,
                                PublishedEverywhere
<1>5. QED BY <1>2, <1>3, <1>4 DEF IInv

(* IInv is preserved by every step when generateKeyID never repeats an ID. *)
LEMMA IInvStep ==
    ASSUME UniqueKeyIDs
    PROVE  IInv /\ [Next]_vars => IInv'
<1> SUFFICES ASSUME IInv, [Next]_vars PROVE IInv'
    OBVIOUS
<1>0. TypeOK' /\ \A p \in Profiles : pc'[p] = "publish" => kp'[p] \in Keys
    <2>1. TypeInv
        BY DEF IInv, ProfileAnnounced, TypeInv
    <2>2. QED BY <2>1, TypeInvStep DEF TypeInv
<1> USE DEF IInv
<1>1. ASSUME NEW p \in Profiles, ReconcileNoRotation(p) PROVE IInv'
    <2>1. KeyIDsDistinct' /\ UngeneratedHaveNoID' /\ SecretsAnnounced'
        BY <1>1, GlobalUnchanged DEF ReconcileNoRotation
    <2>2. ASSUME NEW q \in Profiles PROVE ProfileAnnounced(q)'
        <3>1. CASE q = p
            <4>1. res'[q].fp = cache[q].fp /\ pc'[q] = "status"
                BY <1>1, <3>1 DEF ReconcileNoRotation, TypeOK
            <4>2. QED BY <1>1, <3>1, <4>1, AnnouncedUnchanged
                      DEF ReconcileNoRotation, ProfileAnnounced
        <3>2. CASE q # p
            BY <1>1, <3>2, AnnouncedUnchanged
               DEF ReconcileNoRotation, ProfileAnnounced, TypeOK
        <3>3. QED BY <3>1, <3>2
    <2>3. QED BY <1>0, <2>1, <2>2
<1>2. ASSUME NEW p \in Profiles, GenerateFails(p) PROVE IInv'
    <2>1. UNCHANGED vars
        BY <1>2 DEF GenerateFails
    <2>2. QED BY <2>1, StutterKeepsIInv
<1>3. ASSUME NEW p \in Profiles, GenerateLeaks(p) PROVE IInv'
    <2>1. keyID' = keyID /\ nextKey' = nextKey + 1 /\ nextKey \in Nat
        BY <1>3 DEF GenerateLeaks, TypeOK
    <2>5. KeyIDsDistinct' /\ UngeneratedHaveNoID'
        BY <2>1 DEF KeyIDsDistinct, UngeneratedHaveNoID, Keys
    <2>2. SecretsAnnounced'
        BY <1>3, AnnouncedUnchanged DEF GenerateLeaks, SecretsAnnounced
    <2>3. ASSUME NEW q \in Profiles PROVE ProfileAnnounced(q)'
        BY <1>3, AnnouncedUnchanged DEF GenerateLeaks, ProfileAnnounced
    <2>4. QED BY <1>0, <2>5, <2>2, <2>3
<1>4. ASSUME NEW p \in Profiles, GenerateOK(p) PROVE IInv'
    <2> DEFINE k == nextKey + 1
    <2>1. PICK id \in FreshKeyIDs : keyID' = [keyID EXCEPT ![k] = id]
        BY <1>4 DEF GenerateOK
    <2>2. /\ k \in Keys
          /\ keyID[k] = NoID
          /\ id \in KeyIDs
          /\ \A j \in Keys : keyID[j] # id
        BY <1>4, <2>1 DEF GenerateOK, FreshKeyIDs, UngeneratedHaveNoID,
                          TypeOK, Keys
    <2>3. \A x \in Keys : keyID[x] # NoID => keyID'[x] = keyID[x]
        BY <2>1, <2>2 DEF TypeOK
    <2>4. \A x \in Keys \cup {NoKey}, q \in Profiles :
             Announced(x, q) => Announced(x, q)'
        BY <1>4, <2>3 DEF GenerateOK, Announced, PublishedEverywhere, NoKey,
                          Keys
    <2>5. KeyIDsDistinct'
        <3> SUFFICES ASSUME NEW k1 \in Keys, NEW k2 \in Keys, k1 # k2,
                            keyID'[k1] # NoID
                     PROVE  keyID'[k1] # keyID'[k2]
            BY DEF KeyIDsDistinct
        <3>1. CASE k1 = k
            BY <2>1, <2>2, <3>1 DEF TypeOK
        <3>2. CASE k2 = k
            BY <2>1, <2>2, <3>2 DEF TypeOK
        <3>3. CASE k1 # k /\ k2 # k
            BY <2>1, <2>2, <3>3 DEF TypeOK, KeyIDsDistinct
        <3>4. QED BY <3>1, <3>2, <3>3
    <2>6. UngeneratedHaveNoID'
        BY <1>4, <2>1, <2>2 DEF GenerateOK, UngeneratedHaveNoID, TypeOK, Keys
    <2>7. SecretsAnnounced'
        BY <1>4, <2>4 DEF GenerateOK, SecretsAnnounced, TypeOK
    <2>8. ASSUME NEW q \in Profiles PROVE ProfileAnnounced(q)'
        <3>1. /\ Announced(status[q].fp, q)' /\ Announced(cache[q].fp, q)'
              /\ pc[q] = "status" => Announced(res[q].fp, q)'
            BY <1>4, <2>4 DEF GenerateOK, ProfileAnnounced, TypeOK, Status,
                              StatusRec
        <3>2. CASE q = p
            <4>1. pc'[q] = "publish" /\ kp'[q] = k /\ tgt'[q] = 1
                BY <1>4, <3>2 DEF GenerateOK, TypeOK
            <4>2. keyID'[k] = id /\ Len(TargetsOf[q]) \in Nat
                BY <2>1, <2>2 DEF TypeOK
            <4>3. status' = status /\ cache' = cache
                BY <1>4 DEF GenerateOK
            <4>4. keyID'[kp'[q]] # NoID /\ tgt'[q] <= Len(TargetsOf[q]) + 1
                BY <4>1, <4>2, <2>2 DEF KeyIDs, NoID
            <4>5. kp'[q] \in Keys /\ pc'[q] # "status"
                BY <4>1, <2>2
            <4>6. \A i \in 1..(tgt'[q] - 1) :
                     published'[TargetsOf[q][i]][keyID'[kp'[q]]] = kp'[q]
                BY <4>1
            <4>7. QED BY <3>1, <4>3, <4>4, <4>5, <4>6, Zenon DEF ProfileAnnounced
        <3>3. CASE q # p
            <4>1. pc[q] = "publish" => keyID'[kp[q]] = keyID[kp[q]]
                <5>1. ProfileAnnounced(q)
                    OBVIOUS
                <5>2. QED BY <5>1, <2>3 DEF ProfileAnnounced
            <4>2. /\ status' = status /\ cache' = cache /\ res' = res
                  /\ published' = published
                  /\ pc'[q] = pc[q] /\ kp'[q] = kp[q] /\ tgt'[q] = tgt[q]
                  /\ pubErr'[q] = pubErr[q]
                BY <1>4, <3>3 DEF GenerateOK, TypeOK
            <4>3. ProfileAnnounced(q)
                OBVIOUS
            <4>4. QED BY <3>1, <4>1, <4>2, <4>3 DEF ProfileAnnounced
        <3>4. QED BY <3>2, <3>3
    <2>9. QED BY <1>0, <2>5, <2>6, <2>7, <2>8
<1>5. ASSUME NEW p \in Profiles, Publish(p) PROVE IInv'
    <2> DEFINE t == TargetsOf[p][tgt[p]]
    <2>1. /\ pc[p] = "publish" /\ tgt[p] \in 1..Len(TargetsOf[p])
          /\ t \in Targets /\ kp[p] \in Keys /\ keyID[kp[p]] # NoID
          /\ \/ published' = WriteKeyFile(t, kp[p])
             \/ published' = published
          /\ keyID' = keyID
        <3>1. ProfileAnnounced(p)
            OBVIOUS
        <3>2. QED BY <1>5, <3>1, TargetOfPublish
                  DEF Publish, ProfileAnnounced, TypeOK
    <2>2. ASSUME NEW x \in Keys, keyID[x] # NoID,
                 NEW t2 \in Targets, published[t2][keyID[x]] = x
          PROVE  published'[t2][keyID[x]] = x
        <3>1. CASE published' = WriteKeyFile(t, kp[p])
            <4>0. TypeOK /\ KeyIDsDistinct
                BY DEF IInv
            <4>a. t \in Targets /\ kp[p] \in Keys /\ keyID[kp[p]] # NoID
                BY <2>1
            <4>1. WriteKeyFile(t, kp[p])[t2][keyID[x]] = x
                BY <2>2, <4>0, <4>a, WriteKeepsOthers
            <4>2. QED BY <3>1, <4>1
        <3>2. CASE published' = published
            BY <2>2, <3>2
        <3>3. QED BY <2>1, <3>1, <3>2
    <2>3. \A x \in Keys \cup {NoKey}, q \in Profiles :
             Announced(x, q) => Announced(x, q)'
        BY <2>1, <2>2, TargetOfPublish
           DEF Announced, PublishedEverywhere, NoKey, Keys
    <2>4. KeyIDsDistinct' /\ UngeneratedHaveNoID'
        BY <1>5, <2>1 DEF Publish, KeyIDsDistinct, UngeneratedHaveNoID
    <2>5. SecretsAnnounced'
        BY <1>5, <2>3 DEF Publish, SecretsAnnounced, TypeOK
    <2>6. ASSUME NEW q \in Profiles PROVE ProfileAnnounced(q)'
        <3>1. ProfileAnnounced(q)
            OBVIOUS
        <3>2. /\ status' = status /\ cache' = cache /\ res' = res
              /\ pc' = pc /\ kp' = kp
            BY <1>5 DEF Publish
        <3>3. /\ Announced(status[q].fp, q)' /\ Announced(cache[q].fp, q)'
              /\ pc[q] = "status" => Announced(res[q].fp, q)'
            <4>1. /\ status[q].fp \in Keys \cup {NoKey}
                  /\ cache[q].fp \in Keys \cup {NoKey}
                  /\ res[q].fp \in Keys \cup {NoKey}
                BY DEF TypeOK, Status, StatusRec
            <4>2. QED BY <2>3, <3>1, <3>2, <4>1 DEF ProfileAnnounced
        <3>4. CASE q = p
            <4>1. tgt'[q] = tgt[q] + 1 /\ tgt'[q] <= Len(TargetsOf[q]) + 1
                BY <1>5, <2>1, <3>4 DEF Publish, TypeOK
            <4>2. ~pubErr'[q] =>
                     /\ ~pubErr[q]
                     /\ published' = WriteKeyFile(t, kp[p])
                BY <1>5, <3>4 DEF Publish, TypeOK
            <4>3. ASSUME ~pubErr'[q], NEW i \in 1..(tgt'[q] - 1)
                  PROVE  published'[TargetsOf[q][i]][keyID[kp[q]]] = kp[q]
                <5>1. CASE i = tgt[q]
                    BY <2>1, <3>4, <4>2, <4>3, <5>1 DEF WriteKeyFile, TypeOK
                <5>2. CASE i < tgt[q]
                    <6>1. TargetsOf[q][i] \in Targets
                        BY <2>1, <3>4, <5>2, <4>3, TargetOfPublish
                    <6>2. published[TargetsOf[q][i]][keyID[kp[q]]] = kp[q]
                        <7>1. pc[q] = "publish" /\ ~pubErr[q]
                            BY <2>1, <3>4, <4>2, <4>3
                        <7>2. \A j \in 1..(tgt[q] - 1) :
                                 published[TargetsOf[q][j]][keyID[kp[q]]] = kp[q]
                            BY <3>1, <7>1 DEF ProfileAnnounced
                        <7>3. i \in 1..(tgt[q] - 1)
                            BY <2>1, <3>4, <4>3, <5>2
                        <7>4. QED BY <7>2, <7>3
                    <6>3. kp[q] \in Keys /\ keyID[kp[q]] # NoID
                        BY <2>1, <3>4
                    <6>4. QED BY <2>2, <6>1, <6>2, <6>3
                <5>3. QED BY <2>1, <4>1, <4>3, <5>1, <5>2 DEF TypeOK
            <4>4. QED BY <2>1, <3>2, <3>3, <3>4, <4>1, <4>3 DEF ProfileAnnounced
        <3>5. CASE q # p
            <4>1. tgt'[q] = tgt[q] /\ pubErr'[q] = pubErr[q]
                BY <1>5, <3>5 DEF Publish, TypeOK
            <4>2. pc[q] = "publish" /\ ~pubErr[q] =>
                     \A i \in 1..(tgt[q] - 1) :
                        published'[TargetsOf[q][i]][keyID[kp[q]]] = kp[q]
                <5>1. SUFFICES ASSUME pc[q] = "publish", ~pubErr[q],
                                      NEW i \in 1..(tgt[q] - 1)
                               PROVE  published'[TargetsOf[q][i]][keyID[kp[q]]]
                                        = kp[q]
                    OBVIOUS
                <5>2. /\ kp[q] \in Keys /\ keyID[kp[q]] # NoID
                      /\ tgt[q] <= Len(TargetsOf[q]) + 1
                      /\ published[TargetsOf[q][i]][keyID[kp[q]]] = kp[q]
                    BY <3>1, <5>1 DEF ProfileAnnounced
                <5>3. i \in 1..Len(TargetsOf[q])
                    BY <5>1, <5>2 DEF TypeOK
                <5>4. TargetsOf[q][i] \in Targets
                    BY <5>3, TargetOfPublish
                <5>5. QED BY <2>2, <5>2, <5>4
            <4>3. QED BY <2>1, <3>1, <3>2, <3>3, <4>1, <4>2 DEF ProfileAnnounced
        <3>6. QED BY <3>4, <3>5
    <2>7. QED BY <1>0, <2>4, <2>5, <2>6
<1>7. ASSUME NEW p \in Profiles, Persist(p) PROVE IInv'
    <2> DEFINE k == kp[p]
    <2>1. Announced(k, p) /\ k \in Keys
        <3>1. ProfileAnnounced(p)
            OBVIOUS
        <3>2. /\ pc[p] = "publish" /\ tgt[p] > Len(TargetsOf[p])
              /\ ~pubErr[p]
            BY <1>7 DEF Persist, PublishAllSucceeded
        <3>3. /\ k \in Keys /\ keyID[k] # NoID
              /\ \A i \in 1..(tgt[p] - 1) :
                    published[TargetsOf[p][i]][keyID[k]] = k
            BY <3>1, <3>2 DEF ProfileAnnounced
        <3>4. tgt[p] \in Nat /\ Len(TargetsOf[p]) \in Nat
            BY <3>2 DEF TypeOK
        <3>5. PublishedEverywhere(k, p)
            BY <3>2, <3>3, <3>4 DEF PublishedEverywhere
        <3>6. QED BY <3>3, <3>5 DEF Announced, NoKey, Keys
    <2>2. /\ UNCHANGED <<keyID, published, nextKey, status, cache>>
          /\ \/ /\ secret' = WriteSecret(p, k)
                /\ pc' = [pc EXCEPT ![p] = "status"]
                /\ res' = [res EXCEPT ![p] = RotatedResult(p, k)]
             \/ /\ pc' = [pc EXCEPT ![p] = "idle"]
                /\ UNCHANGED <<secret, res>>
        BY <1>7 DEF Persist
    <2>3. KeyIDsDistinct' /\ UngeneratedHaveNoID'
        BY <2>2 DEF KeyIDsDistinct, UngeneratedHaveNoID
    <2>4. SecretsAnnounced'
        <3> SUFFICES ASSUME NEW s \in SecretNames, secret'[s].key # NoKey
                     PROVE  (/\ secret[s].owner \in Profiles
                             /\ Announced(secret[s].key, secret[s].owner))'
            BY DEF SecretsAnnounced
        <3> USE DEF Announced, PublishedEverywhere
        <3>1. CASE secret' = WriteSecret(p, k) /\ s = SecretOf[p]
            <4>1. secret'[s].owner = p /\ secret'[s].key = k
                BY <3>1 DEF WriteSecret, TypeOK
            <4>2. keyID' = keyID /\ published' = published
                BY <2>2
            <4>3. QED BY <2>1, <4>1, <4>2, SMTT(30)
        <3>2. CASE secret' = WriteSecret(p, k) /\ s # SecretOf[p]
            <4>1. secret'[s] = secret[s]
                BY <3>2 DEF WriteSecret, TypeOK
            <4>2. QED BY <2>2, <4>1 DEF SecretsAnnounced
        <3>3. CASE secret' = secret
            BY <2>2, <3>3 DEF SecretsAnnounced
        <3>4. QED BY <2>2, <3>1, <3>2, <3>3
    <2>5. ASSUME NEW q \in Profiles PROVE ProfileAnnounced(q)'
        <3>1. ProfileAnnounced(q)
            OBVIOUS
        <3>2. /\ Announced(status[q].fp, q)' /\ Announced(cache[q].fp, q)'
            BY <2>2, <3>1 DEF ProfileAnnounced, Announced, PublishedEverywhere
        <3>3. UNCHANGED <<kp, tgt, pubErr>>
            BY <1>7 DEF Persist
        <3>4. CASE q = p
            <4>1. pc'[q] # "publish"
                BY <2>2, <3>4 DEF TypeOK
            <4>2. (pc[q] = "status" => Announced(res[q].fp, q))'
                <5>1. CASE res' = [res EXCEPT ![p] = RotatedResult(p, k)]
                    <6>1. res'[q].fp = k
                        BY <3>4, <5>1 DEF RotatedResult, TypeOK
                    <6>2. QED BY <2>1, <2>2, <3>4, <6>1
                              DEF Announced, PublishedEverywhere
                <5>2. CASE pc' = [pc EXCEPT ![p] = "idle"]
                    BY <3>4, <5>2 DEF TypeOK
                <5>3. QED BY <2>2, <5>1, <5>2
            <4>3. QED BY <3>2, <4>1, <4>2 DEF ProfileAnnounced
        <3>5. CASE q # p
            <4>1. pc'[q] = pc[q] /\ res'[q] = res[q]
                BY <2>2, <3>5 DEF TypeOK
            <4>2. (pc[q] = "status" => Announced(res[q].fp, q))'
                BY <2>2, <3>1, <4>1
                   DEF ProfileAnnounced, Announced, PublishedEverywhere
            <4>3. (pc[q] = "publish" =>
                      /\ kp[q] \in Keys
                      /\ keyID[kp[q]] # NoID
                      /\ tgt[q] <= Len(TargetsOf[q]) + 1
                      /\ ~pubErr[q] =>
                            \A i \in 1..(tgt[q] - 1) :
                                published[TargetsOf[q][i]][keyID[kp[q]]] = kp[q])'
                BY <2>2, <3>1, <3>3, <4>1 DEF ProfileAnnounced
            <4>4. QED BY <3>2, <4>2, <4>3 DEF ProfileAnnounced
        <3>6. QED BY <3>4, <3>5
    <2>6. QED BY <1>0, <2>3, <2>4, <2>5
<1>6. ASSUME NEW p \in Profiles, PublishFailed(p) PROVE IInv'
    <2>1. KeyIDsDistinct' /\ UngeneratedHaveNoID' /\ SecretsAnnounced'
        BY <1>6, GlobalUnchanged DEF PublishFailed
    <2>2. ASSUME NEW q \in Profiles PROVE ProfileAnnounced(q)'
        BY <1>6, AnnouncedUnchanged DEF PublishFailed, ProfileAnnounced, TypeOK
    <2>3. QED BY <1>0, <2>1, <2>2
<1>8. ASSUME NEW p \in Profiles, UpdateStatus(p) PROVE IInv'
    <2>1. KeyIDsDistinct' /\ UngeneratedHaveNoID' /\ SecretsAnnounced'
        BY <1>8, GlobalUnchanged DEF UpdateStatus
    <2>2. /\ UNCHANGED <<keyID, published, cache, kp, tgt, pubErr, res>>
          /\ pc' = [pc EXCEPT ![p] = "idle"]
          /\ \/ status' = [status EXCEPT ![p] = res[p]] /\ pc[p] = "status"
             \/ status' = status
        BY <1>8 DEF UpdateStatus
    <2>3. ASSUME NEW q \in Profiles PROVE ProfileAnnounced(q)'
        <3>1. ProfileAnnounced(q) /\ ProfileAnnounced(p)
            OBVIOUS
        <3>2. status'[q] = status[q] \/ (q = p /\ status'[q] = res[p]
                                         /\ pc[p] = "status")
            BY <2>2 DEF TypeOK
        <3>3. Announced(status[q].fp, q)'
            <4>1. CASE status'[q] = status[q]
                BY <2>2, <3>1, <4>1
                   DEF ProfileAnnounced, Announced, PublishedEverywhere
            <4>2. CASE q = p /\ status'[q] = res[p] /\ pc[p] = "status"
                <5>1. Announced(res[p].fp, p)
                    BY <3>1, <4>2 DEF ProfileAnnounced
                <5>2. QED BY <2>2, <4>2, <5>1 DEF Announced, PublishedEverywhere
            <4>3. QED BY <3>2, <4>1, <4>2
        <3>4. pc'[q] # "publish" \/ pc'[q] = pc[q]
            BY <2>2 DEF TypeOK
        <3>5. pc'[q] = "status" => pc[q] = "status"
            BY <2>2 DEF TypeOK
        <3>6. QED BY <2>2, <3>1, <3>3, <3>4, <3>5
                  DEF ProfileAnnounced, Announced, PublishedEverywhere
    <2>4. QED BY <1>0, <2>1, <2>3
<1>9. ASSUME NEW p \in Profiles, CacheSync(p) PROVE IInv'
    <2>1. KeyIDsDistinct' /\ UngeneratedHaveNoID' /\ SecretsAnnounced'
        BY <1>9, GlobalUnchanged DEF CacheSync
    <2>2. ASSUME NEW q \in Profiles PROVE ProfileAnnounced(q)'
        BY <1>9, AnnouncedUnchanged DEF CacheSync, ProfileAnnounced, TypeOK
    <2>3. QED BY <1>0, <2>1, <2>2
<1>10. CASE Tick
    <2>1. KeyIDsDistinct' /\ UngeneratedHaveNoID' /\ SecretsAnnounced'
        BY <1>10, GlobalUnchanged DEF Tick
    <2>2. ASSUME NEW q \in Profiles PROVE ProfileAnnounced(q)'
        BY <1>10, AnnouncedUnchanged DEF Tick, ProfileAnnounced
    <2>3. QED BY <1>0, <2>1, <2>2
<1>11. CASE Crash
    <2>1. KeyIDsDistinct' /\ UngeneratedHaveNoID' /\ SecretsAnnounced'
        BY <1>11, GlobalUnchanged DEF Crash
    <2>2. /\ UNCHANGED <<keyID, published, status, res>>
          /\ cache' = status
          /\ pc' = [q \in Profiles |-> "idle"]
        BY <1>11 DEF Crash
    <2>3. ASSUME NEW q \in Profiles PROVE ProfileAnnounced(q)'
        <3>1. ProfileAnnounced(q)
            OBVIOUS
        <3>2. Announced(status[q].fp, q)' /\ Announced(cache[q].fp, q)'
            BY <2>2, <3>1 DEF ProfileAnnounced, Announced, PublishedEverywhere
        <3>3. pc'[q] = "idle"
            BY <2>2
        <3>4. QED BY <3>2, <3>3 DEF ProfileAnnounced
    <2>4. QED BY <1>0, <2>1, <2>3
<1>12. CASE UNCHANGED vars
    BY <1>12, StutterKeepsIInv
<1>13. QED BY <1>1, <1>2, <1>3, <1>4, <1>5, <1>6, <1>7, <1>8, <1>9, <1>10,
              <1>11, <1>12 DEF Next

(* The strengthening holds in the initial state: no key exists yet.        *)
LEMMA IInvInit == Init => IInv
<1> SUFFICES ASSUME Init PROVE IInv
    OBVIOUS
<1>1. TypeOK
    BY InitStatusType DEF Init, TypeOK, NoKey, NoID, Keys, KeyIDs
<1>2. KeyIDsDistinct /\ UngeneratedHaveNoID
    BY DEF Init, KeyIDsDistinct, UngeneratedHaveNoID
<1>3. SecretsAnnounced /\ \A p \in Profiles : ProfileAnnounced(p)
    BY DEF Init, SecretsAnnounced, ProfileAnnounced, Announced, InitStatus
<1>4. QED BY <1>1, <1>2, <1>3 DEF IInv

(* The strengthening implies the key invariant.                            *)
LEMMA IInvImpliesPublishBeforeDistribute == IInv => PublishBeforeDistribute
BY DEF IInv, SecretsAnnounced, ProfileAnnounced, Announced,
       PublishBeforeDistribute

(* The whole strengthening is an invariant when generateKeyID never       *)
(* repeats: KeyIDs of generated keys stay distinct, and every key that a  *)
(* Secret, a stored or cached status or a pending RotationResult names,   *)
(* and every key an error-free PublishAll has passed a target with, is in *)
(* place at those targets, through crashes, stale caches and failures.    *)
THEOREM IInvHolds ==
    ASSUME UniqueKeyIDs
    PROVE  Spec => []IInv
BY IInvInit, IInvStep, PTL DEF Spec

(* Key invariant of EnsureKey ("public key published before private key    *)
(* distributed"), for every number of profiles, Secrets and targets: when  *)
(* generateKeyID never repeats an ID, every key in a Secret and every key a *)
(* KeyProfile status announces is at every publish target of its profile   *)
(* under its KeyID, whatever the crashes, stale caches, conflicts and      *)
(* publish failures.                                                       *)
THEOREM PublishBeforeDistributeHolds ==
    ASSUME UniqueKeyIDs
    PROVE  Spec => []PublishBeforeDistribute
<1>1. Init => IInv
    BY IInvInit
<1>2. IInv /\ [Next]_vars => IInv'
    BY IInvStep
<1>3. QED BY <1>1, <1>2, IInvImpliesPublishBeforeDistribute, PTL DEF Spec

=============================================================================

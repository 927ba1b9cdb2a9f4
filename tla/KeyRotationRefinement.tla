------------------------ MODULE KeyRotationRefinement ------------------------
(***************************************************************************)
(* The controller implements KeyDistribution under the mapping availBar,   *)
(* secret, currentBar of KeyRotation, when generateKeyID never repeats an  *)
(* ID.  The proof rests on the inductive invariant IInv of                 *)
(* KeyRotationProofs: every in-flight PublishAll without error has put its *)
(* key at the targets it passed, so the Secret write after it installs an  *)
(* available key, and a pending result names an available key.            *)
(***************************************************************************)
EXTENDS KeyRotationProofs

USE ConstantsAssumption

(* A step that changes no KeyID and no target file keeps availability.    *)
LEMMA AvailUnchanged ==
    ASSUME UNCHANGED <<keyID, published>>
    PROVE  availBar' = availBar
BY DEF availBar, PublishedEverywhere

(* A step of KeyRotation that touches no key ID, target file, Secret or    *)
(* status is a stuttering step of KeyDistribution.                         *)
LEMMA QuietStep ==
    ASSUME UNCHANGED <<keyID, published, secret, status>>
    PROVE  UNCHANGED <<availBar, secret, currentBar>>
BY AvailUnchanged DEF currentBar

(* Publishing a key or giving a new key its ID keeps every available key   *)
(* available, given that the key IDs of generated keys are distinct.       *)
LEMMA AvailGrows ==
    ASSUME TypeOK, TypeOK',
           \A x \in Keys : keyID[x] # NoID => keyID'[x] = keyID[x],
           \A x \in Keys, t \in Targets :
              keyID[x] # NoID /\ published[t][keyID[x]] = x =>
                  published'[t][keyID[x]] = x
    PROVE  \A q \in Profiles : availBar[q] \subseteq availBar'[q]
<1> SUFFICES ASSUME NEW q \in Profiles, NEW x \in availBar[q]
             PROVE  x \in availBar'[q]
    OBVIOUS
<1>1. x \in Keys /\ keyID[x] # NoID /\ PublishedEverywhere(x, q)
    BY DEF availBar
<1>2. keyID'[x] = keyID[x]
    BY <1>1
<1>3. \A i \in 1..Len(TargetsOf[q]) :
          published'[TargetsOf[q][i]][keyID[x]] = x
    BY <1>1, TargetOfPublish DEF PublishedEverywhere
<1>4. QED BY <1>1, <1>2, <1>3 DEF availBar, PublishedEverywhere

(* The step GenerateOK(p) of the controller is a MakeAvailable step: the   *)
(* new key had no ID, so no available key changes.                        *)
LEMMA GenerateOKRefines ==
    ASSUME IInv, IInv', NEW p \in Profiles, GenerateOK(p)
    PROVE  KD!MakeAvailable
<1>1. nextKey + 1 \in Keys /\ keyID[nextKey + 1] = NoID
    BY DEF GenerateOK, IInv, TypeOK, UngeneratedHaveNoID, Keys
<1>2. keyID' = [keyID EXCEPT ![nextKey + 1] = keyID'[nextKey + 1]]
    BY DEF GenerateOK, IInv, TypeOK
<1>3. \A x \in Keys : keyID[x] # NoID => keyID'[x] = keyID[x]
    BY <1>1, <1>2 DEF IInv, TypeOK
<1>4. UNCHANGED <<published, secret, status>>
    BY DEF GenerateOK
<1>5. \A q \in Profiles : availBar[q] \subseteq availBar'[q]
    BY <1>3, <1>4, AvailGrows DEF IInv
<1>6. availBar' \in [Profiles -> SUBSET Keys]
    BY DEF availBar
<1>7. QED BY <1>4, <1>5, <1>6 DEF KD!MakeAvailable, currentBar

(* One iteration of PublishAll is a MakeAvailable step: the file it       *)
(* writes carries a fresh KeyID, so no other key's file is replaced.       *)
LEMMA PublishRefines ==
    ASSUME IInv, IInv', NEW p \in Profiles, Publish(p)
    PROVE  KD!MakeAvailable
<1>0. TypeOK /\ KeyIDsDistinct /\ ProfileAnnounced(p)
    BY DEF IInv
<1>1. DEFINE t == TargetsOf[p][tgt[p]]
<1>2. t \in Targets /\ kp[p] \in Keys /\ keyID[kp[p]] # NoID
    <2>1. tgt[p] \in 1..Len(TargetsOf[p])
        BY <1>0 DEF Publish, TypeOK
    <2>2. kp[p] \in Keys /\ keyID[kp[p]] # NoID
        BY <1>0 DEF Publish, ProfileAnnounced
    <2>3. QED BY <2>1, <2>2, TargetOfPublish
<1>3. published' = WriteKeyFile(t, kp[p]) \/ published' = published
    BY DEF Publish
<1>4. \A x \in Keys, t2 \in Targets :
          keyID[x] # NoID /\ published[t2][keyID[x]] = x =>
              published'[t2][keyID[x]] = x
    BY <1>0, <1>2, <1>3, WriteKeepsOthers
<1>5. UNCHANGED <<keyID, secret, status>>
    BY DEF Publish
<1>6. \A q \in Profiles : availBar[q] \subseteq availBar'[q]
    BY <1>4, <1>5, AvailGrows DEF IInv
<1>7. availBar' \in [Profiles -> SUBSET Keys]
    BY DEF availBar
<1>8. QED BY <1>5, <1>6, <1>7 DEF KD!MakeAvailable, currentBar

(* A successful SecretWriter.Write is an Install step: the owner check    *)
(* passed, and PublishAll put the key at every target of the profile.     *)
LEMMA PersistRefines ==
    ASSUME IInv, NEW p \in Profiles, Persist(p), secret' # secret
    PROVE  KD!Install(SecretOf[p], p)
<1>0. TypeOK /\ ProfileAnnounced(p)
    BY DEF IInv
<1>1. CanWriteSecret(p) /\ secret' = WriteSecret(p, kp[p])
    BY DEF Persist
<1>2. kp[p] \in Keys /\ keyID[kp[p]] # NoID /\ tgt[p] = Len(TargetsOf[p]) + 1
      /\ ~pubErr[p]
    BY <1>0 DEF Persist, ProfileAnnounced, PublishAllSucceeded, TypeOK
<1>3. PublishedEverywhere(kp[p], p)
    BY <1>0, <1>2 DEF Persist, ProfileAnnounced, PublishedEverywhere
<1>4. kp[p] \in availBar[p]
    BY <1>2, <1>3 DEF availBar
<1>5. UNCHANGED <<keyID, published, status>>
    BY DEF Persist
<1>6. availBar' = availBar /\ currentBar' = currentBar
    BY <1>5, AvailUnchanged DEF currentBar
<1>7. secret[SecretOf[p]].owner \in {NoProfile, p}
    BY <1>1 DEF CanWriteSecret, OwnerOK
<1>8. QED BY <1>1, <1>4, <1>6, <1>7 DEF KD!Install, WriteSecret

(* A status write is an Announce step: the result names an available key  *)
(* or none.                                                                 *)
LEMMA UpdateStatusRefines ==
    ASSUME IInv, NEW p \in Profiles, UpdateStatus(p), status' # status
    PROVE  KD!Announce(p)
<1>0. TypeOK /\ ProfileAnnounced(p)
    BY DEF IInv
<1>1. status' = [status EXCEPT ![p] = res[p]] /\ pc[p] = "status"
    BY DEF UpdateStatus
<1>2. res[p].fp \in availBar[p] \cup {NoKey}
    BY <1>0, <1>1 DEF ProfileAnnounced, Announced, availBar, TypeOK, Status,
                      StatusRec
<1>3. currentBar' = [currentBar EXCEPT ![p] = res[p].fp]
    BY <1>0, <1>1 DEF currentBar, TypeOK
<1>4. UNCHANGED <<keyID, published, secret>>
    BY DEF UpdateStatus
<1>5. availBar' = availBar
    BY <1>4, AvailUnchanged
<1>6. QED BY <1>2, <1>3, <1>4, <1>5 DEF KD!Announce

(* Refinement theorem: when generateKeyID never repeats an ID, every      *)
(* behaviour of the controller, with its crashes, stale caches, conflicts  *)
(* and failing publishes, is a behaviour of KeyDistribution: published     *)
(* keys stay published, and Secrets and statuses receive only keys         *)
(* published to all of the profile's targets.                              *)
THEOREM Refinement ==
    ASSUME UniqueKeyIDs
    PROVE  Spec => KDSpec
<1>1. Init => KD!Init
    BY DEF Init, KD!Init, availBar, currentBar, InitStatus, NoID
<1>2. IInv /\ IInv' /\ [Next]_vars => [KD!Next]_<<availBar, secret, currentBar>>
    <2> SUFFICES ASSUME IInv, IInv', [Next]_vars
                 PROVE  [KD!Next]_<<availBar, secret, currentBar>>
        OBVIOUS
    <2>1. ASSUME NEW p \in Profiles,
                 \/ ReconcileNoRotation(p) \/ GenerateFails(p)
                 \/ GenerateLeaks(p) \/ PublishFailed(p) \/ CacheSync(p)
          PROVE  UNCHANGED <<availBar, secret, currentBar>>
        <3>a. UNCHANGED <<keyID, published, secret, status>>
            BY <2>1 DEF ReconcileNoRotation, GenerateFails, GenerateLeaks,
                        PublishFailed, CacheSync, vars
        <3>b. QED BY <3>a, QuietStep
    <2>2. CASE Tick \/ Crash \/ UNCHANGED vars
        <3>a. UNCHANGED <<keyID, published, secret, status>>
            BY <2>2 DEF Tick, Crash, vars
        <3>b. QED BY <3>a, QuietStep
    <2>3. ASSUME NEW p \in Profiles, GenerateOK(p) \/ Publish(p)
          PROVE  KD!MakeAvailable
        BY <2>3, GenerateOKRefines, PublishRefines
    <2>4. ASSUME NEW p \in Profiles, Persist(p)
          PROVE  [KD!Next]_<<availBar, secret, currentBar>>
        <3>1. CASE secret' = secret
            <4>1. UNCHANGED <<keyID, published, status>>
                BY <2>4 DEF Persist
            <4>2. QED BY <3>1, <4>1, QuietStep
        <3>2. CASE secret' # secret
            BY <2>4, <3>2, PersistRefines, ConstantsAssumption DEF KD!Next
        <3>3. QED BY <3>1, <3>2
    <2>5. ASSUME NEW p \in Profiles, UpdateStatus(p)
          PROVE  [KD!Next]_<<availBar, secret, currentBar>>
        <3>1. CASE status' = status
            <4>1. UNCHANGED <<keyID, published, secret>>
                BY <2>5 DEF UpdateStatus
            <4>2. QED BY <3>1, <4>1, QuietStep
        <3>2. CASE status' # status
            BY <2>5, <3>2, UpdateStatusRefines DEF KD!Next
        <3>3. QED BY <3>1, <3>2
    <2>6. QED BY <2>1, <2>2, <2>3, <2>4, <2>5 DEF Next, KD!Next
<1>3. Spec => []IInv
    <2>1. IInv /\ [Next]_vars => IInv'
        BY IInvStep
    <2>2. QED BY <2>1, IInvInit, PTL DEF Spec
<1>4. QED BY <1>1, <1>2, <1>3, PTL DEF Spec, KDSpec, KD!Spec, KD!avars

(* When generateKeyID never repeats an ID, no step of the controller (a    *)
(* publish of another profile to a shared target, a crash, a retry after   *)
(* a partial PublishAll) ever makes a key unavailable that had its KeyID   *)
(* and its {KeyID}.pub at every target of a profile: the abstract promise  *)
(* AvailNeverShrinks carried over by Refinement.                           *)
THEOREM PublishedKeysStayAvailable ==
    ASSUME UniqueKeyIDs
    PROVE  Spec => KD!AvailNeverShrinks
<1>1. [KD!Next]_KD!avars
        => [\A p \in Profiles : availBar[p] \subseteq availBar'[p]]_KD!avars
    BY DEF KD!Next, KD!MakeAvailable, KD!Install, KD!Announce, KD!avars
<1>2. QED BY <1>1, Refinement, PTL DEF KDSpec, KD!Spec, KD!AvailNeverShrinks
=============================================================================

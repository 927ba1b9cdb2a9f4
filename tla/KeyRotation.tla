----------------------------- MODULE KeyRotation -----------------------------
(***************************************************************************)
(* The key lifecycle of openUKR: the KeyProfile reconciler                 *)
(* (internal/controller/keyprofile_controller.go) calling                  *)
(* RotationManager.EnsureKey (pkg/rotation/manager.go), which decides,     *)
(* generates a key pair (pkg/crypto keygen), publishes the public key to   *)
(* every target (pkg/publish), persists the key pair to a Secret           *)
(* (pkg/output/writer.go) and wipes it; the reconciler then writes the     *)
(* KeyProfile status.                                                      *)
(*                                                                         *)
(* One reconcile is split at each call into the outside world (a publish   *)
(* to one target, the Secret write, the status write), because the         *)
(* controller may crash between them and reconciles of other profiles run  *)
(* in between.  Reconciles of one profile never overlap (controller-runtime *)
(* serialises them per object).                                            *)
(*                                                                         *)
(* Keys are the numbers 1..MaxKeys in order of generation; the             *)
(* fingerprint of key k is k itself (SHA-256 of the DER public key is      *)
(* injective for the model's purpose).                                     *)
(***************************************************************************)
EXTENDS Naturals, Sequences, FiniteSets, RotationSchedule, SecretRender

CONSTANTS
    Profiles,      \* KeyProfile objects (model values)
    SecretNames,   \* spec.output.secretName values (model values)
    Targets,       \* publish targets, each a filesystem directory or endpoint
    SecretOf,      \* [Profiles -> SecretNames]: spec.output.secretName
    TargetsOf,     \* [Profiles -> Seq(Targets)]: spec.publish, in order
    BadTargets,    \* targets whose config every Publish rejects
    Interval,      \* [Profiles -> Nat]: spec.rotation.interval in ticks
    Format,        \* [Profiles -> CRDFormats]: spec.output.format, defaulted
    NumKeyIDs,     \* size of the KeyID space
    UniqueKeyIDs,  \* TRUE: generateKeyID never repeats an ID
    MaxKeys,       \* bound: number of keys generated in a behaviour
    MaxKeysPerProfile, \* bound: number of keys one profile's reconciles generate
    Failures,      \* TRUE: I/O, API calls and the controller process may fail
    MaxTime,       \* bound: last value of the clock
    NoProfile      \* model value: a Secret without a controller owner

(* The values the CRD schema admits for spec.output.format (enum in        *)
(* api/v1alpha1 OutputConfig); an absent format defaults to split-pem.     *)
CRDFormats == {"split-pem", "bundle-json", "jwks"}

ASSUME ConstantsAssumption ==
    /\ IsFiniteSet(Profiles) /\ IsFiniteSet(Targets)
    /\ SecretOf \in [Profiles -> SecretNames]
    /\ TargetsOf \in [Profiles -> Seq(Targets)]
    /\ BadTargets \subseteq Targets
    /\ Interval \in [Profiles -> Nat]
    /\ Format \in [Profiles -> CRDFormats]
    /\ NumKeyIDs \in Nat \ {0}
    /\ UniqueKeyIDs \in BOOLEAN
    /\ MaxKeys \in Nat
    /\ MaxKeysPerProfile \in Nat
    /\ Failures \in BOOLEAN
    /\ UniqueKeyIDs => MaxKeys <= NumKeyIDs
    /\ MaxTime \in Nat \ {0}
    /\ NoProfile \notin Profiles

Keys == 1..MaxKeys
KeyIDs == 1..NumKeyIDs
NoKey == 0
Status == StatusRec(KeyIDs \cup {NoID}, Keys \cup {NoKey}, 0..MaxTime, Nat)
InitStatus == [keyID |-> NoID, fp |-> NoKey, last |-> ZeroTime,
               next |-> ZeroTime, active |-> FALSE]

VARIABLES
    now,        \* time.Now()
    status,     \* KeyProfile.Status as stored by the API server
    cache,      \* KeyProfile.Status as the informer cache holds it
    secret,     \* Secrets: controller owner and key whose bundle it holds
    published,  \* [Targets -> [KeyIDs -> key]]: file {KeyID}.pub per target
    keyID,      \* KeyPair.KeyID of each generated key (NoID: none assigned)
    keyOwner,   \* profile whose reconcile generated each key
    nextKey,    \* number of keys generated so far
    live,       \* keys whose private material is in memory and not wiped
    pc,         \* where each profile's reconcile is
    seen,       \* the status the in-flight reconcile read
    kp,         \* the KeyPair the in-flight EnsureKey holds
    tgt,        \* index of the next publish target in PublishAll
    pubErr,     \* PublishAll has collected an error
    res         \* the RotationResult returned by EnsureKey

vars == <<now, status, cache, secret, published, keyID, keyOwner, nextKey,
          live, pc, seen, kp, tgt, pubErr, res>>

-----------------------------------------------------------------------------
TypeOK ==
    /\ now \in 1..MaxTime
    /\ status \in [Profiles -> Status]
    /\ cache \in [Profiles -> Status]
    /\ secret \in [SecretNames -> [owner : Profiles \cup {NoProfile},
                                   key : Keys \cup {NoKey}]]
    /\ published \in [Targets -> [KeyIDs -> Keys \cup {NoKey}]]
    /\ keyID \in [Keys -> KeyIDs \cup {NoID}]
    /\ keyOwner \in [Keys -> Profiles \cup {NoProfile}]
    /\ nextKey \in 0..MaxKeys
    /\ live \subseteq Keys
    /\ pc \in [Profiles -> {"idle", "publish", "status"}]
    /\ seen \in [Profiles -> Status]
    /\ kp \in [Profiles -> Keys \cup {NoKey}]
    /\ tgt \in [Profiles -> Nat \ {0}]
    /\ pubErr \in [Profiles -> BOOLEAN]
    /\ res \in [Profiles -> Status]

Init ==
    /\ now = 1
    /\ status = [p \in Profiles |-> InitStatus]
    /\ cache = status
    /\ secret = [s \in SecretNames |-> [owner |-> NoProfile, key |-> NoKey]]
    /\ published = [t \in Targets |-> [i \in KeyIDs |-> NoKey]]
    /\ keyID = [k \in Keys |-> NoID]
    /\ keyOwner = [k \in Keys |-> NoProfile]
    /\ nextKey = 0
    /\ live = {}
    /\ pc = [p \in Profiles |-> "idle"]
    /\ seen = [p \in Profiles |-> InitStatus]
    /\ kp = [p \in Profiles |-> NoKey]
    /\ tgt = [p \in Profiles |-> 1]
    /\ pubErr = [p \in Profiles |-> FALSE]
    /\ res = [p \in Profiles |-> InitStatus]

-----------------------------------------------------------------------------
(* The KeyIDs generateKeyID can return: 3 random bytes may repeat an ID    *)
(* already handed out unless UniqueKeyIDs.                                  *)
FreshKeyIDs == IF UniqueKeyIDs
                 THEN KeyIDs \ {keyID[k] : k \in Keys}
                 ELSE KeyIDs

(* Reconcile reads the profile from the cache and EnsureKey decides.  Not  *)
(* due: the result repeats the status.  Due: Generate runs, with three     *)
(* outcomes: GenerateFails, GenerateLeaks and GenerateOK.                  *)
ReconcileNoRotation(p) ==
    LET st == cache[p] IN
    /\ pc[p] = "idle"
    /\ ~checkRotationNeeded(st, Interval[p], now)
    /\ pc' = [pc EXCEPT ![p] = "status"]
    /\ seen' = [seen EXCEPT ![p] = st]
    /\ res' = [res EXCEPT ![p] =
                 [keyID |-> st.keyID, fp |-> st.fp, last |-> st.last,
                  next |-> calculateNextRotation(st.last, Interval[p]),
                  active |-> TRUE]]
    /\ UNCHANGED <<now, status, cache, secret, published, keyID, keyOwner,
                   nextKey, live, kp, tgt, pubErr>>

(* Generate fails before any key material exists (ValidateKeySpec,        *)
(* strconv.Atoi, ecdsa/rsa.GenerateKey): EnsureKey and Reconcile return    *)
(* the error and nothing changes; controller-runtime retries later.        *)
GenerateFails(p) ==
    /\ pc[p] = "idle"
    /\ checkRotationNeeded(cache[p], Interval[p], now)
    /\ UNCHANGED vars

(* The bound on the keys one profile's reconciles may generate.           *)
ProfileKeysLeft(p) ==
    Cardinality({k \in Keys : keyOwner[k] = p}) < MaxKeysPerProfile

(* generateEC/generateRSA fail after GenerateKey succeeded (marshalling or *)
(* generateKeyID's rand.Read): the private key is dropped without Wipe.    *)
GenerateLeaks(p) ==
    LET k == nextKey + 1 IN
    /\ Failures
    /\ pc[p] = "idle"
    /\ checkRotationNeeded(cache[p], Interval[p], now)
    /\ nextKey < MaxKeys
    /\ ProfileKeysLeft(p)
    /\ nextKey' = k
    /\ keyOwner' = [keyOwner EXCEPT ![k] = p]
    /\ live' = live \cup {k}
    /\ UNCHANGED <<now, status, cache, secret, published, keyID, pc, seen,
                   kp, tgt, pubErr, res>>

(* Generate returns a KeyPair (deferred Wipe armed), the fingerprint is    *)
(* computed, and PublishAll starts at the first target.                    *)
GenerateOK(p) ==
    LET k == nextKey + 1 IN
    /\ pc[p] = "idle"
    /\ checkRotationNeeded(cache[p], Interval[p], now)
    /\ nextKey < MaxKeys
    /\ ProfileKeysLeft(p)
    /\ \E id \in FreshKeyIDs : keyID' = [keyID EXCEPT ![k] = id]
    /\ nextKey' = k
    /\ keyOwner' = [keyOwner EXCEPT ![k] = p]
    /\ live' = live \cup {k}
    /\ pc' = [pc EXCEPT ![p] = "publish"]
    /\ seen' = [seen EXCEPT ![p] = cache[p]]
    /\ kp' = [kp EXCEPT ![p] = k]
    /\ tgt' = [tgt EXCEPT ![p] = 1]
    /\ pubErr' = [pubErr EXCEPT ![p] = FALSE]
    /\ UNCHANGED <<now, status, cache, secret, published, res>>

(* The publishers' config checks: filesystem needs an absolute "path"     *)
(* without "..", http an "endpoint" that is https unless insecure.  A      *)
(* target in BadTargets fails them on every call.                          *)
ConfigRejected(t) == t \in BadTargets

(* Mutant: the publisher clears the target of other keys' files.          *)
WriteKeyFile_Replace(t, k) ==
    [published EXCEPT ![t] = [i \in KeyIDs |-> IF i = keyID[k] THEN k ELSE NoKey]]

(* FilesystemPublisher.Publish after its checks: {path}/{KeyID}.pub is     *)
(* written to a temp file and renamed over any file of that name.          *)
WriteKeyFile(t, k) == [published EXCEPT ![t][keyID[k]] = k]

(* One iteration of PublishAll.  A rejected config fails without effect;  *)
(* an I/O error or the 10 s HTTP client timeout fails, possibly after the *)
(* target already took the key.  The error is collected and the loop goes *)
(* on with the next target.                                                *)
Publish(p) ==
    LET t == TargetsOf[p][tgt[p]] IN
    /\ pc[p] = "publish"
    /\ tgt[p] <= Len(TargetsOf[p])
    /\ tgt' = [tgt EXCEPT ![p] = @ + 1]
    /\ \/ /\ ~ConfigRejected(t)
          /\ published' = WriteKeyFile(t, kp[p])
          /\ UNCHANGED pubErr
       \/ /\ ConfigRejected(t) \/ Failures
          /\ pubErr' = [pubErr EXCEPT ![p] = TRUE]
          /\ published' \in IF ConfigRejected(t)
                               THEN {published}
                               ELSE {published, WriteKeyFile(t, kp[p])}
    /\ UNCHANGED <<now, status, cache, secret, keyID, keyOwner, nextKey, live,
                   pc, seen, kp, res>>

(* KeyPair.Wipe: the raw private bytes and key scalars are zeroed and the  *)
(* references cleared, so the key's private material is gone from memory.  *)
Wipe(k) == live \ {k}

(* Mutant: the deferred Wipe is lost on the publish-error return.          *)
PublishFailed_NoWipe(p) ==
    /\ pc[p] = "publish"
    /\ tgt[p] > Len(TargetsOf[p])
    /\ pubErr[p]
    /\ pc' = [pc EXCEPT ![p] = "idle"]
    /\ UNCHANGED <<now, status, cache, secret, published, keyID, keyOwner,
                   nextKey, live, seen, kp, tgt, pubErr, res>>

(* PublishAll returned an error: EnsureKey returns it, the deferred Wipe   *)
(* runs, and Reconcile returns the error for a retry with backoff.         *)
PublishFailed(p) ==
    /\ pc[p] = "publish"
    /\ tgt[p] > Len(TargetsOf[p])
    /\ pubErr[p]
    /\ live' = Wipe(kp[p])
    /\ pc' = [pc EXCEPT ![p] = "idle"]
    /\ UNCHANGED <<now, status, cache, secret, published, keyID, keyOwner,
                   nextKey, seen, kp, tgt, pubErr, res>>

(* Mutant: EnsureKey drops the error PublishAll returned.                  *)
PublishAllSucceeded_Ignored(p) == TRUE

(* EnsureKey goes on to persist only when PublishAll returned nil.         *)
PublishAllSucceeded(p) == ~pubErr[p]

(* SecretWriter.Write renders the bundle in the profile's format with the *)
(* options it builds (SecretRender); a format Render refuses fails Write.  *)
RenderSucceeds(p) == WriterRenders(Format[p])

(* Mutant: the controller reference is set without the owner check.        *)
CanWriteSecret_NoOwnerCheck(p) == RenderSucceeds(p)

(* Write succeeds: the bundle renders and SetControllerReference accepts  *)
(* the Secret (absent, unowned, or already controlled by this profile).   *)
OwnerOK(p) == secret[SecretOf[p]].owner \in {NoProfile, p}

CanWriteSecret(p) == RenderSucceeds(p) /\ OwnerOK(p)

(* Mutant: the mutate function writes the data but not the controller    *)
(* reference.                                                              *)
WriteSecret_NoOwnerRef(p, k) == [secret EXCEPT ![SecretOf[p]].key = k]

(* CreateOrUpdate's mutate function: controller reference and data.        *)
WriteSecret(p, k) == [secret EXCEPT ![SecretOf[p]] = [owner |-> p, key |-> k]]

(* Mutant: RotationTime and NextRotation swapped in the result.            *)
RotatedResult_Swapped(p, k) ==
    [keyID |-> keyID[k], fp |-> k,
     last |-> calculateNextRotation(now, Interval[p]), next |-> now,
     active |-> TRUE]

(* The RotationResult of a rotation: now is read after the Secret write.   *)
RotatedResult(p, k) ==
    [keyID |-> keyID[k], fp |-> k, last |-> now,
     next |-> calculateNextRotation(now, Interval[p]), active |-> TRUE]

(* EnsureKey after PublishAll: SecretWriter.Write, then the result; the    *)
(* deferred Wipe runs on both returns.  A Write error (render, owner,      *)
(* API) returns to Reconcile, which retries with backoff.                  *)
Persist(p) ==
    LET k == kp[p] IN
    /\ pc[p] = "publish"
    /\ tgt[p] > Len(TargetsOf[p])
    /\ PublishAllSucceeded(p)
    /\ live' = Wipe(k)
    /\ \/ /\ CanWriteSecret(p)
          /\ secret' = WriteSecret(p, k)
          /\ pc' = [pc EXCEPT ![p] = "status"]
          /\ res' = [res EXCEPT ![p] = RotatedResult(p, k)]
       \/ /\ ~CanWriteSecret(p) \/ Failures
          /\ pc' = [pc EXCEPT ![p] = "idle"]
          /\ UNCHANGED <<secret, res>>
    /\ UNCHANGED <<now, status, cache, published, keyID, keyOwner, nextKey,
                   seen, kp, tgt, pubErr>>

(* Status().Update sends the resourceVersion of the object Reconcile read: *)
(* the API server accepts it only if the status has not changed since.     *)
StatusUpdateAccepted(p) == seen[p] = status[p]

(* Reconcile after EnsureKey returned: Status().Update when some field     *)
(* differs.  A conflict or any other API error fails it and Reconcile      *)
(* returns the error.                                                      *)
UpdateStatus(p) ==
    /\ pc[p] = "status"
    /\ pc' = [pc EXCEPT ![p] = "idle"]
    /\ \/ /\ needsStatusUpdate(seen[p], res[p])
          /\ StatusUpdateAccepted(p)
          /\ status' = [status EXCEPT ![p] = res[p]]
       \/ /\ \/ ~needsStatusUpdate(seen[p], res[p])
             \/ ~StatusUpdateAccepted(p)
             \/ Failures
          /\ UNCHANGED status
    /\ UNCHANGED <<now, cache, secret, published, keyID, keyOwner, nextKey,
                   live, seen, kp, tgt, pubErr, res>>

(* The informer delivers the stored status into the cache.                 *)
CacheSync(p) ==
    /\ cache[p] # status[p]
    /\ cache' = [cache EXCEPT ![p] = status[p]]
    /\ UNCHANGED <<now, status, secret, published, keyID, keyOwner, nextKey,
                   live, pc, seen, kp, tgt, pubErr, res>>

Tick ==
    /\ now < MaxTime
    /\ now' = now + 1
    /\ UNCHANGED <<status, cache, secret, published, keyID, keyOwner, nextKey,
                   live, pc, seen, kp, tgt, pubErr, res>>

(* The controller process dies: in-flight reconciles and all key material *)
(* in memory are gone; on restart the cache is listed afresh.              *)
Crash ==
    /\ Failures
    /\ \E p \in Profiles : pc[p] # "idle"
    /\ pc' = [p \in Profiles |-> "idle"]
    /\ live' = {}
    /\ cache' = status
    /\ UNCHANGED <<now, status, secret, published, keyID, keyOwner, nextKey,
                   seen, kp, tgt, pubErr, res>>

Next ==
    \/ \E p \in Profiles :
          \/ ReconcileNoRotation(p)
          \/ GenerateFails(p)
          \/ GenerateLeaks(p)
          \/ GenerateOK(p)
          \/ Publish(p)
          \/ PublishFailed(p)
          \/ Persist(p)
          \/ UpdateStatus(p)
          \/ CacheSync(p)
    \/ Tick
    \/ Crash

Spec == Init /\ [][Next]_vars

(* The scheduling controller-runtime gives a profile's reconcile: it runs *)
(* again after an error (rate-limited backoff), at RequeueAfter =          *)
(* time.Until(NextRotation) (1 s when overdue), and on the watch event of   *)
(* its own status write; the informer delivers every stored change; the    *)
(* clock advances.  So each step of a reconcile that stays possible is     *)
(* eventually taken.  ReconcileNoRotation and the failure steps need no    *)
(* fairness: nothing waits on them.                                         *)
Fairness ==
    /\ \A p \in Profiles :
          /\ WF_vars(GenerateOK(p))
          /\ WF_vars(Publish(p))
          /\ WF_vars(PublishFailed(p))
          /\ WF_vars(Persist(p))
          /\ WF_vars(UpdateStatus(p))
          /\ WF_vars(CacheSync(p))
    /\ WF_vars(Tick)

LiveSpec == Spec /\ Fairness

(* A user deletes a Secret by hand (kubectl delete secret): the "manual    *)
(* trigger" the comment in checkRotationNeeded relies on.  It is a step of *)
(* the environment, not of the controller, and only the run about that     *)
(* trigger allows it.                                                       *)
DeleteSecret(s) ==
    /\ secret[s].key # NoKey
    /\ secret' = [secret EXCEPT ![s] = [owner |-> NoProfile, key |-> NoKey]]
    /\ UNCHANGED <<now, status, cache, published, keyID, keyOwner, nextKey,
                   live, pc, seen, kp, tgt, pubErr, res>>

ManualTriggerSpec ==
    Init /\ [][Next \/ \E s \in SecretNames : DeleteSecret(s)]_vars /\ Fairness

-----------------------------------------------------------------------------
(* Key invariant of the rotation cycle (README "Key invariant", [SEC:S-2.4] *)
(* in EnsureKey): a key whose private half reached a Secret, or that a     *)
(* KeyProfile status announces, has its public half in place at every      *)
(* publish target of its profile under its KeyID.                          *)
PublishedEverywhere(k, p) ==
    \A i \in 1..Len(TargetsOf[p]) : published[TargetsOf[p][i]][keyID[k]] = k

PublishBeforeDistribute ==
    /\ \A s \in SecretNames :
          secret[s].key # NoKey =>
              PublishedEverywhere(secret[s].key, secret[s].owner)
    /\ \A p \in Profiles :
          status[p].fp # NoKey => PublishedEverywhere(status[p].fp, p)

(* What a workload reads from its Secret and what a validator learns from *)
(* the status never goes back to an older key (keys are numbered in order *)
(* of generation).  A stale informer cache can make a reconcile repeat an *)
(* old fingerprint (ReconcileNoRotation), and two profiles may name one    *)
(* Secret; the comparison with the status read, the resourceVersion check *)
(* of Status().Update and the owner check of SecretWriter.Write are what  *)
(* keep the old key out.                                                   *)
KeysNeverRollBack ==
    [][/\ \A s \in SecretNames : secret[s].key <= secret'[s].key
       /\ \A p \in Profiles : status[p].fp <= status'[p].fp]_<<secret, status>>

(* The deferred kp.Wipe() in EnsureKey: every KeyPair that Generate        *)
(* returned is wiped by the time its EnsureKey call returns.               *)
WipedAfterEnsureKey ==
    \A k \in live :
        keyID[k] # NoID =>
            \E p \in Profiles : pc[p] = "publish" /\ kp[p] = k

(* Spec 4.3: no generated private material outlives the operation that    *)
(* created it, whatever the exit path, Generate's own included.            *)
NoUnwipedMaterial ==
    \A k \in live : \E p \in Profiles : pc[p] = "publish" /\ kp[p] = k

(* A rotation is due by the rule of checkRotationNeeded read on the       *)
(* stored status: no key yet, or the interval has passed since the last    *)
(* rotation.                                                               *)
Due(p) ==
    \/ status[p].keyID = NoID
    \/ Interval[p] # 0 /\ now > status[p].last + Interval[p]

(* Spec 4.6 and the requeue in Reconcile: a due rotation is carried out    *)
(* (the status moves past it) unless the profile ran out of the keys the   *)
(* model lets it generate.                                                 *)
DueRotationHappens ==
    \A p \in Profiles : Due(p) ~> (~Due(p) \/ ~ProfileKeysLeft(p))

(* Every profile eventually has a key that its Secret holds and its status *)
(* announces: generate, publish, persist and the status write all happen.  *)
KeyEventuallyInstalled ==
    \A p \in Profiles :
        <>(status[p].fp # NoKey /\ secret[SecretOf[p]].key = status[p].fp)

(* The comment in checkRotationNeeded (manager.go): deleting the Secret   *)
(* is a manual trigger, so a profile whose key was installed and whose     *)
(* Secret was then deleted gets a key in its Secret again.                 *)
DeletedSecretRestored ==
    \A p \in Profiles :
        (status[p].fp # NoKey /\ secret[SecretOf[p]].key = NoKey)
            ~> secret[SecretOf[p]].key # NoKey

-----------------------------------------------------------------------------
(* The refinement mapping to KeyDistribution: a key is available to p when *)
(* it has a KeyID and its {KeyID}.pub is at every target of p; the Secrets *)
(* and the announced fingerprints are read off as they are.                *)
availBar == [p \in Profiles |->
               {k \in Keys : keyID[k] # NoID /\ PublishedEverywhere(k, p)}]

currentBar == [p \in Profiles |-> status[p].fp]

KD == INSTANCE KeyDistribution
        WITH avail <- availBar, held <- secret, current <- currentBar,
             NoOwner <- NoProfile

(* The controller implements KeyDistribution: every reconcile step, crash *)
(* and retry keeps published keys published, writes a Secret only with a  *)
(* key published to all of the writing profile's targets and only when     *)
(* it may own the Secret, and writes a status only with such a key.         *)
KDSpec == KD!Spec

-----------------------------------------------------------------------------
(* Inductive strengthening of TypeOK /\ PublishBeforeDistribute when       *)
(* generateKeyID never repeats: IDs of generated keys are distinct, keys   *)
(* not yet generated have no ID, every key a Secret, a status, the cache   *)
(* or a pending RotationResult names is published everywhere, and an       *)
(* in-flight PublishAll without error has published its key to the        *)
(* targets it has passed.                                                  *)
Announced(k, p) ==
    k # NoKey => keyID[k] # NoID /\ PublishedEverywhere(k, p)

KeyIDsDistinct ==
    \A k1, k2 \in Keys : k1 # k2 /\ keyID[k1] # NoID => keyID[k1] # keyID[k2]

UngeneratedHaveNoID == \A k \in Keys : k > nextKey => keyID[k] = NoID

SecretsAnnounced ==
    \A s \in SecretNames :
        secret[s].key # NoKey =>
            /\ secret[s].owner \in Profiles
            /\ Announced(secret[s].key, secret[s].owner)

ProfileAnnounced(p) ==
    /\ Announced(status[p].fp, p)
    /\ Announced(cache[p].fp, p)
    /\ pc[p] = "status" => Announced(res[p].fp, p)
    /\ pc[p] = "publish" =>
          /\ kp[p] \in Keys
          /\ keyID[kp[p]] # NoID
          /\ tgt[p] <= Len(TargetsOf[p]) + 1
          /\ ~pubErr[p] =>
                \A i \in 1..(tgt[p] - 1) :
                    published[TargetsOf[p][i]][keyID[kp[p]]] = kp[p]

(* The strengthening as a whole: types, distinct IDs, and every key a     *)
(* Secret, a status, the cache or a pending result names published.        *)
IInv ==
    /\ TypeOK
    /\ KeyIDsDistinct
    /\ UngeneratedHaveNoID
    /\ SecretsAnnounced
    /\ \A p \in Profiles : ProfileAnnounced(p)
=============================================================================

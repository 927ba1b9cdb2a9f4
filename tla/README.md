# Formal model of openUKR's key lifecycle

This directory holds TLA+ models of the openUKR key rotation operator.
It has TLC configurations that check the models on small instances, and
TLAPS proofs that hold for every instance. Paths below are relative to the
repository's `src/`.

## The system and how its parts interact

A `KeyProfile` custom resource describes a key: its algorithm, its rotation
interval, its Secret and its publish targets. The reconciler
(`internal/controller/keyprofile_controller.go`) runs `Reconcile` for each
profile as follows:

1. It reads the profile from the informer cache (l. 52).
2. It calls `RotationManager.EnsureKey` (`pkg/rotation/manager.go`). EnsureKey:
   - decides whether to rotate (`checkRotationNeeded`, l. 159-187);
   - if so, generates a key pair (`Generate`, `unnamed/part_002` l. 300-377);
   - arms a deferred `Wipe` (l. 120);
   - computes the fingerprint;
   - publishes the public key to every target (`publish.Manager.PublishAll`,
     the filesystem publisher `pkg/publish/filesystem.go`, the HTTP publisher
     `unnamed/part_001`);
   - persists the pair to a Secret (`output.SecretWriter.Write`, which renders
     the bundle with `pkg/output/renderer.go` and sets a controller reference);
   - returns a `RotationResult`.
3. It writes the status with `Status().Update` when a field differs
   (`needsStatusUpdate`). The update sends the resourceVersion the
   reconcile read.
4. It requeues.

controller-runtime serialises reconciles of one object. Reconciles of
different profiles run concurrently. The controller process can die between
any two calls to the outside world.

The README of the repository (`unnamed/part_004` l. 229) states the key
invariant: *the public key is always published before the private key is
distributed.*

## Modules

| module | models |
|---|---|
| `RotationSchedule` | The pure operators `checkRotationNeeded` and `calculateNextRotation` (manager.go), and `needsStatusUpdate` (controller), over a status record (`KeyProfileStatus`). |
| `SecretRender` | `defaultRenderer.Render` and `renderJKS` (`pkg/output/renderer.go`), and the `RenderOptions` that `SecretWriter.Write` builds (`writer.go` l. 68-86). A format yields a set of file names or an error. |
| `KeyRotation` | The whole reconcile of every profile, with a crash of the controller, the clock and the informer cache. It also holds the fairness of the requeue, the liveness properties, and the refinement mapping to `KeyDistribution`. |
| `KeyDistribution` | The abstract contract of publish-then-persist: keys become available and stay so, and a Secret and a status only ever receive an available key. |
| `KeyProfileAdmission` | What the API server stores: the CRD schema (enums, defaults, MinLength), the defaulting webhook, `validateKeyProfile`, `ValidateNamespaceMatch`, `ValidateRotationPolicy` (`pkg/validation`), and `ValidateKeySpec`, `validateEC`, `validateRSA` and the parameter parsing of `Generate` (`unnamed/part_002`). |
| `KeyRotationProofs` | TLAPS proofs: types and `PublishBeforeDistribute`. |
| `KeyRotationRefinement` | TLAPS proof that `KeyRotation` implements `KeyDistribution`. |
| `KeyRotationSafetyProofs` | TLAPS proofs of `WipedAfterEnsureKey` and of the action property `KeysNeverRollBack`, with their strengthenings `WInv` (a lemma) and `RInv`. |
| `KeyProfileAdmissionProofs` | TLAPS proofs of the admission properties for every duration width, grace-period minimum and parameter string. |
| `MC_KeyRotation` | Definitions for TLC: two profiles, one shared Secret name, two targets. |
| `MC_KeyRotationInductive` | Definitions for TLC: the lifecycle instance, to check `RInv` as an invariant. |
| `MC_KeyRotationLive` | Definitions for TLC: two profiles with a Secret each, for the liveness runs. |
| `MC_KeyProfileAdmission` | The table of durations for the admission runs. |

### KeyRotation: constants

Besides the profiles, Secrets and targets, and their `SecretOf`, `TargetsOf`,
`Interval` and `Format`:

- `Failures`: when TRUE, every I/O or API call may fail, Generate may leak a
  key, and the controller may crash. The liveness runs set it FALSE.
- `UniqueKeyIDs` and `NumKeyIDs`: whether `generateKeyID` can repeat an ID.
- `MaxKeys`, `MaxKeysPerProfile` and `MaxTime`: the bounds on keys generated
  in all, keys generated by one profile, and the clock.

### KeyRotation: state

| variable | code |
|---|---|
| `now` | `time.Now()`, a tick counter. 0 is Go's zero time. |
| `status` | `KeyProfile.Status` as stored by the API server. |
| `cache` | The status as the informer cache returns it. It may lag `status`. |
| `secret` | Each Secret's controller owner and the key its data holds. |
| `published` | The file `{path}/{KeyID}.pub` at each target: which key it holds, per KeyID. |
| `keyID` | The KeyID `generateKeyID` gave each key. |
| `keyOwner` | The profile whose reconcile generated each key. |
| `nextKey` | The number of keys generated so far. |
| `live` | Keys whose private material is still in memory and not wiped. |
| `pc` | Where each profile's reconcile is: `idle`, `publish` (inside EnsureKey after Generate), or `status` (EnsureKey returned). |
| `seen`, `kp`, `tgt`, `pubErr`, `res` | Locals of the in-flight reconcile:<br>- `seen`: the status it read;<br>- `kp`: the KeyPair;<br>- `tgt`: the loop index of PublishAll;<br>- `pubErr`: the collected errors;<br>- `res`: the returned RotationResult. |

Keys are numbered in the order they are generated. The fingerprint of
key `k` is `k` itself, because SHA-256 of the DER key is taken to be
injective. A KeyID or fingerprint of 0 is the empty string.

### KeyRotation: actions

One action per step between two external calls:

- **`ReconcileNoRotation`**: EnsureKey's "not needed" return (l. 84-96). The
  result repeats the cached status, with a recomputed NextRotation.
- **`GenerateFails`**: Generate fails before any key exists (validation,
  `Atoi`, `GenerateKey`). Nothing changes.
- **`GenerateLeaks`**: `generateEC` or `generateRSA` fail after `GenerateKey`
  (l. 330-338, 364-367). The key exists and is never wiped.
- **`GenerateOK`**: Generate returns a KeyPair. `FreshKeyIDs` is the ID
  `generateKeyID` may draw. The fingerprint is taken, and PublishAll starts.
- **`Publish`**: one iteration of PublishAll's loop.
  - A target in `BadTargets` fails its config checks and has no effect.
  - Otherwise the file is written by an atomic rename that replaces any file
    with that name (`WriteKeyFile`).
  - The call can also fail, possibly after the key was taken. This covers an
    I/O error, and the HTTP client's 10 s timeout racing the server's accept.
  - The error is collected, and the loop goes on.
- **`PublishFailed`**: EnsureKey returns PublishAll's error, and the deferred
  `Wipe` runs.
- **`Persist`**: `SecretWriter.Write`, then the result.
  - The write needs `RenderSucceeds` (`Render` of `SecretRender` succeeds on
    the profile's format with the options the writer builds, which never
    carry a password) and `OwnerOK` (SetControllerReference accepts a Secret that has no
    controller or is already ours).
  - The write can also fail on the API call.
  - Wipe runs on both returns.
- **`UpdateStatus`**: `Status().Update` when `needsStatusUpdate`. It is
  accepted only if the stored status is still the one the reconcile read
  (resourceVersion). It fails on a conflict or any other API error.
- **Environment actions**:
  - `CacheSync`: the informer delivers the stored status.
  - `Tick`: the clock advances.
  - `Crash`: all in-flight reconciles and every unwiped key in memory are
    lost, and the cache is relisted.
  - `DeleteSecret`: a user deletes a Secret by hand. Only
    `ManualTriggerSpec`, the spec of the `secret_delete_trigger` run, has it.

### KeyProfileAdmission

The state is one submitted object `obj`, a record of the fields the webhook
and the schema read: namespace, `serviceAccountRef.namespace`, algorithm,
params (`curve`, `keySize`), `allowLegacyKeySize`, encoding, interval,
gracePeriod, format. `Init` is any object over the table of values, and
`Submit` (an update) changes one field. `Admitted(o)` is the API server's
decision: the schema holds after `Default`, and `validateKeyProfile` accepts.

`time.Duration` is an int64 of nanoseconds. The model keeps it a signed
integer that wraps (`WrapDuration`), at `DurationBits = 8` with a unit of one
minute, so `MinGracePeriod = 5`. The overflow of `3 * gracePeriod` at
validation.go l. 59 is then reached at a gracePeriod of 43 instead of about
853,000 hours; the control is the same. `Atoi` is `strconv.Atoi` on the
strings of the table: it accepts `"+3072"` and `"03072"` and refuses `"4k"`.
`validateRSA` is a chain of `IF ... ELSE IF`, like the early returns of the
Go function. An earlier version used `CASE` with overlapping arms, such as
`size.err` together with `size.n < RSAMinKeySize`. TLC takes the first true
arm, but TLA+ allows any true arm, so that `CASE` could not be reasoned
about. The proof attempt exposed this, and the model was rewritten.

## Runs

| run | cfg | expect | shows |
|---|---|---|---|
| `lifecycle` | `MC_KeyRotation.cfg` | pass | Explained below this table. |
| `inductive_invariants` | `MC_KeyRotationInductive.cfg` | pass | The strengthening `RInv` of the proof of `KeysNeverRollBack` holds in every reachable state. The KeyID space repeats (`NumKeyIDs = 2`, `UniqueKeyIDs = FALSE`), since the proof does not need unique IDs. 501,049 states. |
| `generate_leak` | `MC_KeyRotation_wipe.cfg` | violation | `NoUnwipedMaterial` (spec 4.3: every generated key is wiped on every path) fails. Generate's own error paths after `GenerateKey` drop the key without `Wipe`. |
| `keyid_collision` | `MC_KeyRotation_collision.cfg` | violation | With a KeyID space that repeats, one key's `{KeyID}.pub` overwrites another's, and the Secret's key is no longer published. The 24-bit random part of `generateKeyID` makes this a real, if rare, event. |
| `liveness` | `MC_KeyRotationLive.cfg` | pass | Under the requeue fairness and with no failures: `KeyEventuallyInstalled` (every profile eventually has a key that its Secret holds and its status names) and `DueRotationHappens` (a due rotation is carried out unless the profile's key budget is spent). |
| `format_never_installed` | `MC_KeyRotationLive_KeyEventuallyInstalled.cfg` | violation | `KeyEventuallyInstalled` fails when `p2` has the format `jwks`, which the CRD admits. Every reconcile of `p2` generates a key, publishes it, and fails in `Write`; the profile never gets a Secret. |
| `secret_delete_trigger` | `MC_KeyRotationLive_DeletedSecretRestored.cfg` | violation | `DeletedSecretRestored` (the comment at manager.go l. 182: deleting the Secret is a manual trigger) fails: after a hand deletion no step writes the Secret again, for `p2` whose interval is 0. |
| `admission` | `MC_KeyProfileAdmission.cfg` | pass | `AdmittedIsGeneratable` (spec 6: what the webhook admits, Generate accepts), `LegacyKeySizeNeedsOptIn` (spec 8: RSA below 3072 needs `allowLegacyKeySize` and gives the warning, and only then), `RotationPolicyMatchesRule` (ValidateRotationPolicy is the rule wherever `3 * gracePeriod` fits). |
| `policy_overflow` | `MC_KeyProfileAdmission_AdmittedPolicyWithinRule.cfg` | violation | `AdmittedPolicyWithinRule` fails: a gracePeriod whose triple overflows lets an interval of 0 or below through. |
| `format_admitted_unrenderable` | `MC_KeyProfileAdmission_AdmittedFormatRenders.cfg` | violation | `AdmittedFormatRenders` fails: the schema admits `bundle-json` and `jwks`, which `Render` refuses. |

The `lifecycle` run checks these properties:

- **`TypeOK`**
- **`PublishBeforeDistribute`**: the README's key invariant. Every key in a
  Secret, and every key a status announces, is at every target of its
  profile.
- **`WipedAfterEnsureKey`**: every KeyPair that EnsureKey received is wiped
  by the time EnsureKey returns.
- **`IInv`**: the inductive invariant of the proof, described below.
- **`KeysNeverRollBack`**: an action property. No step puts an older key
  into a Secret or a status; keys are numbered in the order they were
  generated. A stale cache makes a reconcile re-send an old fingerprint.
  The status comparison, the `resourceVersion` conflict and the owner check
  are what must keep that fingerprint out.
- **`KDSpec`**: the controller implements `KeyDistribution` under the
  mapping `availBar` (the keys with an ID whose file is at every target of
  the profile), `secret`, and `currentBar` (the status fingerprints).

These hold under crashes, stale caches, status conflicts and failures of
every step.

Not stated as a property: a failed status write (a crash or a conflict)
after the Secret was written leaves the status naming the old key. No code
reads the Secret back, although the comment at `unnamed/part_002` l. 34 says
the status is verified against the Secret; the mismatch lasts until the next
rotation writes both again. Neither "always equal" (broken by any crash) nor
a leads-to (cut off by the bounded clock and key budget) says something true
and useful about that in this model.

Each property of the passing runs has a mutant in `PROJECT.json`: the same
spec with one definition changed the way a plausible bug would change it.

| mutant | breaks |
|---|---|
| RotationTime and NextRotation swapped | `TypeOK` |
| PublishAll's error ignored | `PublishBeforeDistribute` and `IInv` |
| the Wipe lost on the publish-error path | `WipedAfterEnsureKey` |
| the owner check dropped | `KeysNeverRollBack` |
| the Secret written without its controller reference | `RInv` (run `inductive_invariants`) |
| the publisher clears the other keys' files of a target | `KDSpec` |
| the split-pem case of Render misspelt | `KeyEventuallyInstalled` |
| the time-based case of checkRotationNeeded lost | `DueRotationHappens` |
| P-224 added to the curves the webhook accepts | `AdmittedIsGeneratable` |
| validateRSA without the legacy opt-in check | `LegacyKeySizeNeedsOptIn` |
| ValidateRotationPolicy with `>` instead of `>=` | `RotationPolicyMatchesRule` |

### Bounds and why they suffice

- **Profiles and Secrets**: two profiles `p1` and `p2` name the same Secret
  `s1`. This gives both the sharing conflict and the concurrency between
  profiles.
- **Targets**: `p1` publishes to `<<t1, t2>>` and `p2` to `<<t1>>`, so a
  target is shared and a publish can succeed partly.
- **Keys and time**: `MaxKeys = 3` and `MaxTime = 3` with `Interval = 1`
  allow, in one behaviour:
  - an initial key;
  - a time-based rotation (`now > last + interval` needs `now = 3` after a
    rotation at 1);
  - a rotation from a stale cache, whose status update then conflicts.
- **Other failure paths**: a failure of any step, `GenerateLeaks` and
  `Crash` are enabled throughout.
- **Size**: the run has 517,497 distinct states and finishes in about
  one minute, most of it for the refinement property.
- **Not exercised in this run**: `BadTargets` is empty and both profiles
  render. A target that always rejects its config would stop `p1` from ever
  persisting. Failures of render and config are still covered, because
  `Publish` and `Persist` both have a failure disjunct that is taken.
- **Collision run**: it uses `NumKeyIDs = 2` with `UniqueKeyIDs = FALSE`.

- **Liveness runs**: each profile has its own Secret, so the owner check
  never blocks, and `Failures = FALSE`. `MaxKeysPerProfile = 2` and
  `MaxKeys = 4` let each profile make its first key and one more, either
  a time-based rotation at `now = 3` or a rotation from a stale cache; the
  global bound never starves a profile. 601,059 distinct states, about
  95 seconds.
- **Admission runs**: durations `{-5, 0, 4, 5, 14, 15, 43, 100}` minutes
  hit the minimum grace period and the exact 3x ratio from both sides, and
  43 (whose triple, 129, wraps to -127 in 8 bits) hits the overflow. The
  key sizes and curves include the legacy size, a non-canonical spelling,
  an unsupported size and an unsupported curve. 184,320 states, 6 seconds.

The safety runs assume no fairness, and the system can stop for good: the
clock is bounded and keys run out. At those bounds the `GenerateFails`
stutter stays enabled, because Generate can always fail, so no run
deadlocks.

### Fairness

`LiveSpec` adds `Fairness`: weak fairness of `GenerateOK`, `Publish`,
`PublishFailed`, `Persist`, `UpdateStatus` and `CacheSync` for each profile,
and of `Tick`. controller-runtime justifies it:

- a reconcile that returns an error is requeued with rate-limited backoff;
- a reconcile that succeeds is requeued at `NextRotation` (1 s when overdue,
  keyprofile_controller.go l. 80-90);
- its own status write produces a watch event;
- the informer eventually delivers every stored change.

So a step that stays enabled is eventually taken. `ReconcileNoRotation` and
the failure branches get no fairness, since no progress waits on them. With
`Failures = TRUE` no progress can be promised: a status write can conflict
on every attempt.

## What is proved (checked by `tlapm`)

The proofs assume `ConstantsAssumption`, the types of the constants stated in
`KeyRotation`.

In `KeyRotationProofs`:

- **`TypeCorrect`**: `Spec => []TypeOK`.
  - `TypeOK` alone is not inductive. The result that Persist builds reads
    `keyID[kp[p]]`, which is only typed while `kp[p]` is a key.
  - The proof therefore goes through `TypeInv == TypeOK /\ (pc = "publish"
    => kp \in Keys)`.
  - Lemma `TypeInvStep` has one step per action.
- **`PublishBeforeDistributeHolds`**: `ASSUME UniqueKeyIDs PROVE Spec =>
  []PublishBeforeDistribute`.
  - The property is not inductive either. It is proved through `IInv`:
    - KeyIDs of generated keys are distinct (`KeyIDsDistinct`).
    - Keys not yet generated have no ID.
    - Every key in a Secret, a status, the cache or a pending result is
      `Announced`: it has an ID and is at every target of its profile.
    - A PublishAll in flight with no error has put its key at each target it
      has passed.
  - The distinctness of IDs is what makes the step of `Publish` go through.
    Lemmas `WriteKeepsOthers` and `WriteKeepsAnnounced` show that writing
    `{KeyID}.pub` for one key never disturbs another key.
  - The `keyid_collision` run shows the assumption cannot be dropped.
  - `IInv` is also checked by the `lifecycle` run.
- **`IInvHolds`**: `ASSUME UniqueKeyIDs PROVE Spec => []IInv`. The
  inductive invariant above, which the `lifecycle` run also checks.

In `KeyRotationSafetyProofs` (no assumption of unique key IDs):

- Lemmas **`WInvHolds`** and **`RInvHolds`**: `Spec => []WInv` and
  `Spec => []RInv`. These are the two strengthenings described below,
  proved from their initial states and from the step lemmas `WInvStep` and
  `RInvStep`. The `inductive_invariants` run checks `RInv`.

- **`WipedAfterEnsureKeyHolds`**: `Spec => []WipedAfterEnsureKey`.
  - The property says that every unwiped key with a KeyID is held by an
    EnsureKey call still in flight. It is not inductive by itself.
  - `GenerateLeaks` (Generate's error paths after `GenerateKey`) adds
    unwiped material to memory. The proof must know that this key has no
    KeyID.
  - `WInv` adds `TypeInv` and `UngeneratedHaveNoID`: a key not generated
    yet has no ID.
  - Lemma `WipeKeepsWiped` covers every return of EnsureKey, where the
    deferred Wipe runs.
  - Lemma `OtherProfileKeepsWiped` covers the steps of a profile that holds
    no KeyPair.
- **`KeysNeverRollBackHolds`**: `Spec => KeysNeverRollBack`.
  - The step lemma shows that `RInv /\ [Next]_vars` allows no roll-back.
  - The rest follows by PTL from `Spec => []RInv`.
  - `RInv` is `TypeInv` together with:
    - every key named anywhere is at most `nextKey`;
    - a Secret with no owner is empty;
    - for each profile with a call in flight (`InFlightNewest`), the new
      key is newer than both the status the reconcile read and every
      Secret the profile owns;
    - a pending result is at least the status that was read.
  - A write therefore never installs an older key:
    - `WriteNeverOlder`: the owner check restricts a Secret write to the
      profile's own Secrets.
    - `StatusNeverOlder`: the `resourceVersion` check of `UpdateStatus`
      makes a status write happen only while the status is the one read.
  - The `inductive_invariants` run checks `RInv`.
  - The proof splits each step per Secret and per profile.
  - `KeysAreNumbers` gives the provers the integer types they need for the
    comparisons.

In `KeyProfileAdmissionProofs` (assuming `AdmissionAssumption`: any
positive duration width, any minimum grace period, any set of integer
durations, any keySize strings from `Atoi`'s table):

- **`TypeCorrect`**: the submitted object stays in `Objects`.
- **`RotationPolicyMatchesRuleHolds`**: `Spec => []RotationPolicyMatchesRule`.
  The proof rests on lemma `WrapInRange`: `WrapDuration` is the identity on
  the signed range, since `(x + 2^(w-1)) % 2^w = x + 2^(w-1)` there. Then
  `ValidateRotationPolicy` is the rule whenever `3 * gracePeriod` fits.
- **`AdmittedIsGeneratableHolds`**: `Spec => []AdmittedIsGeneratable`.
  - Lemma `AdmittedKeySpec`: an admitted object passed the namespace and
    policy checks, so the webhook's answer is `ValidateKeySpec`'s.
  - Lemma `RSAAccepted`: `validateRSA` accepts only keySize strings that
    parse to 2048, 3072 or 4096. With 2048 it also needs the opt-in, and
    it answers with the warning.
  - The EC case follows from `validCurves`, which equals the curve set of
    `parseCurve`.
- **`LegacyKeySizeNeedsOptInHolds`**: `Spec => []LegacyKeySizeNeedsOptIn`,
  from the same two lemmas.
- **How `RSAAccepted` is proved**: by cases on the keySize string, with
  `Atoi` expanded in each case. The provers could not use a lemma about
  `Atoi`'s result, a record with a Boolean field, at another argument.

In `KeyRotationRefinement`:

- **`Refinement`**: `ASSUME UniqueKeyIDs PROVE Spec => KDSpec`.
  - Initial states map to the initial state of `KeyDistribution`.
  - Every step, under `IInv` before and after, maps to a step or a stutter:
    - `GenerateOK` and `Publish` are `MakeAvailable` (lemma `AvailGrows`:
      an available key keeps its ID and its files; for `Publish` this is
      `WriteKeepsOthers` again);
    - a successful `Persist` is `Install`: the owner check passed, and `IInv`
      says the finished PublishAll put the key at every target;
    - a status write is `Announce`, because a pending result is `Announced`;
    - every other step changes no ID, file, Secret or status (`QuietStep`).
- **`PublishedKeysStayAvailable`**: `ASSUME UniqueKeyIDs PROVE Spec =>
  KD!AvailNeverShrinks`.
  - A key with a KeyID and its file at every target of a profile stays so.
    This holds whatever another profile publishes to a shared target, and
    through crashes and partial PublishAll retries.
  - It is the abstract promise carried over by `Refinement`: every
    `KD!Next` step keeps `availBar` growing, and the rest is PTL.

## Model-checked only

- Liveness and `ENABLED` are beyond TLAPS: `KeyEventuallyInstalled`,
  `DueRotationHappens` and `DeletedSecretRestored` stay with TLC.
- Every safety property of a passing run is now proved as well.
- What the proofs do not reach:
  - the properties of the violation runs, which fail;
  - `TypeOK` of the lifecycle run is reached only through the stronger
    `TypeInv`;
  - what `Atoi` does outside the strings of `AtoiDomain`. The model's
    `Atoi` is a table, so the admission theorems hold for every keySize
    string the table covers.

## Not modelled, and why

- **Format encoders**: byte-level transforms.
- **Renderer layouts**: only the file names of a bundle, or the error, reach
  the rest of the system.
- **Metrics and the Dockerfile**: they have no effect on control.
- **`TriggerOnStartup` and `GracePeriod`**: after admission, they are never
  read by any code.
- **Spec edits**: no property would state what a spec change must do. Spec 9
  leaves spec-change rotation open, and `checkRotationNeeded` (manager.go
  l. 178-184) says it is not implemented. The related manual trigger is the
  `secret_delete_trigger` run.
- **The HTTP publisher's body cap and status codes**: folded into the
  success or failure of `Publish`.
- **The unit tests in `pkg/validation/validation.go`**: the test table of
  `ValidateRotationPolicy` is inside the duration table of the admission run.

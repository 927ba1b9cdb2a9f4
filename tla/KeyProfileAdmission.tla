------------------------- MODULE KeyProfileAdmission -------------------------
(***************************************************************************)
(* What a KeyProfile must pass before the reconciler ever sees it, and     *)
(* what Generate and the renderer later demand of the same spec.           *)
(*                                                                         *)
(* A create or update goes through the CRD schema (the kubebuilder markers *)
(* of api/v1alpha1), the defaulting webhook and the validating webhook     *)
(* (validateKeyProfile, unnamed/part_000), which calls ValidateNamespace-  *)
(* Match and ValidateRotationPolicy (pkg/validation) and ValidateKeySpec   *)
(* (unnamed/part_002).  Generate repeats ValidateKeySpec and then parses   *)
(* the parameters itself (parseCurve, strconv.Atoi); SecretWriter renders  *)
(* the bundle in the profile's output format (SecretRender).               *)
(*                                                                         *)
(* The state is the one object submitted; every property relates what      *)
(* admission decides about it to what a later stage does with it.          *)
(* Durations are time.Duration values in a unit of one minute, kept at a   *)
(* width of DurationBits bits so that Go's wrap-around is reproduced.      *)
(***************************************************************************)
EXTENDS Integers, SecretRender

CONSTANTS
    DurationBits,    \* width of time.Duration (64 in Go)
    MinGracePeriod,  \* validation.MinGracePeriod (5 minutes) in units
    Durations,       \* values submitted for rotation.interval and gracePeriod
    Namespaces,      \* namespaces of objects and of serviceAccountRef
    CurveValues,     \* values submitted for params["curve"] ("" when absent)
    KeySizeValues    \* values submitted for params["keySize"] ("" when absent)

(* The keySize strings whose strconv.Atoi result the module states.        *)
AtoiDomain == {"", "1024", "2048", "3072", "4096", "+3072", "03072", "4k", "0x800"}

ASSUME AdmissionAssumption ==
    /\ DurationBits \in Nat \ {0}
    /\ MinGracePeriod \in Nat
    /\ Durations \subseteq Int
    /\ KeySizeValues \subseteq AtoiDomain

-----------------------------------------------------------------------------
(* Go's signed arithmetic on time.Duration: a product wraps modulo         *)
(* 2^DurationBits into the signed range.                                   *)
DurationMod == 2^DurationBits
WrapDuration(x) == ((x + DurationMod \div 2) % DurationMod) - DurationMod \div 2
DurationRange == (-(DurationMod \div 2))..(DurationMod \div 2 - 1)

MinIntervalToGraceRatio == 3

(* ValidateNamespaceMatch: nil (TRUE) iff the two namespaces are equal.    *)
ValidateNamespaceMatch(objectNamespace, specNamespace) ==
    objectNamespace = specNamespace

(* Mutant: the interval is refused when it equals 3 x gracePeriod.         *)
ValidateRotationPolicy_Strict(interval, gracePeriod) ==
    /\ gracePeriod >= MinGracePeriod
    /\ interval > WrapDuration(MinIntervalToGraceRatio * gracePeriod)

(* ValidateRotationPolicy: nil (TRUE) when gracePeriod >= MinGracePeriod   *)
(* and interval >= minInterval, where minInterval is the time.Duration     *)
(* product 3 * gracePeriod.                                                 *)
ValidateRotationPolicy(interval, gracePeriod) ==
    /\ gracePeriod >= MinGracePeriod
    /\ interval >= WrapDuration(MinIntervalToGraceRatio * gracePeriod)

-----------------------------------------------------------------------------
AlgorithmEC == "EC"
AlgorithmRSA == "RSA"
RSAMinKeySize == 2048
RSARecommendedMinKeySize == 3072
validRSAKeySizes == {2048, 3072, 4096}

(* Mutant: P-224 added to the curves validation accepts.                   *)
validCurves_P224 == {"P-256", "P-384", "P-521", "P-224"}

(* The curves ValidateKeySpec accepts.                                     *)
validCurves == {"P-256", "P-384", "P-521"}

(* strconv.Atoi: an optional sign and decimal digits give the number,      *)
(* anything else (the empty string included) a syntax error.               *)
Parsed(n) == [err |-> FALSE, n |-> n]
Atoi(s) ==
    CASE s = "1024"                -> Parsed(1024)
      [] s = "2048"                -> Parsed(2048)
      [] s = "3072"                -> Parsed(3072)
      [] s = "4096"                -> Parsed(4096)
      [] s \in {"+3072", "03072"} -> Parsed(3072)
      [] OTHER                     -> [err |-> TRUE, n |-> 0]

(* A validation result: nil error with warnings, or an error.              *)
LegacyWarning == "legacy-key-size"
Accept(warnings) == [ok |-> TRUE, warnings |-> warnings]
Reject == [ok |-> FALSE, warnings |-> {}]

validateEC(params) ==
    IF params.curve = "" \/ params.curve \notin validCurves
    THEN Reject ELSE Accept({})

(* Mutant: the BSI opt-in is not checked; a legacy size only warns.        *)
validateRSA_NoOptIn(params, allowLegacy) ==
    LET size == Atoi(params.keySize) IN
    IF params.keySize = "" THEN Reject
    ELSE IF size.err THEN Reject
    ELSE IF size.n \notin validRSAKeySizes THEN Reject
    ELSE IF size.n < RSAMinKeySize THEN Reject
    ELSE IF size.n < RSARecommendedMinKeySize THEN Accept({LegacyWarning})
    ELSE Accept({})

(* validateRSA: keySize present, a number, one of 2048/3072/4096, at least *)
(* the absolute minimum; below 3072 only with allowLegacyKeySize, and then *)
(* with a deprecation warning.  The checks are early returns, taken in     *)
(* order (a failed Atoi has n = 0, which the later checks would also see).  *)
validateRSA(params, allowLegacy) ==
    LET size == Atoi(params.keySize) IN
    IF params.keySize = "" THEN Reject
    ELSE IF size.err THEN Reject
    ELSE IF size.n \notin validRSAKeySizes THEN Reject
    ELSE IF size.n < RSAMinKeySize THEN Reject
    ELSE IF size.n < RSARecommendedMinKeySize
         THEN IF allowLegacy THEN Accept({LegacyWarning}) ELSE Reject
    ELSE Accept({})

ValidateKeySpec(algorithm, params, allowLegacy) ==
    CASE algorithm = AlgorithmEC  -> validateEC(params)
      [] algorithm = AlgorithmRSA -> validateRSA(params, allowLegacy)
      [] OTHER                    -> Reject

(* parseCurve in generateEC: the curve names crypto/elliptic provides.     *)
parseCurve(name) == name \in {"P-256", "P-384", "P-521"}

(* Generate without its random-source failures: ValidateKeySpec, then      *)
(* generateEC's parseCurve or generateRSA's Atoi and rsa.GenerateKey,      *)
(* which refuses fewer than 1024 bits.                                     *)
GenerateAccepts(algorithm, params, allowLegacy) ==
    /\ ValidateKeySpec(algorithm, params, allowLegacy).ok
    /\ CASE algorithm = AlgorithmEC  -> parseCurve(params.curve)
         [] algorithm = AlgorithmRSA -> /\ ~Atoi(params.keySize).err
                                        /\ Atoi(params.keySize).n >= 1024
         [] OTHER                    -> FALSE

-----------------------------------------------------------------------------
(* A submitted KeyProfile, reduced to the fields admission, Generate and   *)
(* the renderer read ("" for a field left out): the values each field may  *)
(* take, and the objects they make up.                                     *)
FieldValues ==
    [namespace |-> Namespaces, saNamespace |-> Namespaces \cup {""},
     algorithm |-> {AlgorithmEC, AlgorithmRSA, "Ed25519"},
     params |-> [curve : CurveValues, keySize : KeySizeValues],
     allowLegacy |-> BOOLEAN, encoding |-> {"", "DER"},
     interval |-> Durations, gracePeriod |-> Durations,
     format |-> {"", "split-pem", "single-pem", "bundle-json", "jwks"}]

Objects ==
    [namespace : FieldValues.namespace, saNamespace : FieldValues.saNamespace,
     algorithm : FieldValues.algorithm, params : FieldValues.params,
     allowLegacy : FieldValues.allowLegacy, encoding : FieldValues.encoding,
     interval : FieldValues.interval, gracePeriod : FieldValues.gracePeriod,
     format : FieldValues.format]

(* The CRD's structural schema: the enums on keySpec.algorithm, encoding   *)
(* and output.format, and MinLength=1 on serviceAccountRef.namespace.      *)
SchemaOK(o) ==
    /\ o.algorithm \in {AlgorithmEC, AlgorithmRSA}
    /\ o.encoding \in {"PEM", "DER", "JWK"}
    /\ o.format \in {"split-pem", "bundle-json", "jwks"}
    /\ o.saNamespace # ""

(* KeyProfileCustomDefaulter.Default (and the CRD's own defaults):         *)
(* encoding PEM and format split-pem when left out.                        *)
Default(o) ==
    [o EXCEPT !.encoding = IF @ = "" THEN "PEM" ELSE @,
              !.format = IF @ = "" THEN FormatSplitPEM ELSE @]

(* validateKeyProfile: namespace match, rotation policy, then the key      *)
(* spec, whose warnings it returns (the TLS warnings of http targets are   *)
(* left out: no property reads them).                                      *)
validateKeyProfile(o) ==
    IF ~ValidateNamespaceMatch(o.namespace, o.saNamespace) THEN Reject
    ELSE IF ~ValidateRotationPolicy(o.interval, o.gracePeriod) THEN Reject
    ELSE ValidateKeySpec(o.algorithm, o.params, o.allowLegacy)

(* The API server stores the object: defaulted, schema-valid, and passed   *)
(* by ValidateCreate / ValidateUpdate.                                      *)
Admitted(o) ==
    LET d == Default(o) IN SchemaOK(d) /\ validateKeyProfile(d).ok

VARIABLE obj   \* the KeyProfile of the last create or update request

Init == obj \in Objects

(* An update request: the stored object with one field edited (a create   *)
(* is an Init state).                                                      *)
Submit ==
    \E f \in DOMAIN FieldValues : \E v \in FieldValues[f] :
        obj' = [obj EXCEPT ![f] = v]

Next == Submit

Spec == Init /\ [][Next]_obj

-----------------------------------------------------------------------------
(* Spec 6 ("Admission-time validator ... a spec accepted into the profile  *)
(* store is guaranteed to generate successfully later"): every key spec    *)
(* the webhook admits passes Generate's own validation and parameter       *)
(* parsing, so only the random source can make Generate fail.              *)
AdmittedIsGeneratable ==
    LET d == Default(obj) IN
    Admitted(obj) => GenerateAccepts(d.algorithm, d.params, d.allowLegacy)

(* Spec 3 and 8 (BSI TR-02102-1 in validateRSA): an admitted RSA key below *)
(* 3072 bits has allowLegacyKeySize set and carries the deprecation        *)
(* warning, and an admitted key of 3072 bits or more carries none.         *)
LegacyKeySizeNeedsOptIn ==
    LET d == Default(obj)
        n == Atoi(d.params.keySize).n
        warned == LegacyWarning \in validateKeyProfile(d).warnings
    IN  Admitted(obj) /\ d.algorithm = AlgorithmRSA =>
            /\ n < RSARecommendedMinKeySize <=> warned
            /\ warned => d.allowLegacy

(* The rule of RotationPolicy (spec 3, CRD field comments): gracePeriod at *)
(* least 5 minutes and interval at least 3 x gracePeriod, in integers.     *)
PolicyRule(interval, gracePeriod) ==
    /\ gracePeriod >= MinGracePeriod
    /\ interval >= MinIntervalToGraceRatio * gracePeriod

(* ValidateRotationPolicy accepts exactly the policies the rule allows,    *)
(* on every gracePeriod whose 3x product fits in a time.Duration (the test *)
(* table of validation.go, exact 3x ratio included, is such a case).       *)
RotationPolicyMatchesRule ==
    MinIntervalToGraceRatio * obj.gracePeriod \in DurationRange =>
        (ValidateRotationPolicy(obj.interval, obj.gracePeriod)
            <=> PolicyRule(obj.interval, obj.gracePeriod))

(* The invariant spec 3 says is "enforced upstream": no admitted profile   *)
(* has a rotation policy outside the rule, whatever its durations.         *)
AdmittedPolicyWithinRule ==
    Admitted(obj) => PolicyRule(obj.interval, obj.gracePeriod)

(* The CRD admits an output format only if SecretWriter can render it:     *)
(* otherwise every rotation of the profile fails after its key was         *)
(* published.                                                              *)
AdmittedFormatRenders ==
    Admitted(obj) => WriterRenders(Default(obj).format)
=============================================================================

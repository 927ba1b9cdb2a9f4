--------------------- MODULE KeyProfileAdmissionProofs ---------------------
(***************************************************************************)
(* What admission guarantees about a stored KeyProfile, proved for every   *)
(* width of time.Duration, every minimum grace period and every string a   *)
(* user may submit as curve or keySize (not only the ones the run         *)
(* enumerates).                                                            *)
(***************************************************************************)
EXTENDS KeyProfileAdmission, TLAPS

USE AdmissionAssumption

(* The submitted object is always one of the objects FieldValues makes up. *)
TypeOK == obj \in Objects

-----------------------------------------------------------------------------
(* Every update request keeps the object's type: one field is replaced by *)
(* a value of that field.                                                  *)
LEMMA TypeOKStep == TypeOK /\ [Next]_obj => TypeOK'
<1> SUFFICES ASSUME TypeOK, Submit PROVE TypeOK'
    BY DEF Next, TypeOK
<1>0. PICK f \in DOMAIN FieldValues :
             \E v \in FieldValues[f] : obj' = [obj EXCEPT ![f] = v]
    BY DEF Submit
<1>1. PICK v \in FieldValues[f] : obj' = [obj EXCEPT ![f] = v]
    BY <1>0
<1>2. CASE f = "namespace"
    BY <1>1, <1>2 DEF TypeOK, Objects, FieldValues
<1>3. CASE f = "saNamespace"
    BY <1>1, <1>3 DEF TypeOK, Objects, FieldValues
<1>4. CASE f = "algorithm"
    BY <1>1, <1>4 DEF TypeOK, Objects, FieldValues
<1>5. CASE f = "params"
    BY <1>1, <1>5 DEF TypeOK, Objects, FieldValues
<1>6. CASE f = "allowLegacy"
    BY <1>1, <1>6 DEF TypeOK, Objects, FieldValues
<1>7. CASE f = "encoding"
    BY <1>1, <1>7 DEF TypeOK, Objects, FieldValues
<1>8. CASE f = "interval"
    BY <1>1, <1>8 DEF TypeOK, Objects, FieldValues
<1>9. CASE f = "gracePeriod"
    BY <1>1, <1>9 DEF TypeOK, Objects, FieldValues
<1>10. CASE f = "format"
    BY <1>1, <1>10 DEF TypeOK, Objects, FieldValues
<1>11. QED BY <1>1, <1>2, <1>3, <1>4, <1>5, <1>6, <1>7, <1>8, <1>9, <1>10
           DEF FieldValues

(* The object stays well-formed in every behaviour of create and update    *)
(* requests.                                                               *)
THEOREM TypeCorrect == Spec => []TypeOK
BY TypeOKStep, PTL DEF Spec, Init, TypeOK

-----------------------------------------------------------------------------
(* Go's wrap-around is the identity on the values a time.Duration holds:  *)
(* a value in the signed range comes out of WrapDuration unchanged.        *)
LEMMA WrapInRange ==
    ASSUME NEW x \in DurationRange
    PROVE  WrapDuration(x) = x
<1>1. DurationMod \in Int /\ DurationMod \div 2 \in Int
    BY DEF DurationMod
<1>2. x \in Int /\ -(DurationMod \div 2) <= x /\ x <= DurationMod \div 2 - 1
    BY <1>1 DEF DurationRange
<1>3. DurationMod >= 2 /\ 2 * (DurationMod \div 2) <= DurationMod
    BY <1>1, <1>2
<1>4. x + DurationMod \div 2 \in 0..(DurationMod - 1)
    BY <1>1, <1>2, <1>3
<1>5. (x + DurationMod \div 2) % DurationMod = x + DurationMod \div 2
    BY <1>1, <1>3, <1>4
<1>6. QED BY <1>1, <1>2, <1>5 DEF WrapDuration

(* ValidateRotationPolicy accepts exactly the policies of the rule, for   *)
(* every duration width and minimum grace period, whenever 3 x gracePeriod *)
(* fits in a time.Duration: the overflow of validation.go:59 is the only  *)
(* way the check departs from the rule.                                    *)
THEOREM RotationPolicyMatchesRuleHolds == Spec => []RotationPolicyMatchesRule
<1>1. TypeOK => RotationPolicyMatchesRule
    <2> SUFFICES ASSUME TypeOK,
                        MinIntervalToGraceRatio * obj.gracePeriod \in DurationRange
                 PROVE  ValidateRotationPolicy(obj.interval, obj.gracePeriod)
                          <=> PolicyRule(obj.interval, obj.gracePeriod)
        BY DEF RotationPolicyMatchesRule
    <2>1. obj.interval \in Int /\ obj.gracePeriod \in Int
        BY DEF TypeOK, Objects, FieldValues
    <2>2. WrapDuration(MinIntervalToGraceRatio * obj.gracePeriod)
            = MinIntervalToGraceRatio * obj.gracePeriod
        BY WrapInRange
    <2>3. QED BY <2>2 DEF ValidateRotationPolicy, PolicyRule
<1>2. QED BY <1>1, TypeCorrect, PTL
-----------------------------------------------------------------------------
(* What validateRSA's acceptance tells: keySize parses to 2048, 3072 or    *)
(* 4096; 2048 only with allowLegacyKeySize and the deprecation warning,   *)
(* the others without a warning.  The proof splits on the string, since  *)
(* strconv.Atoi is a table.                                                *)
LEMMA RSAAccepted ==
    ASSUME NEW params, NEW allowLegacy \in BOOLEAN,
           validateRSA(params, allowLegacy).ok
    PROVE  /\ Atoi(params.keySize).err = FALSE
           /\ Atoi(params.keySize).n \in validRSAKeySizes
           /\ Atoi(params.keySize).n < RSARecommendedMinKeySize =>
                 /\ allowLegacy
                 /\ validateRSA(params, allowLegacy) = Accept({LegacyWarning})
           /\ Atoi(params.keySize).n >= RSARecommendedMinKeySize =>
                 validateRSA(params, allowLegacy) = Accept({})
<1>1. CASE params.keySize = "2048"
    <2>1. Atoi(params.keySize).err = FALSE /\ Atoi(params.keySize).n = 2048
        BY <1>1 DEF Atoi, Parsed
    <2>2. validateRSA(params, allowLegacy)
            = IF allowLegacy THEN Accept({LegacyWarning}) ELSE Reject
        BY <1>1, <2>1 DEF validateRSA, validRSAKeySizes, RSAMinKeySize,
                          RSARecommendedMinKeySize
    <2>3. allowLegacy
        BY <2>2 DEF Reject
    <2>4. QED BY <2>1, <2>2, <2>3 DEF validRSAKeySizes, RSARecommendedMinKeySize
<1>2. CASE params.keySize = "3072"
    <2>1. Atoi(params.keySize).err = FALSE /\ Atoi(params.keySize).n = 3072
        BY <1>2 DEF Atoi, Parsed
    <2>2. validateRSA(params, allowLegacy) = Accept({})
        BY <1>2, <2>1 DEF validateRSA, validRSAKeySizes, RSAMinKeySize,
                          RSARecommendedMinKeySize
    <2>3. QED BY <2>1, <2>2 DEF validRSAKeySizes, RSARecommendedMinKeySize
<1>6. CASE params.keySize = "+3072"
    <2>1. Atoi(params.keySize).err = FALSE /\ Atoi(params.keySize).n = 3072
        BY <1>6 DEF Atoi, Parsed
    <2>2. validateRSA(params, allowLegacy) = Accept({})
        BY <1>6, <2>1 DEF validateRSA, validRSAKeySizes, RSAMinKeySize,
                          RSARecommendedMinKeySize
    <2>3. QED BY <2>1, <2>2 DEF validRSAKeySizes, RSARecommendedMinKeySize
<1>7. CASE params.keySize = "03072"
    <2>1. Atoi(params.keySize).err = FALSE /\ Atoi(params.keySize).n = 3072
        BY <1>7 DEF Atoi, Parsed
    <2>2. validateRSA(params, allowLegacy) = Accept({})
        BY <1>7, <2>1 DEF validateRSA, validRSAKeySizes, RSAMinKeySize,
                          RSARecommendedMinKeySize
    <2>3. QED BY <2>1, <2>2 DEF validRSAKeySizes, RSARecommendedMinKeySize
<1>8. CASE params.keySize = "4096"
    <2>1. Atoi(params.keySize).err = FALSE /\ Atoi(params.keySize).n = 4096
        BY <1>8 DEF Atoi, Parsed
    <2>2. validateRSA(params, allowLegacy) = Accept({})
        BY <1>8, <2>1 DEF validateRSA, validRSAKeySizes, RSAMinKeySize,
                          RSARecommendedMinKeySize
    <2>3. QED BY <2>1, <2>2 DEF validRSAKeySizes, RSARecommendedMinKeySize
<1>3. CASE params.keySize = "1024"
    <2>1. Atoi(params.keySize).err = FALSE /\ Atoi(params.keySize).n = 1024
        BY <1>3 DEF Atoi, Parsed
    <2>2. validateRSA(params, allowLegacy) = Reject
        BY <1>3, <2>1 DEF validateRSA, validRSAKeySizes
    <2>3. QED BY <2>2 DEF Reject
<1>4. CASE params.keySize \notin {"1024", "2048", "3072", "+3072", "03072", "4096"}
    <2>1. Atoi(params.keySize).err = TRUE
        BY <1>4 DEF Atoi
    <2>2. validateRSA(params, allowLegacy) = Reject
        BY <2>1 DEF validateRSA
    <2>3. QED BY <2>2 DEF Reject
<1>5. QED BY <1>1, <1>2, <1>3, <1>4, <1>6, <1>7, <1>8

(* The defaulting webhook fills in only encoding and output format.        *)
LEMMA DefaultKeepsKeySpec ==
    ASSUME NEW o \in Objects
    PROVE  /\ Default(o).algorithm = o.algorithm
           /\ Default(o).params = o.params
           /\ Default(o).allowLegacy = o.allowLegacy
           /\ Default(o).namespace = o.namespace
           /\ Default(o).saNamespace = o.saNamespace
           /\ Default(o).interval = o.interval
           /\ Default(o).gracePeriod = o.gracePeriod
BY DEF Default, Objects

(* An admitted object passed the namespace and policy checks, so what the *)
(* webhook returned is what ValidateKeySpec returned, and it accepted an  *)
(* EC or RSA key spec.                                                     *)
LEMMA AdmittedKeySpec ==
    ASSUME NEW o \in Objects, Admitted(o)
    PROVE  LET d == Default(o) IN
           /\ d.algorithm \in {AlgorithmEC, AlgorithmRSA}
           /\ validateKeyProfile(d)
                = ValidateKeySpec(d.algorithm, d.params, d.allowLegacy)
           /\ ValidateKeySpec(d.algorithm, d.params, d.allowLegacy).ok
<1> DEFINE d == Default(o)
<1> USE DEF d
<1>1. SchemaOK(d) /\ validateKeyProfile(d).ok
    BY DEF Admitted
<1>2. ValidateNamespaceMatch(d.namespace, d.saNamespace)
      /\ ValidateRotationPolicy(d.interval, d.gracePeriod)
    BY <1>1 DEF validateKeyProfile, Reject
<1>3. validateKeyProfile(d) = ValidateKeySpec(d.algorithm, d.params, d.allowLegacy)
    BY <1>2 DEF validateKeyProfile
<1>4. QED BY <1>1, <1>3 DEF SchemaOK

(* Spec 6: every key spec the webhook admits passes Generate's own        *)
(* validation and parameter parsing, for every curve and keySize string a  *)
(* user may submit: an admitted EC curve is one crypto/elliptic provides,  *)
(* an admitted RSA keySize parses to at least the 1024 bits rsa.GenerateKey *)
(* requires.                                                               *)
THEOREM AdmittedIsGeneratableHolds == Spec => []AdmittedIsGeneratable
<1>1. ASSUME NEW o \in Objects, Admitted(o)
      PROVE  GenerateAccepts(Default(o).algorithm, Default(o).params,
                             Default(o).allowLegacy)
    <2> DEFINE d == Default(o)
    <2> USE DEF d
    <2>1. d.algorithm \in {AlgorithmEC, AlgorithmRSA}
          /\ ValidateKeySpec(d.algorithm, d.params, d.allowLegacy).ok
        BY <1>1, AdmittedKeySpec
    <2>2. CASE d.algorithm = AlgorithmEC
        <3>1. validateEC(d.params).ok
            BY <2>1, <2>2 DEF ValidateKeySpec, AlgorithmEC, AlgorithmRSA
        <3>2. parseCurve(d.params.curve)
            BY <3>1 DEF validateEC, Reject, Accept, validCurves, parseCurve
        <3>3. QED BY <2>1, <2>2, <3>2 DEF GenerateAccepts, AlgorithmEC, AlgorithmRSA
    <2>3. CASE d.algorithm = AlgorithmRSA
        <3>1. d.allowLegacy \in BOOLEAN
            BY DefaultKeepsKeySpec DEF Objects, FieldValues
        <3>2. validateRSA(d.params, d.allowLegacy).ok
            BY <2>1, <2>3 DEF ValidateKeySpec, AlgorithmEC, AlgorithmRSA
        <3>3. Atoi(d.params.keySize).err = FALSE
              /\ Atoi(d.params.keySize).n \in validRSAKeySizes
            BY <3>1, <3>2, RSAAccepted
        <3>4. QED BY <2>1, <2>3, <3>3 DEF GenerateAccepts, validRSAKeySizes,
                                           AlgorithmEC, AlgorithmRSA
    <2>4. QED BY <2>1, <2>2, <2>3
<1>2. TypeOK => AdmittedIsGeneratable
    BY <1>1 DEF TypeOK, AdmittedIsGeneratable
<1>3. QED BY <1>2, TypeCorrect, PTL

(* Spec 3 and 8: every admitted RSA key spec below 3072 bits has          *)
(* allowLegacyKeySize set and the webhook returns the deprecation warning *)
(* with it; one of 3072 bits or more is admitted without the warning.     *)
(* This holds for every keySize string, since validateRSA's early returns *)
(* are taken in order and Atoi's sign and leading-zero forms parse to the *)
(* same number.                                                            *)
THEOREM LegacyKeySizeNeedsOptInHolds == Spec => []LegacyKeySizeNeedsOptIn
<1>1. ASSUME NEW o \in Objects, Admitted(o), Default(o).algorithm = AlgorithmRSA
      PROVE  LET d == Default(o)
                 n == Atoi(d.params.keySize).n
                 warned == LegacyWarning \in validateKeyProfile(d).warnings
             IN  /\ n < RSARecommendedMinKeySize <=> warned
                 /\ warned => d.allowLegacy
    <2> DEFINE d == Default(o)
    <2> USE DEF d
    <2>1. validateKeyProfile(d)
            = ValidateKeySpec(d.algorithm, d.params, d.allowLegacy)
          /\ ValidateKeySpec(d.algorithm, d.params, d.allowLegacy).ok
        BY <1>1, AdmittedKeySpec
    <2>2. ValidateKeySpec(d.algorithm, d.params, d.allowLegacy)
            = validateRSA(d.params, d.allowLegacy)
        BY <1>1 DEF ValidateKeySpec, AlgorithmEC, AlgorithmRSA
    <2>3. d.allowLegacy \in BOOLEAN
        BY DefaultKeepsKeySpec DEF Objects, FieldValues
    <2>4. validateRSA(d.params, d.allowLegacy).ok
        BY <2>1, <2>2
    <2>5. /\ Atoi(d.params.keySize).n \in validRSAKeySizes
          /\ Atoi(d.params.keySize).n < RSARecommendedMinKeySize =>
                /\ d.allowLegacy
                /\ validateRSA(d.params, d.allowLegacy) = Accept({LegacyWarning})
          /\ Atoi(d.params.keySize).n >= RSARecommendedMinKeySize =>
                validateRSA(d.params, d.allowLegacy) = Accept({})
        BY <2>3, <2>4, RSAAccepted
    <2>6. CASE Atoi(d.params.keySize).n < RSARecommendedMinKeySize
        <3>1. validateKeyProfile(d) = Accept({LegacyWarning}) /\ d.allowLegacy
            BY <2>1, <2>2, <2>5, <2>6
        <3>2. QED BY <2>6, <3>1 DEF Accept
    <2>7. CASE ~(Atoi(d.params.keySize).n < RSARecommendedMinKeySize)
        <3>1. Atoi(d.params.keySize).n >= RSARecommendedMinKeySize
            BY <2>5, <2>7 DEF validRSAKeySizes, RSARecommendedMinKeySize
        <3>2. validateKeyProfile(d) = Accept({})
            BY <2>1, <2>2, <2>5, <3>1
        <3>3. QED BY <2>7, <3>2 DEF Accept
    <2>8. QED BY <2>6, <2>7
<1>2. TypeOK => LegacyKeySizeNeedsOptIn
    BY <1>1 DEF TypeOK, LegacyKeySizeNeedsOptIn
<1>3. QED BY <1>2, TypeCorrect, PTL
=============================================================================

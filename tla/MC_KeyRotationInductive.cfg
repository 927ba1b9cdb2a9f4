CONSTANTS
    p1 = p1
    p2 = p2
    s1 = s1
    t1 = t1
    t2 = t2
    NoProfile = NoProfile
    Profiles = {p1, p2}
    SecretNames = {s1}
    Targets = {t1, t2}
    SecretOf <- MCSecretOf
    TargetsOf <- MCTargetsOf
    BadTargets = {}
    Interval <- MCInterval
    Format <- MCFormat
    NumKeyIDs = 2
    UniqueKeyIDs = FALSE
    MaxKeys = 3
    MaxKeysPerProfile = 3
    Failures = TRUE
    MaxTime = 3
SPECIFICATION Spec
INVARIANTS
    RInv

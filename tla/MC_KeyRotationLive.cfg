CONSTANTS
    p1 = p1
    p2 = p2
    s1 = s1
    s2 = s2
    t1 = t1
    t2 = t2
    NoProfile = NoProfile
    Profiles = {p1, p2}
    SecretNames = {s1, s2}
    Targets = {t1, t2}
    SecretOf <- MCSecretOf
    TargetsOf <- MCTargetsOf
    BadTargets = {}
    Interval <- MCInterval
    Format <- MCFormat
    NumKeyIDs = 4
    UniqueKeyIDs = TRUE
    MaxKeys = 4
    MaxKeysPerProfile = 2
    Failures = FALSE
    MaxTime = 3
SPECIFICATION LiveSpec
PROPERTIES
    KeyEventuallyInstalled
    DueRotationHappens

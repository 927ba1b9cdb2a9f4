CONSTANTS
    DurationBits = 8
    MinGracePeriod = 5
    Durations <- MCDurations
    Namespaces = {"team-a"}
    CurveValues = {"", "P-256", "P-521", "P-224"}
    KeySizeValues = {"", "2048", "3072", "1024", "+3072", "4k"}
SPECIFICATION Spec
INVARIANT
    AdmittedFormatRenders

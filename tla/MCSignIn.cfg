SPECIFICATION SignInSpec
CONSTANTS
    Requests = {r1, r2}
    MaxFaults = 1
    loginMaxFails = 2
    MaxVersions = 2
    MaxPickers = 2
    MaxRows = 2
    MaxSecrets = 2
    MaxBatches = 2
    MaxChallenges = 2
    MaxMade = 3
SYMMETRY RequestSymmetry
INVARIANTS
    SignInTypeOK
    FailsCountRejections
    StaleSessionsAreLate
    PickersDieWithReset
    EnabledSecretIsProven
    BackupCodesAreThoseShown
PROPERTIES
    ChallengeOpensOneSession
    BackupCodeOpensOneSession
CHECK_DEADLOCK FALSE

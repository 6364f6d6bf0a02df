SPECIFICATION Spec
CONSTANTS
    Builds = {b1, b2}
    Versions = {v1}
    NoFile = NoFile
    Half = Half
    NoVersion = NoVersion
    Settings <- MCSettings
    MaxClock <- MCMaxClock
INVARIANTS LoadedIsCurrent ForceReadsCurrent OpenFindsAsked
SYMMETRY BuildSymmetry

SPECIFICATION Spec
CONSTANTS
    Builds = {b1, b2}
    Versions = {v1}
    NoFile = NoFile
    Half = Half
    NoVersion = NoVersion
    Settings <- PythonOnly
    MaxClock <- MCMaxClock
INVARIANTS OpenFindsCurrent

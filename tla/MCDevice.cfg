SPECIFICATION Spec
CONSTANTS
    Nubs = {1, 2}
    Units = {1, 2, 3, 4}
    NoNub = NoNub
    Absent = Absent
    Kinds = {k1, k2}
    ROMs = {{}, {k1, k2}}
    GenerationZero = {{}}
    Reads = 1
    Retries = 1
    MaxResets = 2
    MaxReadErrors = 1
    Races = {}
INVARIANTS Registry OpenAgrees
PROPERTIES NothingLingers
CHECK_DEADLOCK FALSE

SPECIFICATION Spec
CONSTANTS
    s1 = s1
    s2 = s2
    Sessions = {s1, s2}
    NoSession = NoSession
    Deserted = {}
    Payloads <- WellFormed
    MaxRows = 2
    MaxCrashes = 0
    MaxDbFaults = 1
INVARIANTS
    DrainedMirror

\* Two callers, three calls, two items, two libraries and up to two rounds.
SPECIFICATION Spec
CONSTANTS
    Callers = {c1, c2}
    Items = {i1, i2}
    Natives = {n1, n2}
    MaxRounds = 2
    MaxCalls = 3
    Nobody = Nobody
    NoJob = NoJob
    NoItem = NoItem
    NoOutput = NoOutput
    Malformed = Malformed
    Absent = Absent
    Partial = Partial
INVARIANTS
    NeverRefitted
    OneRequestPerArchive
    SameAnswer
PROPERTIES
    CallsEnd
CHECK_DEADLOCK FALSE

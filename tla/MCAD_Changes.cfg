SPECIFICATION Spec
CONSTANTS
    Admins = {a1, a2}
    Operators = {a1}
    Rules = {r1}
    Seeded = 1
    Posts = {q1}
    Defs = {d1}
    Global = Global
    Absent = Absent
    NoForm = NoForm
    NoKey = NoKey
    Keep = Keep
    MaxKeys = 3
    MaxCalls = 2
    MaxFaults = 1
INVARIANTS
    RevokedKeyRefused
    ChangesAudited
    StoredKeyIsKnown
PROPERTIES
    FiresInScope
    ToggleDoesWhatItSaid

CONSTANTS
    s = s
    Absent = Absent
    None = None
    Key = {1, 2, 3}
    Element = {1, 2}
    Scalar = {s}
    Own = {1}
    NameOf <- MCNameOf
    FinalDecision = {}
    Ruled = {2, 3}
    Constraint = {2, 3}
    Risk = {}
    Text = {s}
    Answer = {s}
    Level <- MCLevel
    MaxRevisions = 3
    Contents <- MCOneUnit
SPECIFICATION TreeSpec
INVARIANTS
    Homomorphic
CHECK_DEADLOCK FALSE

CONSTANTS
    s = s
    Absent = Absent
    None = None
    Key = {1, 2, 3}
    Element = {1, 2}
    Scalar = {s}
    Own = {1}
    NameOf <- MCNameOf
    FinalDecision = {1}
    Ruled = {2, 3}
    Constraint = {2, 3}
    Risk = {}
    Text = {s}
    Answer = {s}
    Level <- MCLevel
    MaxRevisions = 4
    Contents <- MCContents
SPECIFICATION TreeSpec
INVARIANTS
    AuditVerdictIsExact
    
    
    OnlyReturnsConflict
    ComposedIsNormal
    KeysStayUnique
CHECK_DEADLOCK FALSE

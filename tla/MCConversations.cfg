CONSTANTS
    u1 = u1
    u2 = u2
    q1 = q1
    q2 = q2
    q3 = q3
    n1 = n1
    n2 = n2
    n3 = n3
    User = {u1, u2}
    Request = {q1, q2, q3}
    Note = {n1, n2, n3}
    NoteLimit = 2
    HistoryLimit = 1
    EvidenceLimit = 1
    MinSelection = 2
    MinEvidence = 5
    SelectionChars = {1, 3}
    ContextChars = {0, 2}
    ExchangeChars = {2}
    Additions <- MCAdditions
    ManualNotes <- MCManualNotes
    MaxThreads = 1
    MaxSnapshots = 3
SPECIFICATION Spec
SYMMETRY Symmetry
CHECK_DEADLOCK FALSE
INVARIANTS
    CountIsExact
    LineageIsSound
    PinnedIsOfItsThread
PROPERTIES
    LeavingIsFinal
    SnapshotsStand

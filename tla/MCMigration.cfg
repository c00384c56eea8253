CONSTANTS
    p1 = p1
    p2 = p2
    a1 = a1
    a2 = a2
    b1 = b1
    a3 = a3
    k1 = k1
    k2 = k2
    k3 = k3
    k4 = k4
    k5 = k5
    k6 = k6
    x1 = x1
    x2 = x2
    r1 = r1
    r2 = r2
    r3 = r3
    r4 = r4
    r5 = r5
    r6 = r6
    None = None
    Package = {p1, p2}
    Bundle = {a1, a2, b1, a3, k1, k2, k3, k4, k5, k6, x1, x2}
    Revision = {r1, r2, r3, r4, r5, r6}
    SourceBundle = {a1, a2, b1, a3, k1, x1, x2}
    TargetBundle = {a1}
    Content <- MCContent
    RevisionNode <- MCRevisionNode
    Carrier <- MCCarrier
SPECIFICATION Spec
INVARIANTS
    ExportVerdictIsExact
    ImportedIsWhole
    AcceptedImportCompletes
PROPERTIES
    TargetIsClosedDag
CONSTRAINTS
    SourceIsSmall

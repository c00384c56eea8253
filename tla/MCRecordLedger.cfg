CONSTANTS
    c1 = c1
    c2 = c2
    p1 = p1
    p2 = p2
    b1 = b1
    b2 = b2
    x = x
    y = y
    r1 = r1
    r2 = r2
    r3 = r3
    r4 = r4
    k1 = k1
    k2 = k2
    s1 = s1
    s2 = s2
    None = None
    Client = {c1, c2}
    Package = {p1, p2}
    Bundle = {b1, b2}
    Payload = {x, y}
    Revision = {r1, r2, r3, r4}
    ExecutionId = {e1}
    Call = {k1, k2}
    Result = {s1, s2}
    Doc <- MCDoc
    RevisionNode <- MCRevisionNode
    Run <- MCRun
SPECIFICATION FairLedgerSpec
INVARIANTS
    LedgerTypeOK
    Closed
    ParentChainsEnd
    OkIsTrue
    ReplayBlamesCaller
PROPERTIES
    Spec
    RetryIsOk

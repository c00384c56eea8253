CONSTANTS
    u1 = u1
    u2 = u2
    p1 = p1
    p2 = p2
    h1 = h1
    h2 = h2
    h3 = h3
    h4 = h4
    Client = {c1, c2}
    User = {u1, u2}
    Package = {p1, p2}
    Payload = {h1, h2, h3, h4}
    MaxRevisions = 4
    None = None
    Unset = Unset
    Requests <- MCRequests
SPECIFICATION Spec
INVARIANTS
    TypeOK
    RevsAreDense
    LineageDescends
    CurrentIsOwn
    ExhaustedLostTwice
    CreatedOnce
PROPERTIES
    CurrentMovesOnRequest

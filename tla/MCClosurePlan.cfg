CONSTANTS
    low = low
    high = high
    Key = {1, 2, 3, 4, 5, 6, 7}
    Element = {1, 2}
    Scalar = {low, high}
    Absent = Absent
    Unsafe = Unsafe
    None = None
    Own = {1, 2, 3, 4}
    NameOf <- MCNameOf
    FinalDecision = {2}
    Ruled = {5, 6, 7}
    Text = {low, high}
    Answer = {low, high}
    Constraint = {3}
    Risk = {4}
    MaxSuggestions = 3
    Level <- MCLevel
    Base <- MCBase
    Proposal <- MCProposal
    Policy <- MCPolicy
SPECIFICATION Spec
INVARIANTS
    AcceptedIsClean
    
    RefusalsStand
    CoverageIsHonest
CHECK_DEADLOCK FALSE

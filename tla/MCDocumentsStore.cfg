CONSTANTS
    None = None
    r1 = r1
    r2 = r2
    q1 = q1
    p = p
    q = q
    c = c
    x = x
    e = e
    noon = noon
    Revision = {r1, q1}
    PackageOf <- MCPackageOf
    ParentOf <- MCParentOf
    Text = {1, 2}
    Other = Other
    Action = {1, 2, 3, 4}
    Mend <- MCMend
    Unfit = {4}
    Includes <- MCIncludes
    Givens <- MCGivens
    LowerHex = {c, e}
    Trunks <- MCTrunks
    NextActions <- MCNextActions
    Times = {None}
    MaxTransfers = 1
    MaxHandoffs = 1
    MaxBundles = 1
    MaxAltered = 0
SPECIFICATION Spec
INVARIANTS
    BuiltBundleIsStored
CHECK_DEADLOCK FALSE

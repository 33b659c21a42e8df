SPECIFICATION Spec
CONSTANTS
    s1 = s1
    s2 = s2
    s3 = s3
    home = home
    tree = tree
    Whole = Whole
    None = None
    Absent = Absent
    Sessions = {s1, s2, s3}
    Campaigns = {"c1", "c2"}
    Contexts = {"d1", "d2"}
    Standard = {"d1"}
    sub = sub
    nested = nested
    base = base
    Refused = Refused
    Dirs = {home, tree, sub, nested, base}
    Path <- MCPath
    Sites <- MCSites
    Root = home
    Worktrees = {tree}
    Snapshots <- MCSnapshots
    Asks <- MCAsks
    MaxRows = 2
    MaxClaims = 1
SYMMETRY MCSymmetry
INVARIANTS BoundIsAuthorized ForeignWorkIsRefused NeverGuesses

SPECIFICATION Spec
CONSTANTS
    c1 = c1
    c2 = c2
    b1 = b1
    s1 = s1
    r1 = r1
    None = None
    Free = Free
    Orphan = Orphan
    Committers <- MCCommitters
    Rebuilders <- MCRebuilders
    Savers <- MCSavers
    Readers <- MCReaders
    MaxRev = 2
    MaxVer = 3
SYMMETRY MCSymmetry
INVARIANTS
    OkReadIsFaithful
    PointerHasItsShard
    IndexNeverAhead
    ProvedCommitIsIndexed
PROPERTIES
    OnlySavesRewriteShards

CONSTANTS
    n1 = n1
    n2 = n2
    n3 = n3
    byz = byz
    Names = {"P", "Q", "R"}
    Nodes <- TwoNodes
    Byzantine = {}
    Blocks <- Names
    Genesis = "G"
    height <- MCHeight
    parent <- MCParent
    rank <- MCRank
    maker <- MCMaker
    certified <- MCCertified
    committee <- CatchUpCommittees
    lowCommittee <- TwoNodes
    highCommittee <- TwoNodes
    SummaryHeights = {2}
    FirstBeacon = 0
    MaxBatches = 3
    NoBlock = "none"
SPECIFICATION FairSpec
CHECK_DEADLOCK FALSE
INVARIANTS PoolComplete BeaconShareFirst
PROPERTIES ExecutesOneLog BeaconsKeepUp NobodyLeftBehind

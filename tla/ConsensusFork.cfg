CONSTANTS
    n1 = n1
    n2 = n2
    n3 = n3
    byz = byz
    Names = {"A1", "A2", "C2"}
    Nodes <- FourNodes
    Byzantine = {byz}
    Blocks <- Names
    Genesis = "G"
    height <- MCHeight
    parent <- MCParent
    rank <- MCRank
    maker <- MCMaker
    certified <- MCCertified
    committee <- ForkCommittees
    lowCommittee <- FourNodes
    highCommittee <- FourNodes
    SummaryHeights = {}
    FirstBeacon = 1
    MaxBatches = 1
    NoBlock = "none"
SPECIFICATION Spec
CHECK_DEADLOCK FALSE
SYMMETRY ForkSymmetry
INVARIANTS TypeOK FinalizationExcludesForks FinalityShareBinds FinalizedBlocksOnChain
PROPERTIES ExecutesOneLog

CONSTANTS
    n1 = n1
    n2 = n2
    n3 = n3
    byz = byz
    Names = {"A1", "A2"}
    Nodes <- FourNodes
    Byzantine = {byz}
    Blocks <- Names
    Genesis = "G"
    height <- MCHeight
    parent <- MCParent
    rank <- MCRank
    maker <- MCMaker
    certified <- MCCertified
    committee <- LiveCommittees
    lowCommittee <- FourNodes
    highCommittee <- FourNodes
    SummaryHeights = {}
    FirstBeacon = 0
    MaxBatches = 1
    NoBlock = "none"
SPECIFICATION RoundSpec
CHECK_DEADLOCK FALSE
PROPERTIES RoundsComplete

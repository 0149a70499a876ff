----------------------------- MODULE Consensus -----------------------------
(***************************************************************************)
(* The consensus component of one subnet: ConsensusImpl and its            *)
(* subcomponents (block maker, notary, finalizer, random beacon maker,     *)
(* share aggregator, validator, catch-up package maker) on every honest    *)
(* replica, with the validated section of the replica's consensus pool as  *)
(* state.  A call of on_state_change runs one subcomponent and applies its *)
(* change set, so every subcomponent is one action.                        *)
(*                                                                         *)
(* The validated section survives a restart; the unvalidated section is    *)
(* whatever gossip has brought so far, so an artifact that exists may be   *)
(* validated by a replica at any later time, in any order, or never.       *)
(* Signature shares matter only once a threshold of them is in a pool:     *)
(* receiving, validating and aggregating them, and receiving the aggregate *)
(* from a peer, are folded into the one step that adds the aggregate to    *)
(* the validated section.  Byzantine replicas sign everything.             *)
(***************************************************************************)
EXTENDS Integers, Sequences, FiniteSets

CONSTANTS Nodes,           \* the replicas of the subnet
          Byzantine,       \* the faulty ones
          Blocks,          \* every block that could be made, apart from Genesis
          Genesis,         \* the block of the genesis catch-up package
          height, parent,  \* of each block (parent stands for the parent's hash)
          rank, maker,     \* of each block: the maker, and its rank at that height
          certified,       \* of each block: the certified height of its validation context
          committee,       \* the notarization committee of each height
          lowCommittee,    \* who holds the keys of the low and the high threshold
          highCommittee,   \*   transcript, that is, who can sign beacons and CUPs
          SummaryHeights,  \* the heights of DKG summary blocks, where CUPs are made
          FirstBeacon,     \* the height of the beacon everybody has from the start
          MaxBatches,      \* bound: how many batches message routing takes
          NoBlock          \* the Option None

Honest == Nodes \ Byzantine
AllBlocks == Blocks \cup {Genesis}
Heights == {height[b] : b \in Blocks}

(* The beacons that some block of the universe needs: the bound on them. *)
BeaconHeights == {height[b] - 1 : b \in Blocks}

(* Thresholds, as functions of the size of the subnet. *)
get_faults_tolerated(n) == ((IF n > 1 THEN n ELSE 1) - 1) \div 3

get_committee_size(n) == 3 * get_faults_tolerated(n) + 1

get_notarization_threshold(n) ==
    get_committee_size(n) - get_faults_tolerated(get_committee_size(n))

NotarizationThreshold == get_notarization_threshold(Cardinality(Nodes))

LowThreshold == get_faults_tolerated(get_committee_size(Cardinality(Nodes))) + 1

HighThreshold ==
    get_committee_size(Cardinality(Nodes))
        - get_faults_tolerated(get_committee_size(Cardinality(Nodes)))

ASSUME BlocksAssumption ==
    /\ Genesis \notin Blocks
    /\ NoBlock \notin AllBlocks
    /\ height \in [AllBlocks -> Nat]
    /\ parent \in [Blocks -> AllBlocks]
    /\ rank \in [Blocks -> Nat]
    /\ maker \in [Blocks -> Nodes]
    /\ height[Genesis] = 0
    /\ \A b \in Blocks : height[b] = height[parent[b]] + 1
    /\ certified \in [AllBlocks -> Nat]
    /\ certified[Genesis] = 0
    /\ \A b \in Blocks : certified[b] \in certified[parent[b]]..height[parent[b]]

ASSUME CommitteeAssumption ==
    /\ IsFiniteSet(Nodes)
    /\ Byzantine \subseteq Nodes /\ Byzantine # Nodes
    /\ committee \in [Heights -> SUBSET Nodes]
    /\ lowCommittee \subseteq Nodes /\ highCommittee \subseteq Nodes
    /\ \A h \in Heights :
          /\ Cardinality(committee[h]) = get_committee_size(Cardinality(Nodes))
          /\ Cardinality(committee[h] \cap Byzantine)
                <= get_faults_tolerated(Cardinality(Nodes))

(* Beacon 1 needs no block: it may be there before round 1 has begun. *)
ASSUME BoundsAssumption ==
    /\ FirstBeacon \in {0, 1}
    /\ MaxBatches \in Nat
    /\ SummaryHeights \subseteq Nat

VARIABLES
    proposals,      \* per replica: validated block proposals
    notarizations,  \* per replica: blocks with a validated notarization
    finalizations,  \* per replica: blocks with a validated finalization
    notarShares,    \* per replica: blocks it has issued a notarization share for
    finalShares,    \* per replica: blocks it has issued a finalization share for
    beacon,         \* per replica: height of its last random beacon
    beaconShare,    \* per replica: height of its last random beacon share
    cup,            \* per replica: its highest catch-up package
    cupShares,      \* per replica: the catch-up contents it has signed
    state           \* per replica: the blocks whose batches its state has executed

pools == <<proposals, notarizations, finalizations>>
shares == <<notarShares, finalShares>>
beacons == <<beacon, beaconShare>>
cups == <<cup, cupShares>>
vars == <<proposals, notarizations, finalizations, notarShares, finalShares,
          beacon, beaconShare, cup, cupShares, state>>

CatchUpContent == [block : AllBlocks, state : Seq(Blocks)]

TypeOK ==
    /\ proposals \in [Honest -> SUBSET Blocks]
    /\ notarizations \in [Honest -> SUBSET Blocks]
    /\ finalizations \in [Honest -> SUBSET Blocks]
    /\ notarShares \in [Honest -> SUBSET Blocks]
    /\ finalShares \in [Honest -> SUBSET Blocks]
    /\ beacon \in [Honest -> Nat]
    /\ beaconShare \in [Honest -> Nat]
    /\ cup \in [Honest -> CatchUpContent]
    /\ cupShares \in [Honest -> SUBSET CatchUpContent]
    /\ state \in [Honest -> Seq(Blocks)]

Init ==
    /\ proposals = [n \in Honest |-> {}]
    /\ notarizations = [n \in Honest |-> {}]
    /\ finalizations = [n \in Honest |-> {}]
    /\ notarShares = [n \in Honest |-> {}]
    /\ finalShares = [n \in Honest |-> {}]
    /\ beacon = [n \in Honest |-> FirstBeacon]
    /\ beaconShare = [n \in Honest |-> FirstBeacon]
    /\ cup = [n \in Honest |-> [block |-> Genesis, state |-> <<>>]]
    /\ cupShares = [n \in Honest |-> {}]
    /\ state = [n \in Honest |-> <<>>]

-----------------------------------------------------------------------------
(* What a replica reads from its pool (PoolReader). *)

At(S, h) == {b \in S : height[b] = h}

CupHeight(n) == height[cup[n].block]

NotarizedHeights(n) == {height[b] : b \in notarizations[n]} \cup {CupHeight(n)}

NotarizedHeight(n) ==
    LET hs == NotarizedHeights(n) IN CHOOSE h \in hs : \A g \in hs : g <= h

NotarizedBlocks(n, h) ==
    IF h > CupHeight(n) THEN At(notarizations[n], h) ELSE At({cup[n].block}, h)

(* The block of the highest finalization, or that of the CUP if it is higher. *)
FinalizedTip(n) ==
    LET above == {b \in finalizations[n] : height[b] > CupHeight(n)}
    IN  IF above = {} THEN cup[n].block
        ELSE CHOOSE b \in above : \A c \in above : height[c] <= height[b]

FinalizedHeight(n) == height[FinalizedTip(n)]

(* The ancestor of b at height h, or b itself if it is not above h. *)
Ancestor[b \in AllBlocks] ==
    [h \in Heights \cup {0} |-> IF height[b] <= h THEN b ELSE Ancestor[parent[b]][h]]

(* Walking back from b to height h through the validated proposals. *)
follow_to_height(n, b, h) ==
    IF /\ Ancestor[b][h] \in proposals[n]
       /\ \A g \in h..height[b] : Ancestor[b][g] \in proposals[n]
    THEN Ancestor[b][h]
    ELSE NoBlock

(* Mutant: the notarized block of that height, however many there are. *)
get_finalized_block_AnyNotarized(n, h) ==
    IF h > FinalizedHeight(n) \/ NotarizedBlocks(n, h) = {} THEN NoBlock
    ELSE CHOOSE b \in NotarizedBlocks(n, h) : TRUE

get_finalized_block(n, h) ==
    LET notarized == NotarizedBlocks(n, h)
        above     == {b \in finalizations[n] : height[b] >= h}
    IN  IF h < CupHeight(n) \/ h > FinalizedHeight(n) THEN NoBlock
        ELSE IF h = CupHeight(n) THEN cup[n].block
        ELSE IF \E b \in notarized : notarized = {b} THEN CHOOSE b \in notarized : TRUE
        ELSE follow_to_height(n, CHOOSE b \in above : \A c \in above : height[b] <= height[c], h)

find_lowest_ranked_proposals(n, h) ==
    {b \in At(proposals[n], h) : \A c \in At(proposals[n], h) : rank[b] <= rank[c]}

(* No random beacon for the next height, and no share for it from this     *)
(* replica, although the previous beacon and a notarized block are there,  *)
(* and it is in the committee.                                             *)
BeaconShareDue(n) ==
    /\ n \in lowCommittee
    /\ beaconShare[n] <= beacon[n]
    /\ beacon[n] + 1 \in BeaconHeights
    /\ beacon[n] = NotarizedHeight(n)

(* Mutant: the validator may run before the beacon maker. *)
AfterBeaconMaker_Anytime(n) == TRUE

(* The block maker and the validator find no beacon share due: the changes *)
(* to the pool that make one due come from the aggregator or the validator, *)
(* after which the schedule calls the beacon maker before it comes to the  *)
(* block maker and then the validator.  A restarted replica begins with    *)
(* the finalizer, so again calls the beacon maker before these two.        *)
AfterBeaconMaker(n) == ~BeaconShareDue(n)

-----------------------------------------------------------------------------
(* What exists in the network. *)

(* Proposals of honest makers are in the pool of their maker. *)
Available(b) == maker[b] \in Byzantine \/ \E m \in Honest : b \in proposals[m]

Signed(b, sigs, faulty) ==
    Cardinality(({m \in Honest : b \in sigs[m]} \cup faulty) \cap committee[height[b]])
        >= NotarizationThreshold

(* A notarization somebody has already, or one that enough replicas signed. *)
Notarizable(b, faulty) ==
    \/ \E m \in Honest : b \in notarizations[m]
    \/ Signed(b, notarShares, faulty)

Finalizable(b, faulty) ==
    \/ \E m \in Honest : b \in finalizations[m]
    \/ Signed(b, finalShares, faulty)

BeaconAvailable(h, faulty) ==
    \/ \E m \in Honest : beacon[m] >= h
    \/ Cardinality(({m \in Honest : beaconShare[m] >= h} \cup faulty) \cap lowCommittee)
            >= LowThreshold

CupAvailable(c, faulty) ==
    \/ \E m \in Honest : cup[m] = c
    \/ Cardinality(({m \in Honest : c \in cupShares[m]} \cup faulty) \cap highCommittee)
            >= HighThreshold

-----------------------------------------------------------------------------
(* latest_certified_height has reached the height: the state has; whether  *)
(* its certification has arrived is left open.                             *)
Certified(n, h) == h <= Len(state[n])

(* BlockMaker: extend a lowest ranked notarized block.  Whether it is time *)
(* to, and whether the registry version of the context is there, is left   *)
(* open.                                                                   *)
MakeBlock(n, b) ==
    LET h       == NotarizedHeight(n)
        parents == NotarizedBlocks(n, h)
    IN  /\ maker[b] = n
        /\ AfterBeaconMaker(n)
        /\ beacon[n] >= h
        /\ Certified(n, certified[b])
        /\ height[b] = h + 1
        /\ parent[b] \in parents
        /\ \A c \in parents \cap Blocks : rank[parent[b]] <= rank[c]
        /\ \A c \in At(proposals[n], h + 1) : maker[c] # n
        /\ \A c \in At(proposals[n], h + 1) : rank[c] >= rank[b]
        /\ proposals' = [proposals EXCEPT ![n] = @ \cup {b}]
        /\ UNCHANGED <<notarizations, finalizations, shares, beacons, cups, state>>

(* Mutant: sign in every round that is not finalized yet. *)
Notarize_OlderRounds(n) ==
    LET new == UNION {find_lowest_ranked_proposals(n, h) :
                        h \in (FinalizedHeight(n) + 1)..(NotarizedHeight(n) + 1)} \ notarShares[n]
    IN  /\ beacon[n] >= NotarizedHeight(n)
        /\ new # {}
        /\ notarShares' = [notarShares EXCEPT ![n] = @ \cup new]
        /\ UNCHANGED <<pools, finalShares, beacons, cups, state>>

(* Notary: sign the lowest ranked proposals of the current round, once the *)
(* delay for their rank has passed.                                        *)
Notarize(n) ==
    LET h   == NotarizedHeight(n)
        new == find_lowest_ranked_proposals(n, h + 1) \ notarShares[n]
    IN  /\ beacon[n] >= h
        /\ new # {}
        /\ n \in committee[h + 1]
        /\ notarShares' = [notarShares EXCEPT ![n] = @ \cup new]
        /\ UNCHANGED <<pools, finalShares, beacons, cups, state>>

(* RandomBeaconMaker: a share for the height after the notarized one. *)
MakeBeaconShare(n) ==
    /\ BeaconShareDue(n)
    /\ beaconShare' = [beaconShare EXCEPT ![n] = beacon[n] + 1]
    /\ UNCHANGED <<pools, shares, beacon, cups, state>>

(* Mutant: the replica's own notarization shares are not looked at. *)
pick_block_to_finality_sign_AnyShares(n, h) ==
    {b \in NotarizedBlocks(n, h) :
        /\ beacon[n] >= h - 1
        /\ n \in committee[h]
        /\ At(finalShares[n], h) = {}
        /\ NotarizedBlocks(n, h) = {b}}

(* Finalizer: the block of height h that n may sign, if any. *)
pick_block_to_finality_sign(n, h) ==
    {b \in NotarizedBlocks(n, h) :
        /\ beacon[n] >= h - 1
        /\ n \in committee[h]
        /\ At(finalShares[n], h) = {}
        /\ NotarizedBlocks(n, h) = {b}
        /\ At(notarShares[n], h) \subseteq {b}}

(* Mutant: one height too far. *)
Delivered_OffByOne(n, k) ==
    state[n] \o [i \in 1..k |-> get_finalized_block(n, Len(state[n]) + i + 1)]

(* Mutant: continue above the CUP when there is one. *)
Delivered_AboveCup(n, k) ==
    LET first == IF Len(state[n]) < CupHeight(n) THEN CupHeight(n) ELSE Len(state[n])
    IN  state[n] \o [i \in 1..k |-> get_finalized_block(n, first + i)]

(* Batches are delivered in order while the finalized block is known, its  *)
(* random tape is there and message routing accepts them.                  *)
Delivered(n, k) ==
    state[n] \o [i \in 1..k |-> get_finalized_block(n, Len(state[n]) + i)]

(* Finalizer: deliver finalized batches, then sign for finality. *)
Finalize(n) ==
    LET new == UNION {pick_block_to_finality_sign(n, h) :
                        h \in (FinalizedHeight(n) + 1)..NotarizedHeight(n)}
    IN  \E k \in 0..(FinalizedHeight(n) - Len(state[n])) :
          /\ k > 0 \/ new # {}
          /\ k > 0 => Len(state[n]) + k <= MaxBatches
          /\ \A i \in 1..k : get_finalized_block(n, Len(state[n]) + i) # NoBlock
          /\ state' = [state EXCEPT ![n] = Delivered(n, k)]
          /\ finalShares' = [finalShares EXCEPT ![n] = @ \cup new]
          /\ UNCHANGED <<pools, notarShares, beacons, cups>>

(* CatchUpPackageMaker: sign a finalized summary block together with the   *)
(* state after it, once the chain above it refers to that state.           *)
MakeCupShare(n, h) ==
    LET block == get_finalized_block(n, h)
    IN  /\ h > CupHeight(n)
        /\ block # NoBlock
        /\ n \in highCommittee
        /\ beacon[n] >= h
        /\ certified[FinalizedTip(n)] >= h
        /\ Len(state[n]) >= h
        /\ \A d \in cupShares[n] : height[d.block] # h
        /\ cupShares' = [cupShares EXCEPT ![n] =
                            @ \cup {[block |-> block, state |-> SubSeq(state[n], 1, h)]}]
        /\ UNCHANGED <<pools, shares, beacons, cup, state>>

(* Mutant: no state sync when only one batch is missing. *)
StateSync_OffByOne(n) ==
    /\ Len(state[n]) + 2 < CupHeight(n)
    /\ state' = [state EXCEPT ![n] = cup[n].state]
    /\ UNCHANGED <<pools, shares, beacons, cups>>

(* invoke_state_sync: batches below the CUP are gone, fetch its state. *)
StateSync(n) ==
    /\ Len(state[n]) + 1 < CupHeight(n)
    /\ state' = [state EXCEPT ![n] = cup[n].state]
    /\ UNCHANGED <<pools, shares, beacons, cups>>

-----------------------------------------------------------------------------
(* ShareAggregator and Validator: artifacts enter the validated section.   *)

(* Aggregator, or validator when a peer's beacon arrives. *)
AddBeacon(n, faulty) ==
    /\ BeaconAvailable(beacon[n] + 1, faulty)
    /\ beacon' = [beacon EXCEPT ![n] = @ + 1]
    /\ UNCHANGED <<pools, shares, beaconShare, cups, state>>

(* Aggregator: notarizations of the current round. *)
AggregateNotarizations(n, faulty) ==
    /\ \E new \in SUBSET {b \in At(proposals[n], NotarizedHeight(n) + 1) :
                                        Signed(b, notarShares, faulty)} :
          /\ new # {}
          /\ notarizations' = [notarizations EXCEPT ![n] = @ \cup new]
    /\ UNCHANGED <<proposals, finalizations, shares, beacons, cups, state>>

(* Validator: a notarization from a peer, for a proposal already validated. *)
ValidateNotarization(n, b, faulty) ==
    /\ b \in proposals[n] \ notarizations[n]
    /\ AfterBeaconMaker(n)
    /\ height[b] > FinalizedHeight(n)
    /\ beacon[n] >= height[b] - 1
    /\ Notarizable(b, faulty)
    /\ notarizations' = [notarizations EXCEPT ![n] = @ \cup {b}]
    /\ UNCHANGED <<proposals, finalizations, shares, beacons, cups, state>>

(* Mutant: a finalization is accepted before the notarization. *)
AddFinalization_Unnotarized(n, b, faulty) ==
    /\ b \in proposals[n] \ finalizations[n]
    /\ height[b] > FinalizedHeight(n)
    /\ beacon[n] >= height[b] - 1
    /\ Finalizable(b, faulty)
    /\ finalizations' = [finalizations EXCEPT ![n] = @ \cup {b}]
    /\ UNCHANGED <<proposals, notarizations, shares, beacons, cups, state>>

(* Aggregator or validator: a finalization of a notarized block. *)
AddFinalization(n, b, faulty) ==
    /\ b \in notarizations[n] \ finalizations[n]
    /\ height[b] > FinalizedHeight(n)
    /\ beacon[n] >= height[b] - 1
    /\ Finalizable(b, faulty)
    /\ finalizations' = [finalizations EXCEPT ![n] = @ \cup {b}]
    /\ UNCHANGED <<proposals, notarizations, shares, beacons, cups, state>>

(* The proposals validate_blocks looks at, their parent being notarized. *)
Validatable(n, b) ==
    /\ b \notin proposals[n]
    /\ Available(b)
    /\ AfterBeaconMaker(n)
    /\ height[b] \in (FinalizedHeight(n) + 1)..(NotarizedHeight(n) + 1)
    /\ beacon[n] >= height[b] - 1
    /\ parent[b] \in NotarizedBlocks(n, height[b] - 1)

(* Mutant: one proposal for each rank. *)
ValidateBlock_OnePerRank(n, b) ==
    /\ Validatable(n, b)
    /\ Certified(n, certified[b])
    /\ \A c \in At(proposals[n], height[b]) : rank[b] < rank[c]
    /\ proposals' = [proposals EXCEPT ![n] = @ \cup {b}]
    /\ UNCHANGED <<notarizations, finalizations, shares, beacons, cups, state>>

(* Validator: a proposal on its own, unless a better one is known or the   *)
(* replica's state is behind the proposal's context.                       *)
ValidateBlock(n, b) ==
    /\ Validatable(n, b)
    /\ Certified(n, certified[b])
    /\ \A c \in At(proposals[n], height[b]) : rank[b] <= rank[c]
    /\ proposals' = [proposals EXCEPT ![n] = @ \cup {b}]
    /\ UNCHANGED <<notarizations, finalizations, shares, beacons, cups, state>>

(* The rank of a block moved with its notarization replaces the best known *)
(* rank for the rest of the call: the proposals that only then get through. *)
LetThrough(n, b) ==
    {c \in At(Blocks, height[b]) \ {b} :
        /\ rank[c] <= rank[b]
        /\ Certified(n, certified[c])
        /\ \E d \in At(proposals[n], height[b]) : rank[d] < rank[c]
        /\ Validatable(n, c)}

(* Validator: a proposal whose notarization has arrived is moved together  *)
(* with it, whatever its rank.                                             *)
ValidateNotarizedBlock(n, b, faulty) ==
    /\ Validatable(n, b)
    /\ Notarizable(b, faulty)
    /\ \E others \in SUBSET LetThrough(n, b) :
          proposals' = [proposals EXCEPT ![n] = @ \cup {b} \cup others]
    /\ notarizations' = [notarizations EXCEPT ![n] = @ \cup {b}]
    /\ UNCHANGED <<finalizations, shares, beacons, cups, state>>

(* Aggregator or validator: a catch-up package above the current one, which *)
(* also brings the beacon of its height.                                    *)
AddCup(n, c, faulty) ==
    /\ height[c.block] > CupHeight(n)
    /\ CupAvailable(c, faulty)
    /\ cup' = [cup EXCEPT ![n] = c]
    /\ beacon' = [beacon EXCEPT ![n] = IF @ > height[c.block] THEN @ ELSE height[c.block]]
    /\ UNCHANGED <<pools, shares, beaconShare, cupShares, state>>

-----------------------------------------------------------------------------
(* The replica process restarts: the pool and the checkpoints, which are   *)
(* made at the summary heights, are on disk; later states are lost.  It    *)
(* starts from the highest checkpoint that is not above starting_height,   *)
(* which is the height of the CUP or any later certified height; if all    *)
(* checkpoints are above, from the lowest, and without any from nothing.   *)
Restart(n, h) ==
    /\ h < Len(state[n])
    /\ \A g \in SummaryHeights : g <= Len(state[n]) /\ (g <= CupHeight(n) \/ h = 0) => g <= h
    /\ state' = [state EXCEPT ![n] = SubSeq(@, 1, h)]
    /\ UNCHANGED <<pools, shares, beacons, cups>>

SignedCups == UNION {cupShares[m] : m \in Honest}

Next ==
    \E n \in Honest :
        \/ \E b \in Blocks : MakeBlock(n, b)
        \/ Notarize(n)
        \/ MakeBeaconShare(n)
        \/ Finalize(n)
        \/ \E h \in SummaryHeights : MakeCupShare(n, h)
        \/ StateSync(n)
        \/ AddBeacon(n, Byzantine)
        \/ AggregateNotarizations(n, Byzantine)
        \/ \E b \in Blocks : ValidateNotarization(n, b, Byzantine)
        \/ \E b \in Blocks : AddFinalization(n, b, Byzantine)
        \/ \E b \in Blocks : ValidateBlock(n, b)
        \/ \E b \in Blocks : ValidateNotarizedBlock(n, b, Byzantine)
        \/ \E c \in SignedCups : AddCup(n, c, Byzantine)
        \/ \E h \in SummaryHeights \cup {0} : Restart(n, h)

Spec == Init /\ [][Next]_vars

(* What every honest replica gets done without the help of faulty ones:    *)
(* the round robin schedule calls each subcomponent again and again, the   *)
(* rank-based delays pass, and gossip brings what honest replicas have     *)
(* validated.                                                              *)
PoolStep(n) ==
    \/ \E b \in Blocks : MakeBlock(n, b)
    \/ Notarize(n)
    \/ MakeBeaconShare(n)
    \/ \E h \in SummaryHeights : MakeCupShare(n, h)
    \/ AddBeacon(n, {})
    \/ AggregateNotarizations(n, {})
    \/ \E b \in Blocks : ValidateNotarization(n, b, {})
    \/ \E b \in Blocks : AddFinalization(n, b, {})
    \/ \E m \in Honest : \E b \in proposals[m] : ValidateBlock(n, b)
    \/ \E b \in Blocks : ValidateNotarizedBlock(n, b, {})
    \/ \E c \in SignedCups : AddCup(n, c, {})

(* The part of the variables that belongs to replica n. *)
Of(n) == <<proposals[n], notarizations[n], finalizations[n], notarShares[n], finalShares[n],
           beacon[n], beaconShare[n], cup[n], cupShares[n], state[n]>>

PoolFairness == \A n \in Honest : WF_(Of(n))(PoolStep(n))

DeliveryFairness ==
    \A n \in Honest : WF_(Of(n))(Finalize(n)) /\ WF_(Of(n))(StateSync(n))

RoundSpec == Spec /\ PoolFairness

FairSpec == Spec /\ PoolFairness /\ DeliveryFairness

-----------------------------------------------------------------------------
(* Safety.                                                                 *)

(* No round is finalized twice: where any honest replica has a finalized   *)
(* block, no honest replica has a notarization for another block of that   *)
(* height (membership.rs: "if a finalization on height-h block b exists,   *)
(* no other block may be notarized at height h").                          *)
FinalizationExcludesForks ==
    \A n, m \in Honest : \A b \in finalizations[n], c \in notarizations[m] :
        height[b] = height[c] => b = c

(* A replica that signed a block for finality has not signed and will not  *)
(* sign any other block of that height for notarization, before or after a *)
(* restart (notary.rs: a share for an older round "would break security if *)
(* it has already finality-signed for that round").                        *)
FinalityShareBinds ==
    \A n \in Honest : \A b \in finalShares[n], c \in notarShares[n] \cup finalShares[n] :
        height[b] = height[c] => b = c

(* The pool is never missing what its readers unwrap: above the CUP there  *)
(* is a notarized block at every height up to the notarized one            *)
(* (finalizer.rs: unreachable!), with its proposal (get_notarized_blocks:  *)
(* unwrap), extending a notarized block; and a finalized block is notarized *)
(* (get_highest_finalized_block, get_finalized_block: panic!).             *)
PoolComplete ==
    \A n \in Honest :
        /\ \A h \in (CupHeight(n) + 1)..NotarizedHeight(n) : NotarizedBlocks(n, h) # {}
        /\ \A b \in notarizations[n] : b \in proposals[n]
        /\ \A b \in proposals[n] : height[b] > CupHeight(n) + 1 => parent[b] \in notarizations[n]
        /\ \A b \in finalizations[n] : b \in notarizations[n]

(* get_finalized_block answers with the block of the finalized chain for   *)
(* every height between the CUP and the finalized tip, also when it takes  *)
(* its short cut ("Since there is only one block at this height, we know   *)
(* that this block must be a part of that finalized chain").               *)
FinalizedBlocksOnChain ==
    \A n \in Honest :
        LET tip == FinalizedTip(n)
        IN  \A h \in CupHeight(n)..height[tip] : get_finalized_block(n, h) = Ancestor[tip][h]

(* A replica of the committee whose notarized height has reached h has     *)
(* signed the beacon of height h, or has that beacon: otherwise the round  *)
(* after h might never get a beacon.                                       *)
BeaconShareFirst ==
    \A n \in Honest \cap lowCommittee : \A h \in BeaconHeights :
        h <= NotarizedHeight(n) => beacon[n] >= h \/ beaconShare[n] >= h

(* The highest finalized block of the honest replicas. *)
Tip ==
    LET tips == UNION {finalizations[n] \cup {cup[n].block} : n \in Honest}
    IN  CHOOSE b \in tips : \A c \in tips : height[c] <= height[b]

(* The chain of each block: its ancestors above Genesis, by height. *)
Chain == [b \in AllBlocks |-> [h \in 1..height[b] |-> Ancestor[b][h]]]

Log == INSTANCE AgreedLog WITH Replicas <- Honest, log <- Chain[Tip], executed <- state

(* The replicas execute one growing chain of blocks: the blocks finalized  *)
(* anywhere form one log, and every state, also one obtained by a state    *)
(* sync or replayed after a restart, is that of a prefix of it.            *)
ExecutesOneLog == Log!Spec

-----------------------------------------------------------------------------
(* Liveness.                                                               *)

(* A round in which some honest replica has a proposal gets a notarized    *)
(* block on every honest replica, whatever the faulty ones send or keep to *)
(* themselves (validator.rs: "Otherwise we may get stuck when a block      *)
(* maker equivocates").                                                    *)
RoundsComplete ==
    \A h \in Heights :
        (\E n \in Honest : At(proposals[n], h) # {})
            ~> (\A n \in Honest : NotarizedHeight(n) >= h)

(* Every round gets its beacon: a height that some honest replica has      *)
(* notarized gets a random beacon on every honest replica, so that the     *)
(* next round can begin.  A replica signs a beacon only at its notarized   *)
(* height (random_beacon_maker.rs), so this rests on the order in which    *)
(* on_state_change calls the subcomponents.                                *)
BeaconsKeepUp ==
    \A h \in BeaconHeights :
        (\E n \in Honest : NotarizedHeight(n) >= h) ~> (\A n \in Honest : beacon[n] >= h)

(* No honest replica is left behind: as long as it does not keep on        *)
(* restarting, its state reaches the highest block finalized anywhere,     *)
(* batch by batch or by a jump to the state of a CUP.                      *)
NobodyLeftBehind ==
    \A n \in Honest :
        \/ []<>(Len(state[n]) = height[Tip])
        \/ []<><<TRUE>>_(state[n])
=============================================================================

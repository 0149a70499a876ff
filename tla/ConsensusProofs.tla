-------------------------- MODULE ConsensusProofs --------------------------
(***************************************************************************)
(* Agreement in Consensus, for every subnet, every committee with less     *)
(* than a third of faulty members and every tree of blocks.                *)
(*                                                                         *)
(* The argument: two sets of signers of one committee share an honest      *)
(* replica (QuorumsMeet).  An honest replica that signed a block for       *)
(* finality signs no other block of that height for notarization: not      *)
(* before, because the finalizer looks at its own notarization shares, and *)
(* not afterwards, because the notary only signs above the notarized       *)
(* height, which never falls (SharesBelow, FinalityShareBinds).            *)
(*                                                                         *)
(* On the agreement on finalized blocks rests what the readers of the pool *)
(* and the layers above rely on.                                           *)
(*                                                                         *)
(* First, the validated section of every replica's pool has what its       *)
(* readers unwrap (PoolComplete), and no replica leaves a round without    *)
(* having signed the beacon the next round needs (BeaconShareFirst).  What *)
(* a step does to the pool of a replica is stated once, for every action   *)
(* (PoolEffect, StepEffects); the invariant follows from that.             *)
(*                                                                         *)
(* Second, Consensus implements AgreedLog: the blocks finalized anywhere   *)
(* form one growing chain, and every state a replica ever has is that of a *)
(* prefix of it.  The argument: all notarized blocks together are closed   *)
(* under parents (ParentsNotarized), and a finalized block is the only     *)
(* notarized one of its height, so every notarized block that is not lower *)
(* descends from it.  Hence the blocks below a finalized one (OnChain)     *)
(* form a chain, on which all catch-up packages lie (CupsOnChain), with    *)
(* the state of that chain, and all states (StatesOnChain).  What          *)
(* get_finalized_block answers is therefore always the block of this chain.*)
(***************************************************************************)
EXTENDS Consensus, NaturalSets, SequenceTheorems

-----------------------------------------------------------------------------
(* Quorums.                                                                *)

(* With f the number of faults tolerated, committees have 3f + 1 members   *)
(* and 2f + 1 of them notarize (get_committee_size, membership.rs).        *)
LEMMA Thresholds ==
    \E f \in Nat :
        /\ get_faults_tolerated(Cardinality(Nodes)) = f
        /\ get_committee_size(Cardinality(Nodes)) = 3 * f + 1
        /\ NotarizationThreshold = 2 * f + 1
<1> DEFINE f == get_faults_tolerated(Cardinality(Nodes))
<1>1. Cardinality(Nodes) \in Nat
  BY CommitteeAssumption, FS_CardinalityType
<1>2. f \in Nat
  BY <1>1 DEF get_faults_tolerated
<1>3. get_committee_size(Cardinality(Nodes)) = 3 * f + 1
  BY DEF get_committee_size
<1>4. get_faults_tolerated(3 * f + 1) = f
  <2> HIDE DEF f
  <2> QED BY <1>2 DEF get_faults_tolerated
<1>5. NotarizationThreshold = 2 * f + 1
  <2>1. NotarizationThreshold = (3 * f + 1) - f
    BY <1>3, <1>4 DEF NotarizationThreshold, get_notarization_threshold
  <2> HIDE DEF f
  <2> QED BY <1>2, <2>1
<1> QED BY <1>2, <1>3, <1>5

(* Two sets of signers of the same committee share an honest replica. *)
LEMMA QuorumsMeet ==
    ASSUME NEW h \in Heights,
           NEW S \in SUBSET committee[h], NEW U \in SUBSET committee[h],
           Cardinality(S) >= NotarizationThreshold,
           Cardinality(U) >= NotarizationThreshold
    PROVE  \E m \in S \cap U : m \notin Byzantine
<1>1. PICK f \in Nat :
        /\ get_faults_tolerated(Cardinality(Nodes)) = f
        /\ get_committee_size(Cardinality(Nodes)) = 3 * f + 1
        /\ NotarizationThreshold = 2 * f + 1
  BY Thresholds
<1>2. committee[h] \subseteq Nodes
  BY CommitteeAssumption
<1>3. IsFiniteSet(committee[h])
  BY <1>2, CommitteeAssumption, FS_Subset
<1>4. IsFiniteSet(S) /\ IsFiniteSet(U)
  BY <1>3, FS_Subset
<1>5. /\ IsFiniteSet(S \cup U) /\ IsFiniteSet(S \cap U)
      /\ Cardinality(S \cup U) = Cardinality(S) + Cardinality(U) - Cardinality(S \cap U)
  <2>1. S \cap U \subseteq S
    OBVIOUS
  <2> QED BY <1>4, <2>1, FS_Union, FS_Subset
<1>6. Cardinality(S \cup U) <= 3 * f + 1
  <2>1. S \cup U \subseteq committee[h]
    OBVIOUS
  <2>2. Cardinality(committee[h]) = 3 * f + 1
    BY <1>1, CommitteeAssumption
  <2> QED BY <1>3, <2>1, <2>2, FS_Subset
<1>7. Cardinality(committee[h] \cap Byzantine) <= f
  BY <1>1, CommitteeAssumption
<1>8. Cardinality(S \cap U) > f
  <2>1. /\ Cardinality(S) \in Nat /\ Cardinality(U) \in Nat
        /\ Cardinality(S \cup U) \in Nat /\ Cardinality(S \cap U) \in Nat
    BY <1>4, <1>5, FS_CardinalityType
  <2> QED BY <1>1, <1>5, <1>6, <2>1
<1> SUFFICES ASSUME \A m \in S \cap U : m \in Byzantine
             PROVE  FALSE
  OBVIOUS
<1>9. S \cap U \subseteq committee[h] \cap Byzantine
  OBVIOUS
<1>10. IsFiniteSet(committee[h] \cap Byzantine)
  <2>1. committee[h] \cap Byzantine \subseteq committee[h]
    OBVIOUS
  <2> QED BY <1>3, <2>1, FS_Subset
<1>11. Cardinality(S \cap U) <= Cardinality(committee[h] \cap Byzantine)
  BY <1>9, <1>10, FS_Subset
<1>12. /\ Cardinality(S \cap U) \in Nat
       /\ Cardinality(committee[h] \cap Byzantine) \in Nat
  BY <1>5, <1>10, FS_CardinalityType
<1> QED BY <1>7, <1>8, <1>11, <1>12

(* More shares do not undo a signature. *)
LEMMA SignedGrows ==
    ASSUME NEW b \in Blocks, NEW sigs, NEW more,
           \A m \in Honest : sigs[m] \subseteq more[m],
           Signed(b, sigs, Byzantine)
    PROVE  Signed(b, more, Byzantine)
<1> DEFINE S == ({m \in Honest : b \in sigs[m]} \cup Byzantine) \cap committee[height[b]]
           U == ({m \in Honest : b \in more[m]} \cup Byzantine) \cap committee[height[b]]
<1>1. S \subseteq U
  OBVIOUS
<1>2. committee[height[b]] \subseteq Nodes
  BY CommitteeAssumption DEF Heights
<1>3. IsFiniteSet(U)
  <2>1. U \subseteq Nodes
    BY <1>2
  <2> QED BY <2>1, CommitteeAssumption, FS_Subset
<1>4. Cardinality(S) <= Cardinality(U)
  BY <1>1, <1>3, FS_Subset
<1>5. Cardinality(S) \in Nat /\ Cardinality(U) \in Nat
  BY <1>1, <1>3, FS_Subset, FS_CardinalityType
<1>6. Cardinality(S) >= NotarizationThreshold
  BY DEF Signed
<1>7. NotarizationThreshold \in Nat
  BY Thresholds
<1>8. Cardinality(U) >= NotarizationThreshold
  <2> HIDE DEF S, U
  <2> QED BY <1>4, <1>5, <1>6, <1>7
<1> QED BY <1>8 DEF Signed

-----------------------------------------------------------------------------
(* Highest blocks.  Blocks may be infinitely many, so that a replica's pool *)
(* has a highest block is an invariant, and CHOOSE then finds its height.  *)

HasMax(S) == S # {} => \E b \in S : \A c \in S : height[c] <= height[b]

MaxHeight(S, k) ==
    LET hs == {height[b] : b \in S} \cup {k} IN CHOOSE h \in hs : \A g \in hs : g <= h

LEMMA MaxHeightProperties ==
    ASSUME NEW S \in SUBSET Blocks, NEW k \in Nat, HasMax(S)
    PROVE  /\ MaxHeight(S, k) \in Nat
           /\ MaxHeight(S, k) \in {height[b] : b \in S} \cup {k}
           /\ k <= MaxHeight(S, k)
           /\ \A b \in S : height[b] <= MaxHeight(S, k)
<1> DEFINE hs == {height[b] : b \in S} \cup {k}
<1>1. \A b \in S : height[b] \in Nat
  BY BlocksAssumption DEF AllBlocks
<1>2. \E h \in hs : \A g \in hs : g <= h
  <2>1. CASE S = {}
    BY <2>1
  <2>2. CASE S # {}
    <3>1. PICK b \in S : \A c \in S : height[c] <= height[b]
      BY <2>2 DEF HasMax
    <3>2. CASE height[b] <= k
      <4>1. \A g \in hs : g <= k
        BY <1>1, <3>1, <3>2
      <4> QED BY <4>1
    <3>3. CASE k <= height[b]
      <4>1. height[b] \in hs /\ \A g \in hs : g <= height[b]
        BY <1>1, <3>1, <3>3
      <4> QED BY <4>1
    <3> QED BY <1>1, <3>2, <3>3
  <2> QED BY <2>1, <2>2
<1>3. MaxHeight(S, k) \in hs /\ \A g \in hs : g <= MaxHeight(S, k)
  BY <1>2 DEF MaxHeight
<1>4. hs \subseteq Nat
  BY <1>1
<1> QED BY <1>3, <1>4

(* The highest block does not sink when blocks are added or the CUP rises. *)
LEMMA MaxHeightGrows ==
    ASSUME NEW S \in SUBSET Blocks, NEW k \in Nat, HasMax(S),
           NEW T \in SUBSET Blocks, NEW j \in Nat, HasMax(T),
           S \subseteq T, k <= j
    PROVE  MaxHeight(S, k) <= MaxHeight(T, j)
<1>1. /\ MaxHeight(S, k) \in Nat
      /\ MaxHeight(S, k) \in {height[b] : b \in S} \cup {k}
  BY MaxHeightProperties
<1>2. /\ MaxHeight(T, j) \in Nat
      /\ j <= MaxHeight(T, j)
      /\ \A b \in T : height[b] <= MaxHeight(T, j)
  BY MaxHeightProperties
<1>3. CASE MaxHeight(S, k) = k
  BY <1>2, <1>3
<1>4. CASE MaxHeight(S, k) \in {height[b] : b \in S}
  BY <1>2, <1>4
<1> QED BY <1>1, <1>3, <1>4

(* Adding a block keeps a highest one. *)
LEMMA HasMaxAdd ==
    ASSUME NEW S \in SUBSET Blocks, HasMax(S), NEW b \in Blocks
    PROVE  HasMax(S \cup {b})
<1>1. \A c \in S \cup {b} : height[c] \in Nat
  BY BlocksAssumption DEF AllBlocks
<1>2. CASE S = {}
  BY <1>1, <1>2 DEF HasMax
<1>3. CASE S # {}
  <2>1. PICK d \in S : \A c \in S : height[c] <= height[d]
    BY <1>3 DEF HasMax
  <2>2. CASE height[b] <= height[d]
    BY <2>1, <2>2 DEF HasMax
  <2>3. CASE height[d] <= height[b]
    <3>1. \A c \in S \cup {b} : height[c] <= height[b]
      BY <1>1, <2>1, <2>3
    <3> QED BY <3>1 DEF HasMax
  <2> QED BY <1>1, <2>2, <2>3
<1> QED BY <1>2, <1>3

(* So does adding blocks of one height above all others. *)
LEMMA HasMaxAbove ==
    ASSUME NEW S \in SUBSET Blocks, NEW T \in SUBSET Blocks, T # {},
           NEW h \in Nat, \A c \in T : height[c] = h, \A c \in S : height[c] <= h
    PROVE  HasMax(S \cup T)
<1>1. PICK b \in T : TRUE
  OBVIOUS
<1>2. \A c \in S \cup T : height[c] <= height[b]
  BY <1>1
<1> QED BY <1>1, <1>2 DEF HasMax

-----------------------------------------------------------------------------
(* The inductive invariant.                                                *)

MaximaExist ==
    \A n \in Honest : HasMax(notarizations[n]) /\ HasMax(finalizations[n])

(* A replica signs for finality only up to its notarized height. *)
SharesBelow ==
    \A n \in Honest : \A b \in finalShares[n] : height[b] <= NotarizedHeight(n)

(* What a replica takes for notarized or finalized has been signed. *)
AggregatesSigned ==
    \A n \in Honest :
        /\ \A b \in notarizations[n] : Signed(b, notarShares, Byzantine)
        /\ \A b \in finalizations[n] : Signed(b, finalShares, Byzantine)

Inv ==
    /\ TypeOK
    /\ MaximaExist
    /\ SharesBelow
    /\ FinalityShareBinds
    /\ AggregatesSigned

(* What PoolReader answers, in a state that satisfies the invariant. *)
LEMMA ReadersType ==
    ASSUME TypeOK, NEW n \in Honest
    PROVE  /\ notarizations[n] \in SUBSET Blocks
           /\ finalizations[n] \in SUBSET Blocks
           /\ cup[n].block \in AllBlocks
           /\ CupHeight(n) \in Nat
           /\ NotarizedHeight(n) = MaxHeight(notarizations[n], CupHeight(n))
           /\ \A h : NotarizedBlocks(n, h) \subseteq AllBlocks
<1>1. /\ notarizations[n] \in SUBSET Blocks
      /\ finalizations[n] \in SUBSET Blocks
      /\ cup[n].block \in AllBlocks
  BY DEF TypeOK, CatchUpContent
<1>2. CupHeight(n) \in Nat
  BY <1>1, BlocksAssumption DEF CupHeight
<1>3. NotarizedHeight(n) = MaxHeight(notarizations[n], CupHeight(n))
  BY DEF NotarizedHeight, NotarizedHeights, MaxHeight
<1>4. \A h : NotarizedBlocks(n, h) \subseteq AllBlocks
  BY <1>1 DEF NotarizedBlocks, At, AllBlocks
<1> QED BY <1>1, <1>2, <1>3, <1>4

LEMMA NotarizedHeightMax ==
    ASSUME TypeOK, MaximaExist, NEW n \in Honest
    PROVE  /\ NotarizedHeight(n) \in Nat
           /\ CupHeight(n) <= NotarizedHeight(n)
           /\ \A b \in notarizations[n] : height[b] <= NotarizedHeight(n)
<1>1. HasMax(notarizations[n])
  BY DEF MaximaExist
<1> QED BY <1>1, ReadersType, MaxHeightProperties

LEMMA FinalizedHeightMax ==
    ASSUME TypeOK, MaximaExist, NEW n \in Honest
    PROVE  /\ FinalizedTip(n) \in AllBlocks
           /\ FinalizedHeight(n) \in Nat
           /\ CupHeight(n) <= FinalizedHeight(n)
           /\ \A b \in finalizations[n] : height[b] <= FinalizedHeight(n)
<1> DEFINE above == {b \in finalizations[n] : height[b] > CupHeight(n)}
<1>1. /\ finalizations[n] \in SUBSET Blocks
      /\ cup[n].block \in AllBlocks
      /\ CupHeight(n) \in Nat
  BY ReadersType
<1>2. \A b \in finalizations[n] : height[b] \in Nat /\ b \in AllBlocks
  BY <1>1, BlocksAssumption DEF AllBlocks
<1>3. CASE above = {}
  <2>1. FinalizedTip(n) = cup[n].block
    BY <1>3 DEF FinalizedTip
  <2>2. FinalizedHeight(n) = CupHeight(n)
    BY <2>1 DEF FinalizedHeight, CupHeight
  <2>3. \A b \in finalizations[n] : height[b] <= CupHeight(n)
    BY <1>1, <1>2, <1>3
  <2> QED BY <1>1, <2>1, <2>2, <2>3
<1>4. CASE above # {}
  <2>1. PICK d \in finalizations[n] : \A c \in finalizations[n] : height[c] <= height[d]
    BY <1>4 DEF MaximaExist, HasMax
  <2>2. d \in above
    BY <1>1, <1>2, <1>4, <2>1
  <2>3. FinalizedTip(n) = CHOOSE b \in above : \A c \in above : height[c] <= height[b]
    BY <1>4 DEF FinalizedTip
  <2>4. FinalizedTip(n) \in above /\ \A c \in above : height[c] <= height[FinalizedTip(n)]
    BY <2>1, <2>2, <2>3
  <2>5. height[d] <= height[FinalizedTip(n)]
    BY <2>2, <2>4
  <2> QED BY <1>1, <1>2, <2>1, <2>4, <2>5 DEF FinalizedHeight
<1> QED BY <1>3, <1>4

(* A block that get_finalized_block finds is one of the tree, and not      *)
(* Genesis unless it is asked for height 0.                                *)
LEMMA FinalizedBlockType ==
    ASSUME TypeOK, NEW n \in Honest, NEW h \in Nat,
           get_finalized_block(n, h) # NoBlock
    PROVE  /\ get_finalized_block(n, h) \in AllBlocks
           /\ h > 0 => get_finalized_block(n, h) \in Blocks
<1>1. /\ notarizations[n] \in SUBSET Blocks
      /\ cup[n].block \in AllBlocks
      /\ CupHeight(n) \in Nat
      /\ proposals[n] \in SUBSET Blocks
  BY ReadersType DEF TypeOK
<1>2. ~(h < CupHeight(n) \/ h > FinalizedHeight(n))
  BY DEF get_finalized_block
<1>3. CASE h = CupHeight(n)
  <2>1. get_finalized_block(n, h) = cup[n].block
    BY <1>2, <1>3 DEF get_finalized_block
  <2>2. h > 0 => cup[n].block # Genesis
    BY <1>3, BlocksAssumption DEF CupHeight
  <2> QED BY <1>1, <2>1, <2>2 DEF AllBlocks
<1>4. CASE h # CupHeight(n) /\ \E b \in NotarizedBlocks(n, h) : NotarizedBlocks(n, h) = {b}
  <2>1. h > CupHeight(n)
    BY <1>1, <1>2, <1>4
  <2>2. NotarizedBlocks(n, h) \subseteq Blocks
    BY <1>1, <2>1 DEF NotarizedBlocks, At
  <2>3. get_finalized_block(n, h) = CHOOSE b \in NotarizedBlocks(n, h) : TRUE
    BY <1>2, <1>4 DEF get_finalized_block
  <2>4. NotarizedBlocks(n, h) # {}
    BY <1>4
  <2> QED BY <2>2, <2>3, <2>4 DEF AllBlocks
<1>5. CASE /\ h # CupHeight(n)
           /\ ~\E b \in NotarizedBlocks(n, h) : NotarizedBlocks(n, h) = {b}
  <2>1. \E b : get_finalized_block(n, h) = follow_to_height(n, b, h)
    BY <1>2, <1>5 DEF get_finalized_block
  <2>2. get_finalized_block(n, h) \in proposals[n]
    BY <2>1 DEF follow_to_height
  <2> QED BY <1>1, <2>2 DEF AllBlocks
<1> QED BY <1>3, <1>4, <1>5

-----------------------------------------------------------------------------
(* Steps that leave the signature shares alone.                            *)

LEMMA NotarizedHeightGrows ==
    ASSUME Inv, TypeOK', MaximaExist', NEW n \in Honest,
           notarizations[n] \subseteq notarizations'[n], CupHeight(n) <= CupHeight(n)'
    PROVE  /\ NotarizedHeight(n) \in Nat
           /\ NotarizedHeight(n)' \in Nat
           /\ NotarizedHeight(n) <= NotarizedHeight(n)'
<1>1. /\ notarizations[n] \in SUBSET Blocks
      /\ CupHeight(n) \in Nat
      /\ NotarizedHeight(n) = MaxHeight(notarizations[n], CupHeight(n))
  BY ReadersType DEF Inv
<1>2. /\ notarizations'[n] \in SUBSET Blocks
      /\ CupHeight(n)' \in Nat
  <2>1. cup'[n].block \in AllBlocks
    BY DEF TypeOK, CatchUpContent
  <2> QED BY <2>1, BlocksAssumption DEF TypeOK, CupHeight
<1>3. NotarizedHeight(n)' = MaxHeight(notarizations'[n], CupHeight(n)')
  BY DEF NotarizedHeight, NotarizedHeights, MaxHeight
<1>4. HasMax(notarizations[n]) /\ HasMax(notarizations'[n])
  BY DEF Inv, MaximaExist
<1> QED BY <1>1, <1>2, <1>3, <1>4, MaxHeightProperties, MaxHeightGrows

LEMMA SharesKept ==
    ASSUME Inv, TypeOK', MaximaExist', UNCHANGED shares,
           \A n \in Honest : /\ notarizations[n] \subseteq notarizations'[n]
                             /\ CupHeight(n) <= CupHeight(n)'
    PROVE  SharesBelow' /\ FinalityShareBinds'
<1>1. finalShares' = finalShares /\ notarShares' = notarShares
  BY DEF shares
<1>2. SharesBelow'
  <2> SUFFICES ASSUME NEW n \in Honest, NEW b \in finalShares[n]
               PROVE  height[b] <= NotarizedHeight(n)'
    BY <1>1 DEF SharesBelow
  <2>1. height[b] <= NotarizedHeight(n)
    BY DEF Inv, SharesBelow
  <2>2. height[b] \in Nat
    BY BlocksAssumption DEF Inv, TypeOK, AllBlocks
  <2>3. /\ NotarizedHeight(n) \in Nat /\ NotarizedHeight(n)' \in Nat
        /\ NotarizedHeight(n) <= NotarizedHeight(n)'
    BY NotarizedHeightGrows
  <2> QED BY <2>1, <2>2, <2>3
<1>3. FinalityShareBinds'
  BY <1>1 DEF Inv, FinalityShareBinds
<1> QED BY <1>2, <1>3

LEMMA CupHeightType ==
    ASSUME TypeOK
    PROVE  \A n \in Honest : CupHeight(n) \in Nat
BY ReadersType

(* Steps that change neither shares nor aggregates nor the CUP. *)
LEMMA AggregatesKept ==
    ASSUME Inv, TypeOK', UNCHANGED <<notarizations, finalizations, notarShares, finalShares, cup>>
    PROVE  Inv'
<1>1. MaximaExist'
  BY DEF Inv, MaximaExist
<1>2. AggregatesSigned'
  BY DEF Inv, AggregatesSigned, Signed
<1>3. \A n \in Honest : CupHeight(n) <= CupHeight(n)'
  BY CupHeightType DEF Inv, CupHeight
<1>4. SharesBelow' /\ FinalityShareBinds'
  BY <1>1, <1>3, SharesKept DEF shares
<1> QED BY <1>1, <1>2, <1>4 DEF Inv

(* Notarized or finalized blocks are added that have been signed. *)
LEMMA AggregatesAdded ==
    ASSUME Inv, TypeOK', MaximaExist', UNCHANGED <<notarShares, finalShares, cup>>,
           \A n \in Honest :
              /\ notarizations[n] \subseteq notarizations'[n]
              /\ \A b \in notarizations'[n] \ notarizations[n] : Signed(b, notarShares, Byzantine)
              /\ \A b \in finalizations'[n] \ finalizations[n] : Signed(b, finalShares, Byzantine)
    PROVE  Inv'
<1>1. AggregatesSigned'
  <2>1. \A n \in Honest : \A b \in notarizations'[n] : Signed(b, notarShares, Byzantine)
    BY DEF Inv, AggregatesSigned
  <2>2. \A n \in Honest : \A b \in finalizations'[n] : Signed(b, finalShares, Byzantine)
    BY DEF Inv, AggregatesSigned
  <2> QED BY <2>1, <2>2 DEF AggregatesSigned, Signed
<1>2. \A n \in Honest : CupHeight(n) <= CupHeight(n)'
  BY CupHeightType DEF Inv, CupHeight
<1>3. SharesBelow' /\ FinalityShareBinds'
  BY <1>2, SharesKept DEF shares
<1> QED BY <1>1, <1>3 DEF Inv

(* A notarization or finalization that is available has been signed. *)
LEMMA AvailableSigned ==
    ASSUME Inv, NEW b \in Blocks
    PROVE  /\ Notarizable(b, Byzantine) => Signed(b, notarShares, Byzantine)
           /\ Finalizable(b, Byzantine) => Signed(b, finalShares, Byzantine)
BY DEF Inv, AggregatesSigned, Notarizable, Finalizable

LEMMA InitInv == Init => Inv
<1> SUFFICES ASSUME Init PROVE Inv
  OBVIOUS
<1>1. TypeOK
  <2>1. <<>> \in Seq(Blocks)
    OBVIOUS
  <2>2. [block |-> Genesis, state |-> <<>>] \in CatchUpContent
    BY <2>1 DEF CatchUpContent, AllBlocks
  <2>3. FirstBeacon \in Nat
    BY BoundsAssumption
  <2> QED BY <2>1, <2>2, <2>3 DEF Init, TypeOK
<1>2. MaximaExist /\ SharesBelow /\ FinalityShareBinds /\ AggregatesSigned
  BY DEF Init, MaximaExist, HasMax, SharesBelow, FinalityShareBinds, AggregatesSigned
<1> QED BY <1>1, <1>2 DEF Inv

LEMMA MakeBlockInv ==
    ASSUME Inv, NEW n \in Honest, NEW b \in Blocks, MakeBlock(n, b)
    PROVE  Inv'
<1>1. TypeOK'
  BY DEF Inv, TypeOK, MakeBlock, shares, beacons, cups
<1> QED BY <1>1, AggregatesKept DEF MakeBlock, shares, cups

LEMMA MakeBeaconShareInv ==
    ASSUME Inv, NEW n \in Honest, MakeBeaconShare(n)
    PROVE  Inv'
<1>1. TypeOK'
  BY DEF Inv, TypeOK, MakeBeaconShare, pools, shares, cups
<1> QED BY <1>1, AggregatesKept DEF MakeBeaconShare, pools, shares, cups

LEMMA AddBeaconInv ==
    ASSUME Inv, NEW n \in Honest, AddBeacon(n, Byzantine)
    PROVE  Inv'
<1>1. TypeOK'
  BY DEF Inv, TypeOK, AddBeacon, pools, shares, cups
<1> QED BY <1>1, AggregatesKept DEF AddBeacon, pools, shares, cups

LEMMA ValidateBlockInv ==
    ASSUME Inv, NEW n \in Honest, NEW b \in Blocks, ValidateBlock(n, b)
    PROVE  Inv'
<1>1. TypeOK'
  BY DEF Inv, TypeOK, ValidateBlock, shares, beacons, cups
<1> QED BY <1>1, AggregatesKept DEF ValidateBlock, shares, cups

LEMMA StateSyncInv ==
    ASSUME Inv, NEW n \in Honest, StateSync(n)
    PROVE  Inv'
<1>1. TypeOK'
  BY DEF Inv, TypeOK, CatchUpContent, StateSync, pools, shares, beacons, cups
<1> QED BY <1>1, AggregatesKept DEF StateSync, pools, shares, cups

(* A prefix of a state is a state. *)
LEMMA StatePrefix ==
    ASSUME NEW s \in Seq(Blocks), NEW h \in Nat, h <= Len(s)
    PROVE  SubSeq(s, 1, h) \in Seq(Blocks)
<1>1. \A i \in 1..h : s[i] \in Blocks
  OBVIOUS
<1> QED BY <1>1, SubSeqProperties

LEMMA RestartInv ==
    ASSUME Inv, NEW n \in Honest, NEW h \in SummaryHeights \cup {0}, Restart(n, h)
    PROVE  Inv'
<1>1. h \in Nat
  BY BoundsAssumption
<1>2. state[n] \in Seq(Blocks) /\ h <= Len(state[n])
  BY <1>1 DEF Inv, TypeOK, Restart
<1>3. SubSeq(state[n], 1, h) \in Seq(Blocks)
  BY <1>1, <1>2, StatePrefix
<1>4. TypeOK'
  BY <1>3 DEF Inv, TypeOK, Restart, pools, shares, beacons, cups
<1> QED BY <1>4, AggregatesKept DEF Restart, pools, shares, cups

LEMMA MakeCupShareInv ==
    ASSUME Inv, NEW n \in Honest, NEW h \in SummaryHeights, MakeCupShare(n, h)
    PROVE  Inv'
<1> DEFINE c == [block |-> get_finalized_block(n, h), state |-> SubSeq(state[n], 1, h)]
<1>1. h \in Nat
  BY BoundsAssumption
<1>2. state[n] \in Seq(Blocks) /\ h <= Len(state[n])
  BY <1>1 DEF Inv, TypeOK, MakeCupShare
<1>3. SubSeq(state[n], 1, h) \in Seq(Blocks)
  BY <1>1, <1>2, StatePrefix
<1>4. get_finalized_block(n, h) \in AllBlocks
  BY <1>1, FinalizedBlockType DEF Inv, MakeCupShare
<1>5. c \in CatchUpContent
  BY <1>3, <1>4 DEF CatchUpContent
<1>6. cupShares' = [cupShares EXCEPT ![n] = @ \cup {c}]
  BY DEF MakeCupShare
<1>7. UNCHANGED <<pools, shares, beacons, cup, state>>
  BY DEF MakeCupShare
<1>8. TypeOK'
  <2> HIDE DEF c
  <2> QED BY <1>5, <1>6, <1>7 DEF Inv, TypeOK, pools, shares, beacons
<1> QED BY <1>7, <1>8, AggregatesKept DEF pools, shares

LEMMA AddCupInv ==
    ASSUME Inv, NEW n \in Honest, NEW c \in SignedCups, AddCup(n, c, Byzantine)
    PROVE  Inv'
<1>1. c \in CatchUpContent
  BY DEF Inv, TypeOK, SignedCups
<1>2. height[c.block] \in Nat
  BY <1>1, BlocksAssumption DEF CatchUpContent
<1>3. TypeOK'
  BY <1>1, <1>2 DEF Inv, TypeOK, AddCup, pools, shares
<1>4. /\ UNCHANGED <<notarizations, finalizations, notarShares, finalShares>>
      /\ UNCHANGED shares
  BY DEF AddCup, pools, shares
<1>5. MaximaExist'
  BY <1>4 DEF Inv, MaximaExist
<1>6. \A m \in Honest : CupHeight(m) <= CupHeight(m)'
  <2> SUFFICES ASSUME NEW m \in Honest PROVE CupHeight(m) <= CupHeight(m)'
    OBVIOUS
  <2>1. CupHeight(m) \in Nat
    BY CupHeightType DEF Inv
  <2>2. cup' = [cup EXCEPT ![n] = c] /\ height[c.block] > CupHeight(n)
    BY DEF AddCup
  <2>3. CASE m = n
    <3>1. CupHeight(m)' = height[c.block]
      BY <2>2, <2>3 DEF CupHeight, Inv, TypeOK
    <3> QED BY <1>2, <2>1, <2>2, <2>3, <3>1
  <2>4. CASE m # n
    BY <2>1, <2>2, <2>4 DEF CupHeight, Inv, TypeOK
  <2> QED BY <2>3, <2>4
<1>7. SharesBelow' /\ FinalityShareBinds'
  BY <1>3, <1>4, <1>5, <1>6, SharesKept
<1>8. AggregatesSigned'
  BY <1>4 DEF Inv, AggregatesSigned, Signed
<1> QED BY <1>3, <1>5, <1>7, <1>8 DEF Inv

-----------------------------------------------------------------------------
(* Aggregates enter the validated section.                                 *)

LEMMA AggregateNotarizationsInv ==
    ASSUME Inv, NEW n \in Honest, AggregateNotarizations(n, Byzantine)
    PROVE  Inv'
<1>1. PICK new \in SUBSET {b \in At(proposals[n], NotarizedHeight(n) + 1) :
                              Signed(b, notarShares, Byzantine)} :
         /\ new # {}
         /\ notarizations' = [notarizations EXCEPT ![n] = @ \cup new]
  BY DEF AggregateNotarizations
<1>2. UNCHANGED <<proposals, finalizations, shares, beacons, cups, state>>
  BY DEF AggregateNotarizations
<1>3. new \subseteq Blocks /\ \A b \in new : height[b] = NotarizedHeight(n) + 1
  BY <1>1 DEF At, Inv, TypeOK
<1>4. TypeOK'
  BY <1>1, <1>2, <1>3 DEF Inv, TypeOK, shares, beacons, cups
<1>5. MaximaExist'
  <2>1. /\ NotarizedHeight(n) \in Nat
        /\ \A b \in notarizations[n] : height[b] <= NotarizedHeight(n)
    BY NotarizedHeightMax DEF Inv
  <2>2. \A b \in notarizations[n] : height[b] <= NotarizedHeight(n) + 1
    BY <2>1, BlocksAssumption DEF Inv, TypeOK, AllBlocks
  <2>3. HasMax(notarizations[n] \cup new)
    <3>1. notarizations[n] \in SUBSET Blocks /\ NotarizedHeight(n) + 1 \in Nat
      BY <2>1 DEF Inv, TypeOK
    <3> QED BY <1>1, <1>3, <2>2, <3>1, HasMaxAbove
  <2>4. notarizations'[n] = notarizations[n] \cup new
    BY <1>1 DEF Inv, TypeOK
  <2>5. \A m \in Honest \ {n} : notarizations'[m] = notarizations[m]
    BY <1>1 DEF Inv, TypeOK
  <2> QED BY <1>2, <2>3, <2>4, <2>5 DEF Inv, MaximaExist
<1>6. \A m \in Honest :
         /\ notarizations[m] \subseteq notarizations'[m]
         /\ \A b \in notarizations'[m] \ notarizations[m] : Signed(b, notarShares, Byzantine)
         /\ \A b \in finalizations'[m] \ finalizations[m] : Signed(b, finalShares, Byzantine)
  BY <1>1, <1>2 DEF Inv, TypeOK
<1> QED BY <1>2, <1>4, <1>5, <1>6, AggregatesAdded DEF shares, cups

(* One signed block b is added to the notarized ones of replica n. *)
LEMMA NotarizationInv ==
    ASSUME Inv, TypeOK', NEW n \in Honest, NEW b \in Blocks, Notarizable(b, Byzantine),
           notarizations' = [notarizations EXCEPT ![n] = @ \cup {b}],
           UNCHANGED <<finalizations, notarShares, finalShares, cup>>
    PROVE  Inv'
<1>1. Signed(b, notarShares, Byzantine)
  BY AvailableSigned
<1>2. notarizations'[n] = notarizations[n] \cup {b}
  BY DEF Inv, TypeOK
<1>3. \A m \in Honest \ {n} : notarizations'[m] = notarizations[m]
  BY DEF Inv, TypeOK
<1>4. MaximaExist'
  <2>1. HasMax(notarizations[n] \cup {b})
    BY HasMaxAdd DEF Inv, TypeOK, MaximaExist
  <2> QED BY <1>2, <1>3, <2>1 DEF Inv, MaximaExist
<1>5. \A m \in Honest :
         /\ notarizations[m] \subseteq notarizations'[m]
         /\ \A d \in notarizations'[m] \ notarizations[m] : Signed(d, notarShares, Byzantine)
         /\ \A d \in finalizations'[m] \ finalizations[m] : Signed(d, finalShares, Byzantine)
  BY <1>1, <1>2, <1>3
<1> QED BY <1>4, <1>5, AggregatesAdded

LEMMA ValidateNotarizationInv ==
    ASSUME Inv, NEW n \in Honest, NEW b \in Blocks, ValidateNotarization(n, b, Byzantine)
    PROVE  Inv'
<1>1. TypeOK'
  BY DEF Inv, TypeOK, ValidateNotarization, shares, beacons, cups
<1> QED BY <1>1, NotarizationInv DEF ValidateNotarization, shares, cups

LEMMA ValidateNotarizedBlockInv ==
    ASSUME Inv, NEW n \in Honest, NEW b \in Blocks, ValidateNotarizedBlock(n, b, Byzantine)
    PROVE  Inv'
<1>1. PICK others \in SUBSET LetThrough(n, b) :
         proposals' = [proposals EXCEPT ![n] = @ \cup {b} \cup others]
  BY DEF ValidateNotarizedBlock
<1>2. others \subseteq Blocks
  BY DEF LetThrough, At
<1>3. TypeOK'
  BY <1>1, <1>2 DEF Inv, TypeOK, ValidateNotarizedBlock, shares, beacons, cups
<1> QED BY <1>3, NotarizationInv DEF ValidateNotarizedBlock, shares, cups

LEMMA AddFinalizationInv ==
    ASSUME Inv, NEW n \in Honest, NEW b \in Blocks, AddFinalization(n, b, Byzantine)
    PROVE  Inv'
<1>1. TypeOK'
  BY DEF Inv, TypeOK, AddFinalization, shares, beacons, cups
<1>2. /\ finalizations' = [finalizations EXCEPT ![n] = @ \cup {b}]
      /\ UNCHANGED <<proposals, notarizations, shares, beacons, cups, state>>
      /\ Signed(b, finalShares, Byzantine)
  BY AvailableSigned DEF AddFinalization
<1>3. finalizations'[n] = finalizations[n] \cup {b}
  BY <1>2 DEF Inv, TypeOK
<1>4. \A m \in Honest \ {n} : finalizations'[m] = finalizations[m]
  BY <1>2 DEF Inv, TypeOK
<1>5. MaximaExist'
  <2>1. HasMax(finalizations[n] \cup {b})
    BY HasMaxAdd DEF Inv, TypeOK, MaximaExist
  <2> QED BY <1>2, <1>3, <1>4, <2>1 DEF Inv, MaximaExist
<1>6. \A m \in Honest :
         /\ notarizations[m] \subseteq notarizations'[m]
         /\ \A d \in notarizations'[m] \ notarizations[m] : Signed(d, notarShares, Byzantine)
         /\ \A d \in finalizations'[m] \ finalizations[m] : Signed(d, finalShares, Byzantine)
  BY <1>2, <1>3, <1>4
<1> QED BY <1>1, <1>2, <1>5, <1>6, AggregatesAdded DEF shares, cups

-----------------------------------------------------------------------------
(* Replicas sign.                                                          *)

(* Steps that only add shares keep the highest blocks and the signatures. *)
LEMMA SharesAdded ==
    ASSUME Inv, TypeOK', UNCHANGED <<notarizations, finalizations, cup>>,
           \A m \in Honest : /\ notarShares[m] \subseteq notarShares'[m]
                             /\ finalShares[m] \subseteq finalShares'[m]
    PROVE  /\ MaximaExist'
           /\ AggregatesSigned'
           /\ \A m \in Honest : NotarizedHeight(m)' = NotarizedHeight(m)
<1>1. MaximaExist'
  BY DEF Inv, MaximaExist
<1>2. \A m \in Honest : NotarizedHeight(m)' = NotarizedHeight(m)
  BY DEF NotarizedHeight, NotarizedHeights, CupHeight
<1>3. AggregatesSigned'
  <2> SUFFICES ASSUME NEW m \in Honest
               PROVE  /\ \A b \in notarizations[m] : Signed(b, notarShares', Byzantine)
                      /\ \A b \in finalizations[m] : Signed(b, finalShares', Byzantine)
    BY DEF AggregatesSigned, Signed
  <2>1. \A b \in notarizations[m] : b \in Blocks /\ Signed(b, notarShares, Byzantine)
    BY DEF Inv, TypeOK, AggregatesSigned
  <2>2. \A b \in finalizations[m] : b \in Blocks /\ Signed(b, finalShares, Byzantine)
    BY DEF Inv, TypeOK, AggregatesSigned
  <2>3. \A b \in notarizations[m] : Signed(b, notarShares', Byzantine)
    BY <2>1, SignedGrows
  <2>4. \A b \in finalizations[m] : Signed(b, finalShares', Byzantine)
    BY <2>2, SignedGrows
  <2> QED BY <2>3, <2>4
<1> QED BY <1>1, <1>2, <1>3

(* The notary signs above every height the replica finality-signed. *)
LEMMA NotarizeInv ==
    ASSUME Inv, NEW n \in Honest, Notarize(n)
    PROVE  Inv'
<1> DEFINE h == NotarizedHeight(n)
           new == find_lowest_ranked_proposals(n, h + 1) \ notarShares[n]
<1>1. /\ notarShares' = [notarShares EXCEPT ![n] = @ \cup new]
      /\ UNCHANGED <<pools, finalShares, beacons, cups, state>>
  BY DEF Notarize
<1>2. new \subseteq Blocks /\ \A b \in new : height[b] = h + 1
  BY DEF find_lowest_ranked_proposals, At, Inv, TypeOK
<1> HIDE DEF new
<1>3. TypeOK'
  BY <1>1, <1>2 DEF Inv, TypeOK, pools, beacons, cups
<1>4. /\ notarShares'[n] = notarShares[n] \cup new
      /\ \A m \in Honest \ {n} : notarShares'[m] = notarShares[m]
      /\ finalShares' = finalShares
  BY <1>1 DEF Inv, TypeOK
<1>5. /\ MaximaExist'
      /\ AggregatesSigned'
      /\ \A m \in Honest : NotarizedHeight(m)' = NotarizedHeight(m)
  BY <1>1, <1>3, <1>4, SharesAdded DEF pools, cups
<1>6. SharesBelow'
  BY <1>4, <1>5 DEF Inv, SharesBelow
<1>7. FinalityShareBinds'
  <2> SUFFICES ASSUME NEW m \in Honest, NEW b \in finalShares[m],
                      NEW c \in notarShares'[m] \cup finalShares[m],
                      height[b] = height[c]
               PROVE  b = c
    BY <1>4 DEF FinalityShareBinds
  <2>1. CASE c \in notarShares[m] \cup finalShares[m]
    BY <2>1 DEF Inv, FinalityShareBinds
  <2>2. CASE m = n /\ c \in new
    <3>1. height[b] <= h
      BY <2>2 DEF Inv, SharesBelow
    <3>2. h \in Nat
      BY NotarizedHeightMax DEF Inv
    <3> QED BY <1>2, <2>2, <3>1, <3>2
  <2> QED BY <1>4, <2>1, <2>2
<1> QED BY <1>3, <1>5, <1>6, <1>7 DEF Inv

(* What the finalizer picks at one height. *)
LEMMA PickedBlock ==
    ASSUME Inv, NEW n \in Honest, NEW h \in (FinalizedHeight(n) + 1)..NotarizedHeight(n),
           NEW b \in pick_block_to_finality_sign(n, h)
    PROVE  /\ b \in Blocks
           /\ height[b] = h
           /\ h <= NotarizedHeight(n)
           /\ pick_block_to_finality_sign(n, h) = {b}
           /\ \A c \in notarShares[n] : height[c] = h => c = b
           /\ \A c \in finalShares[n] : height[c] # h
<1>1. /\ FinalizedHeight(n) \in Nat /\ CupHeight(n) <= FinalizedHeight(n)
      /\ NotarizedHeight(n) \in Nat /\ CupHeight(n) \in Nat
  BY FinalizedHeightMax, NotarizedHeightMax, ReadersType DEF Inv
<1>2. h > CupHeight(n) /\ h <= NotarizedHeight(n)
  BY <1>1
<1>3. NotarizedBlocks(n, h) = At(notarizations[n], h)
  BY <1>2 DEF NotarizedBlocks
<1>4. b \in At(notarizations[n], h)
  BY <1>3 DEF pick_block_to_finality_sign
<1>5. b \in Blocks /\ height[b] = h
  BY <1>4 DEF At, Inv, TypeOK
<1>6. pick_block_to_finality_sign(n, h) = {b}
  BY DEF pick_block_to_finality_sign
<1>7. \A c \in notarShares[n] : height[c] = h => c = b
  BY DEF pick_block_to_finality_sign, At
<1>8. \A c \in finalShares[n] : height[c] # h
  BY DEF pick_block_to_finality_sign, At
<1> QED BY <1>2, <1>5, <1>6, <1>7, <1>8

(* The finalizer signs one block of a height, and only when it signed no   *)
(* other block of that height for notarization.                            *)
LEMMA FinalizeInv ==
    ASSUME Inv, NEW n \in Honest, Finalize(n)
    PROVE  Inv'
<1> DEFINE rounds == (FinalizedHeight(n) + 1)..NotarizedHeight(n)
           new == UNION {pick_block_to_finality_sign(n, h) : h \in rounds}
<1>1. PICK k \in 0..(FinalizedHeight(n) - Len(state[n])) :
         /\ \A i \in 1..k : get_finalized_block(n, Len(state[n]) + i) # NoBlock
         /\ state' = [state EXCEPT ![n] = Delivered(n, k)]
         /\ finalShares' = [finalShares EXCEPT ![n] = @ \cup new]
         /\ UNCHANGED <<pools, notarShares, beacons, cups>>
  BY DEF Finalize
<1>2. Delivered(n, k) \in Seq(Blocks)
  <2>1. state[n] \in Seq(Blocks) /\ Len(state[n]) \in Nat
    BY DEF Inv, TypeOK
  <2>2. k \in Nat
    BY <1>1, <2>1, FinalizedHeightMax DEF Inv
  <2>3. \A i \in 1..k : get_finalized_block(n, Len(state[n]) + i) \in Blocks
    <3> SUFFICES ASSUME NEW i \in 1..k
                 PROVE  get_finalized_block(n, Len(state[n]) + i) \in Blocks
      OBVIOUS
    <3>1. Len(state[n]) + i \in Nat /\ Len(state[n]) + i > 0
      BY <2>1, <2>2
    <3> QED BY <1>1, <3>1, FinalizedBlockType DEF Inv
  <2>4. [i \in 1..k |-> get_finalized_block(n, Len(state[n]) + i)] \in Seq(Blocks)
    BY <2>2, <2>3
  <2> QED BY <2>1, <2>4, ConcatProperties DEF Delivered
<1>3. \A b \in new : \E h \in rounds : b \in pick_block_to_finality_sign(n, h)
  OBVIOUS
<1>4. \A b \in new :
         /\ b \in Blocks
         /\ height[b] <= NotarizedHeight(n)
         /\ pick_block_to_finality_sign(n, height[b]) = {b}
         /\ \A c \in notarShares[n] : height[c] = height[b] => c = b
         /\ \A c \in finalShares[n] : height[c] # height[b]
  <2> SUFFICES ASSUME NEW b \in new, NEW h \in rounds, b \in pick_block_to_finality_sign(n, h)
               PROVE  /\ b \in Blocks
                      /\ height[b] <= NotarizedHeight(n)
                      /\ pick_block_to_finality_sign(n, height[b]) = {b}
                      /\ \A c \in notarShares[n] : height[c] = height[b] => c = b
                      /\ \A c \in finalShares[n] : height[c] # height[b]
    BY <1>3
  <2> QED BY PickedBlock
<1> HIDE DEF new
<1>5. TypeOK'
  BY <1>1, <1>2, <1>4 DEF Inv, TypeOK, pools, beacons, cups
<1>6. /\ finalShares'[n] = finalShares[n] \cup new
      /\ \A m \in Honest \ {n} : finalShares'[m] = finalShares[m]
      /\ notarShares' = notarShares
  BY <1>1 DEF Inv, TypeOK
<1>7. /\ MaximaExist'
      /\ AggregatesSigned'
      /\ \A m \in Honest : NotarizedHeight(m)' = NotarizedHeight(m)
  BY <1>1, <1>5, <1>6, SharesAdded DEF pools, cups
<1>8. SharesBelow'
  BY <1>4, <1>6, <1>7 DEF Inv, SharesBelow
<1>9. FinalityShareBinds'
  <2> SUFFICES ASSUME NEW m \in Honest, NEW b \in finalShares'[m],
                      NEW c \in notarShares[m] \cup finalShares'[m],
                      height[b] = height[c]
               PROVE  b = c
    BY <1>6 DEF FinalityShareBinds
  <2>1. CASE b \in finalShares[m] /\ c \in notarShares[m] \cup finalShares[m]
    BY <2>1 DEF Inv, FinalityShareBinds
  <2>2. CASE m = n /\ b \in new
    <3>1. CASE c \in notarShares[m]
      BY <1>4, <2>2, <3>1
    <3>2. CASE c \in finalShares[m]
      BY <1>4, <2>2, <3>2
    <3>3. CASE c \in new
      BY <1>4, <2>2, <3>3
    <3> QED BY <1>6, <2>2, <3>1, <3>2, <3>3
  <2>3. CASE m = n /\ b \in finalShares[m] /\ c \in new
    BY <1>4, <2>3
  <2> QED BY <1>6, <2>1, <2>2, <2>3
<1> QED BY <1>5, <1>7, <1>8, <1>9 DEF Inv

-----------------------------------------------------------------------------
(* The theorems.                                                           *)

LEMMA NextInv == Inv /\ [Next]_vars => Inv'
<1> SUFFICES ASSUME Inv, [Next]_vars PROVE Inv'
  OBVIOUS
<1>1. CASE UNCHANGED vars
  BY <1>1, ZenonT(40) DEF vars, Inv, TypeOK, MaximaExist, SharesBelow, FinalityShareBinds, AggregatesSigned,
              Signed, NotarizedHeight, NotarizedHeights, CupHeight
<1>2. CASE Next
  <2>1. PICK n \in Honest :
          \/ \E b \in Blocks : MakeBlock(n, b)
          \/ Notarize(n)
          \/ MakeBeaconShare(n)
          \/ Finalize(n)
          \/ \E h \in SummaryHeights : MakeCupShare(n, h)
          \/ StateSync(n)
          \/ AddBeacon(n, Byzantine)
          \/ AggregateNotarizations(n, Byzantine)
          \/ \E b \in Blocks : ValidateNotarization(n, b, Byzantine)
          \/ \E b \in Blocks : AddFinalization(n, b, Byzantine)
          \/ \E b \in Blocks : ValidateBlock(n, b)
          \/ \E b \in Blocks : ValidateNotarizedBlock(n, b, Byzantine)
          \/ \E c \in SignedCups : AddCup(n, c, Byzantine)
          \/ \E h \in SummaryHeights \cup {0} : Restart(n, h)
    BY <1>2 DEF Next
  <2> QED BY <2>1, MakeBlockInv, NotarizeInv, MakeBeaconShareInv, FinalizeInv, MakeCupShareInv,
             StateSyncInv, AddBeaconInv, AggregateNotarizationsInv, ValidateNotarizationInv,
             AddFinalizationInv, ValidateBlockInv, ValidateNotarizedBlockInv, AddCupInv, RestartInv
<1> QED BY <1>1, <1>2

LEMMA InvAlways == Spec => []Inv
BY InitInv, NextInv, PTL DEF Spec

(* Pools, shares, catch-up packages and states keep their shape: what      *)
(* replicas deliver, certify in a CUP and fall back to after a restart are *)
(* sequences of blocks.                                                    *)
THEOREM TypeCorrect == Spec => []TypeOK
<1>1. Inv => TypeOK
  BY DEF Inv
<1> QED BY <1>1, InvAlways, PTL

(* The finalizer and the notary never sign for two blocks of one height    *)
(* once one of the signatures is for finality.                             *)
THEOREM FinalityShareBinding == Spec => []FinalityShareBinds
<1>1. Inv => FinalityShareBinds
  BY DEF Inv
<1> QED BY <1>1, InvAlways, PTL

(* Two blocks of one height, one finalized and one notarized, would have a *)
(* common honest signer.                                                   *)
LEMMA InvExcludesForks == Inv => FinalizationExcludesForks
<1> SUFFICES ASSUME Inv, NEW n \in Honest, NEW m \in Honest,
                    NEW b \in finalizations[n], NEW c \in notarizations[m],
                    height[b] = height[c]
             PROVE  b = c
  BY DEF FinalizationExcludesForks
<1> DEFINE S == ({r \in Honest : b \in finalShares[r]} \cup Byzantine) \cap committee[height[b]]
           U == ({r \in Honest : c \in notarShares[r]} \cup Byzantine) \cap committee[height[b]]
<1>1. b \in Blocks /\ height[b] \in Heights
  BY DEF Inv, TypeOK, Heights
<1>2. Cardinality(S) >= NotarizationThreshold
  BY DEF Inv, AggregatesSigned, Signed
<1>3. Cardinality(U) >= NotarizationThreshold
  BY DEF Inv, AggregatesSigned, Signed
<1>4. \E r \in S \cap U : r \notin Byzantine
  BY <1>1, <1>2, <1>3, QuorumsMeet
<1>5. PICK r \in Honest : b \in finalShares[r] /\ c \in notarShares[r]
  BY <1>4
<1> QED BY <1>5 DEF Inv, FinalityShareBinds

(* Agreement: a block that any honest replica has finalized is the only    *)
(* block of its height that any honest replica ever has notarized.         *)
THEOREM Agreement == Spec => []FinalizationExcludesForks
BY InvExcludesForks, InvAlways, PTL

-----------------------------------------------------------------------------
(* The validated section of the pool.                                      *)

(* What block maker and validator ask of a proposal before it enters. *)
MayEnter(n, b) ==
    /\ ~BeaconShareDue(n)
    /\ beacon[n] >= height[b] - 1
    /\ height[b] - 1 \in CupHeight(n)..NotarizedHeight(n)
    /\ parent[b] \in NotarizedBlocks(n, height[b] - 1)

(* What a step may do to the pool of replica n. *)
PoolEffect(n) ==
    /\ proposals[n] \subseteq proposals'[n]
    /\ \A b \in proposals'[n] \ proposals[n] : MayEnter(n, b)
    /\ notarizations[n] \subseteq notarizations'[n]
    /\ \A b \in notarizations'[n] \ notarizations[n] : b \in proposals'[n]
    /\ finalizations[n] \subseteq finalizations'[n]
    /\ \A b \in finalizations'[n] \ finalizations[n] : b \in notarizations[n]
    /\ beacon[n] <= beacon'[n]
    /\ beaconShare[n] <= beaconShare'[n]
    /\ \/ cup'[n] = cup[n]
       \/ /\ cup'[n] \in SignedCups
          /\ CupHeight(n) < height[cup'[n].block]
          /\ height[cup'[n].block] <= beacon'[n]

(* A replica the step does not touch. *)
LEMMA NoEffect ==
    ASSUME TypeOK, NEW n \in Honest,
           proposals'[n] = proposals[n], notarizations'[n] = notarizations[n],
           finalizations'[n] = finalizations[n], beacon'[n] = beacon[n],
           beaconShare'[n] = beaconShare[n], cup'[n] = cup[n]
    PROVE  PoolEffect(n)
<1>1. beacon[n] \in Nat /\ beaconShare[n] \in Nat
  BY DEF TypeOK
<1>2. beacon[n] <= beacon'[n] /\ beaconShare[n] <= beaconShare'[n]
  BY <1>1
<1> QED BY <1>2 DEF PoolEffect

(* Steps that only sign blocks or CUPs, or change the state. *)
LEMMA NoPoolEffect ==
    ASSUME TypeOK, UNCHANGED <<proposals, notarizations, finalizations, beacon, beaconShare, cup>>
    PROVE  \A n \in Honest : PoolEffect(n)
BY NoEffect

LEMMA MakeBlockEffect ==
    ASSUME Inv, NEW n \in Honest, NEW b \in Blocks, MakeBlock(n, b)
    PROVE  \A m \in Honest : PoolEffect(m)
<1>1. /\ proposals' = [proposals EXCEPT ![n] = @ \cup {b}]
      /\ UNCHANGED <<notarizations, finalizations, beacon, beaconShare, cup>>
  BY DEF MakeBlock, beacons, cups
<1>2. TypeOK /\ \A m \in Honest : m # n => proposals'[m] = proposals[m]
  BY <1>1 DEF Inv, TypeOK
<1>3. proposals'[n] = proposals[n] \cup {b}
  BY <1>1 DEF Inv, TypeOK
<1>4. NotarizedHeight(n) \in Nat /\ CupHeight(n) \in Nat /\ CupHeight(n) <= NotarizedHeight(n)
  BY NotarizedHeightMax, ReadersType DEF Inv
<1>5. MayEnter(n, b)
  BY <1>4 DEF MakeBlock, MayEnter, AfterBeaconMaker
<1>6. beacon[n] <= beacon'[n] /\ beaconShare[n] <= beaconShare'[n]
  BY <1>1 DEF Inv, TypeOK
<1>7. PoolEffect(n)
  BY <1>1, <1>3, <1>5, <1>6 DEF PoolEffect
<1> QED BY <1>1, <1>2, <1>7, NoEffect

(* What validate_blocks looks at may enter. *)
LEMMA ValidatableMayEnter ==
    ASSUME Inv, NEW n \in Honest, NEW b \in Blocks, Validatable(n, b)
    PROVE  MayEnter(n, b)
<1>1. /\ NotarizedHeight(n) \in Nat /\ CupHeight(n) \in Nat
      /\ FinalizedHeight(n) \in Nat /\ CupHeight(n) <= FinalizedHeight(n)
  BY NotarizedHeightMax, FinalizedHeightMax, ReadersType DEF Inv
<1>2. height[b] \in (FinalizedHeight(n) + 1)..(NotarizedHeight(n) + 1)
  BY DEF Validatable
<1>3. height[b] - 1 \in CupHeight(n)..NotarizedHeight(n)
  BY <1>1, <1>2
<1> QED BY <1>3 DEF Validatable, MayEnter, AfterBeaconMaker

LEMMA ValidateBlockEffect ==
    ASSUME Inv, NEW n \in Honest, NEW b \in Blocks, ValidateBlock(n, b)
    PROVE  \A m \in Honest : PoolEffect(m)
<1>1. /\ proposals' = [proposals EXCEPT ![n] = @ \cup {b}]
      /\ UNCHANGED <<notarizations, finalizations, beacon, beaconShare, cup>>
  BY DEF ValidateBlock, beacons, cups
<1>2. TypeOK /\ \A m \in Honest : m # n => proposals'[m] = proposals[m]
  BY <1>1 DEF Inv, TypeOK
<1>3. proposals'[n] = proposals[n] \cup {b}
  BY <1>1 DEF Inv, TypeOK
<1>4. MayEnter(n, b)
  BY ValidatableMayEnter DEF ValidateBlock
<1>5. beacon[n] <= beacon'[n] /\ beaconShare[n] <= beaconShare'[n]
  BY <1>1 DEF Inv, TypeOK
<1>6. PoolEffect(n)
  BY <1>1, <1>3, <1>4, <1>5 DEF PoolEffect
<1> QED BY <1>1, <1>2, <1>6, NoEffect

LEMMA ValidateNotarizedBlockEffect ==
    ASSUME Inv, NEW n \in Honest, NEW b \in Blocks, ValidateNotarizedBlock(n, b, Byzantine)
    PROVE  \A m \in Honest : PoolEffect(m)
<1>1. PICK others \in SUBSET LetThrough(n, b) :
         proposals' = [proposals EXCEPT ![n] = @ \cup {b} \cup others]
  BY DEF ValidateNotarizedBlock
<1>2. /\ notarizations' = [notarizations EXCEPT ![n] = @ \cup {b}]
      /\ UNCHANGED <<finalizations, beacon, beaconShare, cup>>
  BY DEF ValidateNotarizedBlock, beacons, cups
<1>3. TypeOK /\ \A m \in Honest : m # n => /\ proposals'[m] = proposals[m]
                                           /\ notarizations'[m] = notarizations[m]
  BY <1>1, <1>2 DEF Inv, TypeOK
<1>4. /\ proposals'[n] = proposals[n] \cup {b} \cup others
      /\ notarizations'[n] = notarizations[n] \cup {b}
  BY <1>1, <1>2 DEF Inv, TypeOK
<1>5. \A c \in {b} \cup others : MayEnter(n, c)
  <2> SUFFICES ASSUME NEW c \in {b} \cup others
               PROVE  c \in Blocks /\ Validatable(n, c)
    BY ValidatableMayEnter
  <2>1. CASE c = b
    BY <2>1 DEF ValidateNotarizedBlock
  <2>2. CASE c \in others
    BY <2>2 DEF LetThrough, At
  <2> QED BY <2>1, <2>2
<1>6. beacon[n] <= beacon'[n] /\ beaconShare[n] <= beaconShare'[n]
  BY <1>2 DEF Inv, TypeOK
<1>7. PoolEffect(n)
  BY <1>2, <1>4, <1>5, <1>6 DEF PoolEffect
<1> QED BY <1>2, <1>3, <1>7, NoEffect

LEMMA MakeBeaconShareEffect ==
    ASSUME Inv, NEW n \in Honest, MakeBeaconShare(n)
    PROVE  \A m \in Honest : PoolEffect(m)
<1>1. /\ beaconShare' = [beaconShare EXCEPT ![n] = beacon[n] + 1]
      /\ UNCHANGED <<proposals, notarizations, finalizations, beacon, cup>>
  BY DEF MakeBeaconShare, pools, cups
<1>2. TypeOK /\ \A m \in Honest : m # n => beaconShare'[m] = beaconShare[m]
  BY <1>1 DEF Inv, TypeOK
<1>3. beacon[n] <= beacon'[n] /\ beaconShare[n] <= beaconShare'[n]
  BY <1>1 DEF Inv, TypeOK, MakeBeaconShare, BeaconShareDue
<1>4. PoolEffect(n)
  BY <1>1, <1>3 DEF PoolEffect
<1> QED BY <1>1, <1>2, <1>4, NoEffect

LEMMA AddBeaconEffect ==
    ASSUME Inv, NEW n \in Honest, AddBeacon(n, Byzantine)
    PROVE  \A m \in Honest : PoolEffect(m)
<1>1. /\ beacon' = [beacon EXCEPT ![n] = @ + 1]
      /\ UNCHANGED <<proposals, notarizations, finalizations, beaconShare, cup>>
  BY DEF AddBeacon, pools, cups
<1>2. TypeOK /\ \A m \in Honest : m # n => beacon'[m] = beacon[m]
  BY <1>1 DEF Inv, TypeOK
<1>3. beacon[n] <= beacon'[n] /\ beaconShare[n] <= beaconShare'[n]
  BY <1>1 DEF Inv, TypeOK
<1>4. PoolEffect(n)
  BY <1>1, <1>3 DEF PoolEffect
<1> QED BY <1>1, <1>2, <1>4, NoEffect

(* Blocks of the pool become notarized. *)
LEMMA NotarizedEffect ==
    ASSUME Inv, NEW n \in Honest, NEW new \in SUBSET proposals[n],
           notarizations' = [notarizations EXCEPT ![n] = @ \cup new],
           UNCHANGED <<proposals, finalizations, beacon, beaconShare, cup>>
    PROVE  \A m \in Honest : PoolEffect(m)
<1>1. TypeOK /\ \A m \in Honest : m # n => notarizations'[m] = notarizations[m]
  BY DEF Inv, TypeOK
<1>2. notarizations'[n] = notarizations[n] \cup new
  BY DEF Inv, TypeOK
<1>3. beacon[n] <= beacon'[n] /\ beaconShare[n] <= beaconShare'[n]
  BY DEF Inv, TypeOK
<1>4. PoolEffect(n)
  BY <1>2, <1>3 DEF PoolEffect
<1> QED BY <1>1, <1>4, NoEffect

LEMMA AggregateNotarizationsEffect ==
    ASSUME Inv, NEW n \in Honest, AggregateNotarizations(n, Byzantine)
    PROVE  \A m \in Honest : PoolEffect(m)
<1>1. PICK new \in SUBSET proposals[n] :
         notarizations' = [notarizations EXCEPT ![n] = @ \cup new]
  BY DEF AggregateNotarizations, At
<1> QED BY <1>1, NotarizedEffect DEF AggregateNotarizations, beacons, cups

LEMMA ValidateNotarizationEffect ==
    ASSUME Inv, NEW n \in Honest, NEW b \in Blocks, ValidateNotarization(n, b, Byzantine)
    PROVE  \A m \in Honest : PoolEffect(m)
<1>1. {b} \in SUBSET proposals[n]
  BY DEF ValidateNotarization
<1> QED BY <1>1, NotarizedEffect DEF ValidateNotarization, beacons, cups

LEMMA AddFinalizationEffect ==
    ASSUME Inv, NEW n \in Honest, NEW b \in Blocks, AddFinalization(n, b, Byzantine)
    PROVE  \A m \in Honest : PoolEffect(m)
<1>1. /\ finalizations' = [finalizations EXCEPT ![n] = @ \cup {b}]
      /\ b \in notarizations[n]
      /\ UNCHANGED <<proposals, notarizations, beacon, beaconShare, cup>>
  BY DEF AddFinalization, beacons, cups
<1>2. TypeOK /\ \A m \in Honest : m # n => finalizations'[m] = finalizations[m]
  BY <1>1 DEF Inv, TypeOK
<1>3. finalizations'[n] = finalizations[n] \cup {b}
  BY <1>1 DEF Inv, TypeOK
<1>4. beacon[n] <= beacon'[n] /\ beaconShare[n] <= beaconShare'[n]
  BY <1>1 DEF Inv, TypeOK
<1>5. PoolEffect(n)
  BY <1>1, <1>3, <1>4 DEF PoolEffect
<1> QED BY <1>1, <1>2, <1>5, NoEffect

LEMMA AddCupEffect ==
    ASSUME Inv, NEW n \in Honest, NEW c \in SignedCups, AddCup(n, c, Byzantine)
    PROVE  \A m \in Honest : PoolEffect(m)
<1>1. /\ height[c.block] > CupHeight(n)
      /\ cup' = [cup EXCEPT ![n] = c]
      /\ beacon' = [beacon EXCEPT ![n] = IF @ > height[c.block] THEN @ ELSE height[c.block]]
      /\ UNCHANGED <<proposals, notarizations, finalizations, beaconShare>>
  BY DEF AddCup, pools
<1>2. TypeOK /\ \A m \in Honest : m # n => cup'[m] = cup[m] /\ beacon'[m] = beacon[m]
  BY <1>1 DEF Inv, TypeOK
<1>3. cup'[n] = c
  BY <1>1 DEF Inv, TypeOK
<1>4. height[c.block] \in Nat /\ CupHeight(n) \in Nat
  <2>1. c \in CatchUpContent
    BY DEF Inv, TypeOK, SignedCups
  <2> QED BY <2>1, BlocksAssumption, ReadersType DEF CatchUpContent, Inv
<1>5. beacon[n] <= beacon'[n] /\ height[c.block] <= beacon'[n] /\ beaconShare[n] <= beaconShare'[n]
  BY <1>1, <1>4 DEF Inv, TypeOK
<1>6. CupHeight(n) < height[c.block]
  BY <1>1, <1>4
<1>7. PoolEffect(n)
  BY <1>1, <1>3, <1>5, <1>6 DEF PoolEffect
<1> QED BY <1>1, <1>2, <1>7, NoEffect

LEMMA StepEffects ==
    ASSUME Inv, [Next]_vars
    PROVE  \A n \in Honest : PoolEffect(n)
<1>1. CASE UNCHANGED vars
  BY <1>1, NoPoolEffect DEF vars, Inv
<1>2. CASE Next
  <2>1. PICK n \in Honest :
          \/ \E b \in Blocks : MakeBlock(n, b)
          \/ Notarize(n)
          \/ MakeBeaconShare(n)
          \/ Finalize(n)
          \/ \E h \in SummaryHeights : MakeCupShare(n, h)
          \/ StateSync(n)
          \/ AddBeacon(n, Byzantine)
          \/ AggregateNotarizations(n, Byzantine)
          \/ \E b \in Blocks : ValidateNotarization(n, b, Byzantine)
          \/ \E b \in Blocks : AddFinalization(n, b, Byzantine)
          \/ \E b \in Blocks : ValidateBlock(n, b)
          \/ \E b \in Blocks : ValidateNotarizedBlock(n, b, Byzantine)
          \/ \E c \in SignedCups : AddCup(n, c, Byzantine)
          \/ \E h \in SummaryHeights \cup {0} : Restart(n, h)
    BY <1>2 DEF Next
  <2>2. CASE \/ Notarize(n) \/ Finalize(n) \/ StateSync(n)
             \/ \E h \in SummaryHeights : MakeCupShare(n, h)
             \/ \E h \in SummaryHeights \cup {0} : Restart(n, h)
    <3>1. UNCHANGED <<proposals, notarizations, finalizations, beacon, beaconShare, cup>>
      BY <2>2 DEF Notarize, Finalize, StateSync, MakeCupShare, Restart, pools, beacons, cups
    <3> QED BY <3>1, NoPoolEffect DEF Inv
  <2> QED BY <2>1, <2>2, MakeBlockEffect, MakeBeaconShareEffect, AddBeaconEffect,
             AggregateNotarizationsEffect, ValidateNotarizationEffect, AddFinalizationEffect,
             ValidateBlockEffect, ValidateNotarizedBlockEffect, AddCupEffect
<1> QED BY <1>1, <1>2

-----------------------------------------------------------------------------
(* The inductive invariant.                                                *)

(* A replica of the committee that has a proposal for height h has signed  *)
(* the beacon of height h, or has it, though the proposal may not be       *)
(* notarized yet.                                                          *)
ProposalsAfterShare ==
    \A n \in Honest \cap lowCommittee : \A b \in proposals[n] :
        height[b] \in BeaconHeights => beacon[n] >= height[b] \/ beaconShare[n] >= height[b]

PoolInv == Inv /\ PoolComplete /\ ProposalsAfterShare /\ BeaconShareFirst

LEMMA InitPoolInv == Init => PoolInv
<1> SUFFICES ASSUME Init PROVE PoolInv
  OBVIOUS
<1>1. Inv
  BY InitInv
<1>2. ASSUME NEW n \in Honest
      PROVE  NotarizedHeight(n) = 0 /\ CupHeight(n) = 0
  <2>1. notarizations[n] = {} /\ CupHeight(n) = 0
    BY BlocksAssumption DEF Init, CupHeight
  <2>2. HasMax({})
    BY DEF HasMax
  <2>3. NotarizedHeight(n) = MaxHeight({}, 0)
    BY <1>1, <2>1, ReadersType DEF Inv
  <2>4. MaxHeight({}, 0) \in {height[b] : b \in {}} \cup {0}
    BY <2>2, MaxHeightProperties
  <2> QED BY <2>1, <2>3, <2>4
<1>3. PoolComplete
  BY <1>2 DEF Init, PoolComplete
<1>4. ProposalsAfterShare
  BY DEF Init, ProposalsAfterShare
<1>5. BeaconShareFirst
  <2> SUFFICES ASSUME NEW n \in Honest, NEW h \in BeaconHeights, h <= NotarizedHeight(n)
               PROVE  beacon[n] >= h
    BY DEF BeaconShareFirst
  <2>1. h \in Int /\ h <= 0
    BY <1>2, BlocksAssumption DEF BeaconHeights, AllBlocks
  <2>2. beacon[n] \in Nat
    BY <1>1 DEF Inv, TypeOK
  <2> QED BY <2>1, <2>2
<1> QED BY <1>1, <1>3, <1>4, <1>5 DEF PoolInv

(* The heights of a replica before and after a step. *)
LEMMA HeightsGrow ==
    ASSUME PoolInv, Inv', NEW n \in Honest, PoolEffect(n)
    PROVE  /\ CupHeight(n) \in Nat /\ CupHeight(n)' \in Nat
           /\ NotarizedHeight(n) \in Nat /\ NotarizedHeight(n)' \in Nat
           /\ CupHeight(n) <= NotarizedHeight(n) /\ CupHeight(n)' <= NotarizedHeight(n)'
           /\ CupHeight(n) <= CupHeight(n)'
           /\ NotarizedHeight(n) <= NotarizedHeight(n)'
           /\ \A b \in notarizations[n] : height[b] <= NotarizedHeight(n)
           /\ \A b \in notarizations'[n] : height[b] <= NotarizedHeight(n)'
           /\ NotarizedHeight(n)' \in {height[b] : b \in notarizations'[n]} \cup {CupHeight(n)'}
           /\ proposals'[n] \subseteq Blocks
<1>1. /\ CupHeight(n) \in Nat /\ NotarizedHeight(n) \in Nat
      /\ CupHeight(n) <= NotarizedHeight(n)
      /\ \A b \in notarizations[n] : height[b] <= NotarizedHeight(n)
  BY NotarizedHeightMax, ReadersType DEF PoolInv, Inv
<1>2. notarizations'[n] \in SUBSET Blocks /\ proposals'[n] \subseteq Blocks
  BY DEF Inv, TypeOK
<1>3. CupHeight(n)' \in Nat
  <2>1. cup'[n].block \in AllBlocks
    BY DEF Inv, TypeOK, CatchUpContent
  <2> QED BY <2>1, BlocksAssumption DEF CupHeight
<1>4. NotarizedHeight(n)' = MaxHeight(notarizations'[n], CupHeight(n)')
  BY DEF NotarizedHeight, NotarizedHeights, MaxHeight
<1>5. HasMax(notarizations'[n])
  BY DEF Inv, MaximaExist
<1>6. CupHeight(n) <= CupHeight(n)'
  BY <1>1, <1>3 DEF PoolEffect, CupHeight
<1>7. NotarizedHeight(n) <= NotarizedHeight(n)'
  BY <1>6, NotarizedHeightGrows DEF PoolEffect, PoolInv, Inv
<1>8. /\ NotarizedHeight(n)' \in Nat
      /\ CupHeight(n)' <= NotarizedHeight(n)'
      /\ \A b \in notarizations'[n] : height[b] <= NotarizedHeight(n)'
      /\ NotarizedHeight(n)' \in {height[b] : b \in notarizations'[n]} \cup {CupHeight(n)'}
  BY <1>2, <1>3, <1>4, <1>5, MaxHeightProperties
<1> QED BY <1>1, <1>2, <1>3, <1>6, <1>7, <1>8

(* A proposal is at most one above the notarized height. *)
LEMMA ProposalHeight ==
    ASSUME PoolInv, Inv', NEW n \in Honest, PoolEffect(n), NEW b \in proposals'[n]
    PROVE  height[b] \in Nat /\ height[b] <= NotarizedHeight(n) + 1
<1>1. b \in Blocks /\ height[b] \in Nat
  BY HeightsGrow, BlocksAssumption DEF AllBlocks
<1>2. CASE b \in proposals[n]
  <2>1. CASE height[b] > CupHeight(n) + 1
    <3>1. parent[b] \in notarizations[n]
      BY <1>2, <2>1 DEF PoolInv, PoolComplete
    <3>2. height[parent[b]] <= NotarizedHeight(n)
      BY <3>1, HeightsGrow
    <3>3. height[b] = height[parent[b]] + 1 /\ height[parent[b]] \in Nat
      BY <1>1, BlocksAssumption
    <3> QED BY <1>1, <3>2, <3>3, HeightsGrow
  <2>2. CASE ~(height[b] > CupHeight(n) + 1)
    BY <1>1, <2>2, HeightsGrow
  <2> QED BY <2>1, <2>2
<1>3. CASE b \notin proposals[n]
  <2>1. height[b] - 1 <= NotarizedHeight(n)
    BY <1>3 DEF PoolEffect, MayEnter
  <2> QED BY <1>1, <2>1, HeightsGrow
<1> QED BY <1>2, <1>3

(* The pool stays complete: new notarized blocks are at most one above the *)
(* notarized height, and proposals only enter above notarized blocks.      *)
LEMMA PoolCompleteKept ==
    ASSUME PoolInv, Inv', \A n \in Honest : PoolEffect(n)
    PROVE  PoolComplete'
<1> SUFFICES ASSUME NEW n \in Honest
             PROVE  /\ \A h \in (CupHeight(n)' + 1)..NotarizedHeight(n)' :
                          NotarizedBlocks(n, h)' # {}
                    /\ \A b \in notarizations'[n] : b \in proposals'[n]
                    /\ \A b \in proposals'[n] :
                          height[b] > CupHeight(n)' + 1 => parent[b] \in notarizations'[n]
                    /\ \A b \in finalizations'[n] : b \in notarizations'[n]
  BY DEF PoolComplete
<1>1. PoolEffect(n)
  OBVIOUS
<1>2. ASSUME NEW h \in (CupHeight(n)' + 1)..NotarizedHeight(n)'
      PROVE  NotarizedBlocks(n, h)' # {}
  <2>1. h \in Nat /\ h > CupHeight(n)' /\ h <= NotarizedHeight(n)' /\ h > CupHeight(n)
    BY <1>1, HeightsGrow
  <2>2. NotarizedBlocks(n, h)' = {b \in notarizations'[n] : height[b] = h}
    BY <2>1 DEF NotarizedBlocks, At
  <2>3. CASE h <= NotarizedHeight(n)
    <3>1. h \in (CupHeight(n) + 1)..NotarizedHeight(n)
      BY <1>1, <2>1, <2>3, HeightsGrow
    <3>2. NotarizedBlocks(n, h) # {}
      BY <3>1 DEF PoolInv, PoolComplete
    <3>3. \E b \in notarizations[n] : height[b] = h
      BY <2>1, <3>2 DEF NotarizedBlocks, At
    <3> QED BY <1>1, <2>2, <3>3 DEF PoolEffect
  <2>4. CASE ~(h <= NotarizedHeight(n))
    <3>1. PICK b \in notarizations'[n] : height[b] = NotarizedHeight(n)'
      BY <1>1, <2>1, HeightsGrow
    <3>2. b \notin notarizations[n]
      BY <1>1, <2>1, <2>4, <3>1, HeightsGrow
    <3>3. b \in proposals'[n]
      BY <1>1, <3>1, <3>2 DEF PoolEffect
    <3>4. height[b] \in Nat /\ height[b] <= NotarizedHeight(n) + 1
      BY <1>1, <3>3, ProposalHeight
    <3>5. height[b] = h
      BY <1>1, <2>1, <2>4, <3>1, <3>4, HeightsGrow
    <3> QED BY <2>2, <3>1, <3>5
  <2> QED BY <2>3, <2>4
<1>3. ASSUME NEW b \in notarizations'[n] PROVE b \in proposals'[n]
  BY <1>1 DEF PoolEffect, PoolInv, PoolComplete
<1>4. ASSUME NEW b \in proposals'[n], height[b] > CupHeight(n)' + 1
      PROVE  parent[b] \in notarizations'[n]
  <2>1. height[b] \in Nat /\ height[b] > CupHeight(n) + 1
    BY <1>1, <1>4, ProposalHeight, HeightsGrow
  <2>2. CASE b \in proposals[n]
    BY <1>1, <2>1, <2>2 DEF PoolEffect, PoolInv, PoolComplete
  <2>3. CASE b \notin proposals[n]
    <3>1. parent[b] \in NotarizedBlocks(n, height[b] - 1)
      BY <1>1, <2>3 DEF PoolEffect, MayEnter
    <3>2. height[b] - 1 > CupHeight(n)
      BY <1>1, <2>1, HeightsGrow
    <3> QED BY <1>1, <3>1, <3>2 DEF NotarizedBlocks, At, PoolEffect
  <2> QED BY <2>2, <2>3
<1>5. ASSUME NEW b \in finalizations'[n] PROVE b \in notarizations'[n]
  BY <1>1 DEF PoolEffect, PoolInv, PoolComplete
<1> QED BY <1>2, <1>3, <1>4, <1>5

LEMMA ProposalsAfterShareKept ==
    ASSUME PoolInv, Inv', \A n \in Honest : PoolEffect(n)
    PROVE  ProposalsAfterShare'
<1> SUFFICES ASSUME NEW n \in Honest \cap lowCommittee, NEW b \in proposals'[n],
                    height[b] \in BeaconHeights
             PROVE  beacon'[n] >= height[b] \/ beaconShare'[n] >= height[b]
  BY DEF ProposalsAfterShare
<1>1. n \in Honest /\ PoolEffect(n)
  OBVIOUS
<1>2. /\ beacon[n] \in Nat /\ beacon'[n] \in Nat
      /\ beaconShare[n] \in Nat /\ beaconShare'[n] \in Nat
      /\ beacon[n] <= beacon'[n] /\ beaconShare[n] <= beaconShare'[n]
  BY <1>1 DEF PoolInv, Inv, TypeOK, PoolEffect
<1>3. height[b] \in Nat
  BY <1>1, ProposalHeight
<1> SUFFICES beacon[n] >= height[b] \/ beaconShare[n] >= height[b]
  BY <1>2, <1>3
<1>4. CASE b \in proposals[n]
  BY <1>4 DEF PoolInv, ProposalsAfterShare
<1>5. CASE b \notin proposals[n]
  <2>1. MayEnter(n, b)
    BY <1>1, <1>5 DEF PoolEffect
  <2>2. beacon[n] >= height[b] - 1 /\ height[b] - 1 <= NotarizedHeight(n) /\ ~BeaconShareDue(n)
    BY <2>1 DEF MayEnter
  <2>3. CASE height[b] <= NotarizedHeight(n)
    BY <2>3 DEF PoolInv, BeaconShareFirst
  <2>4. CASE beacon[n] = height[b] - 1 /\ NotarizedHeight(n) = height[b] - 1
    <3>1. beacon[n] + 1 = height[b]
      BY <1>3, <2>4
    <3>2. ~(beaconShare[n] <= beacon[n])
      BY <2>2, <2>4, <3>1 DEF BeaconShareDue
    <3> QED BY <1>2, <1>3, <2>4, <3>2
  <2> QED BY <1>1, <1>2, <1>3, <2>2, <2>3, <2>4, HeightsGrow
<1> QED BY <1>4, <1>5

LEMMA BeaconShareFirstKept ==
    ASSUME PoolInv, Inv', \A n \in Honest : PoolEffect(n), PoolComplete', ProposalsAfterShare'
    PROVE  BeaconShareFirst'
<1> SUFFICES ASSUME NEW n \in Honest \cap lowCommittee, NEW h \in BeaconHeights,
                    h <= NotarizedHeight(n)'
             PROVE  beacon'[n] >= h \/ beaconShare'[n] >= h
  BY DEF BeaconShareFirst
<1>1. n \in Honest /\ PoolEffect(n)
  OBVIOUS
<1>2. /\ beacon[n] \in Nat /\ beacon'[n] \in Nat
      /\ beaconShare[n] \in Nat /\ beaconShare'[n] \in Nat
      /\ beacon[n] <= beacon'[n] /\ beaconShare[n] <= beaconShare'[n]
  BY <1>1 DEF PoolInv, Inv, TypeOK, PoolEffect
<1>3. h \in Int
  BY BlocksAssumption DEF BeaconHeights, AllBlocks
<1>4. CASE h <= NotarizedHeight(n)
  <2>1. beacon[n] >= h \/ beaconShare[n] >= h
    BY <1>4 DEF PoolInv, BeaconShareFirst
  <2> QED BY <1>2, <1>3, <2>1
<1>5. CASE h <= CupHeight(n)' /\ ~(h <= NotarizedHeight(n))
  <2>1. CupHeight(n)' > CupHeight(n)
    BY <1>1, <1>3, <1>5, HeightsGrow
  <2>2. CupHeight(n)' <= beacon'[n]
    BY <1>1, <2>1, HeightsGrow DEF PoolEffect, CupHeight
  <2> QED BY <1>1, <1>2, <1>3, <1>5, <2>2, HeightsGrow
<1>6. CASE ~(h <= CupHeight(n)') /\ ~(h <= NotarizedHeight(n))
  <2>1. h \in (CupHeight(n)' + 1)..NotarizedHeight(n)' /\ h > CupHeight(n)'
    BY <1>1, <1>3, <1>6, HeightsGrow
  <2>2. NotarizedBlocks(n, h)' # {}
    BY <2>1 DEF PoolComplete
  <2>3. PICK b \in notarizations'[n] : height[b] = h
    BY <2>1, <2>2 DEF NotarizedBlocks, At
  <2>4. b \in proposals'[n]
    BY <2>3 DEF PoolComplete
  <2> QED BY <2>3, <2>4 DEF ProposalsAfterShare
<1> QED BY <1>4, <1>5, <1>6

LEMMA NextPoolInv == PoolInv /\ [Next]_vars => PoolInv'
<1> SUFFICES ASSUME PoolInv, [Next]_vars PROVE PoolInv'
  OBVIOUS
<1>1. Inv'
  BY NextInv DEF PoolInv
<1>2. \A n \in Honest : PoolEffect(n)
  BY StepEffects DEF PoolInv
<1>3. PoolComplete'
  BY <1>1, <1>2, PoolCompleteKept
<1>4. ProposalsAfterShare'
  BY <1>1, <1>2, ProposalsAfterShareKept
<1>5. BeaconShareFirst'
  BY <1>1, <1>2, <1>3, <1>4, BeaconShareFirstKept
<1> QED BY <1>1, <1>3, <1>4, <1>5 DEF PoolInv

LEMMA PoolInvAlways == Spec => []PoolInv
BY InitPoolInv, NextPoolInv, PTL DEF Spec

-----------------------------------------------------------------------------
(* The theorems.                                                           *)

(* The readers of the pool find what they unwrap: notarized blocks at      *)
(* every height above the CUP, with their proposals and their parents, and *)
(* notarizations for finalized blocks, also right after a CUP arrived.     *)
THEOREM PoolsComplete == Spec => []PoolComplete
<1>1. PoolInv => PoolComplete
  BY DEF PoolInv
<1> QED BY <1>1, PoolInvAlways, PTL

(* No replica gets past a height without the beacon of that height or a    *)
(* share of its own for it: the beacon maker sees every round in time.     *)
THEOREM BeaconSharesInTime == Spec => []BeaconShareFirst
<1>1. PoolInv => BeaconShareFirst
  BY DEF PoolInv
<1> QED BY <1>1, PoolInvAlways, PTL

-----------------------------------------------------------------------------
(* The tree of blocks.                                                     *)

LEMMA BlockFacts ==
    /\ Blocks \subseteq AllBlocks
    /\ Genesis \in AllBlocks
    /\ height[Genesis] = 0
    /\ \A b \in AllBlocks : height[b] \in Nat
    /\ \A b \in Blocks : /\ parent[b] \in AllBlocks
                         /\ height[b] = height[parent[b]] + 1
                         /\ height[b] > 0
                         /\ b # Genesis
    /\ \A b \in AllBlocks : height[b] = 0 => b = Genesis
<1>1. /\ Blocks \subseteq AllBlocks
      /\ Genesis \in AllBlocks
      /\ height[Genesis] = 0
      /\ \A b \in AllBlocks : height[b] \in Nat
  BY BlocksAssumption DEF AllBlocks
<1>2. \A b \in Blocks : /\ parent[b] \in AllBlocks
                        /\ height[b] = height[parent[b]] + 1
                        /\ b # Genesis
  BY BlocksAssumption
<1>3. \A b \in Blocks : height[b] > 0
  BY <1>1, <1>2
<1>4. \A b \in AllBlocks : height[b] = 0 => b = Genesis
  BY <1>3 DEF AllBlocks
<1> QED BY <1>1, <1>2, <1>3, <1>4

(* Induction along the tree: what holds of Genesis, and of a block when it *)
(* holds of its parent, holds of every block.                              *)
LEMMA BlockInduction ==
    ASSUME NEW S, Genesis \in S, \A b \in Blocks : parent[b] \in S => b \in S
    PROVE  AllBlocks \subseteq S
<1> DEFINE P == {k \in Nat : \A b \in AllBlocks : height[b] = k => b \in S}
<1>1. 0 \in P
  BY BlockFacts
<1>2. \A k \in Nat : k \in P => k + 1 \in P
  <2> SUFFICES ASSUME NEW k \in Nat, k \in P, NEW b \in AllBlocks, height[b] = k + 1
               PROVE  b \in S
    <3>1. \A k \in Nat : k + 1 \in Nat
      OBVIOUS
    <3> QED BY <3>1
  <2>1. b \in Blocks
    BY BlockFacts DEF AllBlocks
  <2>2. parent[b] \in AllBlocks /\ height[parent[b]] = k
    BY <2>1, BlockFacts
  <2> QED BY <2>1, <2>2
<1>3. Nat \subseteq P
  <2> HIDE DEF P
  <2> QED BY <1>1, <1>2, NatSetInduction
<1> QED BY <1>3, BlockFacts

(* The heights Ancestor is defined for. *)
Levels == Heights \cup {0}

LEMMA LevelsOfBlock ==
    ASSUME NEW b \in AllBlocks
    PROVE  0..height[b] \subseteq Levels
<1> DEFINE S == {c \in AllBlocks : 0..height[c] \subseteq Levels}
<1>1. Genesis \in S
  BY BlockFacts DEF Levels
<1>2. \A c \in Blocks : parent[c] \in S => c \in S
  <2> SUFFICES ASSUME NEW c \in Blocks, parent[c] \in S
               PROVE  0..height[c] \subseteq Levels
    BY BlockFacts
  <2>1. 0..height[parent[c]] \subseteq Levels
    OBVIOUS
  <2>2. height[c] \in Levels
    BY DEF Levels, Heights
  <2>3. 0..height[c] = 0..height[parent[c]] \cup {height[c]}
    BY BlockFacts
  <2> QED BY <2>1, <2>2, <2>3
<1> QED
  <2> HIDE DEF S
  <2>1. AllBlocks \subseteq S
    BY <1>1, <1>2, BlockInduction
  <2> QED BY <2>1 DEF S

LEMMA LevelsNat == Levels \subseteq Nat
BY BlockFacts DEF Levels, Heights

(* Functions that satisfy the recursion of Ancestor up to height k. *)
AncestorBody(g, b) ==
    [h \in Levels |-> IF height[b] <= h THEN b ELSE g[parent[b]][h]]

IsAncestorUpTo(g, k) ==
    \A b \in AllBlocks : height[b] <= k => g[b] = AncestorBody(g, b)

LEMMA AncestorUpToUnique ==
    ASSUME NEW f, NEW g, NEW j \in Nat, NEW k \in Nat,
           IsAncestorUpTo(f, j), IsAncestorUpTo(g, k),
           NEW b \in AllBlocks, height[b] <= j, height[b] <= k
    PROVE  f[b] = g[b]
<1> DEFINE S == {c \in AllBlocks : height[c] <= j /\ height[c] <= k => f[c] = g[c]}
<1>1. Genesis \in S
  <2>1. f[Genesis] = AncestorBody(f, Genesis) /\ g[Genesis] = AncestorBody(g, Genesis)
    BY BlockFacts DEF IsAncestorUpTo
  <2>2. AncestorBody(f, Genesis) = AncestorBody(g, Genesis)
    BY BlockFacts, LevelsNat DEF AncestorBody
  <2> QED BY <2>1, <2>2, BlockFacts
<1>2. \A c \in Blocks : parent[c] \in S => c \in S
  <2> SUFFICES ASSUME NEW c \in Blocks, parent[c] \in S, height[c] <= j, height[c] <= k
               PROVE  f[c] = g[c]
    BY BlockFacts
  <2>1. height[parent[c]] <= j /\ height[parent[c]] <= k
    BY BlockFacts
  <2>2. f[parent[c]] = g[parent[c]]
    BY <2>1
  <2>3. AncestorBody(f, c) = AncestorBody(g, c)
    BY <2>2 DEF AncestorBody
  <2> QED BY <2>3, BlockFacts DEF IsAncestorUpTo
<1>3. AllBlocks \subseteq S
  <2> HIDE DEF S
  <2> QED BY <1>1, <1>2, BlockInduction
<1> QED BY <1>3

LEMMA AncestorUpToExists ==
    ASSUME NEW k \in Nat
    PROVE  \E g : IsAncestorUpTo(g, k)
<1> DEFINE P == {i \in Nat : \E g : IsAncestorUpTo(g, i)}
<1>1. 0 \in P
  <2> DEFINE g == [b \in AllBlocks |-> AncestorBody(<<>>, b)]
  <2>1. \A b \in AllBlocks : height[b] <= 0 => g[b] = AncestorBody(g, b)
    <3> SUFFICES ASSUME NEW b \in AllBlocks, height[b] <= 0
                 PROVE  AncestorBody(<<>>, b) = AncestorBody(g, b)
      OBVIOUS
    <3>1. \A h \in Levels : height[b] <= h
      BY BlockFacts, LevelsNat
    <3> HIDE DEF g
    <3> QED BY <3>1 DEF AncestorBody
  <2> QED BY <2>1 DEF IsAncestorUpTo
<1>2. \A i \in Nat : i \in P => i + 1 \in P
  <2> SUFFICES ASSUME NEW i \in Nat, NEW f, IsAncestorUpTo(f, i)
               PROVE  \E g : IsAncestorUpTo(g, i + 1)
    <3>1. \A j \in Nat : j + 1 \in Nat
      OBVIOUS
    <3> QED BY <3>1
  <2> DEFINE g == [b \in AllBlocks |-> IF height[b] <= i THEN f[b] ELSE AncestorBody(f, b)]
  <2>1. ASSUME NEW b \in AllBlocks, height[b] <= i + 1
        PROVE  g[b] = AncestorBody(g, b)
    <3>1. g[b] = AncestorBody(f, b)
      BY DEF IsAncestorUpTo
    <3>2. CASE b = Genesis
      <4>1. \A h \in Levels : height[b] <= h
        BY <3>2, BlockFacts, LevelsNat
      <4> HIDE DEF g
      <4> QED BY <3>1, <4>1 DEF AncestorBody
    <3>3. CASE b \in Blocks
      <4>1. parent[b] \in AllBlocks /\ height[parent[b]] <= i
        BY <3>3, <2>1, BlockFacts
      <4>2. g[parent[b]] = f[parent[b]]
        BY <4>1
      <4> HIDE DEF g
      <4> QED BY <3>1, <4>2 DEF AncestorBody
    <3> QED BY <3>2, <3>3 DEF AllBlocks
  <2> HIDE DEF g
  <2> QED BY <2>1 DEF IsAncestorUpTo
<1>3. Nat \subseteq P
  <2> HIDE DEF P
  <2> QED BY <1>1, <1>2, NatSetInduction
<1> QED BY <1>3

(* Ancestor is what its recursive definition says. *)
LEMMA AncestorDef ==
    /\ Ancestor = [b \in AllBlocks |-> AncestorBody(Ancestor, b)]
    /\ \A b \in AllBlocks : Ancestor[b] = AncestorBody(Ancestor, b)
<1> DEFINE G(k) == CHOOSE g : IsAncestorUpTo(g, k)
           F == [b \in AllBlocks |-> G(height[b])[b]]
<1>1. \A k \in Nat : IsAncestorUpTo(G(k), k)
  BY AncestorUpToExists
<1>2. ASSUME NEW b \in AllBlocks
      PROVE  F[b] = AncestorBody(F, b)
  <2>1. height[b] \in Nat
    BY BlockFacts
  <2>2. F[b] = G(height[b])[b]
    OBVIOUS
  <2>3. G(height[b])[b] = AncestorBody(G(height[b]), b)
    <3> HIDE DEF G
    <3> QED BY <1>1, <2>1 DEF IsAncestorUpTo
  <2>4. AncestorBody(G(height[b]), b) = AncestorBody(F, b)
    <3>1. CASE b = Genesis
      <4>1. \A h \in Levels : height[b] <= h
        BY <3>1, BlockFacts, LevelsNat
      <4> HIDE DEF F, G
      <4> QED BY <4>1 DEF AncestorBody
    <3>2. CASE b \in Blocks
      <4>1. /\ parent[b] \in AllBlocks
            /\ height[parent[b]] \in Nat
            /\ height[parent[b]] <= height[b]
        BY <3>2, BlockFacts
      <4>2. F[parent[b]] = G(height[parent[b]])[parent[b]]
        BY <4>1
      <4> HIDE DEF F, G
      <4>3. G(height[parent[b]])[parent[b]] = G(height[b])[parent[b]]
        <5>1. height[parent[b]] <= height[parent[b]]
          BY <4>1
        <5>2. IsAncestorUpTo(G(height[parent[b]]), height[parent[b]])
          BY <1>1, <4>1
        <5>3. IsAncestorUpTo(G(height[b]), height[b])
          BY <1>1, <2>1
        <5> QED BY <2>1, <4>1, <5>1, <5>2, <5>3, AncestorUpToUnique
      <4> QED BY <4>2, <4>3 DEF AncestorBody
    <3> QED BY <3>1, <3>2 DEF AllBlocks
  <2> HIDE DEF F, G
  <2> QED BY <2>2, <2>3, <2>4
<1>3. F = [b \in AllBlocks |-> AncestorBody(F, b)]
  <2>1. F = [b \in AllBlocks |-> F[b]]
    OBVIOUS
  <2> HIDE DEF F
  <2> QED BY <1>2, <2>1
<1> HIDE DEF F
<1>4. Ancestor = CHOOSE f : f = [b \in AllBlocks |-> AncestorBody(f, b)]
  BY DEF Ancestor, AncestorBody, Levels
<1>5. Ancestor = [b \in AllBlocks |-> AncestorBody(Ancestor, b)]
  <2>1. \E f : f = [b \in AllBlocks |-> AncestorBody(f, b)]
    BY <1>3
  <2> QED BY <1>4, <2>1
<1>6. ASSUME NEW b \in AllBlocks
      PROVE  Ancestor[b] = AncestorBody(Ancestor, b)
  <2> DEFINE R == [c \in AllBlocks |-> AncestorBody(Ancestor, c)]
  <2>1. Ancestor = R
    BY <1>5
  <2>2. R[b] = AncestorBody(Ancestor, b)
    OBVIOUS
  <2> HIDE DEF R
  <2> QED BY <2>1, <2>2
<1> QED BY <1>5, <1>6

LEMMA AncestorEquation ==
    ASSUME NEW b \in AllBlocks, NEW h \in Levels
    PROVE  /\ height[b] <= h => Ancestor[b][h] = b
           /\ ~(height[b] <= h) => Ancestor[b][h] = Ancestor[parent[b]][h]
BY AncestorDef DEF AncestorBody

(* The ancestor at a level is a block of that height, if b is not lower. *)
LEMMA AncestorHeight ==
    ASSUME NEW b \in AllBlocks, NEW h \in 0..height[b]
    PROVE  Ancestor[b][h] \in AllBlocks /\ height[Ancestor[b][h]] = h
<1> DEFINE Good(c) == \A g \in 0..height[c] :
                         Ancestor[c][g] \in AllBlocks /\ height[Ancestor[c][g]] = g
           S == {c \in AllBlocks : Good(c)}
<1>1. Genesis \in S
  <2>1. Ancestor[Genesis][0] = Genesis
    BY BlockFacts, AncestorEquation DEF Levels
  <2>2. 0..height[Genesis] = {0}
    BY BlockFacts
  <2> QED BY <2>1, <2>2, BlockFacts
<1>2. ASSUME NEW c \in Blocks, parent[c] \in S
      PROVE  c \in S
  <2> SUFFICES ASSUME NEW g \in 0..height[c]
               PROVE  Ancestor[c][g] \in AllBlocks /\ height[Ancestor[c][g]] = g
    BY BlockFacts
  <2>1. c \in AllBlocks /\ g \in Levels /\ height[c] \in Nat
    BY LevelsOfBlock, BlockFacts
  <2>2. CASE g = height[c]
    BY <2>1, <2>2, AncestorEquation
  <2>3. CASE g # height[c]
    <3>1. g \in 0..height[parent[c]]
      BY <2>1, <2>3, BlockFacts
    <3>2. Ancestor[c][g] = Ancestor[parent[c]][g]
      BY <2>1, <2>3, AncestorEquation
    <3> QED BY <1>2, <3>1, <3>2
  <2> QED BY <2>2, <2>3
<1>3. AllBlocks \subseteq S
  <2> HIDE DEF S
  <2> QED BY <1>1, <1>2, BlockInduction
<1> QED BY <1>3

(* An ancestor of an ancestor is an ancestor. *)
LEMMA AncestorTransitive ==
    ASSUME NEW b \in AllBlocks, NEW g \in 0..height[b], NEW h \in 0..g
    PROVE  Ancestor[Ancestor[b][g]][h] = Ancestor[b][h]
<1> DEFINE Good(c) == \A i \in 0..height[c] : \A j \in 0..i :
                         Ancestor[Ancestor[c][i]][j] = Ancestor[c][j]
           S == {c \in AllBlocks : Good(c)}
<1>1. Genesis \in S
  <2>1. Ancestor[Genesis][0] = Genesis
    BY BlockFacts, AncestorEquation DEF Levels
  <2>2. 0..height[Genesis] = {0}
    BY BlockFacts
  <2>3. \A i \in 0..height[Genesis] : \A j \in 0..i : i = 0 /\ j = 0
    BY <2>2
  <2> QED BY <2>1, <2>3, BlockFacts
<1>2. ASSUME NEW c \in Blocks, parent[c] \in S
      PROVE  c \in S
  <2> SUFFICES ASSUME NEW i \in 0..height[c], NEW j \in 0..i
               PROVE  Ancestor[Ancestor[c][i]][j] = Ancestor[c][j]
    BY BlockFacts
  <2>1. /\ c \in AllBlocks /\ height[c] \in Nat /\ i \in Nat /\ j \in Nat
        /\ i \in Levels /\ j \in Levels
    BY LevelsOfBlock, BlockFacts
  <2>2. CASE i = height[c]
    BY <2>1, <2>2, AncestorEquation
  <2>3. CASE i # height[c]
    <3>1. i \in 0..height[parent[c]]
      BY <2>1, <2>3, BlockFacts
    <3>2. Ancestor[c][i] = Ancestor[parent[c]][i]
      BY <2>1, <2>3, AncestorEquation
    <3>3. Ancestor[c][j] = Ancestor[parent[c]][j]
      BY <2>1, <2>3, AncestorEquation
    <3> QED BY <1>2, <3>1, <3>2, <3>3
  <2> QED BY <2>2, <2>3
<1>3. AllBlocks \subseteq S
  <2> HIDE DEF S
  <2> QED BY <1>1, <1>2, BlockInduction
<1> QED BY <1>3

(* Neighbours in a chain are parent and child. *)
LEMMA AncestorParent ==
    ASSUME NEW b \in AllBlocks, NEW h \in 1..height[b]
    PROVE  /\ Ancestor[b][h] \in Blocks
           /\ parent[Ancestor[b][h]] = Ancestor[b][h - 1]
<1> DEFINE c == Ancestor[b][h]
<1>1. height[b] \in Nat /\ h \in 0..height[b] /\ h - 1 \in 0..h /\ h - 1 \in 0..height[b]
  BY BlockFacts
<1>2. c \in AllBlocks /\ height[c] = h
  BY <1>1, AncestorHeight
<1>3. h - 1 \in Levels
  BY <1>1, LevelsOfBlock
<1> HIDE DEF c
<1>4. c \in Blocks
  BY <1>2, BlockFacts DEF AllBlocks
<1>5. Ancestor[c][h - 1] = Ancestor[parent[c]][h - 1]
  BY <1>1, <1>2, <1>3, AncestorEquation
<1>6. Ancestor[parent[c]][h - 1] = parent[c]
  BY <1>1, <1>2, <1>3, <1>4, AncestorEquation, BlockFacts
<1>7. Ancestor[c][h - 1] = Ancestor[b][h - 1]
  BY <1>1, AncestorTransitive DEF c
<1>8. parent[c] = Ancestor[b][h - 1]
  BY <1>5, <1>6, <1>7
<1> QED BY <1>4, <1>8 DEF c

(* A set of blocks that has the parents of its blocks above height k has   *)
(* their ancestors down to height k.                                       *)
LEMMA AncestorClosed ==
    ASSUME NEW A \in SUBSET AllBlocks, NEW k \in Nat,
           \A b \in A : height[b] > k => parent[b] \in A,
           NEW b \in A, NEW h \in k..height[b]
    PROVE  Ancestor[b][h] \in A
<1> DEFINE Good(c) == c \in A => \A g \in k..height[c] : Ancestor[c][g] \in A
           S == {c \in AllBlocks : Good(c)}
<1>1. Genesis \in S
  <2> SUFFICES ASSUME Genesis \in A, NEW g \in k..height[Genesis]
               PROVE  Ancestor[Genesis][g] \in A
    BY BlockFacts
  <2>1. g = 0
    BY BlockFacts
  <2> QED BY <2>1, BlockFacts, AncestorEquation DEF Levels
<1>2. ASSUME NEW c \in Blocks, parent[c] \in S
      PROVE  c \in S
  <2> SUFFICES ASSUME c \in A, NEW g \in k..height[c]
               PROVE  Ancestor[c][g] \in A
    BY BlockFacts
  <2>1. c \in AllBlocks /\ height[c] \in Nat /\ g \in 0..height[c] /\ g \in Levels
    BY LevelsOfBlock, BlockFacts
  <2>2. CASE g = height[c]
    BY <2>1, <2>2, AncestorEquation
  <2>3. CASE g # height[c]
    <3>1. g \in k..height[parent[c]] /\ height[c] > k
      BY <2>1, <2>3, BlockFacts
    <3>2. Ancestor[c][g] = Ancestor[parent[c]][g]
      BY <2>1, <2>3, AncestorEquation
    <3>3. parent[c] \in A
      BY <3>1
    <3> QED BY <1>2, <3>1, <3>2, <3>3
  <2> QED BY <2>2, <2>3
<1>3. AllBlocks \subseteq S
  <2> HIDE DEF S
  <2> QED BY <1>1, <1>2, BlockInduction
<1> QED BY <1>3

-----------------------------------------------------------------------------
(* The finalized chain.                                                    *)

(* The blocks that some honest replica has notarized. *)
Notarized == {Genesis} \cup UNION {notarizations[m] : m \in Honest}

(* The blocks that some honest replica has finalized. *)
Finalized == UNION {finalizations[m] : m \in Honest}

ParentsNotarized == \A n \in Honest : \A b \in proposals[n] : parent[b] \in Notarized

(* b is a finalized block or an ancestor of one. *)
OnChain(b) ==
    \/ b = Genesis
    \/ \E f \in Finalized : height[b] <= height[f] /\ Ancestor[f][height[b]] = b

(* A catch-up package holds a block of the chain and the state after it. *)
GoodCup(c) == OnChain(c.block) /\ c.state = Chain[c.block]

CupsOnChain ==
    \A n \in Honest : GoodCup(cup[n]) /\ \A c \in cupShares[n] : GoodCup(c)

StatesOnChain ==
    \A n \in Honest : \E b \in AllBlocks : OnChain(b) /\ state[n] = Chain[b]

LogInv == PoolInv /\ ParentsNotarized /\ CupsOnChain /\ StatesOnChain

LEMMA NotarizedClosed ==
    ASSUME PoolInv, ParentsNotarized, NEW b \in Notarized, NEW h \in 0..height[b]
    PROVE  b \in AllBlocks /\ Ancestor[b][h] \in Notarized
<1>1. Notarized \in SUBSET AllBlocks
  BY BlockFacts DEF Notarized, PoolInv, Inv, TypeOK
<1>2. \A c \in Notarized : height[c] > 0 => parent[c] \in Notarized
  <2> SUFFICES ASSUME NEW c \in Notarized, height[c] > 0
               PROVE  parent[c] \in Notarized
    OBVIOUS
  <2>1. c # Genesis
    BY BlockFacts
  <2>2. PICK m \in Honest : c \in notarizations[m]
    BY <2>1 DEF Notarized
  <2>3. c \in proposals[m]
    BY <2>2 DEF PoolInv, PoolComplete
  <2> QED BY <2>3 DEF ParentsNotarized
<1> QED BY <1>1, <1>2, AncestorClosed

LEMMA FinalizedNotarized ==
    ASSUME PoolInv, NEW f \in Finalized
    PROVE  f \in Blocks /\ f \in AllBlocks /\ f \in Notarized
BY BlockFacts DEF PoolInv, Inv, TypeOK, PoolComplete, Notarized, Finalized

(* Whatever is notarized at or above a finalized block descends from it. *)
LEMMA DescendsFromFinalized ==
    ASSUME PoolInv, ParentsNotarized, NEW f \in Finalized,
           NEW b \in Notarized, height[f] <= height[b]
    PROVE  Ancestor[b][height[f]] = f
<1> DEFINE a == Ancestor[b][height[f]]
<1>1. f \in Blocks /\ height[f] \in Nat /\ height[f] > 0
  BY FinalizedNotarized, BlockFacts
<1>2. b \in AllBlocks /\ height[b] \in Nat
  BY BlockFacts DEF Notarized, PoolInv, Inv, TypeOK
<1>3. height[f] \in 0..height[b]
  BY <1>1, <1>2
<1>4. a \in Notarized
  BY <1>3, NotarizedClosed
<1>5. height[a] = height[f]
  BY <1>2, <1>3, AncestorHeight
<1> HIDE DEF a
<1>6. a # Genesis
  BY <1>1, <1>5, BlockFacts
<1>7. PICK r \in Honest : a \in notarizations[r]
  BY <1>4, <1>6 DEF Notarized
<1>8. FinalizationExcludesForks
  BY InvExcludesForks DEF PoolInv
<1>9. a = f
  BY <1>5, <1>7, <1>8 DEF FinalizationExcludesForks, Finalized
<1> QED BY <1>9 DEF a

(* A block of the chain is an ancestor of every finalized block above it. *)
LEMMA OnChainBelowFinalized ==
    ASSUME PoolInv, ParentsNotarized, NEW b \in AllBlocks, OnChain(b),
           NEW f \in Finalized, height[b] <= height[f]
    PROVE  Ancestor[f][height[b]] = b
<1>1. /\ f \in AllBlocks /\ f \in Notarized /\ height[f] \in Nat
      /\ height[b] \in Nat /\ height[b] \in 0..height[f]
  BY FinalizedNotarized, BlockFacts
<1>2. CASE b = Genesis
  BY <1>1, <1>2, AncestorHeight, BlockFacts
<1>3. CASE b # Genesis
  <2>1. PICK g \in Finalized : height[b] <= height[g] /\ Ancestor[g][height[b]] = b
    BY <1>3 DEF OnChain
  <2>2. /\ g \in AllBlocks /\ g \in Notarized /\ height[g] \in Nat
        /\ height[b] \in 0..height[g]
    BY <1>1, <2>1, FinalizedNotarized, BlockFacts
  <2>3. CASE height[f] <= height[g]
    <3>1. Ancestor[g][height[f]] = f
      BY <2>2, <2>3, DescendsFromFinalized
    <3>2. height[f] \in 0..height[g] /\ height[b] \in 0..height[f]
      BY <1>1, <2>2, <2>3
    <3>3. Ancestor[Ancestor[g][height[f]]][height[b]] = Ancestor[g][height[b]]
      BY <2>2, <3>2, AncestorTransitive
    <3> QED BY <2>1, <3>1, <3>3
  <2>4. CASE height[g] <= height[f]
    <3>1. Ancestor[f][height[g]] = g
      BY <1>1, <2>4, DescendsFromFinalized
    <3>2. height[g] \in 0..height[f]
      BY <1>1, <2>2, <2>4
    <3>3. Ancestor[Ancestor[f][height[g]]][height[b]] = Ancestor[f][height[b]]
      BY <1>1, <2>2, <3>2, AncestorTransitive
    <3> QED BY <2>1, <3>1, <3>3
  <2> QED BY <1>1, <2>2, <2>3, <2>4
<1> QED BY <1>2, <1>3

(* The blocks of the chain form a chain ... *)
LEMMA ChainOrdered ==
    ASSUME PoolInv, ParentsNotarized, NEW x \in AllBlocks, NEW y \in AllBlocks,
           OnChain(x), OnChain(y), height[x] <= height[y]
    PROVE  Ancestor[y][height[x]] = x
<1>1. height[x] \in Nat /\ height[y] \in Nat /\ height[x] \in 0..height[y]
  BY BlockFacts
<1>2. CASE y = Genesis
  <2>1. x = Genesis
    BY <1>1, <1>2, BlockFacts
  <2> QED BY <1>1, <1>2, <2>1, AncestorHeight, BlockFacts
<1>3. CASE y # Genesis
  <2>1. PICK f \in Finalized : height[y] <= height[f] /\ Ancestor[f][height[y]] = y
    BY <1>3 DEF OnChain
  <2>2. f \in AllBlocks /\ height[f] \in Nat /\ height[y] \in 0..height[f]
    BY <1>1, <2>1, FinalizedNotarized, BlockFacts
  <2>3. Ancestor[f][height[x]] = x
    BY <1>1, <2>1, <2>2, OnChainBelowFinalized
  <2>4. Ancestor[Ancestor[f][height[y]]][height[x]] = Ancestor[f][height[x]]
    BY <1>1, <2>2, AncestorTransitive
  <2> QED BY <2>1, <2>3, <2>4
<1> QED BY <1>2, <1>3

(* ... that has the ancestors of its blocks. *)
LEMMA ChainClosed ==
    ASSUME PoolInv, NEW y \in AllBlocks, OnChain(y), NEW h \in 0..height[y]
    PROVE  OnChain(Ancestor[y][h])
<1>1. /\ height[y] \in Nat /\ h \in Nat
      /\ Ancestor[y][h] \in AllBlocks /\ height[Ancestor[y][h]] = h
  BY BlockFacts, AncestorHeight
<1>2. CASE y = Genesis
  <2>1. Ancestor[y][h] = Genesis
    BY <1>1, <1>2, BlockFacts
  <2> QED BY <2>1 DEF OnChain
<1>3. CASE y # Genesis
  <2>1. PICK f \in Finalized : height[y] <= height[f] /\ Ancestor[f][height[y]] = y
    BY <1>3 DEF OnChain
  <2>2. f \in AllBlocks /\ height[f] \in Nat /\ height[y] \in 0..height[f] /\ h <= height[f]
    BY <1>1, <2>1, FinalizedNotarized, BlockFacts
  <2>3. Ancestor[f][h] = Ancestor[y][h]
    BY <2>1, <2>2, AncestorTransitive
  <2> QED BY <1>1, <2>1, <2>2, <2>3 DEF OnChain
<1> QED BY <1>2, <1>3

LEMMA OnChainNotarized ==
    ASSUME PoolInv, ParentsNotarized, NEW b \in AllBlocks, OnChain(b)
    PROVE  b \in Notarized
<1>1. CASE b = Genesis
  BY <1>1 DEF Notarized
<1>2. CASE b # Genesis
  <2>1. PICK f \in Finalized : height[b] <= height[f] /\ Ancestor[f][height[b]] = b
    BY <1>2 DEF OnChain
  <2>2. f \in Notarized /\ height[b] \in 0..height[f]
    BY <2>1, FinalizedNotarized, BlockFacts
  <2> QED BY <2>1, <2>2, NotarizedClosed
<1> QED BY <1>1, <1>2

LEMMA FinalizedOnChain ==
    ASSUME PoolInv, NEW f \in Finalized
    PROVE  OnChain(f)
<1>1. f \in AllBlocks /\ height[f] \in Nat
  BY FinalizedNotarized, BlockFacts
<1>2. height[f] \in Levels /\ height[f] <= height[f]
  BY <1>1, LevelsOfBlock
<1>3. Ancestor[f][height[f]] = f
  BY <1>1, <1>2, AncestorEquation
<1> QED BY <1>2, <1>3 DEF OnChain

-----------------------------------------------------------------------------
(* What get_finalized_block answers.                                       *)

(* The block of the highest finalization above the CUP, or that of the CUP. *)
LEMMA FinalizedTipCases ==
    ASSUME PoolInv, NEW n \in Honest
    PROVE  \/ FinalizedTip(n) = cup[n].block
           \/ FinalizedTip(n) \in finalizations[n] /\ height[FinalizedTip(n)] > CupHeight(n)
<1> DEFINE above == {b \in finalizations[n] : height[b] > CupHeight(n)}
<1>1. CASE above = {}
  BY <1>1 DEF FinalizedTip
<1>2. CASE above # {}
  <2>1. PICK d \in finalizations[n] : \A c \in finalizations[n] : height[c] <= height[d]
    BY <1>2 DEF PoolInv, Inv, MaximaExist, HasMax
  <2>2. CupHeight(n) \in Nat /\ \A c \in finalizations[n] : height[c] \in Nat
    BY CupHeightType, BlockFacts DEF PoolInv, Inv, TypeOK
  <2>3. d \in above /\ \A c \in above : height[c] <= height[d]
    BY <1>2, <2>1, <2>2
  <2>4. FinalizedTip(n) = CHOOSE b \in above : \A c \in above : height[c] <= height[b]
    BY <1>2 DEF FinalizedTip
  <2>5. FinalizedTip(n) \in above
    <3> HIDE DEF above
    <3> QED BY <2>3, <2>4
  <2> QED BY <2>5
<1> QED BY <1>1, <1>2

(* In the pool of n, the ancestors of a notarized block are notarized, *)
(* down to the CUP.                                                    *)
LEMMA LocalAncestors ==
    ASSUME PoolInv, NEW n \in Honest, NEW b \in notarizations[n],
           NEW h \in (CupHeight(n) + 1)..height[b]
    PROVE  Ancestor[b][h] \in notarizations[n]
<1>1. notarizations[n] \in SUBSET AllBlocks /\ CupHeight(n) + 1 \in Nat
  BY CupHeightType, BlockFacts DEF PoolInv, Inv, TypeOK
<1>2. \A c \in notarizations[n] : height[c] > CupHeight(n) + 1 => parent[c] \in notarizations[n]
  BY DEF PoolInv, PoolComplete
<1> QED BY <1>1, <1>2, AncestorClosed

(* The lowest finalization from height h on. *)
LEMMA LowestFinalized ==
    ASSUME PoolInv, NEW n \in Honest, NEW h \in Nat,
           NEW above, above = {b \in finalizations[n] : height[b] >= h}, above # {}
    PROVE  LET low == CHOOSE b \in above : \A c \in above : height[b] <= height[c]
           IN  low \in above /\ \A c \in above : height[low] <= height[c]
<1>1. \A b \in above : height[b] \in Nat
  BY BlockFacts DEF PoolInv, Inv, TypeOK
<1> DEFINE hs == {height[b] : b \in above}
<1>2. hs \in SUBSET Nat /\ hs # {}
  BY <1>1
<1>3. PICK k \in hs : \A j \in hs : k <= j
  <2> HIDE DEF hs
  <2> QED BY <1>2, LeastNatural
<1>4. PICK b \in above : height[b] = k
  OBVIOUS
<1>5. b \in above /\ \A c \in above : height[b] <= height[c]
  BY <1>3, <1>4
<1> QED BY <1>5

LEMMA FinalizedTipOnChain ==
    ASSUME LogInv, NEW n \in Honest
    PROVE  FinalizedTip(n) \in AllBlocks /\ OnChain(FinalizedTip(n))
<1>1. FinalizedTip(n) \in AllBlocks
  BY FinalizedHeightMax DEF LogInv, PoolInv, Inv
<1>2. CASE FinalizedTip(n) = cup[n].block
  BY <1>1, <1>2 DEF LogInv, CupsOnChain, GoodCup
<1>3. CASE FinalizedTip(n) \in finalizations[n]
  BY <1>1, <1>3, FinalizedOnChain DEF Finalized, LogInv
<1> QED BY <1>2, <1>3, FinalizedTipCases DEF LogInv

(* Every answer between the CUP and the finalized tip is the block of the  *)
(* chain of the tip.                                                       *)
LEMMA AnswersOnChain == LogInv => FinalizedBlocksOnChain
<1> SUFFICES ASSUME LogInv, NEW n \in Honest,
                    NEW h \in CupHeight(n)..height[FinalizedTip(n)]
             PROVE  get_finalized_block(n, h) = Ancestor[FinalizedTip(n)][h]
  BY DEF FinalizedBlocksOnChain
<1> DEFINE tip == FinalizedTip(n)
           notarized == NotarizedBlocks(n, h)
           above == {b \in finalizations[n] : height[b] >= h}
           low == CHOOSE b \in above : \A c \in above : height[b] <= height[c]
<1>0. PoolInv /\ ParentsNotarized
  BY DEF LogInv
<1>1. /\ tip \in AllBlocks /\ OnChain(tip) /\ height[tip] \in Nat /\ h \in Nat
      /\ CupHeight(n) \in Nat /\ h \in 0..height[tip] /\ h \in Levels
      /\ FinalizedHeight(n) = height[tip]
  <2>1. tip \in AllBlocks /\ OnChain(tip)
    BY FinalizedTipOnChain
  <2>2. CupHeight(n) \in Nat /\ height[tip] \in Nat
    BY <1>0, <2>1, CupHeightType, BlockFacts DEF PoolInv, Inv
  <2>3. h \in Nat /\ h \in 0..height[tip]
    BY <2>2
  <2>4. h \in Levels
    BY <2>1, <2>3, LevelsOfBlock
  <2> QED BY <2>1, <2>2, <2>3, <2>4 DEF FinalizedHeight
<1>2. ~(h < CupHeight(n) \/ h > FinalizedHeight(n))
  BY <1>1
<1>3. CASE h = CupHeight(n)
  <2>1. get_finalized_block(n, h) = cup[n].block
    BY <1>2, <1>3 DEF get_finalized_block
  <2>2. cup[n].block \in AllBlocks /\ OnChain(cup[n].block) /\ height[cup[n].block] = h
    BY <1>3 DEF LogInv, PoolInv, Inv, TypeOK, CatchUpContent, CupsOnChain, GoodCup, CupHeight
  <2>3. Ancestor[tip][h] = cup[n].block
    BY <1>0, <1>1, <2>2, ChainOrdered
  <2> QED BY <2>1, <2>3
<1>4. CASE h # CupHeight(n)
  <2>1. h > CupHeight(n) /\ h \in (CupHeight(n) + 1)..height[tip]
    BY <1>1, <1>4
  <2>2. tip \in finalizations[n] /\ tip \in notarizations[n]
    <3>1. height[tip] # CupHeight(n)
      BY <1>1, <2>1
    <3>2. tip \in finalizations[n]
      BY <1>0, <3>1, FinalizedTipCases DEF CupHeight
    <3> QED BY <1>0, <3>2 DEF PoolInv, PoolComplete
  <2>3. notarized = {b \in notarizations[n] : height[b] = h}
    BY <2>1 DEF NotarizedBlocks, At
  <2>4. Ancestor[tip][h] \in notarized
    <3>1. Ancestor[tip][h] \in notarizations[n]
      BY <1>0, <2>1, <2>2, LocalAncestors
    <3>2. height[Ancestor[tip][h]] = h
      BY <1>1, AncestorHeight
    <3> QED BY <2>3, <3>1, <3>2
  <2>5. CASE \E b \in notarized : notarized = {b}
    <3>1. get_finalized_block(n, h) = CHOOSE b \in notarized : TRUE
      BY <1>2, <1>4, <2>5 DEF get_finalized_block
    <3> HIDE DEF notarized
    <3> QED BY <2>4, <2>5, <3>1
  <2>6. CASE ~\E b \in notarized : notarized = {b}
    <3>1. get_finalized_block(n, h) = follow_to_height(n, low, h)
      BY <1>2, <1>4, <2>6 DEF get_finalized_block
    <3>2. above # {}
      BY <1>1, <2>2
    <3>3. low \in above /\ \A c \in above : height[low] <= height[c]
      BY <1>0, <1>1, <3>2, LowestFinalized, ZenonT(40)
    <3>4. /\ low \in finalizations[n] /\ height[low] >= h
          /\ height[low] <= height[tip]
      BY <1>1, <2>2, <3>3
    <3> HIDE DEF low
    <3>5. /\ low \in Finalized /\ low \in AllBlocks /\ height[low] \in Nat
          /\ low \in notarizations[n] /\ tip \in Notarized
      BY <1>0, <2>2, <3>4, BlockFacts
         DEF Finalized, Notarized, PoolInv, PoolComplete, Inv, TypeOK
    <3>6. Ancestor[tip][height[low]] = low
      BY <1>0, <3>4, <3>5, DescendsFromFinalized
    <3>7. Ancestor[low][h] = Ancestor[tip][h]
      <4>1. height[low] \in 0..height[tip] /\ h \in 0..height[low]
        BY <1>1, <3>4, <3>5
      <4> QED BY <1>1, <3>6, <4>1, AncestorTransitive
    <3>8. \A g \in h..height[low] : Ancestor[low][g] \in proposals[n]
      <4> SUFFICES ASSUME NEW g \in h..height[low]
                   PROVE  Ancestor[low][g] \in proposals[n]
        OBVIOUS
      <4>1. g \in (CupHeight(n) + 1)..height[low]
        BY <1>1, <2>1, <3>5
      <4>2. Ancestor[low][g] \in notarizations[n]
        BY <1>0, <3>5, <4>1, LocalAncestors
      <4> QED BY <1>0, <4>2 DEF PoolInv, PoolComplete
    <3>9. Ancestor[low][h] \in proposals[n]
      BY <1>1, <3>4, <3>5, <3>8
    <3> QED BY <3>1, <3>7, <3>8, <3>9 DEF follow_to_height
  <2> QED BY <2>5, <2>6
<1> QED BY <1>3, <1>4

-----------------------------------------------------------------------------
(* Chains as sequences.                                                    *)

LEMMA ChainSeq ==
    ASSUME NEW b \in AllBlocks
    PROVE  /\ Chain[b] \in Seq(Blocks)
           /\ Len(Chain[b]) = height[b]
           /\ \A i \in 1..height[b] : Chain[b][i] = Ancestor[b][i]
<1>1. Chain[b] = [h \in 1..height[b] |-> Ancestor[b][h]]
  BY DEF Chain
<1>2. height[b] \in Nat
  BY BlockFacts
<1>3. \A h \in 1..height[b] : Ancestor[b][h] \in Blocks
  BY AncestorParent
<1>4. [h \in 1..height[b] |-> Ancestor[b][h]] \in Seq(Blocks)
  BY <1>2, <1>3
<1>5. Len([h \in 1..height[b] |-> Ancestor[b][h]]) = height[b]
  BY <1>2
<1> QED BY <1>1, <1>4, <1>5

(* A sequence of blocks that agrees with the chain of b is that chain. *)
LEMMA ChainEqual ==
    ASSUME NEW b \in AllBlocks, NEW s \in Seq(Blocks), Len(s) = height[b],
           \A i \in 1..height[b] : s[i] = Ancestor[b][i]
    PROVE  s = Chain[b]
<1>1. /\ Chain[b] \in Seq(Blocks) /\ Len(Chain[b]) = Len(s)
      /\ \A i \in 1..Len(s) : s[i] = Chain[b][i]
  BY ChainSeq
<1> QED BY <1>1, SeqEqual

(* A prefix of a chain is the chain of an ancestor. *)
LEMMA ChainPrefix ==
    ASSUME NEW b \in AllBlocks, NEW h \in 0..height[b]
    PROVE  SubSeq(Chain[b], 1, h) = Chain[Ancestor[b][h]]
<1> DEFINE a == Ancestor[b][h]
           s == SubSeq(Chain[b], 1, h)
<1>1. a \in AllBlocks /\ height[a] = h /\ h \in Nat /\ height[b] \in Nat
  BY AncestorHeight, BlockFacts
<1>2. Chain[b] \in Seq(Blocks) /\ Len(Chain[b]) = height[b]
  BY ChainSeq
<1>3. s \in Seq(Blocks)
  BY <1>1, <1>2, StatePrefix
<1>4. Len(s) = h /\ \A i \in 1..h : s[i] = Chain[b][i]
  BY <1>1, <1>2, SubSeqProperties
<1>5. \A i \in 1..h : s[i] = Ancestor[a][i]
  <2> SUFFICES ASSUME NEW i \in 1..h PROVE s[i] = Ancestor[a][i]
    OBVIOUS
  <2>1. i \in 1..height[b] /\ i \in 0..h
    BY <1>1
  <2>2. Chain[b][i] = Ancestor[b][i]
    BY <2>1, ChainSeq
  <2>3. Ancestor[a][i] = Ancestor[b][i]
    BY <2>1, AncestorTransitive
  <2> QED BY <1>4, <2>2, <2>3
<1> HIDE DEF a, s
<1>6. s = Chain[a]
  BY <1>1, <1>3, <1>4, <1>5, ChainEqual
<1> QED BY <1>6 DEF a, s

-----------------------------------------------------------------------------
(* The invariant.                                                          *)

LEMMA InitLogInv == Init => LogInv
<1> SUFFICES ASSUME Init PROVE LogInv
  OBVIOUS
<1>1. PoolInv
  BY InitPoolInv
<1>2. ParentsNotarized
  BY DEF Init, ParentsNotarized
<1>3. OnChain(Genesis) /\ Genesis \in AllBlocks
  BY BlockFacts DEF OnChain
<1>4. <<>> = Chain[Genesis]
  <2>1. <<>> \in Seq(Blocks) /\ Len(<<>>) = 0
    OBVIOUS
  <2>2. Len(<<>>) = height[Genesis] /\ \A i \in 1..height[Genesis] : <<>>[i] = Ancestor[Genesis][i]
    BY <2>1, BlockFacts
  <2> QED BY <1>3, <2>1, <2>2, ChainEqual
<1>5. CupsOnChain
  BY <1>3, <1>4 DEF Init, CupsOnChain, GoodCup
<1>6. StatesOnChain
  BY <1>3, <1>4 DEF Init, StatesOnChain
<1> QED BY <1>1, <1>2, <1>5, <1>6 DEF LogInv

(* The chain only grows. *)
LEMMA ChainGrows ==
    ASSUME \A n \in Honest : PoolEffect(n), NEW b, OnChain(b)
    PROVE  OnChain(b)'
<1>1. Finalized \subseteq Finalized'
  BY DEF Finalized, PoolEffect
<1> QED BY <1>1 DEF OnChain

LEMMA GoodCupKept ==
    ASSUME \A n \in Honest : PoolEffect(n), NEW c, GoodCup(c)
    PROVE  GoodCup(c)'
BY ChainGrows DEF GoodCup

LEMMA ParentsNotarizedKept ==
    ASSUME LogInv, \A n \in Honest : PoolEffect(n)
    PROVE  ParentsNotarized'
<1> SUFFICES ASSUME NEW n \in Honest, NEW b \in proposals'[n]
             PROVE  parent[b] \in Notarized'
  BY DEF ParentsNotarized
<1>1. Notarized \subseteq Notarized'
  BY DEF Notarized, PoolEffect
<1> SUFFICES parent[b] \in Notarized
  BY <1>1
<1>2. CASE b \in proposals[n]
  BY <1>2 DEF LogInv, ParentsNotarized
<1>3. CASE b \notin proposals[n]
  <2>1. parent[b] \in NotarizedBlocks(n, height[b] - 1)
    BY <1>3 DEF PoolEffect, MayEnter
  <2>2. CASE parent[b] \in notarizations[n]
    BY <2>2 DEF Notarized
  <2>3. CASE parent[b] = cup[n].block
    <3>1. cup[n].block \in AllBlocks /\ OnChain(cup[n].block)
      BY DEF LogInv, PoolInv, Inv, TypeOK, CatchUpContent, CupsOnChain, GoodCup
    <3> QED BY <2>3, <3>1, OnChainNotarized DEF LogInv
  <2> QED BY <2>1, <2>2, <2>3 DEF NotarizedBlocks, At
<1> QED BY <1>2, <1>3

(* The context of a block names a state before the block. *)
LEMMA CertifiedBelow ==
    ASSUME NEW b \in AllBlocks, b # Genesis
    PROVE  certified[b] < height[b]
<1>1. b \in Blocks /\ parent[b] \in AllBlocks
  BY BlocksAssumption DEF AllBlocks
<1>2. height[b] = height[parent[b]] + 1 /\ height[b] \in Nat /\ height[parent[b]] \in Nat
  BY <1>1, BlocksAssumption
<1>3. certified[b] \in certified[parent[b]]..height[parent[b]]
  BY <1>1, BlocksAssumption
<1>4. certified[b] \in Nat /\ certified[parent[b]] \in Nat
  BY <1>1, BlocksAssumption
<1> QED BY <1>2, <1>3, <1>4

(* A replica signs the block of the chain and the state of the chain. *)
LEMMA CupShareGood ==
    ASSUME LogInv, NEW n \in Honest, NEW h \in SummaryHeights, MakeCupShare(n, h)
    PROVE  GoodCup([block |-> get_finalized_block(n, h), state |-> SubSeq(state[n], 1, h)])
<1> DEFINE tip == FinalizedTip(n)
           a == Ancestor[tip][h]
<1>0. PoolInv /\ ParentsNotarized
  BY DEF LogInv
<1>1. /\ tip \in AllBlocks /\ OnChain(tip) /\ height[tip] \in Nat /\ h \in Nat
      /\ CupHeight(n) \in Nat /\ FinalizedHeight(n) = height[tip]
  BY <1>0, BoundsAssumption, FinalizedTipOnChain, BlockFacts, CupHeightType
     DEF PoolInv, Inv, FinalizedHeight
<1>2. h > CupHeight(n) /\ FinalizedHeight(n) > h /\ Len(state[n]) >= h
  <2>1. h > CupHeight(n) /\ certified[tip] >= h /\ Len(state[n]) >= h
    BY DEF MakeCupShare
  <2> HIDE DEF tip
  <2>2. tip # Genesis
    BY <1>1, <2>1, BlocksAssumption
  <2>3. certified[tip] < height[tip]
    BY <1>1, <2>2, CertifiedBelow
  <2>4. certified[tip] \in Nat
    BY <1>1, BlocksAssumption
  <2> QED BY <1>1, <2>1, <2>3, <2>4
<1>3. h \in CupHeight(n)..height[tip] /\ h \in 0..height[tip]
  BY <1>1, <1>2
<1>4. get_finalized_block(n, h) = a
  BY <1>3, AnswersOnChain DEF FinalizedBlocksOnChain
<1>5. a \in AllBlocks /\ height[a] = h /\ OnChain(a)
  BY <1>0, <1>1, <1>3, AncestorHeight, ChainClosed
<1>6. PICK b \in AllBlocks : OnChain(b) /\ state[n] = Chain[b]
  BY DEF LogInv, StatesOnChain
<1>7. height[b] \in Nat /\ h \in 0..height[b]
  <2>1. Len(state[n]) = height[b]
    BY <1>6, ChainSeq
  <2> QED BY <1>1, <1>2, <2>1, BlockFacts
<1> HIDE DEF a, tip
<1>8. Ancestor[b][h] = a
  BY <1>0, <1>5, <1>6, <1>7, ChainOrdered
<1>9. SubSeq(state[n], 1, h) = Chain[a]
  BY <1>6, <1>7, <1>8, ChainPrefix
<1> QED BY <1>4, <1>5, <1>9 DEF GoodCup

LEMMA CupsOnChainKept ==
    ASSUME LogInv, [Next]_vars, \A n \in Honest : PoolEffect(n)
    PROVE  CupsOnChain'
<1>1. ASSUME NEW n \in Honest PROVE GoodCup(cup'[n])
  <2>1. CASE cup'[n] = cup[n]
    BY <2>1 DEF LogInv, CupsOnChain
  <2>2. CASE cup'[n] \in SignedCups
    BY <2>2 DEF LogInv, CupsOnChain, SignedCups
  <2> QED BY <2>1, <2>2 DEF PoolEffect
<1>2. ASSUME NEW n \in Honest, NEW c \in cupShares'[n] PROVE GoodCup(c)
  <2>1. CASE c \in cupShares[n]
    BY <2>1 DEF LogInv, CupsOnChain
  <2>2. CASE c \notin cupShares[n]
    <3>1. cupShares' # cupShares
      BY <2>2
    <3>2. PICK m \in Honest : \E h \in SummaryHeights : MakeCupShare(m, h)
      BY <3>1 DEF Next, vars, MakeBlock, Notarize, MakeBeaconShare, Finalize, StateSync,
                  AddBeacon, AggregateNotarizations, ValidateNotarization, AddFinalization,
                  ValidateBlock, ValidateNotarizedBlock, AddCup, Restart, cups
    <3>3. PICK h \in SummaryHeights : MakeCupShare(m, h)
      BY <3>2
    <3> DEFINE d == [block |-> get_finalized_block(m, h), state |-> SubSeq(state[m], 1, h)]
    <3>4. GoodCup(d)
      BY <3>3, CupShareGood
    <3>5. cupShares' = [cupShares EXCEPT ![m] = @ \cup {d}]
      BY <3>3 DEF MakeCupShare
    <3> HIDE DEF d
    <3>6. c = d
      BY <2>2, <3>5 DEF LogInv, PoolInv, Inv, TypeOK
    <3> QED BY <3>4, <3>6
  <2> QED BY <2>1, <2>2
<1>3. ASSUME NEW n \in Honest PROVE GoodCup(cup[n])'
  <2>1. PICK c : c = cup'[n]
    OBVIOUS
  <2>2. GoodCup(c)
    BY <1>1, <2>1
  <2>3. GoodCup(c)'
    BY <2>2, GoodCupKept
  <2> QED BY <2>1, <2>3 DEF GoodCup, OnChain
<1>4. ASSUME NEW n \in Honest, NEW c \in cupShares'[n] PROVE GoodCup(c)'
  BY <1>2, GoodCupKept
<1> QED BY <1>3, <1>4 DEF CupsOnChain

(* Batches are delivered along the chain. *)
LEMMA DeliveredOnChain ==
    ASSUME LogInv, NEW n \in Honest, NEW k \in 0..(FinalizedHeight(n) - Len(state[n])),
           \A i \in 1..k : get_finalized_block(n, Len(state[n]) + i) # NoBlock
    PROVE  \E b \in AllBlocks : OnChain(b) /\ Delivered(n, k) = Chain[b]
<1> DEFINE tip == FinalizedTip(n)
           l == Len(state[n])
           more == [i \in 1..k |-> get_finalized_block(n, l + i)]
<1>0. PoolInv /\ ParentsNotarized
  BY DEF LogInv
<1>1. PICK b \in AllBlocks : OnChain(b) /\ state[n] = Chain[b]
  BY DEF LogInv, StatesOnChain
<1>2. /\ state[n] \in Seq(Blocks) /\ l = height[b] /\ l \in Nat
      /\ \A i \in 1..l : state[n][i] = Ancestor[b][i]
  BY <1>1, ChainSeq, BlockFacts
<1>3. /\ tip \in AllBlocks /\ OnChain(tip) /\ height[tip] \in Nat
      /\ CupHeight(n) \in Nat /\ FinalizedHeight(n) = height[tip]
  BY <1>0, FinalizedTipOnChain, BlockFacts, CupHeightType DEF PoolInv, Inv, FinalizedHeight
<1>4. k \in Nat /\ (k > 0 => l + k <= height[tip])
  BY <1>2, <1>3
<1>5. CASE k = 0
  <2>1. more = <<>>
    BY <1>5
  <2>2. Delivered(n, k) = state[n]
    BY <1>2, <2>1, ConcatEmptySeq DEF Delivered
  <2> QED BY <1>1, <2>2
<1>6. CASE k > 0
  <2> DEFINE a == Ancestor[tip][l + k]
  <2>1. l + k \in 0..height[tip] /\ l \in 0..height[tip]
    BY <1>2, <1>3, <1>4, <1>6
  <2>2. a \in AllBlocks /\ height[a] = l + k /\ OnChain(a)
    BY <1>0, <1>3, <2>1, AncestorHeight, ChainClosed
  <2>3. Ancestor[tip][l] = b
    BY <1>0, <1>1, <1>2, <1>3, <2>1, ChainOrdered
  <2>4. \A i \in 1..(l + k) : Ancestor[a][i] = Ancestor[tip][i]
    BY <1>2, <1>3, <2>1, AncestorTransitive, SMTT(20)
  <2>5. \A i \in 1..k : get_finalized_block(n, l + i) = Ancestor[tip][l + i]
    <3> SUFFICES ASSUME NEW i \in 1..k
                 PROVE  get_finalized_block(n, l + i) = Ancestor[tip][l + i]
      OBVIOUS
    <3>1. l + i \in Nat /\ l + i <= height[tip]
      <4> HIDE DEF l, tip
      <4> QED BY <1>2, <1>3, <1>4, <1>6
    <3>2. ~(l + i < CupHeight(n))
      BY DEF get_finalized_block
    <3>3. l + i \in CupHeight(n)..height[tip]
      BY <1>3, <3>1, <3>2
    <3> QED BY <3>3, AnswersOnChain DEF FinalizedBlocksOnChain
  <2>6. \A i \in 1..k : Ancestor[tip][l + i] \in Blocks
    <3> HIDE DEF l, tip
    <3> SUFFICES ASSUME NEW i \in 1..k PROVE Ancestor[tip][l + i] \in Blocks
      OBVIOUS
    <3>1. l + i \in 1..height[tip]
      BY <1>2, <1>3, <1>4, <1>6
    <3> QED BY <1>3, <3>1, AncestorParent
  <2>7. more \in Seq(Blocks) /\ Len(more) = k /\ \A i \in 1..k : more[i] = Ancestor[tip][l + i]
    <3>1. \A i \in 1..k : more[i] = Ancestor[tip][l + i]
      BY <2>5
    <3>2. more = [i \in 1..k |-> more[i]]
      OBVIOUS
    <3> HIDE DEF more, l, tip
    <3>3. \A i \in 1..k : more[i] \in Blocks
      BY <2>6, <3>1
    <3>4. more \in [1..k -> Blocks]
      BY <3>2, <3>3
    <3>5. more \in Seq(Blocks) /\ Len(more) = k
      BY <1>4, <3>4
    <3> QED BY <3>1, <3>5
  <2>8. ASSUME NEW i \in 1..l PROVE state[n][i] = Ancestor[tip][i]
    <3> HIDE DEF l, tip
    <3>1. i \in 0..l
      BY <1>2
    <3>2. Ancestor[Ancestor[tip][l]][i] = Ancestor[tip][i]
      BY <1>3, <2>1, <3>1, AncestorTransitive
    <3> QED BY <1>2, <2>3, <3>2
  <2>9. Delivered(n, k) = state[n] \o more
    BY DEF Delivered
  <2> HIDE DEF a, more, l
  <2>10. /\ state[n] \o more \in Seq(Blocks)
         /\ Len(state[n] \o more) = l + k
         /\ \A i \in 1..(l + k) : (state[n] \o more)[i] =
                                     IF i <= l THEN state[n][i] ELSE more[i - l]
    BY <1>2, <1>4, <2>7, ConcatProperties, ZenonT(40) DEF l
  <2>11. \A i \in 1..(l + k) : (state[n] \o more)[i] = Ancestor[a][i]
    <3> SUFFICES ASSUME NEW i \in 1..(l + k)
                 PROVE  (state[n] \o more)[i] = Ancestor[tip][i]
      BY <2>4
    <3>1. CASE i <= l
      BY <1>2, <1>4, <2>8, <2>10, <3>1
    <3>2. CASE ~(i <= l)
      <4>1. i - l \in 1..k /\ l + (i - l) = i
        BY <1>2, <1>4, <3>2
      <4> QED BY <2>7, <2>10, <3>2, <4>1
    <3> QED BY <3>1, <3>2
  <2>12. state[n] \o more = Chain[a]
    BY <2>2, <2>10, <2>11, ChainEqual
  <2> QED BY <2>2, <2>9, <2>12
<1> QED BY <1>4, <1>5, <1>6

(* The steps that change a state, of one replica and to a point of the chain. *)
StateEffect ==
    \/ UNCHANGED state
    \/ /\ UNCHANGED <<finalizations, cup>>
       /\ \E n \in Honest : \E b \in AllBlocks :
             OnChain(b) /\ state' = [state EXCEPT ![n] = Chain[b]]

LEMMA StepStates ==
    ASSUME LogInv, [Next]_vars
    PROVE  StateEffect
<1> SUFFICES ASSUME ~UNCHANGED state
             PROVE  /\ UNCHANGED <<finalizations, cup>>
                    /\ \E n \in Honest : \E b \in AllBlocks :
                          OnChain(b) /\ state' = [state EXCEPT ![n] = Chain[b]]
  BY DEF StateEffect
<1>1. PICK n \in Honest : \/ Finalize(n)
                          \/ StateSync(n)
                          \/ \E h \in SummaryHeights \cup {0} : Restart(n, h)
  BY DEF Next, vars, MakeBlock, Notarize, MakeBeaconShare, MakeCupShare, AddBeacon,
         AggregateNotarizations, ValidateNotarization, AddFinalization, ValidateBlock,
         ValidateNotarizedBlock, AddCup
<1>2. UNCHANGED <<finalizations, cup>>
  BY <1>1 DEF Finalize, StateSync, Restart, pools, cups
<1>3. CASE Finalize(n)
  <2>1. PICK k \in 0..(FinalizedHeight(n) - Len(state[n])) :
           /\ \A i \in 1..k : get_finalized_block(n, Len(state[n]) + i) # NoBlock
           /\ state' = [state EXCEPT ![n] = Delivered(n, k)]
    BY <1>3 DEF Finalize
  <2>2. PICK b \in AllBlocks : OnChain(b) /\ Delivered(n, k) = Chain[b]
    BY <2>1, DeliveredOnChain
  <2> QED BY <1>2, <2>1, <2>2
<1>4. CASE StateSync(n)
  <2>1. /\ cup[n].block \in AllBlocks /\ OnChain(cup[n].block)
        /\ cup[n].state = Chain[cup[n].block]
    BY DEF LogInv, PoolInv, Inv, TypeOK, CatchUpContent, CupsOnChain, GoodCup
  <2>2. state' = [state EXCEPT ![n] = cup[n].state]
    BY <1>4 DEF StateSync
  <2> QED BY <1>2, <2>1, <2>2
<1>5. ASSUME NEW h \in SummaryHeights \cup {0}, Restart(n, h)
      PROVE  \E b \in AllBlocks : OnChain(b) /\ state' = [state EXCEPT ![n] = Chain[b]]
  <2>1. PICK b \in AllBlocks : OnChain(b) /\ state[n] = Chain[b]
    BY DEF LogInv, StatesOnChain
  <2>2. h \in Nat /\ h < Len(state[n]) /\ state' = [state EXCEPT ![n] = SubSeq(state[n], 1, h)]
    BY <1>5, BoundsAssumption DEF Restart
  <2>3. h \in 0..height[b]
    BY <2>1, <2>2, ChainSeq, BlockFacts
  <2>4. Ancestor[b][h] \in AllBlocks /\ OnChain(Ancestor[b][h])
    BY <2>1, <2>3, AncestorHeight, ChainClosed DEF LogInv
  <2>5. SubSeq(state[n], 1, h) = Chain[Ancestor[b][h]]
    BY <2>1, <2>3, ChainPrefix
  <2> QED BY <2>2, <2>4, <2>5
<1> QED BY <1>1, <1>2, <1>3, <1>4, <1>5

LEMMA StatesOnChainKept ==
    ASSUME LogInv, StateEffect, \A n \in Honest : PoolEffect(n)
    PROVE  StatesOnChain'
<1> SUFFICES ASSUME NEW m \in Honest
             PROVE  \E b \in AllBlocks : OnChain(b) /\ state'[m] = Chain[b]
  BY ChainGrows DEF StatesOnChain
<1>1. CASE state'[m] = state[m]
  BY <1>1 DEF LogInv, StatesOnChain
<1>2. CASE state'[m] # state[m]
  <2>1. PICK n \in Honest : \E b \in AllBlocks :
           OnChain(b) /\ state' = [state EXCEPT ![n] = Chain[b]]
    BY <1>2 DEF StateEffect
  <2>2. PICK b \in AllBlocks : OnChain(b) /\ state' = [state EXCEPT ![n] = Chain[b]]
    BY <2>1
  <2>3. state'[m] = Chain[b]
    BY <1>2, <2>2 DEF LogInv, PoolInv, Inv, TypeOK
  <2> QED BY <2>2, <2>3
<1> QED BY <1>1, <1>2

LEMMA NextLogInv == LogInv /\ [Next]_vars => LogInv'
<1> SUFFICES ASSUME LogInv, [Next]_vars PROVE LogInv'
  OBVIOUS
<1>1. PoolInv'
  BY NextPoolInv DEF LogInv
<1>2. \A n \in Honest : PoolEffect(n)
  BY StepEffects DEF LogInv, PoolInv
<1>3. ParentsNotarized'
  BY <1>2, ParentsNotarizedKept
<1>4. CupsOnChain'
  BY <1>2, CupsOnChainKept
<1>5. StatesOnChain'
  BY <1>2, StepStates, StatesOnChainKept
<1> QED BY <1>1, <1>3, <1>4, <1>5 DEF LogInv

LEMMA LogInvAlways == Spec => []LogInv
BY InitLogInv, NextLogInv, PTL DEF Spec

(* get_finalized_block answers with the blocks of one chain, whether it    *)
(* takes its short cut, walks back from a finalization or reads the CUP.   *)
THEOREM FinalizedAnswers == Spec => []FinalizedBlocksOnChain
BY AnswersOnChain, LogInvAlways, PTL

-----------------------------------------------------------------------------
(* The refinement.                                                         *)

(* The highest finalized block is well defined, and the end of the chain. *)
OneChain ==
    /\ Tip \in AllBlocks /\ OnChain(Tip)
    /\ \A x \in AllBlocks : OnChain(x) => height[x] <= height[Tip]
    /\ \A x, y \in AllBlocks :
          OnChain(x) /\ OnChain(y) /\ height[x] <= height[y] => Ancestor[y][height[x]] = x

LEMMA HighestReplica ==
    ASSUME LogInv
    PROVE  \E m \in Honest : \A n \in Honest : FinalizedHeight(n) <= FinalizedHeight(m)
<1> DEFINE S == {FinalizedHeight(n) : n \in Honest}
           f == [n \in Honest |-> FinalizedHeight(n)]
<1>1. Honest # {} /\ IsFiniteSet(Honest)
  BY CommitteeAssumption, FS_Subset DEF Honest
<1>2. S \in SUBSET Nat
  BY FinalizedHeightMax DEF LogInv, PoolInv, Inv
<1>3. f \in Surjection(Honest, S)
  BY DEF Surjection
<1>4. IsFiniteSet(S)
  <2> HIDE DEF f, S
  <2> QED BY <1>1, <1>3, FS_Surjection
<1>5. S # {}
  BY <1>1
<1>6. PICK x \in S : \A y \in S : y <= x
  <2> HIDE DEF S
  <2> QED BY <1>2, <1>4, <1>5, FiniteMaximum
<1> QED BY <1>6

LEMMA TipIsEnd == LogInv => OneChain
<1> SUFFICES ASSUME LogInv PROVE OneChain
  OBVIOUS
<1> DEFINE tips == UNION {finalizations[n] \cup {cup[n].block} : n \in Honest}
<1>0. PoolInv /\ ParentsNotarized
  BY DEF LogInv
<1>1. \A x \in tips : x \in AllBlocks /\ OnChain(x)
  <2> SUFFICES ASSUME NEW n \in Honest, NEW x \in finalizations[n] \cup {cup[n].block}
               PROVE  x \in AllBlocks /\ OnChain(x)
    OBVIOUS
  <2>1. CASE x \in finalizations[n]
    BY <1>0, <2>1, FinalizedOnChain, FinalizedNotarized DEF Finalized
  <2>2. CASE x = cup[n].block
    BY <2>2 DEF LogInv, PoolInv, Inv, TypeOK, CatchUpContent, CupsOnChain, GoodCup
  <2> QED BY <2>1, <2>2
<1>2. PICK m \in Honest : \A n \in Honest : FinalizedHeight(n) <= FinalizedHeight(m)
  BY HighestReplica
<1>3. FinalizedTip(m) \in tips
  BY <1>0, FinalizedTipCases
<1>4. \A x \in tips : height[x] <= height[FinalizedTip(m)]
  <2> SUFFICES ASSUME NEW n \in Honest, NEW x \in finalizations[n] \cup {cup[n].block}
               PROVE  height[x] <= height[FinalizedTip(m)]
    OBVIOUS
  <2>1. height[x] \in Nat
    BY <1>1, BlockFacts
  <2>2. height[x] <= FinalizedHeight(n)
    BY FinalizedHeightMax DEF LogInv, PoolInv, Inv, CupHeight
  <2>3. /\ FinalizedHeight(n) \in Nat /\ FinalizedHeight(m) \in Nat
        /\ FinalizedHeight(n) <= FinalizedHeight(m)
    BY <1>2, FinalizedHeightMax DEF LogInv, PoolInv, Inv
  <2> QED BY <2>1, <2>2, <2>3 DEF FinalizedHeight
<1>5. Tip = CHOOSE b \in tips : \A c \in tips : height[c] <= height[b]
  BY DEF Tip
<1>6. Tip \in tips /\ \A c \in tips : height[c] <= height[Tip]
  <2> HIDE DEF tips
  <2> QED BY <1>3, <1>4, <1>5
<1>7. Tip \in AllBlocks /\ OnChain(Tip) /\ height[Tip] \in Nat
  BY <1>1, <1>6, BlockFacts
<1>8. ASSUME NEW x \in AllBlocks, OnChain(x) PROVE height[x] <= height[Tip]
  <2>1. CASE x = Genesis
    BY <1>7, <2>1, BlockFacts
  <2>2. CASE x # Genesis
    <3>1. PICK f \in Finalized : height[x] <= height[f]
      BY <1>8, <2>2 DEF OnChain
    <3>2. f \in tips
      BY <3>1 DEF Finalized
    <3>3. height[f] <= height[Tip]
      BY <1>6, <3>2
    <3>4. height[x] \in Nat /\ height[f] \in Nat
      BY <1>1, <3>2, BlockFacts
    <3> QED BY <1>7, <3>1, <3>3, <3>4
  <2> QED BY <2>1, <2>2
<1>9. \A x, y \in AllBlocks :
         OnChain(x) /\ OnChain(y) /\ height[x] <= height[y] => Ancestor[y][height[x]] = x
  BY <1>0, ChainOrdered
<1> QED BY <1>7, <1>8, <1>9 DEF OneChain

(* Chains are what AgreedLog calls linked. *)
LEMMA ChainLinked ==
    ASSUME NEW b \in AllBlocks
    PROVE  Log!Linked(Chain[b])
<1>1. height[b] \in Nat /\ DOMAIN Chain[b] = 1..height[b]
  BY BlockFacts DEF Chain
<1> SUFFICES ASSUME NEW i \in 1..height[b]
             PROVE  parent[Chain[b][i]] = IF i = 1 THEN Genesis ELSE Chain[b][i - 1]
  BY <1>1 DEF Log!Linked
<1>2. Chain[b][i] = Ancestor[b][i] /\ parent[Ancestor[b][i]] = Ancestor[b][i - 1]
  BY ChainSeq, AncestorParent
<1>3. CASE i = 1
  <2>1. Ancestor[b][0] \in AllBlocks /\ height[Ancestor[b][0]] = 0
    BY <1>1, AncestorHeight
  <2> QED BY <1>2, <1>3, <2>1, BlockFacts
<1>4. CASE i # 1
  <2>1. i - 1 \in 1..height[b]
    BY <1>1, <1>4
  <2> QED BY <1>2, <1>4, <2>1, ChainSeq
<1> QED BY <1>3, <1>4

LEMMA InitialLog == Init /\ OneChain => Log!Init
<1> SUFFICES ASSUME Init, OneChain PROVE Log!Init
  OBVIOUS
<1>1. Finalized = {}
  BY DEF Init, Finalized
<1>2. Tip = Genesis
  BY <1>1 DEF OneChain, OnChain
<1>3. Genesis \in AllBlocks /\ height[Genesis] = 0
  BY BlockFacts
<1>4. Chain[Genesis] \in Seq(Blocks) /\ Len(Chain[Genesis]) = 0
  BY <1>3, ChainSeq
<1>5. Chain[Genesis] = <<>>
  BY <1>4
<1> QED BY <1>2, <1>5 DEF Init, Log!Init

(* Every step extends the log, moves one replica along it, or does neither. *)
LEMMA StepOfLog == LogInv /\ OneChain /\ OneChain' /\ [Next]_vars => [Log!Next]_(Log!vars)
<1> SUFFICES ASSUME LogInv, OneChain, OneChain', [Next]_vars
             PROVE  [Log!Next]_(Log!vars)
  OBVIOUS
<1>1. \A n \in Honest : PoolEffect(n)
  BY StepEffects DEF LogInv, PoolInv
<1>2. Tip \in AllBlocks /\ height[Tip] \in Nat
  BY BlockFacts DEF OneChain
<1>3. CASE UNCHANGED state
  <2>1. PICK t, u : t = Tip /\ u = Tip'
    OBVIOUS
  <2>2. t \in AllBlocks /\ u \in AllBlocks /\ height[t] \in Nat /\ height[u] \in Nat
    BY <2>1, BlockFacts DEF OneChain
  <2>3. OnChain(t)'
    BY <1>1, <2>1, ChainGrows DEF OneChain
  <2>4. OnChain(u)'
    BY <2>1 DEF OneChain, OnChain
  <2>5. height[t] <= height[u] /\ Ancestor[u][height[t]] = t
    BY <2>1, <2>2, <2>3, <2>4 DEF OneChain
  <2>6. CASE height[t] = height[u]
    <3>1. height[u] \in Levels /\ height[u] <= height[u]
      BY <2>2, LevelsOfBlock
    <3>2. Ancestor[u][height[u]] = u
      BY <2>2, <3>1, AncestorEquation
    <3>3. Tip' = Tip
      BY <2>1, <2>5, <2>6, <3>2
    <3> QED BY <1>3, <3>3 DEF Log!vars
  <2>7. CASE height[t] < height[u]
    <3>1. height[t] \in 0..height[u]
      BY <2>2, <2>5
    <3>2. Len(Chain[t]) = height[t] /\ Len(Chain[u]) = height[u]
      BY <2>2, ChainSeq
    <3>3. SubSeq(Chain[u], 1, height[t]) = Chain[t]
      BY <2>2, <2>5, <3>1, ChainPrefix
    <3>4. Log!Linked(Chain[u])
      BY <2>2, ChainLinked
    <3>5. Len(Chain[u]) > Len(Chain[t])
      BY <2>2, <2>7, <3>2
    <3>6. Log!Extend
      BY <1>3, <2>1, <3>2, <3>3, <3>4, <3>5 DEF Log!Extend
    <3> QED BY <3>6 DEF Log!Next
  <2> QED BY <2>2, <2>5, <2>6, <2>7
<1>4. CASE ~UNCHANGED state
  <2>1. UNCHANGED <<finalizations, cup>>
    BY <1>4, StepStates DEF StateEffect
  <2>2. PICK n \in Honest : \E b \in AllBlocks :
           OnChain(b) /\ state' = [state EXCEPT ![n] = Chain[b]]
    BY <1>4, StepStates DEF StateEffect
  <2>3. PICK b \in AllBlocks : OnChain(b) /\ state' = [state EXCEPT ![n] = Chain[b]]
    BY <2>2
  <2>4. Tip' = Tip
    BY <2>1 DEF Tip
  <2>5. state'[n] # state[n]
    BY <1>4, <2>3 DEF LogInv, PoolInv, Inv, TypeOK
  <2>6. height[b] \in Nat /\ height[b] <= height[Tip] /\ Ancestor[Tip][height[b]] = b
    BY <2>3, BlockFacts DEF OneChain
  <2>7. height[b] \in 0..height[Tip]
    BY <1>2, <2>6
  <2>8. Chain[b] = SubSeq(Chain[Tip], 1, height[b])
    BY <1>2, <2>6, <2>7, ChainPrefix
  <2>9. height[b] \in 0..Len(Chain[Tip])
    BY <1>2, <2>7, ChainSeq
  <2>10. Log!Move(n)
    BY <2>3, <2>4, <2>5, <2>8, <2>9 DEF Log!Move
  <2> QED BY <2>10 DEF Log!Next
<1> QED BY <1>3, <1>4

(* Consensus implements AgreedLog: the blocks finalized anywhere form one  *)
(* log that is only extended, and every state of an honest replica, also   *)
(* one from a state sync or after a restart, is that of a prefix of it.    *)
THEOREM OneLogExecuted == Spec => ExecutesOneLog
<1>1. Spec => []OneChain
  BY TipIsEnd, LogInvAlways, PTL
<1> QED BY <1>1, LogInvAlways, InitialLog, StepOfLog, PTL DEF Spec, ExecutesOneLog, Log!Spec
=============================================================================

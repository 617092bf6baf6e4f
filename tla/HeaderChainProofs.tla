-------------------------- MODULE HeaderChainProofs --------------------------
(***************************************************************************)
(* Proofs about the DPoS bookkeeping of one branch, for any schedules, any *)
(* order of producers and any length of the branch: the irreversible block *)
(* stays behind the proposed one, which was confirmed by a quorum; a       *)
(* proposed schedule stands until it is made pending, with the version     *)
(* that is then the next; and a producer that confirms as producer_plugin  *)
(* does is not refused.                                                    *)
(***************************************************************************)
EXTENDS HeaderChain, BlockHeaderStateProofs

(***************************************************************************)
(* The branch.                                                             *)
(***************************************************************************)
ProposalOK(x) == x.num \in Nums /\ (x.num # 0 => x.producers \in Schedules /\ x.version \in Nat)

\* The version that the next proposed schedule follows.
Ahead(h) == IF h.pending.producers # <<>> THEN h.pending.version ELSE h.active.version
AheadWith(h, new) == IF new # <<>> /\ new[1].producers # <<>> THEN new[1].version ELSE Ahead(h)

\* The block being built fits the state it was started from.
BlockOK(h, b) ==
  /\ h.block_num < MaxBlockNum
  /\ b.producer \in ProducersOf(h.active)
  /\ b.confirmed \in Nat
  /\ CarriedOK(b.new)
  /\ MayCarry(h, b.producer, b.new)
  /\ ProposalOK(b.proposed)
  /\ b.proposed.num # 0 => b.proposed.version = AheadWith(h, b.new) + 1

\* In the genesis state the initial schedule is both active and pending; the first
\* block makes it active again.
GenesisOK == hs.block_num = 1 => hs = GenesisState(Initial) /\ proposed.num = 0

BuildingOK ==
  building # <<>> =>
    /\ building = << [producer |-> building[1].producer, confirmed |-> building[1].confirmed,
                      new |-> building[1].new, proposed |-> building[1].proposed] >>
    /\ BlockOK(hs, building[1])

WatermarkOK ==
  watermark \in [AllProducers -> Nums] /\ \A p \in AllProducers : watermark[p] <= hs.block_num

\* The versions of the active, the pending and the proposed schedule are consecutive.
VersionsInOrder ==
  /\ hs.pending.producers # <<>> /\ hs.block_num > 1
       => hs.pending.version = hs.active.version + 1
  /\ proposed.num # 0 /\ hs.block_num > 1 => proposed.version = Ahead(hs) + 1

ChainInv ==
  /\ StateOK(hs) /\ hs.block_num <= MaxBlockNum
  /\ ProposalOK(proposed)
  /\ GenesisOK
  /\ VersionsInOrder
  /\ BuildingOK
  /\ WatermarkOK

\* A producer confirmed no block after its watermark, and none that is not there.
ConfirmersOK ==
  \A n \in 1..MaxBlockNum :
    /\ confirmers[n] \in SUBSET AllProducers
    /\ \A p \in confirmers[n] : n <= hs.block_num /\ (watermark[p] = 0 \/ n <= watermark[p])

\* Every block that is still counted has the confirmations that are not counted
\* down any more.
CountdownOK ==
  \A i \in 1..Len(hs.confirm_count) :
    hs.confirm_count[i] + Cardinality(confirmers[hs.block_num - Len(hs.confirm_count) + i])
      >= needed[hs.block_num - Len(hs.confirm_count) + i]

\* The block being built confirms what producer_plugin lets it confirm.
ConfirmsOK == building # <<>> => building[1].confirmed = HonestConfirms(building[1].producer)

HistoryTypeOK ==
  /\ confirmers \in [1..MaxBlockNum -> SUBSET AllProducers]
  /\ needed \in [1..MaxBlockNum -> Nat]

QuorumInv == HistoryTypeOK /\ ConfirmersOK /\ CountdownOK /\ ConfirmsOK /\ ConfirmedByQuorum

\* What a producer last produced on the branch is behind its watermark, if it has
\* one, or irreversible.
ProducedOK ==
  \A p \in DOMAIN hs.produced :
    watermark[p] = 0 \/ hs.produced[p] <= watermark[p] \/ hs.produced[p] <= hs.dpos_irreversible

\* The genesis block.
LEMMA InitChain == Init => ChainInv
<1> SUFFICES ASSUME Init PROVE ChainInv
  OBVIOUS
<1>1. PICK g : g = GenesisState(Initial)
  OBVIOUS
<1>2. /\ g.block_num = 1 /\ g.dpos_proposed = 0 /\ g.dpos_irreversible = 0
      /\ g.active = [version |-> 0, producers |-> Initial]
      /\ g.produced = <<>> /\ g.implied = <<>> /\ g.confirm_count = <<>>
      /\ g.pending = [lib_num |-> 0, version |-> 0, producers |-> Initial]
  BY <1>1 DEF GenesisState
<1>3. hs = g /\ Initial \in Schedules /\ MaxBlockNum \in Nat \ {0}
  BY <1>1, HeaderChainAssumption DEF Init
<1>4. CountsOK(g)
  BY <1>2 DEF CountsOK
<1>5. IrreversibleOK(g)
  <2>1. DOMAIN g.implied = {} /\ DOMAIN g.produced = {}
    BY <1>2
  <2> QED
    BY <1>2, <2>1 DEF IrreversibleOK
<1>6. SchedulesOK(g)
  BY <1>2, <1>3 DEF SchedulesOK
<1>7. StateOK(hs) /\ hs.block_num <= MaxBlockNum
  BY <1>2, <1>3, <1>4, <1>5, <1>6 DEF StateOK
<1>8. ProposalOK(proposed) /\ proposed.num = 0
  BY <1>3 DEF Init, NoProposal, ProposalOK, Nums
<1>9. GenesisOK
  BY <1>1, <1>3, <1>8 DEF GenesisOK
<1>10. VersionsInOrder
  BY <1>2, <1>3 DEF VersionsInOrder
<1>11. BuildingOK
  BY DEF BuildingOK, Init
<1>12. WatermarkOK
  BY <1>2, <1>3 DEF WatermarkOK, Init, Nums
<1> QED
  BY <1>7, <1>8, <1>9, <1>10, <1>11, <1>12 DEF ChainInv

\* The first block makes the initial schedule active.
LEMMA FirstPromotes ==
  ASSUME NEW p PROVE Promotes(GenesisState(Initial), p)
<1>1. PICK g : g = GenesisState(Initial)
  OBVIOUS
<1>2. DOMAIN g.implied = {} /\ g.pending.producers = Initial /\ g.pending.lib_num = 0
  BY <1>1 DEF GenesisState
<1>3. calc_dpos_last_irreversible(g, p) = 0
  BY <1>2 DEF calc_dpos_last_irreversible
<1> QED
  BY <1>1, <1>2, <1>3, HeaderChainAssumption DEF Promotes

\* A proposed schedule that start_block puts into the header is the next one.
LEMMA StartKeepsChain ==
  ASSUME ChainInv, NEW p, NEW c \in 0..MaxConfirm, StartBlock(p, c)
  PROVE  ChainInv'
<1>1. PICK promote : promote = (/\ proposed.num # 0
                                /\ proposed.num <= calc_dpos_last_irreversible(hs, p)
                                /\ hs.pending.producers = <<>>)
  OBVIOUS
<1>2. PICK b : b = [producer |-> p, confirmed |-> c,
                    new |-> IF promote THEN <<ScheduleOf(proposed)>> ELSE <<>>,
                    proposed |-> IF promote THEN NoProposal ELSE proposed]
  OBVIOUS
<1>3. building' = <<b>> /\ UNCHANGED <<hs, proposed, watermark, confirmers, needed>>
      /\ p \in ProducersOf(hs.active) /\ hs.block_num < MaxBlockNum
  BY <1>1, <1>2 DEF StartBlock
<1>4. promote = TRUE => proposed.num # 0 /\ hs.pending.producers = <<>>
  BY <1>1
<1>5. CarriedOK(b.new) /\ MayCarry(hs, p, b.new)
  <2>1. CASE promote = TRUE
    <3>1. b.new = <<ScheduleOf(proposed)>>
      BY <1>2, <2>1
    <3>2. b.new # <<>> /\ b.new[1].producers = proposed.producers
          /\ b.new[1].version = proposed.version
      BY <3>1 DEF ScheduleOf
    <3>3. proposed.producers \in Schedules /\ proposed.version \in Nat
      BY <1>4, <2>1 DEF ChainInv, ProposalOK
    <3>4. hs.block_num > 1
      BY <1>4, <2>1 DEF ChainInv, GenesisOK, StateOK, CountsOK
    <3>5. proposed.version = hs.active.version + 1
      BY <1>4, <2>1, <3>4 DEF ChainInv, VersionsInOrder, Ahead
    <3>6. ~ Promotes(hs, p)
      BY <1>4, <2>1 DEF Promotes
    <3> QED
      BY <1>4, <2>1, <3>2, <3>3, <3>5, <3>6 DEF CarriedOK, MayCarry
  <2>2. CASE promote # TRUE
    <3>1. b.new = <<>>
      BY <1>1, <1>2, <2>2
    <3> QED
      BY <3>1 DEF CarriedOK, MayCarry
  <2> QED
    BY <2>1, <2>2
<1>6. ProposalOK(b.proposed) /\ (b.proposed.num # 0 => b.proposed.version = AheadWith(hs, b.new) + 1)
  <2>1. CASE promote = TRUE
    <3>1. b.proposed = NoProposal
      BY <1>2, <2>1
    <3> QED
      BY <3>1, HeaderChainAssumption DEF NoProposal, ProposalOK, Nums
  <2>2. CASE promote # TRUE
    <3>1. b.new = <<>> /\ b.proposed = proposed
      BY <1>1, <1>2, <2>2
    <3>2. proposed.num # 0 => hs.block_num > 1
      BY DEF ChainInv, GenesisOK, StateOK, CountsOK
    <3>3. proposed.num # 0 => proposed.version = Ahead(hs) + 1
      BY <3>2 DEF ChainInv, VersionsInOrder
    <3> QED
      BY <3>1, <3>3 DEF ChainInv, AheadWith
  <2> QED
    BY <2>1, <2>2
<1>7. b.producer = p /\ b.confirmed = c /\ c \in Nat
      /\ b = [producer |-> b.producer, confirmed |-> b.confirmed,
              new |-> b.new, proposed |-> b.proposed]
  BY <1>2, HeaderChainAssumption
<1>8. BlockOK(hs, b)
  BY <1>3, <1>5, <1>6, <1>7 DEF BlockOK
<1>9. BuildingOK'
  <2>1. building'[1] = b
    BY <1>3
  <2> QED
    BY <1>3, <1>7, <1>8, <2>1 DEF BuildingOK
<1>10. hs' = hs /\ proposed' = proposed /\ watermark' = watermark
  BY <1>3
<1>11. VersionsInOrder'
  BY <1>10 DEF ChainInv, VersionsInOrder
<1> QED
  BY <1>9, <1>10, <1>11 DEF ChainInv, GenesisOK, WatermarkOK

\* A schedule proposed while a block is built follows the last one.
LEMMA SetProposedKeepsChain ==
  ASSUME ChainInv, NEW s \in Schedules, SetProposedProducers(s)
  PROVE  ChainInv'
<1>1. PICK b : b = building[1]
  OBVIOUS
<1>2. PICK base : base = IF PendingProducers.producers = <<>> THEN ActiveProducers
                                                              ELSE PendingProducers
  OBVIOUS
<1>3. PICK x : x = [num |-> hs.block_num + 1, version |-> base.version + 1, producers |-> s]
  OBVIOUS
<1>4. /\ building # <<>>
      /\ building' = [building EXCEPT ![1].proposed = x]
      /\ UNCHANGED <<hs, proposed, watermark, confirmers, needed>>
  BY <1>2, <1>3 DEF SetProposedProducers
<1>5. /\ building = <<[producer |-> b.producer, confirmed |-> b.confirmed,
                       new |-> b.new, proposed |-> b.proposed]>>
      /\ BlockOK(hs, b)
  BY <1>1, <1>4 DEF ChainInv, BuildingOK
<1>6. PICK d : d = [producer |-> b.producer, confirmed |-> b.confirmed,
                    new |-> b.new, proposed |-> x]
  OBVIOUS
<1>7. building' = <<d>>
  BY <1>4, <1>5, <1>6
<1>8. base.version = AheadWith(hs, b.new) /\ base.version \in Nat
  <2>1. SchedulesOK(hs) /\ CarriedOK(b.new) /\ MayCarry(hs, b.producer, b.new)
    BY <1>5 DEF ChainInv, StateOK, BlockOK
  <2>2. CASE b.new # <<>>
    <3>1. PendingProducers = b.new[1] /\ ~ Promotes(hs, b.producer)
          /\ hs.pending.producers = <<>>
      BY <1>1, <2>1, <2>2 DEF PendingProducers, MayCarry
    <3>2. ActiveProducers = hs.active
      BY <1>1, <3>1 DEF ActiveProducers
    <3> QED
      BY <1>2, <2>1, <2>2, <3>1, <3>2 DEF CarriedOK, SchedulesOK, AheadWith, Ahead
  <2>3. CASE b.new = <<>>
    <3>1. PendingProducers = ScheduleOf(hs.pending)
      BY <1>1, <2>3 DEF PendingProducers
    <3>2. PendingProducers.producers = hs.pending.producers
          /\ PendingProducers.version = hs.pending.version
      BY <3>1 DEF ScheduleOf
    <3>3. hs.pending.producers = <<>> => ActiveProducers = hs.active
      BY <1>1 DEF ActiveProducers, Promotes
    <3> QED
      BY <1>2, <2>1, <2>3, <3>2, <3>3 DEF SchedulesOK, AheadWith, Ahead
  <2> QED
    BY <2>2, <2>3
<1>9. d.producer = b.producer /\ d.confirmed = b.confirmed /\ d.new = b.new /\ d.proposed = x
      /\ d = [producer |-> d.producer, confirmed |-> d.confirmed,
              new |-> d.new, proposed |-> d.proposed]
  BY <1>6
<1>10. ProposalOK(x) /\ x.version = AheadWith(hs, d.new) + 1
  <2>1. hs.block_num \in Nat /\ hs.block_num < MaxBlockNum
    BY <1>5 DEF ChainInv, StateOK, CountsOK, BlockOK
  <2>2. hs.block_num + 1 \in Nums
    BY <2>1, HeaderChainAssumption DEF Nums
  <2>3. base.version + 1 \in Nat
    BY <1>8
  <2> QED
    BY <1>3, <1>8, <1>9, <2>2, <2>3 DEF ProposalOK
<1>11. BlockOK(hs, d)
  BY <1>5, <1>9, <1>10 DEF BlockOK
<1>12. BuildingOK'
  <2>1. building'[1] = d
    BY <1>7
  <2> QED
    BY <1>4, <1>7, <1>9, <1>11, <2>1 DEF BuildingOK
<1>13. hs' = hs /\ proposed' = proposed /\ watermark' = watermark
  BY <1>4
<1>14. VersionsInOrder'
  BY <1>13 DEF ChainInv, VersionsInOrder
<1> QED
  BY <1>12, <1>13, <1>14 DEF ChainInv, GenesisOK, WatermarkOK

\* The producer of the block being built is one.
LEMMA ProducerIs ==
  ASSUME ChainInv, building # <<>>
  PROVE  building[1].producer \in AllProducers
<1>1. building[1].producer \in ProducersOf(hs.active) /\ hs.active.producers \in Schedules
  BY DEF ChainInv, BuildingOK, BlockOK, StateOK, SchedulesOK
<1> QED
  BY <1>1, ScheduledAre

\* commit_block: what was next becomes pending, what was pending active.
LEMMA CommitKeepsVersions ==
  ASSUME ChainInv, CommitBlock
  PROVE  VersionsInOrder'
<1>1. PICK b : b = building[1]
  OBVIOUS
<1>2. PICK g : g = hs'
  OBVIOUS
<1>3. /\ building # <<>> /\ g = next(hs, b.producer, b.confirmed, b.new)
      /\ proposed' = b.proposed
  BY <1>1, <1>2 DEF CommitBlock
<1>4. BlockOK(hs, b) /\ SchedulesOK(hs)
  BY <1>1, <1>3 DEF ChainInv, BuildingOK, StateOK
<1>5. CarriedOK(b.new) /\ MayCarry(hs, b.producer, b.new)
      /\ (b.proposed.num # 0 => b.proposed.version = AheadWith(hs, b.new) + 1)
  BY <1>4 DEF BlockOK
<1>6. /\ g.active = IF Promotes(hs, b.producer) THEN ScheduleOf(hs.pending) ELSE hs.active
      /\ g.pending.producers = CASE b.new # <<>> -> b.new[1].producers
                                 [] b.new = <<>> /\ Promotes(hs, b.producer) -> <<>>
                                 [] OTHER -> hs.pending.producers
      /\ g.pending.version = IF b.new # <<>> THEN b.new[1].version ELSE hs.pending.version
  BY <1>3, <1>4, <1>5, NextSchedulesOK
<1>7. (g.pending.producers # <<>> => g.pending.version = g.active.version + 1)
      /\ AheadWith(hs, b.new) = Ahead(g)
  <2>1. CASE b.new # <<>>
    <3>1. ~ Promotes(hs, b.producer) /\ b.new[1].version = hs.active.version + 1
          /\ hs.pending.producers = <<>>
      BY <1>5, <2>1 DEF MayCarry
    <3>2. g.active = hs.active /\ g.pending.producers = b.new[1].producers
          /\ g.pending.version = b.new[1].version
      BY <1>6, <2>1, <3>1
    <3> QED
      BY <2>1, <3>1, <3>2 DEF AheadWith, Ahead
  <2>2. CASE b.new = <<>> /\ Promotes(hs, b.producer)
    <3>1. hs.pending.producers # <<>>
      BY <2>2 DEF Promotes
    <3>2. g.active.version = hs.pending.version /\ g.pending.producers = <<>>
      BY <1>6, <2>2 DEF ScheduleOf
    <3> QED
      BY <2>2, <3>1, <3>2 DEF AheadWith, Ahead
  <2>3. CASE b.new = <<>> /\ ~ Promotes(hs, b.producer)
    <3>1. g.active = hs.active /\ g.pending.producers = hs.pending.producers
          /\ g.pending.version = hs.pending.version
      BY <1>6, <2>3
    <3>2. hs.block_num # 1
      BY <2>3, FirstPromotes DEF ChainInv, GenesisOK
    <3>3. hs.block_num > 1
      BY <3>2 DEF ChainInv, StateOK, CountsOK
    <3>4. hs.pending.producers # <<>> => hs.pending.version = hs.active.version + 1
      BY <3>3 DEF ChainInv, VersionsInOrder
    <3> QED
      BY <2>3, <3>1, <3>4 DEF AheadWith, Ahead
  <2> QED
    BY <2>1, <2>2, <2>3
<1>8. proposed'.num # 0 => proposed'.version = Ahead(g) + 1
  BY <1>3, <1>5, <1>7
<1> QED
  BY <1>2, <1>7, <1>8 DEF VersionsInOrder, Ahead

\* commit_block keeps the rest too.
LEMMA CommitKeepsChain ==
  ASSUME ChainInv, CommitBlock
  PROVE  ChainInv'
<1>1. PICK b : b = building[1]
  OBVIOUS
<1>2. PICK num : num = hs.block_num + 1
  OBVIOUS
<1>3. /\ building # <<>> /\ hs' = next(hs, b.producer, b.confirmed, b.new)
      /\ proposed' = b.proposed /\ building' = <<>>
      /\ watermark' = [watermark EXCEPT ![b.producer] = Max({@, num})]
  BY <1>1, <1>2 DEF CommitBlock
<1>4. BlockOK(hs, b) /\ StateOK(hs) /\ b.producer \in AllProducers
  BY <1>1, <1>3, ProducerIs DEF ChainInv, BuildingOK
<1>5. b.confirmed \in Nat /\ CarriedOK(b.new) /\ hs.block_num < MaxBlockNum
      /\ ProposalOK(b.proposed)
  BY <1>4 DEF BlockOK
<1>6. hs.block_num \in Nat \ {0} /\ hs'.block_num = num
  BY <1>2, <1>3, <1>4 DEF next, StateOK, CountsOK
<1>7. num \in Nums /\ num > 1 /\ num <= MaxBlockNum /\ num > hs.block_num
  BY <1>2, <1>5, <1>6, HeaderChainAssumption DEF Nums
<1>8. StateOK(hs')
  BY <1>3, <1>4, <1>5, NextStateOK
<1>9. WatermarkOK'
  <2>1. watermark \in [AllProducers -> Nums] /\ \A p \in AllProducers : watermark[p] <= hs.block_num
    BY DEF ChainInv, WatermarkOK
  <2>2. watermark[b.producer] \in Nums /\ watermark[b.producer] <= num
    BY <1>4, <1>6, <1>7, <2>1 DEF Nums
  <2>3. Max({watermark[b.producer], num}) = num
    BY <1>7, <2>2, MaxOfTwo DEF Nums
  <2>4. watermark' = [watermark EXCEPT ![b.producer] = num]
    BY <1>3, <2>1, <1>4, <2>3
  <2>5. watermark' \in [AllProducers -> Nums]
    BY <1>7, <2>1, <2>4
  <2>6. ASSUME NEW p \in AllProducers PROVE watermark'[p] <= num
    <3>1. watermark'[p] = num \/ watermark'[p] = watermark[p]
      BY <2>1, <2>4
    <3>2. watermark[p] \in Nums /\ watermark[p] <= hs.block_num
      BY <2>1
    <3> QED
      BY <1>6, <1>7, <3>1, <3>2 DEF Nums
  <2> QED
    BY <1>6, <2>5, <2>6 DEF WatermarkOK
<1>10. GenesisOK'
  BY <1>6, <1>7 DEF GenesisOK
<1>11. BuildingOK'
  BY <1>3 DEF BuildingOK
<1>12. ProposalOK(proposed')
  BY <1>3, <1>5
<1> QED
  BY <1>6, <1>7, <1>8, <1>9, <1>10, <1>11, <1>12, CommitKeepsVersions DEF ChainInv

\* A block is aborted, or a node restarts.
LEMMA OthersKeepChain ==
  ASSUME ChainInv, \/ AbortBlock
                   \/ \E p \in AllProducers : RestartNode(p)
                   \/ UNCHANGED hcVars
  PROVE  ChainInv'
<1>1. hs' = hs /\ proposed' = proposed
  BY DEF AbortBlock, RestartNode, hcVars
<1>2. BuildingOK'
  <2>1. building' = <<>> \/ building' = building
    BY DEF AbortBlock, RestartNode, hcVars
  <2> QED
    BY <1>1, <2>1 DEF ChainInv, BuildingOK
<1>3. WatermarkOK'
  <2>1. WatermarkOK
    BY DEF ChainInv
  <2>2. CASE watermark' = watermark
    BY <1>1, <2>1, <2>2 DEF WatermarkOK
  <2>3. CASE \E p \in AllProducers : RestartNode(p)
    <3>1. PICK p \in AllProducers : watermark' = [watermark EXCEPT ![p] = 0]
      BY <2>3 DEF RestartNode
    <3>2. 0 \in Nums /\ 0 <= hs.block_num
      BY HeaderChainAssumption DEF Nums, ChainInv, StateOK, CountsOK
    <3> QED
      BY <1>1, <2>1, <3>1, <3>2 DEF WatermarkOK
  <2> QED
    BY <2>2, <2>3 DEF AbortBlock, hcVars
<1>4. VersionsInOrder'
  BY <1>1 DEF ChainInv, VersionsInOrder
<1> QED
  BY <1>1, <1>2, <1>3, <1>4 DEF ChainInv, GenesisOK

\* Every step keeps the branch in order.
LEMMA StepKeepsChain ==
  ASSUME ChainInv, [Next]_hcVars
  PROVE  ChainInv'
<1>1. CASE \E p \in ProducersOf(hs.active), c \in 0..MaxConfirm : StartBlock(p, c)
  BY <1>1, StartKeepsChain
<1>2. CASE \E s \in Schedules : SetProposedProducers(s)
  BY <1>2, SetProposedKeepsChain
<1>3. CASE CommitBlock
  BY <1>3, CommitKeepsChain
<1>4. CASE \/ AbortBlock
           \/ \E p \in AllProducers : RestartNode(p)
           \/ UNCHANGED hcVars
  BY <1>4, OthersKeepChain
<1> QED
  BY <1>1, <1>2, <1>3, <1>4 DEF Next

\* The branch always is in order.
LEMMA ChainHolds == Spec => []ChainInv
<1>1. ChainInv /\ [Next]_hcVars => ChainInv'
  BY StepKeepsChain
<1> QED
  BY <1>1, InitChain, PTL DEF Spec

\* The state has its types: schedules are ones that may be proposed, the maps of
\* producers hold block numbers of the branch, and no count of confirmations that
\* next keeps in confirm_count is zero or more than a schedule can ask for.
THEOREM HeaderTypeCorrect == Spec => []TypeOK
<1>1. ASSUME ChainInv PROVE TypeOK
  <2>1. StateOK(hs) /\ hs.block_num <= MaxBlockNum
    BY <1>1 DEF ChainInv
  <2>2. CountsOK(hs) /\ IrreversibleOK(hs) /\ SchedulesOK(hs)
    BY <2>1 DEF StateOK
  <2>3. hs.block_num \in 1..MaxBlockNum
    BY <2>1, <2>2, HeaderChainAssumption DEF CountsOK
  <2>4. hs.dpos_proposed \in Nums /\ \A x \in 0..hs.dpos_proposed : x \in Nums
    BY <2>1, <2>2, <2>3, HeaderChainAssumption DEF CountsOK, Nums
  <2>5. \A x \in 0..hs.block_num : x \in Nums
    BY <2>1, <2>3, HeaderChainAssumption DEF Nums
  <2>6. Len(building) <= 1
    <3>1. CASE building = <<>>
      BY <3>1
    <3>2. CASE building # <<>>
      <4>1. PICK b : building = <<b>>
        BY <1>1, <3>2 DEF ChainInv, BuildingOK
      <4> QED
        BY <4>1
    <3> QED
      BY <3>1, <3>2
  <2>7. \A p \in DOMAIN hs.produced : p \in AllProducers /\ hs.produced[p] \in Nums
    BY <2>2, <2>5 DEF IrreversibleOK
  <2>8. \A p \in DOMAIN hs.implied : p \in AllProducers /\ hs.implied[p] \in Nums
    BY <2>2, <2>4 DEF IrreversibleOK
  <2>9. hs.confirm_count \in Seq(1..(Cardinality(AllProducers) + 1))
    BY <2>2 DEF CountsOK, MaxConfs
  <2>10. proposed.num \in Nums /\ watermark \in [AllProducers -> Nums]
    BY <1>1 DEF ChainInv, ProposalOK, WatermarkOK
  <2>11. hs.active.producers \in Schedules /\ hs.pending.producers \in Schedules \cup {<<>>}
    BY <2>2 DEF SchedulesOK
  <2> QED
    BY <2>3, <2>6, <2>7, <2>8, <2>9, <2>10, <2>11 DEF TypeOK
<1> QED
  BY <1>1, ChainHolds, PTL

\* What calc_dpos_last_irreversible makes irreversible is not past the block that
\* next proposes, which is not past the last one.
THEOREM IrreversibleStaysBehind == Spec => []IrreversibleBehindProposed
<1>1. ASSUME ChainInv PROVE IrreversibleBehindProposed
  <2>1. CountsOK(hs) /\ IrreversibleOK(hs)
    BY <1>1 DEF ChainInv, StateOK
  <2>2. hs.dpos_proposed <= hs.block_num
    BY <2>1 DEF CountsOK
  <2>3. hs.dpos_irreversible <= hs.dpos_proposed
        /\ \A p \in DOMAIN hs.implied : hs.implied[p] <= hs.dpos_proposed
    BY <2>1 DEF CountsOK, IrreversibleOK
  <2> QED
    BY <2>2, <2>3 DEF IrreversibleBehindProposed
<1> QED
  BY <1>1, ChainHolds, PTL

\* A schedule that start_block puts into a header passes the assertions that
\* start_block and _finish_next make about its version.
THEOREM CarriedScheduleIsNext == Spec => []CarriedScheduleAccepted
<1>1. ASSUME ChainInv PROVE CarriedScheduleAccepted
  BY <1>1 DEF ChainInv, BuildingOK, BlockOK, CarriedScheduleAccepted
<1> QED
  BY <1>1, ChainHolds, PTL

\* What stands for ProposalStands while a block is built: the proposal is of a block
\* that is committed, and the block being built keeps it or carries it in its header.
CarriedOn(b) ==
  /\ b.new = <<ScheduleOf(proposed)>>
  /\ proposed.num <= calc_dpos_last_irreversible(hs, b.producer)

StandsInv ==
  /\ proposed.num <= hs.block_num
  /\ building # <<>> =>
       /\ building[1].proposed.num <= hs.block_num + 1
       /\ proposed.num # 0 /\ building[1].proposed # proposed => CarriedOn(building[1])

\* start_block keeps the proposal, or clears it and puts it into the header.
LEMMA StartKeepsStands ==
  ASSUME ChainInv, StandsInv, NEW p, NEW c, StartBlock(p, c)
  PROVE  StandsInv'
<1>1. PICK promote : promote = (/\ proposed.num # 0
                                /\ proposed.num <= calc_dpos_last_irreversible(hs, p)
                                /\ hs.pending.producers = <<>>)
  OBVIOUS
<1>2. PICK b : b = [producer |-> p, confirmed |-> c,
                    new |-> IF promote THEN <<ScheduleOf(proposed)>> ELSE <<>>,
                    proposed |-> IF promote THEN NoProposal ELSE proposed]
  OBVIOUS
<1>3. building' = <<b>> /\ hs' = hs /\ proposed' = proposed
  BY <1>1, <1>2 DEF StartBlock
<1>4. building'[1] = b
  BY <1>3
<1>5. proposed.num \in Nat /\ hs.block_num \in Nat /\ proposed.num <= hs.block_num
  BY HeaderChainAssumption DEF ChainInv, ProposalOK, Nums, StateOK, CountsOK, StandsInv
<1>6. b.proposed.num <= hs.block_num + 1 /\ (b.proposed # proposed => CarriedOn(b))
  <2>1. CASE promote = TRUE
    <3>1. b.proposed.num = 0 /\ b.new = <<ScheduleOf(proposed)>> /\ b.producer = p
      BY <1>2, <2>1 DEF NoProposal
    <3> QED
      BY <1>1, <1>5, <2>1, <3>1 DEF CarriedOn
  <2>2. CASE promote # TRUE
    <3>1. b.proposed = proposed
      BY <1>1, <1>2, <2>2
    <3> QED
      BY <1>5, <3>1
  <2> QED
    BY <2>1, <2>2
<1>7. CarriedOn(b) => CarriedOn(b)'
  BY <1>2, <1>3 DEF CarriedOn
<1> QED
  BY <1>3, <1>4, <1>5, <1>6, <1>7 DEF StandsInv, CarriedOn

\* set_proposed_producers returns -1 while the proposal of an earlier block waits.
LEMMA SetProposedKeepsStands ==
  ASSUME ChainInv, StandsInv, NEW s \in Schedules, SetProposedProducers(s)
  PROVE  StandsInv'
<1>1. PICK b : b = building[1]
  OBVIOUS
<1>2. PICK x : /\ x.num = hs.block_num + 1
               /\ building' = [building EXCEPT ![1].proposed = x]
  BY DEF SetProposedProducers
<1>3. /\ building # <<>> /\ hs' = hs /\ proposed' = proposed
      /\ b.proposed.num # 0 => b.proposed.num = hs.block_num + 1
  BY <1>1 DEF SetProposedProducers
<1>4. building = <<[producer |-> b.producer, confirmed |-> b.confirmed,
                    new |-> b.new, proposed |-> b.proposed]>>
  BY <1>1, <1>3 DEF ChainInv, BuildingOK
<1>5. building'[1].producer = b.producer /\ building'[1].new = b.new /\ building'[1].proposed = x
  BY <1>2, <1>4
<1>6. proposed.num \in Nat /\ hs.block_num \in Nat /\ proposed.num <= hs.block_num
  BY HeaderChainAssumption DEF ChainInv, ProposalOK, Nums, StateOK, CountsOK, StandsInv
<1>7. proposed.num # 0 => CarriedOn(b)
  BY <1>1, <1>3, <1>6 DEF StandsInv
<1> QED
  BY <1>2, <1>3, <1>5, <1>6, <1>7 DEF StandsInv, CarriedOn

\* commit_block makes a proposal pending that the block carries, and keeps it otherwise.
LEMMA CommitKeepsStands ==
  ASSUME ChainInv, StandsInv, CommitBlock
  PROVE  /\ StandsInv'
         /\ proposed.num # 0 /\ proposed' # proposed =>
              /\ proposed.num <= hs'.dpos_irreversible
              /\ hs'.pending.producers = proposed.producers
              /\ hs'.pending.version = proposed.version
<1>1. PICK b : b = building[1]
  OBVIOUS
<1>2. /\ building # <<>> /\ building' = <<>> /\ proposed' = b.proposed
      /\ hs' = next(hs, b.producer, b.confirmed, b.new)
  BY <1>1 DEF CommitBlock
<1>3. hs'.block_num = hs.block_num + 1
      /\ hs'.dpos_irreversible = calc_dpos_last_irreversible(hs, b.producer)
  BY <1>2 DEF next
<1>4. StandsInv'
  BY <1>1, <1>2, <1>3 DEF StandsInv
<1>5. ASSUME proposed.num # 0, proposed' # proposed
      PROVE  /\ proposed.num <= hs'.dpos_irreversible
             /\ hs'.pending.producers = proposed.producers
             /\ hs'.pending.version = proposed.version
  <2>1. CarriedOn(b)
    BY <1>1, <1>2, <1>5 DEF StandsInv
  <2>2. b.new # <<>> /\ b.new[1].producers = proposed.producers
        /\ b.new[1].version = proposed.version
    BY <2>1 DEF CarriedOn, ScheduleOf
  <2>3. SchedulesOK(hs) /\ CarriedOK(b.new)
    BY <1>1, <1>2 DEF ChainInv, StateOK, BuildingOK, BlockOK
  <2>4. hs'.pending.producers = b.new[1].producers /\ hs'.pending.version = b.new[1].version
    BY <1>2, <2>2, <2>3, NextSchedulesOK
  <2> QED
    BY <1>3, <2>1, <2>2, <2>4 DEF CarriedOn
<1> QED
  BY <1>4, <1>5

\* Every step.
LEMMA StepKeepsStands ==
  ASSUME ChainInv, StandsInv, [Next]_hcVars
  PROVE  /\ StandsInv'
         /\ proposed.num # 0 /\ proposed' # proposed =>
              /\ proposed.num <= hs'.dpos_irreversible
              /\ hs'.pending.producers = proposed.producers
              /\ hs'.pending.version = proposed.version
<1>1. CASE \E p \in ProducersOf(hs.active), c \in 0..MaxConfirm : StartBlock(p, c)
  <2>1. proposed' = proposed
    BY <1>1 DEF StartBlock
  <2> QED
    BY <1>1, <2>1, StartKeepsStands
<1>2. CASE \E s \in Schedules : SetProposedProducers(s)
  <2>1. proposed' = proposed
    BY <1>2 DEF SetProposedProducers
  <2> QED
    BY <1>2, <2>1, SetProposedKeepsStands
<1>3. CASE CommitBlock
  BY <1>3, CommitKeepsStands
<1>4. CASE \/ AbortBlock
           \/ \E p \in AllProducers : RestartNode(p)
           \/ UNCHANGED hcVars
  <2>1. hs' = hs /\ proposed' = proposed /\ (building' = <<>> \/ building' = building)
    BY <1>4 DEF AbortBlock, RestartNode, hcVars
  <2> QED
    BY <2>1 DEF StandsInv, CarriedOn
<1> QED
  BY <1>1, <1>2, <1>3, <1>4 DEF Next

\* A schedule proposed by a committed block stays until start_block makes it pending,
\* as it was proposed and once that block is irreversible: set_proposed_producers
\* replaces no schedule of an earlier block and abort_block drops none, whatever is
\* proposed and whoever produces.
THEOREM ProposalsStand == Spec => ProposalStands
<1>1. Init => StandsInv
  BY DEF Init, GenesisState, NoProposal, StandsInv
<1>2. ChainInv /\ StandsInv /\ [Next]_hcVars => StandsInv'
  BY StepKeepsStands
<1>3. ChainInv /\ StandsInv /\ [Next]_hcVars
      => [proposed.num # 0 /\ proposed' # proposed =>
            /\ proposed.num <= hs'.dpos_irreversible
            /\ hs'.pending.producers = proposed.producers
            /\ hs'.pending.version = proposed.version]_hcVars
  BY StepKeepsStands
<1> QED
  BY <1>1, <1>2, <1>3, ChainHolds, PTL DEF Spec, ProposalStands

-----------------------------------------------------------------------------
(***************************************************************************)
(* Confirmations, when producers confirm as producer_plugin does.          *)
(***************************************************************************)
\* A producer confirms no block up to its watermark, and without one only the
\* block it produces.
LEMMA HonestConfirmsIs ==
  ASSUME ChainInv, NEW p \in AllProducers
  PROVE  /\ HonestConfirms(p) \in Int
         /\ watermark[p] = 0 => HonestConfirms(p) = 0
         /\ watermark[p] # 0 => HonestConfirms(p) <= hs.block_num - watermark[p]
         /\ HonestConfirms(p) <= hs.block_num - hs.dpos_irreversible
<1>1. watermark[p] \in Nat /\ hs.block_num \in Nat /\ hs.dpos_irreversible \in Nat
      /\ hs.dpos_irreversible <= hs.block_num
  <2>1. watermark[p] \in Nat
    BY DEF ChainInv, WatermarkOK, Nums
  <2>2. CountsOK(hs) /\ IrreversibleOK(hs)
    BY DEF ChainInv, StateOK
  <2>3. hs.block_num \in Nat /\ hs.dpos_proposed \in Nat /\ hs.dpos_proposed <= hs.block_num
    BY <2>2 DEF CountsOK
  <2>4. hs.dpos_irreversible \in 0..hs.dpos_proposed
    BY <2>2 DEF IrreversibleOK
  <2> QED
    BY <2>1, <2>3, <2>4
<1>2. PICK a : a = IF watermark[p] = 0 THEN 0 ELSE hs.block_num - watermark[p]
  OBVIOUS
<1>3. PICK b : b = hs.block_num - hs.dpos_irreversible
  OBVIOUS
<1>4. a \in Int /\ b \in Int /\ b >= 0 /\ (watermark[p] = 0 => a = 0)
  BY <1>1, <1>2, <1>3
<1>5. HonestConfirms(p) = Min({a, b})
  BY <1>2, <1>3 DEF HonestConfirms
<1>6. Min({a, b}) \in Int /\ Min({a, b}) <= a /\ Min({a, b}) <= b
      /\ (Min({a, b}) = a \/ Min({a, b}) = b)
  BY <1>4, MinOfTwo
<1>7. watermark[p] = 0 => Min({a, b}) = 0
  BY <1>4, <1>6
<1> QED
  BY <1>2, <1>3, <1>5, <1>6, <1>7

\* The confirmation of a block is a new one, of a producer that had not confirmed it.
LEMMA ConfirmationIsNew ==
  ASSUME ChainInv, QuorumInv, building # <<>>, NEW n \in 1..MaxBlockNum,
         n <= hs.block_num + 1, hs.block_num + 1 <= n + building[1].confirmed
  PROVE  building[1].producer \notin confirmers[n]
<1>1. PICK p : p = building[1].producer
  OBVIOUS
<1>2. PICK c : c = building[1].confirmed
  OBVIOUS
<1>3. SUFFICES ASSUME p \in confirmers[n] PROVE FALSE
  BY <1>1
<1>4. n <= hs.block_num /\ (watermark[p] = 0 \/ n <= watermark[p])
  BY <1>3 DEF QuorumInv, ConfirmersOK
<1>5. p \in AllProducers
  BY <1>1, ProducerIs
<1>6. c \in Int /\ (watermark[p] = 0 => c = 0)
      /\ (watermark[p] # 0 => c <= hs.block_num - watermark[p])
  BY <1>1, <1>2, <1>5, HonestConfirmsIs DEF QuorumInv, ConfirmsOK
<1>7. hs.block_num \in Nat /\ watermark[p] \in Nat /\ n \in Nat
  BY <1>5, HeaderChainAssumption DEF ChainInv, StateOK, CountsOK, WatermarkOK, Nums
<1>8. hs.block_num + 1 <= n + c
  BY <1>2
<1> QED
  BY <1>4, <1>6, <1>7, <1>8

\* What a commit does to the history.
LEMMA CommitConfirms ==
  ASSUME ChainInv, QuorumInv, CommitBlock, NEW n \in 1..MaxBlockNum
  PROVE  /\ Cardinality(confirmers[n]) \in Nat
         /\ confirmers'[n] \in SUBSET AllProducers
         /\ Cardinality(confirmers'[n]) =
              IF n <= hs.block_num + 1 /\ hs.block_num + 1 <= n + building[1].confirmed
                THEN Cardinality(confirmers[n]) + 1 ELSE Cardinality(confirmers[n])
         /\ needed'[n] = IF n = hs.block_num + 1 THEN RequiredConfs(hs.active) ELSE needed[n]
<1>1. PICK p : p = building[1].producer
  OBVIOUS
<1>2. p \in AllProducers /\ building # <<>>
  BY <1>1, ProducerIs DEF CommitBlock
<1>3. confirmers[n] \in SUBSET AllProducers
  BY DEF QuorumInv, ConfirmersOK
<1>4. IsFiniteSet(confirmers[n])
  BY <1>3, FS_Subset, SchedulesAssumption
<1>5. Cardinality(confirmers[n]) \in Nat
  BY <1>4, FS_CardinalityType
<1>6. needed'[n] = IF n = hs.block_num + 1 THEN RequiredConfs(hs.active) ELSE needed[n]
  BY DEF CommitBlock, QuorumInv, HistoryTypeOK
<1>7. CASE n <= hs.block_num + 1 /\ hs.block_num + 1 <= n + building[1].confirmed
  <2>1. confirmers'[n] = confirmers[n] \cup {p}
    BY <1>1, <1>7 DEF CommitBlock
  <2>2. p \notin confirmers[n]
    BY <1>1, <1>2, <1>7, ConfirmationIsNew
  <2>3. Cardinality(confirmers'[n]) = Cardinality(confirmers[n]) + 1
    BY <1>4, <2>1, <2>2, FS_AddElement
  <2> QED
    BY <1>2, <1>3, <1>5, <1>6, <1>7, <2>1, <2>3
<1>8. CASE ~ (n <= hs.block_num + 1 /\ hs.block_num + 1 <= n + building[1].confirmed)
  <2>1. confirmers'[n] = confirmers[n]
    BY <1>8 DEF CommitBlock
  <2> QED
    BY <1>3, <1>5, <1>6, <1>8, <2>1
<1> QED
  BY <1>7, <1>8

\* Before the confirmations of the new block are counted down, every count covers
\* what its block still needs.
LEMMA GrownCovers ==
  ASSUME ChainInv, QuorumInv, CommitBlock, NEW j \in 1..Len(Grown(hs))
  PROVE  /\ hs.block_num + 1 - Len(Grown(hs)) + j \in 1..(hs.block_num + 1)
         /\ hs.block_num + 1 - Len(Grown(hs)) + j \in 1..MaxBlockNum
         /\ Grown(hs)[j] + Cardinality(confirmers[hs.block_num + 1 - Len(Grown(hs)) + j])
              >= needed'[hs.block_num + 1 - Len(Grown(hs)) + j]
<1>1. PICK L : L = Len(Grown(hs))
  OBVIOUS
<1>2. PICK k : k = Len(hs.confirm_count)
  OBVIOUS
<1>3. PICK bn : bn = hs.block_num
  OBVIOUS
<1>4. PICK n : n = bn + 1 - L + j
  OBVIOUS
<1>5. CountsOK(hs) /\ SchedulesOK(hs)
  BY DEF ChainInv, StateOK
<1>6. bn \in Nat /\ k \in Nat /\ k <= bn
  BY <1>2, <1>3, <1>5 DEF CountsOK
<1>7. /\ L \in 1..(k + 1) /\ Grown(hs)[L] = RequiredConfs(hs.active)
      /\ \A i \in 1..(L - 1) : /\ i + k + 1 - L \in 1..k
                               /\ Grown(hs)[i] = hs.confirm_count[i + k + 1 - L]
  BY <1>1, <1>2, <1>5, GrownIs
<1>8. bn < MaxBlockNum /\ MaxBlockNum \in Nat
  BY <1>3, HeaderChainAssumption DEF ChainInv, CommitBlock, BuildingOK, BlockOK
<1>9. n \in 1..(bn + 1) /\ n \in 1..MaxBlockNum
  BY <1>1, <1>4, <1>6, <1>7, <1>8
<1>10. Cardinality(confirmers[n]) \in Nat
       /\ needed'[n] = IF n = bn + 1 THEN RequiredConfs(hs.active) ELSE needed[n]
  BY <1>3, <1>9, CommitConfirms
<1>11. CASE j = L
  <2>1. n = bn + 1
    BY <1>4, <1>6, <1>7, <1>11
  <2>2. RequiredConfs(hs.active) \in Nat
    BY <1>5, RequiredIs
  <2>3. Grown(hs)[j] = RequiredConfs(hs.active)
    BY <1>7, <1>11
  <2>4. Grown(hs)[j] + Cardinality(confirmers[n]) >= needed'[n]
    BY <1>10, <2>1, <2>2, <2>3
  <2> QED
    BY <1>1, <1>3, <1>4, <1>9, <2>4
<1>12. CASE j # L
  <2>1. j \in 1..(L - 1)
    BY <1>1, <1>6, <1>7, <1>12
  <2>2. PICK i : i = j + k + 1 - L
    OBVIOUS
  <2>3. i \in 1..k /\ Grown(hs)[j] = hs.confirm_count[i]
    BY <1>7, <2>1, <2>2
  <2>4. bn - k + i = n /\ n # bn + 1
    BY <1>4, <1>6, <1>7, <2>1, <2>2
  <2>5. hs.confirm_count[i] + Cardinality(confirmers[bn - k + i]) >= needed[bn - k + i]
    BY <1>2, <1>3, <2>3 DEF QuorumInv, CountdownOK
  <2>6. Grown(hs)[j] + Cardinality(confirmers[n]) >= needed'[n]
    BY <1>10, <2>3, <2>4, <2>5
  <2> QED
    BY <1>1, <1>3, <1>4, <1>9, <2>6
<1> QED
  BY <1>11, <1>12

\* The counts and the history move together.
LEMMA CommitKeepsCountdown ==
  ASSUME ChainInv, QuorumInv, CommitBlock
  PROVE  CountdownOK' /\ ConfirmedByQuorum'
<1>1. PICK c : c = building[1].confirmed
  OBVIOUS
<1>2. PICK num : num = hs.block_num + 1
  OBVIOUS
<1>3. PICK L : L = Len(Grown(hs))
  OBVIOUS
<1>4. PICK m : m = Cut(hs, c)
  OBVIOUS
<1>5. PICK g : g = Grown(hs)
  OBVIOUS
<1>6. CountsOK(hs) /\ SchedulesOK(hs) /\ c \in Nat /\ num \in Nat
  BY <1>1, <1>2 DEF ChainInv, StateOK, CountsOK, BuildingOK, BlockOK, CommitBlock
<1>7. /\ hs'.block_num = num /\ hs'.confirm_count = NextConfirmCount(hs, c)
      /\ hs'.dpos_proposed = NextProposed(hs, c)
  BY <1>1, <1>2 DEF CommitBlock, next
<1>8. /\ L \in Nat /\ g \in [1..L -> 1..MaxConfs] /\ \A j \in 1..L : g[j] \in Nat
  <2>1. g \in Seq(1..MaxConfs) /\ L = Len(g)
    BY <1>3, <1>5, <1>6, GrownIs
  <2>2. L \in Nat /\ g \in [1..L -> 1..MaxConfs]
    BY <2>1, IsFunction
  <2>3. 1..MaxConfs \in SUBSET Nat
    <3>1. Cardinality(AllProducers) \in Nat
      BY FS_CardinalityType, SchedulesAssumption
    <3> QED
      BY <3>1 DEF MaxConfs
  <2> QED
    BY <2>2, <2>3
<1>9. m \in 0..L /\ (m # 0 => g[m] = 1 /\ m >= L - c)
  BY <1>3, <1>4, <1>5, <1>6, CutIs
<1>10. ASSUME NEW j \in 1..L
       PROVE  /\ num - L + j \in 1..num /\ num - L + j \in 1..MaxBlockNum
              /\ g[j] + Cardinality(confirmers[num - L + j]) >= needed'[num - L + j]
              /\ Cardinality(confirmers[num - L + j]) \in Nat
              /\ Cardinality(confirmers'[num - L + j]) =
                   IF j >= L - c THEN Cardinality(confirmers[num - L + j]) + 1
                                 ELSE Cardinality(confirmers[num - L + j])
              /\ needed'[num - L + j] \in Nat
  <2>1. PICK n : n = num - L + j
    OBVIOUS
  <2>2. n \in 1..num /\ n \in 1..MaxBlockNum /\ g[j] + Cardinality(confirmers[n]) >= needed'[n]
    <3>1. j \in 1..Len(Grown(hs))
      BY <1>3, <1>10
    <3>2. /\ hs.block_num + 1 - Len(Grown(hs)) + j \in 1..(hs.block_num + 1)
          /\ hs.block_num + 1 - Len(Grown(hs)) + j \in 1..MaxBlockNum
          /\ Grown(hs)[j] + Cardinality(confirmers[hs.block_num + 1 - Len(Grown(hs)) + j])
               >= needed'[hs.block_num + 1 - Len(Grown(hs)) + j]
      BY <3>1, GrownCovers
    <3>3. n = hs.block_num + 1 - Len(Grown(hs)) + j
      <4>1. hs.block_num \in Nat /\ j \in Nat
        BY <1>6, <1>8, <1>10 DEF CountsOK
      <4>2. L \in Nat
        BY <1>8
      <4>3. n = hs.block_num + 1 - L + j
        BY <1>2, <2>1, <4>1, <4>2
      <4> QED
        BY <1>3, <4>3
    <3> HIDE <2>1
    <3> QED
      BY <1>2, <1>5, <3>2, <3>3
  <2>3. /\ Cardinality(confirmers[n]) \in Nat
        /\ Cardinality(confirmers'[n]) = IF n <= num /\ num <= n + c
                                           THEN Cardinality(confirmers[n]) + 1
                                           ELSE Cardinality(confirmers[n])
        /\ needed'[n] = IF n = num THEN RequiredConfs(hs.active) ELSE needed[n]
    BY <1>1, <1>2, <2>2, CommitConfirms
  <2>4. (n <= num /\ num <= n + c) <=> j >= L - c
    BY <1>6, <1>8, <2>1, <2>2
  <2>5. needed'[n] \in Nat
    <3>1. RequiredConfs(hs.active) \in Nat
      BY <1>6, RequiredIs
    <3>2. needed[n] \in Nat
      BY <2>2 DEF QuorumInv, HistoryTypeOK
    <3> QED
      BY <2>3, <3>1, <3>2
  <2> QED
    BY <2>1, <2>2, <2>3, <2>4, <2>5
<1>11. CountdownOK'
  <2>1. Len(hs'.confirm_count) = L - m
    BY <1>3, <1>4, <1>6, <1>7, CountsAfter
  <2>2. ASSUME NEW i \in 1..(L - m)
        PROVE  hs'.confirm_count[i] + Cardinality(confirmers'[num - (L - m) + i])
                 >= needed'[num - (L - m) + i]
    <3>1. PICK j : j = m + i
      OBVIOUS
    <3>2. j \in 1..L /\ hs'.confirm_count[i] = IF j >= L - c THEN g[j] - 1 ELSE g[j]
      <4>1. i \in 1..(Len(Grown(hs)) - Cut(hs, c))
        BY <1>3, <1>4, <2>2
      <4>2. /\ Cut(hs, c) + i \in 1..Len(Grown(hs))
            /\ NextConfirmCount(hs, c)[i] =
                 IF Cut(hs, c) + i >= Len(Grown(hs)) - c
                   THEN Grown(hs)[Cut(hs, c) + i] - 1 ELSE Grown(hs)[Cut(hs, c) + i]
        BY <1>6, <4>1, CountsAfter
      <4> QED
        BY <1>3, <1>4, <1>5, <1>7, <3>1, <4>2
    <3>3. num - (L - m) + i = num - L + j
      BY <1>6, <1>8, <1>9, <2>2, <3>1
    <3>4. PICK n : n = num - L + j
      OBVIOUS
    <3>5. PICK k : k = Cardinality(confirmers[n])
      OBVIOUS
    <3>6. /\ g[j] + k >= needed'[n] /\ k \in Nat /\ needed'[n] \in Nat
          /\ Cardinality(confirmers'[n]) = IF j >= L - c THEN k + 1 ELSE k
      BY <1>10, <3>2, <3>4, <3>5
    <3>7. g[j] \in Nat
      BY <1>8, <3>2
    <3>8. hs'.confirm_count[i] + Cardinality(confirmers'[n]) >= needed'[n]
      <4>1. CASE j >= L - c
        BY <3>2, <3>6, <3>7, <4>1
      <4>2. CASE ~ (j >= L - c)
        BY <3>2, <3>6, <3>7, <4>2
      <4> QED
        BY <4>1, <4>2
    <3> QED
      BY <3>3, <3>4, <3>8
  <2> QED
    BY <1>7, <2>1, <2>2 DEF CountdownOK
<1>12. ConfirmedByQuorum'
  <2>1. CASE m = 0
    <3>1. PICK d : d = hs.dpos_proposed
      OBVIOUS
    <3>2. hs'.dpos_proposed = d /\ d \in Nat /\ d <= hs.block_num
          /\ hs.block_num < MaxBlockNum /\ hs.block_num \in Nat
      <4>1. NextProposed(hs, c) = IF Cut(hs, c) = 0 THEN hs.dpos_proposed
                                  ELSE hs.block_num + 1 - (Len(Grown(hs)) - Cut(hs, c))
        BY <1>6, ProposedAfter
      <4>2. hs'.dpos_proposed = d
        BY <1>4, <1>7, <2>1, <3>1, <4>1
      <4>3. d \in Nat /\ d <= hs.block_num /\ hs.block_num \in Nat
        BY <1>6, <3>1 DEF CountsOK
      <4>4. hs.block_num < MaxBlockNum
        BY DEF ChainInv, BuildingOK, BlockOK, CommitBlock
      <4> QED
        BY <4>2, <4>3, <4>4
    <3>3. CASE d = 0
      BY <3>2, <3>3 DEF ConfirmedByQuorum
    <3>4. CASE d # 0
      <4>1. d \in 1..MaxBlockNum /\ d # num
        BY <1>2, <3>2, <3>4, HeaderChainAssumption
      <4>2. Cardinality(confirmers[d]) >= needed[d]
        BY <3>1, <3>4 DEF QuorumInv, ConfirmedByQuorum
      <4>3. /\ Cardinality(confirmers[d]) \in Nat
            /\ \/ Cardinality(confirmers'[d]) = Cardinality(confirmers[d]) + 1
               \/ Cardinality(confirmers'[d]) = Cardinality(confirmers[d])
            /\ needed'[d] = needed[d]
        BY <1>2, <4>1, CommitConfirms
      <4>4. needed[d] \in Nat
        BY <4>1 DEF QuorumInv, HistoryTypeOK
      <4>5. Cardinality(confirmers'[d]) >= needed'[d]
        BY <4>2, <4>3, <4>4
      <4> QED
        BY <3>2, <4>5 DEF ConfirmedByQuorum
    <3> QED
      BY <3>3, <3>4
  <2>2. CASE m # 0
    <3>1. PICK n : n = num - L + m
      OBVIOUS
    <3>2. hs'.dpos_proposed = n
      <4>1. NextProposed(hs, c) = num - (L - m)
        <5>1. NextProposed(hs, c) = IF Cut(hs, c) = 0 THEN hs.dpos_proposed
                                    ELSE hs.block_num + 1 - (Len(Grown(hs)) - Cut(hs, c))
          BY <1>6, ProposedAfter
        <5>2. hs.block_num \in Nat /\ m \in Nat
          BY <1>6, <1>8, <1>9 DEF CountsOK
        <5> QED
          BY <1>2, <1>3, <1>4, <1>8, <2>2, <5>1, <5>2
      <4>2. num - (L - m) = num - L + m
        BY <1>6, <1>8, <1>9
      <4> QED
        BY <1>7, <3>1, <4>1, <4>2
    <3>3. m \in 1..L /\ g[m] = 1 /\ m >= L - c
      BY <1>8, <1>9, <2>2
    <3>4. /\ 1 + Cardinality(confirmers[n]) >= needed'[n]
          /\ Cardinality(confirmers[n]) \in Nat
          /\ Cardinality(confirmers'[n]) = Cardinality(confirmers[n]) + 1
      BY <1>10, <3>1, <3>3
    <3>5. Cardinality(confirmers'[n]) >= needed'[n]
      BY <3>4
    <3> QED
      BY <3>2, <3>5 DEF ConfirmedByQuorum
  <2> QED
    BY <2>1, <2>2
<1> QED
  BY <1>11, <1>12

\* commit_block records the producer as a confirmer of the blocks it confirms.
LEMMA CommitKeepsHistory ==
  ASSUME ChainInv, QuorumInv, CommitBlock
  PROVE  HistoryTypeOK' /\ ConfirmersOK'
<1>1. PICK p : p = building[1].producer
  OBVIOUS
<1>2. PICK num : num = hs.block_num + 1
  OBVIOUS
<1>3. /\ building # <<>> /\ hs'.block_num = num
      /\ watermark' = [watermark EXCEPT ![p] = Max({@, num})]
      /\ confirmers' = [n \in 1..MaxBlockNum |->
                          IF n <= num /\ num <= n + building[1].confirmed
                            THEN confirmers[n] \cup {p} ELSE confirmers[n]]
      /\ needed' = [needed EXCEPT ![num] = RequiredConfs(hs.active)]
  BY <1>1, <1>2 DEF CommitBlock, next
<1>4. p \in AllProducers
  BY <1>1, <1>3, ProducerIs
<1>5. watermark \in [AllProducers -> Nums] /\ \A q \in AllProducers : watermark[q] <= hs.block_num
  BY DEF ChainInv, WatermarkOK
<1>6. hs.block_num \in Nat /\ num \in Nat /\ hs.block_num < num /\ num # 0
  BY <1>2 DEF ChainInv, StateOK, CountsOK
<1>7. watermark'[p] = num
  <2>1. watermark[p] \in Int /\ watermark[p] <= num
    BY <1>4, <1>5, <1>6 DEF Nums
  <2>2. Max({watermark[p], num}) = num
    BY <1>6, <2>1, MaxOfTwo
  <2> QED
    BY <1>3, <1>4, <1>5, <2>2
<1>8. \A q \in AllProducers : q # p => watermark'[q] = watermark[q]
  BY <1>3, <1>5
<1>9. \A n \in 1..MaxBlockNum : confirmers'[n] \in SUBSET AllProducers
  BY CommitConfirms
<1>10. HistoryTypeOK'
  <2>1. confirmers' \in [1..MaxBlockNum -> SUBSET AllProducers]
    BY <1>3, <1>9
  <2>2. RequiredConfs(hs.active) \in Nat
    BY RequiredIs DEF ChainInv, StateOK
  <2>3. needed' \in [1..MaxBlockNum -> Nat]
    BY <1>3, <2>2 DEF QuorumInv, HistoryTypeOK
  <2> QED
    BY <2>1, <2>3 DEF HistoryTypeOK
<1>11. ASSUME NEW n \in 1..MaxBlockNum, NEW q \in confirmers'[n]
       PROVE  n <= num /\ (watermark'[q] = 0 \/ n <= watermark'[q])
  <2>1. CASE q \in confirmers[n]
    <3>1. n <= hs.block_num /\ (watermark[q] = 0 \/ n <= watermark[q])
      BY <2>1 DEF QuorumInv, ConfirmersOK
    <3>2. n <= num
      BY <1>6, <3>1, HeaderChainAssumption
    <3>3. q \in AllProducers
      BY <1>9, <1>11
    <3> QED
      BY <1>7, <1>8, <3>1, <3>2, <3>3
  <2>2. CASE q \notin confirmers[n]
    <3>1. q = p /\ n <= num
      BY <1>3, <1>11, <2>2
    <3> QED
      BY <1>7, <3>1
  <2> QED
    BY <2>1, <2>2
<1>12. ConfirmersOK'
  BY <1>3, <1>9, <1>11 DEF ConfirmersOK
<1> QED
  BY <1>10, <1>12

\* Every step keeps the counts in line with the confirmers.
LEMMA StepKeepsQuorum ==
  ASSUME Honest, ChainInv, QuorumInv, [Next]_hcVars
  PROVE  QuorumInv'
<1>1. CASE \E p \in ProducersOf(hs.active), c \in 0..MaxConfirm : StartBlock(p, c)
  <2>1. PICK p \in ProducersOf(hs.active), c \in 0..MaxConfirm : StartBlock(p, c)
    BY <1>1
  <2>2. UNCHANGED <<hs, watermark, confirmers, needed>>
    BY <2>1 DEF StartBlock
  <2>3. c = HonestConfirms(p) /\ building'[1].producer = p /\ building'[1].confirmed = c
    BY <2>1 DEF StartBlock
  <2>4. HonestConfirms(p)' = HonestConfirms(p)
    BY <2>2 DEF HonestConfirms
  <2>5. ConfirmsOK'
    BY <2>2, <2>3, <2>4 DEF ConfirmsOK, HonestConfirms
  <2> QED
    BY <2>2, <2>5 DEF QuorumInv, HistoryTypeOK, ConfirmersOK, CountdownOK, ConfirmedByQuorum
<1>2. CASE \E s \in Schedules : SetProposedProducers(s)
  <2>1. PICK s \in Schedules : SetProposedProducers(s)
    BY <1>2
  <2>2. UNCHANGED <<hs, watermark, confirmers, needed>> /\ building # <<>>
    BY <2>1 DEF SetProposedProducers
  <2>3. PICK x : building' = [building EXCEPT ![1].proposed = x]
    BY <2>1 DEF SetProposedProducers
  <2>4. PICK b : b = building[1]
    OBVIOUS
  <2>5. building = <<[producer |-> b.producer, confirmed |-> b.confirmed,
                      new |-> b.new, proposed |-> b.proposed]>>
    BY <2>2, <2>4 DEF ChainInv, BuildingOK
  <2>6. building'[1].producer = b.producer /\ building'[1].confirmed = b.confirmed
    BY <2>3, <2>5
  <2>7. ConfirmsOK'
    BY <2>2, <2>4, <2>6 DEF QuorumInv, ConfirmsOK, HonestConfirms
  <2> QED
    BY <2>2, <2>7 DEF QuorumInv, HistoryTypeOK, ConfirmersOK, CountdownOK, ConfirmedByQuorum
<1>3. CASE CommitBlock
  <2>1. ConfirmsOK'
    BY <1>3 DEF CommitBlock, ConfirmsOK
  <2> QED
    BY <1>3, <2>1, CommitKeepsHistory, CommitKeepsCountdown DEF QuorumInv
<1>4. CASE AbortBlock \/ UNCHANGED hcVars
  <2>1. UNCHANGED <<hs, watermark, confirmers, needed>>
        /\ (building' = <<>> \/ building' = building)
    BY <1>4 DEF AbortBlock, hcVars
  <2>2. ConfirmsOK'
    BY <2>1 DEF QuorumInv, ConfirmsOK, HonestConfirms
  <2> QED
    BY <2>1, <2>2 DEF QuorumInv, HistoryTypeOK, ConfirmersOK, CountdownOK, ConfirmedByQuorum
<1>5. CASE \E p \in AllProducers : RestartNode(p)
  <2>1. PICK p \in AllProducers : RestartNode(p)
    BY <1>5
  <2>2. UNCHANGED <<hs, building, confirmers, needed>> /\ building = <<>>
        /\ watermark' = [watermark EXCEPT ![p] = 0]
    BY <2>1 DEF RestartNode
  <2>3. \A q \in AllProducers : watermark'[q] = 0 \/ watermark'[q] = watermark[q]
    BY <2>2 DEF ChainInv, WatermarkOK
  <2>4. ConfirmersOK'
    BY <2>2, <2>3 DEF QuorumInv, ConfirmersOK
  <2>5. ConfirmsOK'
    BY <2>2 DEF ConfirmsOK
  <2> QED
    BY <2>2, <2>4, <2>5 DEF QuorumInv, HistoryTypeOK, CountdownOK, ConfirmedByQuorum
<1> QED
  BY <1>1, <1>2, <1>3, <1>4, <1>5 DEF Next

\* The block that next proposes as irreversible was confirmed by as many different
\* producers as its schedule asked for, when producers confirm as producer_plugin
\* does, across restarts that lose the watermark and changes of the schedule.
THEOREM ProposedWasConfirmed ==
  ASSUME Honest
  PROVE  Spec => []ConfirmedByQuorum
<1>1. Init => QuorumInv
  <2> SUFFICES ASSUME Init PROVE QuorumInv
    OBVIOUS
  <2>1. hs = GenesisState(Initial) /\ building = <<>>
        /\ confirmers = [n \in 1..MaxBlockNum |-> {}] /\ needed = [n \in 1..MaxBlockNum |-> 0]
    BY DEF Init
  <2>2. hs.confirm_count = <<>> /\ hs.dpos_proposed = 0
    BY <2>1 DEF GenesisState
  <2> QED
    BY <2>1, <2>2
       DEF QuorumInv, HistoryTypeOK, ConfirmersOK, CountdownOK, ConfirmsOK, ConfirmedByQuorum
<1>2. ChainInv /\ QuorumInv /\ [Next]_hcVars => QuorumInv'
  BY StepKeepsQuorum
<1>3. QuorumInv => ConfirmedByQuorum
  BY DEF QuorumInv
<1> QED
  BY <1>1, <1>2, <1>3, ChainHolds, PTL DEF Spec

-----------------------------------------------------------------------------
(***************************************************************************)
(* Honest producers.                                                       *)
(***************************************************************************)
\* A commit keeps ProducedOK when the irreversible block does not go back.
LEMMA CommitKeepsProduced ==
  ASSUME ChainInv, ProducedOK, CommitBlock, hs'.dpos_irreversible >= hs.dpos_irreversible
  PROVE  ProducedOK'
<1>1. PICK p : p = building[1].producer
  OBVIOUS
<1>2. PICK num : num = hs.block_num + 1
  OBVIOUS
<1>3. PICK irb : irb = calc_dpos_last_irreversible(hs, p)
  OBVIOUS
<1>4. DEFINE old == IF Promotes(hs, p) THEN Inherit(hs.produced, ProducersOf(hs.pending), irb)
                                       ELSE hs.produced
<1>5. /\ building # <<>> /\ hs'.block_num = num /\ hs'.dpos_irreversible = irb
      /\ hs'.produced = Put(old, p, num)
      /\ watermark' = [watermark EXCEPT ![p] = Max({@, num})]
  BY <1>1, <1>2, <1>3 DEF CommitBlock, next
<1>6. p \in AllProducers
  BY <1>1, <1>5, ProducerIs
<1>7. /\ CountsOK(hs) /\ IrreversibleOK(hs) /\ SchedulesOK(hs)
      /\ watermark \in [AllProducers -> Nums]
      /\ \A q \in AllProducers : watermark[q] <= hs.block_num
  BY DEF ChainInv, StateOK, WatermarkOK
<1>8. hs.block_num \in Nat /\ num \in Nat /\ hs.block_num < num /\ hs.dpos_irreversible \in Nat
      /\ irb \in Nat
  BY <1>2, <1>3, <1>7, CalcIs DEF CountsOK, IrreversibleOK
<1>9. watermark'[p] = num
  <2>1. watermark[p] \in Int /\ watermark[p] <= num
    BY <1>6, <1>7, <1>8 DEF Nums
  <2>2. Max({watermark[p], num}) = num
    BY <1>8, <2>1, MaxOfTwo
  <2> QED
    BY <1>5, <1>6, <1>7, <2>2
<1>10. ASSUME NEW q \in DOMAIN old, q # p
       PROVE  watermark'[q] = 0 \/ old[q] <= watermark'[q] \/ old[q] <= irb
  <2>1. q \in AllProducers
    <3>1. ProducersOf(hs.pending) \in SUBSET AllProducers
      BY <1>7, ScheduledAre DEF SchedulesOK
    <3> QED
      BY <1>7, <1>10, <3>1 DEF IrreversibleOK, Inherit
  <2>2. watermark'[q] = watermark[q]
    BY <1>5, <1>7, <1>10, <2>1
  <2>3. CASE q \in DOMAIN hs.produced /\ old[q] = hs.produced[q]
    <3>1. hs.produced[q] \in Nat
      BY <1>7, <1>8, <2>3 DEF IrreversibleOK
    <3>2. hs.produced[q] <= hs.dpos_irreversible => hs.produced[q] <= irb
      BY <1>5, <1>8, <3>1
    <3> QED
      BY <2>2, <2>3, <3>2 DEF ProducedOK
  <2>4. CASE old[q] = irb
    BY <1>8, <2>4
  <2> QED
    BY <1>10, <2>3, <2>4 DEF Inherit
<1> HIDE DEF old
<1>11. ASSUME NEW q \in DOMAIN hs'.produced
       PROVE  \/ watermark'[q] = 0 \/ hs'.produced[q] <= watermark'[q]
              \/ hs'.produced[q] <= irb
  <2>1. CASE q = p
    <3>1. hs'.produced[q] = num
      BY <1>5, <2>1 DEF Put
    <3> QED
      BY <1>8, <1>9, <2>1, <3>1
  <2>2. CASE q # p
    <3>1. q \in DOMAIN old /\ hs'.produced[q] = old[q]
      BY <1>5, <1>11, <2>2 DEF Put
    <3> QED
      BY <1>10, <2>2, <3>1
  <2> QED
    BY <2>1, <2>2
<1> QED
  BY <1>5, <1>11 DEF ProducedOK

\* Every step keeps what was produced behind the watermark or irreversible.
LEMMA StepKeepsProduced ==
  ASSUME ChainInv, ProducedOK, [Next]_hcVars,
         hs'.block_num # hs.block_num => hs'.dpos_irreversible >= hs.dpos_irreversible
  PROVE  ProducedOK'
<1>1. CASE CommitBlock
  <2>1. hs'.block_num = hs.block_num + 1 /\ hs.block_num \in Nat
    BY <1>1 DEF CommitBlock, next, ChainInv, StateOK, CountsOK
  <2> QED
    BY <1>1, <2>1, CommitKeepsProduced
<1>2. CASE \E p \in AllProducers : RestartNode(p)
  <2>1. PICK p \in AllProducers : hs' = hs /\ watermark' = [watermark EXCEPT ![p] = 0]
    BY <1>2 DEF RestartNode
  <2>2. \A q \in AllProducers : watermark'[q] = 0 \/ watermark'[q] = watermark[q]
    BY <2>1 DEF ChainInv, WatermarkOK
  <2>3. DOMAIN hs.produced \in SUBSET AllProducers
    BY DEF ChainInv, StateOK, IrreversibleOK
  <2> QED
    BY <2>1, <2>2, <2>3 DEF ProducedOK
<1>3. CASE UNCHANGED <<hs, watermark>>
  BY <1>3 DEF ProducedOK
<1> QED
  BY <1>1, <1>2, <1>3 DEF Next, StartBlock, SetProposedProducers, AbortBlock, hcVars

\* While the irreversible block of the branch never goes back, a producer that
\* confirms as producer_plugin does passes the assertion of next against
\* confirming a range twice.
THEOREM HonestProducerMayConfirm ==
  Spec /\ NextIsPreferred => []HonestIsNotRefused
<1>1. Init => ProducedOK
  <2>1. ASSUME Init PROVE DOMAIN hs.produced = {}
    BY <2>1 DEF Init, GenesisState
  <2> QED
    BY <2>1 DEF ProducedOK
<1>2. /\ ChainInv /\ ProducedOK /\ [Next]_hcVars
      /\ [hs'.block_num # hs.block_num => hs'.dpos_irreversible >= hs.dpos_irreversible]_hcVars
      => ProducedOK'
  <2>1. CASE UNCHANGED hcVars
    BY <2>1 DEF ProducedOK, hcVars
  <2> QED
    BY <2>1, StepKeepsProduced
<1>3. ASSUME ChainInv, ProducedOK PROVE HonestIsNotRefused
  <2>1. SUFFICES ASSUME NEW p \in ProducersOf(hs.active), p \in DOMAIN hs.produced
                 PROVE  hs.produced[p] < hs.block_num + 1 - HonestConfirms(p)
    BY DEF HonestIsNotRefused, MayConfirm
  <2>2. /\ p \in AllProducers /\ hs.block_num \in Nat /\ watermark[p] \in Nat
        /\ hs.dpos_irreversible \in Int
        /\ hs.produced[p] \in 0..hs.block_num
    <3>1. CountsOK(hs) /\ IrreversibleOK(hs) /\ WatermarkOK
      BY <1>3 DEF ChainInv, StateOK
    <3>2. p \in AllProducers /\ hs.produced[p] \in 0..hs.block_num
      BY <2>1, <3>1 DEF IrreversibleOK
    <3>3. hs.block_num \in Nat /\ watermark[p] \in Nat
      BY <3>1, <3>2 DEF CountsOK, WatermarkOK, Nums
    <3>4. hs.dpos_irreversible \in Int
      BY <3>1 DEF CountsOK, IrreversibleOK
    <3> QED
      BY <3>2, <3>3, <3>4
  <2>3. /\ HonestConfirms(p) \in Int
        /\ watermark[p] = 0 => HonestConfirms(p) = 0
        /\ watermark[p] # 0 => HonestConfirms(p) <= hs.block_num - watermark[p]
        /\ HonestConfirms(p) <= hs.block_num - hs.dpos_irreversible
    BY <1>3, <2>2, HonestConfirmsIs
  <2>4. watermark[p] = 0 \/ hs.produced[p] <= watermark[p] \/ hs.produced[p] <= hs.dpos_irreversible
    BY <1>3, <2>1 DEF ProducedOK
  <2> QED
    BY <2>2, <2>3, <2>4
<1> QED
  BY <1>1, <1>2, <1>3, ChainHolds, PTL DEF Spec, NextIsPreferred

-----------------------------------------------------------------------------
(***************************************************************************)
(* The irreversible block does not go back.                                *)
(***************************************************************************)
\* A schedule that is to become active does not put the place in the list at which
\* calc_dpos_last_irreversible looks to an earlier one, as one of the same length
\* does not.
NotShortened == hs.pending.producers # <<>> => PlaceIn(hs.active) <= PlaceIn(hs.pending)

SupportInv ==
  /\ SupportOK(hs)
  /\ hs.block_num # 1 => DOMAIN hs.implied = ProducersOf(hs.active)

\* A block is committed.
LEMMA CommitNotBack ==
  ASSUME ChainInv, SupportInv, NotShortened, CommitBlock
  PROVE  hs'.dpos_irreversible >= hs.dpos_irreversible /\ SupportInv'
<1>1. PICK b : b = building[1]
  OBVIOUS
<1>2. building # <<>> /\ hs' = next(hs, b.producer, b.confirmed, b.new)
  BY <1>1 DEF CommitBlock
<1>3. PICK p : p = b.producer
  OBVIOUS
<1>4. p \in ProducersOf(hs.active) /\ b.confirmed \in Nat
  BY <1>1, <1>2, <1>3 DEF ChainInv, BuildingOK, BlockOK
<1>5. PICK g : g = next(hs, p, b.confirmed, b.new)
  OBVIOUS
<1>6. hs' = g /\ StateOK(hs) /\ hs.block_num \in Nat \ {0} /\ g.block_num = hs.block_num + 1
  BY <1>2, <1>3, <1>5 DEF ChainInv, StateOK, CountsOK, next
<1>7. CASE hs.block_num = 1
  <2>1. hs = GenesisState(Initial)
    BY <1>7 DEF ChainInv, GenesisOK
  <2>2. DOMAIN hs.implied = {} /\ hs.dpos_irreversible = 0
    BY <2>1 DEF GenesisState
  <2>3. calc_dpos_last_irreversible(hs, p) = 0
    BY <2>2 DEF calc_dpos_last_irreversible
  <2>4. g.dpos_irreversible = 0
    BY <1>5, <2>3 DEF next
  <2>5. Promotes(hs, p)
    BY <2>1, FirstPromotes
  <2>6. DOMAIN g.implied = ProducersOf(g.active)
    BY <1>4, <1>5, <2>5, NextImplied
  <2> QED
    BY <1>6, <2>2, <2>4, <2>6 DEF SupportInv, SupportOK
<1>8. CASE hs.block_num # 1
  <2>1. SupportOK(hs) /\ DOMAIN hs.implied = ProducersOf(hs.active)
    BY <1>8 DEF SupportInv
  <2>2. DOMAIN g.implied = ProducersOf(g.active)
    BY <1>4, <1>5, <2>1, NextImplied
  <2>3. hs.dpos_irreversible <= g.dpos_irreversible /\ SupportOK(g)
    BY <1>4, <1>5, <1>6, <2>1, NextNotBack DEF NotShortened
  <2>4. hs.dpos_irreversible \in Int /\ g.dpos_irreversible \in Int
    <3>1. hs.dpos_irreversible \in Int
      BY <1>6 DEF StateOK, IrreversibleOK
    <3>2. calc_dpos_last_irreversible(hs, p) \in Int
      BY <1>6, CalcIs DEF StateOK
    <3> QED
      BY <1>5, <3>1, <3>2 DEF next
  <2> QED
    BY <1>6, <2>2, <2>3, <2>4 DEF SupportInv
<1> QED
  BY <1>7, <1>8

\* Every step.
LEMMA StepNotBack ==
  ASSUME ChainInv, SupportInv, NotShortened, [Next]_hcVars
  PROVE  /\ hs'.block_num # hs.block_num => hs'.dpos_irreversible >= hs.dpos_irreversible
         /\ SupportInv'
<1>1. CASE CommitBlock
  BY <1>1, CommitNotBack
<1>2. CASE hs' = hs
  BY <1>2 DEF SupportInv
<1> QED
  BY <1>1, <1>2 DEF Next, StartBlock, SetProposedProducers, AbortBlock, RestartNode, hcVars

\* Each block is preferred by the fork choice to the one it extends, as commit_block
\* asserts, as long as no schedule moves the place at which
\* calc_dpos_last_irreversible looks: however producers are exchanged, added or
\* offline, and whatever they confirm.
THEOREM BlocksArePreferred ==
  Spec /\ []NotShortened => NextIsPreferred
<1>1. Init => SupportInv
  BY DEF Init, GenesisState, SupportInv, SupportOK
<1>2. ChainInv /\ SupportInv /\ NotShortened /\ [Next]_hcVars => SupportInv'
  BY StepNotBack
<1>3. ChainInv /\ SupportInv /\ NotShortened /\ [Next]_hcVars
      => [hs'.block_num # hs.block_num => hs'.dpos_irreversible >= hs.dpos_irreversible]_hcVars
  BY StepNotBack
<1> QED
  BY <1>1, <1>2, <1>3, ChainHolds, PTL DEF Spec, NextIsPreferred

\* The place is the same for all schedules, as with schedules of one length.
OnePlace == \A s, t \in Schedules : (Len(s) - 1) \div 3 = (Len(t) - 1) \div 3

\* With schedules of one length, as a chain that always elects as many producers
\* has, each block is preferred to the one it extends, and next refuses no producer
\* that confirms as producer_plugin does, across restarts and changes of schedule.
THEOREM OnePlaceSuffices ==
  ASSUME OnePlace
  PROVE  Spec => NextIsPreferred /\ []HonestIsNotRefused
<1>1. ChainInv => NotShortened
  <2>1. SUFFICES ASSUME ChainInv, hs.pending.producers # <<>>
                 PROVE  PlaceIn(hs.active) <= PlaceIn(hs.pending)
    BY DEF NotShortened
  <2>2. hs.active.producers \in Schedules /\ hs.pending.producers \in Schedules
    BY <2>1 DEF ChainInv, StateOK, SchedulesOK
  <2>3. PICK n \in Nat : n = Len(hs.active.producers)
    BY <2>2, ScheduleSize
  <2>4. (n - 1) \div 3 <= (n - 1) \div 3
    OBVIOUS
  <2>5. PlaceIn(hs.active) = (n - 1) \div 3 /\ PlaceIn(hs.pending) = (n - 1) \div 3
    BY <2>2, <2>3 DEF OnePlace, PlaceIn
  <2> QED
    BY <2>4, <2>5
<1> QED
  BY <1>1, ChainHolds, BlocksArePreferred, HonestProducerMayConfirm, PTL

=============================================================================

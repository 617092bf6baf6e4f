---------------------------- MODULE HeaderChain ----------------------------
(***************************************************************************)
(* One branch as it grows block by block: the header state of its last     *)
(* block (module BlockHeaderState), the schedule proposed by the system    *)
(* contract and kept in global_property_object, and the block being built. *)
(* A block is started, may propose a schedule, and is committed or         *)
(* aborted; aborting undoes what it wrote.                                 *)
(*                                                                         *)
(* Each producer has a node of its own, which keeps the watermark of its   *)
(* producer in memory.  `confirmers` and `needed` are history: who         *)
(* confirmed each block, and how many confirmations it was to have.        *)
(***************************************************************************)
EXTENDS BlockHeaderState

CONSTANTS
  Initial,     \* the producers of the genesis block
  MaxBlockNum, \* bound: the last block of the branch
  MaxConfirm,  \* bound: the largest value of the header field `confirmed`
  Online,      \* the producers that produce when it is their turn
  Honest,      \* whether producers confirm as producer_plugin does
  Restarts     \* whether a producer's node may restart and lose its watermark

ASSUME HeaderChainAssumption ==
  /\ Initial \in Schedules
  /\ Initial # <<>>
  /\ MaxBlockNum \in Nat \ {0}
  /\ MaxConfirm \in Nat
  /\ Honest \in BOOLEAN
  /\ Restarts \in BOOLEAN

VARIABLES
  hs,         \* the block_header_state of the last block
  proposed,   \* gpo.proposed_schedule_block_num (0: none) and proposed_schedule
  building,   \* the block being built, <<>> or one record
  watermark,  \* producer_plugin's _producer_watermarks, 0 where there is none
  confirmers, \* history: the producers that confirmed a block
  needed      \* history: the confirmations a block needs

hcVars == <<hs, proposed, building, watermark, confirmers, needed>>

NoProposal == [num |-> 0, version |-> 0, producers |-> <<>>]

-----------------------------------------------------------------------------
\* Mutant of HonestConfirms: irreversible blocks are confirmed too.
ConfirmsIrreversibleMutant(p) ==
  IF watermark[p] = 0 THEN 0 ELSE hs.block_num - watermark[p]

\* producer_plugin's start_block: nothing without a watermark (as after a
\* restart), else all since the last block it produced, but no irreversible one.
HonestConfirms(p) ==
  Min({IF watermark[p] = 0 THEN 0 ELSE hs.block_num - watermark[p],
       hs.block_num - hs.dpos_irreversible})

\* Mutant of StartBlock: a schedule that is still pending is not waited for.
StartBlockOverPendingMutant(p, c) ==
  LET promote == /\ proposed.num # 0
                 /\ proposed.num <= calc_dpos_last_irreversible(hs, p)
  IN  /\ building = <<>>
      /\ hs.block_num < MaxBlockNum
      /\ p \in ProducersOf(hs.active) \cap Online
      /\ Honest => c = HonestConfirms(p)
      /\ MayConfirm(hs, p, c)
      /\ building' = << [producer |-> p, confirmed |-> c,
                         new |-> IF promote THEN <<ScheduleOf(proposed)>> ELSE <<>>,
                         proposed |-> IF promote THEN NoProposal ELSE proposed] >>
      /\ UNCHANGED <<hs, proposed, watermark, confirmers, needed>>

\* start_block: the proposed schedule becomes pending once the block that
\* proposed it is irreversible and no other schedule is pending.
StartBlock(p, c) ==
  LET promote == /\ proposed.num # 0
                 /\ proposed.num <= calc_dpos_last_irreversible(hs, p)
                 /\ hs.pending.producers = <<>>
  IN  /\ building = <<>>
      /\ hs.block_num < MaxBlockNum
      /\ p \in ProducersOf(hs.active) \cap Online
      /\ Honest => c = HonestConfirms(p)
      /\ MayConfirm(hs, p, c)
      /\ building' = << [producer |-> p, confirmed |-> c,
                         new |-> IF promote THEN <<ScheduleOf(proposed)>> ELSE <<>>,
                         proposed |-> IF promote THEN NoProposal ELSE proposed] >>
      /\ UNCHANGED <<hs, proposed, watermark, confirmers, needed>>

\* pending_producers, of the block being built.
PendingProducers == IF building[1].new # <<>> THEN building[1].new[1]
                                              ELSE ScheduleOf(hs.pending)
\* active_producers, of the block being built.
ActiveProducers == IF Promotes(hs, building[1].producer)
                     THEN ScheduleOf(hs.pending) ELSE hs.active

\* Mutant of SetProposedProducers: the proposal of an earlier block is replaced.
SetProposedOverEarlierMutant(producers) ==
  LET base == IF PendingProducers.producers = <<>> THEN ActiveProducers
                                                   ELSE PendingProducers
  IN  /\ building # <<>>
      /\ building[1].proposed.num # 0 => building[1].proposed.producers # producers
      /\ producers # base.producers
      /\ building' = [building EXCEPT ![1].proposed =
                        [num |-> hs.block_num + 1, version |-> base.version + 1,
                         producers |-> producers]]
      /\ UNCHANGED <<hs, proposed, watermark, confirmers, needed>>

\* set_proposed_producers, where it does not return -1.
SetProposedProducers(producers) ==
  LET base == IF PendingProducers.producers = <<>> THEN ActiveProducers
                                                   ELSE PendingProducers
  IN  /\ building # <<>>
      /\ building[1].proposed.num # 0 =>
           /\ building[1].proposed.num = hs.block_num + 1
           /\ building[1].proposed.producers # producers
      /\ producers # base.producers
      /\ building' = [building EXCEPT ![1].proposed =
                        [num |-> hs.block_num + 1, version |-> base.version + 1,
                         producers |-> producers]]
      /\ UNCHANGED <<hs, proposed, watermark, confirmers, needed>>

\* finalize_block and commit_block.
CommitBlock ==
  LET b == building[1]
      num == hs.block_num + 1
  IN  /\ building # <<>>
      /\ hs' = next(hs, b.producer, b.confirmed, b.new)
      /\ proposed' = b.proposed
      /\ building' = <<>>
      /\ watermark' = [watermark EXCEPT ![b.producer] = Max({@, num})]
      /\ confirmers' = [n \in 1..MaxBlockNum |->
                          IF n <= num /\ num <= n + b.confirmed
                            THEN confirmers[n] \cup {b.producer} ELSE confirmers[n]]
      /\ needed' = [needed EXCEPT ![num] = RequiredConfs(hs.active)]

AbortBlock ==
  /\ building # <<>>
  /\ building' = <<>>
  /\ UNCHANGED <<hs, proposed, watermark, confirmers, needed>>

\* The node of a producer restarts: its watermark is not durable.
RestartNode(p) ==
  /\ Restarts
  /\ building = <<>>
  /\ watermark[p] # 0
  /\ watermark' = [watermark EXCEPT ![p] = 0]
  /\ UNCHANGED <<hs, proposed, building, confirmers, needed>>

Init ==
  /\ hs = GenesisState(Initial)
  /\ proposed = NoProposal
  /\ building = <<>>
  /\ watermark = [p \in AllProducers |-> 0]
  /\ confirmers = [n \in 1..MaxBlockNum |-> {}]
  /\ needed = [n \in 1..MaxBlockNum |-> 0]

Next ==
  \/ \E p \in ProducersOf(hs.active), c \in 0..MaxConfirm : StartBlock(p, c)
  \/ \E s \in Schedules : SetProposedProducers(s)
  \/ CommitBlock
  \/ AbortBlock
  \/ \E p \in AllProducers : RestartNode(p)

Spec == Init /\ [][Next]_hcVars

-----------------------------------------------------------------------------
Nums == 0..MaxBlockNum

TypeOK ==
  /\ hs.block_num \in 1..MaxBlockNum
  /\ hs.active.producers \in Schedules
  /\ hs.pending.producers \in Schedules \cup {<<>>}
  /\ \A p \in DOMAIN hs.produced : p \in AllProducers /\ hs.produced[p] \in Nums
  /\ \A p \in DOMAIN hs.implied : p \in AllProducers /\ hs.implied[p] \in Nums
  /\ hs.confirm_count \in Seq(1..(Cardinality(AllProducers) + 1))
  /\ proposed.num \in Nums
  /\ Len(building) <= 1
  /\ watermark \in [AllProducers -> Nums]

(***************************************************************************)
(* The block proposed as irreversible was confirmed by as many different   *)
(* producers as the code counts down for it (confirm_count): no producer   *)
(* is counted twice, across changes of the schedule and with the oldest    *)
(* counts dropped at MaxTracked.                                           *)
(***************************************************************************)
ConfirmedByQuorum ==
  hs.dpos_proposed # 0 =>
    Cardinality(confirmers[hs.dpos_proposed]) >= needed[hs.dpos_proposed]

(***************************************************************************)
(* The irreversible block is behind the proposed one, which is behind the  *)
(* last block; and no producer implies more than what is proposed.         *)
(***************************************************************************)
IrreversibleBehindProposed ==
  /\ hs.dpos_irreversible <= hs.dpos_proposed
  /\ hs.dpos_proposed <= hs.block_num
  /\ \A p \in DOMAIN hs.implied : hs.implied[p] <= hs.dpos_proposed

(***************************************************************************)
(* A schedule that start_block puts into a header passes the assertions    *)
(* that start_block and _finish_next make about it ("wrong producer        *)
(* schedule version specified", "cannot set new pending producers until    *)
(* last pending is confirmed"): the version given to it when it was        *)
(* proposed, several blocks earlier, is still the next one.                *)
(***************************************************************************)
CarriedScheduleAccepted ==
  building # <<>> => MayCarry(hs, building[1].producer, building[1].new)

(***************************************************************************)
(* Once the block that proposed it is committed, a schedule is replaced or *)
(* cleared only by being made pending, as it was proposed and not before   *)
(* that block is irreversible: no later call of set_proposed_producers     *)
(* takes its place ("wait for it to become pending"), and an aborted block *)
(* does not drop it.                                                       *)
(***************************************************************************)
ProposalStands ==
  [][proposed.num # 0 /\ proposed' # proposed =>
       /\ proposed.num <= hs'.dpos_irreversible
       /\ hs'.pending.producers = proposed.producers
       /\ hs'.pending.version = proposed.version]_hcVars

(***************************************************************************)
(* A producer that confirms as producer_plugin does is never refused by    *)
(* the assertion "double-confirming known range" of next, in which the     *)
(* last block it produced is the one its branch remembers, not the         *)
(* watermark: not after it left the schedule and came back, nor when its   *)
(* node has restarted.                                                     *)
(***************************************************************************)
HonestIsNotRefused ==
  \A p \in ProducersOf(hs.active) : MayConfirm(hs, p, HonestConfirms(p))

(***************************************************************************)
(* Each block is preferred by the fork choice to the one it extends: a     *)
(* higher irreversible block, or the same one and a higher number.         *)
(* commit_block asserts what follows from it, "committed block did not     *)
(* become the new head in fork database".                                  *)
(***************************************************************************)
NextIsPreferred ==
  [][hs'.block_num # hs.block_num
       => hs'.dpos_irreversible >= hs.dpos_irreversible]_hcVars
=============================================================================

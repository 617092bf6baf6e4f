-------------------------- MODULE BlockHeaderState --------------------------
(***************************************************************************)
(* block_header_state and pending_block_header_state: what a block header  *)
(* does to the DPoS bookkeeping of its branch.  A header state is a record *)
(*   block_num                                                             *)
(*   dpos_proposed      dpos_proposed_irreversible_blocknum                *)
(*   dpos_irreversible  dpos_irreversible_blocknum                         *)
(*   active             active_schedule: version and producers             *)
(*   produced           producer_to_last_produced                          *)
(*   implied            producer_to_last_implied_irb                       *)
(*   confirm_count      confirmations still needed, oldest block first     *)
(*   pending            pending_schedule: lib_num, version and producers   *)
(* Time is left out: a later slot exists for every producer of the active  *)
(* schedule, so get_scheduled_producer may be any of them.  Merkle roots,  *)
(* signing keys and protocol features are left out too.                    *)
(***************************************************************************)
EXTENDS Integers, Sequences, FiniteSets, FiniteSetsExt

CONSTANTS
  MaxTracked,  \* config::maximum_tracked_dpos_confirmations
  Schedules    \* lists of producers that may be proposed, or are there at genesis

ASSUME MaxTrackedAssumption == MaxTracked \in Nat \ {0}

AllProducers == UNION {{s[i] : i \in 1..Len(s)} : s \in Schedules}

\* The intrinsic set_proposed_producers refuses a list that names a producer twice
\* ("duplicate producer name in producer schedule").
ASSUME SchedulesAssumption ==
  /\ IsFiniteSet(AllProducers)
  /\ \A s \in Schedules : /\ s \in Seq(AllProducers)
                          /\ \A i, j \in 1..Len(s) : s[i] = s[j] => i = j

ScheduleOf(x) == [version |-> x.version, producers |-> x.producers]
ProducersOf(schedule) == {schedule.producers[i] : i \in 1..Len(schedule.producers)}

\* Mutant of RequiredConfs: a third of them.
RequiredThirdMutant(schedule) == Len(schedule.producers) \div 3
\* Confirmations a block needs: more than two thirds of the active producers.
RequiredConfs(schedule) == (Len(schedule.producers) * 2) \div 3 + 1

\* The element that std::nth_element puts at place i (from 0) of the values of m.
NthValue(m, i) ==
  LET Below(v) == Cardinality({p \in DOMAIN m : m[p] < v})
      UpTo(v) == Cardinality({p \in DOMAIN m : m[p] <= v})
  IN  CHOOSE v \in {m[p] : p \in DOMAIN m} : Below(v) <= i /\ i < UpTo(v)

\* "2/3 must be greater": the value one third into the sorted list.
calc_dpos_last_irreversible(h, p) ==
  LET blocknums == [q \in DOMAIN h.implied |->
                      IF q = p THEN h.dpos_proposed ELSE h.implied[q]]
  IN  IF DOMAIN blocknums = {} THEN 0
      ELSE NthValue(blocknums, (Cardinality(DOMAIN blocknums) - 1) \div 3)

\* The assertion "double-confirming known range" of next.  The difference is
\* unsigned: it wraps to a huge number when c exceeds the block's number.
MayConfirm(h, p, c) ==
  p \in DOMAIN h.produced =>
    \/ c > h.block_num + 1
    \/ h.produced[p] < h.block_num + 1 - c

\* The counts once the new block is appended and c + 1 blocks are confirmed:
\* they are counted down from the newest until one reaches zero, and that one
\* goes with all before it.
Grown(h) ==
  Append(IF Len(h.confirm_count) < MaxTracked THEN h.confirm_count
                                              ELSE Tail(h.confirm_count),
         RequiredConfs(h.active))
\* Mutant of Confirmed: one block too many is counted down.
ConfirmedOneMoreMutant(h, c) ==
  {i \in 1..Len(Grown(h)) : i >= Len(Grown(h)) - c - 1}
Confirmed(h, c) == {i \in 1..Len(Grown(h)) : i >= Len(Grown(h)) - c}
Reached(h, c) == {i \in Confirmed(h, c) : Grown(h)[i] = 1}

\* Mutant of NextConfirmCount: the block that reached zero stays in the list.
KeepsReachedMutant(h, c) ==
  LET counts == Grown(h)
  IN  [i \in 1..Len(counts) |->
         IF i \in Confirmed(h, c) THEN counts[i] - 1 ELSE counts[i]]
NextConfirmCount(h, c) ==
  LET counts == Grown(h)
  IN  IF Reached(h, c) = {}
        THEN [i \in 1..Len(counts) |->
                IF i \in Confirmed(h, c) THEN counts[i] - 1 ELSE counts[i]]
        ELSE [i \in 1..(Len(counts) - Max(Reached(h, c))) |->
                counts[Max(Reached(h, c)) + i] - 1]

\* Mutant of NextProposed: it starts from zero and not from the parent's number.
NextProposedResetMutant(h, c) ==
  IF Reached(h, c) = {} THEN 0
  ELSE h.block_num + 1 - (Len(Grown(h)) - Max(Reached(h, c)))
NextProposed(h, c) ==
  IF Reached(h, c) = {} THEN h.dpos_proposed
  ELSE h.block_num + 1 - (Len(Grown(h)) - Max(Reached(h, c)))

\* Whether a block of p makes the pending schedule the active one.
Promotes(h, p) ==
  /\ h.pending.producers # <<>>
  /\ calc_dpos_last_irreversible(h, p) >= h.pending.lib_num

\* The entries of a map that stay with the producers qs; a new one starts at v.
\* Mutant of Inherit: a new producer starts at zero.
InheritZeroMutant(old, qs, v) == [q \in qs |-> IF q \in DOMAIN old THEN old[q] ELSE 0]
Inherit(old, qs, v) == [q \in qs |-> IF q \in DOMAIN old THEN old[q] ELSE v]
Put(m, p, v) == [q \in DOMAIN m \cup {p} |-> IF q = p THEN v ELSE m[q]]

\* next( when, c ) and finish_next: the state after p's block, which carries the
\* schedule `new` in its header if new is one.
next(h, p, c, new) ==
  LET num == h.block_num + 1
      irb == calc_dpos_last_irreversible(h, p)
      promoted == Promotes(h, p)
      stay == ProducersOf(h.pending)
      produced == IF promoted THEN Inherit(h.produced, stay, irb) ELSE h.produced
      implied == IF promoted THEN Inherit(h.implied, stay, irb) ELSE h.implied
  IN  [block_num |-> num,
       dpos_proposed |-> NextProposed(h, c),
       dpos_irreversible |-> irb,
       active |-> IF promoted
                    THEN [version |-> h.pending.version,
                          producers |-> h.pending.producers]
                    ELSE h.active,
       produced |-> Put(produced, p, num),
       implied |-> IF promoted /\ p \notin stay THEN implied
                                                ELSE Put(implied, p, h.dpos_proposed),
       confirm_count |-> NextConfirmCount(h, c),
       pending |-> CASE new # <<>> ->
                          [lib_num |-> num, version |-> new[1].version,
                           producers |-> new[1].producers]
                     [] new = <<>> /\ promoted -> [h.pending EXCEPT !.producers = <<>>]
                     [] OTHER -> h.pending]

\* The assertions of _finish_next about a schedule carried in the header.
MayCarry(h, p, new) ==
  new # <<>> => /\ ~ Promotes(h, p)
                /\ new[1].version = h.active.version + 1
                /\ h.pending.producers = <<>>

\* initialize_blockchain_state: the initial schedule is active, and pending.
GenesisState(producers) ==
  [block_num |-> 1, dpos_proposed |-> 0, dpos_irreversible |-> 0,
   active |-> [version |-> 0, producers |-> producers],
   produced |-> <<>>, implied |-> <<>>, confirm_count |-> <<>>,
   pending |-> [lib_num |-> 0, version |-> 0, producers |-> producers]]
=============================================================================

# Verification of the DreamChain node

DreamChain is a fork of EOSIO: `DreamChainCore` is the node (the `nodeos`
program, its chain library and its plugins), `NFT-Contracts` a token contract
that runs on it, `dreamium-sharp` and `wallet` are clients.  This directory
holds TLA+ models of the parts on which everything else rests: what a node does
with blocks, how it gets them from its peers, how producers agree, how a node
runs transactions with their permissions, RAM and deferred successors; and of
the token contract.  TLC checks the models on small instances, TLAPS proves theorems
about them for every instance.

All paths below are relative to `src/DreamChainCore/` unless they say otherwise.

## 1. The system and its parts

| Part | State it keeps | Operations |
|---|---|---|
| `libraries/chain/fork_database.cpp` | an index of reversible blocks, each with a `validated` flag, the root (last irreversible block), the head (best valid block) | add, mark_valid, remove, advance_root, rollback_head_to_root, reset, pending_head, fetch_branch, fetch_branch_from, open, close |
| `libraries/chain/controller.cpp` | the head block, the chain state (chainbase with undo sessions), the reversible blocks database, the block log, the pending block, `unapplied_transactions`, the read mode | start_block, push_transaction, finalize_block, commit_block, abort_block, push_block, apply_block, pop_block, maybe_switch_forks, log_irreversible, init, replay |
| `libraries/chain/block_header_state.cpp` | per block: the proposed and the irreversible block number, who produced last and what they imply to be irreversible, confirmation counts, active and pending schedule | next, finish_next, calc_dpos_last_irreversible |
| `libraries/chain/block_log.cpp` | the file of irreversible blocks and its index | append, reset, read, repair_log |
| `plugins/producer_plugin` | the pending block mode, watermarks, queues of transactions | on_incoming_block, on_incoming_transaction, start_block, schedule_production_loop, produce_block |
| `plugins/net_plugin` | connections, sync state, what each peer is known to have | sync_manager, dispatch_manager, message handlers |
| `plugins/chain_plugin` | options, the controller | start-up, recovery of files, read API |
| `libraries/chain/authorization_manager.cpp`, `eosio_contract.cpp` | permissions in trees under `owner`, links from actions to permissions | newaccount, updateauth, deleteauth, linkauth, unlinkauth, canceldelay, check_authorization |
| `libraries/chain/resource_limits.cpp` | RAM used and RAM limits by account, limits set in this block, their total; averages of CPU and net | add_pending_ram_usage, verify_account_ram_usage, set_account_limits, process_account_limit_updates |
| `libraries/chain/transaction_context.cpp`, `apply_context.cpp` | `generated_transaction_object`, RAM corrections, the accounts whose RAM is to be verified | schedule_transaction, schedule_deferred_transaction, cancel_deferred_transaction, finalize |
| `libraries/chain/protocol_feature_manager.cpp` | the activated features | activation, at the start of a block |
| `plugins/wallet_plugin` | open wallets, a lock timeout | create, open, lock, unlock, sign |
| `src/NFT-Contracts/src/dreamoji.cpp` | tables of token types, tokens, balances, locks, links, listings, licence sales and licences | create, issue, freezemaxsup, burn, transfer, link, list, purchase, license, extend, revoke |

How they interact.  `net_plugin` hands a received block to
`producer_plugin::on_incoming_block`, which aborts the pending block and calls
`controller::push_block`.  That adds the block to the fork database and asks it
for `pending_head`; `maybe_switch_forks` pops blocks of the old branch and
applies those of the new one, each with an undo session of chainbase and an
entry in the reversible blocks database; `log_irreversible` then moves what has
become irreversible into the block log, commits the undo sessions and advances
the root of the fork database.  The producer's own blocks take the shorter way
`start_block`, `push_transaction`, `finalize_block`, `commit_block`.  One thread
does all of this.  Nothing makes the four stores (chain state, reversible
blocks, block log, `fork_db.dat`) atomic with each other: after a crash, and
after an orderly stop too, `init` has to reconcile them.  The contract runs
inside a transaction; a failed check undoes the whole transaction.  A contract, or
an input transaction with a delay, leaves a generated transaction in chainbase;
in every block it produces, `producer_plugin` walks through those that are due
(`process_scheduled_and_incoming_trxs`) and has `push_scheduled_transaction`
retire them.  `net_plugin` runs its handlers on the same thread; a node that is
behind asks one connection at a time for a range of blocks, and a timer of the
connection gives the range to another one.  The contract's payments
are inline transfers of the contract `eosio.token`, which calls it back as
`purchase`.

What is hard here: a fork switch that fails half-way; a crash between two of the
stores; the change of the read mode across a restart; two branches that tie in
the fork choice; counting confirmations while the set of producers changes, and
across branches that grow at the same time; a time-out that races a late block, a
connection lost in the middle of a range, a peer that neither answers nor
closes; a generated transaction that fails, is blacklisted, replaced, cancelled
or sent again by its error handler while its loop is under way; RAM that is
charged and given back by a dozen operations, with a correction that waits for a
protocol feature; in the contract, long sequences of legal calls over tables that refer to each other.
`PROJECT.json` lists these hazards with their lines and the properties that
would catch them.

What makes each part correct:

- fork database: no orphans; its head is a valid block that nothing valid is
  preferred to.
- controller: chain state, head, reversible blocks, block log and fork database
  agree whenever no handler runs; at *every* step the files on disk can be
  started from; an irreversible block is never undone; no internal assertion
  fails; every handler ends; transactions waiting to be applied are not on the
  branch already.
- header state: the block proposed as irreversible was confirmed by the quorum
  that the code counts; the irreversible number is behind the proposed one and
  never goes back; a schedule carried by a header passes the assertions made
  about it; a producer that follows the rules is not refused.
- producers together: no producer confirms one number with two blocks; of the
  blocks of one number at most one is ever named as the proposed or as the last
  irreversible block.  That what any two nodes hold to be irreversible lies on one
  branch is more than that, and does not hold (finding `dpos_split`).
- synchronisation: the range that is asked for follows what the node has; it
  leaves `lib_catchup`; it comes to the best branch of its peers.
- transactions: the RAM kept for an account is what it has in the database, and
  never grows past its limit; every permission has a parent and every link a
  permission; a generated transaction is retired once, and in the end.
- token contract: balances add up to the supply and supplies stay in bounds; ids
  are unique, and so should serial numbers be (see 5); fees add up to the price; locked tokens keep
  their owner and listed ones belong to the seller.

## 2. Modules

| Module | Models | Uses |
|---|---|---|
| `BlockTree` | the blocks a node may meet as one fixed tree; the fork choice | |
| `ForkDatabase` | `fork_database`, one action per operation | `BlockTree` |
| `Ledger` | abstract: what a node promises about finality | `BlockTree` |
| `Controller` | `controller_impl`; the actions of `ForkDatabase` are conjoined into its own | `ForkDatabase`, `Ledger` |
| `BlockHeaderState` | `block_header_state::next`, `finish_next` as operators | |
| `HeaderChain` | one growing branch: header state, proposed schedule, block being built | `BlockHeaderState` |
| `DposNetwork` | several producers, their nodes and the tree of all blocks they sign | `BlockHeaderState` |
| `NetSync` | `sync_manager` and the connections of `net_plugin`: a node that is behind and the peers that serve it | `BlockTree` |
| `Authorization` | permissions, links, RAM: the native actions as operators on a database | |
| `Deferred` | input, delayed and deferred transactions on a producing node, block after block | `Authorization` |
| `Dreamoji` | the contract `dreamoji`, one action per contract action | |
| `MCController`, `MCHeaderChain`, `MCDposNetwork`, `MCNetSync`, `MCDeferred`, `MCDreamoji` | the instances for TLC | |
| `ControllerProofs`, `BlockHeaderStateProofs`, `HeaderChainProofs`, `DposNetworkProofs`, `NetSyncProofs`, `DeferredProofs`, `DreamojiProofs` | theorems about the module of that name and the lemmas they rest on; `ControllerProofs` has those about `ForkDatabase` too, `DeferredProofs` those about `Authorization` | that module |
| `SumTheorems` | lemmas about finite sums | |

### Correspondence

`ForkDatabase`.  `index`, `root` and `fhead` are the members of
`fork_database_impl`; `validated` is the set of blocks whose flag is set.  An
`EOS_ASSERT` is a guard.  The order of the index `by_lib_block_num` is
`Precedes`: fork choice, then the smaller id.  `Add` takes the first valid block
in that order for the head, `MarkValid` only moves to a strictly preferred one,
as the code does; the difference matters (finding `controller_start`).

`Controller`.  `dbAt` is the block whose state chainbase holds and `dbBase` the
last committed revision (`db.undo` is without effect at it); `rev` is
`reversible_blocks`, `blog` the block log; `metas` says which `block_state`
objects carry transaction metadata, which is what `pop_block` copies.  `job` is
the running handler: its place, the two locals of `maybe_switch_forks` or
`log_irreversible`, and where it returns to.  A handler is cut into the steps
between writes that survive the process, and `Crash` may happen at every one.
`Restart` is the start after a crash: chainbase marks its file dirty
and `fork_database::open` removes `fork_db.dat`, so the chain state is rebuilt
from the block log (`--replay-blockchain`) and then the reversible blocks are
replayed.  `Startup` is the start after an orderly stop, with the same or
another read mode.  An assertion of the code that is "never" to fail is a step
to `fault`; the list of the fault names and their assertions is at the operator
`Fails`.

`BlockHeaderState` and `HeaderChain`.  A header state is a record; `next` has
the parent's state, the producer, the header field `confirmed` and the schedule
carried by the header as parameters.  `confirmers` and `needed` are history
variables: who really confirmed a block, and the number of confirmations
`next` sets out to count down for it.  `watermark` is what each producer's node
remembers of its own blocks; `RestartNode` forgets it.  No schedule is empty:
the protocol feature that forbids it is taken to be active.

`DposNetwork`.  A block is its branch: the list of the producers and `confirmed`
fields up to it, so that two blocks are the same exactly if their contents are.
`hs` has the header state of every block, computed by the same `next` as in
`HeaderChain`.  A node takes a better block for its head, at any moment and with
any delay, as long as it keeps what is irreversible to it (`MayFollow`), and then
signs: `MayProduce` and `BlocksToConfirm` are `start_block` of `producer_plugin`
with its watermark.  The schedule does not change.  Slots may be missed, so any
producer may be the next to sign; `Turns` says who may sign the k-th block after the
trunk, and its length bounds the number of blocks.

`NetSync`.  `node` is the half of `net_plugin` that asks: the members of
`sync_manager` and, for each connection, its flags, its timer, and `expired`, a
handler of the timer that is posted and can no longer be cancelled.  `peer[p]` is
the half that serves (the peers run the same program): its chain, its queue, the
range it is sending and `writing`, a write that has not been confirmed.  Handlers
are operators from state to state in the order of the code; messages they send
collect in `out`, and `Becomes` puts them on the wire.  A connection delivers in
order and loses what is under way when it is closed.  `Expire` is a late answer
(only while the answer is really on its way), `Lose` a lost connection, `Hang` a
peer that stops without closing; together they are bounded by `MaxFaults`.

The chain of a node or peer is what `net_plugin` sees of its controller, translated
from `controller.cpp` and `fork_database.cpp`: `blocks` (block log and fork database),
`head` and `root`.  All blocks are valid, so `fork_db.pending_head()` is the head
between two calls.  `Accepted` is `push_block`: of two heads that the fork choice
does not tell apart the first stays, and as `log_irreversible` advances the root, the
branches that leave before it are gone.  A handshake has the last irreversible block
as a number and as an id; a notice changes only the number that the peer remembers, and
`blk_send_branch` starts from the id.  The first handshake of a connection is checked
for an irreversible block on another branch (`Forked`): the side that finds one sends
a `go_away` and closes.  The code closes when the `go_away` is written; the model
closes with it when the node sends it, and when it is read when a peer does.  A node
that has read one does not dial again (`no_retry`).  With a single connection
(`NPeers = 1`) that connection is always the next source, as in the code.

`Authorization`.  The tables are the fields of a record `db`.  A native action is
an operator from a database to the set of databases it may leave: the empty set
is an exception, on which the transaction is undone.  An authority is abstracted
to the size it is billed for; whether the keys at hand satisfy it is not
modelled, since a transaction without them is refused without a trace.
`permission_object::satisfies` walks up the parents; `Satisfies` says the same
without recursion: every set with the lower permission that is closed under
parents has the higher one.  `linkauth` is refused for the five actions whose
permission `check_authorization` finds by rules of its own (`Linkable`): whatever
contract they are of, until the feature `fix_linkauth_restriction` is active.

`Deferred`.  One `db` holds these tables and the generated transactions, in the
order of `by_delay` for the loop, whose place is `cursor`.  `PushScheduled` has
the outcomes of `push_scheduled_transaction`: expired, executed, soft failure
with the handler of `onerror`, hard failure, and a failure of this node only,
after which the transaction is there again and is blacklisted.  Ids of
transactions are hashes; the model keeps what they are hashes of, which the
feature `no_duplicate_deferred_id` changes.  The contract that sends is external:
it does what its parameters say or throws.  It may bill itself or an account that
authorized the action, a privileged one any account (`MayBill`).  `Unbilled` are the accounts that the
genesis has not billed for all they have (`eosio.prods`, for whose two further
permissions `initialize_database` adds no RAM usage).  An input transaction may come in a
block of another producer, so what is only refused in one's own block is allowed.

`Dreamoji`.  Each table is a function from the key of a row to the row, or a set
of ids where the row has nothing else.  `accounts` has 0 where there is no row:
`_sub_balance` erases a row that reaches 0.  `Walk` is the recursion of
`_changeowner` and `_createlicence` over children; on a cycle of links it would
not end and the transaction is aborted, as on a burned child.  An action that
loops over a batch of ids is modelled for one id, since the loops handle the ids
independently and in order; only a listing keeps its batch, which is not empty.
`burnnft` reads a row after it erased it, and `revoke` too: the memory is not
reused in between, and the model takes the old value.  The transfer of
`eosio.token` that pays a fee refuses an amount of 0 (`MayTransferDrmi`).  Time
is abstract: whatever expires may do so at any moment (`Expire`).  `_calcfees`
computes in doubles, and so does `Fee`: amounts are in units of `1 / One`, the doubles
at a value are the multiples of `Spacing` there, and `Nearest` rounds to the nearest of
them, ties to even, as a product and a quotient of doubles are rounded.  The amount
itself, its product with the split and the quotient by the number of tokens are rounded
in turn, and the result is truncated to an `int64_t`.  `Mantissa` is the first number
whose successor is not a double (2^53 in the code); a split is a multiple of `1 / One`.

## 3. What TLC checks

| Run | Instance | Result |
|---|---|---|
| `controller` | nine blocks in three branches of up to five blocks, two of the blocks refused by `apply_block`, two transactions that both branches hold, both read modes, crash and replay at every step | passes, 5,859 states |
| `controller_modes` | the same tree, all blocks valid, orderly stops and changes of the read mode in addition to crashes | passes, 16,225 states |
| `controller_start` | invalid blocks and orderly stops | violated: see 5 |
| `header_chain` | ten blocks, three schedules over three producers, proposals in any block, aborted blocks, nodes that restart and lose their watermark; at most three confirmation counts are kept | passes, 647,732 states |
| `header_chain_shrink` | thirteen blocks, four producers, one offline, then two | violated: see 5 |
| `dpos_network` | four producers, nine blocks on one branch, then seven on any branches, the first of them by producer 2 | passes, 461,815 states |
| `dpos_split` | four producers, eight blocks on one branch, then eight that producer 4 may sign on its own and six in given turns, on any branches | violated: see 5 |
| `net_sync` | two peers on two branches of five blocks, a node at the first block, ranges of two, one fault of any kind | passes, 40,023 states |
| `net_stall` | the same, one peer two blocks behind the other | violated: see 5 |
| `deferred` | a user and a contract, and an account that may be created; eleven transactions, two generated ones, five blocks, two protocol features to activate | passes, 130,322 states |
| `dreamoji` | two accounts, one of them the contract's, a type created twice as a fungible or non-fungible token, two tokens, two listings or licences at a time | passes, 1,219,043 states |
| `dreamoji_listed` | as `dreamoji` | violated: see 5 |

`controller` checks `NoFault` (no internal assertion fails), `DbMatchesHead`,
`ReversibleIsBranch`, `RootIsLogHead` (the stores agree between handlers),
`CrashSafe` (they can be started from at every step), `LogIsChain`,
`UnappliedNotOnBranch`, `NoOrphans`, `HeadIsBestValid`, the liveness property
`HandlerEnds` and `Finality`: that the controller implements `Ledger` with the
block log as the ledger and the head as its tip.  `controller_modes` adds
`FollowsBest`: between handlers the node has applied the best branch it knows.
That does not hold with invalid blocks, and is not claimed by the code then: a
push that fails leaves the next best branch for the following push.

`header_chain` checks `ConfirmedByQuorum`, `IrreversibleBehindProposed`,
`CarriedScheduleAccepted`, `ProposalStands` (once its block is committed, a proposed
schedule is replaced or cleared only by becoming the pending one, as it was proposed
and not before that block is irreversible), `HonestIsNotRefused` (the number
of blocks that `producer_plugin` confirms, computed from a watermark in memory,
passes the assertion of `next`, computed from the branch, also after a restart
and when a producer leaves the schedule and comes back) and `NextIsPreferred`.  With the
schedules of this run, of at most two producers, the irreversible number never
decreases; `header_chain_shrink` shows schedules with which it does.

`dpos_network` checks `OneBlockPerNumber` (two header states, on whatever branches,
whose proposed block has the same number propose the same block, and likewise for
the last irreversible block) and `NoDoubleConfirm` (no producer confirms a number with two blocks).
With the quorum at a third TLC finds the first broken on this instance, without the
watermark the second.  `Agreement` (what is irreversible in any two states lies on
one branch) holds on this instance too, but only because it is small: `dpos_split`
lets one producer sign eight blocks in a row, fewer than the twelve of its window,
and two branches become irreversible at different numbers.

`net_sync` checks `ExpectedFollows` (in `lib_catchup`, the next number expected is
one above a block the node has, and the range asked for lies between it and the
known irreversible number), `SyncEnds` (it does not stay in `lib_catchup`) and
`CatchesUp` (without a fault, it comes to have a block that none of its peers
prefers another to).  Both liveness properties are claimed for peers whose
heights are at most one apart, the situation of peers that are not behind
themselves.  They hold with peers at heights 5 and 4 too; with 5 and 3 they do
not: `SyncEnds` fails after one lost connection, and `CatchesUp` without a fault.
`net_stall` shows the reason as a safety property (`InSyncIsCaughtUp`), without
any assumption of fairness.

`deferred` checks `RamIsAccounted` (the usage kept for each account is the sum of
what it is billed for, plus a correction that is pending until `replace_deferred`
is active; the total of the limits is their sum), `AuthorizationIntact`,
`RetiredOnce`, the action property `GrowthWithinLimit` (also through the error
handler of a contract) and the liveness property `EveryGeneratedEnds`.

`dreamoji` checks `Conservation` (the balances of a type add up to its supply,
through every way a token moves), `SupplyInBounds` (`issued_supply` is bounded by
`max_supply`, and for a non-fungible type that was created once it is the number of its tokens:
burning makes room for as many more, which is what the code does and not what the
documents say, see 5), `FeesAddUp` (on every listing that arises the shares of
`_calcfees` add up to the amount, and none is negative if the amount is below
`Mantissa`), `IdsNeverReused` and `LockedStaysPut`.  At the price of the run, 210, a share
of 15/16 is rounded up to a double and leaves a remainder when two tokens divide it; the
partner may be the seller or not.  Amounts that are not doubles are left to the theorem.

Bounds.  The tree of `MCController` is the smallest in which a branch is
overtaken, ties with another, fails after one of its blocks was applied, and
makes several blocks irreversible at once after a switch.  The number of
handlers, crashes and restarts is not bounded: the state space is finite
because the tree is.  In `MCHeaderChain`, ten blocks are enough for two changes
of the schedule to become active after one another, and `MaxTracked = 3` makes
the list of counts overflow; the code's constant is 1024.  The branch ends at
`MaxBlockNum`, so that run does not check for deadlock.  In `MCDreamoji`, two
tokens are enough for a parent and a child, a listing of two and a second fee of
one partner; two creations for a type that was burned out and comes back; two
rows for every pair of listing, licence sale and licence to interfere.  The doubles of
`MCDreamoji` have 8 bits of mantissa and a least spacing of 1/16; so rounding matters for
amounts that TLC can compute with.  In `MCDposNetwork`, four producers are the fewest with a quorum (three) that is
neither all nor a bare majority; the nine blocks of the trunk are enough for every
producer to have seen an irreversible block, and seven more for two branches that
would both become final if a third of the producers were enough.  That producer 2
signs the first of the seven halves the states; which producer it is matters little,
since the trunk ends in the middle of a round.  `dpos_split` follows one order of
turns, and TLC searches all branches on which they can be taken.  `MCNetSync` has the shortest chain with two
ranges and a fork at its end; its two peers are enough for a range to be given to
another source while the first one still sends.  No peer of it is forked below the
last irreversible block, so that the `go_away` is exercised by the theorems only.  In `MCDeferred`, two generated
transactions let one be replaced by, sent again as, or compete with another;
five blocks leave room for a delay, an expiry and both activations; no contract of the
instance is privileged, and `fix_linkauth_restriction` is not active.  The network
may be quiet, producers may stop signing and a
contract may always stop being called, so deadlock is not checked there either;
the runs of `MCController` and `MCDeferred` check it.

Fairness.  `Spec` of `Controller` assumes weak fairness of `Step`: the steps of
a handler that the one main thread executes without waiting for anything.
Nothing is assumed about blocks or transactions arriving, about production, or
about restarts after a stop; a crash may always intervene.  `FairSpec` of `NetSync`
assumes that a connection that was lost is dialled again (`connection_monitor`) unless
the peer sent the node away,
that what is on the wire is read and what is queued is written unless the
connection breaks (asio runs every handler that is ready), that an expired timer
is handled, that a timer whose answer never comes expires, and that the peers
come to have the whole chain.  `FairSpec` of `Deferred` assumes that blocks follow
one another and that a producer which again and again has an expired transaction
next in its loop comes to retire it: retiring it executes nothing, so it happens
in any block whose time is not used up before the loop comes to it.  A load of
input transactions that uses up every block for ever is excluded.

## 4. What is proved

The theorems hold for every value of the constants that satisfies the assumptions
named in the modules:

- `TreeAssumption` (every block but the genesis block has a parent),
  `NumberAssumption` (numbers grow by one along a branch; the irreversible number
  of a block is smaller than its own),
  `IdAssumption` (ids differ), `ControllerAssumption` (a block that is not invalid
  holds no transaction its branch has already).
- `SchedulesAssumption` (a schedule names no producer twice, which the
  host function `set_proposed_producers` in `wasm_interface.cpp` checks), `MaxTrackedAssumption`,
  `HeaderChainAssumption`, `DposNetworkAssumption` (every producer has signed on the
  trunk).
- `NetSyncAssumption`: the genesis block has number 1, there is at least one peer, a
  range has at least one block.
- `AuthorizationAssumption`, `DeferredAssumption`, `ContentsAssumption`,
  `GenesisAssumption`: bytes are natural numbers, what a transaction sends is a
  transaction, and the genesis database has parents, links and a total of limits that
  are right.
- `DreamojiAssumption`: the contract's account is not one of the others, bounds and
  prices are natural numbers, shares are at most the whole.  `DoubleAssumption`: the
  spacings of doubles are powers of two, or at least each divides half of the next,
  and a listing has at most `One` tokens.

No theorem assumes anything of the state.  Those of `ControllerProofs` have the
hypothesis `LibGrows`: the irreversible number does not decrease along a branch of the
tree.  The code does not guarantee that.  `OnePlaceSuffices` proves it of schedules of
one length, `header_chain_shrink` shows that it can fail with others, and where it
fails so may a further assertion, that of `commit_block`.  The trees of
`MCController` satisfy it; the theorems of `NetSyncProofs` do not need it.  Seven
theorems have another hypothesis on the constants or
on the behaviour (`AssertionsHold`, `BestBranchFollowed`, `ProposedWasConfirmed`,
`HonestProducerMayConfirm`, `BlocksArePreferred`, `OnePlaceSuffices`,
`ExpectedAlwaysFollows`).  It is stated below, with the behaviour that makes it
necessary or the reason why it is the case the code is written for.

### Fork database

- `ForkDbCorrect`: for every tree and every sequence of operations,
  `ForkDbTypeOK`, `NoOrphans` and `HeadIsBestValid`.  The conjunction is
  inductive; each operation has a lemma of its own.  `NoOrphans` says that the
  root is an ancestor of every block of the index, which needs facts about the
  least set `Ancestors[b]` (reflexive, transitive, closed under `Prev`, a
  block is an ancestor of its child): they are lemmas, proved from the
  definition as an intersection without induction.

### Controller

- `ControllerKeepsForkDb`: every step of the controller is, on the fork
  database, one of its operations or leaves it alone, so the same invariant
  holds in the composition, through crashes, replays and changes of mode.
- `BlockLogIsChain`: `LogIsChain` needs the place of the running handler: while
  it logs, `job.old` is the end of the log and an ancestor of `job.new`, with a
  number below the irreversible number of `job.new`; when it starts, the root is
  the end of the log by the assertion of `log_irreversible`.  With that
  strengthening (`LogInv`) and the invariant of the fork database the
  conjunction `CtrlInv` is inductive.
- `StoresAgree` (`DbMatchesHead`, `RootIsLogHead`, `ReversibleIsBranch`),
  `FilesSurviveCrash` (`CrashSafe`), `ControllerImplementsLedger` (`Finality`: every
  step is a step of `Ledger` or leaves the log and the head alone),
  `OtherAssertionsHold` (no assertion fails but, possibly, the two named in 5),
  `AssertionsHold` (`NoFault`, if there are no orderly stops
  or no invalid blocks: `controller_start` shows that with both it is false) and
  `BestBranchFollowed` (`FollowsBest`, if there are no invalid blocks) all follow
  from one inductive invariant, `MainInv`: `CtrlInv` together with `Consistent`,
  which says for each place `job.pc` of a handler what the four stores and the two
  heads have to do with each other there.  `StoreInv` relates log, reversible blocks and
  chain state at every step; `JobInv` gives the locals of the handler; `IrreversibleInv`
  and `SpeculativeInv` treat the read modes apart, since in the first the head is the
  root and in the second it follows the fork choice.  The heart of the second is that
  between handlers no valid block is strictly preferred to the fork database's head
  and the controller's head is at worst tied with it (`NoneBetter`, `AtTie`); after an
  `add` at most one block, the new one, is better (`OneBetter`).  A switch that
  fails removes that block, and so comes back to the former.
- `ControllerTypeCorrect` (`TypeOK`) and `WaitingIsNotOnBranch`
  (`UnappliedNotOnBranch`) need in addition what the transactions of the blocks a
  switch has popped and applied so far have to do with `unapplied` (`FullInv`).

### Header state and producers

- `HeaderTypeCorrect`, `IrreversibleStaysBehind` (`IrreversibleBehindProposed`),
  `CarriedScheduleIsNext` (`CarriedScheduleAccepted`): conjuncts or consequences of
  `ChainInv`, with consecutive versions of the active, pending and proposed schedules
  as one of its parts.  Its core is
  `StateOK(h)`, stated about a header state and not about the variable, with the lemma
  in `BlockHeaderStateProofs` that `next` leads from one such state to another; so
  `DposNetworkProofs` uses it for every block of a tree.  The lists of confirmation
  counts are functions on an interval, and what `next` computes over them is given by
  lemmas on its recursive functions.
- `ProposalsStand` (`ProposalStands`): with `StandsInv`, that a proposal is of a
  committed block and that the block being built either keeps it or carries it, as it
  was proposed, in its header, which `start_block` puts there only when the proposing
  block is irreversible.  An aborted block then leaves it, and a committed one makes it pending.
- `ProposedWasConfirmed` (`ConfirmedByQuorum`, assuming `Honest`, that producers
  confirm as `producer_plugin` does): a count that has come down, and those who
  confirmed the block, add up to at least what was needed (`CountdownOK`), and no
  producer is counted twice, as `next` refuses overlapping confirmations
  (`ConfirmersOK`).
- `HonestProducerMayConfirm` (`HonestIsNotRefused`, for behaviours of `Spec` in which
  `NextIsPreferred` holds, that is, in which the irreversible number never decreases;
  `header_chain_shrink` shows behaviours in which it does): what the branch remembers
  of a producer is below its watermark, or irreversible, or the watermark was lost.
- `BlocksArePreferred` (`NextIsPreferred`, for behaviours in which no pending schedule
  lowers `(n - 1) div 3`, the place in the sorted implied numbers that
  `calc_dpos_last_irreversible` reads; `header_chain_shrink` breaks exactly this).  At
  most as many producers as that place have implied a number below the irreversible
  one (`SupportOK`, on the set `Behind`).  The entry of a producer only grows, and one
  that is new to the schedule starts at the irreversible number, so the set does not grow,
  and the number read at the place, or at a later one, is no lower than before.
- `OnePlaceSuffices`: where all schedules have the same place, as on a chain that always
  elects the same number of producers and in the run `header_chain`, both
  `NextIsPreferred` and `HonestIsNotRefused` hold.  No hypothesis on the behaviour is left.
- `ProducersConfirmOnce` (`NoDoubleConfirm`) and `IrreversiblePerNumber`
  (`OneBlockPerNumber`): for any schedule, any trunk and any number of blocks on any
  branches.  `NetworkInv` says of every branch that a count is backed by producers that
  confirmed, on this branch (`BranchOK`, kept by extending a branch), and of any
  two blocks a producer has signed that they confirm different numbers
  (`ConfirmedOnce`, from the watermark).  If two branches propose different blocks of
  one number, each has a quorum of more than two thirds, the quorums share a producer
  (a fact about cardinalities), and it has confirmed the number with two blocks.  For the
  irreversible block the argument is the same, with the producers whose implied number
  is at least the one in question.

### Synchronisation

- `SyncTypeCorrect` (`TypeOK`) and `ExpectedIsKnown` (in `lib_catchup` the expected
  block is not past the known irreversible one): for any tree of blocks, any number of
  peers, any length of a range and any number of faults.  The invariant `NodeOK(n)` is
  stated about a record `n`, not about the variable, as a handler leads through states
  that no step leaves: a timer cancelled, a block taken, the range given to another
  source, handshakes sent to all.  Each operator of `NetSync` has a lemma that it leads from
  such records to such records.  The peers have an invariant of their own (`Sessions`):
  each has one chain, and what it queues and sends are blocks and the notices that such a
  chain gives rise to (`Notices`), so a number that the node learns from them is the
  irreversible number of a block.
- `ExpectedAlwaysFollows` (`ExpectedFollows`, if `LongerIsPreferred`: a longer branch has no
  lower irreversible number).  Two conjuncts are added to `NodeOK`: the node has the
  block before the expected one (`HasPrevious`) and the end of the range asked for is not
  behind the expected block (`NotPassed`).  The critical step is `recv_block` with the
  last block of a range: the next range is asked for only if the head has come to the
  end of this one, which is where the hypothesis is used (see 5 for what happens
  without it).  It is a statement about the blocks that occur; it holds of the tree of
  `MCNetSync` and of any single branch.

### Transactions

- `AuthorizationStaysIntact`, `GeneratedRetiredOnce`: for any accounts,
  permissions and transactions, `AuthorizationIntact` and `RetiredOnce`.  The
  invariant `OK(d, r)` is stated about a database `d` and receipts `r`, not about
  the variables, since a transaction passes through databases that no state
  holds: removed from the table, charged, replaced, created.  Each operator of
  `Authorization` and `Deferred` has a lemma that it leads from `OK` databases to
  `OK` ones, and RAM is shown once not to matter to them (`AddRamSame`).  For
  links the argument is that `deleteauth` looks for children and links of what it
  deletes and `linkauth` for the permission; for receipts, that ids are given in
  order and that a removal and its receipt are one step (`RemovedKeeps`).
- `RamGrowsWithinLimit`: the action property `GrowthWithinLimit`.  Every operator
  that adds RAM notes the account (`Billed(d, e)`: where the usage of `e` exceeds that
  of `d`, the account is in `e.validate`), this composes along a transaction, and
  the verification at its end turns it into the bound (`Verified`).
- `RamStaysAccounted`: `RamIsAccounted`, to the byte.  `Accounted(d)` relates the usage
  kept for an account with three sums over tables (permissions, links, generated
  transactions) and a correction.  Every operator changes one row and the usage by the
  same amount, with the replacement of a generated transaction before and after
  `replace_deferred` as the hard case.

### Token contract

- `IdsAreNeverReused`: every step gives new tokens ids from `next_nft_id` on and
  moves it past them (`GivesIds`), so all ids in `used` stay below it (`IdInv`).
- `SuppliesInBounds` (`SupplyInBounds`): every step writes at most one row of `dreamstats`; with the
  types of its fields (`SupplyInv`) the bounds are inductive.  That a non-fungible type
  has as many tokens as its `issued_supply` says needs that issuing and burning change
  both by one, and that no other step adds or removes a token of the type.
- `ContractTypeCorrect` (`TypeOK`), `SuppliesConserved` (`Conservation`): in
  `ContractInv` the balances of every id of a type ever created add up, to the supply
  while the type exists and to 0 when it does not, so that a type that is created again
  starts from nothing; a transfer changes two terms of the sum, issuing and burning
  one term and the supply.
- `LockedTokensStay` (`LockedStaysPut`), from `GivenInv`: a token that exists has an id
  that was given, so an issue does not overwrite a locked one.
- `FeesAlwaysAddUp` (`FeesAddUp`): that the shares add up follows from the seller's being
  the remainder.  That it is not negative below `Mantissa` needs that rounding is monotone
  and leaves doubles alone: the amount is a double, so its product with a split of at
  most 1 is rounded to at most the amount, and the quotient by `n` tokens, truncated, to at
  most the amount divided by `n`; `n` such shares come to at most the price (`SumBound`).

### Induction

The induction theorems of the library take an operator as a parameter, which the
provers at hand cannot instantiate.  What the theorems above need of sums and of
recursive functions is shown by a smallest counterexample instead: the set of
arguments for which a statement fails has, if it is not empty, a least element
(`SmallestSubset`, `SmallestNumber` in `SumTheorems`, from the well-foundedness of
strict inclusion on finite sets and of `<` on numbers), and the recursion leads from it to
a smaller one.

### Only model-checked

- liveness: `HandlerEnds`, `EveryGeneratedEnds`, `SyncEnds`, `CatchesUp` (out of the
  prover's reach).

Every other property of a passing run is stated by a theorem.

## 5. Findings

- `controller_start`: `fork_database::add` and `mark_valid` use different orders
  to move the head.  After a failed switch leaves a valid block that ties with
  the head, the next `add` moves the fork database's head away from the
  controller's; if that push fails, the node stops in a state its own start
  refuses.
- `header_chain_shrink`: the irreversible number of a block can be lower than
  its parent's after the schedule shrinks.
- `dreamoji_listed`: a licence sale of a listed token, once ended, takes the
  lock of the listing with it.
- `net_stall`: `start_sync` takes a notice for served when the range it has asked
  for once covers it, and both peers count the node as syncing and send it no
  blocks: after a lost connection it can stay `in_sync` below its peers, with
  every connection up.
- `dpos_split`: two nodes make blocks of two branches irreversible although no
  producer signs or confirms a number twice.  Producer 4 signs eight blocks of its
  window before it knows of the others'.  1 and 2, which have confirmed the blocks of
  the first branch, change to the longer one, as its irreversible number is the same;
  3, which does not have it yet, signs a block that makes block 5 of the first branch
  irreversible; 1, 2 and 4 go on to make blocks of the second irreversible.  Blocks
  are only late and slots missed.  What remains true, and is proved, is
  `OneBlockPerNumber`: two states that take the same number for the irreversible one
  mean the same block.

One further disagreement of a document with the code needs three calls and no model
checker, and no run is kept of it: `burnnft` lowers `issued_supply` (`dreamoji.cpp` 203), from
which `issue` takes serial numbers and which it compares with `max_supply`.  After two
issues and the burn of the first token, the next one has the serial number of the second, and over
time more tokens than `max_supply` are issued (`Minted`, `BurnNft` in `Dreamoji`).  The
documents say that "issued supply never decreases" (`src/NFT-Contracts/dgoods_spec.md`
181-182, `src/NFT-Contracts/README.md` 155), so that serial numbers are unique.

The models also show the following, for which no run is kept, since no document
of the repository says otherwise or the code says so itself:

- the reversal of a fork switch evaluates `branches.second.back()`
  (`controller.cpp` 1928) without the test for an empty vector it has at 1897; the
  vector is empty when `init`, after a change from irreversible mode, applies a branch
  whose second block is invalid (fault `reversal` of `Controller`, reached with the
  constants of `controller_start` and both read modes; by `OtherAssertionsHold` it and the refusal of
  `controller_start` are the only ones as long as the irreversible number grows along
  branches);
- transactions of received blocks are not returned to `unapplied_transactions`
  when a fork switch undoes them (`PopBlock` and `metas` in `Controller`);
- the assertion against double confirmation wraps around for a `confirmed` larger
  than the block number (`HeaderChain` with `Honest = FALSE` and `MaxConfirm = 8`);
- for an amount above 2^53 the conversion to a double may round up, and with a split of 1
  the fee then exceeds the price: at 2^60 + 255 and one token the fee is 2^60 + 256 and
  the seller's share -1.  `eosio.token` refuses such a transfer, so the listing cannot be
  bought unless the seller is the contract (in `MCDreamoji`: a price of 259 and a split
  of 16; this is why `FeesAddUp` has a condition);
- a producer's node that restarts has no watermark and may sign a second block of
  one number (a TODO in `producer_plugin.cpp`);
- a node in `lib_catchup` can wait for ever without a fault if its head is on a branch of
  its own that is shorter than the one it is sent but has a higher irreversible number.
  When the last block of a range arrives, the number of its head is still below
  `sync_last_requested_num`, and `request_next_chunk` ignores the request for the next
  range ("ignoring request, head is ...", `net_plugin.cpp` 1295-1299) without starting a
  timer.  It came up in the proof of `ExpectedFollows`, which is false there;
- a delayed transaction cannot be cancelled any more once the permission it was
  signed with is deleted.

## 6. Not modelled

In what is modelled: snapshots; the read modes HEAD and READ_ONLY; errors of the
file system (a `blog.append` that throws after `root_id` was assigned is listed as
a hazard); the size guards of the databases; white and black lists; signatures,
merkle roots and timestamps; keys, weights and waits of an authority; inline
actions, notifications and the tables of contracts; `setcode` and `setabi`; the
billing of CPU and net and its moving averages; the dispatch of transactions
between peers, the other reasons for a `go_away`, and their keepalive messages, whose writes resume a range of which
the peer lacked two numbers or more.  Blocks are atoms of a fixed tree in `Controller` and `NetSync`, and
`DposNetwork` has branches but no stores.  One schedule at a time: a change of
schedule across branches is not modelled.

Not at all: the wallet, history, state-history, mongo_db, http, login, faucet and
API plugins, `cleos` and the other programs, `appbase` and `fc`, the WebAssembly
interpreters and the ABI serializer, `dreamium-sharp` and the wallet front end.  The
larger part of the repository by far is code of third parties that it carries along
(`wabt`, `wasm-jit`, `yubihsm`, `fc` with its vendored libraries, `softfloat`,
`rapidjson`, `secp256k1`) and clients without shared state, where there is no
protocol to check and what there is to check (arithmetic, parsing, compilation)
is better tested than model-checked; the models cover the parts whose state
several actors change.  Components without a model are in `PROJECT.json` with the
reason.

## 7. Plan

Done: everything in section 2 and the theorems of section 4.  Next, in this order:

1. `NetSync` with two nodes that are both behind, and a change of schedule in
   `DposNetwork`.
2. `wallet_manager`; the averages of CPU and net; links and licences of
   `Dreamoji` as properties.

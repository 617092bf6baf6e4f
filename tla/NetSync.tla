------------------------------ MODULE NetSync ------------------------------
(***************************************************************************)
(* net_plugin: how a node that is behind fetches blocks from its peers.    *)
(* sync_manager has three stages: lib_catchup fetches the irreversible     *)
(* blocks in ranges of Span numbers from one source at a time,             *)
(* head_catchup asks a peer for its branch, in_sync takes blocks as they   *)
(* are broadcast.  Every request for a range arms a timer of the           *)
(* connection; when it expires the range is given to the next connection.  *)
(*                                                                         *)
(* The node is modelled with the half of the plugin that asks for blocks,  *)
(* its peers with the half that serves them (they run the same program and *)
(* are not behind).  The node dials the peers (p2p-peer-address); their    *)
(* order is the order of net_plugin_impl::connections.  Transactions,      *)
(* authentication and the clock exchange are left out; the writes of the   *)
(* latter matter only to a range of which the peer lacks two numbers.  A   *)
(* message is a record; a connection delivers them in order until it is    *)
(* closed, and then loses what is under way.                               *)
(***************************************************************************)
EXTENDS BlockTree, Integers, Sequences, SequencesExt, FiniteSetsExt

CONSTANTS
  NPeers,     \* the number of connections
  Span,       \* sync_req_span (sync-fetch-span)
  NodeStart,  \* the head of the node's chain at the start
  PeerStart,  \* PeerStart[p]: the head of p's chain at the start
  PeerEnd,    \* PeerEnd[p]: the last block p's chain grows to
  MayHang,    \* peers that may stop serving without closing the connection
  MaxFaults   \* bound: late answers, lost connections and hung peers together

Peers == 1..NPeers
NoPeer == 0

ASSUME NetSyncAssumption ==
  /\ NPeers \in Nat \ {0}
  /\ Span \in Nat \ {0}
  /\ Num[Genesis] = 1
  /\ NodeStart \in Blocks
  /\ PeerStart \in [Peers -> Blocks]
  /\ PeerEnd \in [Peers -> Blocks]
  /\ MayHang \subseteq Peers
  /\ MaxFaults \in Nat

VARIABLES
  node,    \* the node: its chain, its sync_manager, its end of each connection
  peer,    \* peer[p]: p's chain, its end of the connection, and what is under way
  faults   \* what went wrong so far: how often, and the peers that hang

nsVars == <<node, peer, faults>>

-----------------------------------------------------------------------------
(***************************************************************************)
(* The chain of a node or peer, as the controller keeps it: its blocks, in *)
(* the block log and the fork database, the head, and the root of the fork *)
(* database, which is the last irreversible block.  Every block is valid,  *)
(* so that fork_db.pending_head() is the head between two calls.  (Module  *)
(* Controller has the same operations in full.)                            *)
(***************************************************************************)
HeadNum(C) == Num[C.head]
LibNum(C) == Num[C.root]

\* fetch_block_by_number, get_block_id_for_num.
BlockAt(C, n) == AncestorAt(C.head, n)

\* The chain of a node that has met one branch, up to b.
Branch(b) ==
  [blocks |-> Ancestors[b], head |-> b,
   root |-> AncestorAt(b, Max({Lib[b], Num[Genesis]}))]

\* The fork database has the parent: no unlinkable_block_exception.
Linkable(C, b) == Prev[b] \in C.blocks /\ C.root \in Ancestors[Prev[b]]

\* push_block: b becomes the head where the fork choice strictly prefers it (of
\* two heads it does not tell apart the first stays), log_irreversible advances
\* the root, and with it branches that leave before the root are removed.
Accepted(C, b) ==
  LET head == IF first_preferred(b, C.head) THEN b ELSE C.head
      root == IF Lib[head] > LibNum(C) THEN AncestorAt(head, Lib[head]) ELSE C.root
  IN  [blocks |-> Ancestors[root] \cup DescendantsIn(C.blocks \cup {b}, root),
       head |-> head, root |-> root]

-----------------------------------------------------------------------------
Handshake(C) ==
  [type |-> "handshake", head |-> C.head, lib |-> LibNum(C), lib_id |-> C.root]
\* Mutant: the notice carries the head where the irreversible number belongs.
LibNoticeOfHeadMutant(C) == [type |-> "last_irr_catch_up", lib |-> HeadNum(C)]
\* known_trx.pending of the code's notice; known_blocks.pending is its head.
LibNotice(C) == [type |-> "last_irr_catch_up", lib |-> LibNum(C)]
HeadNotice(C) == [type |-> "catch_up", head |-> C.head]
BlockMessage(b) == [type |-> "block", block |-> b]
SyncRequest(first, last) == [type |-> "sync_request", start |-> first, end |-> last]
BranchRequest(mode) == [type |-> "request", mode |-> mode]
GoAway == [type |-> "go_away"]

-----------------------------------------------------------------------------
(***************************************************************************)
(* The node.  n is its state, with the messages it has sent in n.out.      *)
(***************************************************************************)
NewConnection ==
  [open |-> FALSE, connecting |-> FALSE, syncing |-> FALSE, lib |-> 0,
   fork_head |-> NoBlock, timer |-> FALSE, expired |-> FALSE, no_retry |-> FALSE]

ForkHeadNum(c) == IF c.fork_head = NoBlock THEN 0 ELSE Num[c.fork_head]

connected(n, p) == n.conn[p].open /\ ~ n.conn[p].connecting
current(n, p) == connected(n, p) /\ ~ n.conn[p].syncing

enqueue(n, p, m) == [n EXCEPT !.out[p] = Append(@, m)]
send_handshake(n, p) == enqueue(n, p, Handshake(n.chain))
\* To every connection that is current.
send_handshakes(n) ==
  [n EXCEPT !.out = [p \in Peers |-> IF current(n, p) THEN Append(n.out[p], Handshake(n.chain))
                                                      ELSE n.out[p]]]

\* response_expected: arming it again replaces the wait; cancelling it does not
\* take back a handler that has been posted already (conn.expired).
sync_wait(n, p) == [n EXCEPT !.conn[p].timer = TRUE]
cancel_wait(n, p) == [n EXCEPT !.conn[p].timer = FALSE]

request_sync_blocks(n, p, first, last) ==
  sync_wait(enqueue(n, p, SyncRequest(first, last)), p)

sync_required(n) ==
  n.last_requested < n.known_lib \/ HeadNum(n.chain) < n.last_requested

\* The last number of the next range.
RangeEnd(n) == Min({n.next_expected + Span - 1, n.known_lib})

\* The connections in turn, from the one after the source, the source last; the
\* only connection there is becomes the source even when it is of no use.
Ring(s, k) == ((s + k - 1) % NPeers) + 1
NextSource(n) ==
  LET usable == {k \in Peers : current(n, Ring(n.source, k))}
  IN  IF usable # {} THEN Ring(n.source, Min(usable))
      ELSE IF NPeers = 1 THEN 1 ELSE n.source

request_next_chunk(n, c) ==
  LET s == IF c # NoPeer /\ current(n, c) THEN c ELSE NextSource(n)
      m == [n EXCEPT !.source = s]
      last == RangeEnd(n)
      waiting == /\ HeadNum(n.chain) < n.last_requested
                 /\ n.source # NoPeer
                 /\ current(n, n.source)
  IN  IF waiting THEN n
      ELSE IF s = NoPeer \/ ~ current(n, s) THEN
             [m EXCEPT !.known_lib = LibNum(n.chain), !.last_requested = 0,
                       !.stage = "in_sync"]
      ELSE IF n.last_requested # n.known_lib /\ last >= n.next_expected THEN
             request_sync_blocks([m EXCEPT !.last_requested = last], s,
                                 n.next_expected, last)
      ELSE m

\* After a handshake, a notice, or the end of connection c.
reset_lib_num(n, c) ==
  LET m == IF n.stage = "in_sync" THEN [n EXCEPT !.source = NoPeer] ELSE n
  IN  IF current(m, c) THEN [m EXCEPT !.known_lib = Max({@, m.conn[c].lib})]
      ELSE IF c = m.source THEN request_next_chunk([m EXCEPT !.last_requested = 0], NoPeer)
      ELSE m

start_sync(n, c, target) ==
  LET m == [n EXCEPT !.known_lib = Max({@, target})]
      started == IF m.stage = "in_sync"
                   THEN [m EXCEPT !.stage = "lib_catchup",
                                  !.next_expected = LibNum(m.chain) + 1]
                   ELSE m
  IN  IF sync_required(m) /\ target > LibNum(m.chain)
        THEN request_next_chunk(started, c) ELSE m

\* Mutant: the range stays marked as requested.
ReassignFetchMarkedMutant(n, c) ==
  IF c # n.source THEN n
  ELSE request_next_chunk(enqueue(cancel_wait(n, c), c, SyncRequest(0, 0)), NoPeer)

\* The handler of the timer of c: cancel_sync asks c to stop.
reassign_fetch(n, c) ==
  IF c # n.source THEN n
  ELSE request_next_chunk(
         [enqueue(cancel_wait(n, c), c, SyncRequest(0, 0)) EXCEPT !.last_requested = 0],
         NoPeer)

\* connection::close.  fork_head and no_retry stay.
Closed(c) ==
  [NewConnection EXCEPT !.fork_head = c.fork_head, !.timer = c.timer,
                        !.expired = c.expired, !.no_retry = c.no_retry]
close(n, p) ==
  cancel_wait(reset_lib_num([n EXCEPT !.conn[p] = Closed(@), !.out[p] = <<>>], p), p)

verify_catchup(n, c, head) ==
  LET busy == \E q \in Peers : \/ n.conn[q].fork_head = head
                               \/ ForkHeadNum(n.conn[q]) > Num[head]
  IN  IF busy THEN enqueue([n EXCEPT !.conn[c].fork_head = NoBlock], c, BranchRequest("none"))
      ELSE IF n.stage = "lib_catchup" THEN n
      ELSE enqueue([n EXCEPT !.stage = "head_catchup", !.conn[c].fork_head = head],
                   c, BranchRequest("catch_up"))

\* The peer's head is not on the branch of C.
on_fork(C, head) == BlockAt(C, Num[head]) # head

\* The last irreversible block of a handshake is no later than C's, and not on
\* C's branch.
Forked(C, msg) == msg.lib <= LibNum(C) /\ on_fork(C, msg.lib_id)

\* sync_manager::recv_handshake.  Where the peer is behind (2 and 4) the node
\* tells it so, and does not use the connection until the peer answers.
recv_handshake(n, c, msg) ==
  LET m == [reset_lib_num(n, c) EXCEPT !.conn[c].syncing = FALSE]
      head == HeadNum(n.chain)
  IN  IF n.chain.head = msg.head \/ head < msg.lib THEN m
      ELSE IF LibNum(n.chain) > Num[msg.head]
             THEN enqueue([m EXCEPT !.conn[c].syncing = TRUE], c, LibNotice(n.chain))
      ELSE IF head < Num[msg.head] THEN verify_catchup(m, c, msg.head)
      ELSE LET told == enqueue([m EXCEPT !.conn[c].syncing = TRUE], c, HeadNotice(n.chain))
           IN  IF on_fork(n.chain, msg.head) THEN enqueue(told, c, BranchRequest("catch_up"))
                                             ELSE told

recv_notice(n, c, msg) ==
  IF msg.type = "catch_up"
    THEN IF msg.head \in n.chain.blocks THEN send_handshake(n, c)
                                        ELSE verify_catchup(n, c, msg.head)
    ELSE start_sync(reset_lib_num([n EXCEPT !.conn[c].lib = msg.lib], c), c, msg.lib)

rejected_block(n, c) ==
  IF n.stage = "in_sync" THEN n
  ELSE send_handshakes(
         [close([n EXCEPT !.last_requested = 0, !.source = NoPeer], c)
            EXCEPT !.stage = "in_sync"])

\* In head_catchup every connection that waits for b, or for an older block,
\* makes the code forget the fork_head of c, the one that delivered b.
recv_block_at_head(n, c, b) ==
  LET done(q) == \/ n.conn[q].fork_head = b
                 \/ ForkHeadNum(n.conn[q]) < Num[b]
      waits(q) == n.conn[q].fork_head # NoBlock
      \* c is forgotten at the first such connection; a c that comes later in the
      \* loop is then passed over.
      first == {q \in Peers : waits(q) /\ done(q)}
      passed(q) == q = c /\ \E f \in first : f < c
      busy == \E q \in Peers : waits(q) /\ ~ done(q) /\ ~ passed(q)
      m == [n EXCEPT !.source = NoPeer,
                     !.conn[c].fork_head = IF first = {} THEN @ ELSE NoBlock]
  IN  IF busy THEN m ELSE send_handshakes([m EXCEPT !.stage = "in_sync"])

\* Mutant: the last irreversible block ends the stage without handshakes.
RecvBlockSilentMutant(n, c, b) ==
  LET m == [n EXCEPT !.next_expected = Num[b] + 1]
  IN  IF Num[b] # n.next_expected THEN n
      ELSE IF Num[b] = n.known_lib THEN [m EXCEPT !.stage = "in_sync"]
      ELSE IF Num[b] = n.last_requested THEN request_next_chunk(m, NoPeer)
      ELSE sync_wait(m, c)

\* Mutant: the last irreversible block does not end the stage.
RecvBlockNoEndMutant(n, c, b) ==
  LET m == [n EXCEPT !.next_expected = Num[b] + 1]
  IN  IF Num[b] # n.next_expected THEN n
      ELSE IF Num[b] = n.last_requested THEN request_next_chunk(m, NoPeer)
      ELSE sync_wait(m, c)

recv_block_at_lib(n, c, b) ==
  LET m == [n EXCEPT !.next_expected = Num[b] + 1]
  IN  IF Num[b] # n.next_expected THEN n
      ELSE IF Num[b] = n.known_lib THEN send_handshakes([m EXCEPT !.stage = "in_sync"])
      ELSE IF Num[b] = n.last_requested THEN request_next_chunk(m, NoPeer)
      ELSE sync_wait(m, c)

recv_block(n, c, b) ==
  CASE n.stage = "lib_catchup" -> recv_block_at_lib(n, c, b)
    [] n.stage = "head_catchup" -> recv_block_at_head(n, c, b)
    [] n.stage = "in_sync" -> n

\* A block the node has is not unpacked and leaves the timer alone
\* (process_next_message); another cancels it before it is tried.
handle_block(n, c, b) ==
  IF b \in n.chain.blocks THEN recv_block(n, c, b)
  ELSE IF Linkable(n.chain, b)
         THEN recv_block([cancel_wait(n, c) EXCEPT !.chain = Accepted(@, b)], c, b)
         ELSE rejected_block(cancel_wait(n, c), c)

\* The first handshake of a connection (generation 1) that shows a peer on another
\* branch below the last irreversible block is answered with a go_away, after
\* which the connection is closed.  A request of a peer that is behind ends with
\* the connection in use again; the blocks it is answered with are left out (see
\* PeerAccept).
handle_message(n, c, msg) ==
  LET m == [n EXCEPT !.conn[c].connecting = FALSE]
  IN  CASE msg.type = "handshake" ->
             IF n.conn[c].connecting /\ Forked(n.chain, msg) THEN close(m, c)
             ELSE recv_handshake([m EXCEPT !.conn[c].lib = msg.lib], c, msg)
        [] msg.type \in {"last_irr_catch_up", "catch_up"} -> recv_notice(m, c, msg)
        [] msg.type = "block" -> handle_block(n, c, msg.block)
        [] msg.type = "request" -> [n EXCEPT !.conn[c].syncing = FALSE]
        [] msg.type = "go_away" -> close([n EXCEPT !.conn[c].no_retry = TRUE], c)

-----------------------------------------------------------------------------
(***************************************************************************)
(* A peer.  s is its end of the connection.  While s.writing a write is    *)
(* under way that will be followed by the next block of the range asked    *)
(* for; s.wire is what was written and the node has not read.  node_lib    *)
(* and node_lib_id are the two irreversible blocks of last_handshake_recv, *)
(* the number and (as a number) the id, of which a notice changes the      *)
(* first only.                                                             *)
(***************************************************************************)
NewSession(C) ==
  [chain |-> C, greeted |-> FALSE, syncing |-> FALSE, node_lib |-> 0, node_lib_id |-> 0,
   requested |-> <<>>, sync_queue |-> <<>>, queue |-> <<>>, writing |-> FALSE,
   wire |-> <<>>]

\* do_queue_write: the blocks of a range before all else.
do_queue_write(s) ==
  IF s.writing THEN s
  ELSE IF s.requested = <<>>
    THEN [s EXCEPT !.wire = @ \o s.sync_queue \o s.queue, !.sync_queue = <<>>, !.queue = <<>>]
  ELSE IF s.sync_queue # <<>>
    THEN [s EXCEPT !.wire = @ \o s.sync_queue, !.sync_queue = <<>>, !.writing = TRUE]
  ELSE IF s.queue # <<>>
    THEN [s EXCEPT !.wire = @ \o s.queue, !.queue = <<>>, !.writing = TRUE]
  ELSE s

PeerEnqueue(s, m) == do_queue_write([s EXCEPT !.queue = Append(@, m)])

\* The number is used up even when there is no block with it.
enqueue_sync_block(s) ==
  IF s.requested = <<>> THEN s
  ELSE LET n == s.requested[1].last + 1
       IN  [s EXCEPT !.requested = IF n = @[1].end THEN <<>> ELSE <<[@[1] EXCEPT !.last = n]>>,
                     !.sync_queue = IF n > HeadNum(s.chain) THEN @
                                    ELSE Append(@, BlockMessage(BlockAt(s.chain, n)))]

Serve(s, first, last) ==
  do_queue_write(enqueue_sync_block(
    [s EXCEPT !.requested = <<[last |-> first - 1, end |-> last]>>]))

blk_send_branch(s) ==
  LET first == IF s.requested = <<>> THEN s.node_lib_id + 1
               ELSE Min({s.requested[1].last + 1, s.node_lib_id + 1})
      last == IF s.requested = <<>> THEN HeadNum(s.chain)
              ELSE Max({s.requested[1].end, HeadNum(s.chain)})
      m == [s EXCEPT !.syncing = FALSE]
  IN  IF first <= last THEN Serve(m, first, last) ELSE [m EXCEPT !.requested = <<>>]

\* The peer answers the first handshake with its own, or with a go_away.  Where it
\* is behind the node (3), or on another branch (4), it asks for the node's blocks.
PeerHandshake(s, msg) ==
  LET m == [IF s.greeted THEN s ELSE PeerEnqueue(s, Handshake(s.chain))
              EXCEPT !.greeted = TRUE, !.node_lib = msg.lib, !.node_lib_id = Num[msg.lib_id],
                     !.syncing = FALSE]
      head == HeadNum(s.chain)
  IN  IF ~ s.greeted /\ Forked(s.chain, msg) THEN PeerEnqueue(s, GoAway)
      ELSE IF s.chain.head = msg.head \/ head < msg.lib THEN m
      ELSE IF LibNum(s.chain) > Num[msg.head]
             THEN PeerEnqueue([m EXCEPT !.syncing = TRUE], LibNotice(s.chain))
      ELSE IF head < Num[msg.head] THEN PeerEnqueue(m, BranchRequest("catch_up"))
      ELSE LET told == PeerEnqueue([m EXCEPT !.syncing = TRUE], HeadNotice(s.chain))
           IN  IF on_fork(s.chain, msg.head) THEN PeerEnqueue(told, BranchRequest("catch_up"))
                                             ELSE told

PeerNotice(s, msg) ==
  IF msg.type = "last_irr_catch_up" THEN [s EXCEPT !.node_lib = msg.lib]
  ELSE IF msg.head \in s.chain.blocks THEN PeerEnqueue(s, Handshake(s.chain))
  ELSE PeerEnqueue(s, BranchRequest("catch_up"))

PeerSyncRequest(s, msg) ==
  IF msg.end = 0 THEN [s EXCEPT !.requested = <<>>, !.sync_queue = <<>>, !.queue = <<>>]
  ELSE Serve(s, msg.start, msg.end)

PeerHandle(s, msg) ==
  CASE msg.type = "handshake" -> PeerHandshake(s, msg)
    [] msg.type = "sync_request" -> PeerSyncRequest(s, msg)
    [] msg.type \in {"last_irr_catch_up", "catch_up"} -> PeerNotice(s, msg)
    [] msg.type = "request" -> IF msg.mode = "catch_up" THEN blk_send_branch(s)
                               ELSE [s EXCEPT !.syncing = FALSE]

\* bcast_block, to the node.
bcast_block(s, b) ==
  IF s.greeted /\ ~ s.syncing /\ s.node_lib < Num[b]
    THEN PeerEnqueue(s, BlockMessage(b)) ELSE s

-----------------------------------------------------------------------------
\* The node becomes m.  The peers handle what it sent; a connection it closed is
\* closed at the other end too.
Becomes(m, consumed) ==
  LET lost(p) == node.conn[p].open /\ ~ m.conn[p].open
      read(p) == IF p = consumed THEN [peer[p] EXCEPT !.wire = Tail(@)] ELSE peer[p]
  IN  /\ node' = [m EXCEPT !.out = [p \in Peers |-> <<>>]]
      /\ peer' = [p \in Peers |-> IF lost(p) THEN NewSession(peer[p].chain)
                                  ELSE FoldLeft(PeerHandle, read(p), m.out[p])]

\* connection_monitor dials a connection that is down and was not refused.
Connect(p) ==
  /\ ~ node.conn[p].open
  /\ ~ node.conn[p].no_retry
  /\ Becomes(send_handshake([node EXCEPT !.conn[p].open = TRUE,
                                         !.conn[p].connecting = TRUE], p), NoPeer)
  /\ UNCHANGED faults

Receive(p) ==
  /\ peer[p].wire # <<>>
  /\ Becomes(handle_message(node, p, Head(peer[p].wire)), p)
  /\ UNCHANGED faults

Fault ==
  /\ faults.count < MaxFaults
  /\ faults' = [faults EXCEPT !.count = @ + 1]

\* An answer of p is under way.
Answering(p) == peer[p].wire # <<>> \/ (peer[p].writing /\ p \notin faults.hung)

\* The timer of p expires; its handler is posted to the main loop.  The answer
\* may merely be late.
Expire(p) ==
  /\ node.conn[p].timer
  /\ ~ node.conn[p].expired
  /\ IF Answering(p) THEN Fault ELSE UNCHANGED faults
  /\ node' = [node EXCEPT !.conn[p].timer = FALSE, !.conn[p].expired = TRUE]
  /\ UNCHANGED peer

sync_timeout(p) ==
  /\ node.conn[p].expired
  /\ Becomes(reassign_fetch([node EXCEPT !.conn[p].expired = FALSE], p), NoPeer)
  /\ UNCHANGED faults

\* The read of the connection fails.
Lose(p) ==
  /\ node.conn[p].open
  /\ Fault
  /\ Becomes(close(node, p), NoPeer)

-----------------------------------------------------------------------------
\* A write of p is complete: the next block of the range is queued and written.
PeerWrote(p) ==
  /\ peer[p].writing
  /\ p \notin faults.hung
  /\ peer' = [peer EXCEPT ![p] = do_queue_write(enqueue_sync_block([@ EXCEPT !.writing = FALSE]))]
  /\ UNCHANGED <<node, faults>>

\* p accepts another block, from the node or from elsewhere; at the end of a sync
\* of its own it sends handshakes.
PeerAccept(p, b) ==
  /\ b \in Ancestors[PeerEnd[p]] \ peer[p].chain.blocks
  /\ Linkable(peer[p].chain, b)
  /\ \E handshake \in BOOLEAN :
       LET s == bcast_block([peer[p] EXCEPT !.chain = Accepted(@, b)], b)
       IN  /\ handshake => b = PeerEnd[p] /\ s.greeted /\ ~ s.syncing
           /\ peer' = [peer EXCEPT ![p] = IF handshake THEN PeerEnqueue(s, Handshake(s.chain))
                                                       ELSE s]
  /\ UNCHANGED <<node, faults>>

Hang(p) ==
  /\ p \in MayHang \ faults.hung
  /\ faults.count < MaxFaults
  /\ faults' = [count |-> faults.count + 1, hung |-> faults.hung \cup {p}]
  /\ UNCHANGED <<node, peer>>

-----------------------------------------------------------------------------
Init ==
  /\ node = [chain |-> Branch(NodeStart), stage |-> "in_sync", known_lib |-> 0,
             last_requested |-> 0, next_expected |-> 1, source |-> NoPeer,
             conn |-> [p \in Peers |-> NewConnection], out |-> [p \in Peers |-> <<>>]]
  /\ peer = [p \in Peers |-> NewSession(Branch(PeerStart[p]))]
  /\ faults = [count |-> 0, hung |-> {}]

Next ==
  \E p \in Peers :
    \/ Connect(p) \/ Receive(p) \/ Expire(p) \/ sync_timeout(p) \/ Lose(p)
    \/ PeerWrote(p) \/ Hang(p)
    \/ \E b \in Blocks : PeerAccept(p, b)

Spec == Init /\ [][Next]_nsVars

\* The main loop runs what is posted to it, connections are dialled again, and
\* peers that have not hung answer.
Fairness ==
  \A p \in Peers :
    /\ []<>(node.conn[p].open \/ node.conn[p].no_retry)
    /\ []<>(peer[p].wire = <<>>) \/ []<><<Receive(p)>>_nsVars
    /\ []<>(~ node.conn[p].expired)
    /\ []<>(~ node.conn[p].timer \/ Answering(p))
    /\ []<>(~ peer[p].writing \/ p \in faults.hung) \/ []<><<PeerWrote(p)>>_nsVars
    /\ <>(PeerEnd[p] \in peer[p].chain.blocks)

FairSpec == Spec /\ Fairness

-----------------------------------------------------------------------------
(***************************************************************************)
(* Properties                                                              *)
(***************************************************************************)
\* Each field holds a value of its kind; in particular sync_known_lib_num is 0 or
\* the last irreversible number of some chain, never the number of a head, which
\* the notice that announces it carries as well, and no range reaches past it.
TypeOK ==
  /\ node.chain.blocks \subseteq Blocks
  /\ node.stage \in {"in_sync", "lib_catchup", "head_catchup"}
  /\ node.known_lib \in {0} \cup {LibNum(Branch(b)) : b \in Blocks}
  /\ node.last_requested \in 0..node.known_lib
  /\ node.next_expected \in {1} \cup {Num[b] + 1 : b \in Blocks}
  /\ node.source \in Peers \cup {NoPeer}
  /\ \A p \in Peers : node.conn[p].fork_head \in Blocks \cup {NoBlock}

\* While the node fetches irreversible blocks the next one it expects follows a
\* block it has and is no later than the last one known, and the end of the range
\* asked for lies between the two: late blocks of the former source, timeouts and
\* lost connections never leave the sync_manager waiting for a block that no
\* request of it can bring.
ExpectedFollows ==
  node.stage = "lib_catchup" =>
    /\ \E b \in node.chain.blocks : Num[b] + 1 = node.next_expected
    /\ node.next_expected <= node.known_lib
    /\ node.last_requested # 0 => node.last_requested \in node.next_expected..node.known_lib

\* lib_catchup ends, whatever answer is late, whichever connection is lost and
\* whichever peer hangs: the timer of the connection hands the range on.
SyncEnds == []<>(node.stage # "lib_catchup")

\* No peer that serves has a head the node would prefer to its own.
CaughtUp ==
  \A p \in Peers \ faults.hung :
    ~ first_preferred(peer[p].chain.head, node.chain.head)

\* Where nothing goes wrong the node comes to the best head of its peers, through
\* the irreversible blocks first, then the branch.
CatchesUp == <>[]CaughtUp \/ <>(faults.count > 0)

\* Nothing is under way between the node and its peers, and no timer runs.
Quiet ==
  \A p \in Peers : /\ node.conn[p].open
                   /\ ~ node.conn[p].timer /\ ~ node.conn[p].expired
                   /\ ~ Answering(p)
                   /\ PeerEnd[p] \in peer[p].chain.blocks

\* A node that is in_sync with nothing under way has caught up.  (A peer that
\* still waits for the node's answer to a notice sends it no block any more.)
InSyncIsCaughtUp == Quiet /\ node.stage = "in_sync" => CaughtUp
=============================================================================

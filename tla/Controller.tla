----------------------------- MODULE Controller -----------------------------
(***************************************************************************)
(* controller_impl and what it keeps: its head block, the chain state in   *)
(* chainbase, the database of reversible blocks, the block log and the     *)
(* fork database (module ForkDatabase, whose operations are conjoined into *)
(* the actions here).                                                      *)
(*                                                                         *)
(* One thread runs the controller, so a handler is never interleaved with  *)
(* another one.  It is still cut into the steps between two writes that    *)
(* survive the process, because the process may die there: job.pc says     *)
(* where the running handler is, and Crash is enabled at each of its       *)
(* values.                                                                 *)
(*                                                                         *)
(* Left out: snapshots, --replay-blockchain after a clean stop, errors of  *)
(* the file system, the resource guards (validate_db_available_size).      *)
(***************************************************************************)
EXTENDS ForkDatabase, Sequences, FiniteSetsExt

CONSTANTS
  Trxs,      \* input transactions (transaction_metadata::signed_id)
  TrxsOf,    \* the transactions of each block
  Invalid,   \* blocks with a good header that apply_block refuses
  Modes,     \* the values db_read_mode may be configured with
  CleanStop  \* whether the node is ever stopped in an orderly way

SPECULATIVE == "speculative"
IRREVERSIBLE == "irreversible"

\* A valid block holds no transaction that its branch already has.
ASSUME ControllerAssumption ==
  /\ TrxsOf \in [Blocks -> SUBSET Trxs]
  /\ Invalid \in SUBSET (Blocks \ {Genesis})
  /\ \A b \in Blocks \ Invalid :
       \A a \in Ancestors[b] \ {b} : TrxsOf[a] \cap TrxsOf[b] = {}
  /\ Modes \in SUBSET {SPECULATIVE, IRREVERSIBLE}
  /\ CleanStop \in BOOLEAN

VARIABLES
  head,       \* controller_impl::head
  dbAt,       \* the block after which chainbase's state is the chain state
  dbBase,     \* the last revision given to db.commit: db.undo stops there
  rev,        \* reversible_blocks
  blog,       \* block_log, from the genesis block
  pending,    \* controller_impl::pending, of a block being built locally
  unapplied,  \* unapplied_transactions
  metas,      \* the blocks whose block_state carries its trxs
  mode,       \* read_mode
  job,        \* the running handler
  fault       \* the first assertion that failed

ctrlVars == <<head, dbAt, dbBase, rev, blog, pending, unapplied, metas, mode,
              job, fault>>
vars == <<forkdbVars, ctrlVars>>

-----------------------------------------------------------------------------
NoPending == [open |-> FALSE, trxs |-> {}]

\* new, old: the locals of maybe_switch_forks (new_head and old_head) and of
\* log_irreversible (fork_head and root_id).  after: where a call returns to.
At(pc, new, old, after) == [pc |-> pc, new |-> new, old |-> old, after |-> after]
Goto(pc) == At(pc, NoBlock, NoBlock, "idle")
Idle == Goto("idle")
Switch(new, after) == At("switch", new, head, after)

logHead == blog[Len(blog)]
libNum == Num[logHead]
Valid(b) == b \notin Invalid
OnBranch(t, b) == \E a \in Ancestors[b] : t \in TrxsOf[a]

\* EOS_ASSERT of something the code takes for granted: the node stops.
\*   db_revision   start_block: "db revision is not on par with head block"
\*   commit_block  "committed block did not become the new head in fork database"
\*   reversal      "loss of sync between fork_db and chainbase during fork switch reversal"
\*   log_head      log_irreversible: "fork database root does not match block log head"
\*   gap           init: "gap exists between last irreversible block and first reversible block"
\*   init          init's other comparisons of the files with each other
\*   replay        replay_push_block: the next reversible block does not link
Fails(what) ==
  /\ fault' = what
  /\ job' = Goto("halt")
  /\ UNCHANGED <<forkdbVars, head, dbAt, dbBase, rev, blog, pending, unapplied,
                 metas, mode>>

-----------------------------------------------------------------------------
(* Transactions and blocks built by this node.                             *)

\* abort_block: a pending block gives its transactions back.
unappliedAfterAbort ==
  IF mode = SPECULATIVE THEN unapplied \cup pending.trxs ELSE unapplied

AbortBlock ==
  /\ job.pc = "idle"
  /\ pending.open
  /\ pending' = NoPending
  /\ unapplied' = unappliedAfterAbort
  /\ UNCHANGED <<forkdbVars, head, dbAt, dbBase, rev, blog, metas, mode, job,
                 fault>>

\* start_block, of a block with status incomplete.
StartBlock ==
  /\ job.pc = "idle"
  /\ ~ pending.open
  /\ IF Num[dbAt] # Num[head]
       THEN Fails("db_revision")
       ELSE /\ pending' = [open |-> TRUE, trxs |-> {}]
            /\ UNCHANGED <<forkdbVars, head, dbAt, dbBase, rev, blog, unapplied,
                           metas, mode, job, fault>>

\* push_transaction: it may fail for any reason, and does when the branch has it
\* already; only in speculative mode does it stay in the pending block.  A
\* failure that is subjective leaves it in unapplied_transactions.
PushTransaction(t) ==
  /\ job.pc = "idle"
  /\ pending.open
  /\ \/ /\ ~ OnBranch(t, head)
        /\ mode = SPECULATIVE
        /\ pending' = [pending EXCEPT !.trxs = @ \cup {t}]
        /\ unapplied' = unapplied \ {t}
     \/ /\ unapplied' \in {unapplied, unapplied \ {t}}
        /\ UNCHANGED pending
  /\ UNCHANGED <<forkdbVars, head, dbAt, dbBase, rev, blog, metas, mode, job,
                 fault>>

\* produce_block: finalize_block, and commit_block up to fork_db.add.
ProduceBlock(b) ==
  /\ job.pc = "idle"
  /\ mode = SPECULATIVE
  /\ pending.open
  /\ Prev[b] = head
  /\ Valid(b)
  /\ TrxsOf[b] = pending.trxs
  /\ Add(b)
  /\ job' = At("commit", b, head, "idle")
  /\ UNCHANGED <<head, dbAt, dbBase, rev, blog, pending, unapplied, metas, mode,
                 fault>>

\* Mutant of CommitBlock: fork_db.mark_valid is forgotten.
CommitBlockUnmarkedMutant ==
  /\ job.pc = "commit"
  /\ UNCHANGED forkdbVars
  /\ head' = fhead'
  /\ fault' = IF head' # job.new THEN "commit_block" ELSE fault
  /\ job' = IF head' # job.new THEN Goto("halt")
                               ELSE At("log", NoBlock, NoBlock, "push")
  /\ UNCHANGED <<dbAt, dbBase, rev, blog, pending, unapplied, metas, mode>>

\* Mutant of CommitBlock: the block is not put into reversible_blocks.
CommitBlockNotStoredMutant ==
  /\ job.pc = "commit"
  /\ MarkValid(job.new)
  /\ head' = fhead'
  /\ metas' = metas \cup {job.new}
  /\ job' = At("log", NoBlock, NoBlock, "push")
  /\ UNCHANGED <<dbAt, dbBase, rev, blog, pending, unapplied, mode, fault>>

\* commit_block( true ): mark_valid, the new head, the reversible block.
CommitBlock ==
  LET b == job.new
  IN  /\ job.pc = "commit"
      /\ MarkValid(b)
      /\ head' = fhead'
      /\ IF head' # b
           THEN /\ fault' = "commit_block"
                /\ job' = Goto("halt")
                /\ UNCHANGED <<rev, metas>>
           ELSE /\ rev' = rev \cup {b}
                /\ metas' = metas \cup {b}
                /\ job' = At("log", NoBlock, NoBlock, "push")
                /\ UNCHANGED fault
      /\ UNCHANGED <<dbAt, dbBase, blog, pending, unapplied, mode>>

\* The end of commit_block: pending->push().
PushSession ==
  /\ job.pc = "push"
  /\ dbAt' = head
  /\ pending' = NoPending
  /\ job' = Idle
  /\ UNCHANGED <<forkdbVars, head, dbBase, rev, blog, unapplied, metas, mode,
                 fault>>

-----------------------------------------------------------------------------
(* Received blocks.                                                        *)

\* on_incoming_block and push_block, up to fork_db.add: a known block is
\* dropped, the pending block is aborted, an unlinkable one throws.
PushBlock(b) ==
  /\ job.pc = "idle"
  /\ \A i \in 1..Len(blog) : blog[i] # b
  /\ Add(b)
  /\ pending' = NoPending
  /\ unapplied' = unappliedAfterAbort
  /\ job' = IF mode = IRREVERSIBLE THEN Goto("log") ELSE Goto("choose")
  /\ UNCHANGED <<head, dbAt, dbBase, rev, blog, metas, mode, fault>>

\* maybe_switch_forks( fork_db.pending_head() ): what to do, if anything.
ChooseFork ==
  /\ job.pc = "choose"
  /\ job' = IF pending_head = head THEN Idle ELSE Switch(pending_head, "idle")
  /\ UNCHANGED <<forkdbVars, head, dbAt, dbBase, rev, blog, pending, unapplied,
                 metas, mode, fault>>

\* Mutant of PopBlock: the block stays in reversible_blocks.
PopBlockKeepsReversibleMutant ==
  /\ Known(Prev[head])
  /\ head' = Prev[head]
  /\ dbAt' = IF Num[dbAt] > dbBase THEN Prev[dbAt] ELSE dbAt
  /\ UNCHANGED <<dbBase, rev, blog, pending, unapplied, metas, mode, fault>>

\* Mutant of PopBlock: the parent is looked up in the index, where the root is not.
PopBlockNoRootMutant ==
  /\ head' = IF Prev[head] \in index THEN Prev[head] ELSE NoBlock
  /\ dbAt' = IF Num[dbAt] > dbBase THEN Prev[dbAt] ELSE dbAt
  /\ rev' = {r \in rev : Num[r] # Num[head]}
  /\ unapplied' = IF mode = SPECULATIVE /\ head \in metas
                    THEN unapplied \cup TrxsOf[head] ELSE unapplied
  /\ UNCHANGED <<dbBase, blog, pending, metas, mode, fault>>

\* pop_block: db.undo does nothing once every session is committed.
PopBlock ==
  /\ Known(Prev[head])
  /\ head' = Prev[head]
  /\ dbAt' = IF Num[dbAt] > dbBase THEN Prev[dbAt] ELSE dbAt
  /\ rev' = {r \in rev : Num[r] # Num[head]}
  /\ unapplied' = IF mode = SPECULATIVE /\ head \in metas
                    THEN unapplied \cup TrxsOf[head] ELSE unapplied
  /\ UNCHANGED <<dbBase, blog, pending, metas, mode, fault>>

\* Mutant of ApplyBlock: its transactions stay in unapplied_transactions.
ApplyBlockKeepsUnappliedMutant(b) ==
  /\ Valid(b)
  /\ Num[dbAt] = Num[head]
  /\ dbAt' = b
  /\ head' = b
  /\ rev' = IF mode = IRREVERSIBLE \/ job.after = "replay" THEN rev
                                                           ELSE rev \cup {b}
  /\ UNCHANGED <<unapplied, pending, metas, mode, fault>>

\* apply_block of a good block, with the assignment to head that follows it at
\* each of its callers.  A block that is replayed is in reversible_blocks already.
ApplyBlock(b) ==
  /\ Valid(b)
  /\ Num[dbAt] = Num[head]
  /\ dbAt' = b
  /\ head' = b
  /\ unapplied' = unapplied \ TrxsOf[b]
  /\ rev' = IF mode = IRREVERSIBLE \/ job.after = "replay" THEN rev
                                                           ELSE rev \cup {b}
  /\ UNCHANGED <<pending, metas, mode, fault>>

\* apply_block of a bad block: the transactions it ran before it failed are
\* given back by abort_block, the one that failed is dropped.
ApplyFails(b) ==
  /\ ~ Valid(b)
  /\ \E done \in SUBSET {t \in TrxsOf[b] : ~ OnBranch(t, head)} :
       \E bad \in SUBSET (TrxsOf[b] \ done) :
         /\ \A t, u \in bad : t = u
         /\ unapplied' = IF mode = SPECULATIVE THEN (unapplied \ bad) \cup done
                                               ELSE unapplied
  /\ UNCHANGED <<head, dbAt, dbBase, rev, blog, pending, metas, mode, fault>>

-----------------------------------------------------------------------------
(* maybe_switch_forks from job.old to job.new.                             *)

\* Where an exception ends: in on_incoming_block, or, out of init, in main.
Thrown == IF job.after \in {"replay", "loop"} THEN Goto("down") ELSE Idle

SwitchPop ==
  /\ job.pc = "switch"
  /\ head \notin Ancestors[job.new]
  /\ PopBlock
  /\ UNCHANGED <<forkdbVars, job>>

SwitchApply ==
  LET b == NextTowards(head, job.new)
  IN  /\ job.pc = "switch"
      /\ head \in Ancestors[job.new]
      /\ ApplyBlock(b)
      /\ MarkValid(b)
      /\ job' = IF b = job.new THEN At("log", NoBlock, NoBlock, job.after) ELSE job
      /\ UNCHANGED <<dbBase, blog>>

\* The block is removed with all that is built on it.  When it was the only one
\* to apply the exception leaves now; otherwise the old branch is restored.
SwitchFails ==
  LET b == NextTowards(head, job.new)
  IN  /\ job.pc = "switch"
      /\ head \in Ancestors[job.new]
      /\ ApplyFails(b)
      /\ Remove(b)
      /\ job' = IF Prev[job.new] = job.old THEN Thrown
                                           ELSE [job EXCEPT !.pc = "unwind"]

\* Undo the blocks of the bad branch that were applied, and apply those of the
\* old one again.
UnwindPop ==
  /\ job.pc = "unwind"
  /\ head \notin Ancestors[job.old]
  /\ PopBlock
  /\ UNCHANGED <<forkdbVars, job>>

\* Mutant of UnwindApply: head is reset without applying the block again.
UnwindApplyHeadOnlyMutant ==
  /\ job.pc = "unwind"
  /\ head \in Ancestors[job.old] \ {job.old}
  /\ head' = NextTowards(head, job.old)
  /\ rev' = rev \cup {head'}
  /\ UNCHANGED <<forkdbVars, dbAt, dbBase, blog, pending, unapplied, metas, mode,
                 job, fault>>

UnwindApply ==
  /\ job.pc = "unwind"
  /\ head \in Ancestors[job.old] \ {job.old}
  /\ ApplyBlock(NextTowards(head, job.old))
  /\ UNCHANGED <<forkdbVars, dbBase, blog, job>>

\* When the old head is on the bad branch, branches.second is empty, and the
\* check reads the back() of an empty vector.
UnwindDone ==
  /\ job.pc = "unwind"
  /\ head = job.old
  /\ IF job.old \in Ancestors[job.new]
       THEN Fails("reversal")
       ELSE /\ job' = Thrown
            /\ UNCHANGED <<forkdbVars, head, dbAt, dbBase, rev, blog, pending,
                           unapplied, metas, mode, fault>>

-----------------------------------------------------------------------------
(* log_irreversible.                                                       *)

LogStart ==
  LET fork_head == IF mode = IRREVERSIBLE THEN pending_head ELSE fhead
  IN  /\ job.pc = "log"
      /\ IF root # logHead
           THEN Fails("log_head")
           ELSE /\ job' = IF Lib[fork_head] <= libNum
                            THEN Goto(job.after)
                            ELSE At("logging", fork_head, root, job.after)
                /\ UNCHANGED <<forkdbVars, head, dbAt, dbBase, rev, blog,
                               pending, unapplied, metas, mode, fault>>

\* Mutant of LogBlock: the branch is appended from its newest block.
LogBlockNewestFirstMutant ==
  LET b == AncestorAt(job.new, Lib[job.new])
  IN  /\ job.pc = "logging"
      /\ Num[job.old] < Lib[job.new]
      /\ IF mode = IRREVERSIBLE
           THEN ApplyBlock(b) /\ MarkValid(b)
           ELSE UNCHANGED <<forkdbVars, head, dbAt, rev, pending, unapplied,
                            metas, mode, fault>>
      /\ dbBase' = Num[b]
      /\ blog' = Append(blog, b)
      /\ job' = [job EXCEPT !.pc = "trim", !.old = b]

\* One block of the branch: applied only now in irreversible mode, then
\* db.commit and blog.append.
LogBlock ==
  LET b == NextTowards(job.old, job.new)
  IN  /\ job.pc = "logging"
      /\ Num[job.old] < Lib[job.new]
      /\ IF mode = IRREVERSIBLE
           THEN ApplyBlock(b) /\ MarkValid(b)
           ELSE UNCHANGED <<forkdbVars, head, dbAt, rev, pending, unapplied,
                            metas, mode, fault>>
      /\ dbBase' = Num[b]
      /\ blog' = Append(blog, b)
      /\ job' = [job EXCEPT !.pc = "trim", !.old = b]

\* The reversible blocks up to the one just logged go.
LogTrim ==
  /\ job.pc = "trim"
  /\ rev' = {r \in rev : Num[r] > Num[job.old]}
  /\ job' = [job EXCEPT !.pc = "logging"]
  /\ UNCHANGED <<forkdbVars, head, dbAt, dbBase, blog, pending, unapplied, metas,
                 mode, fault>>

\* Mutant of LogDone: fork_db.advance_root is forgotten.
LogDoneKeepsRootMutant ==
  /\ job.pc = "logging"
  /\ Num[job.old] = Lib[job.new]
  /\ job' = Goto(job.after)
  /\ UNCHANGED <<forkdbVars, head, dbAt, dbBase, rev, blog, pending, unapplied,
                 metas, mode, fault>>

LogDone ==
  /\ job.pc = "logging"
  /\ Num[job.old] = Lib[job.new]
  /\ AdvanceRoot(job.old)
  /\ job' = Goto(job.after)
  /\ UNCHANGED <<head, dbAt, dbBase, rev, blog, pending, unapplied, metas, mode,
                 fault>>

\* A bad block in irreversible mode: what was logged stays, the rest is thrown.
LogFails ==
  /\ job.pc = "logging"
  /\ Num[job.old] < Lib[job.new]
  /\ mode = IRREVERSIBLE
  /\ ApplyFails(NextTowards(job.old, job.new))
  /\ IF job.old # root THEN AdvanceRoot(job.old) ELSE UNCHANGED forkdbVars
  /\ job' = Idle

-----------------------------------------------------------------------------
(* Stops and starts.                                                       *)

\* The process dies.  What it leaves on disk: the block log, the reversible
\* blocks, and a chain state marked dirty; fork_db.dat was removed by open().
Crash ==
  /\ job.pc \notin {"down", "crashed", "halt"}
  /\ job' = Goto("crashed")
  /\ pending' = NoPending
  /\ unapplied' = {}
  /\ metas' = {}
  /\ UNCHANGED <<forkdbVars, head, dbAt, dbBase, rev, blog, mode, fault>>

\* init, in common to both ways to start: the reversible blocks that stay.
keptReversible(m) ==
  IF m = IRREVERSIBLE THEN {} ELSE {r \in rev : Num[r] > libNum}
lastBlockNum(m) == Max({libNum} \cup {Num[r] : r \in keptReversible(m)})
Gap(m) == /\ keptReversible(m) # {}
          /\ \A r \in keptReversible(m) : Num[r] # libNum + 1

\* Mutant of Restart: the node starts at the genesis block and not at the log's end.
RestartAtGenesisMutant(m) ==
  /\ job.pc = "crashed"
  /\ Reset(Genesis)
  /\ head' = Genesis
  /\ dbAt' = Genesis
  /\ dbBase' = Num[Genesis]
  /\ rev' = {}
  /\ mode' = m
  /\ job' = Goto("replay")
  /\ UNCHANGED <<blog, pending, unapplied, metas, fault>>

\* --replay-blockchain, the way to start after a crash: the chain state is built
\* anew from the block log, and the fork database starts at its last block.
Restart(m) ==
  /\ job.pc = "crashed"
  /\ IF Gap(m)
       THEN Fails("gap")
       ELSE /\ Reset(logHead)
            /\ head' = logHead
            /\ dbAt' = logHead
            /\ dbBase' = libNum
            /\ rev' = keptReversible(m)
            /\ mode' = m
            /\ job' = Goto("replay")
            /\ UNCHANGED <<blog, pending, unapplied, metas, fault>>

\* An orderly stop writes the fork database to its file.
Shutdown ==
  /\ CleanStop
  /\ job.pc = "idle"
  /\ job' = Goto("down")
  /\ pending' = NoPending
  /\ unapplied' = {}
  /\ metas' = {}
  /\ UNCHANGED <<forkdbVars, head, dbAt, dbBase, rev, blog, mode, fault>>

\* init's comparison of the fork database with the reversible blocks.
PendingHeadMatches ==
  LET p == pending_head
      last == lastBlockNum(SPECULATIVE)
      kept == keptReversible(SPECULATIVE)
  IN  kept # {} /\ libNum < Num[p]
        => AncestorAt(p, Min({last, Num[p]})) \in kept

\* Mutant of Startup: the loop that undoes revisions above the head is missing.
StartupWithoutUndoMutant(m) ==
  LET h == IF m = IRREVERSIBLE THEN root ELSE fhead
  IN  /\ job.pc = "down"
      /\ IF m = IRREVERSIBLE /\ fhead # root
           THEN RollbackHeadToRoot ELSE UNCHANGED forkdbVars
      /\ head' = h
      /\ rev' = keptReversible(m)
      /\ unapplied' = {}
      /\ metas' = index
      /\ mode' = m
      /\ job' = IF lastBlockNum(m) > Num[h] THEN Goto("replay") ELSE Goto("init")
      /\ UNCHANGED <<dbAt, dbBase, blog, pending, fault>>

\* init after an orderly stop.
Startup(m) ==
  LET h == IF m = IRREVERSIBLE THEN root ELSE fhead
  IN  /\ job.pc = "down"
      /\ IF \/ Num[dbAt] < Num[h]
            \/ /\ m # IRREVERSIBLE
               /\ Gap(m) \/ Num[h] > lastBlockNum(m) \/ ~ PendingHeadMatches
           THEN Fails("init")
           ELSE /\ IF m = IRREVERSIBLE /\ fhead # root
                     THEN RollbackHeadToRoot ELSE UNCHANGED forkdbVars
                /\ head' = h
                /\ dbAt' = AncestorAt(dbAt, Num[h])
                /\ rev' = keptReversible(m)
                /\ unapplied' = {}
                /\ metas' = index
                /\ mode' = m
                /\ job' = IF lastBlockNum(m) > Num[h] THEN Goto("replay")
                                                      ELSE Goto("init")
                /\ UNCHANGED <<dbBase, blog, pending, fault>>

\* replay_push_block of the next reversible block.
ReplayReversible(r) ==
  /\ job.pc = "replay"
  /\ r \in rev
  /\ Num[r] = Num[head] + 1
  /\ IF Prev[r] # head
       THEN Fails("replay")
       ELSE /\ Add(r) \/ (r \in index /\ UNCHANGED forkdbVars)
            /\ job' = Switch(r, "replay")
            /\ UNCHANGED <<head, dbAt, dbBase, rev, blog, pending, unapplied,
                           metas, mode, fault>>

\* Mutant of ReplayDone: the loop waits for reversible_blocks to be empty.
ReplayDoneWhenEmptyMutant ==
  /\ job.pc = "replay"
  /\ rev = {}
  /\ job' = Goto("init")
  /\ UNCHANGED <<forkdbVars, head, dbAt, dbBase, rev, blog, pending, unapplied,
                 metas, mode, fault>>

ReplayDone ==
  /\ job.pc = "replay"
  /\ \A r \in rev : Num[r] # Num[head] + 1
  /\ job' = Goto("init")
  /\ UNCHANGED <<forkdbVars, head, dbAt, dbBase, rev, blog, pending, unapplied,
                 metas, mode, fault>>

\* The end of init: blocks that irreversible mode did not apply are applied now.
InitBranch ==
  /\ \/ job.pc = "init" /\ mode # IRREVERSIBLE /\ fhead = root
     \/ job.pc = "loop"
  /\ pending_head # fhead
  /\ job' = Switch(pending_head, "loop")
  /\ UNCHANGED <<forkdbVars, head, dbAt, dbBase, rev, blog, pending, unapplied,
                 metas, mode, fault>>

\* Mutant of InitDone: the branch kept from irreversible mode is not applied.
InitDoneSkipsBranchMutant ==
  /\ job.pc \in {"init", "loop"}
  /\ job' = Idle
  /\ UNCHANGED <<forkdbVars, head, dbAt, dbBase, rev, blog, pending, unapplied,
                 metas, mode, fault>>

InitDone ==
  /\ \/ job.pc = "init" /\ (mode = IRREVERSIBLE \/ fhead # root)
     \/ job.pc \in {"init", "loop"} /\ pending_head = fhead
  /\ job' = Idle
  /\ UNCHANGED <<forkdbVars, head, dbAt, dbBase, rev, blog, pending, unapplied,
                 metas, mode, fault>>

-----------------------------------------------------------------------------
Init ==
  /\ ForkDbInit
  /\ head = Genesis
  /\ dbAt = Genesis
  /\ dbBase = Num[Genesis]
  /\ rev = {}
  /\ blog = <<Genesis>>
  /\ pending = NoPending
  /\ unapplied = {}
  /\ metas = {}
  /\ mode \in Modes
  /\ job = Idle
  /\ fault = "none"

\* What the main thread does without waiting for anything.
Step ==
  \/ CommitBlock \/ PushSession
  \/ ChooseFork \/ SwitchPop \/ SwitchApply \/ SwitchFails
  \/ UnwindPop \/ UnwindApply \/ UnwindDone
  \/ LogStart \/ LogBlock \/ LogTrim \/ LogDone \/ LogFails
  \/ ReplayDone \/ InitBranch \/ InitDone
  \/ \E r \in Blocks : ReplayReversible(r)

Next ==
  \/ Step
  \/ AbortBlock \/ StartBlock \/ Crash \/ Shutdown
  \/ \E t \in Trxs : PushTransaction(t)
  \/ \E b \in Blocks : ProduceBlock(b) \/ PushBlock(b)
  \/ \E m \in Modes : Restart(m) \/ Startup(m)

Spec == Init /\ [][Next]_vars /\ WF_vars(Step)

-----------------------------------------------------------------------------
TypeOK ==
  /\ ForkDbTypeOK
  /\ head \in Blocks
  /\ dbAt \in Blocks
  /\ dbBase \in Nat
  /\ rev \in SUBSET Blocks
  /\ blog \in Seq(Blocks) /\ blog # <<>>
  /\ pending \in [open : BOOLEAN, trxs : SUBSET Trxs]
  /\ unapplied \in SUBSET Trxs
  /\ metas \in SUBSET Blocks
  /\ mode \in Modes
  /\ job \in [pc : {"idle", "commit", "push", "choose", "switch", "unwind", "log",
                    "logging", "trim", "replay", "init", "loop", "down",
                    "crashed", "halt"},
              new : Blocks \cup {NoBlock},
              old : Blocks \cup {NoBlock},
              after : {"idle", "push", "replay", "loop"}]

AtRest == job.pc \in {"idle", "down"}

(***************************************************************************)
(* None of the conditions the code asserts because they "should never      *)
(* fail" fails: the database revision is on par with the head at           *)
(* start_block, a committed block is the new head, the root of the fork    *)
(* database is the end of the block log, a restart finds no gap in the     *)
(* reversible blocks and can link each of them.                            *)
(***************************************************************************)
NoFault == fault = "none"

(***************************************************************************)
(* Whenever no handler runs, the chain state in chainbase is the one after *)
(* the head block: the undo of pop_block, the sessions pushed by           *)
(* commit_block and the undo of init keep in step with head, through failed *)
(* fork switches too.                                                      *)
(***************************************************************************)
DbMatchesHead == AtRest => dbAt = head

(***************************************************************************)
(* Whenever no handler runs, reversible_blocks is the branch from the root *)
(* to the head, one block for each number: what a replay needs to come     *)
(* back to the same head.  In irreversible mode it is empty.               *)
(***************************************************************************)
ReversibleIsBranch ==
  AtRest => rev = IF mode = IRREVERSIBLE THEN {}
                  ELSE Ancestors[head] \ Ancestors[root]

(***************************************************************************)
(* At every step, also in the middle of a handler, the reversible blocks   *)
(* above the block log form one chain that starts at its last block: a     *)
(* crash at any point leaves files from which the node can be restarted.   *)
(***************************************************************************)
CrashSafe ==
  LET above == {r \in rev : Num[r] > libNum}
  IN  /\ \A r \in above : Prev[r] = logHead \/ Prev[r] \in above
      /\ \A r, s \in rev : Num[r] = Num[s] => r = s

(***************************************************************************)
(* The block log is one chain: each block was appended after its parent,   *)
(* over any number of calls of log_irreversible, in both modes, with       *)
(* crashes and restarts between them.                                      *)
(***************************************************************************)
LogIsChain == \A i \in 1..(Len(blog) - 1) : Prev[blog[i + 1]] = blog[i]

(***************************************************************************)
(* The fork database starts where the block log ends, and the head is      *)
(* built on it, whenever no handler runs.                                  *)
(***************************************************************************)
RootIsLogHead == AtRest => root = logHead /\ root \in Ancestors[head]

(***************************************************************************)
(* A transaction waiting in unapplied_transactions is not on the branch of *)
(* the head when no handler runs: a fork switch that applies it elsewhere, *)
(* or comes back, takes it off the list.                                   *)
(***************************************************************************)
UnappliedNotOnBranch ==
  job.pc = "idle" => \A t \in unapplied : ~ OnBranch(t, head)

(***************************************************************************)
(* Without invalid blocks a node that is not in irreversible mode has      *)
(* applied the best branch it knows once a handler returns.                *)
(***************************************************************************)
FollowsBest ==
  job.pc = "idle" /\ mode # IRREVERSIBLE =>
    /\ head = fhead
    /\ \A b \in index : ~ first_preferred(b, head)

(***************************************************************************)
(* The checks of init ("mismatch in block id of pending head block" and    *)
(* the others) never refuse what an orderly stop has left.                 *)
(***************************************************************************)
NeverRefusesToStart == fault # "init"

(***************************************************************************)
(* Finality: with the block log as its ledger and head as its tip, the     *)
(* controller implements module Ledger, in every mode, through fork        *)
(* switches that fail, crashes in the middle of log_irreversible and       *)
(* restarts: no irreversible block is ever undone or replaced.             *)
(***************************************************************************)
LedgerOf == INSTANCE Ledger WITH ledger <- blog, tip <- head
Finality == LedgerOf!LedgerSpec

(***************************************************************************)
(* A handler ends: the node is idle again, or stopped.  Crashes apart,     *)
(* nothing the main thread does to a block waits for anything else.        *)
(***************************************************************************)
HandlerEnds ==
  [](job.pc \notin {"idle", "down", "crashed"}
       => <>(job.pc \in {"idle", "down", "crashed"}))
=============================================================================

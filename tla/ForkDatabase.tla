---------------------------- MODULE ForkDatabase ----------------------------
(***************************************************************************)
(* fork_database: the tree of reversible blocks a node knows, rooted at    *)
(* the last irreversible block.  Each operation of the class is an action; *)
(* its EOS_ASSERTs are guards, so a call the code would refuse is not a    *)
(* step.  The index holds block_state objects; `validated` is the set of   *)
(* those whose validated flag is set.  close() and open() write the        *)
(* database to a file and read it back, which leaves these variables as    *)
(* they are.                                                               *)
(***************************************************************************)
EXTENDS BlockTree

VARIABLES
  index,      \* fork_database_impl::index, the ids it holds
  validated,  \* the blocks of the index, and the root, with validated set
  root,       \* fork_database_impl::root, the last irreversible block
  fhead       \* fork_database_impl::head, the best valid block

forkdbVars == <<index, validated, root, fhead>>

-----------------------------------------------------------------------------
\* get_block_header: a block the database can name, the root included.
Known(b) == b = root \/ b \in index

\* reset: a database that holds a root and nothing else.
Reset(b) ==
  /\ index' = {}
  /\ validated' = {b}
  /\ root' = b
  /\ fhead' = b

\* rollback_head_to_root: every block has to be validated anew.
RollbackHeadToRoot ==
  /\ validated' = {root}
  /\ fhead' = root
  /\ UNCHANGED <<index, root>>

\* Mutant of Add: the new head is not tested with is_valid().
AddUncheckedMutant(b) ==
  /\ Known(Prev[b])
  /\ b \notin index
  /\ index' = index \cup {b}
  /\ \E c \in index' : IsFirstOf(c, index') /\ fhead' = c
  /\ UNCHANGED <<validated, root>>

\* add: the new block is not validated; the head moves to the first valid
\* block of the index, in the full order of the index.
Add(b) ==
  /\ Known(Prev[b])
  /\ b \notin index
  /\ index' = index \cup {b}
  /\ \/ \E c \in index' \cap validated : /\ IsFirstOf(c, index' \cap validated)
                                         /\ fhead' = c
     \/ /\ index' \cap validated = {}
        /\ fhead' = fhead
  /\ UNCHANGED <<validated, root>>

\* mark_valid: the head moves to the first valid block of the index only when
\* the fork choice prefers it strictly.
MarkValid(b) ==
  \/ /\ b \in validated
     /\ UNCHANGED forkdbVars
  \/ /\ b \notin validated
     /\ b \in index
     /\ validated' = validated \cup {b}
     /\ \E c \in index \cap validated' :
          /\ IsFirstOf(c, index \cap validated')
          /\ fhead' = IF first_preferred(c, fhead) THEN c ELSE fhead
     /\ UNCHANGED <<index, root>>

\* remove: a block and everything built on it, unless the head is among them.
Remove(b) ==
  /\ fhead \notin DescendantsIn(index, b)
  /\ index' = index \ DescendantsIn(index, b)
  /\ validated' = validated \ DescendantsIn(index, b)
  /\ UNCHANGED <<root, fhead>>

\* Mutant of AdvanceRoot: the branches that do not lead to the new root stay.
AdvanceRootKeepsForksMutant(b) ==
  /\ b \in index
  /\ b \in validated
  /\ fhead \in DescendantsIn(index, b)
  /\ root' = b
  /\ index' = index \ {b}
  /\ validated' = validated \ {root}
  /\ UNCHANGED fhead

\* advance_root: only what is built on the new root stays.
AdvanceRoot(b) ==
  /\ b \in index
  /\ b \in validated
  /\ fhead \in DescendantsIn(index, b)
  /\ root' = b
  /\ index' = DescendantsIn(index, b) \ {b}
  /\ validated' = validated \cap DescendantsIn(index, b)
  /\ UNCHANGED fhead

\* pending_head: the first block not yet validated if the fork choice prefers
\* it to the head, else the head.
pending_head ==
  LET open == {b \in index \ validated : IsFirstOf(b, index \ validated)}
  IN  IF \E b \in open : first_preferred(b, fhead)
        THEN CHOOSE b \in open : TRUE
        ELSE fhead

-----------------------------------------------------------------------------
ForkDbInit ==
  /\ index = {}
  /\ validated = {Genesis}
  /\ root = Genesis
  /\ fhead = Genesis

ForkDbNext ==
  \/ RollbackHeadToRoot
  \/ \E b \in Blocks : \/ Reset(b)
                       \/ Add(b)
                       \/ MarkValid(b)
                       \/ Remove(b)
                       \/ AdvanceRoot(b)

ForkDbSpec == ForkDbInit /\ [][ForkDbNext]_forkdbVars

-----------------------------------------------------------------------------
ForkDbTypeOK ==
  /\ index \in SUBSET Blocks
  /\ validated \in SUBSET Blocks
  /\ root \in Blocks
  /\ fhead \in Blocks

(***************************************************************************)
(* No orphan: a block of the index is built on the root, and its parent is *)
(* at hand ("invariant violation: orphaned branch was present in forked    *)
(* database" in advance_root).                                             *)
(***************************************************************************)
NoOrphans ==
  \A b \in index : /\ Known(Prev[b])
                   /\ b # root
                   /\ root \in Ancestors[b]

(***************************************************************************)
(* The head is a valid block of the database, and no valid block is        *)
(* strictly preferred to it (what open() demands of a file: "head not set  *)
(* to best available option available").                                   *)
(***************************************************************************)
HeadIsBestValid ==
  /\ Known(fhead)
  /\ root \in validated
  /\ fhead \in validated
  /\ \A b \in validated : Known(b) /\ ~ first_preferred(b, fhead)

ForkDbInv == ForkDbTypeOK /\ NoOrphans /\ HeadIsBestValid
=============================================================================

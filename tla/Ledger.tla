------------------------------- MODULE Ledger -------------------------------
(***************************************************************************)
(* What a node promises about finality, whatever happens to it: the        *)
(* irreversible blocks form one chain that only ever grows at its end, and *)
(* the block the node stands on is always built on the last of them.       *)
(* Between two growths the node may move to any branch built on it.        *)
(***************************************************************************)
EXTENDS BlockTree, Sequences

VARIABLES
  ledger,  \* the irreversible blocks
  tip      \* the block the chain state belongs to

ledgerVars == <<ledger, tip>>

last == ledger[Len(ledger)]

LedgerInit ==
  /\ ledger = <<Genesis>>
  /\ tip = Genesis

MoveTip(b) ==
  /\ last \in Ancestors[b]
  /\ tip' = b
  /\ UNCHANGED ledger

Finalize(f, b) ==
  /\ Prev[f] = last
  /\ f \in Ancestors[b]
  /\ ledger' = Append(ledger, f)
  /\ tip' = b

LedgerNext ==
  \E b \in Blocks : MoveTip(b) \/ \E f \in Blocks : Finalize(f, b)

LedgerSpec == LedgerInit /\ [][LedgerNext]_ledgerVars
=============================================================================

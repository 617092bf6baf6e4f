------------------------------ MODULE Deferred ------------------------------
(***************************************************************************)
(* Transactions on one node that produces: input transactions, delayed     *)
(* ones, the deferred transactions that contracts send, and the loop of    *)
(* the producer that retires them.  A transaction runs against the         *)
(* database of module Authorization, extended with                         *)
(*   gtos        generated_transaction_object, with its chainbase id       *)
(*   next_id     the next chainbase id                                     *)
(*   correction  account_ram_correction_object, 0 where there is none      *)
(*   features    the activated protocol features                           *)
(*   dropped     history: the ids of cancelled and replaced transactions   *)
(* A transaction has one action.  Time counts blocks; the wall clock of    *)
(* the blacklist runs with it.  Net and CPU are left out: any transaction  *)
(* may run out of them.  The contract that sends deferred transactions is  *)
(* external: its actions "send" and "cancel" do what their parameters say  *)
(* or throw, its onerror handler does nothing, sends again or throws.      *)
(* An input transaction may come in a block of another producer, so what   *)
(* schedule_deferred_transaction refuses only in a block that this node    *)
(* produces (replacing before replace_deferred) is allowed.                *)
(***************************************************************************)
EXTENDS Authorization, FiniteSetsExt

CONSTANTS
  Trxs,        \* the transactions that may be pushed
  Genesis,     \* the database at the start
  Activatable, \* the features that may be activated
  Privileged,  \* the privileged contracts
  NoSender,    \* account_name()
  GtoBytes,    \* billable_size_v<generated_transaction_object>
  Window,      \* deferred_trx_expiration_window
  MaxGto,      \* bound: generated transactions
  MaxTime      \* bound: blocks

VARIABLES
  db,
  now,        \* pending_block_time
  cursor,     \* the last scheduled transaction tried in this block
  blacklist,  \* _blacklisted_transactions
  receipts    \* history: the number of receipts by chainbase id

vars == <<db, now, cursor, blacklist, receipts>>

Ids == 1..MaxGto
Key(g) == <<g.delay_until, g.id>>
Before(k, l) == k[1] < l[1] \/ (k[1] = l[1] /\ k[2] < l[2])
Exhausted == <<MaxTime + 1, 0>>
Bytes(g) == GtoBytes + g.trx.bytes
Active(d, f) == f \in d.features

Sum(f) == SumFunction(f)

\* What an account has in the database, in bytes.
Stored(d, a) ==
  (IF Exists(d, a) THEN AccountBytes ELSE 0)
  + Sum([k \in {k \in DOMAIN d.perms : k[1] = a} |-> PermissionSize(d.perms[k])])
  + LinkBytes * Cardinality({k \in DOMAIN d.links : k[1] = a})
  + Sum([g \in {g \in d.gtos : g.payer = a} |-> Bytes(g)])

Fields == {"perms", "links", "ram", "limits", "pending", "total", "validate",
           "gtos", "next_id", "correction", "features", "dropped"}

ASSUME DeferredAssumption ==
  /\ MaxGto \in Nat /\ MaxTime \in Nat /\ Window \in Nat /\ GtoBytes \in Nat
  /\ DOMAIN Genesis = Fields
  /\ Rooted(Genesis) /\ LinksResolve(Genesis)
  /\ Genesis.gtos = {} /\ Genesis.dropped = {} /\ Genesis.next_id = 1

\* The transactions, with those that they have a contract send.
Contents == Trxs \cup {trx.trx : trx \in {t \in Trxs : t.op = "send"}}

ASSUME ContentsAssumption ==
  \A trx \in Contents :
    /\ trx.bytes \in Nat
    /\ trx.op \in {"newaccount", "updateauth"} => trx.size \in Nat
    /\ trx.op = "setlimits" => trx.ram \in Int
    /\ trx.op = "send" => trx.trx \in Contents

ASSUME GenesisAssumption ==
  /\ Genesis.ram \in [Accounts -> Nat] /\ Genesis.correction \in [Accounts -> Nat]
  /\ Genesis.limits \in [Accounts -> Int] /\ Genesis.pending \in [Accounts -> Int]
  /\ \A k \in DOMAIN Genesis.perms : Genesis.perms[k].size \in Nat
  /\ \A k \in DOMAIN Genesis.perms : Exists(Genesis, k[1])
  /\ IsFiniteSet(Accounts)
  /\ IsFiniteSet(DOMAIN Genesis.perms) /\ IsFiniteSet(DOMAIN Genesis.links)
  /\ Genesis.total = Sum([a \in Accounts |-> Positive(Genesis.limits[a])])

\* The accounts that the genesis has not billed for all they have: eosio.prods,
\* for whose two further permissions initialize_database adds no RAM usage.
Unbilled == {a \in Accounts : Genesis.ram[a] # Stored(Genesis, a) + Genesis.correction[a]}

------------------------------------------------------------------------------
(* Authorization of transactions, and what they do.                        *)

Delayed(d, trx) == {g \in d.gtos : g.sender = NoSender /\ g.trx = trx}

\* check_authorization, with check_canceldelay_authorization.
Authorized(d, trx) ==
  IF trx.op = "canceldelay"
  THEN /\ Satisfies(d, trx.account, trx.auth, trx.of.auth)
       /\ trx.account = trx.of.account
       /\ Delayed(d, trx.of) # {}
  ELSE MinimumMet(d, trx)

\* The parts of a new generated_transaction_object.
Generated(d, t, trx, sender, sender_id, payer, trx_id) ==
  [id |-> d.next_id, trx_id |-> trx_id, sender |-> sender,
   sender_id |-> sender_id, payer |-> payer, published |-> t,
   delay_until |-> t + trx.delay, expiration |-> t + trx.delay + Window,
   trx |-> trx]

\* The bounds of the model.
Room(d, t, trx) == d.next_id <= MaxGto /\ t + trx.delay + Window < MaxTime

\* by_trx_id is unique, so create throws for an id that is there.
Create(d, g) ==
  IF \E h \in d.gtos : h.trx_id = g.trx_id
  THEN {}
  ELSE AddRam([d EXCEPT !.gtos = @ \cup {g}, !.next_id = @ + 1], g.payer, Bytes(g))

\* The id of a transaction hashes its contents, which have the block it was
\* sent in, or the transaction and sender_id it was sent by.
TrxId(d, t, trx) ==
  [of |-> trx, nonce |-> IF Active(d, "no_duplicate") THEN d.next_id ELSE 0 - t]

\* transaction_context::schedule_transaction.
ScheduleDelayed(d, t, trx) ==
  LET id == [of |-> trx, nonce |-> d.next_id]
  IN  IF ~ Room(d, t, trx) THEN {}
      ELSE Create(d, Generated(d, t, trx, NoSender, id, trx.account, id))

Drop(d, g) == [d EXCEPT !.gtos = @ \ {g}, !.dropped = @ \cup {g.id}]

ReplaceUnbilledMutant(d, g) == {Drop(d, g)}

\* Replacing: the payer of the old one has its RAM back at once, or when
\* replace_deferred is activated.
Replace(d, g) ==
  IF Active(d, "replace_deferred")
  THEN AddRam(Drop(d, g), g.payer, 0 - Bytes(g))
  ELSE {[Drop(d, g) EXCEPT !.correction[g.payer] = @ + Bytes(g)]}

\* Whom the deferred transaction of act may be billed to: itself, or an account that
\* authorized the action; a privileged contract may bill any account.
MayBill(d, act) ==
  /\ Exists(d, act.payer)
  /\ act.code \in Privileged \/ act.payer \in {act.code, act.account}

\* Whether the receiver may send trx: no check for a privileged contract; a
\* failed one is ignored if all actions are of the contract itself.
MaySend(d, receiver, trx) ==
  \/ receiver \in Privileged
  \/ Authorized(d, trx)
  \/ /\ ~ Active(d, "restrict_self")
     /\ trx.op \in {"send", "cancel"} /\ trx.code = receiver

\* apply_context::schedule_deferred_transaction, called by act.code.
ScheduleDeferred(d, t, act) ==
  LET trx == act.trx
      old == {g \in d.gtos : g.sender = act.code /\ g.sender_id = act.sender_id}
      Sent(e, id) == Create(e, Generated(e, t, trx, act.code, act.sender_id, act.payer, id))
  IN  IF \/ ~ Room(d, t, trx)
         \/ ~ MayBill(d, act)
         \/ ~ MaySend(d, act.code, trx)
         \/ old # {} /\ ~ act.replace
      THEN {}
      ELSE IF old = {}
      THEN Sent(d, TrxId(d, t, trx))
      ELSE UNION {UNION {Sent(e, IF Active(d, "replace_deferred")
                                 THEN TrxId(d, t, trx) ELSE g.trx_id)
                         : e \in Replace(d, g)} : g \in old}

\* apply_context::cancel_deferred_transaction.
CancelDeferred(d, found) ==
  IF found = {} THEN {d}
  ELSE UNION {AddRam(Drop(d, g), g.payer, 0 - Bytes(g)) : g \in found}

Apply(d, t, trx) ==
  CASE trx.op = "newaccount" -> NewAccount(d, trx)
    [] trx.op = "updateauth" -> UpdateAuth(d, trx)
    [] trx.op = "deleteauth" -> DeleteAuth(d, trx)
    [] trx.op = "linkauth" -> LinkAuth(d, trx)
    [] trx.op = "unlinkauth" -> UnlinkAuth(d, trx)
    [] trx.op = "canceldelay" -> CancelDeferred(d, Delayed(d, trx.of))
    [] trx.op = "setlimits" -> SetLimits(d, trx)
    [] trx.op = "send" -> ScheduleDeferred(d, t, trx)
    [] OTHER ->  \* cancel
         CancelDeferred(d, {g \in d.gtos : g.sender = trx.code
                                          /\ g.sender_id = trx.sender_id})

\* A transaction_context of its own, up to the RAM part of finalize.
Execute(d, t, trx) ==
  {e \in Apply([d EXCEPT !.validate = {}], t, trx) : RamVerified(e)}

------------------------------------------------------------------------------
Init ==
  /\ db = Genesis
  /\ now = 1
  /\ cursor = <<0, 0>>
  /\ blacklist = {}
  /\ receipts = [i \in Ids |-> 0]

\* controller_impl::push_transaction of an input transaction; finalize reads
\* the declared permission once more.  One that throws leaves no trace.
PushTransaction(trx) ==
  /\ Authorized(db, trx)
  /\ db' \in IF trx.delay = 0
             THEN Execute(db, now, trx)
             ELSE {d \in ScheduleDelayed([db EXCEPT !.validate = {}], now, trx) :
                     RamVerified(d)}
  /\ Has(db', trx.account, trx.auth)
  /\ UNCHANGED <<now, cursor, blacklist, receipts>>

Expired(g) == g.expiration < now
Blacklisted(g) == \E b \in blacklist : b.trx_id = g.trx_id

\* The transactions that the loop of process_scheduled_and_incoming_trxs
\* still has ahead of it; it takes them in the order of by_delay.
Ahead ==
  {g \in db.gtos : /\ Before(cursor, Key(g))
                   /\ g.delay_until <= now /\ g.published < now
                   /\ ~ Blacklisted(g)}

\* remove_scheduled_transaction.
Removed(g) ==
  [db EXCEPT !.gtos = @ \ {g}, !.ram[g.payer] = @ - Bytes(g), !.validate = {}]

Receipt(g) == receipts' = [receipts EXCEPT ![g.id] = @ + 1]

Blacklist(g) ==
  blacklist' = blacklist \cup
    {[trx_id |-> g.trx_id, until |-> IF now + Window < MaxTime THEN now + Window ELSE MaxTime]}

Expire(g) ==
  /\ Expired(g)
  /\ db' = Removed(g)
  /\ Receipt(g)
  /\ UNCHANGED blacklist

Executed(g) ==
  /\ ~ Expired(g)
  /\ db' \in Execute(Removed(g), now, g.trx)
  /\ Receipt(g)
  /\ UNCHANGED blacklist

\* A transaction may always run out of CPU or fail for a reason of this node
\* only; it fails for good where the native action or the contract throws.
FailsForGood(g) ==
  \/ g.trx.op \in {"send", "cancel"}
  \/ Execute(Removed(g), now, g.trx) = {}

\* apply_onerror: the contract ignores the error or sends once more.
OnError(g) ==
  {Removed(g)} \cup
  Execute(Removed(g), now,
          [op |-> "send", account |-> g.sender, code |-> g.sender,
           sender_id |-> g.sender_id, payer |-> g.sender, trx |-> g.trx,
           replace |-> FALSE])

SoftFail(g) ==
  /\ ~ Expired(g)
  /\ g.sender # NoSender
  /\ db' \in OnError(g)
  /\ Receipt(g)
  /\ UNCHANGED blacklist

\* With a sender, the exception is that of the error handler.
HardFail(g) ==
  /\ ~ Expired(g)
  /\ g.sender = NoSender => FailsForGood(g)
  /\ db' = Removed(g)
  /\ Receipt(g)
  /\ Blacklist(g)

SubjectiveSquashedMutant(g) ==
  /\ ~ Expired(g)
  /\ db' = Removed(g)
  /\ Blacklist(g)
  /\ UNCHANGED receipts

\* Not squashed, so the transaction is there again; it ran longer than this
\* node lets a transaction run, or is of an account it does not serve.
SubjectiveFail(g) ==
  /\ ~ Expired(g)
  /\ Blacklist(g)
  /\ UNCHANGED <<db, receipts>>

\* push_scheduled_transaction as the loop calls it.  The RAM that
\* remove_scheduled_transaction gives back must have been charged.
PushScheduled(g) ==
  /\ g \in Ahead
  /\ \A h \in Ahead \ {g} : Before(Key(g), Key(h))
  /\ db.ram[g.payer] >= Bytes(g)
  /\ Expire(g) \/ Executed(g) \/ SoftFail(g) \/ HardFail(g) \/ SubjectiveFail(g)
  /\ cursor' = Key(g)
  /\ UNCHANGED now

\* The deadline has passed or the block has no CPU or net left: the loop ends,
\* what is ahead of it stays.
BlockExhausted ==
  /\ Ahead # {}
  /\ cursor' = Exhausted
  /\ UNCHANGED <<db, now, blacklist, receipts>>

\* on_activation of a feature; of those in the model replace_deferred alone
\* changes more than the set.
Activate(d, f) ==
  LET e == [d EXCEPT !.features = @ \cup {f}]
  IN  IF f # "replace_deferred" THEN e
      ELSE [e EXCEPT !.ram = [a \in Accounts |-> Max({0, @[a] - d.correction[a]})],
                     !.correction = [a \in Accounts |-> 0]]

NextBlockKeepsMutant ==
  /\ db' \in {ApplyLimits(db)} \cup
       {Activate(ApplyLimits(db), f) : f \in Activatable \ db.features}
  /\ now' = IF now < MaxTime THEN now + 1 ELSE now
  /\ cursor' = <<0, 0>>
  /\ UNCHANGED <<blacklist, receipts>>

\* finalize_block, and start_block of the next block, which may activate a
\* feature.  no_duplicate_deferred_id depends on replace_deferred.
NextBlock ==
  /\ db' \in {ApplyLimits(db)} \cup
       {Activate(ApplyLimits(db), f) : f \in
          {f \in Activatable \ db.features :
             f = "no_duplicate" => Active(db, "replace_deferred")}}
  /\ now' = IF now < MaxTime THEN now + 1 ELSE now
  /\ cursor' = <<0, 0>>
  /\ blacklist' = {b \in blacklist : b.until > now'}
  /\ UNCHANGED receipts

Next ==
  \/ \E trx \in Trxs : PushTransaction(trx)
  \/ \E g \in db.gtos : PushScheduled(g)
  \/ BlockExhausted
  \/ NextBlock

Spec == Init /\ [][Next]_vars

\* Blocks follow one another, and a producer that again and again has an
\* expired transaction next in its loop comes to retire it.
Fairness ==
  /\ WF_vars(NextBlock)
  /\ SF_vars(\E g \in db.gtos : Expired(g) /\ PushScheduled(g))

FairSpec == Spec /\ Fairness

------------------------------------------------------------------------------
(* Properties.                                                             *)

\* The RAM usage kept for an account, which operations of many kinds change
\* step by step, is what it has in the database; before replace_deferred it
\* exceeds that by the correction the activation will take off.  The total
\* of the limits, kept across blocks, is their sum.
RamIsAccounted ==
  /\ \A a \in Accounts \ Unbilled : db.ram[a] = Stored(db, a) + db.correction[a]
  /\ db.total = Sum([a \in Accounts |-> Positive(db.limits[a])])

\* Every permission but owner has a parent, and every link names a permission
\* of the account: without one, check_authorization throws for the action.
\* The second holds once only_link_to_existing_permission is active from the
\* start; a link made before may name a permission of another account.
AuthorizationIntact ==
  /\ Rooted(db)
  /\ Active(Genesis, "only_link") => LinksResolve(db)

\* A generated transaction is pending, or cancelled or replaced, or has one
\* receipt, and never two of them: push_scheduled_transaction removes it
\* first and gives it back only if it pushes no receipt.
RetiredOnce ==
  \A i \in 1..(db.next_id - 1) :
    Cardinality({g \in db.gtos : g.id = i}) + receipts[i]
      + (IF i \in db.dropped THEN 1 ELSE 0) = 1

\* The RAM of an account never grows past its limit: finalize verifies every
\* account charged, in the handler of an error too.
GrowthWithinLimit ==
  [][\A a \in Accounts : db'.ram[a] > db.ram[a] =>
       Limit(db', a) < 0 \/ db'.ram[a] <= Limit(db', a)]_vars

\* Every generated transaction comes to an end: one that is skipped while it
\* is blacklisted, or starves behind others, expires.
EveryGeneratedEnds ==
  \A i \in Ids : (\E g \in db.gtos : g.id = i) ~> ~ \E g \in db.gtos : g.id = i
==============================================================================

---------------------------- MODULE Authorization ----------------------------
(***************************************************************************)
(* The permissions of accounts, the links of actions to permissions and    *)
(* the RAM both are billed for: authorization_manager, the native actions  *)
(* of eosio_contract.cpp and the RAM part of resource_limits_manager.      *)
(*                                                                         *)
(* A database `db` is a record:                                            *)
(*   perms   by <<account, name>>: the parent's name and the size of the   *)
(*           authority.  The code keeps the parent's id; a permission with *)
(*           children is never removed, so a name stands for one id.       *)
(*   links   by <<account, code, type>>: the required permission           *)
(*   ram     by account: resource_usage_object::ram_usage                  *)
(*   limits, pending   by account: ram_bytes in force and as set in this   *)
(*           block; -1 is unlimited, Unset is no pending object            *)
(*   total   resource_limits_state_object::total_ram_bytes                 *)
(*   validate   transaction_context::validate_ram_usage                    *)
(* A native action maps a database to the set of databases it may leave;   *)
(* the empty set is an exception, on which the transaction is undone.      *)
(*                                                                         *)
(* Keys, weights and waits of an authority are abstracted to its size: the *)
(* signatures of a transaction may or may not satisfy it, and one that     *)
(* does not is refused without effect.                                     *)
(***************************************************************************)
EXTENDS Integers, FiniteSets, Functions

CONSTANTS
  Accounts,         \* account names
  Names,            \* permission names
  AccountBytes,     \* overhead_per_account_ram_bytes
  PermissionBytes,  \* billable_size_v<permission_object>
  LinkBytes         \* billable_size_v<permission_link_object>

AnyPermission == "eosio.any"
NoParent == "no parent"    \* parent id 0
Default == "any type"      \* the empty type: a link for the whole contract
Unset == -2
Basic == {"owner", "active"}
SystemAccount == "eosio"
\* The actions whose permission check_authorization finds by a rule of its own.
OwnRule == {"updateauth", "deleteauth", "linkauth", "unlinkauth", "canceldelay"}

ASSUME AuthorizationAssumption ==
  /\ Basic \subseteq Names
  /\ AnyPermission \notin Names /\ NoParent \notin Names
  /\ AccountBytes \in Nat /\ PermissionBytes \in Nat /\ LinkBytes \in Nat

Exists(db, a) == <<a, "owner">> \in DOMAIN db.perms
Has(db, a, p) == <<a, p>> \in DOMAIN db.perms
Without(f, x) == [y \in DOMAIN f \ {x} |-> f[y]]
With(f, x, v) == [y \in DOMAIN f \cup {x} |-> IF y = x THEN v ELSE f[y]]

------------------------------------------------------------------------------
(* RAM.                                                                    *)

AddRamSilentMutant(db, a, n) ==
  IF db.ram[a] + n < 0 THEN {} ELSE {[db EXCEPT !.ram[a] = @ + n]}

\* add_ram_usage: every account charged is verified at the end of the
\* transaction, whatever the sum of its charges.
AddRam(db, a, n) ==
  IF db.ram[a] + n < 0
  THEN {}
  ELSE {[db EXCEPT !.ram[a] = @ + n,
                   !.validate = IF n > 0 THEN @ \cup {a} ELSE @]}

Limit(db, a) == IF db.pending[a] # Unset THEN db.pending[a] ELSE db.limits[a]

\* verify_account_ram_usage for each account in validate_ram_usage.
RamVerified(db) ==
  \A a \in db.validate : Limit(db, a) >= 0 => db.ram[a] <= Limit(db, a)

\* set_account_limits; that the limit covers what is used is not required.
SetLimits(db, act) ==
  IF ~ Exists(db, act.target) THEN {}
  ELSE {[db EXCEPT !.pending[act.target] = act.ram]}

Positive(n) == IF n > 0 THEN n ELSE 0

\* process_account_limit_updates, at the end of a block.
ApplyLimits(db) ==
  LET due == {a \in Accounts : db.pending[a] # Unset}
  IN  [db EXCEPT
         !.limits  = [a \in Accounts |-> Limit(db, a)],
         !.pending = [a \in Accounts |-> Unset],
         !.total   = @ + SumFunctionOnSet(
                           [a \in Accounts |-> Positive(db.pending[a])
                                               - Positive(db.limits[a])], due)]

------------------------------------------------------------------------------
(* Which permission an action needs.                                       *)

\* permission_object::satisfies: p is q or above it.  The walk up from q
\* meets p exactly if every set with q that is closed under parents has p.
Satisfies(db, a, p, q) ==
  /\ Has(db, a, p) /\ Has(db, a, q)
  /\ \A S \in SUBSET Names :
       (/\ q \in S
        /\ \A x \in S : Has(db, a, x) =>
             db.perms[<<a, x>>].parent \in S \cup {NoParent})
       => p \in S

\* lookup_linked_permission: the link of the type, else that of the contract.
Linked(db, a, code, type) ==
  { db.links[k] : k \in {<<a, code, type>>} \cap DOMAIN db.links }
  \cup { db.links[k] : k \in { k \in {<<a, code, Default>>} \cap DOMAIN db.links :
                                 <<a, code, type>> \notin DOMAIN db.links } }

\* lookup_minimum_permission, and the test of a declared permission with it.
MeetsMinimum(db, a, p, code, type) ==
  LET linked == Linked(db, a, code, type)
  IN  \/ AnyPermission \in linked
      \/ linked = {} /\ Satisfies(db, a, p, "active")
      \/ \E q \in linked : Satisfies(db, a, p, q)

\* The action of this code and type may be linked.  Before the feature
\* fix_linkauth_restriction the type alone decides.
Linkable(db, code, type) ==
  type \in OwnRule => code # SystemAccount /\ "fix_linkauth" \in db.features

\* check_updateauth_authorization ... check_unlinkauth_authorization, and
\* the general case for an action of a contract.
MinimumMet(db, act) ==
  CASE act.op = "updateauth" ->
         Satisfies(db, act.account, act.auth,
                   IF Has(db, act.account, act.permission)
                   THEN act.permission ELSE act.parent)
    [] act.op = "deleteauth" ->
         Satisfies(db, act.account, act.auth, act.permission)
    [] act.op = "linkauth" ->
         /\ Linkable(db, act.code, act.type)
         /\ MeetsMinimum(db, act.account, act.auth, act.code, act.type)
    [] act.op = "unlinkauth" ->
         LET linked == Linked(db, act.account, act.code, act.type)
         IN  /\ linked # {}
             /\ AnyPermission \notin linked =>
                  \E q \in linked : Satisfies(db, act.account, act.auth, q)
    [] OTHER -> MeetsMinimum(db, act.account, act.auth, act.code, act.type)

------------------------------------------------------------------------------
(* The native actions.                                                     *)

PermissionSize(row) == PermissionBytes + row.size

NewAccount(db, act) ==
  IF ~ Exists(db, act.account) \/ Exists(db, act.name)
  THEN {}
  ELSE LET perms == With(With(db.perms,
                       <<act.name, "owner">>, [parent |-> NoParent, size |-> act.size]),
                       <<act.name, "active">>, [parent |-> "owner", size |-> act.size])
       IN  AddRam([db EXCEPT !.perms = perms], act.name,
                  AccountBytes + 2 * (PermissionBytes + act.size))

\* A new permission is billed for, a changed one for the difference.
UpdateAuth(db, act) ==
  LET key == <<act.account, act.permission>>
      row == [parent |-> act.parent, size |-> act.size]
      new == [db EXCEPT !.perms = With(db.perms, key, row)]
      allowed ==
        /\ Exists(db, act.account)
        /\ act.permission # act.parent
        /\ act.permission = "active" => act.parent = "owner"
        /\ IF act.permission = "owner" THEN act.parent = NoParent
           ELSE Has(db, act.account, act.parent)
        /\ key \in DOMAIN db.perms => db.perms[key].parent = act.parent
  IN  IF ~ allowed THEN {}
      ELSE AddRam(new, act.account,
                  PermissionSize(row)
                  - IF key \in DOMAIN db.perms
                    THEN PermissionSize(db.perms[key]) ELSE 0)

LinksTo(db, a, p) == {k \in DOMAIN db.links : k[1] = a /\ db.links[k] = p}
Children(db, a, p) == {k \in DOMAIN db.perms : k[1] = a /\ db.perms[k].parent = p}

DeleteAuthLinkedMutant(db, act) ==
  LET key == <<act.account, act.permission>>
  IN  IF act.permission \in Basic \/ key \notin DOMAIN db.perms
           \/ Children(db, act.account, act.permission) # {}
      THEN {}
      ELSE AddRam([db EXCEPT !.perms = Without(db.perms, key)], act.account,
                  0 - PermissionSize(db.perms[key]))

\* deleteauth with remove_permission: not while it is linked or has children.
DeleteAuth(db, act) ==
  LET key == <<act.account, act.permission>>
  IN  IF \/ act.permission \in Basic
         \/ LinksTo(db, act.account, act.permission) # {}
         \/ key \notin DOMAIN db.perms
         \/ Children(db, act.account, act.permission) # {}
      THEN {}
      ELSE AddRam([db EXCEPT !.perms = Without(db.perms, key)], act.account,
                  0 - PermissionSize(db.perms[key]))

\* The permission must exist: that of the account once the feature
\* only_link_to_existing_permission is active, one of any account before.
MayLinkTo(db, a, p) ==
  \/ p = AnyPermission
  \/ Has(db, a, p)
  \/ "only_link" \notin db.features /\ \E b \in Accounts : Has(db, b, p)

LinkAuth(db, act) ==
  LET key == <<act.account, act.code, act.type>>
      new == [db EXCEPT !.links = With(db.links, key, act.requirement)]
  IN  IF \/ ~ Exists(db, act.account) \/ ~ Exists(db, act.code)
         \/ ~ MayLinkTo(db, act.account, act.requirement)
      THEN {}
      ELSE IF key \notin DOMAIN db.links
      THEN AddRam(new, act.account, LinkBytes)
      ELSE IF db.links[key] = act.requirement THEN {} ELSE {new}

UnlinkAuth(db, act) ==
  LET key == <<act.account, act.code, act.type>>
  IN  IF key \notin DOMAIN db.links
      THEN {}
      ELSE AddRam([db EXCEPT !.links = Without(db.links, key)], act.account,
                  0 - LinkBytes)

------------------------------------------------------------------------------
\* Every permission but owner has a parent.
Rooted(db) ==
  \A k \in DOMAIN db.perms :
    IF k[2] = "owner" THEN db.perms[k].parent = NoParent
    ELSE Has(db, k[1], db.perms[k].parent)

\* Every link names a permission of the account.
LinksResolve(db) ==
  \A k \in DOMAIN db.links :
    db.links[k] = AnyPermission \/ Has(db, k[1], db.links[k])
==============================================================================

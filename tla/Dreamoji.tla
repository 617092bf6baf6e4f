------------------------------ MODULE Dreamoji ------------------------------
(***************************************************************************)
(* The NFT contract: its tables and one action per contract action.  A     *)
(* failed check aborts the transaction, so it is a guard.                  *)
(*                                                                         *)
(* A token type is a category and token name.  The contract's loops over a *)
(* batch of ids treat each id alike and one after the other, so a batch is *)
(* as many steps of the model, except in a sale, where it is one listing.  *)
(* URIs, memos, notifications and the precision of assets are left out.    *)
(* Time is left out too: a listing, a licence or a window to issue in may  *)
(* expire at any time after it was made (action Expire).  At the very      *)
(* second of its expiration a listing can be ended by its seller only,     *)
(* which is possible before it as well.                                    *)
(* `used` is history: the ids ever given to a token.                       *)
(***************************************************************************)
EXTENDS Integers, Sequences, FiniteSets, FiniteSetsExt, SequencesExt

CONSTANTS
  Self,       \* get_self(), the account of the contract
  Others,     \* the other accounts
  Kinds,      \* the parameters that create may be called with
  Prices,     \* DRMI amounts in units of 0.0001
  Spacings,   \* the spacings of doubles: the powers of two from the least one up
  One,        \* the double 1.0 (2^1074 in the code), in units of the least one
  Mantissa,   \* a double is fewer than Mantissa (2^53) times a spacing, or 0
  MaxCreated, \* bound: the number of calls of create
  MaxNft,     \* bound: the number of tokens minted
  MaxLicence, \* bound: the number of licences
  MaxIssued,  \* bound: the issued supply of a type
  MaxBatch,   \* bound: the tokens of one listing (20 in the code)
  MaxChildren, \* bound: the children of a token
  MaxRows     \* bound: the listings and licences at one time

Accounts == {Self} \cup Others
Types == {k.type : k \in Kinds}
NftIds == 0..(MaxNft - 1)
LicenceIds == 0..(MaxLicence - 1)

ASSUME DreamojiAssumption ==
  /\ Self \notin Others /\ IsFiniteSet(Others)
  /\ {MaxCreated, MaxNft, MaxLicence, MaxIssued, MaxBatch, MaxChildren,
      MaxRows} \subseteq Nat
  /\ Prices \subseteq Nat
  /\ \A k \in Kinds : /\ k.max \in Nat /\ k.days \in Nat
                      /\ k.max # 0 \/ k.days # 0
                      /\ k.split \in 0..One

\* Powers of two, each a multiple of the smaller ones.
ASSUME DoubleAssumption ==
  /\ Spacings \subseteq Nat \ {0}
  /\ {1, One} \subseteq Spacings
  /\ \A s, t \in Spacings : s < t => t % (2 * s) = 0
  /\ Mantissa \in Nat \ {0}
  /\ MaxBatch <= One

VARIABLES
  names,     \* the types created so far; category_name_id is an index of it
  next_nft_id, next_licence_id,  \* tokenconfigs
  dreamstats,\* by type
  dreams,    \* by token id
  accounts,  \* by owner and category_name_id; 0 where there is no row
  lockednfts, linkednfts,  \* sets of token ids
  asks,      \* by batch id
  sales,     \* by token id
  licences,  \* by licence id, all in the scope Self
  used       \* history

marketVars == <<asks, sales, licences>>
supplyVars == <<names, dreamstats>>
vars == <<names, next_nft_id, next_licence_id, dreamstats, dreams, accounts,
          lockednfts, linkednfts, asks, sales, licences, used>>

\* emplace and modify of a row, and erase.
Set(table, key, row) == [k \in DOMAIN table \cup {key} |->
                           IF k = key THEN row ELSE table[k]]
Erase(table, key) == [k \in DOMAIN table \ {key} |-> table[k]]

-----------------------------------------------------------------------------
\* _add_balance and _sub_balance; a row whose amount becomes 0 is erased.
_add_balance(bal, owner, cid, q) == [bal EXCEPT ![owner][cid] = @ + q]
_sub_balance(bal, owner, cid, q) == [bal EXCEPT ![owner][cid] = @ - q]

\* Mutant of Create: the id is the one before the increment of the last.
CreateLastIdMutant(k) ==
  /\ Len(names) < MaxCreated
  /\ k.type \notin DOMAIN dreamstats
  /\ dreamstats' = Set(dreamstats, k.type,
       [kind |-> k, cid |-> Len(names), max_supply |-> k.max,
        window |-> IF k.days = 0 THEN "none" ELSE "open",
        current_supply |-> 0, issued_supply |-> 0])
  /\ names' = Append(names, k.type)
  /\ UNCHANGED <<next_nft_id, next_licence_id, dreams, accounts, lockednfts,
                 linkednfts, marketVars, used>>
\* The row of a type with changed supplies.
Supplied(st, current, issued) ==
  [st EXCEPT !.current_supply = @ + current, !.issued_supply = @ + issued]

\* create.  max_issue_days = 0 needs a max_supply (_checkasset).
Create(k) ==
  /\ Len(names) < MaxCreated
  /\ k.type \notin DOMAIN dreamstats
  /\ dreamstats' = Set(dreamstats, k.type,
       [kind |-> k, cid |-> Len(names) + 1, max_supply |-> k.max,
        window |-> IF k.days = 0 THEN "none" ELSE "open",
        current_supply |-> 0, issued_supply |-> 0])
  /\ names' = Append(names, k.type)
  /\ UNCHANGED <<next_nft_id, next_licence_id, dreams, accounts, lockednfts,
                 linkednfts, marketVars, used>>

\* Mutant of _nextnftid: available_primary_key(), one more than the last row.
AvailableKeyMutant == IF dreams = <<>> THEN 0 ELSE Max(DOMAIN dreams) + 1
_nextnftid == next_nft_id

\* _mint, q times.
Minted(to, t, q) ==
  [i \in _nextnftid .. (_nextnftid + q - 1) |->
     [serial |-> dreamstats[t].issued_supply + 1 + (i - _nextnftid),
      owner |-> to, type |-> t, children |-> <<>>]]

\* Mutant of MayIssue: max_supply bounds what is left, not what was issued.
MayIssueOnCurrentMutant(st, q) ==
  /\ st.window # "closed"
  /\ st.max_supply # 0 => q <= st.max_supply - st.current_supply
\* The window and the supply that issue checks.
MayIssue(st, q) ==
  /\ st.window # "closed"
  /\ st.max_supply # 0 => q <= st.max_supply - st.issued_supply

\* issue, by the issuer of the type.
Issue(to, t, q) ==
  LET st == dreamstats[t]
      minted == IF st.kind.fungible THEN <<>> ELSE Minted(to, t, q)
  IN  /\ t \in DOMAIN dreamstats
      /\ MayIssue(st, q)
      /\ st.issued_supply + q <= MaxIssued
      /\ DOMAIN minted \subseteq NftIds
      /\ dreams' = [i \in DOMAIN dreams \cup DOMAIN minted |->
                      IF i \in DOMAIN minted THEN minted[i] ELSE dreams[i]]
      /\ next_nft_id' = IF st.kind.fungible THEN next_nft_id ELSE _nextnftid + q
      /\ used' = used \cup DOMAIN minted
      /\ accounts' = _add_balance(accounts, to, st.cid, q)
      /\ dreamstats' = Set(dreamstats, t, Supplied(st, q, q))
      /\ UNCHANGED <<names, next_licence_id, lockednfts, linkednfts, marketVars>>

\* freezemaxsup, by the contract's account.
FreezeMaxSup(t) ==
  /\ t \in DOMAIN dreamstats
  /\ dreamstats[t].window # "none"
  /\ dreamstats[t].issued_supply # 0
  /\ dreamstats' = Set(dreamstats, t,
       [dreamstats[t] EXCEPT !.max_supply = dreamstats[t].issued_supply,
                             !.window = "none"])
  /\ UNCHANGED <<names, next_nft_id, next_licence_id, dreams, accounts,
                 lockednfts, linkednfts, marketVars, used>>

\* burnnft of one token.  The row of a type that is burned out is erased; links,
\* listings and the children of other tokens are left as they are.
BurnNft(owner, i) ==
  LET t == dreams[i].type
      st == dreamstats[t]
  IN  /\ i \in DOMAIN dreams
      /\ dreams[i].owner = owner
      /\ t \in DOMAIN dreamstats
      /\ st.kind.burnable /\ ~ st.kind.fungible
      /\ i \notin lockednfts
      /\ accounts[owner][st.cid] >= 1
      /\ dreamstats' = IF st.current_supply = 1 THEN Erase(dreamstats, t)
                       ELSE Set(dreamstats, t, Supplied(st, -1, -1))
      /\ accounts' = _sub_balance(accounts, owner, st.cid, 1)
      /\ dreams' = Erase(dreams, i)
      /\ UNCHANGED <<names, next_nft_id, next_licence_id, lockednfts,
                     linkednfts, marketVars, used>>

\* Mutant of BurnFt: the supply is not lowered.
BurnFtKeepsSupplyMutant(owner, cid, q) ==
  /\ cid \in 1..Len(names)
  /\ accounts[owner][cid] >= q
  /\ names[cid] \in DOMAIN dreamstats
  /\ accounts' = _sub_balance(accounts, owner, cid, q)
  /\ UNCHANGED <<names, dreamstats, next_nft_id, next_licence_id, dreams,
                 lockednfts, linkednfts, marketVars, used>>
\* burnft: it checks neither burnable nor fungible.
BurnFt(owner, cid, q) ==
  /\ cid \in 1..Len(names)
  /\ accounts[owner][cid] >= q
  /\ names[cid] \in DOMAIN dreamstats
  /\ accounts' = _sub_balance(accounts, owner, cid, q)
  /\ dreamstats' = Set(dreamstats, names[cid], Supplied(dreamstats[names[cid]], -q, 0))
  /\ UNCHANGED <<names, next_nft_id, next_licence_id, dreams, lockednfts,
                 linkednfts, marketVars, used>>

TransferFt(from, to, t, q) ==
  LET st == dreamstats[t]
  IN  /\ from # to
      /\ t \in DOMAIN dreamstats
      /\ st.kind.transferable /\ st.kind.fungible
      /\ accounts[from][st.cid] >= q
      /\ accounts' = _add_balance(_sub_balance(accounts, from, st.cid, q), to, st.cid, q)
      /\ UNCHANGED <<supplyVars, next_nft_id, next_licence_id, dreams,
                     lockednfts, linkednfts, marketVars, used>>

-----------------------------------------------------------------------------
\* The tokens that a recursion over children visits from token i, parents
\* first.  A child that was burned is visited, and NoToken is where a recursion
\* over a cycle would go on forever; the contract aborts on both.
NoToken == -1
Walk(i) ==
  LET w[d \in 0..Cardinality(DOMAIN dreams)] == [j \in NftIds |->
        IF j \notin DOMAIN dreams THEN <<j>>
        ELSE IF d = 0 THEN <<NoToken>>
        ELSE <<j>> \o FlattenSeq([c \in DOMAIN dreams[j].children |->
                                    w[d - 1][dreams[j].children[c]]])]
  IN  w[Cardinality(DOMAIN dreams)][i]
WalkAll(ids) == FlattenSeq([k \in DOMAIN ids |-> Walk(ids[k])])

\* How many of the tokens v have the category_name_id cid.
Moved(v, cid) ==
  Cardinality({k \in DOMAIN v : dreamstats[dreams[v[k]].type].cid = cid})

\* Mutant of MayChangeOwner: only the listed tokens are looked up as locked.
MayChangeOwnerTopMutant(from, to, ids, locks) ==
  LET v == WalkAll(ids)
  IN  /\ ToSet(v) \subseteq DOMAIN dreams
      /\ ToSet(ids) \cap locks = {}
      /\ \A i \in ToSet(v) : dreams[i].type \in DOMAIN dreamstats
      /\ \A c \in 1..MaxCreated :
           Moved(v, c) <= accounts[from][c] \/ (from = to /\ accounts[from][c] >= 1)
\* What _changeowner checks of the tokens ids and of all they are parents of,
\* with the tokens `locks` locked.
MayChangeOwner(from, to, ids, locks) ==
  LET v == WalkAll(ids)
  IN  /\ ToSet(v) \subseteq DOMAIN dreams
      /\ ToSet(v) \cap locks = {}
      /\ \A i \in ToSet(v) : dreams[i].type \in DOMAIN dreamstats
      /\ \A c \in 1..MaxCreated :
           Moved(v, c) <= accounts[from][c] \/ (from = to /\ accounts[from][c] >= 1)
\* _changeowner.
ChangeOwner(from, to, ids) ==
  LET v == WalkAll(ids)
      Adjusted(o) == [c \in 1..MaxCreated |->
                        accounts[o][c] + (IF o = to THEN Moved(v, c) ELSE 0)
                                       - (IF o = from THEN Moved(v, c) ELSE 0)]
  IN  /\ dreams' = [i \in DOMAIN dreams |->
                      IF i \in ToSet(v) THEN [dreams[i] EXCEPT !.owner = to]
                                        ELSE dreams[i]]
      /\ accounts' = [o \in Accounts |-> Adjusted(o)]

\* transfernft of one token.
TransferNft(from, to, i) ==
  /\ from # to
  /\ i \in DOMAIN dreams \ linkednfts
  /\ dreams[i].owner = from
  /\ MayChangeOwner(from, to, <<i>>, lockednfts)
  /\ dreamstats[dreams[i].type].kind.transferable
  /\ ChangeOwner(from, to, <<i>>)
  /\ UNCHANGED <<supplyVars, next_nft_id, next_licence_id, lockednfts,
                 linkednfts, marketVars, used>>

\* linknfts of one child.  The caller need not be the owner.
LinkNft(i, parent) ==
  /\ {i, parent} \subseteq DOMAIN dreams
  /\ dreams[i].owner = dreams[parent].owner
  /\ i \notin linkednfts
  /\ Len(dreams[parent].children) < MaxChildren
  /\ linkednfts' = linkednfts \cup {i}
  /\ dreams' = [dreams EXCEPT ![parent].children = Append(@, i)]
  /\ UNCHANGED <<supplyVars, next_nft_id, next_licence_id, accounts,
                 lockednfts, marketVars, used>>

\* erase of std::remove: the children other than i.
Unlinked(children, i) ==
  FlattenSeq([k \in DOMAIN children |->
                IF children[k] = i THEN <<>> ELSE <<children[k]>>])

\* unlinknfts of one child, which need not be a child of that parent.
UnlinkNft(i, parent) ==
  /\ {i, parent} \subseteq DOMAIN dreams
  /\ i \in linkednfts
  /\ linkednfts' = linkednfts \ {i}
  /\ dreams' = [dreams EXCEPT ![parent].children = Unlinked(@, i)]
  /\ UNCHANGED <<supplyVars, next_nft_id, next_licence_id, accounts,
                 lockednfts, marketVars, used>>

-----------------------------------------------------------------------------
MinPrice == 200   \* .02 * pow(10, 4)
Rows == Cardinality(DOMAIN asks) + Cardinality(DOMAIN sales) + Cardinality(DOMAIN licences)

\* nftokensale.  The batch is named after its first token.
NfTokenSale(seller, ids, price) ==
  /\ price > MinPrice
  /\ Rows < MaxRows
  /\ ids[1] \notin DOMAIN asks
  /\ IsInjective(ids)
  /\ \A i \in ToSet(ids) :
       /\ i \in DOMAIN dreams \ linkednfts
       /\ dreams[i].type \in DOMAIN dreamstats
       /\ dreamstats[dreams[i].type].kind.sellable
       /\ dreams[i].owner = seller
       /\ i \notin lockednfts
  /\ lockednfts' = lockednfts \cup ToSet(ids)
  /\ asks' = Set(asks, ids[1], [nft_ids |-> ids, seller |-> seller, amount |-> price,
                                expired |-> FALSE])
  /\ UNCHANGED <<supplyVars, next_nft_id, next_licence_id, dreams, accounts,
                 linkednfts, sales, licences, used>>

\* licencesale of one token, which may be locked already.
LicenceSale(seller, i, price, limit) ==
  /\ price > MinPrice
  /\ Rows < MaxRows
  /\ i \in DOMAIN dreams \ linkednfts
  /\ dreams[i].owner = seller
  /\ i \notin DOMAIN sales
  /\ lockednfts' = lockednfts \cup {i}
  /\ sales' = Set(sales, i, [seller |-> seller, price |-> price, limit |-> limit,
                             expired |-> FALSE])
  /\ UNCHANGED <<supplyVars, next_nft_id, next_licence_id, dreams, accounts,
                 linkednfts, asks, licences, used>>

\* _createlicence of token i and of all it is a parent of.
CreateLicence(i, owner, to, relicense) ==
  LET v == Walk(i)
      new == next_licence_id .. (next_licence_id + Len(v) - 1)
  IN  /\ ToSet(v) \subseteq DOMAIN dreams
      /\ new \subseteq LicenceIds /\ Rows + Len(v) <= MaxRows
      /\ next_licence_id' = next_licence_id + Len(v)
      /\ licences' = [l \in DOMAIN licences \cup new |->
                        IF l \in new
                          THEN [nft_id |-> v[l - next_licence_id + 1], owner |-> owner,
                                licensed_to |-> to, expired |-> FALSE,
                                relicense |-> relicense]
                          ELSE licences[l]]
      /\ lockednfts' = lockednfts \cup ToSet(v)

\* license of one token.  The caller need not be its owner.
License(owner, to, i, relicense) ==
  /\ to # {} /\ owner \notin to
  /\ i \in DOMAIN dreams
  /\ CreateLicence(i, owner, to, relicense)
  /\ UNCHANGED <<supplyVars, next_nft_id, dreams, accounts, linkednfts, asks,
                 sales, used>>

\* extend and revoke look in the scope of the owner, and the licences are in the
\* scope of the contract.
LicencesOf(owner) == IF owner = Self THEN licences ELSE <<>>

Extend(owner, l) ==
  /\ l \in DOMAIN LicencesOf(owner)
  /\ licences[l].owner = owner
  /\ licences[l].relicense
  /\ licences[l].expired
  /\ licences' = [licences EXCEPT ![l].expired = FALSE]
  /\ UNCHANGED <<supplyVars, next_nft_id, next_licence_id, dreams, accounts,
                 lockednfts, linkednfts, asks, sales, used>>

\* revoke of one licence.  The lock goes with the last licensee, unless some
\* licence has the token's id as its own.
Revoke(owner, from, l) ==
  LET left == licences[l].licensed_to \ from
      i == licences[l].nft_id
  IN  /\ l \in DOMAIN LicencesOf(owner)
      /\ licences[l].owner = owner
      /\ licences[l].expired
      /\ Cardinality(from) <= Cardinality(licences[l].licensed_to)
      /\ \/ /\ left # {}
            /\ licences' = [licences EXCEPT ![l].licensed_to = left]
            /\ UNCHANGED lockednfts
         \/ /\ left = {}
            /\ i \in lockednfts
            /\ licences' = Erase(licences, l)
            /\ lockednfts' = IF i \in DOMAIN LicencesOf(owner) \ {l}
                               THEN lockednfts ELSE lockednfts \ {i}
      /\ UNCHANGED <<supplyVars, next_nft_id, next_licence_id, dreams, accounts,
                     linkednfts, asks, sales, used>>

\* endnftsale: by the seller, or by anyone once it has expired.
EndNftSale(seller, b) ==
  /\ b \in DOMAIN asks
  /\ ~ asks[b].expired => asks[b].seller = seller
  /\ ToSet(asks[b].nft_ids) \subseteq lockednfts
  /\ lockednfts' = lockednfts \ ToSet(asks[b].nft_ids)
  /\ asks' = Erase(asks, b)
  /\ UNCHANGED <<supplyVars, next_nft_id, next_licence_id, dreams, accounts,
                 linkednfts, sales, licences, used>>

\* endlcncsale.
EndLcncSale(seller, i) ==
  /\ i \in DOMAIN sales
  /\ ~ sales[i].expired => sales[i].seller = seller
  /\ i \in lockednfts
  /\ lockednfts' = lockednfts \ {i}
  /\ sales' = Erase(sales, i)
  /\ UNCHANGED <<supplyVars, next_nft_id, next_licence_id, dreams, accounts,
                 linkednfts, asks, licences, used>>

\* Doubles.  Spacing(x) is the distance of neighbouring doubles at x, and
\* Nearest(p, d) the double nearest to p / d, the one with the even mantissa of two.
Spacing(x) == Max({s \in Spacings : Mantissa * (s \div 2) <= x})
Nearest(p, d) ==
  LET s == Spacing(p \div d)
      q == p \div (d * s)
      r == p % (d * s)
      up == 2 * r > d * s \/ (2 * r = d * s /\ q % 2 = 1)
  IN  (IF up THEN q + 1 ELSE q) * s

\* The fee of one token of a listing: a double, truncated to an amount.
Fee(ask, i) ==
  LET amount == Nearest(ask.amount * One, 1)
      share == Nearest(amount * dreamstats[dreams[i].type].kind.split, One)
  IN  Nearest(share, Len(ask.nft_ids)) \div One
Fees(ask) == [k \in DOMAIN ask.nft_ids |-> Fee(ask, ask.nft_ids[k])]
\* Mutant of TotalFees: only the first fee of a partner is taken off the price.
TotalFeesOnceMutant(ask) ==
  LET partner(k) == dreamstats[dreams[ask.nft_ids[k]].type].kind.partner
      first == {k \in DOMAIN ask.nft_ids : \A l \in 1..(k - 1) : partner(l) # partner(k)}
  IN  SumFunctionOnSet(Fees(ask), first)
TotalFees(ask) == SumFunction(Fees(ask))
\* The accounts in the fee_map of _calcfees, and what each is owed.
Payees(ask) ==
  LET charged == {i \in ToSet(ask.nft_ids) : dreamstats[dreams[i].type].kind.split # 0}
  IN  {ask.seller} \cup {dreamstats[dreams[i].type].kind.partner : i \in charged}
Owed(ask, a) ==
  LET partnered == {k \in DOMAIN ask.nft_ids :
                      dreamstats[dreams[ask.nft_ids[k]].type].kind.partner = a}
  IN  SumFunctionOnSet(Fees(ask), partnered)
        + (IF a = ask.seller THEN ask.amount - TotalFees(ask) ELSE 0)
HasStats(ask) ==
  \A i \in ToSet(ask.nft_ids) : i \in DOMAIN dreams /\ dreams[i].type \in DOMAIN dreamstats

\* transfer of eosio.token refuses an amount that is not positive.
MayTransferDrmi(amount) == amount > 0

\* purchase of a listing for `to`, with the amount asked.
PurchaseNft(to, b) ==
  LET ask == asks[b]
      ids == ToSet(ask.nft_ids)
  IN  /\ b \in DOMAIN asks
      /\ ~ ask.expired
      /\ HasStats(ask)
      /\ \A a \in Payees(ask) \ {Self} : MayTransferDrmi(Owed(ask, a))
      /\ ids \subseteq lockednfts
      /\ MayChangeOwner(ask.seller, to, ask.nft_ids, lockednfts \ ids)
      /\ ChangeOwner(ask.seller, to, ask.nft_ids)
      /\ lockednfts' = lockednfts \ ids
      /\ asks' = Erase(asks, b)
      /\ UNCHANGED <<supplyVars, next_nft_id, next_licence_id, linkednfts,
                     sales, licences, used>>

\* purchase of a licence for `to`.
PurchaseLicence(to, i) ==
  /\ i \in DOMAIN sales
  /\ ~ sales[i].expired
  /\ sales[i].limit # 0
  /\ sales' = [sales EXCEPT ![i].limit = @ - 1]
  /\ CreateLicence(i, sales[i].seller, {to}, FALSE)
  /\ UNCHANGED <<supplyVars, next_nft_id, dreams, accounts, linkednfts, asks, used>>

\* Time passes, and the expiration of a row with it.
Expire ==
  /\ \/ /\ \E t \in DOMAIN dreamstats :
             /\ dreamstats[t].window = "open"
             /\ dreamstats' = Set(dreamstats, t, [dreamstats[t] EXCEPT !.window = "closed"])
        /\ UNCHANGED marketVars
     \/ /\ \E b \in DOMAIN asks : /\ ~ asks[b].expired
                                  /\ asks' = [asks EXCEPT ![b].expired = TRUE]
        /\ UNCHANGED <<dreamstats, sales, licences>>
     \/ /\ \E i \in DOMAIN sales : /\ ~ sales[i].expired
                                   /\ sales' = [sales EXCEPT ![i].expired = TRUE]
        /\ UNCHANGED <<dreamstats, asks, licences>>
     \/ /\ \E l \in DOMAIN licences : /\ ~ licences[l].expired
                                      /\ licences' = [licences EXCEPT ![l].expired = TRUE]
        /\ UNCHANGED <<dreamstats, asks, sales>>
  /\ UNCHANGED <<names, next_nft_id, next_licence_id, dreams, accounts, lockednfts,
                 linkednfts, used>>

-----------------------------------------------------------------------------
\* After instantiate.
Init ==
  /\ names = <<>>
  /\ next_nft_id = 0 /\ next_licence_id = 0
  /\ dreamstats = <<>> /\ dreams = <<>>
  /\ accounts = [o \in Accounts |-> [c \in 1..MaxCreated |-> 0]]
  /\ lockednfts = {} /\ linkednfts = {}
  /\ asks = <<>> /\ sales = <<>> /\ licences = <<>>
  /\ used = {}

Batches == UNION {[1..n -> NftIds] : n \in 1..MaxBatch}

Supply ==
  \/ \E k \in Kinds : Create(k)
  \/ \E t \in Types : FreezeMaxSup(t)
  \/ \E to \in Accounts, t \in Types, q \in 1..MaxIssued : Issue(to, t, q)
  \/ \E o \in Accounts, i \in NftIds : BurnNft(o, i)
  \/ \E o \in Accounts, c \in 1..MaxCreated, q \in 1..MaxIssued : BurnFt(o, c, q)

Transfers ==
  \/ \E from, to \in Accounts, t \in Types, q \in 1..MaxIssued : TransferFt(from, to, t, q)
  \/ \E from, to \in Accounts, i \in NftIds : TransferNft(from, to, i)
  \/ \E i, parent \in NftIds : LinkNft(i, parent)
  \/ \E i, parent \in NftIds : UnlinkNft(i, parent)

Sales ==
  \/ \E s \in Accounts, ids \in Batches, p \in Prices : NfTokenSale(s, ids, p)
  \/ \E s \in Accounts, b \in NftIds : EndNftSale(s, b)
  \/ \E to \in Accounts, b \in NftIds : PurchaseNft(to, b)

Licensing ==
  \/ \E s \in Accounts, i \in NftIds, p \in Prices, n \in 1..MaxLicence :
       LicenceSale(s, i, p, n)
  \/ \E s \in Accounts, i \in NftIds : EndLcncSale(s, i)
  \/ \E to \in Accounts, i \in NftIds : PurchaseLicence(to, i)
  \/ \E o \in Accounts, to \in SUBSET Accounts, i \in NftIds, r \in BOOLEAN :
       License(o, to, i, r)
  \/ \E o \in Accounts, l \in LicenceIds : Extend(o, l)
  \/ \E o \in Accounts, from \in SUBSET Accounts, l \in LicenceIds : Revoke(o, from, l)

Next == Supply \/ Transfers \/ Sales \/ Licensing \/ Expire

Spec == Init /\ [][Next]_vars

-----------------------------------------------------------------------------
TypeOK ==
  /\ names \in Seq(Types) /\ Len(names) <= MaxCreated
  /\ next_nft_id \in 0..MaxNft /\ next_licence_id \in 0..MaxLicence
  /\ DOMAIN dreamstats \subseteq Types
  /\ \A t \in DOMAIN dreamstats :
       dreamstats[t].cid \in 1..Len(names) /\ names[dreamstats[t].cid] = t
  /\ DOMAIN dreams \subseteq NftIds
  /\ \A i \in DOMAIN dreams : /\ dreams[i].owner \in Accounts
                              /\ dreams[i].children \in Seq(NftIds)
  /\ accounts \in [Accounts -> [1..MaxCreated -> Nat]]
  /\ lockednfts \subseteq NftIds /\ linkednfts \subseteq NftIds
  /\ DOMAIN asks \subseteq NftIds /\ DOMAIN sales \subseteq NftIds
  /\ DOMAIN licences \subseteq LicenceIds

(***************************************************************************)
(* The balances of all accounts in a type add up to its current_supply, and *)
(* no balance is left of a type whose row burnnft erased: whatever is      *)
(* issued, burned, transferred, sold or moved along with its parent, and   *)
(* when a type is created again under another category_name_id.            *)
(***************************************************************************)
Conservation ==
  \A c \in 1..MaxCreated :
    SumFunction([o \in Accounts |-> accounts[o][c]]) =
      SumFunction([t \in {t \in DOMAIN dreamstats : dreamstats[t].cid = c} |->
                     dreamstats[t].current_supply])

TokensOf(t) == {i \in DOMAIN dreams : dreams[i].type = t}
(***************************************************************************)
(* There is never more of a type than was issued, and never more issued    *)
(* than max_supply allows, also around freezemaxsup, which fixes it        *)
(* afterwards.  burnnft takes a token back out of issued_supply, so that   *)
(* max_supply bounds the tokens there are at one time, not those issued    *)
(* over time as dgoods_spec.md 181 has it: of a non-fungible type that was *)
(* not created again there are exactly issued_supply.                      *)
(***************************************************************************)
SupplyInBounds ==
  \A t \in DOMAIN dreamstats :
    LET st == dreamstats[t]
        createdOnce == \A c \in 1..Len(names) : names[c] = t => c = st.cid
    IN  /\ st.current_supply <= st.issued_supply
        /\ st.max_supply # 0 => st.issued_supply <= st.max_supply
        /\ createdOnce /\ ~ st.kind.fungible => Cardinality(TokensOf(t)) = st.issued_supply

(***************************************************************************)
(* _calcfees divides exactly the amount asked among the partners and the   *)
(* seller, and nobody gets a negative share although the share of every    *)
(* token is rounded three times as a double: for an amount a double holds  *)
(* exactly, which all below Mantissa are.  Several tokens may have one     *)
(* partner, the seller may be one, and the division may leave a remainder. *)
(***************************************************************************)
FeesAddUp ==
  \A b \in DOMAIN asks :
    LET ask == asks[b]
    IN  HasStats(ask) =>
          /\ SumFunction([a \in Payees(ask) |-> Owed(ask, a)]) = ask.amount
          /\ ask.amount < Mantissa => \A a \in Payees(ask) : Owed(ask, a) >= 0

(***************************************************************************)
(* A token gets an id no token ever had ("available_primary_key() will     *)
(* reuse id's if last minted token is burned"), so that listings, locks,   *)
(* links and licences that outlive a token never apply to another one.     *)
(***************************************************************************)
IdsNeverReused == [][(DOMAIN dreams' \ DOMAIN dreams) \cap used = {}]_vars

(***************************************************************************)
(* A locked token keeps its owner, also when it is a child of a token that *)
(* is transferred or sold; it moves only by the sale of a listing that it  *)
(* is itself part of.                                                      *)
(***************************************************************************)
LockedStaysPut ==
  [][\A i \in lockednfts \cap DOMAIN dreams \cap DOMAIN dreams' :
       dreams'[i].owner # dreams[i].owner =>
         \E b \in DOMAIN asks \ DOMAIN asks' : i \in ToSet(asks[b].nft_ids)]_vars

(***************************************************************************)
(* nftokensale "marks token as not transferable while listed for sale": a  *)
(* token that is listed is locked and still the seller's.                  *)
(***************************************************************************)
ListedIsSellers ==
  \A b \in DOMAIN asks : \A i \in ToSet(asks[b].nft_ids) :
    /\ i \in lockednfts \cap DOMAIN dreams
    /\ dreams[i].owner = asks[b].seller
=============================================================================
